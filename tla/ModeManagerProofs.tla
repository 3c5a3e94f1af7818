------------------------- MODULE ModeManagerProofs -------------------------
(***************************************************************************)
(* Proofs about ModeManager, for any callers and any number of records.    *)
(***************************************************************************)
EXTENDS ModeManager, TLAPS

Inside == {"append", "publish"}

\* Who is inside transition() holds the mode lock, and nobody else does.
LockIsHeld == \A c \in Callers : calls[c].step \in Inside <=> holder = c

\* What the caller inside has decided still follows from the organization in
\* force; it publishes legal changes only.
DecisionStands ==
  \A c \in Callers :
    /\ calls[c].step \in Inside =>
         /\ calls[c].outcome = Outcome(calls[c].target)
         /\ calls[c].candidate = Candidate(calls[c].target)
    /\ calls[c].step = "publish" => calls[c].outcome = "APPLIED"

IInv == TypeOK /\ LockIsHeld /\ DecisionStands

IsApproval(r, c) == r.type = "AUTHORIZATION_APPROVED" /\ r.acked /\ r.by = c

\* The last record of the caller is its acknowledged approval.
ApprovalIsLast(c) ==
  \E j \in DOMAIN ledger :
    /\ IsApproval(ledger[j], c)
    /\ \A k \in (j + 1)..Len(ledger) : ledger[k].by # c

\* Who is on the way into transition() on a human decision has it recorded.
Approvals ==
  /\ AuthorizedBeforeTransition
  /\ \A c \in Callers :
       /\ calls[c].step = "idle" => calls[c].human = "nobody"
       /\ calls[c].step \in {"wait", "append"} /\ calls[c].human # "nobody" => ApprovalIsLast(c)

---------------------------------------------------------------------------
(* Values *)

LEMMA CandidateIsOrganization ==
  ASSUME org \in Organizations, NEW target \in Modes
  PROVE  Outcome(target) \in Outcomes /\ Candidate(target) \in Organizations
  BY DEF Outcome, Outcomes, Candidate, Organizations

LEMMA IdleIsActivation == Idle \in Activation
  BY DEF Idle, Activation, Steps, Modes, Outcomes, Organizations, Start

\* A step of one caller that leaves the organization alone.
LEMMA OneCallerMoves ==
  ASSUME IInv, NEW c \in Callers, NEW a \in Activation,
         calls' = [calls EXCEPT ![c] = a], UNCHANGED org,
         ledger' \in Seq(Records), holder' \in Callers \cup {NoCaller},
         a.step \in Inside <=> holder' = c,
         \A d \in Callers \ {c} : holder' = d <=> holder = d,
         a.step \in Inside => a.outcome = Outcome(a.target) /\ a.candidate = Candidate(a.target),
         a.step = "publish" => a.outcome = "APPLIED"
  PROVE  IInv'
  <1>1. \A d \in Callers : calls'[d] = IF d = c THEN a ELSE calls[d]
    BY DEF IInv, TypeOK
  <1>2. TypeOK'
    BY DEF IInv, TypeOK
  <1>3. LockIsHeld'
    BY <1>1 DEF IInv, LockIsHeld
  <1>4. DecisionStands'
    <2> DEFINE Stands(b, o, k) == /\ b.step \in Inside => b.outcome = o /\ b.candidate = k
                                  /\ b.step = "publish" => b.outcome = "APPLIED"
    <2>1. \A d \in Callers : Stands(calls'[d], Outcome(calls'[d].target), Candidate(calls'[d].target))
      BY <1>1 DEF IInv, DecisionStands
    <2>2. QED
      BY <2>1 DEF DecisionStands, Outcome, Candidate
  <1>5. QED
    BY <1>2, <1>3, <1>4 DEF IInv

---------------------------------------------------------------------------
(* Steps *)

LEMMA InitialState == Init => IInv
  <1> SUFFICES ASSUME Init PROVE IInv
    OBVIOUS
  <1>1. org \in Organizations
    BY DEF Init, Start, Organizations, Modes
  <1>2. TypeOK
    BY <1>1, IdleIsActivation DEF Init, TypeOK
  <1>3. \A c \in Callers : calls[c].step = "idle"
    BY DEF Init, Idle
  <1>4. QED
    BY <1>2, <1>3, ModeManagerAssumption DEF Init, IInv, LockIsHeld, DecisionStands, Inside

\* What an append leaves in the ledger.
LEMMA LedgerType ==
  ASSUME TypeOK, NEW record \in Records, Appended(record) \/ AppendFails(record)
  PROVE  ledger' \in Seq(Records)
  <1>1. [record EXCEPT !.acked = FALSE] \in Records
    BY DEF Records
  <1>2. QED
    BY <1>1 DEF TypeOK, Appended, AppendFails

LEMMA RequestStep ==
  ASSUME IInv, NEW c \in Callers, NEW m \in Modes, Request(c, m)
  PROVE  IInv'
  <1> DEFINE a == [calls[c] EXCEPT !.step = "wait", !.target = m]
  <1>1. calls[c] \in Activation /\ holder # c
    BY DEF IInv, TypeOK, LockIsHeld, Inside, Request
  <1>2. a \in Activation /\ a.step = "wait"
    BY <1>1 DEF Activation, Steps
  <1>3. calls' = [calls EXCEPT ![c] = a]
    BY DEF Request
  <1>4. QED
    BY <1>1, <1>2, <1>3, OneCallerMoves DEF Request, IInv, TypeOK, Inside

LEMMA AuthorizeStep ==
  ASSUME IInv, NEW c \in Callers, NEW decision \in Decisions, Authorize(c, decision)
  PROVE  IInv'
  <1> DEFINE a == [calls[c] EXCEPT !.step = "authorize",
                                   !.human = IF decision.approved THEN "approved" ELSE "denied",
                                   !.target = decision.target, !.candidate = org]
  <1>1. calls[c] \in Activation /\ holder # c /\ org \in Organizations
    BY DEF IInv, TypeOK, LockIsHeld, Inside, Authorize
  <1>2. decision.target \in Modes
    BY DEF Decisions, Modes
  <1>3. a \in Activation /\ a.step = "authorize"
    BY <1>1, <1>2 DEF Activation, Steps
  <1>4. calls' = [calls EXCEPT ![c] = a]
    BY DEF Authorize
  <1> HIDE DEF a
  <1>5. /\ UNCHANGED org /\ holder' = holder
        /\ ledger' \in Seq(Records) /\ holder' \in Callers \cup {NoCaller}
    BY DEF Authorize, IInv, TypeOK
  <1>6. QED
    BY <1>1, <1>3, <1>4, <1>5, OneCallerMoves DEF Inside

LEMMA AppendAuthorizationStep ==
  ASSUME IInv, NEW c \in Callers, AppendAuthorization(c)
  PROVE  IInv'
  <1>1. calls[c] \in Activation /\ holder # c /\ calls[c].step = "authorize"
    BY DEF IInv, TypeOK, LockIsHeld, Inside, AppendAuthorization
  <1>2. AuthorizationRecord(c) \in Records
    BY <1>1 DEF AuthorizationRecord, Records, RecordTypes, Activation
  <1>3. ledger' \in Seq(Records)
    BY <1>2, LedgerType DEF AppendAuthorization, IInv
  <1>4. PICK a \in Activation : /\ calls' = [calls EXCEPT ![c] = a]
                                /\ a.step \in {"idle", "wait"}
    <2>1. Idle \in Activation /\ Idle.step = "idle"
      BY IdleIsActivation DEF Idle
    <2> DEFINE waiting == [calls[c] EXCEPT !.step = "wait"]
    <2>2. waiting \in Activation /\ waiting.step = "wait"
      BY <1>1 DEF Activation, Steps
    <2>3. calls' = [calls EXCEPT ![c] = waiting] \/ calls' = [calls EXCEPT ![c] = Idle]
      BY DEF AppendAuthorization, FailedAuthorization
    <2>4. QED
      BY <2>1, <2>2, <2>3
  <1>5. QED
    BY <1>1, <1>3, <1>4, OneCallerMoves DEF AppendAuthorization, IInv, TypeOK, Inside

LEMMA DecideStep ==
  ASSUME IInv, NEW c \in Callers, Decide(c)
  PROVE  IInv'
  <1> DEFINE a == [calls[c] EXCEPT !.step = "append", !.outcome = Outcome(calls[c].target),
                                   !.candidate = Candidate(calls[c].target)]
  <1>1. calls[c] \in Activation /\ org \in Organizations
    BY DEF IInv, TypeOK
  <1>2. calls[c].target \in Modes
    BY <1>1 DEF Activation
  <1>3. /\ a \in Activation /\ a.step = "append"
        /\ a.outcome = Outcome(a.target) /\ a.candidate = Candidate(a.target)
    BY <1>1, <1>2, CandidateIsOrganization DEF Activation, Steps
  <1>4. calls' = [calls EXCEPT ![c] = a] /\ holder' = c /\ holder = NoCaller
    BY DEF Decide
  <1> HIDE DEF a
  <1>5. UNCHANGED org /\ ledger' \in Seq(Records)
    BY DEF Decide, IInv, TypeOK
  <1>6. QED
    BY <1>3, <1>4, <1>5, ModeManagerAssumption, OneCallerMoves DEF Inside

LEMMA LeaveStep ==
  ASSUME IInv, NEW c \in Callers, holder = c, Leave(c), UNCHANGED org, ledger' \in Seq(Records)
  PROVE  IInv'
  <1>1. Idle \in Activation /\ Idle.step = "idle"
    BY IdleIsActivation DEF Idle
  <1>2. calls' = [calls EXCEPT ![c] = Idle] /\ holder' = NoCaller
    BY DEF Leave
  <1>3. QED
    BY <1>1, <1>2, ModeManagerAssumption, OneCallerMoves DEF Inside

LEMMA AppendTransitionStep ==
  ASSUME IInv, NEW c \in Callers, AppendTransition(c)
  PROVE  IInv'
  <1>1. /\ calls[c] \in Activation /\ holder = c /\ calls[c].step = "append"
        /\ calls[c].outcome = Outcome(calls[c].target)
        /\ calls[c].candidate = Candidate(calls[c].target)
    BY DEF IInv, TypeOK, LockIsHeld, DecisionStands, Inside, AppendTransition
  <1>2. TransitionRecord(c) \in Records
    BY <1>1 DEF TransitionRecord, Records, RecordTypes, Activation, Outcomes
  <1>3. ledger' \in Seq(Records)
    BY <1>2, LedgerType DEF AppendTransition, IInv
  <1>4. CASE Leave(c)
    BY <1>1, <1>3, <1>4, LeaveStep DEF AppendTransition
  <1>5. CASE ~Leave(c)
    <2> DEFINE a == [calls[c] EXCEPT !.step = "publish"]
    <2>1. calls' = [calls EXCEPT ![c] = a] /\ holder' = holder /\ calls[c].outcome = "APPLIED"
      BY <1>5 DEF AppendTransition, AfterFailedAppend
    <2>2. /\ a \in Activation /\ a.step = "publish" /\ a.outcome = "APPLIED"
          /\ a.outcome = Outcome(a.target) /\ a.candidate = Candidate(a.target)
      BY <1>1, <2>1 DEF Activation, Steps
    <2>3. QED
      BY <1>1, <1>3, <2>1, <2>2, OneCallerMoves DEF AppendTransition, IInv, TypeOK, Inside
  <1>6. QED
    BY <1>4, <1>5

\* The publication: only its caller was inside, so nobody's decision is undone.
LEMMA PublishStep ==
  ASSUME IInv, NEW c \in Callers, Publish(c)
  PROVE  IInv' /\ org' = Candidate(calls[c].target) /\ Outcome(calls[c].target) = "APPLIED"
  <1>1. /\ calls[c] \in Activation /\ holder = c
        /\ calls[c].outcome = Outcome(calls[c].target) /\ calls[c].outcome = "APPLIED"
        /\ calls[c].candidate = Candidate(calls[c].target)
    BY DEF IInv, TypeOK, LockIsHeld, DecisionStands, Inside, Publish
  <1>2. org' \in Organizations
    BY <1>1 DEF Publish, Activation
  <1>3. \A d \in Callers : calls'[d] = IF d = c THEN Idle ELSE calls[d]
    BY DEF Publish, Leave, IInv, TypeOK
  <1>4. \A d \in Callers : calls'[d].step \notin Inside
    BY <1>1, <1>3 DEF IInv, LockIsHeld, Idle, Inside
  <1>5. TypeOK'
    BY <1>2, IdleIsActivation DEF Publish, Leave, IInv, TypeOK
  <1>6. LockIsHeld' /\ DecisionStands'
    BY <1>4, ModeManagerAssumption DEF LockIsHeld, DecisionStands, Inside, Publish, Leave
  <1>7. QED
    BY <1>1, <1>5, <1>6 DEF IInv, Publish

\* Every step keeps the invariant, and changes the organization legally.
LEMMA InvariantStep == IInv /\ [Next]_vars => IInv'
  <1> SUFFICES ASSUME IInv, [Next]_vars PROVE IInv'
    OBVIOUS
  <1>1. ASSUME NEW c \in Callers, NEW m \in Modes, Request(c, m) PROVE IInv'
    BY <1>1, RequestStep
  <1>2. ASSUME NEW c \in Callers, NEW d \in Decisions, Authorize(c, d) PROVE IInv'
    BY <1>2, AuthorizeStep
  <1>3. ASSUME NEW c \in Callers, AppendAuthorization(c) PROVE IInv'
    BY <1>3, AppendAuthorizationStep
  <1>4. ASSUME NEW c \in Callers, Decide(c) PROVE IInv'
    BY <1>4, DecideStep
  <1>5. ASSUME NEW c \in Callers, AppendTransition(c) PROVE IInv'
    BY <1>5, AppendTransitionStep
  <1>6. ASSUME NEW c \in Callers, Publish(c) PROVE IInv'
    BY <1>6, PublishStep
  <1>7. CASE UNCHANGED vars
    <2>1. \A m : Outcome(m)' = Outcome(m) /\ Candidate(m)' = Candidate(m)
      BY <1>7 DEF vars, Outcome, Candidate
    <2>2. QED
      BY <1>7, <2>1 DEF vars, IInv, TypeOK, LockIsHeld, DecisionStands, Outcome, Candidate
  <1>8. QED
    BY <1>1, <1>2, <1>3, <1>4, <1>5, <1>6, <1>7 DEF Next, Proceed

LEMMA StepIsLegal ==
  ASSUME IInv, [Next]_vars
  PROVE  [ /\ org'.version = org.version + 1
           /\ <<org.mode, org'.mode>> \in LegalTransitions ]_org
  <1>1. ASSUME NEW c \in Callers, Publish(c)
        PROVE  org'.version = org.version + 1 /\ <<org.mode, org'.mode>> \in LegalTransitions
    <2>1. org' = Candidate(calls[c].target) /\ Outcome(calls[c].target) = "APPLIED"
      BY <1>1, PublishStep
    <2>2. org' = [version |-> org.version + 1, mode |-> calls[c].target]
      BY <2>1 DEF Candidate
    <2>3. <<org.mode, calls[c].target>> \in LegalTransitions
      BY <2>1 DEF Outcome
    <2>4. QED
      BY <2>2, <2>3
  <1>2. CASE ~\E c \in Callers : Publish(c)
    BY <1>2 DEF Next, Proceed, vars, Request, Authorize, AppendAuthorization, Decide,
                AppendTransition
  <1>3. QED
    BY <1>1, <1>2

---------------------------------------------------------------------------
(* Approvals *)

\* What is appended leaves the other records where they are.
LEMMA AppendedRecord ==
  ASSUME TypeOK, NEW r \in Records, ledger' = Append(ledger, r)
  PROVE  /\ Len(ledger) \in Nat /\ DOMAIN ledger = 1..Len(ledger)
         /\ Len(ledger') = Len(ledger) + 1 /\ DOMAIN ledger' = 1..(Len(ledger) + 1)
         /\ \A i \in 1..Len(ledger) : ledger'[i] = ledger[i]
         /\ ledger'[Len(ledger) + 1] = r
  BY DEF TypeOK

\* The last word of a caller stays its last word while others append.
LEMMA OthersKeepApproval ==
  ASSUME TypeOK, NEW c \in Callers, ApprovalIsLast(c),
         \/ ledger' = ledger
         \/ \E r \in Records : r.by # c /\ ledger' = Append(ledger, r)
  PROVE  ApprovalIsLast(c)'
  <1>1. CASE ledger' = ledger
    BY <1>1 DEF ApprovalIsLast
  <1>2. ASSUME NEW r \in Records, r.by # c, ledger' = Append(ledger, r)
        PROVE  ApprovalIsLast(c)'
    <2>1. PICK j \in DOMAIN ledger : /\ IsApproval(ledger[j], c)
                                     /\ \A k \in (j + 1)..Len(ledger) : ledger[k].by # c
      BY DEF ApprovalIsLast
    <2>2. j \in DOMAIN ledger' /\ ledger'[j] = ledger[j] /\ j \in 1..Len(ledger)
      BY <1>2, <2>1, AppendedRecord
    <2>3. ASSUME NEW k \in (j + 1)..Len(ledger') PROVE ledger'[k].by # c
      <3>1. CASE k = Len(ledger) + 1
        BY <1>2, <3>1, AppendedRecord
      <3>2. CASE k # Len(ledger) + 1
        <4>1. k \in (j + 1)..Len(ledger) /\ k \in 1..Len(ledger)
          BY <1>2, <2>2, <2>3, <3>2, AppendedRecord
        <4>2. QED
          BY <1>2, <2>1, <4>1, AppendedRecord
      <3>3. QED
        BY <3>1, <3>2
    <2>4. QED
      BY <2>1, <2>2, <2>3 DEF ApprovalIsLast, IsApproval
  <1>3. QED
    BY <1>1, <1>2

\* A record of a transition may follow the approval that is last.
LEMMA AppendKeepsAuthorized ==
  ASSUME TypeOK, AuthorizedBeforeTransition, NEW r \in Records, ledger' = Append(ledger, r),
         r.type \in {"TRANSITION", "TRANSITION_NO_OP", "TRANSITION_REJECTED"} /\ r.human # "nobody"
           => ApprovalIsLast(r.by)
  PROVE  AuthorizedBeforeTransition'
  <1> DEFINE Asks(l, i) == /\ l[i].type \in {"TRANSITION", "TRANSITION_NO_OP", "TRANSITION_REJECTED"}
                           /\ l[i].human # "nobody"
             Precedes(l, i, j) == /\ IsApproval(l[j], l[i].by)
                                  /\ \A k \in (j + 1)..(i - 1) : l[k].by # l[i].by
  <1>1. \A i \in DOMAIN ledger : Asks(ledger, i) => \E j \in 1..(i - 1) : Precedes(ledger, i, j)
    BY DEF AuthorizedBeforeTransition, IsApproval
  <1>2. ASSUME NEW i \in DOMAIN ledger', Asks(ledger', i)
        PROVE  \E j \in 1..(i - 1) : Precedes(ledger', i, j)
    <2>1. CASE i = Len(ledger) + 1
      <3>1. ledger'[i] = r /\ ApprovalIsLast(r.by)
        BY <1>2, <2>1, AppendedRecord
      <3>2. PICK j \in DOMAIN ledger : /\ IsApproval(ledger[j], r.by)
                                       /\ \A k \in (j + 1)..Len(ledger) : ledger[k].by # r.by
        BY <3>1 DEF ApprovalIsLast
      <3>3. /\ j \in 1..(i - 1) /\ ledger'[j] = ledger[j]
            /\ \A k \in (j + 1)..(i - 1) : k \in (j + 1)..Len(ledger) /\ ledger'[k] = ledger[k]
        BY <2>1, <3>2, AppendedRecord
      <3>4. Precedes(ledger', i, j)
        BY <3>1, <3>2, <3>3 DEF IsApproval
      <3>5. QED
        BY <3>3, <3>4
    <2>2. CASE i # Len(ledger) + 1
      <3>1. i \in DOMAIN ledger /\ i \in 1..Len(ledger) /\ ledger'[i] = ledger[i]
        BY <1>2, <2>2, AppendedRecord
      <3>2. PICK j \in 1..(i - 1) : Precedes(ledger, i, j)
        BY <1>1, <1>2, <3>1
      <3>3. ledger'[j] = ledger[j] /\ \A k \in (j + 1)..(i - 1) : ledger'[k] = ledger[k]
        BY <3>1, <3>2, AppendedRecord
      <3>4. Precedes(ledger', i, j)
        BY <3>1, <3>2, <3>3 DEF IsApproval
      <3>5. QED
        BY <3>4
    <2>3. QED
      BY <2>1, <2>2
  <1>3. QED
    BY <1>2 DEF AuthorizedBeforeTransition, IsApproval

\* What a caller does to the ledger and to its own activation.
LEMMA ApprovalsStay ==
  ASSUME IInv, Approvals, NEW c \in Callers, NEW a \in Activation,
         calls' = [calls EXCEPT ![c] = a],
         \/ ledger' = ledger
         \/ \E r \in Records :
              /\ r.by = c /\ ledger' = Append(ledger, r)
              /\ r.type \in {"TRANSITION", "TRANSITION_NO_OP", "TRANSITION_REJECTED"}
                   /\ r.human # "nobody" => ApprovalIsLast(c),
         a.step = "idle" => a.human = "nobody",
         a.step \in {"wait", "append"} /\ a.human # "nobody" => ApprovalIsLast(c)'
  PROVE  Approvals'
  <1>1. \A d \in Callers : calls'[d] = IF d = c THEN a ELSE calls[d]
    BY DEF IInv, TypeOK
  <1>2. AuthorizedBeforeTransition'
    <2>1. CASE ledger' = ledger
      BY <2>1 DEF Approvals, AuthorizedBeforeTransition
    <2>2. CASE ledger' # ledger
      BY <2>2, AppendKeepsAuthorized DEF IInv, Approvals
    <2>3. QED
      BY <2>1, <2>2
  <1>3. ASSUME NEW d \in Callers \ {c}, ApprovalIsLast(d)
        PROVE  ApprovalIsLast(d)'
    BY <1>3, OthersKeepApproval DEF IInv
  <1>4. ASSUME NEW d \in Callers
        PROVE  /\ calls'[d].step = "idle" => calls'[d].human = "nobody"
               /\ calls'[d].step \in {"wait", "append"} /\ calls'[d].human # "nobody"
                    => ApprovalIsLast(d)'
    <2>1. CASE d = c
      BY <1>1, <2>1
    <2>2. CASE d # c
      BY <1>1, <1>3, <2>2 DEF Approvals
    <2>3. QED
      BY <2>1, <2>2
  <1>5. QED
    BY <1>2, <1>4 DEF Approvals

LEMMA ApprovalsStep ==
  ASSUME IInv, Approvals, [Next]_vars
  PROVE  Approvals'
  <1> USE DEF IInv, TypeOK
  <1>1. ASSUME NEW c \in Callers, NEW m \in Modes, Request(c, m) PROVE Approvals'
    <2> DEFINE a == [calls[c] EXCEPT !.step = "wait", !.target = m]
    <2>1. calls[c] \in Activation /\ calls[c].human = "nobody"
      BY <1>1 DEF Request, Approvals
    <2>2. a \in Activation /\ a.step = "wait" /\ a.human = "nobody"
      BY <2>1 DEF Activation, Steps
    <2>3. calls' = [calls EXCEPT ![c] = a] /\ ledger' = ledger
      BY <1>1 DEF Request
    <2> HIDE DEF a
    <2>4. QED
      BY <2>2, <2>3, ApprovalsStay
  <1>2. ASSUME NEW c \in Callers, NEW e \in Decisions, Authorize(c, e) PROVE Approvals'
    <2> DEFINE a == [calls[c] EXCEPT !.step = "authorize",
                                     !.human = IF e.approved THEN "approved" ELSE "denied",
                                     !.target = e.target, !.candidate = org]
    <2>1. calls[c] \in Activation /\ e.target \in Modes /\ org \in Organizations
      BY DEF Decisions, Modes
    <2>2. a \in Activation /\ a.step = "authorize"
      BY <2>1 DEF Activation, Steps
    <2>3. calls' = [calls EXCEPT ![c] = a] /\ ledger' = ledger
      BY <1>2 DEF Authorize
    <2> HIDE DEF a
    <2>4. QED
      BY <2>2, <2>3, ApprovalsStay
  <1>3. ASSUME NEW c \in Callers, AppendAuthorization(c) PROVE Approvals'
    <2> DEFINE r == AuthorizationRecord(c)
               s == [r EXCEPT !.acked = FALSE]
               a == [calls[c] EXCEPT !.step = "wait"]
    <2>1. calls[c] \in Activation
      OBVIOUS
    <2>2. r \in Records /\ r.by = c /\ r.type \in {"AUTHORIZATION_APPROVED", "AUTHORIZATION_REJECTED"}
      BY <2>1 DEF AuthorizationRecord, Records, RecordTypes, Activation
    <2>3. s \in Records /\ s.by = c /\ s.type = r.type
      BY <2>2 DEF Records
    <2>4. a \in Activation /\ a.step = "wait" /\ a.human = calls[c].human
      BY <2>1 DEF Activation, Steps
    <2>5. Idle \in Activation /\ Idle.step = "idle" /\ Idle.human = "nobody"
      BY IdleIsActivation DEF Idle
    <2>6. CASE /\ calls' = [calls EXCEPT ![c] = a] /\ calls[c].human = "approved"
               /\ ledger' = Append(ledger, r)
      <3>1. IsApproval(r, c)
        BY <2>6 DEF IsApproval, AuthorizationRecord
      <3>2. ApprovalIsLast(c)'
        <4>1. /\ Len(ledger) + 1 \in DOMAIN ledger' /\ ledger'[Len(ledger) + 1] = r
              /\ (Len(ledger) + 1 + 1)..Len(ledger') = {}
          BY <2>2, <2>6, AppendedRecord
        <4>2. QED
          BY <3>1, <4>1 DEF ApprovalIsLast, IsApproval
      <3> HIDE DEF a, r
      <3>3. QED
        BY <2>2, <2>4, <2>6, <3>2, ApprovalsStay
    <2>7. CASE calls' = [calls EXCEPT ![c] = Idle]
      <3>1. ledger' = ledger \/ ledger' = Append(ledger, r) \/ ledger' = Append(ledger, s)
        BY <1>3 DEF AppendAuthorization, Appended, AppendFails
      <3> HIDE DEF r, s
      <3>2. QED
        BY <2>2, <2>3, <2>5, <2>7, <3>1, ApprovalsStay
    <2>8. QED
      BY <1>3, <2>6, <2>7 DEF AppendAuthorization, FailedAuthorization, Appended
  <1>4. ASSUME NEW c \in Callers, Decide(c) PROVE Approvals'
    <2> DEFINE a == [calls[c] EXCEPT !.step = "append", !.outcome = Outcome(calls[c].target),
                                     !.candidate = Candidate(calls[c].target)]
    <2>1. calls[c] \in Activation /\ calls[c].target \in Modes /\ org \in Organizations
      BY DEF Activation
    <2>2. a \in Activation /\ a.step = "append" /\ a.human = calls[c].human
      BY <2>1, CandidateIsOrganization DEF Activation, Steps
    <2>3. calls' = [calls EXCEPT ![c] = a] /\ ledger' = ledger /\ calls[c].step = "wait"
      BY <1>4 DEF Decide
    <2>4. calls[c].human # "nobody" => ApprovalIsLast(c)'
      BY <2>3, OthersKeepApproval DEF Approvals
    <2> HIDE DEF a
    <2>5. QED
      BY <2>2, <2>3, <2>4, ApprovalsStay
  <1>5. ASSUME NEW c \in Callers, AppendTransition(c) PROVE Approvals'
    <2> DEFINE r == TransitionRecord(c)
               s == [r EXCEPT !.acked = FALSE]
               a == [calls[c] EXCEPT !.step = "publish"]
    <2>1. calls[c] \in Activation /\ calls[c].step = "append"
      BY <1>5 DEF AppendTransition
    <2>2. r \in Records /\ r.by = c /\ r.human = calls[c].human
      BY <2>1 DEF TransitionRecord, Records, RecordTypes, Activation, Outcomes
    <2>3. s \in Records /\ s.by = c /\ s.human = calls[c].human
      BY <2>2 DEF Records
    <2>4. calls[c].human # "nobody" => ApprovalIsLast(c)
      BY <2>1 DEF Approvals
    <2>5. a \in Activation /\ a.step = "publish"
      BY <2>1 DEF Activation, Steps
    <2>6. Idle \in Activation /\ Idle.step = "idle" /\ Idle.human = "nobody"
      BY IdleIsActivation DEF Idle
    <2>7. ledger' = ledger \/ ledger' = Append(ledger, r) \/ ledger' = Append(ledger, s)
      BY <1>5 DEF AppendTransition, Appended, AppendFails
    <2>8. calls' = [calls EXCEPT ![c] = a] \/ calls' = [calls EXCEPT ![c] = Idle]
      BY <1>5 DEF AppendTransition, AfterFailedAppend, Leave
    <2> HIDE DEF a, r, s
    <2>9. CASE calls' = [calls EXCEPT ![c] = a]
      BY <2>2, <2>3, <2>4, <2>5, <2>7, <2>9, ApprovalsStay
    <2>10. CASE calls' = [calls EXCEPT ![c] = Idle]
      BY <2>2, <2>3, <2>4, <2>6, <2>7, <2>10, ApprovalsStay
    <2>11. QED
      BY <2>8, <2>9, <2>10
  <1>6. ASSUME NEW c \in Callers, Publish(c) PROVE Approvals'
    <2>1. Idle \in Activation /\ Idle.step = "idle" /\ Idle.human = "nobody"
      BY IdleIsActivation DEF Idle
    <2>2. calls' = [calls EXCEPT ![c] = Idle] /\ ledger' = ledger
      BY <1>6 DEF Publish, Leave
    <2>3. QED
      BY <2>1, <2>2, ApprovalsStay
  <1>7. CASE UNCHANGED vars
    BY <1>7 DEF vars, Approvals, ApprovalIsLast, AuthorizedBeforeTransition
  <1>8. QED
    BY <1>1, <1>2, <1>3, <1>4, <1>5, <1>6, <1>7 DEF Next, Proceed

LEMMA InitialApprovals == Init => Approvals
  BY DEF Init, Idle, Approvals, AuthorizedBeforeTransition

---------------------------------------------------------------------------
(* Theorems *)

\* IInv is an invariant.
THEOREM InvariantHolds == Spec => []IInv
  BY InitialState, InvariantStep, PTL DEF Spec

\* Versions start at 1 and records carry an organization.
THEOREM TypeCorrect == Spec => []TypeOK
  <1>1. IInv => TypeOK
    BY DEF IInv
  <1>2. QED
    BY <1>1, InvariantHolds, PTL

\* However many callers ask for a mode at the same time and whatever the
\* ledger does: versions are gapless, never reused, and each change is legal.
THEOREM TransitionsAreLegal == Spec => OrganizationMovesLegally
  <1>1. IInv /\ [Next]_vars =>
          [ /\ org'.version = org.version + 1
            /\ <<org.mode, org'.mode>> \in LegalTransitions ]_org
    BY StepIsLegal
  <1>2. QED
    BY <1>1, InvariantHolds, PTL DEF Spec, OrganizationMovesLegally

\* No failure of the audit and no other caller gets a transition between a human
\* decision and its record: what was asked for on a decision was approved, and
\* the approval acknowledged, before.
THEOREM DecisionsPrecedeTransitions == Spec => []AuthorizedBeforeTransition
  <1>1. IInv /\ Approvals /\ [Next]_vars => Approvals'
    BY ApprovalsStep
  <1>2. Approvals => AuthorizedBeforeTransition
    BY DEF Approvals
  <1>3. QED
    BY <1>1, <1>2, InitialApprovals, InvariantHolds, PTL DEF Spec

---------------------------------------------------------------------------
(* The ledger tells the organization *)

\* i is the last transition among the first n records.
LastAt(n, i) ==
  /\ i \in 1..n /\ IsTransition(ledger[i])
  /\ \A j \in (i + 1)..n : ~IsTransition(ledger[j])

\* Every beginning of the ledger has a last transition, unless it has none.
LastExists ==
  \A n \in 0..Len(ledger) :
    (\A j \in 1..n : ~IsTransition(ledger[j])) \/ \E i \in 1..n : LastAt(n, i)

ChainIsLegal ==
  \A i \in DOMAIN ledger : IsTransition(ledger[i]) =>
    /\ ledger[i].org.version = Replayed(i - 1).version + 1
    /\ <<Replayed(i - 1).mode, ledger[i].org.mode>> \in LegalTransitions

\* A version needs a record.
VersionsAreRecorded ==
  \A n \in 0..Len(ledger) : Replayed(n).version \in Nat /\ Replayed(n).version <= n + 1

Publishing(c) == calls[c].step = "publish"

\* The ledger leads to the organization in force, and with the record of who
\* publishes to the organization that is published next.
InForce ==
  /\ (\A c \in Callers : ~Publishing(c)) => org = Replayed(Len(ledger))
  /\ \A c \in Callers : Publishing(c) =>
       \E i \in 1..Len(ledger) : /\ LastAt(Len(ledger), i) /\ org = Replayed(i - 1)
                                 /\ ledger[i].org = calls[c].candidate

Chain == LastExists /\ ChainIsLegal /\ VersionsAreRecorded /\ InForce

ReplaysLast ==
  \A n \in Nat : \A i \in 1..n : LastAt(n, i) => Replayed(n) = ledger[i].org

ReplaysNone ==
  \A n \in Nat : (\A j \in 1..n : ~IsTransition(ledger[j])) => Replayed(n) = Start

LEMMA ReplayedLast == ReplaysLast
  <1> USE DEF ReplaysLast
  <1> SUFFICES ASSUME NEW n \in Nat, NEW i \in 1..n, LastAt(n, i)
               PROVE  Replayed(n) = ledger[i].org
    OBVIOUS
  <1> DEFINE transitions == {k \in 1..n : IsTransition(ledger[k])}
             last == CHOOSE k \in transitions : \A j \in transitions : j <= k
  <1>1. i \in transitions /\ \A j \in transitions : j <= i
    <2>1. ASSUME NEW j \in 1..n, IsTransition(ledger[j]), ~(j <= i)
          PROVE  FALSE
      <3>1. j \in (i + 1)..n
        BY <2>1
      <3>2. QED
        BY <2>1, <3>1 DEF LastAt
    <2>2. QED
      BY <2>1 DEF LastAt
  <1>2. last \in transitions /\ \A j \in transitions : j <= last
    BY <1>1
  <1>3. last = i
    <2>1. last <= i /\ i <= last /\ last \in Nat
      BY <1>1, <1>2
    <2>2. QED
      BY <2>1
  <1>4. QED
    BY <1>1, <1>3 DEF Replayed

LEMMA ReplayedNone == ReplaysNone
  BY DEF Replayed, ReplaysNone

\* The next record leaves what the records before it lead to.
LEMMA ReplayedGrows ==
  ASSUME TypeOK, LastExists, NEW r \in Records, ledger' = Append(ledger, r),
         NEW CONSTANT m \in Nat, m = Len(ledger)
  PROVE  /\ LastExists'
         /\ \A n \in 0..m : Replayed(n)' = Replayed(n)
         /\ \A n \in 0..m : \A i \in 1..n : LastAt(n, i)' <=> LastAt(n, i)
         /\ ~IsTransition(r) => /\ Replayed(m + 1)' = Replayed(m)
                                /\ \A i \in 1..m : LastAt(m, i) => LastAt(m + 1, i)'
         /\ IsTransition(r) => /\ Replayed(m + 1)' = r.org
                               /\ LastAt(m + 1, m + 1)'
  <1>1. /\ Len(ledger') = m + 1 /\ ledger'[m + 1] = r
        /\ \A i \in 1..m : ledger'[i] = ledger[i]
    BY AppendedRecord
  <1>0. ReplaysLast' /\ ReplaysNone'
    BY ReplayedLast, ReplayedNone, PTL
  <1>2. ASSUME NEW n \in 0..m, NEW i \in 1..n
        PROVE  LastAt(n, i)' <=> LastAt(n, i)
    <2>1. n \in Nat /\ i \in 1..m /\ \A j \in (i + 1)..n : j \in 1..m
      BY <1>1
    <2>2. ledger'[i] = ledger[i] /\ \A j \in (i + 1)..n : ledger'[j] = ledger[j]
      BY <1>1, <2>1
    <2>3. QED
      BY <2>2 DEF LastAt
  <1>3. ASSUME NEW n \in 0..m, \A j \in 1..n : ~IsTransition(ledger[j])
        PROVE  \A j \in 1..n : ~IsTransition(ledger'[j])
    BY <1>1, <1>3
  <1>4. ASSUME NEW n \in 0..m
        PROVE  Replayed(n)' = Replayed(n)
    <2>1. n \in Nat
      BY <1>1
    <2>2. CASE \A j \in 1..n : ~IsTransition(ledger[j])
      <3>1. Replayed(n) = Start
        BY <2>1, <2>2, ReplayedNone DEF ReplaysNone
      <3>2. Replayed(n)' = Start
        BY <1>0, <1>3, <2>1, <2>2 DEF ReplaysNone
      <3>3. QED
        BY <3>1, <3>2
    <2>3. ASSUME NEW i \in 1..n, LastAt(n, i)
          PROVE  Replayed(n)' = Replayed(n)
      <3>1. LastAt(n, i)'
        BY <1>2, <2>3
      <3>2. Replayed(n) = ledger[i].org
        BY <2>1, <2>3, ReplayedLast DEF ReplaysLast
      <3>3. Replayed(n)' = ledger'[i].org
        BY <1>0, <2>1, <3>1 DEF ReplaysLast
      <3>4. ledger'[i] = ledger[i]
        BY <1>1
      <3>5. QED
        BY <3>2, <3>3, <3>4
    <2>4. QED
      BY <2>2, <2>3 DEF LastExists
  <1>6. ASSUME IsTransition(r)
        PROVE  Replayed(m + 1)' = r.org /\ LastAt(m + 1, m + 1)'
    <2>1. m + 1 \in 1..(m + 1) /\ m + 1 \in Nat /\ \A j \in ((m + 1) + 1)..(m + 1) : FALSE
      BY <1>1
    <2>2. LastAt(m + 1, m + 1)'
      BY <1>1, <1>6, <2>1 DEF LastAt
    <2>3. QED
      BY <1>0, <1>1, <2>1, <2>2 DEF ReplaysLast
  <1>7. ASSUME ~IsTransition(r), NEW i \in 1..m, LastAt(m, i)
        PROVE  LastAt(m + 1, i)' /\ Replayed(m + 1)' = Replayed(m)
    <2>1. /\ i \in 1..(m + 1) /\ m + 1 \in Nat
          /\ \A j \in (i + 1)..(m + 1) : j = m + 1 \/ (j \in (i + 1)..m /\ j \in 1..m)
      BY <1>1
    <2>2. LastAt(m + 1, i)'
      BY <1>1, <1>7, <2>1 DEF LastAt
    <2>3. Replayed(m) = ledger[i].org /\ ledger'[i] = ledger[i]
      BY <1>1, <1>7, ReplayedLast DEF ReplaysLast
    <2>4. Replayed(m + 1)' = ledger'[i].org
      BY <1>0, <2>1, <2>2 DEF ReplaysLast
    <2>5. QED
      BY <2>2, <2>3, <2>4
  <1>8. ASSUME ~IsTransition(r), \A j \in 1..m : ~IsTransition(ledger[j])
        PROVE  /\ \A j \in 1..(m + 1) : ~IsTransition(ledger'[j])
               /\ Replayed(m + 1)' = Replayed(m)
    <2>1. \A j \in 1..(m + 1) : j = m + 1 \/ j \in 1..m
      BY <1>1
    <2>2. \A j \in 1..(m + 1) : ~IsTransition(ledger'[j])
      BY <1>1, <1>8, <2>1
    <2>3. Replayed(m) = Start /\ Replayed(m + 1)' = Start
      <3>1. m \in Nat /\ m + 1 \in Nat
        BY <1>1
      <3>2. QED
        BY <1>0, <1>8, <2>2, <3>1, ReplayedNone DEF ReplaysNone
    <2>4. QED
      BY <2>2, <2>3
  <1>9. (\A j \in 1..m : ~IsTransition(ledger[j])) \/ \E i \in 1..m : LastAt(m, i)
    BY <1>1 DEF LastExists
  <1>10. LastExists'
    <2>1. ASSUME NEW n \in 0..(m + 1)
          PROVE  (\A j \in 1..n : ~IsTransition(ledger'[j])) \/ \E i \in 1..n : LastAt(n, i)'
      <3>1. CASE n \in 0..m
        <4>1. (\A j \in 1..n : ~IsTransition(ledger[j])) \/ \E i \in 1..n : LastAt(n, i)
          BY <3>1 DEF LastExists
        <4>2. QED
          BY <1>2, <1>3, <3>1, <4>1
      <3>2. CASE n = m + 1
        <4>1. m + 1 \in 1..(m + 1) /\ \A i \in 1..m : i \in 1..(m + 1)
          BY <1>1
        <4>2. QED
          BY <1>6, <1>7, <1>8, <1>9, <3>2, <4>1
      <3>3. QED
        BY <1>1, <3>1, <3>2
    <2>2. QED
      BY <1>1, <2>1 DEF LastExists
  <1>11. ~IsTransition(r) => /\ Replayed(m + 1)' = Replayed(m)
                             /\ \A i \in 1..m : LastAt(m, i) => LastAt(m + 1, i)'
    BY <1>7, <1>8, <1>9
  <1>12. QED
    BY <1>2, <1>4, <1>6, <1>10, <1>11

\* A step that publishes nothing and records no transition.
Quiet ==
  /\ UNCHANGED org
  /\ \A c \in Callers : /\ Publishing(c)' <=> Publishing(c)
                        /\ Publishing(c) => calls'[c].candidate = calls[c].candidate
  /\ \/ ledger' = ledger
     \/ \E r \in Records : ~IsTransition(r) /\ ledger' = Append(ledger, r)

\* A step that records the transition c is about to publish.
Recording(c) ==
  /\ UNCHANGED org
  /\ \A d \in Callers : ~Publishing(d) /\ (Publishing(d)' <=> d = c)
  /\ Len(ledger) < MaxRecords
  /\ \E r \in Records : /\ IsTransition(r) /\ ledger' = Append(ledger, r)
                        /\ r.org = calls'[c].candidate
                        /\ r.org.version = org.version + 1
                        /\ r.org.mode \in Modes
                        /\ <<org.mode, r.org.mode>> \in LegalTransitions

\* A step that publishes it.
Published(c) ==
  /\ Publishing(c) /\ org' = calls[c].candidate /\ UNCHANGED ledger
  /\ \A d \in Callers : ~Publishing(d)'

LEMMA StepKinds ==
  ASSUME IInv, [Next]_vars
  PROVE  Quiet \/ \E c \in Callers : Recording(c) \/ Published(c)
  <1>1. TypeOK /\ calls \in [Callers -> Activation] /\ Idle.step = "idle"
    BY DEF IInv, TypeOK, Idle
  <1>2. ASSUME NEW c \in Callers, ~Publishing(c), calls'[c].step # "publish",
               \A d \in Callers : d # c => calls'[d] = calls[d],
               UNCHANGED org,
               \/ ledger' = ledger
               \/ \E r \in Records : ~IsTransition(r) /\ ledger' = Append(ledger, r)
        PROVE  Quiet
    BY <1>2 DEF Quiet, Publishing
  <1>3. ASSUME NEW r \in Records, ~IsTransition(r),
               Appended(r) \/ AppendFails(r)
        PROVE  \/ ledger' = ledger
               \/ \E q \in Records : ~IsTransition(q) /\ ledger' = Append(ledger, q)
    <2>1. /\ [r EXCEPT !.acked = FALSE] \in Records
          /\ ~IsTransition([r EXCEPT !.acked = FALSE])
      BY DEF Records, IsTransition
    <2>2. QED
      BY <1>3, <2>1 DEF Appended, AppendFails
  <1>4. ASSUME NEW r \in Records, AppendFails(r)
        PROVE  \/ ledger' = ledger
               \/ \E q \in Records : ~IsTransition(q) /\ ledger' = Append(ledger, q)
    <2>1. /\ [r EXCEPT !.acked = FALSE] \in Records
          /\ ~IsTransition([r EXCEPT !.acked = FALSE])
      BY DEF Records, IsTransition
    <2>2. QED
      BY <1>4, <2>1 DEF Appended, AppendFails
  <1>5. ASSUME NEW c \in Callers,
               (\E m \in Modes : Request(c, m)) \/ (\E d \in Decisions : Authorize(c, d)) \/ Decide(c)
        PROVE  Quiet
    <2>1. /\ ledger' = ledger /\ org' = org /\ ~Publishing(c)
          /\ \A d \in Callers : d # c => calls'[d] = calls[d]
      BY <1>1, <1>5 DEF Request, Authorize, Decide, Publishing
    <2>2. calls'[c].step # "publish"
      <3>1. calls[c] \in Activation
        BY <1>1
      <3>2. ASSUME NEW m \in Modes, Request(c, m) PROVE calls'[c].step = "wait"
        BY <1>1, <3>1, <3>2 DEF Request, Activation
      <3>3. ASSUME NEW d \in Decisions, Authorize(c, d) PROVE calls'[c].step = "authorize"
        BY <1>1, <3>1, <3>3 DEF Authorize, Activation
      <3>4. ASSUME Decide(c) PROVE calls'[c].step = "append"
        BY <1>1, <3>1, <3>4 DEF Decide, Activation
      <3>5. QED
        BY <1>5, <3>2, <3>3, <3>4
    <2>3. QED
      BY <1>2, <2>1, <2>2
  <1>6. ASSUME NEW c \in Callers, AppendAuthorization(c)
        PROVE  Quiet
    <2>1. AuthorizationRecord(c) \in Records /\ ~IsTransition(AuthorizationRecord(c))
      <3>1. calls[c] \in Activation /\ calls[c].step = "authorize"
        BY <1>1, <1>6 DEF AppendAuthorization
      <3>2. QED
        BY <3>1 DEF AuthorizationRecord, Records, RecordTypes, Activation, IsTransition
    <2>2. \/ ledger' = ledger
          \/ \E r \in Records : ~IsTransition(r) /\ ledger' = Append(ledger, r)
      BY <1>3, <1>6, <2>1 DEF AppendAuthorization
    <2>3. /\ org' = org /\ ~Publishing(c) /\ calls'[c].step # "publish"
          /\ \A d \in Callers : d # c => calls'[d] = calls[d]
      <3>1. calls[c] \in Activation /\ calls[c].step = "authorize"
        BY <1>1, <1>6 DEF AppendAuthorization
      <3>2. \E a : calls' = [calls EXCEPT ![c] = a] /\ a.step # "publish"
        <4>1. CASE calls' = [calls EXCEPT ![c] = IF @.human = "approved"
                                                THEN [@ EXCEPT !.step = "wait"] ELSE Idle]
          <5>1. CASE calls[c].human = "approved"
            <6>1. [calls[c] EXCEPT !.step = "wait"].step = "wait"
              BY <3>1 DEF Activation
            <6>2. calls' = [calls EXCEPT ![c] = [calls[c] EXCEPT !.step = "wait"]]
              BY <1>1, <4>1, <5>1
            <6>3. QED
              BY <6>1, <6>2
          <5>2. CASE calls[c].human # "approved"
            BY <1>1, <4>1, <5>2
          <5>3. QED
            BY <5>1, <5>2
        <4>2. CASE calls' = [calls EXCEPT ![c] = Idle]
          BY <1>1, <4>2
        <4>3. QED
          BY <1>6, <4>1, <4>2 DEF AppendAuthorization, FailedAuthorization
      <3>3. QED
        BY <1>1, <1>6, <3>1, <3>2 DEF AppendAuthorization, Publishing
    <2>4. QED
      BY <1>2, <2>2, <2>3
  <1>7. ASSUME NEW c \in Callers, AppendTransition(c)
        PROVE  Quiet \/ Recording(c)
    <2>1. /\ calls[c] \in Activation /\ holder = c /\ calls[c].step = "append"
          /\ calls[c].outcome = Outcome(calls[c].target) /\ calls[c].outcome \in Outcomes
          /\ calls[c].candidate = Candidate(calls[c].target) /\ calls[c].candidate \in Organizations
          /\ org' = org /\ ~Publishing(c)
      BY <1>7 DEF IInv, TypeOK, LockIsHeld, DecisionStands, Inside, AppendTransition, Publishing,
                  Activation
    <2>2. TransitionRecord(c) \in Records /\ TransitionRecord(c).org = calls[c].candidate
      BY <2>1 DEF TransitionRecord, Records, RecordTypes, Activation, Outcomes
    <2>3. IsTransition(TransitionRecord(c)) <=> calls[c].outcome = "APPLIED"
      BY <2>1 DEF TransitionRecord, IsTransition, Outcomes
    <2>4. CASE /\ Leave(c)
               /\ \/ ledger' = ledger
                  \/ \E r \in Records : ~IsTransition(r) /\ ledger' = Append(ledger, r)
      <3>1. calls'[c] = Idle /\ \A d \in Callers : d # c => calls'[d] = calls[d]
        BY <1>1, <2>4 DEF Leave
      <3>2. QED
        BY <1>1, <1>2, <2>1, <2>4, <3>1
    <2>5. CASE /\ Appended(TransitionRecord(c)) /\ calls[c].outcome = "APPLIED"
               /\ calls' = [calls EXCEPT ![c].step = "publish"]
      <3>1. /\ calls'[c].step = "publish" /\ calls'[c].candidate = calls[c].candidate
            /\ \A d \in Callers : d # c => calls'[d] = calls[d]
        BY <1>1, <2>1, <2>5 DEF Activation
      <3>2. \A d \in Callers : ~Publishing(d)
        BY <2>1 DEF IInv, LockIsHeld, Inside, Publishing
      <3>3. /\ calls[c].candidate = [version |-> org.version + 1, mode |-> calls[c].target]
            /\ <<org.mode, calls[c].target>> \in LegalTransitions /\ calls[c].target \in Modes
        BY <2>1, <2>5 DEF Candidate, Outcome, Activation
      <3>4. QED
        <4> DEFINE r == TransitionRecord(c)
        <4>1. /\ r \in Records /\ IsTransition(r) /\ r.org = calls'[c].candidate
              /\ r.org.version = org.version + 1 /\ r.org.mode \in Modes
              /\ <<org.mode, r.org.mode>> \in LegalTransitions
          BY <2>2, <2>3, <2>5, <3>1, <3>3
        <4>2. Len(ledger) < MaxRecords /\ ledger' = Append(ledger, r)
          BY <2>5 DEF Appended
        <4>3. \A d \in Callers : ~Publishing(d) /\ (Publishing(d)' <=> d = c)
          BY <3>1, <3>2 DEF Publishing
        <4> HIDE DEF r
        <4>4. QED
          BY <2>1, <4>1, <4>2, <4>3 DEF Recording
    <2>6. QED
      BY <1>3, <1>4, <1>7, <2>2, <2>3, <2>4, <2>5 DEF AppendTransition, AfterFailedAppend
  <1>8. ASSUME NEW c \in Callers, Publish(c)
        PROVE  Published(c)
    <2>1. IInv' /\ holder' = NoCaller
      BY <1>8, PublishStep DEF Publish, Leave
    <2>2. \A d \in Callers : calls'[d].step \notin Inside
      BY <2>1, ModeManagerAssumption DEF IInv, LockIsHeld
    <2>3. QED
      BY <1>8, <2>2 DEF Publish, Published, Publishing, Inside
  <1>9. CASE UNCHANGED vars
    BY <1>9 DEF vars, Quiet, Publishing
  <1>10. QED
    BY <1>5, <1>6, <1>7, <1>8, <1>9 DEF Next, Proceed

LEMMA InitialChain == Init => Chain
  <1> SUFFICES ASSUME Init PROVE Chain
    OBVIOUS
  <1>1. ledger = <<>> /\ Len(ledger) = 0 /\ DOMAIN ledger = {} /\ \A j \in 1..0 : FALSE
    BY DEF Init
  <1>2. Replayed(0) = Start /\ Start.version = 1
    BY <1>1 DEF Replayed, Start
  <1>3. \A c \in Callers : ~Publishing(c)
    BY DEF Init, Idle, Publishing
  <1>4. \A n \in 0..Len(ledger) : n = 0
    BY <1>1
  <1>5. QED
    BY <1>1, <1>2, <1>3, <1>4
    DEF Init, Chain, LastExists, ChainIsLegal, VersionsAreRecorded, InForce

\* The same records lead to the same organizations.
LEMMA SameLedger ==
  ASSUME UNCHANGED ledger
  PROVE  /\ \A n : Replayed(n)' = Replayed(n)
         /\ \A n, i : LastAt(n, i)' <=> LastAt(n, i)
         /\ LastExists /\ ChainIsLegal /\ VersionsAreRecorded
              => (LastExists /\ ChainIsLegal /\ VersionsAreRecorded)'
  <1>1. \A n : Replayed(n)' = Replayed(n)
    BY DEF Replayed
  <1>2. \A n, i : LastAt(n, i)' <=> LastAt(n, i)
    BY DEF LastAt
  <1>3. LastExists => LastExists'
    BY <1>2 DEF LastExists
  <1>4. ChainIsLegal => ChainIsLegal'
    BY <1>1 DEF ChainIsLegal
  <1>5. VersionsAreRecorded => VersionsAreRecorded'
    BY <1>1 DEF VersionsAreRecorded
  <1>6. QED
    BY <1>1, <1>2, <1>3, <1>4, <1>5

\* One record more keeps the chain legal.
LEMMA ChainGrows ==
  ASSUME TypeOK, Chain, NEW r \in Records, ledger' = Append(ledger, r),
         IsTransition(r) => /\ r.org.version = Replayed(Len(ledger)).version + 1
                            /\ <<Replayed(Len(ledger)).mode, r.org.mode>> \in LegalTransitions
  PROVE  (LastExists /\ ChainIsLegal /\ VersionsAreRecorded)'
  <1>1. PICK m \in Nat : m = Len(ledger)
    BY AppendedRecord
  <1>2. /\ Len(ledger') = m + 1 /\ ledger'[m + 1] = r
        /\ DOMAIN ledger = 1..m /\ DOMAIN ledger' = 1..(m + 1)
        /\ \A i \in 1..m : ledger'[i] = ledger[i]
    BY <1>1, AppendedRecord
  <1>3. /\ LastExists'
        /\ \A n \in 0..m : Replayed(n)' = Replayed(n)
        /\ ~IsTransition(r) => Replayed(m + 1)' = Replayed(m)
        /\ IsTransition(r) => Replayed(m + 1)' = r.org
    BY <1>1, ReplayedGrows DEF Chain
  <1>4. ChainIsLegal'
    <2>1. ASSUME NEW i \in 1..(m + 1), IsTransition(ledger'[i])
          PROVE  /\ ledger'[i].org.version = Replayed(i - 1)'.version + 1
                 /\ <<Replayed(i - 1)'.mode, ledger'[i].org.mode>> \in LegalTransitions
      <3>1. i - 1 \in 0..m /\ Replayed(i - 1)' = Replayed(i - 1)
        BY <1>3
      <3>2. CASE i \in 1..m
        BY <1>2, <2>1, <3>1, <3>2 DEF Chain, ChainIsLegal
      <3>3. CASE i = m + 1
        <4>1. i - 1 = m
          BY <3>3
        <4>2. QED
          BY <1>1, <1>2, <2>1, <3>1, <3>3, <4>1
      <3>4. i \in 1..m \/ i = m + 1
        OBVIOUS
      <3>5. QED
        BY <3>2, <3>3, <3>4
    <2>2. QED
      BY <1>2, <2>1 DEF ChainIsLegal
  <1>5. VersionsAreRecorded'
    <2>1. \A n \in 0..m : Replayed(n).version \in Nat /\ Replayed(n).version <= n + 1
      BY <1>1 DEF Chain, VersionsAreRecorded
    <2>2. Replayed(m).version \in Nat /\ Replayed(m).version <= m + 1
      BY <2>1
    <2>3. Replayed(m + 1)'.version \in {Replayed(m).version, Replayed(m).version + 1}
      BY <1>1, <1>3
    <2>4. Replayed(m + 1)'.version \in Nat /\ Replayed(m + 1)'.version <= (m + 1) + 1
      BY <2>2, <2>3
    <2>5. ASSUME NEW n \in 0..(m + 1)
          PROVE  Replayed(n)'.version \in Nat /\ Replayed(n)'.version <= n + 1
      <3>1. CASE n \in 0..m
        BY <1>3, <2>1, <3>1
      <3>2. CASE n = m + 1
        BY <2>4, <3>2
      <3>3. n \in 0..m \/ n = m + 1
        OBVIOUS
      <3>4. QED
        BY <3>1, <3>2, <3>3
    <2>6. QED
      BY <1>2, <2>5 DEF VersionsAreRecorded
  <1>6. QED
    BY <1>3, <1>4, <1>5

LEMMA QuietChain ==
  ASSUME TypeOK, Chain, Quiet
  PROVE  Chain' /\ Replayed(Len(ledger))' = Replayed(Len(ledger))
  <1>1. CASE ledger' = ledger
    <2>1. InForce'
      BY <1>1, SameLedger DEF Quiet, Chain, InForce
    <2>2. QED
      BY <1>1, <2>1, SameLedger DEF Chain
  <1>2. ASSUME NEW r \in Records, ~IsTransition(r), ledger' = Append(ledger, r)
        PROVE  Chain' /\ Replayed(Len(ledger))' = Replayed(Len(ledger))
    <2>1. PICK m \in Nat : m = Len(ledger)
      BY <1>2, AppendedRecord
    <2>2. /\ Len(ledger') = m + 1 /\ \A i \in 1..m : ledger'[i] = ledger[i]
          /\ \A n \in 0..m : Replayed(n)' = Replayed(n)
          /\ Replayed(m + 1)' = Replayed(m)
          /\ \A i \in 1..m : LastAt(m, i) => LastAt(m + 1, i)'
      BY <1>2, <2>1, AppendedRecord, ReplayedGrows DEF Chain
    <2>3. Replayed(Len(ledger))' = Replayed(m + 1)'
      BY <2>2
    <2>4. InForce'
      <3>1. ASSUME \A c \in Callers : ~Publishing(c)'
            PROVE  org' = Replayed(Len(ledger))'
        BY <2>1, <2>2, <2>3, <3>1 DEF Quiet, Chain, InForce
      <3>2. ASSUME NEW c \in Callers, Publishing(c)'
            PROVE  \E i \in 1..(m + 1) : /\ LastAt(m + 1, i)' /\ org' = Replayed(i - 1)'
                                         /\ ledger'[i].org = calls'[c].candidate
        <4>1. PICK i \in 1..m : /\ LastAt(m, i) /\ org = Replayed(i - 1)
                                /\ ledger[i].org = calls[c].candidate
          BY <2>1, <3>2 DEF Quiet, Chain, InForce
        <4>2. i \in 1..(m + 1) /\ i - 1 \in 0..m
          BY <2>1
        <4>3. LastAt(m + 1, i)' /\ Replayed(i - 1)' = Replayed(i - 1) /\ ledger'[i] = ledger[i]
          BY <2>2, <4>1, <4>2
        <4>4. QED
          BY <3>2, <4>1, <4>2, <4>3 DEF Quiet
      <3>3. QED
        BY <2>2, <3>1, <3>2 DEF InForce
    <2>5. QED
      BY <1>2, <2>1, <2>2, <2>3, <2>4, ChainGrows DEF Chain
  <1>3. QED
    BY <1>1, <1>2 DEF Quiet

LEMMA RecordingChain ==
  ASSUME TypeOK, Chain, NEW c \in Callers, Recording(c)
  PROVE  /\ Chain' /\ org = Replayed(Len(ledger))
         /\ Replayed(Len(ledger))' = calls'[c].candidate
         /\ <<org, calls'[c].candidate>> \in Changes
  <1>1. PICK r \in Records : /\ IsTransition(r) /\ ledger' = Append(ledger, r)
                             /\ r.org = calls'[c].candidate
                             /\ r.org.version = org.version + 1
                             /\ r.org.mode \in Modes
                             /\ <<org.mode, r.org.mode>> \in LegalTransitions
    BY DEF Recording
  <1>2. PICK m \in Nat : m = Len(ledger)
    BY <1>1, AppendedRecord
  <1>3. org = Replayed(m) /\ org' = org
    BY <1>2 DEF Recording, Chain, InForce
  <1>4. /\ Len(ledger') = m + 1 /\ ledger'[m + 1] = r
        /\ \A n \in 0..m : Replayed(n)' = Replayed(n)
        /\ Replayed(m + 1)' = r.org /\ LastAt(m + 1, m + 1)'
    BY <1>1, <1>2, AppendedRecord, ReplayedGrows DEF Chain
  <1>5. (LastExists /\ ChainIsLegal /\ VersionsAreRecorded)'
    BY <1>1, <1>2, <1>3, ChainGrows
  <1>6. InForce'
    <2>1. m + 1 \in 1..(m + 1) /\ (m + 1) - 1 = m /\ m \in 0..m
      OBVIOUS
    <2>2. org' = Replayed((m + 1) - 1)'
      BY <1>3, <1>4, <2>1
    <2>3. ASSUME NEW d \in Callers, Publishing(d)'
          PROVE  \E i \in 1..(m + 1) : /\ LastAt(m + 1, i)' /\ org' = Replayed(i - 1)'
                                       /\ ledger'[i].org = calls'[d].candidate
      <3>1. d = c
        BY <2>3 DEF Recording
      <3>2. QED
        BY <1>1, <1>4, <2>1, <2>2, <3>1
    <2>4. Publishing(c)'
      BY DEF Recording
    <2>5. QED
      BY <1>4, <2>3, <2>4 DEF InForce
  <1>7. <<org, r.org>> \in Changes
    <2>1. org.version \in Nat \ {0} /\ org = [version |-> org.version, mode |-> org.mode]
      BY DEF TypeOK, Organizations
    <2>2. org.version <= m + 1
      <3>1. m \in 0..Len(ledger)
        BY <1>2
      <3>2. QED
        BY <1>3, <3>1 DEF Chain, VersionsAreRecorded
    <2>3. m < MaxRecords
      BY <1>2 DEF Recording
    <2>4. org.version \in 1..MaxRecords
      BY <2>1, <2>2, <2>3, ModeManagerAssumption
    <2>5. r.org = [version |-> org.version + 1, mode |-> r.org.mode]
      <3>1. r.org \in Organizations
        BY DEF Records
      <3>2. QED
        BY <1>1, <3>1 DEF Organizations
    <2>6. PICK k \in (1..MaxRecords) \X LegalTransitions :
            k[1] = org.version /\ k[2][1] = org.mode /\ k[2][2] = r.org.mode
      <3> DEFINE change == <<org.mode, r.org.mode>>
      <3>1. change \in LegalTransitions /\ change[1] = org.mode /\ change[2] = r.org.mode
        BY <1>1
      <3> HIDE DEF change
      <3>2. <<org.version, change>> \in (1..MaxRecords) \X LegalTransitions
        BY <2>4, <3>1
      <3>3. QED
        BY <3>1, <3>2
    <2>7. /\ [version |-> k[1], mode |-> k[2][1]] = org
          /\ [version |-> k[1] + 1, mode |-> k[2][2]] = r.org
      BY <2>1, <2>5, <2>6
    <2>8. <<[version |-> k[1], mode |-> k[2][1]], [version |-> k[1] + 1, mode |-> k[2][2]]>> \in Changes
      BY DEF Changes
    <2>9. QED
      BY <2>7, <2>8
  <1>8. QED
    BY <1>1, <1>2, <1>3, <1>4, <1>5, <1>6, <1>7 DEF Chain

LEMMA PublishedChain ==
  ASSUME TypeOK, Chain, NEW c \in Callers, Published(c)
  PROVE  /\ Chain' /\ org' = Replayed(Len(ledger))
         /\ Replayed(Len(ledger))' = Replayed(Len(ledger))
  <1>1. PICK m \in Nat : m = Len(ledger)
    BY DEF TypeOK
  <1>2. PICK i \in 1..m : LastAt(m, i) /\ ledger[i].org = calls[c].candidate
    BY <1>1 DEF Published, Chain, InForce
  <1>3. Replayed(m) = calls[c].candidate
    BY <1>2, ReplayedLast DEF ReplaysLast
  <1>4. org' = Replayed(m) /\ UNCHANGED ledger /\ Replayed(Len(ledger))' = Replayed(Len(ledger))
    BY <1>3, SameLedger DEF Published
  <1>5. InForce'
    BY <1>1, <1>4 DEF InForce, Published
  <1>6. QED
    BY <1>1, <1>4, <1>5, SameLedger DEF Chain

LEMMA ChainStep == IInv /\ Chain /\ [Next]_vars => Chain'
  BY StepKinds, QuietChain, RecordingChain, PublishedChain DEF IInv

---------------------------------------------------------------------------
(* The theorems about the ledger *)

\* Whoever replays the acknowledged transitions arrives at the organization in
\* force, by gapless versions and legal changes, whichever appends failed.
THEOREM LedgerTellsOrganization == Spec => []LedgerReplaysToOrganization
  <1>1. ASSUME IInv, Chain PROVE LedgerReplaysToOrganization
    <2>1. DOMAIN ledger = 1..Len(ledger)
      BY <1>1 DEF IInv, TypeOK
    <2>2. CASE \E c \in Callers : Publishing(c)
      BY <1>1, <2>1, <2>2
      DEF LedgerReplaysToOrganization, Chain, ChainIsLegal, InForce, Publishing, LastAt
    <2>3. CASE \A c \in Callers : ~Publishing(c)
      BY <1>1, <2>3
      DEF LedgerReplaysToOrganization, Chain, ChainIsLegal, InForce, Publishing
    <2>4. QED
      BY <2>2, <2>3
  <1>2. QED
    BY <1>1, InitialChain, ChainStep, InvariantHolds, PTL DEF Spec

\* The mode manager implements AuditedPublication: an organization is recorded
\* before it is published, one at a time and by a legal change.
THEOREM ManagerPublishesWhatItRecorded == Spec => RecordsThenPublishes
  <1> DEFINE recorded == [k \in {"organization"} |-> LastRecorded]
             published == [k \in {"organization"} |-> org]
  <1>1. Init => Publication!Init
    <2>1. ASSUME Init PROVE LastRecorded = Start /\ org = Start
      <3>1. Len(ledger) = 0 /\ \A j \in 1..0 : FALSE
        BY <2>1 DEF Init
      <3>2. QED
        BY <2>1, <3>1 DEF Init, LastRecorded, Replayed
    <2>2. QED
      BY <2>1 DEF Publication!Init
  <1>2. ASSUME IInv, Chain, [Next]_vars
        PROVE  [Publication!Next]_(<<recorded, published>>)
    <2>1. CASE Quiet
      <3>1. LastRecorded' = LastRecorded /\ org' = org
        BY <1>2, <2>1, QuietChain DEF IInv, LastRecorded, Quiet
      <3>2. QED
        BY <3>1
    <2>2. ASSUME NEW c \in Callers, Recording(c)
          PROVE  Publication!Record("organization")
      <3> DEFINE candidate == calls'[c].candidate
      <3>1. /\ LastRecorded = org /\ LastRecorded' = candidate /\ org' = org
            /\ <<org, candidate>> \in Changes
        BY <1>2, <2>2, RecordingChain DEF IInv, LastRecorded, Recording
      <3> HIDE DEF candidate
      <3>2. recorded = published /\ published' = published
        BY <3>1
      <3>3. recorded' = [recorded EXCEPT !["organization"] = candidate]
        BY <3>1
      <3>4. <<published["organization"], candidate>> \in Changes
        BY <3>1
      <3>5. QED
        BY <3>2, <3>3, <3>4 DEF Publication!Record
    <2>3. ASSUME NEW c \in Callers, Published(c)
          PROVE  Publication!Publish
      <3>1. LastRecorded' = LastRecorded /\ org' = LastRecorded
        BY <1>2, <2>3, PublishedChain DEF IInv, LastRecorded
      <3>2. org' # org
        <4>1. /\ org' = Candidate(calls[c].target) /\ Outcome(calls[c].target) = "APPLIED"
          BY <1>2, <2>3 DEF IInv, DecisionStands, Published, Publishing, Inside
        <4>2. org.version \in Nat /\ org'.version = org.version + 1
          BY <1>2, <4>1 DEF IInv, TypeOK, Organizations, Candidate
        <4>3. QED
          BY <4>2
      <3>3. published' = recorded /\ recorded' = recorded
        BY <3>1
      <3>4. recorded["organization"] # published["organization"]
        BY <3>1, <3>2
      <3>5. QED
        BY <3>3, <3>4 DEF Publication!Publish
    <2>4. QED
      BY <1>2, <2>1, <2>2, <2>3, StepKinds DEF Publication!Next
  <1>3. QED
    BY <1>1, <1>2, InitialChain, ChainStep, InvariantHolds, PTL
    DEF Spec, RecordsThenPublishes, Publication!Spec
===========================================================================
