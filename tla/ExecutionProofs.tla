-------------------------- MODULE ExecutionProofs ---------------------------
(***************************************************************************)
(* Proofs about CommandExecutor, for both adapters, any commands, devices, *)
(* callers and bounds, and about ProposalExecution, for any proposal, any  *)
(* actions of the fast paths, and any number of activations.               *)
(***************************************************************************)
EXTENDS SharedWorld, WorldProofs

CommandRecords == [id : Ids, key : CommandKeys, world : Nat, org : Nat]

\* The command was sent, or its receipt found, and its result is not entered yet.
Unanswered == {"verify", "before", "sync", "after", "report"}

\* What an activation c carries: a command stamped no later than the world was
\* read, current from the check on, and readings of the right kind.
CallOK(c, o) ==
  /\ c.step \in Unanswered \cup {"idle", "organization", "execute", "return"}
  /\ c.step # "idle" =>
       /\ c.cmd \in CommandRecords /\ c.began \in [world : Nat, org : Nat]
       /\ c.cmd.org <= c.began.org /\ c.began.org <= o
  /\ c.step = "organization" => c.world = c.began.world
  /\ c.step \notin {"idle", "organization"} =>
       c.cmd.world = c.began.world /\ c.cmd.org = c.began.org
  /\ c.step = "verify" => c.receipt \in Receipts
  /\ c.step \in {"before", "sync", "after", "report", "return"} => c.observed \in Observations

\* No result is known for the command between its lookup and its result.
Fresh(c, ids, keys) ==
  c.step \in Unanswered \cup {"execute"} =>
    ids[c.cmd.id] = Nothing /\ keys[c.cmd.key] = Nothing

\* A command that has no result and is not being executed was sent only by
\* attempts whose transport raised.
Sending(c, keys, s, r) ==
  \A k \in CommandKeys :
    /\ s[k] <= 1 + r[k]
    /\ keys[k] = Nothing /\ ~(c.step \in Unanswered /\ c.cmd.key = k) => s[k] = r[k]

StateTypes ==
  /\ org \in 1..MaxOrg
  /\ devices \in [Devices -> Contents]
  /\ receipts \in [Ids -> Receipts \cup {Nothing}]
  /\ byId \in [Ids -> Results \cup {Nothing}]
  /\ byKey \in [CommandKeys -> Results \cup {Nothing}]
  /\ sent \in [CommandKeys -> Nat]
  /\ raised \in [CommandKeys -> 0..MaxRaises]

ExecutorInv ==
  /\ IInv
  /\ StateTypes
  /\ CallOK(call, org)
  /\ Fresh(call, byId, byKey)
  /\ Sending(call, byKey, sent, raised)

---------------------------------------------------------------------------
(* The adapters *)

LEMMA DevicesStayTyped ==
  ASSUME StateTypes, NEW k \in CommandKeys, NEW applied \in BOOLEAN
  PROVE  DevicesAfter(k, applied) \in [Devices -> Contents]
  <1>1. TargetOf[k] \in Devices /\ EffectOf[k] \in Contents
    BY CommandExecutorAssumption
  <1>2. QED
    BY <1>1 DEF StateTypes, DevicesAfter

LEMMA AnswersAreTyped ==
  ASSUME StateTypes, NEW cmd \in CommandRecords, NEW a \in Answers(cmd)
  PROVE  /\ a.applied \in BOOLEAN
         /\ [status |-> a.status, observed |-> a.observed] \in Receipts
  <1>1. cmd.id \in Ids /\ cmd.key \in CommandKeys
    BY DEF CommandRecords
  <1>2. Effect(cmd.key) \in Observations
    BY <1>1, CommandExecutorAssumption DEF Effect, Observations
  <1>3. CASE receipts[cmd.id] # Nothing
    <2>1. receipts[cmd.id] \in Receipts
      BY <1>1, <1>3 DEF StateTypes
    <2>2. a = [status |-> receipts[cmd.id].status, applied |-> FALSE,
               observed |-> receipts[cmd.id].observed]
      BY <1>3 DEF Answers
    <2>3. QED
      BY <2>1, <2>2 DEF Receipts
  <1>4. CASE receipts[cmd.id] = Nothing /\ Adapter = "mock"
    <2>1. a \in MockAnswers(cmd.key)
      BY <1>4 DEF Answers
    <2>2. Nothing \in Observations
      BY DEF Observations
    <2>3. /\ a.status \in {"EXECUTING", "FAILED", "UNKNOWN"} /\ a.applied \in BOOLEAN
          /\ a.observed = Nothing \/ a.observed = Effect(cmd.key)
      <3>1. CASE a = [status |-> "FAILED", applied |-> FALSE, observed |-> Nothing]
        BY <3>1
      <3>2. CASE a \in [status : {"EXECUTING", "UNKNOWN"}, applied : {TRUE},
                        observed : {Effect(cmd.key)}]
        BY <3>2
      <3>3. QED
        BY <2>1, <3>1, <3>2 DEF MockAnswers
    <2>4. QED
      BY <1>2, <2>2, <2>3 DEF Receipts
  <1>5. CASE receipts[cmd.id] = Nothing /\ Adapter # "mock"
    <2>1. a \in Ros2Answers(cmd.key)
      BY <1>5 DEF Answers
    <2>2. QED
      BY <2>1 DEF Ros2Answers, Receipts
  <1>6. QED
    BY <1>3, <1>4, <1>5

LEMMA VerificationIsTyped ==
  ASSUME StateTypes, NEW k \in CommandKeys, NEW receipt \in Receipts
  PROVE  /\ VerificationStatus(k, receipt) \in {"VERIFIED", "FAILED", "UNKNOWN"}
         /\ VerifiedObservation(k, receipt) \in Observations
  <1>1. TargetOf[k] \in Devices
    BY CommandExecutorAssumption
  <1>2. devices[TargetOf[k]] \in Contents
    BY <1>1 DEF StateTypes
  <1>3. VerifiedObservation(k, receipt) \in Observations
    BY <1>1, <1>2 DEF VerifiedObservation, Receipts, Observations
  <1>4. QED
    BY <1>3 DEF VerificationStatus

---------------------------------------------------------------------------
(* Parts of a step *)

LEMMA KernelRests == IInv /\ UNCHANGED kernelVars => IInv'
  BY KernelStep

LEMMA VersionIsNat == IInv => version \in Nat
  BY WorldStateKernelAssumption DEF IInv, TypeOK

\* The activation goes on with its command; nothing else changes.
LEMMA CallMoves ==
  ASSUME ExecutorInv, IInv', UNCHANGED <<org, devices, receipts, byId, byKey, sent, raised>>,
         CallOK(call', org), Fresh(call', byId, byKey),
         \/ call.step \notin Unanswered
         \/ call'.step \in Unanswered /\ call'.cmd = call.cmd
         \/ byKey[call.cmd.key] # Nothing
  PROVE  ExecutorInv'
  <1>1. StateTypes'
    BY DEF ExecutorInv, StateTypes
  <1>2. CallOK(call', org') /\ Fresh(call', byId', byKey')
    OBVIOUS
  <1>3. Sending(call', byKey', sent', raised')
    BY DEF ExecutorInv, Sending
  <1>4. QED
    BY <1>1, <1>2, <1>3 DEF ExecutorInv

\* The result of the command is entered under its id and its key.
LEMMA Concludes ==
  ASSUME ExecutorInv, IInv', UNCHANGED <<org, devices, receipts, sent, raised>>,
         call.step \in Unanswered,
         NEW status \in {"VERIFIED", "FAILED", "UNKNOWN"}, Conclude(status),
         CallOK(call', org), call'.step \in {"idle", "return"}
  PROVE  ExecutorInv'
  <1> DEFINE result == [id |-> call.cmd.id, status |-> status]
  <1>1. call.cmd.id \in Ids /\ call.cmd.key \in CommandKeys
    BY DEF ExecutorInv, CallOK, CommandRecords, Unanswered
  <1>2. result \in Results /\ result # Nothing
    BY <1>1, CommandExecutorAssumption DEF Results
  <1>3. /\ byId' = [byId EXCEPT ![call.cmd.id] = result]
        /\ byKey' = [byKey EXCEPT ![call.cmd.key] = result]
    BY DEF Conclude, Remember
  <1> HIDE DEF result
  <1>4. StateTypes'
    BY <1>1, <1>2, <1>3 DEF ExecutorInv, StateTypes
  <1>5. Fresh(call', byId', byKey')
    BY DEF Fresh, Unanswered
  <1>6. \A k \in CommandKeys : byKey'[k] = IF k = call.cmd.key THEN result ELSE byKey[k]
    BY <1>3 DEF ExecutorInv, StateTypes
  <1>7. Sending(call', byKey', sent', raised')
    BY <1>2, <1>6 DEF ExecutorInv, Sending
  <1>8. QED
    BY <1>4, <1>5, <1>7 DEF ExecutorInv

---------------------------------------------------------------------------
(* The steps of execute() *)

LEMMA BeginStep ==
  ASSUME ExecutorInv, NEW cmd \in Commands, Begin(cmd)
  PROVE  ExecutorInv'
  <1>1. IInv'
    BY KernelRests DEF ExecutorInv, Begin
  <1>2. call.step = "idle"
    BY DEF Begin, Idle
  <1>3. version \in Nat /\ org \in Nat
    BY VersionIsNat DEF ExecutorInv, StateTypes
  <1>4. /\ call'.step = "organization" /\ call'.cmd = cmd
        /\ call'.world = version /\ call'.began = [world |-> version, org |-> org]
    BY DEF Begin
  <1>5. cmd \in CommandRecords /\ cmd.org <= org
    BY <1>3 DEF Commands, CommandRecords
  <1>6. CallOK(call', org)
    BY <1>3, <1>4, <1>5 DEF CallOK, Unanswered
  <1>7. Fresh(call', byId, byKey)
    BY <1>4 DEF Fresh, Unanswered
  <1>8. QED
    BY <1>1, <1>2, <1>6, <1>7, CallMoves DEF Begin, Unanswered

\* The organization is read after the world: equal now, it was equal then.
LEMMA ReadOrganizationStep ==
  ASSUME ExecutorInv, ReadOrganization
  PROVE  ExecutorInv'
  <1>1. IInv'
    BY KernelRests DEF ExecutorInv, ReadOrganization
  <1>2. call.step = "organization" /\ CallOK(call, org) /\ org \in Nat
    BY DEF ExecutorInv, StateTypes, ReadOrganization
  <1>3. CASE call' = Idle
    <2>1. call'.step = "idle"
      BY <1>3 DEF Idle
    <2>2. CallOK(call', org) /\ Fresh(call', byId, byKey)
      BY <2>1 DEF CallOK, Fresh, Unanswered
    <2>3. QED
      BY <1>1, <1>2, <2>2, CallMoves DEF ReadOrganization, Unanswered
  <1>4. CASE call' # Idle
    <2>1. /\ call' = [step |-> "execute", cmd |-> call.cmd, began |-> call.began]
          /\ ~Stale(call.cmd, call.world) /\ Remembered(call.cmd) = Nothing
      BY <1>4 DEF ReadOrganization
    <2>2. call.cmd.world = call.began.world /\ call.cmd.org = org
      BY <1>2, <2>1 DEF Stale, CallOK
    <2>3. call.cmd.org = call.began.org
      BY <1>2, <2>2 DEF CallOK, CommandRecords
    <2>4. CallOK(call', org)
      BY <1>2, <2>1, <2>2, <2>3 DEF CallOK, Unanswered
    <2>5. Fresh(call', byId, byKey)
      BY <2>1 DEF Fresh, Remembered
    <2>6. QED
      BY <1>1, <1>2, <2>4, <2>5, CallMoves DEF ReadOrganization, Unanswered
  <1>5. QED
    BY <1>3, <1>4

LEMMA ExecuteStep ==
  ASSUME ExecutorInv, Execute
  PROVE  ExecutorInv'
  <1>1. IInv'
    BY KernelRests DEF ExecutorInv, Execute
  <1>2. /\ call.step = "execute" /\ CallOK(call, org) /\ StateTypes
        /\ Fresh(call, byId, byKey) /\ Sending(call, byKey, sent, raised)
    BY DEF ExecutorInv, Execute
  <1>3. call.cmd \in CommandRecords /\ call.cmd.id \in Ids /\ call.cmd.key \in CommandKeys
    BY <1>2 DEF CallOK, CommandRecords
  <1>4. PICK a \in Answers(call.cmd) :
          LET receipt == [status |-> a.status, observed |-> a.observed] IN
          /\ devices' = DevicesAfter(call.cmd.key, a.applied)
          /\ receipts' = [receipts EXCEPT ![call.cmd.id] = receipt]
          /\ call' = [step |-> "verify", cmd |-> call.cmd, began |-> call.began,
                      receipt |-> receipt]
    BY DEF Execute
  <1>5. /\ sent' = [sent EXCEPT ![call.cmd.key] = sent[call.cmd.key] + 1] \/ sent' = sent
        /\ UNCHANGED <<org, byId, byKey, raised>>
    BY DEF Execute
  <1> DEFINE receipt == [status |-> a.status, observed |-> a.observed]
  <1>6. a.applied \in BOOLEAN /\ receipt \in Receipts
    BY <1>2, <1>3, AnswersAreTyped
  <1>7. /\ devices' = DevicesAfter(call.cmd.key, a.applied)
        /\ receipts' = [receipts EXCEPT ![call.cmd.id] = receipt]
        /\ call'.step = "verify" /\ call'.cmd = call.cmd /\ call'.began = call.began
        /\ call'.receipt = receipt
    BY <1>4
  <1> HIDE DEF receipt
  <1>8. devices' \in [Devices -> Contents]
    BY <1>2, <1>3, <1>6, <1>7, DevicesStayTyped
  <1>9. sent[call.cmd.key] + 1 \in Nat
    BY <1>2, <1>3 DEF StateTypes
  <1>10. StateTypes'
    BY <1>2, <1>5, <1>6, <1>7, <1>8, <1>9 DEF StateTypes
  <1>11. CallOK(call', org')
    BY <1>2, <1>5, <1>6, <1>7 DEF CallOK, Unanswered
  <1>12. Fresh(call', byId', byKey')
    BY <1>2, <1>5, <1>7 DEF Fresh
  <1>13. Sending(call', byKey', sent', raised')
    <2> SUFFICES ASSUME NEW k \in CommandKeys
                 PROVE  /\ sent'[k] <= 1 + raised[k]
                        /\ byKey[k] = Nothing /\ k # call.cmd.key => sent'[k] = raised[k]
      BY <1>5, <1>7 DEF Sending, Unanswered
    <2>1. CASE k = call.cmd.key
      <3>1. sent[k] = raised[k]
        BY <1>2, <2>1 DEF Sending, Fresh, Unanswered
      <3>2. sent'[k] = sent[k] + 1 \/ sent'[k] = sent[k]
        BY <1>2, <1>5, <2>1 DEF StateTypes
      <3>3. sent[k] \in Nat
        BY <1>2 DEF StateTypes
      <3>4. QED
        BY <2>1, <3>1, <3>2, <3>3
    <2>2. CASE k # call.cmd.key
      <3>1. sent'[k] = sent[k]
        BY <1>2, <1>5, <2>2 DEF StateTypes
      <3>2. QED
        BY <1>2, <3>1 DEF Sending, Unanswered
    <2>3. QED
      BY <2>1, <2>2
  <1>14. QED
    BY <1>1, <1>10, <1>11, <1>12, <1>13 DEF ExecutorInv

LEMMA TransportRaisesStep ==
  ASSUME ExecutorInv, TransportRaises
  PROVE  ExecutorInv'
  <1>1. IInv'
    BY KernelRests DEF ExecutorInv, TransportRaises
  <1>2. /\ call.step = "execute" /\ CallOK(call, org) /\ StateTypes
        /\ Fresh(call, byId, byKey) /\ Sending(call, byKey, sent, raised)
    BY DEF ExecutorInv, TransportRaises
  <1> DEFINE key == call.cmd.key
  <1>3. key \in CommandKeys /\ raised[key] < MaxRaises /\ MaxRaises \in Nat
    BY <1>2, CommandExecutorAssumption DEF CallOK, CommandRecords, TransportRaises
  <1>4. /\ sent' = [sent EXCEPT ![key] = sent[key] + 1]
        /\ raised' = [raised EXCEPT ![key] = raised[key] + 1]
        /\ call'.step = "idle"
        /\ UNCHANGED <<org, receipts, byId, byKey>>
    BY DEF TransportRaises, Idle
  <1> HIDE DEF key
  <1>5. PICK applied \in BOOLEAN : devices' = DevicesAfter(key, applied)
    BY DEF TransportRaises, key
  <1>6. devices' \in [Devices -> Contents]
    BY <1>2, <1>3, <1>5, DevicesStayTyped
  <1>7. sent[key] + 1 \in Nat /\ raised[key] + 1 \in 0..MaxRaises
    BY <1>2, <1>3 DEF StateTypes
  <1>8. StateTypes'
    BY <1>2, <1>4, <1>6, <1>7 DEF StateTypes
  <1>9. CallOK(call', org') /\ Fresh(call', byId', byKey')
    BY <1>4 DEF CallOK, Fresh, Unanswered
  <1>10. Sending(call', byKey', sent', raised')
    <2> SUFFICES ASSUME NEW k \in CommandKeys
                 PROVE  /\ sent'[k] <= 1 + raised'[k]
                        /\ byKey[k] = Nothing => sent'[k] = raised'[k]
      BY <1>4 DEF Sending, Unanswered
    <2>1. sent[k] \in Nat /\ raised[k] \in Nat
      BY <1>2 DEF StateTypes
    <2>2. sent[k] <= 1 + raised[k] /\ (byKey[k] = Nothing => sent[k] = raised[k])
      BY <1>2 DEF Sending, Unanswered
    <2>3. CASE k = key
      <3>1. sent'[k] = sent[k] + 1 /\ raised'[k] = raised[k] + 1
        BY <1>2, <1>4, <2>3 DEF StateTypes
      <3>2. QED
        BY <2>1, <2>2, <3>1
    <2>4. CASE k # key
      <3>1. sent'[k] = sent[k] /\ raised'[k] = raised[k]
        BY <1>2, <1>4, <2>4 DEF StateTypes
      <3>2. QED
        BY <2>2, <3>1
    <2>5. QED
      BY <2>3, <2>4
  <1>11. QED
    BY <1>1, <1>8, <1>9, <1>10 DEF ExecutorInv

LEMMA VerifyStep ==
  ASSUME ExecutorInv, Verify
  PROVE  ExecutorInv'
  <1>1. IInv'
    BY KernelRests DEF ExecutorInv, Verify
  <1>2. /\ call.step = "verify" /\ CallOK(call, org) /\ StateTypes
        /\ Fresh(call, byId, byKey)
    BY DEF ExecutorInv, Verify
  <1>3. call.cmd.key \in CommandKeys /\ call.receipt \in Receipts
    BY <1>2 DEF CallOK, CommandRecords
  <1> DEFINE status == VerificationStatus(call.cmd.key, call.receipt)
             observed == VerifiedObservation(call.cmd.key, call.receipt)
  <1>4. status \in {"VERIFIED", "FAILED", "UNKNOWN"} /\ observed \in Observations
    BY <1>2, <1>3, VerificationIsTyped
  <1>5. UNCHANGED <<org, devices, receipts, sent, raised>>
    BY DEF Verify
  <1>6. CASE status = "VERIFIED"
    <2>1. /\ call'.step = "before" /\ call'.cmd = call.cmd /\ call'.began = call.began
          /\ call'.observed = observed
          /\ UNCHANGED <<byId, byKey>>
      BY <1>6 DEF Verify
    <2> HIDE DEF status, observed
    <2>2. CallOK(call', org) /\ Fresh(call', byId, byKey)
      BY <1>2, <1>4, <2>1 DEF CallOK, Fresh, Unanswered
    <2>3. QED
      BY <1>1, <1>2, <1>5, <2>1, <2>2, CallMoves DEF Unanswered
  <1>7. CASE status # "VERIFIED"
    <2>1. Conclude(status) /\ call'.step = "idle"
      BY <1>7 DEF Verify, Idle
    <2> HIDE DEF status
    <2>2. CallOK(call', org)
      BY <2>1 DEF CallOK
    <2>3. QED
      BY <1>1, <1>2, <1>4, <1>5, <2>1, <2>2, Concludes DEF Unanswered
  <1>8. QED
    BY <1>6, <1>7

LEMMA ReadBeforeStep ==
  ASSUME ExecutorInv, ReadBefore
  PROVE  ExecutorInv'
  <1>1. IInv'
    BY KernelRests DEF ExecutorInv, ReadBefore
  <1>2. call.step = "before" /\ CallOK(call, org) /\ Fresh(call, byId, byKey)
    BY DEF ExecutorInv, ReadBefore
  <1>3. /\ call'.step = "sync" /\ call'.cmd = call.cmd /\ call'.began = call.began
        /\ call'.observed = call.observed
    BY DEF ReadBefore
  <1>4. CallOK(call', org) /\ Fresh(call', byId, byKey)
    BY <1>2, <1>3 DEF CallOK, Fresh, Unanswered
  <1>5. QED
    BY <1>1, <1>2, <1>3, <1>4, CallMoves DEF ReadBefore, Unanswered

LEMMA SyncStep ==
  ASSUME ExecutorInv, Sync
  PROVE  ExecutorInv'
  <1>1. /\ call.step = "sync" /\ CallOK(call, org) /\ Fresh(call, byId, byKey)
        /\ call.observed \in Observations
        /\ UNCHANGED <<processed, commits, org, devices, receipts, sent, raised>>
    BY DEF ExecutorInv, Sync, CallOK
  <1>2. CASE call.observed # Nothing /\ call.observed.entity \notin Entities
    <2>1. SyncFailed /\ call'.step = "idle" /\ UNCHANGED kernelVars
      BY <1>1, <1>2 DEF Sync, Idle, kernelVars
    <2>2. CallOK(call', org)
      BY <2>1 DEF CallOK
    <2>3. IInv'
      BY <2>1, KernelRests DEF ExecutorInv
    <2>4. QED
      BY <1>1, <2>1, <2>2, <2>3, Concludes DEF SyncFailed, Unanswered
  <1>3. CASE call.observed = Nothing \/ call.observed.entity \in Entities
    <2>1. /\ call'.step = "after" /\ call'.cmd = call.cmd /\ call'.began = call.began
          /\ call'.observed = call.observed
          /\ UNCHANGED <<byId, byKey>>
      BY <1>3 DEF Sync
    <2>2. CallOK(call', org) /\ Fresh(call', byId, byKey)
      BY <1>1, <2>1 DEF CallOK, Fresh, Unanswered
    <2>3. IInv'
      <3>1. CASE call.observed = Nothing
        <4>1. UNCHANGED kernelVars
          BY <1>1, <3>1 DEF Sync, kernelVars
        <4>2. QED
          BY <4>1, KernelRests DEF ExecutorInv
      <3>2. CASE call.observed # Nothing
        <4>1. /\ call.observed.entity \in Entities \cup {Unknown}
              /\ call.observed.content \in Contents
          BY <1>1, <1>3, <3>2 DEF Observations
        <4>2. Write(call.observed.entity, call.observed.content)
          BY <1>1, <1>3, <3>2 DEF Sync, Write
        <4>3. [Next]_kernelVars
          BY <4>1, <4>2 DEF Next
        <4>4. QED
          BY <4>3, KernelStep DEF ExecutorInv
      <3>3. QED
        BY <3>1, <3>2
    <2>4. QED
      BY <1>1, <2>1, <2>2, <2>3, CallMoves DEF Unanswered
  <1>4. QED
    BY <1>2, <1>3

LEMMA ReadAfterStep ==
  ASSUME ExecutorInv, ReadAfter
  PROVE  ExecutorInv'
  <1>1. IInv'
    BY KernelRests DEF ExecutorInv, ReadAfter
  <1>2. call.step = "after" /\ CallOK(call, org) /\ Fresh(call, byId, byKey)
    BY DEF ExecutorInv, ReadAfter
  <1>3. /\ call'.step = "report" /\ call'.cmd = call.cmd /\ call'.began = call.began
        /\ call'.observed = call.observed
    BY DEF ReadAfter
  <1>4. CallOK(call', org) /\ Fresh(call', byId, byKey)
    BY <1>2, <1>3 DEF CallOK, Fresh, Unanswered
  <1>5. QED
    BY <1>1, <1>2, <1>3, <1>4, CallMoves DEF ReadAfter, Unanswered

LEMMA ReportStep ==
  ASSUME ExecutorInv, Report
  PROVE  ExecutorInv'
  <1>1. IInv'
    BY KernelRests DEF ExecutorInv, Report
  <1>2. call.step = "report" /\ CallOK(call, org)
    BY DEF ExecutorInv, Report
  <1>3. /\ call'.step = "return" /\ call'.cmd = call.cmd /\ call'.began = call.began
        /\ call'.observed = call.observed
        /\ Conclude("VERIFIED") /\ UNCHANGED <<org, devices, receipts, sent, raised>>
    BY DEF Report
  <1>4. CallOK(call', org)
    BY <1>2, <1>3 DEF CallOK, Unanswered
  <1>5. QED
    BY <1>1, <1>2, <1>3, <1>4, Concludes DEF Unanswered

LEMMA ReturnStep ==
  ASSUME ExecutorInv, Return
  PROVE  ExecutorInv'
  <1>1. IInv'
    BY KernelRests DEF ExecutorInv, Return
  <1>2. call.step = "return" /\ call'.step = "idle"
    BY DEF Return, Idle
  <1>3. CallOK(call', org) /\ Fresh(call', byId, byKey)
    BY <1>2 DEF CallOK, Fresh, Unanswered
  <1>4. QED
    BY <1>1, <1>2, <1>3, CallMoves DEF Return, Unanswered

---------------------------------------------------------------------------
(* The system *)

LEMMA InitialExecutor == SystemInit => ExecutorInv
  <1> SUFFICES ASSUME SystemInit PROVE ExecutorInv
    OBVIOUS
  <1>1. IInv
    BY InitialState DEF SystemInit, Init
  <1>2. call.step = "idle"
    BY DEF SystemInit, ExecutorInit, Idle
  <1>3. devices \in [Devices -> Contents]
    BY CommandExecutorAssumption DEF SystemInit, ExecutorInit
  <1>4. StateTypes
    BY <1>3, CommandExecutorAssumption DEF SystemInit, ExecutorInit, StateTypes
  <1>5. CallOK(call, org) /\ Fresh(call, byId, byKey)
    BY <1>2 DEF CallOK, Fresh, Unanswered
  <1>6. Sending(call, byKey, sent, raised)
    BY DEF SystemInit, ExecutorInit, Sending
  <1>7. QED
    BY <1>1, <1>4, <1>5, <1>6 DEF ExecutorInv

LEMMA OthersStep ==
  ASSUME ExecutorInv, OthersWrite \/ OthersTransition
  PROVE  ExecutorInv'
  <1>1. CASE OthersWrite
    <2>1. [Next]_kernelVars /\ UNCHANGED executorVars
      BY <1>1 DEF OthersWrite, Next
    <2>2. IInv'
      BY <2>1, KernelStep DEF ExecutorInv
    <2>3. QED
      BY <2>1, <2>2 DEF executorVars, ExecutorInv, StateTypes
  <1>2. CASE OthersTransition
    <2>1. IInv'
      BY <1>2, KernelRests DEF ExecutorInv, OthersTransition
    <2>2. /\ org' = org + 1 /\ org' \in 1..MaxOrg /\ org \in Nat
          /\ UNCHANGED <<devices, receipts, byId, byKey, sent, raised, call>>
      BY <1>2, CommandExecutorAssumption DEF OthersTransition, ExecutorInv, StateTypes
    <2>3. CallOK(call', org')
      BY <2>2 DEF ExecutorInv, CallOK
    <2>4. QED
      BY <2>1, <2>2, <2>3 DEF ExecutorInv, StateTypes
  <1>3. QED
    BY <1>1, <1>2

LEMMA ExecutorStepStays == ExecutorInv /\ [SystemNext]_vars => ExecutorInv'
  <1> SUFFICES ASSUME ExecutorInv, [SystemNext]_vars PROVE ExecutorInv'
    OBVIOUS
  <1>1. ASSUME NEW cmd \in Commands, Begin(cmd) PROVE ExecutorInv'
    BY <1>1, BeginStep
  <1>2. CASE ExecutorStep
    BY <1>2, ReadOrganizationStep, ExecuteStep, TransportRaisesStep, VerifyStep, ReadBeforeStep,
       SyncStep, ReadAfterStep, ReportStep, ReturnStep DEF ExecutorStep
  <1>3. CASE OthersWrite \/ OthersTransition
    BY <1>3, OthersStep
  <1>4. CASE UNCHANGED vars
    <2>1. IInv'
      BY <1>4, KernelRests DEF ExecutorInv, vars
    <2>2. QED
      BY <1>4, <2>1 DEF vars, executorVars, ExecutorInv, StateTypes
  <1>5. QED
    BY <1>1, <1>2, <1>3, <1>4 DEF SystemNext

\* A result is entered only where there was none.
LEMMA ResultsStay ==
  ASSUME ExecutorInv, [SystemNext]_vars
  PROVE  /\ \A i \in Ids : byId[i] # Nothing => byId'[i] = byId[i]
         /\ \A k \in CommandKeys : byKey[k] # Nothing => byKey'[k] = byKey[k]
  <1>1. CASE UNCHANGED <<byId, byKey>>
    BY <1>1
  <1>2. ASSUME NEW status, Conclude(status), call.step \in Unanswered
        PROVE  /\ \A i \in Ids : byId[i] # Nothing => byId'[i] = byId[i]
               /\ \A k \in CommandKeys : byKey[k] # Nothing => byKey'[k] = byKey[k]
    <2>1. byId[call.cmd.id] = Nothing /\ byKey[call.cmd.key] = Nothing
      BY <1>2 DEF ExecutorInv, Fresh
    <2>2. QED
      BY <1>2, <2>1 DEF Conclude, Remember, ExecutorInv, StateTypes
  <1>3. \/ UNCHANGED <<byId, byKey>>
        \/ call.step \in Unanswered /\ \E status : Conclude(status)
    <2>1. CASE Verify
      BY <2>1 DEF Verify, Unanswered
    <2>2. CASE Sync
      BY <2>2 DEF Sync, SyncFailed, Unanswered
    <2>3. CASE Report
      BY <2>3 DEF Report, Unanswered
    <2>4. CASE ~(Verify \/ Sync \/ Report)
      BY <2>4 DEF SystemNext, ExecutorStep, Begin, ReadOrganization, Execute, TransportRaises,
                  ReadBefore, ReadAfter, Return, OthersWrite, OthersTransition, vars, executorVars
    <2>5. QED
      BY <2>1, <2>2, <2>3, <2>4
  <1>4. QED
    BY <1>1, <1>2, <1>3

---------------------------------------------------------------------------
(* Evidence: what an activation knows of the worlds published meanwhile *)

\* The content that entity e had, by history h, at a version from first to last.
Published(h, e, content, first, last) ==
  \E v \in (first + 1)..(last + 1) : h[v][e] = content

\* An activation c reads versions in order, and its observation, once it is
\* synchronized, is the content of some version since it began.
ReadingsOK(c, h, v) ==
  /\ c.step # "idle" => c.began.world <= v
  /\ c.step \in {"sync", "after"} =>
       c.before \in Nat /\ c.began.world <= c.before /\ c.before <= v
  /\ c.step = "after" => (c.committed => c.before < v)
  /\ c.step = "report" => (c.committed => c.changed /\ c.began.world < v)
  /\ c.step = "return" =>
       /\ c.reported \in Nat /\ c.reported <= v
       /\ c.committed => c.changed /\ c.began.world < c.reported
       /\ c.observed # Nothing =>
            Published(h, c.observed.entity, c.observed.content, c.began.world, c.reported)
  /\ c.step \in {"after", "report"} /\ c.observed # Nothing =>
       /\ c.observed.entity \in Entities
       /\ Published(h, c.observed.entity, c.observed.content, c.began.world, v)

\* A verified command was observed to have its effect, if it has one.
EffectSeen(c) ==
  c.step \in {"before", "sync", "after", "report"} /\ c.cmd.key \notin Notices =>
    c.observed # Nothing /\ c.observed.content = EffectOf[c.cmd.key]

\* The mock has a receipt only of commands that have a result or get one now,
\* and a command it acknowledged took effect.
MockOK(c, got, ids, held) ==
  Adapter = "mock" =>
    /\ \A i \in Ids : got[i] # Nothing =>
         ids[i] # Nothing \/ (c.step \in Unanswered /\ c.cmd.id = i)
    /\ c.step = "verify" /\ c.receipt.status = "EXECUTING" /\ c.cmd.key \notin Notices =>
         held[TargetOf[c.cmd.key]] = EffectOf[c.cmd.key]

\* What is remembered as verified was published.
VerifiedOK(keys, h, v) ==
  \A k \in CommandKeys \ Notices :
    keys[k] # Nothing /\ keys[k].status = "VERIFIED" =>
      \E e \in Entities : Published(h, e, EffectOf[k], 0, v)

EvidenceInv ==
  /\ ExecutorInv
  /\ ReadingsOK(call, past, version) /\ EffectSeen(call)
  /\ MockOK(call, receipts, byId, devices)
  /\ VerifiedOK(byKey, past, version)

\* The last index of a history.
LEMMA LastIndex ==
  ASSUME NEW a \in Nat, NEW b \in Nat, a <= b
  PROVE  b + 1 \in (a + 1)..(b + 1)
  OBVIOUS

\* What was published stays published.
LEMMA PublishedStays ==
  ASSUME IInv, [Next]_kernelVars, NEW e, NEW content, NEW first \in Nat, NEW last \in Nat,
         last <= version, NEW later \in Nat, last <= later,
         Published(past, e, content, first, last)
  PROVE  Published(past', e, content, first, later)
  <1>1. PICK v \in (first + 1)..(last + 1) : past[v][e] = content
    BY DEF Published
  <1>2. version \in Nat /\ v \in 1..(version + 1) /\ v \in (first + 1)..(later + 1)
    BY <1>1, KernelKnown
  <1>3. past'[v] = past[v]
    BY <1>2, HistoryStays
  <1>4. QED
    BY <1>1, <1>2, <1>3 DEF Published

LEMMA VerifiedStays ==
  ASSUME IInv, [Next]_kernelVars, VerifiedOK(byKey, past, version)
  PROVE  VerifiedOK(byKey, past', version')
  <1>1. /\ version \in Nat /\ version' \in Nat /\ version <= version'
    BY KernelKnown, HistoryStays
  <1>2. SUFFICES ASSUME NEW k \in CommandKeys \ Notices,
                        byKey[k] # Nothing, byKey[k].status = "VERIFIED"
                 PROVE  \E e \in Entities : Published(past', e, EffectOf[k], 0, version')
    BY DEF VerifiedOK
  <1>3. PICK e \in Entities : Published(past, e, EffectOf[k], 0, version)
    BY <1>2 DEF VerifiedOK
  <1>4. Published(past', e, EffectOf[k], 0, version')
    BY <1>1, <1>3, PublishedStays
  <1>5. QED
    BY <1>4

\* Whatever the kernel does, an activation that rests keeps what it knows.
LEMMA ReadingsStay ==
  ASSUME ExecutorInv, [Next]_kernelVars, ReadingsOK(call, past, version)
  PROVE  ReadingsOK(call, past', version')
  <1>1. /\ version \in Nat /\ version' \in Nat /\ version <= version' /\ IInv
        /\ call.step # "idle" => call.began.world \in Nat
    BY KernelKnown, HistoryStays DEF ExecutorInv, CallOK
  <1>2. CASE call.step \in {"after", "report"}
    <2>1. ASSUME call.observed # Nothing
          PROVE  Published(past', call.observed.entity, call.observed.content,
                           call.began.world, version')
      BY <1>1, <1>2, <2>1, PublishedStays DEF ReadingsOK
    <2>2. call.step # "return" /\ call.step # "idle" /\ call.step # "sync"
      BY <1>2
    <2>3. /\ call.began.world <= version'
          /\ call.step = "after" =>
               call.before <= version' /\ (call.committed => call.before < version')
          /\ call.step = "report" => (call.committed => call.began.world < version')
      BY <1>1, <1>2 DEF ReadingsOK
    <2>4. QED
      BY <1>2, <2>1, <2>2, <2>3 DEF ReadingsOK
  <1>3. CASE call.step = "return"
    <2>1. ASSUME call.observed # Nothing
          PROVE  Published(past', call.observed.entity, call.observed.content,
                           call.began.world, call.reported)
      BY <1>1, <1>3, <2>1, PublishedStays DEF ReadingsOK
    <2>2. call.began.world <= version' /\ call.reported <= version'
      BY <1>1, <1>3 DEF ReadingsOK
    <2>3. QED
      BY <1>3, <2>1, <2>2 DEF ReadingsOK
  <1>4. CASE call.step \notin {"after", "report", "return"}
    BY <1>1, <1>4 DEF ReadingsOK
  <1>5. QED
    BY <1>2, <1>3, <1>4

\* The receipts of the mock while the adapter rests.
LEMMA MockStays ==
  ASSUME EvidenceInv, [SystemNext]_vars, UNCHANGED <<receipts, devices>>,
         call'.step # "verify" \/ call' = call,
         call.step \in Unanswered =>
           \/ call'.step \in Unanswered /\ call'.cmd = call.cmd
           \/ byId'[call.cmd.id] # Nothing
  PROVE  MockOK(call', receipts', byId', devices')
  <1>1. \A i \in Ids : byId[i] # Nothing => byId'[i] # Nothing
    BY ResultsStay DEF EvidenceInv
  <1>2. MockOK(call, receipts, byId, devices)
    BY DEF EvidenceInv
  <1>3. QED
    BY <1>1, <1>2 DEF MockOK

\* The command of an activation, and a result that is entered for it.
LEMMA ResultEntered ==
  ASSUME ExecutorInv, call.step \in Unanswered,
         NEW status \in {"VERIFIED", "FAILED", "UNKNOWN"}, Conclude(status)
  PROVE  /\ byId'[call.cmd.id] # Nothing
         /\ \A k \in CommandKeys :
              byKey'[k] = byKey[k] \/ (k = call.cmd.key /\ byKey'[k].status = status)
  <1>1. call.cmd.id \in Ids /\ call.cmd.key \in CommandKeys
    BY DEF ExecutorInv, CallOK, CommandRecords, Unanswered
  <1> DEFINE result == [id |-> call.cmd.id, status |-> status]
  <1>2. result # Nothing /\ result.status = status
    BY <1>1, CommandExecutorAssumption
  <1>3. /\ byId' = [byId EXCEPT ![call.cmd.id] = result]
        /\ byKey' = [byKey EXCEPT ![call.cmd.key] = result]
        /\ byId \in [Ids -> Results \cup {Nothing}]
        /\ byKey \in [CommandKeys -> Results \cup {Nothing}]
    BY DEF Conclude, Remember, ExecutorInv, StateTypes
  <1> HIDE DEF result
  <1>4. QED
    BY <1>1, <1>2, <1>3

\* A result that is not VERIFIED adds nothing to what must have been published.
LEMMA FailureEntered ==
  ASSUME ExecutorInv, call.step \in Unanswered, UNCHANGED kernelVars,
         VerifiedOK(byKey, past, version),
         NEW status \in {"FAILED", "UNKNOWN"}, Conclude(status)
  PROVE  VerifiedOK(byKey', past', version')
  <1>1. \A k \in CommandKeys :
          byKey'[k] = byKey[k] \/ (k = call.cmd.key /\ byKey'[k].status = status)
    BY ResultEntered
  <1>2. UNCHANGED <<past, version>>
    BY DEF kernelVars
  <1>3. QED
    BY <1>1, <1>2 DEF VerifiedOK

LEMMA BeginEvidence ==
  ASSUME EvidenceInv, [SystemNext]_vars,
         \/ \E cmd \in Commands : Begin(cmd)
         \/ ReadOrganization \/ Return
  PROVE  EvidenceInv'
  <1>1. ExecutorInv'
    BY ExecutorStepStays DEF EvidenceInv
  <1>2. /\ UNCHANGED <<receipts, devices, byId, byKey>> /\ UNCHANGED kernelVars
        /\ call.step \notin Unanswered
        /\ \/ call'.step = "idle"
           \/ call'.step = "organization" /\ call'.began.world = version
           \/ call'.step = "execute" /\ call.step # "idle" /\ call'.began = call.began
    BY DEF Begin, ReadOrganization, Return, Idle, Unanswered
  <1>3. version \in Nat /\ version' = version /\ past' = past
    BY <1>2, KernelKnown DEF kernelVars, EvidenceInv, ExecutorInv
  <1>4. ReadingsOK(call', past', version') /\ EffectSeen(call')
    BY <1>2, <1>3 DEF EvidenceInv, ReadingsOK, EffectSeen
  <1>5. MockOK(call', receipts', byId', devices')
    BY <1>2, MockStays
  <1>6. VerifiedOK(byKey', past', version')
    BY <1>2, <1>3 DEF EvidenceInv
  <1>7. QED
    BY <1>1, <1>4, <1>5, <1>6 DEF EvidenceInv

LEMMA ExecuteEvidence ==
  ASSUME EvidenceInv, [SystemNext]_vars, Execute
  PROVE  EvidenceInv'
  <1>1. ExecutorInv'
    BY ExecutorStepStays DEF EvidenceInv
  <1>2. /\ call.step = "execute" /\ call.cmd.id \in Ids /\ call.cmd.key \in CommandKeys
        /\ byId[call.cmd.id] = Nothing /\ receipts \in [Ids -> Receipts \cup {Nothing}]
        /\ devices \in [Devices -> Contents]
    BY DEF Execute, EvidenceInv, ExecutorInv, StateTypes, CallOK, CommandRecords, Fresh
  <1>3. PICK a \in Answers(call.cmd) :
          /\ devices' = DevicesAfter(call.cmd.key, a.applied)
          /\ receipts' = [receipts EXCEPT ![call.cmd.id] =
                            [status |-> a.status, observed |-> a.observed]]
          /\ call' = [step |-> "verify", cmd |-> call.cmd, began |-> call.began,
                      receipt |-> [status |-> a.status, observed |-> a.observed]]
    BY DEF Execute
  <1>4. UNCHANGED <<byId, byKey>> /\ version' = version /\ past' = past
    BY DEF Execute, kernelVars
  <1>5. ReadingsOK(call', past', version') /\ EffectSeen(call')
    BY <1>2, <1>3, <1>4 DEF EvidenceInv, ReadingsOK, EffectSeen
  <1>6. ASSUME Adapter = "mock"
        PROVE  MockOK(call', receipts', byId', devices')
    <2>1. \A i \in Ids : receipts[i] # Nothing => byId[i] # Nothing
      BY <1>2, <1>6 DEF EvidenceInv, MockOK, Unanswered
    <2>2. receipts[call.cmd.id] = Nothing
      BY <1>2, <2>1
    <2>3. a \in MockAnswers(call.cmd.key)
      BY <1>3, <1>6, <2>2 DEF Answers
    <2>4. a.status = "EXECUTING" => a.applied = TRUE
      <3>1. CASE a = [status |-> "FAILED", applied |-> FALSE, observed |-> Nothing]
        BY <3>1
      <3>2. CASE a \in [status : {"EXECUTING", "UNKNOWN"}, applied : {TRUE},
                        observed : {Effect(call.cmd.key)}]
        BY <3>2
      <3>3. QED
        BY <2>3, <3>1, <3>2 DEF MockAnswers
    <2>5. ASSUME a.status = "EXECUTING", call.cmd.key \notin Notices
          PROVE  devices'[TargetOf[call.cmd.key]] = EffectOf[call.cmd.key]
      <3>1. TargetOf[call.cmd.key] \in Devices
        BY <1>2, CommandExecutorAssumption
      <3>2. QED
        BY <1>2, <1>3, <2>4, <2>5, <3>1 DEF DevicesAfter
    <2>6. \A i \in Ids : receipts'[i] # Nothing => byId'[i] # Nothing \/ i = call.cmd.id
      BY <1>2, <1>3, <1>4, <2>1
    <2>7. QED
      BY <1>3, <2>5, <2>6 DEF MockOK, Unanswered
  <1>7. MockOK(call', receipts', byId', devices')
    BY <1>6 DEF MockOK
  <1>8. VerifiedOK(byKey', past', version')
    BY <1>4 DEF EvidenceInv
  <1>9. QED
    BY <1>1, <1>5, <1>7, <1>8 DEF EvidenceInv

LEMMA RaiseEvidence ==
  ASSUME EvidenceInv, [SystemNext]_vars, TransportRaises
  PROVE  EvidenceInv'
  <1>1. ExecutorInv'
    BY ExecutorStepStays DEF EvidenceInv
  <1>2. /\ call'.step = "idle" /\ UNCHANGED byKey /\ version' = version /\ past' = past
        /\ Adapter # "mock"
    BY DEF TransportRaises, Idle, kernelVars
  <1>3. QED
    BY <1>1, <1>2 DEF EvidenceInv, ReadingsOK, EffectSeen, MockOK

LEMMA VerifyEvidence ==
  ASSUME EvidenceInv, [SystemNext]_vars, Verify
  PROVE  EvidenceInv'
  <1> DEFINE k == call.cmd.key
             status == VerificationStatus(k, call.receipt)
             observed == VerifiedObservation(k, call.receipt)
  <1>1. ExecutorInv' /\ ExecutorInv
    BY ExecutorStepStays DEF EvidenceInv
  <1>2. /\ call.step = "verify" /\ call.step \in Unanswered /\ UNCHANGED kernelVars
        /\ UNCHANGED <<receipts, devices>> /\ version' = version /\ past' = past
        /\ call.receipt \in Receipts /\ k \in CommandKeys
        /\ call.began.world <= version
    BY <1>1 DEF Verify, kernelVars, Unanswered, ExecutorInv, CallOK, EvidenceInv, ReadingsOK,
                CommandRecords
  <1>3. CASE status = "VERIFIED"
    <2>1. /\ call' = [step |-> "before", cmd |-> call.cmd, began |-> call.began,
                      observed |-> observed]
          /\ UNCHANGED <<byId, byKey>>
      BY <1>3 DEF Verify
    <2>2. call.receipt.status = "EXECUTING"
      BY <1>3 DEF VerificationStatus
    <2>3. ASSUME k \notin Notices
          PROVE  observed # Nothing /\ observed.content = EffectOf[k]
      <3>1. CASE Adapter = "mock"
        <4>1. observed = [entity |-> TargetOf[k], content |-> devices[TargetOf[k]]]
          BY <2>2, <2>3, <3>1 DEF VerifiedObservation
        <4>2. devices[TargetOf[k]] = EffectOf[k]
          BY <1>2, <2>2, <2>3, <3>1 DEF EvidenceInv, MockOK
        <4>3. TargetOf[k] \in Devices /\ EffectOf[k] \in Contents
          BY <1>2, CommandExecutorAssumption
        <4>4. QED
          BY <4>1, <4>2, <4>3, CommandExecutorAssumption
      <3>2. CASE Adapter = "ros2"
        <4>1. observed = call.receipt.observed
          BY <3>2 DEF VerifiedObservation
        <4>2. MatchesExpected(k, call.receipt.observed)
          BY <1>3, <2>2, <3>2 DEF VerificationStatus
        <4>3. QED
          BY <2>3, <4>1, <4>2 DEF MatchesExpected
      <3>3. QED
        BY <3>1, <3>2, CommandExecutorAssumption
    <2> HIDE DEF observed
    <2>4. ReadingsOK(call', past', version') /\ EffectSeen(call')
      BY <1>2, <2>1, <2>3 DEF ReadingsOK, EffectSeen
    <2>5. MockOK(call', receipts', byId', devices')
      BY <1>2, <2>1, MockStays DEF Unanswered
    <2>6. VerifiedOK(byKey', past', version')
      BY <1>2, <2>1 DEF EvidenceInv
    <2>7. QED
      BY <1>1, <2>4, <2>5, <2>6 DEF EvidenceInv
  <1>4. CASE status # "VERIFIED"
    <2>1. status \in {"FAILED", "UNKNOWN"}
      BY <1>4 DEF VerificationStatus
    <2>2. Conclude(status) /\ call'.step = "idle"
      BY <1>4 DEF Verify, Idle
    <2> HIDE DEF status
    <2>3. byId'[call.cmd.id] # Nothing
      BY <1>1, <1>2, <2>1, <2>2, ResultEntered
    <2>4. MockOK(call', receipts', byId', devices')
      BY <1>2, <2>2, <2>3, MockStays
    <2>5. VerifiedOK(byKey', past', version')
      BY <1>1, <1>2, <2>1, <2>2, FailureEntered DEF EvidenceInv
    <2>6. ReadingsOK(call', past', version') /\ EffectSeen(call')
      BY <2>2 DEF ReadingsOK, EffectSeen
    <2>7. QED
      BY <1>1, <2>4, <2>5, <2>6 DEF EvidenceInv
  <1>5. QED
    BY <1>3, <1>4

LEMMA ReadEvidence ==
  ASSUME EvidenceInv, [SystemNext]_vars, ReadBefore \/ ReadAfter
  PROVE  EvidenceInv'
  <1>1. ExecutorInv' /\ ExecutorInv /\ version \in Nat
    BY ExecutorStepStays, KernelKnown DEF EvidenceInv, ExecutorInv
  <1>2. /\ UNCHANGED <<receipts, devices, byId, byKey>> /\ version' = version /\ past' = past
        /\ call'.cmd = call.cmd /\ call'.began = call.began /\ call'.observed = call.observed
        /\ call.step \in Unanswered /\ call'.step \in Unanswered /\ call'.step # "verify"
    BY DEF ReadBefore, ReadAfter, kernelVars, Unanswered
  <1>3. /\ ReadingsOK(call, past, version) /\ EffectSeen(call)
    BY DEF EvidenceInv
  <1>4. CASE ReadBefore
    <2>1. call.step = "before" /\ call'.step = "sync" /\ call'.before = version
      BY <1>4 DEF ReadBefore
    <2>2. ReadingsOK(call', past', version') /\ EffectSeen(call')
      BY <1>1, <1>2, <1>3, <2>1 DEF ReadingsOK, EffectSeen
    <2>3. QED
      BY <1>1, <1>2, <2>2, MockStays DEF EvidenceInv
  <1>5. CASE ReadAfter
    <2>1. /\ call.step = "after" /\ call'.step = "report"
          /\ call'.committed = call.committed /\ call'.changed = Changed(call.before)
      BY <1>5 DEF ReadAfter
    <2>2. /\ call.before \in Nat /\ call.began.world <= call.before
          /\ call.committed => call.before < version
      BY <1>3, <2>1 DEF ReadingsOK
    <2>3. call.began.world \in Nat
      BY <1>1, <2>1 DEF ExecutorInv, CallOK
    <2>4. call.committed => Changed(call.before) /\ call.began.world < version
      BY <1>1, <2>2, <2>3 DEF Changed
    <2>5. ReadingsOK(call', past', version') /\ EffectSeen(call')
      BY <1>2, <1>3, <2>1, <2>4 DEF ReadingsOK, EffectSeen
    <2>6. QED
      BY <1>1, <1>2, <2>5, MockStays DEF EvidenceInv
  <1>6. QED
    BY <1>4, <1>5

LEMMA ReportEvidence ==
  ASSUME EvidenceInv, [SystemNext]_vars, Report
  PROVE  EvidenceInv'
  <1>1. ExecutorInv' /\ ExecutorInv /\ version \in Nat
    BY ExecutorStepStays, KernelKnown DEF EvidenceInv, ExecutorInv
  <1>2. /\ UNCHANGED <<receipts, devices>> /\ version' = version /\ past' = past
        /\ call.step = "report" /\ call.step \in Unanswered
        /\ Conclude("VERIFIED")
        /\ call' = [step |-> "return", cmd |-> call.cmd, began |-> call.began,
                    observed |-> call.observed, committed |-> call.committed,
                    changed |-> call.changed, reported |-> version]
    BY DEF Report, kernelVars, Unanswered
  <1>3. /\ byId'[call.cmd.id] # Nothing
        /\ \A k \in CommandKeys :
              byKey'[k] = byKey[k] \/ (k = call.cmd.key /\ byKey'[k].status = "VERIFIED")
    BY <1>1, <1>2, ResultEntered
  <1>4. ReadingsOK(call, past, version) /\ EffectSeen(call)
    BY DEF EvidenceInv
  <1>5. ReadingsOK(call', past', version') /\ EffectSeen(call')
    BY <1>1, <1>2, <1>4 DEF ReadingsOK, EffectSeen
  <1>6. MockOK(call', receipts', byId', devices')
    BY <1>2, <1>3, MockStays
  <1>7. VerifiedOK(byKey', past', version')
    <2> SUFFICES ASSUME NEW k \in CommandKeys \ Notices,
                        byKey'[k] # Nothing, byKey'[k].status = "VERIFIED"
                 PROVE  \E e \in Entities : Published(past, e, EffectOf[k], 0, version)
      BY <1>2 DEF VerifiedOK
    <2>1. CASE byKey'[k] = byKey[k]
      BY <2>1 DEF EvidenceInv, VerifiedOK
    <2>2. CASE k = call.cmd.key
      <3>1. /\ call.observed # Nothing /\ call.observed.content = EffectOf[k]
            /\ call.observed.entity \in Entities
            /\ Published(past, call.observed.entity, call.observed.content,
                         call.began.world, version)
        BY <1>2, <1>4, <2>2 DEF ReadingsOK, EffectSeen
      <3>2. call.began.world \in Nat
        BY <1>1, <1>2 DEF ExecutorInv, CallOK
      <3>3. Published(past, call.observed.entity, EffectOf[k], 0, version)
        BY <1>1, <3>1, <3>2 DEF Published
      <3>4. QED
        BY <3>1, <3>3
    <2>3. QED
      BY <1>3, <2>1, <2>2
  <1>8. QED
    BY <1>1, <1>5, <1>6, <1>7 DEF EvidenceInv

LEMMA SyncEvidence ==
  ASSUME EvidenceInv, [SystemNext]_vars, Sync
  PROVE  EvidenceInv'
  <1>1. ExecutorInv' /\ ExecutorInv /\ IInv
    BY ExecutorStepStays DEF EvidenceInv, ExecutorInv
  <1>2. /\ call.step = "sync" /\ call.step \in Unanswered
        /\ UNCHANGED <<processed, commits, org, devices, receipts, sent, raised>>
        /\ ReadingsOK(call, past, version) /\ EffectSeen(call)
        /\ call.observed \in Observations /\ call.began.world \in Nat
    BY <1>1 DEF Sync, Unanswered, EvidenceInv, ExecutorInv, CallOK
  <1>3. CASE call.observed # Nothing /\ call.observed.entity \notin Entities
    <2>1. Conclude("UNKNOWN") /\ call'.step = "idle" /\ UNCHANGED kernelVars
      BY <1>2, <1>3 DEF Sync, SyncFailed, Idle, kernelVars
    <2>2. byId'[call.cmd.id] # Nothing
      BY <1>1, <1>2, <2>1, ResultEntered
    <2>3. MockOK(call', receipts', byId', devices')
      BY <1>2, <2>1, <2>2, MockStays
    <2>4. VerifiedOK(byKey', past', version')
      BY <1>1, <1>2, <2>1, FailureEntered DEF EvidenceInv
    <2>5. ReadingsOK(call', past', version') /\ EffectSeen(call')
      BY <2>1 DEF ReadingsOK, EffectSeen
    <2>6. QED
      BY <1>1, <2>3, <2>4, <2>5 DEF EvidenceInv
  <1>4. CASE call.observed = Nothing \/ call.observed.entity \in Entities
    <2>1. /\ IF call.observed = Nothing THEN UNCHANGED <<facts, version, past>>
             ELSE Update(call.observed.entity, call.observed.content)
          /\ call' = [step |-> "after", cmd |-> call.cmd, began |-> call.began,
                      observed |-> call.observed, before |-> call.before,
                      committed |-> version' > version]
          /\ UNCHANGED <<byId, byKey>>
      BY <1>4 DEF Sync
    <2>2. [Next]_kernelVars
      <3>1. CASE call.observed = Nothing
        BY <1>2, <2>1, <3>1 DEF kernelVars
      <3>2. CASE call.observed # Nothing
        <4>1. /\ call.observed.entity \in Entities \cup {Unknown}
              /\ call.observed.content \in Contents
          BY <1>2, <1>4, <3>2 DEF Observations
        <4>2. Write(call.observed.entity, call.observed.content)
          BY <1>2, <2>1, <3>2 DEF Write
        <4>3. QED
          BY <4>1, <4>2 DEF Next
      <3>3. QED
        BY <3>1, <3>2
    <2>3. /\ version \in Nat /\ version' \in Nat /\ version <= version'
          /\ facts' = past'[version' + 1]
      <3>1. IInv'
        BY <1>1, <2>2, KernelStep
      <3>2. QED
        BY <1>1, <2>2, <3>1, KernelKnown, HistoryStays DEF IInv, VersionsNameContents
    <2>4. ASSUME call.observed # Nothing
          PROVE  facts'[call.observed.entity] = call.observed.content
      <3>1. Update(call.observed.entity, call.observed.content)
            /\ call.observed.entity \in Entities /\ facts \in Worlds
        BY <1>1, <1>4, <2>1, <2>4, KernelKnown
      <3>2. QED
        BY <3>1 DEF Update, Changes, Commit, Worlds
    <2>5. ASSUME call.observed # Nothing
          PROVE  Published(past', call.observed.entity, call.observed.content,
                           call.began.world, version')
      <3>1. call.began.world \in Nat /\ call.began.world <= version'
        BY <1>2, <2>3 DEF ReadingsOK
      <3>2. version' + 1 \in (call.began.world + 1)..(version' + 1)
        BY <2>3, <3>1, LastIndex
      <3>3. QED
        BY <2>3, <2>4, <2>5, <3>2 DEF Published
    <2>6. /\ call.before \in Nat /\ call.began.world <= call.before /\ call.before <= version'
          /\ call.began.world <= version'
          /\ version' > version => call.before < version'
      BY <1>2, <2>3 DEF ReadingsOK
    <2>7. ReadingsOK(call', past', version') /\ EffectSeen(call')
      BY <1>2, <1>4, <2>1, <2>5, <2>6 DEF ReadingsOK, EffectSeen
    <2>8. MockOK(call', receipts', byId', devices')
      BY <1>2, <2>1, MockStays DEF Unanswered
    <2>9. VerifiedOK(byKey', past', version')
      BY <1>1, <2>1, <2>2, VerifiedStays DEF EvidenceInv
    <2>10. QED
      BY <1>1, <2>7, <2>8, <2>9 DEF EvidenceInv
  <1>5. QED
    BY <1>3, <1>4

LEMMA OthersEvidence ==
  ASSUME EvidenceInv, [SystemNext]_vars,
         OthersWrite \/ OthersTransition \/ UNCHANGED vars
  PROVE  EvidenceInv'
  <1>1. ExecutorInv' /\ ExecutorInv /\ IInv
    BY ExecutorStepStays DEF EvidenceInv, ExecutorInv
  <1>2. /\ [Next]_kernelVars /\ UNCHANGED <<call, receipts, devices, byId, byKey>>
    BY DEF OthersWrite, OthersTransition, vars, executorVars, Next
  <1>3. ReadingsOK(call', past', version')
    BY <1>1, <1>2, ReadingsStay DEF EvidenceInv
  <1>4. VerifiedOK(byKey', past', version')
    BY <1>1, <1>2, VerifiedStays DEF EvidenceInv
  <1>5. QED
    BY <1>1, <1>2, <1>3, <1>4 DEF EvidenceInv

LEMMA EvidenceStays == EvidenceInv /\ [SystemNext]_vars => EvidenceInv'
  <1>1. ExecutorStep <=> \/ ReadOrganization \/ Execute \/ TransportRaises \/ Verify \/ ReadBefore
                         \/ Sync \/ ReadAfter \/ Report \/ Return
    BY DEF ExecutorStep
  <1>2. QED
    BY <1>1, BeginEvidence, ExecuteEvidence, RaiseEvidence, VerifyEvidence, ReadEvidence,
       SyncEvidence, ReportEvidence, OthersEvidence DEF SystemNext

LEMMA EvidenceStart == SystemInit => EvidenceInv
  <1> SUFFICES ASSUME SystemInit PROVE EvidenceInv
    OBVIOUS
  <1>1. ExecutorInv
    BY InitialExecutor
  <1>2. /\ call.step = "idle" /\ byKey = [k \in CommandKeys |-> Nothing]
        /\ receipts = [i \in Ids |-> Nothing]
    BY DEF SystemInit, ExecutorInit, Idle
  <1>3. QED
    BY <1>1, <1>2 DEF EvidenceInv, ReadingsOK, EffectSeen, MockOK, VerifiedOK

\* The inductive invariant of _synchronize_observation(): what was observed was
\* published, and the versions around it are in order.
THEOREM EvidenceInvariant == SystemSpec => []EvidenceInv
  BY EvidenceStart, EvidenceStays, PTL DEF SystemSpec

---------------------------------------------------------------------------
(* Theorems *)

\* ExecutorInv is an invariant.
THEOREM ExecutorInvariant == SystemSpec => []ExecutorInv
  BY InitialExecutor, ExecutorStepStays, PTL DEF SystemSpec

\* "The same logical command of an incident is executed once", up to the
\* exceptions of the transport: however many callers retry under whichever ids.
THEOREM CommandsExecuteOnce == SystemSpec => []ExecutedAtMostOnce
  <1>1. ExecutorInv => ExecutedAtMostOnce
    BY DEF ExecutorInv, Sending, ExecutedAtMostOnce
  <1>2. QED
    BY <1>1, ExecutorInvariant, PTL

\* A command past the version check was current at the instant its world was
\* read, although the organization is read later.
THEOREM CommandsWereCurrent == SystemSpec => []ExecutedWasCurrent
  <1>1. ExecutorInv => ExecutedWasCurrent
    BY DEF ExecutorInv, CallOK, ExecutedWasCurrent
  <1>2. QED
    BY <1>1, ExecutorInvariant, PTL

\* No retry replaces the result of a command, FAILED and UNKNOWN included.
THEOREM FirstResultStays == SystemSpec => ResultsAreFinal
  <1>1. ExecutorInv /\ [SystemNext]_vars =>
          [/\ \A i \in Ids : byId[i] # Nothing => byId'[i] = byId[i]
           /\ \A k \in CommandKeys : byKey[k] # Nothing => byKey'[k] = byKey[k]]_<<byId, byKey>>
    BY ResultsStay
  <1>2. QED
    BY <1>1, ExecutorInvariant, PTL DEF SystemSpec, ResultsAreFinal

\* The state of executor and adapter stays typed, and no key is sent more often
\* than its bound.
THEOREM ExecutorTypes == SystemSpec => []ExecutorTypeOK
  <1>1. ExecutorInv => ExecutorTypeOK
    <2> SUFFICES ASSUME ExecutorInv PROVE ExecutorTypeOK
      OBVIOUS
    <2>1. TypeOK /\ StateTypes
      BY DEF ExecutorInv, IInv
    <2>2. \A k \in CommandKeys : sent[k] \in 0..(MaxRaises + 1)
      BY <2>1, CommandExecutorAssumption DEF ExecutorInv, Sending, StateTypes
    <2>3. QED
      BY <2>1, <2>2 DEF StateTypes, ExecutorTypeOK
  <1>2. QED
    BY <1>1, ExecutorInvariant, PTL

\* VERIFIED is remembered only of commands whose effect was published, and what
\* was observed was the published content at a version of the activation.
THEOREM VerifiedEffectsWerePublished == SystemSpec => []VerifiedWasPublished
  <1>1. EvidenceInv => VerifiedWasPublished
    <2> SUFFICES ASSUME EvidenceInv PROVE VerifiedWasPublished
      OBVIOUS
    <2>1. ASSUME NEW k \in CommandKeys \ Notices, byKey[k] # Nothing,
                 byKey[k].status = "VERIFIED"
          PROVE  \E e \in Entities, v \in 1..(version + 1) : past[v][e] = EffectOf[k]
      BY <2>1 DEF EvidenceInv, VerifiedOK, Published
    <2>2. ASSUME call.step = "return", call.observed # Nothing
          PROVE  \E v \in (call.began.world + 1)..(call.reported + 1) :
                   past[v][call.observed.entity] = call.observed.content
      BY <2>2 DEF EvidenceInv, ReadingsOK, Published
    <2>3. QED
      BY <2>1, <2>2 DEF VerifiedWasPublished
  <1>2. QED
    BY <1>1, EvidenceInvariant, PTL

\* A synchronization that committed a world is evidenced as a change.
THEOREM CommitsAreEvidenced == SystemSpec => []CommitIsEvidenced
  <1>1. EvidenceInv => CommitIsEvidenced
    BY DEF EvidenceInv, ReadingsOK, CommitIsEvidenced
  <1>2. QED
    BY <1>1, EvidenceInvariant, PTL

---------------------------------------------------------------------------
(* The executor, when a command id is its key *)

\* The two maps agree, and a key with a receipt or a result was sent.
Keyed ==
  /\ \A k \in CommandKeys : byId[k] = byKey[k]
  /\ \A k \in CommandKeys : receipts[k] # Nothing \/ byKey[k] # Nothing => sent[k] > 0
  /\ call.step \in Unanswered \cup {"return"} => sent[call.cmd.key] > 0
  /\ call.step = "return" => byKey[call.cmd.key] # Nothing

KeyedCall == call.step # "idle" => call.cmd.id = call.cmd.key

\* Everything but an execution leaves receipts and sends alone.
LEMMA OnlySends ==
  ASSUME [SystemNext]_vars, ~Execute, ~TransportRaises
  PROVE  UNCHANGED <<receipts, sent>>
  BY DEF SystemNext, ExecutorStep, Begin, ReadOrganization, Verify, ReadBefore, Sync, ReadAfter,
         Report, Return, OthersWrite, OthersTransition, vars, executorVars

\* A step of execute() belongs to its command: it sends and answers no other,
\* takes no sending back, and ends the activation or goes on with it.
LEMMA StepOfCommand ==
  ASSUME ExecutorInv, ExecutorStep
  PROVE  /\ \A k \in CommandKeys : sent[k] <= sent'[k]
         /\ \A k \in CommandKeys : sent'[k] # sent[k] => k = call.cmd.key /\ call.step = "execute"
         /\ call.step # "idle" /\ org' = org
         /\ \/ call' = Idle
            \/ /\ call'.step \in Unanswered \cup {"execute", "return"}
               /\ call'.cmd = call.cmd
  <1>1. sent \in [CommandKeys -> Nat]
    BY DEF ExecutorInv, StateTypes
  <1>2. CASE Execute \/ TransportRaises
    <2>1. call.step = "execute" /\ org' = org
      BY <1>2 DEF Execute, TransportRaises
    <2>2. sent' = sent \/ sent' = [sent EXCEPT ![call.cmd.key] = sent[call.cmd.key] + 1]
      BY <1>2 DEF Execute, TransportRaises
    <2>3. call' = Idle \/ (call'.step = "verify" /\ call'.cmd = call.cmd)
      <3>1. CASE Execute
        BY <3>1 DEF Execute
      <3>2. CASE TransportRaises
        BY <3>2 DEF TransportRaises
      <3>3. QED
        BY <1>2, <3>1, <3>2
    <2>4. QED
      BY <1>1, <2>1, <2>2, <2>3 DEF Unanswered
  <1>3. CASE ~Execute /\ ~TransportRaises
    <2>1. /\ sent' = sent /\ call.step # "idle" /\ org' = org
      BY <1>3 DEF ExecutorStep, ReadOrganization, Verify, ReadBefore, Sync, ReadAfter,
                  Report, Return
    <2>2. \/ call' = Idle
          \/ call'.step \in Unanswered \cup {"execute", "return"} /\ call'.cmd = call.cmd
      <3>1. CASE ReadOrganization \/ Verify
        BY <3>1 DEF ReadOrganization, Verify, Unanswered
      <3>2. CASE ReadBefore \/ ReadAfter \/ Report \/ Return
        BY <3>2 DEF ReadBefore, ReadAfter, Report, Return, Unanswered
      <3>3. CASE Sync
        BY <3>3 DEF Sync, Unanswered
      <3>4. QED
        BY <1>3, <3>1, <3>2, <3>3 DEF ExecutorStep
    <2>3. QED
      BY <1>1, <2>1, <2>2
  <1>4. QED
    BY <1>2, <1>3

\* The executor touches the kernel in Sync alone, and there as a writer does.
LEMMA ExecutorWrites ==
  ASSUME ExecutorInv, ExecutorStep \/ \E cmd \in Commands : Begin(cmd)
  PROVE  UNCHANGED kernelVars \/ \E e \in Entities, c \in Contents : Write(e, c)
  <1>1. CASE Sync /\ UNCHANGED <<facts, version, past>>
    BY <1>1 DEF Sync, kernelVars
  <1>2. CASE Sync /\ ~UNCHANGED <<facts, version, past>>
    <2>1. /\ Update(call.observed.entity, call.observed.content)
          /\ call.observed # Nothing /\ call.observed.entity \in Entities
          /\ UNCHANGED <<processed, commits>>
      BY <1>2 DEF Sync
    <2>2. call.observed.content \in Contents
      BY <1>2, <2>1 DEF ExecutorInv, CallOK, Sync, Observations
    <2>3. QED
      BY <2>1, <2>2 DEF Write
  <1>3. UNCHANGED kernelVars \/ Sync
    BY DEF ExecutorStep, Begin, ReadOrganization, Execute, TransportRaises, Verify,
           ReadBefore, ReadAfter, Report, Return
  <1>4. QED
    BY <1>1, <1>2, <1>3

\* The kernel's part of a step is a step of the kernel.
LEMMA KernelPart ==
  ASSUME ExecutorInv, [SystemNext]_vars
  PROVE  [Next]_kernelVars
  <1>1. CASE OthersWrite
    BY <1>1 DEF OthersWrite
  <1>2. CASE ExecutorStep \/ \E cmd \in Commands : Begin(cmd)
    BY <1>2, ExecutorWrites DEF Next
  <1>3. CASE OthersTransition \/ UNCHANGED vars
    BY <1>3 DEF OthersTransition, vars
  <1>4. QED
    BY <1>1, <1>2, <1>3 DEF SystemNext

LEMMA KernelOfStep ==
  ASSUME ExecutorInv, [SystemNext]_vars
  PROVE  version \in Nat /\ version' \in Nat /\ version <= version'
  <1>1. IInv /\ [Next]_kernelVars
    BY KernelPart DEF ExecutorInv
  <1>2. QED
    BY <1>1, KernelKnown, HistoryStays

\* The executor, with everybody around it, does to the world only what the kernel
\* allows: its synchronization is an update, and nothing else of it writes.
THEOREM ExecutorImplementsKernel == SystemSpec => Spec
  <1>1. SystemInit => Init
    BY DEF SystemInit, Init
  <1>2. ExecutorInv /\ [SystemNext]_vars => [Next]_kernelVars
    BY KernelPart
  <1>3. QED
    BY <1>1, <1>2, ExecutorInvariant, PTL DEF SystemSpec, Spec

LEMMA KeyedExecution ==
  ASSUME ExecutorInv, Keyed, KeyedCall, Execute \/ TransportRaises, Ids = CommandKeys
  PROVE  Keyed'
  <1> DEFINE key == call.cmd.key
  <1>1. /\ call.step = "execute" /\ key \in CommandKeys /\ call.cmd.id = key
        /\ UNCHANGED <<byId, byKey>>
    BY DEF Execute, TransportRaises, ExecutorInv, CallOK, CommandRecords, KeyedCall
  <1>2. /\ \A k \in CommandKeys : sent[k] \in Nat
        /\ receipts \in [Ids -> Receipts \cup {Nothing}] /\ sent \in [CommandKeys -> Nat]
    BY DEF ExecutorInv, StateTypes
  <1>3. CASE Execute
    <2>1. PICK a \in Answers(call.cmd) :
            LET receipt == [status |-> a.status, observed |-> a.observed] IN
            /\ receipts' = [receipts EXCEPT ![call.cmd.id] = receipt]
            /\ call' = [step |-> "verify", cmd |-> call.cmd, began |-> call.began,
                        receipt |-> receipt]
      BY <1>3 DEF Execute
    <2>2. sent' = IF receipts[key] = Nothing THEN [sent EXCEPT ![key] = @ + 1] ELSE sent
      BY <1>1, <1>3 DEF Execute
    <2> HIDE DEF key
    <2>3. sent'[key] > 0
      BY <1>1, <1>2, <2>2 DEF Keyed
    <2>4. \A k \in CommandKeys : k # key => receipts'[k] = receipts[k] /\ sent'[k] = sent[k]
      BY <1>1, <1>2, <2>1, <2>2
    <2>5. QED
      BY <1>1, <2>1, <2>3, <2>4 DEF Keyed, key
  <1>4. CASE TransportRaises
    <2>1. /\ call' = Idle /\ call'.step = "idle" /\ receipts' = receipts
          /\ sent' = [sent EXCEPT ![key] = @ + 1]
      BY <1>4 DEF TransportRaises, Idle
    <2> HIDE DEF key
    <2>2. \A k \in CommandKeys : sent'[k] >= sent[k]
      BY <1>1, <1>2, <2>1
    <2>3. QED
      BY <1>1, <1>2, <2>1, <2>2 DEF Keyed, Unanswered
  <1>5. QED
    BY <1>3, <1>4

\* A result is entered under the command's id and key, once it was sent.
LEMMA KeyedConclusion ==
  ASSUME ExecutorInv, Keyed, KeyedCall, call.step \in Unanswered, Ids = CommandKeys,
         NEW status \in {"VERIFIED", "FAILED", "UNKNOWN"}, Conclude(status),
         UNCHANGED <<receipts, sent>>,
         call'.step = "idle" \/ (call'.step = "return" /\ call'.cmd = call.cmd)
  PROVE  Keyed'
  <1> DEFINE key == call.cmd.key
             result == [id |-> call.cmd.id, status |-> status]
  <1>1. key \in CommandKeys /\ call.cmd.id = key /\ call.step # "idle"
    BY DEF ExecutorInv, CallOK, CommandRecords, Unanswered, KeyedCall
  <1>2. result # Nothing
    BY <1>1, CommandExecutorAssumption
  <1>3. byId' = [byId EXCEPT ![key] = result] /\ byKey' = [byKey EXCEPT ![key] = result]
    BY <1>1 DEF Conclude, Remember
  <1>4. sent[key] > 0
    BY DEF Keyed
  <1>5. call'.step = "idle" \/ (call'.step = "return" /\ call'.cmd.key = key)
    OBVIOUS
  <1> HIDE DEF key, result
  <1>6. \A k \in CommandKeys : /\ byId'[k] = IF k = key THEN result ELSE byId[k]
                               /\ byKey'[k] = IF k = key THEN result ELSE byKey[k]
    BY <1>1, <1>3 DEF ExecutorInv, StateTypes
  <1>7. QED
    BY <1>1, <1>2, <1>4, <1>5, <1>6 DEF Keyed, Unanswered

LEMMA KeyedStays ==
  ASSUME ExecutorInv, Keyed, KeyedCall, [SystemNext]_vars, Ids = CommandKeys
  PROVE  Keyed'
  <1>1. CASE Execute \/ TransportRaises
    BY <1>1, KeyedExecution
  <1>2. CASE UNCHANGED <<byId, byKey>> /\ ~Execute /\ ~TransportRaises /\ ~Report
    <2>1. UNCHANGED <<receipts, sent>>
      BY <1>2, OnlySends
    <2>2. \/ call'.step \in {"idle", "organization", "execute"}
          \/ call'.step \in Unanswered /\ call.step \in Unanswered /\ call'.cmd = call.cmd
          \/ call' = call
      <3>1. CASE ReadOrganization \/ Return \/ OthersWrite \/ OthersTransition \/ UNCHANGED vars
        BY <3>1 DEF ReadOrganization, Return, OthersWrite, OthersTransition, vars,
                    executorVars, Idle
      <3>2. CASE Verify \/ ReadBefore \/ ReadAfter
        BY <3>2 DEF Verify, ReadBefore, ReadAfter, Unanswered, Idle
      <3>3. CASE Sync
        BY <3>3 DEF Sync, Unanswered, Idle
      <3>4. ASSUME NEW cmd \in Commands, Begin(cmd) PROVE call'.step = "organization"
        BY <3>4 DEF Begin
      <3>5. QED
        BY <1>2, <3>1, <3>2, <3>3, <3>4 DEF SystemNext, ExecutorStep
    <2>3. QED
      BY <1>2, <2>1, <2>2 DEF Keyed, Unanswered
  <1>3. CASE Verify /\ ~UNCHANGED <<byId, byKey>>
    <2>1. /\ Conclude(VerificationStatus(call.cmd.key, call.receipt)) /\ call'.step = "idle"
          /\ UNCHANGED <<receipts, sent>> /\ call.step \in Unanswered
      BY <1>3 DEF Verify, Unanswered, Idle
    <2>2. VerificationStatus(call.cmd.key, call.receipt) \in {"VERIFIED", "FAILED", "UNKNOWN"}
      BY DEF VerificationStatus
    <2>3. QED
      BY <2>1, <2>2, KeyedConclusion
  <1>4. CASE Sync /\ ~UNCHANGED <<byId, byKey>>
    <2>1. /\ Conclude("UNKNOWN") /\ call'.step = "idle"
          /\ UNCHANGED <<receipts, sent>> /\ call.step \in Unanswered
      BY <1>4 DEF Sync, SyncFailed, Unanswered, Idle
    <2>2. QED
      BY <2>1, KeyedConclusion
  <1>5. CASE Report
    <2>1. /\ Conclude("VERIFIED") /\ call'.step = "return" /\ call'.cmd = call.cmd
          /\ UNCHANGED <<receipts, sent>> /\ call.step = "report"
      BY <1>5 DEF Report
    <2>2. QED
      BY <2>1, KeyedConclusion DEF Unanswered
  <1>6. UNCHANGED <<byId, byKey>> \/ Verify \/ Sync \/ Report
    BY DEF SystemNext, ExecutorStep, Begin, ReadOrganization, Execute, TransportRaises,
           ReadBefore, ReadAfter, Return, OthersWrite, OthersTransition, vars, executorVars
  <1>7. QED
    BY <1>1, <1>2, <1>3, <1>4, <1>5, <1>6 DEF Execute, TransportRaises

\* What execute() returns: VERIFIED is what the maps hold, and only a stale
\* command or an exception leaves its key unsent.
LEMMA OutcomeTells ==
  ASSUME ExecutorInv, Keyed, KeyedCall, ExecutorStep, call' = Idle, Ids = CommandKeys,
         NEW key \in CommandKeys, key = call.cmd.key
  PROVE  /\ Outcome = "VERIFIED" => Verified(key)'
         /\ \/ Outcome = "RAISED"
            \/ call.step = "organization" /\ Stale(call.cmd, call.world)
            \/ sent'[key] > 0
  <1>1. call.step # "idle" /\ call.cmd.id = key
    BY StepOfCommand DEF ExecutorInv, CallOK, CommandRecords, KeyedCall
  <1>2. Keyed'
    BY KeyedStays DEF SystemNext
  <1>3. CASE call.step = "organization"
    <2>1. /\ Stale(call.cmd, call.world) \/ Remembered(call.cmd) # Nothing
          /\ UNCHANGED <<byKey, sent>>
      BY <1>3 DEF ExecutorStep, ReadOrganization, Execute, TransportRaises, Verify, ReadBefore,
                  Sync, ReadAfter, Report, Return, Idle
    <2>2. CASE Stale(call.cmd, call.world)
      BY <1>3, <2>2 DEF Outcome
    <2>3. CASE ~Stale(call.cmd, call.world)
      <3>1. Remembered(call.cmd) = byKey[key] /\ byKey[key] # Nothing
        BY <1>1, <2>1, <2>3 DEF Keyed, Remembered
      <3>2. Outcome = byKey[key].status
        BY <1>3, <2>3, <3>1 DEF Outcome
      <3>3. sent[key] > 0
        BY <1>1, <3>1 DEF Keyed
      <3>4. QED
        BY <2>1, <3>1, <3>2, <3>3 DEF Verified
    <2>4. QED
      BY <2>2, <2>3
  <1>4. CASE call.step = "execute"
    BY <1>4 DEF Outcome
  <1>5. CASE call.step \notin {"organization", "execute"}
    <2>1. Outcome = byKey'[key].status
      BY <1>5 DEF Outcome
    <2>2. byKey'[key] # Nothing
      <3>1. CASE Return
        BY <3>1 DEF Return, Keyed
      <3>2. CASE Verify \/ Sync
        <4>1. \E status \in {"VERIFIED", "FAILED", "UNKNOWN"} : Conclude(status)
          <5>1. CASE Verify
            BY <5>1 DEF Verify, VerificationStatus, Idle
          <5>2. CASE Sync
            BY <5>2 DEF Sync, SyncFailed, Idle
          <5>3. QED
            BY <3>2, <5>1, <5>2
        <4>2. call.step \in Unanswered
          BY <3>2 DEF Verify, Sync, Unanswered
        <4>3. byId'[key] # Nothing
          BY <1>1, <4>1, <4>2, ResultEntered
        <4>4. QED
          BY <1>1, <1>2, <4>3 DEF Keyed
      <3>3. CASE ReadBefore \/ ReadAfter \/ Report
        BY <3>3 DEF ReadBefore, ReadAfter, Report, Idle
      <3>4. QED
        BY <1>5, <3>1, <3>2, <3>3 DEF ExecutorStep, ReadOrganization, Execute, TransportRaises
    <2>3. sent'[key] > 0
      BY <1>1, <1>2, <2>2 DEF Keyed
    <2>4. QED
      BY <2>1, <2>2, <2>3 DEF Verified
  <1>6. QED
    BY <1>3, <1>4, <1>5

---------------------------------------------------------------------------
(* Executions and fast paths *)

Activations == [step : {"start", "bind", "check", "stamp", "call", "calling"} \cup Ended,
                next : Nat \ {0}, org : Nat, world : Nat]

\* The run is about to have an action executed, or its executor is at it.
Acting == {"stamp", "call", "calling"}

\* The plans are those of one snapshot.
PlansMade ==
  \E exposed \in BOOLEAN :
    plan = [r \in Runs |-> IF r \in Weather THEN WeatherPlan(exposed)
                           ELSE IF r \in People THEN PeoplePlan(exposed) ELSE Actions]

\* A run's versions are of the past, and its action is one of its plan.
RunsOK(o, v) ==
  /\ run \in [Runs -> Activations]
  /\ \A r \in Runs :
       /\ run[r].org \in 1..o /\ run[r].world <= v
       /\ run[r].next <= Len(plan[r]) + 1
       /\ run[r].step \in Acting => run[r].next <= Len(plan[r])
       /\ run[r].step \in {"start", "bind"} => r \in Executions

\* The activation c of the executor is that of the one run that called it.
CallerOK(c) ==
  /\ \A r \in Runs : run[r].step = "calling" =>
       /\ c.step # "idle"
       /\ c.cmd = CommandOf(plan[r][run[r].next], run[r].world, run[r].org)
  /\ \A r, s \in Runs : run[r].step = "calling" /\ run[s].step = "calling" => r = s

\* Only planned commands are sent.
SentIsPlanned ==
  \A k \in CommandKeys : sent[k] > 0 => \E r \in Runs : k \in Range(plan[r])

\* While nobody else publishes, a fast path's command is current when it is checked.
CurrentOK(c, o, v) ==
  \A r \in FastPaths \ disturbed :
    /\ run[r].step \in Acting => run[r].org = o
    /\ run[r].step = "call" => run[r].world = v
    /\ run[r].step = "calling" /\ c.step = "organization" => run[r].world = c.world

ExecutionInv ==
  /\ ExecutorInv /\ Keyed /\ KeyedCall
  /\ PlansMade /\ RunsOK(org, version) /\ CallerOK(call)
  /\ RunsReportWhatIsVerified /\ ActionsInOrder /\ SentIsPlanned
  /\ FastPathsReachDevices /\ CurrentOK(call, org, version)

LEMMA PlansKnown ==
  ASSUME PlansMade
  PROVE  /\ \A r \in Runs : plan[r] \in Seq(CommandKeys)
         /\ \A r \in Executions : plan[r] = Actions
         /\ \A r \in FastPaths : Range(plan[r]) \cap Range(Actions) = {}
         /\ ~ \E r, s \in Runs : Recall \in Range(plan[r]) /\ Track \in Range(plan[s])
  <1>1. PICK exposed \in BOOLEAN :
          plan = [r \in Runs |-> IF r \in Weather THEN WeatherPlan(exposed)
                                 ELSE IF r \in People THEN PeoplePlan(exposed) ELSE Actions]
    BY DEF PlansMade
  <1>2. ASSUME NEW keys \in Seq(CommandKeys), NEW k \in CommandKeys
        PROVE  /\ Append(keys, k) \in Seq(CommandKeys)
               /\ Range(Append(keys, k)) = Range(keys) \cup {k}
    <2>1. /\ Append(keys, k) \in Seq(CommandKeys) /\ Len(Append(keys, k)) = Len(keys) + 1
          /\ \A i \in 1..Len(keys) : Append(keys, k)[i] = keys[i]
          /\ Append(keys, k)[Len(keys) + 1] = k
      OBVIOUS
    <2>2. /\ Len(keys) \in Nat /\ DOMAIN keys = 1..Len(keys)
          /\ DOMAIN Append(keys, k) = 1..(Len(keys) + 1)
      BY <2>1
    <2>3. 1..(Len(keys) + 1) = 1..Len(keys) \cup {Len(keys) + 1}
      BY <2>2
    <2>4. QED
      BY <2>1, <2>2, <2>3 DEF Range
  <1>3. /\ WeatherPlan(exposed) \in Seq(CommandKeys)
        /\ Range(WeatherPlan(exposed)) =
             IF exposed THEN Range(Holds) ELSE Range(Holds) \cup {Recall}
    BY <1>2, ProposalExecutionAssumption DEF WeatherPlan
  <1>4. /\ PeoplePlan(exposed) \in Seq(CommandKeys)
        /\ Range(PeoplePlan(exposed)) =
             IF exposed THEN Range(Alerts) \cup {Track} ELSE {}
    <2>1. Range(<<>>) = {}
      BY DEF Range
    <2>2. <<>> \in Seq(CommandKeys)
      OBVIOUS
    <2>3. CASE exposed
      BY <1>2, <2>3, ProposalExecutionAssumption DEF PeoplePlan
    <2>4. CASE ~exposed
      BY <2>1, <2>2, <2>4 DEF PeoplePlan
    <2>5. QED
      BY <2>3, <2>4
  <1>5. /\ \A r \in Weather : r \in Runs /\ plan[r] = WeatherPlan(exposed)
        /\ \A r \in People : r \in Runs /\ plan[r] = PeoplePlan(exposed)
        /\ \A r \in Executions : r \in Runs /\ plan[r] = Actions
    BY <1>1, ProposalExecutionAssumption DEF Runs, FastPaths
  <1>6. \A r \in Runs : r \in Weather \/ r \in People \/ r \in Executions
    BY DEF Runs, FastPaths
  <1>7. \A r \in Runs : plan[r] \in Seq(CommandKeys)
    BY <1>3, <1>4, <1>5, <1>6, ProposalExecutionAssumption
  <1>8. \A r \in FastPaths : Range(plan[r]) \cap Range(Actions) = {}
    BY <1>3, <1>4, <1>5, TypesOfCommands DEF FastPaths
  <1>9. \A r \in Runs : /\ exposed => Recall \notin Range(plan[r])
                        /\ ~exposed => Track \notin Range(plan[r])
    <2> SUFFICES ASSUME NEW r \in Runs
                 PROVE  /\ exposed => Recall \notin Range(plan[r])
                        /\ ~exposed => Track \notin Range(plan[r])
      OBVIOUS
    <2>1. Recall \notin Range(Actions) /\ Track \notin Range(Actions)
      BY TypesOfCommands
    <2>2. /\ Recall # Track /\ Recall \notin Range(Alerts)
          /\ Recall \notin Range(Holds) /\ Track \notin Range(Holds)
      BY TypesOfCommands
    <2>3. CASE r \in Weather
      BY <1>3, <1>5, <2>2, <2>3
    <2>4. CASE r \in People
      BY <1>4, <1>5, <2>2, <2>4
    <2>5. CASE r \in Executions
      BY <1>5, <2>1, <2>5
    <2>6. QED
      BY <1>6, <2>3, <2>4, <2>5
  <1>10. QED
    BY <1>5, <1>7, <1>8, <1>9

---------------------------------------------------------------------------
(* The steps of a run *)

\* A run moves without the executor.
LEMMA RunMoves ==
  ASSUME ExecutionInv, UNCHANGED <<vars, plan, disturbed>>,
         NEW r \in Runs, NEW a \in Activations, run' = [run EXCEPT ![r] = a],
         run[r].step # "calling", a.step # "calling", a.next = run[r].next,
         a.org \in 1..org, a.world <= version,
         a.step \in Acting => a.next <= Len(plan[r]),
         a.step = "bind" => r \in Executions, a.step # "start",
         a.step \in Acting /\ r \in FastPaths \ disturbed => a.org = org,
         a.step = "call" => a.world = version
  PROVE  ExecutionInv'
  <1>1. /\ ExecutorInv /\ Keyed /\ KeyedCall
        /\ PlansMade /\ RunsOK(org, version) /\ CallerOK(call)
        /\ RunsReportWhatIsVerified /\ ActionsInOrder /\ SentIsPlanned
        /\ FastPathsReachDevices /\ CurrentOK(call, org, version)
    BY DEF ExecutionInv
  <1>2. /\ UNCHANGED <<facts, version, processed, past, commits, org, devices, receipts>>
        /\ UNCHANGED <<byId, byKey, sent, raised, call>> /\ UNCHANGED kernelVars
    BY DEF vars, kernelVars, executorVars
  <1>3. ExecutorInv'
    BY <1>1, <1>2, ExecutorStepStays
  <1>4. Keyed' /\ KeyedCall'
    BY <1>1, <1>2 DEF Keyed, KeyedCall
  <1>5. PlansMade' /\ ActionsInOrder' /\ SentIsPlanned'
    BY <1>1, <1>2 DEF PlansMade, ActionsInOrder, SentIsPlanned, Verified
  <1>6. \A s \in Runs : run'[s] = IF s = r THEN a ELSE run[s]
    BY <1>1 DEF RunsOK
  <1>7. RunsOK(org, version)'
    <2>1. run' \in [Runs -> Activations]
      BY <1>1 DEF RunsOK
    <2>2. QED
      BY <1>1, <1>2, <1>6, <2>1 DEF RunsOK
  <1>8. CallerOK(call)'
    BY <1>1, <1>2, <1>6 DEF CallerOK
  <1>9. RunsReportWhatIsVerified' /\ FastPathsReachDevices'
    BY <1>1, <1>2, <1>6 DEF RunsReportWhatIsVerified, FastPathsReachDevices, Verified, Runs,
                           FastPaths
  <1>10. CurrentOK(call, org, version)'
    BY <1>1, <1>2, <1>6 DEF CurrentOK, Runs, FastPaths
  <1>11. QED
    BY <1>3, <1>4, <1>5, <1>7, <1>8, <1>9, <1>10 DEF ExecutionInv

LEMMA MovesStay ==
  ASSUME ExecutionInv, NEW r \in Runs,
         Validate(r) \/ Bind(r) \/ Check(r) \/ CheckFast(r) \/ Stamp(r)
  PROVE  ExecutionInv'
  <1>1. /\ RunsOK(org, version) /\ CurrentOK(call, org, version) /\ ExecutorInv
    BY DEF ExecutionInv
  <1>2. /\ run[r] \in Activations /\ run \in [Runs -> Activations]
        /\ run[r].org \in 1..org /\ run[r].world <= version
        /\ run[r].next <= Len(plan[r]) + 1
        /\ run[r].step \in Acting => run[r].next <= Len(plan[r])
        /\ run[r].step \in {"start", "bind"} => r \in Executions
    BY <1>1 DEF RunsOK
  <1>3. org \in Nat /\ org \in 1..org /\ version \in Nat
    BY <1>1, VersionIsNat DEF ExecutorInv, StateTypes
  <1>4. PlansMade /\ Len(plan[r]) \in Nat
    BY PlansKnown DEF ExecutionInv
  <1> DEFINE a == run'[r]
  <1>5. /\ UNCHANGED <<vars, plan, disturbed>> /\ run' = [run EXCEPT ![r] = a]
        /\ run[r].step # "calling"
    <2>1. CASE Validate(r)
      BY <1>2, <2>1 DEF Validate
    <2>2. CASE Bind(r)
      BY <1>2, <2>2 DEF Bind
    <2>3. CASE Check(r)
      BY <1>2, <2>3 DEF Check
    <2>4. CASE CheckFast(r)
      BY <1>2, <2>4 DEF CheckFast
    <2>5. CASE Stamp(r)
      BY <1>2, <2>5 DEF Stamp
    <2>6. QED
      BY <2>1, <2>2, <2>3, <2>4, <2>5
  <1>6. /\ a \in Activations
        /\ a.step # "calling" /\ a.next = run[r].next /\ a.step # "start"
        /\ a.org \in 1..org /\ a.world <= version
        /\ a.step \in Acting => a.next <= Len(plan[r])
        /\ a.step = "bind" => r \in Executions
        /\ a.step \in Acting /\ r \in FastPaths \ disturbed => a.org = org
        /\ a.step = "call" => a.world = version
    <2>1. CASE Validate(r)
      BY <1>2, <2>1 DEF Validate, Activations, Ended, Acting
    <2>2. CASE Bind(r)
      BY <1>2, <1>3, <2>2 DEF Bind, Activations, Ended, Acting
    <2>3. CASE Check(r)
      <3>1. r \notin FastPaths
        BY <2>3, ProposalExecutionAssumption DEF Check
      <3>2. \E step \in {"ended", "stamp"} :
               /\ a = [run[r] EXCEPT !.step = step]
               /\ step = "stamp" => ~(run[r].next > Len(plan[r]))
        BY <1>2, <2>3 DEF Check
      <3>3. run[r].next \in Nat
        BY <1>2 DEF Activations
      <3>4. QED
        BY <1>2, <1>4, <3>1, <3>2, <3>3 DEF Activations, Ended, Acting
    <2>4. CASE CheckFast(r)
      <3>1. \/ a = [run[r] EXCEPT !.step = "ended"]
            \/ /\ a = [run[r] EXCEPT !.step = "stamp", !.org = org]
               /\ ~(run[r].next > Len(plan[r]))
        BY <1>2, <2>4 DEF CheckFast
      <3>2. run[r].next \in Nat
        BY <1>2 DEF Activations
      <3>3. CASE a = [run[r] EXCEPT !.step = "ended"]
        BY <1>2, <3>3 DEF Activations, Ended, Acting
      <3>4. CASE /\ a = [run[r] EXCEPT !.step = "stamp", !.org = org]
                 /\ ~(run[r].next > Len(plan[r]))
        <4>1. /\ a \in Activations /\ a.step = "stamp" /\ a.org = org
              /\ a.next = run[r].next /\ a.world = run[r].world
          BY <1>2, <1>3, <3>4 DEF Activations
        <4> HIDE DEF a
        <4>2. QED
          BY <1>2, <1>3, <1>4, <3>2, <3>4, <4>1
      <3>5. QED
        BY <3>1, <3>3, <3>4
    <2>5. CASE Stamp(r)
      <3>1. /\ \E step \in {"raised", "call"} :
                  a = [run[r] EXCEPT !.step = step, !.world = version]
            /\ run[r].step = "stamp"
        BY <1>2, <2>5 DEF Stamp, Stamped
      <3>2. r \in FastPaths \ disturbed => run[r].org = org
        BY <1>1, <3>1 DEF CurrentOK, Acting
      <3>3. /\ a \in Activations /\ a.step \in {"raised", "call"} /\ a.org = run[r].org
            /\ a.next = run[r].next /\ a.world = version
        BY <1>2, <1>3, <3>1 DEF Activations, Ended
      <3> HIDE DEF a
      <3>4. QED
        BY <1>2, <1>3, <3>1, <3>2, <3>3 DEF Acting
    <2>6. QED
      BY <2>1, <2>2, <2>3, <2>4, <2>5
  <1> HIDE DEF a
  <1>7. QED
    BY <1>5, <1>6, RunMoves

\* The command a run brings is one that a caller may bring.
LEMMA CallBegins ==
  ASSUME ExecutionInv, NEW r \in Runs, Call(r)
  PROVE  /\ plan[r][run[r].next] \in CommandKeys
         /\ \E cmd \in Commands : /\ Begin(cmd)
                                  /\ cmd = CommandOf(plan[r][run[r].next], run[r].world, run[r].org)
  <1>1. /\ run[r] \in Activations /\ run[r].org \in 1..org /\ run[r].world <= version
        /\ run[r].next <= Len(plan[r])
    BY DEF ExecutionInv, RunsOK, Call, Acting
  <1>2. plan[r] \in Seq(CommandKeys) /\ Len(plan[r]) \in Nat /\ run[r].next \in 1..Len(plan[r])
    BY <1>1, PlansKnown DEF ExecutionInv, Activations
  <1>3. plan[r][run[r].next] \in CommandKeys
    BY <1>2
  <1>4. version \in Nat /\ run[r].world \in 0..version
    BY <1>1, VersionIsNat DEF ExecutionInv, ExecutorInv, Activations
  <1>5. CommandOf(plan[r][run[r].next], run[r].world, run[r].org) \in Commands
    BY <1>1, <1>3, <1>4, ProposalExecutionAssumption DEF CommandOf, Commands
  <1>6. QED
    BY <1>3, <1>5 DEF Call

LEMMA CallStays ==
  ASSUME ExecutionInv, NEW r \in Runs, Call(r)
  PROVE  ExecutionInv'
  <1> DEFINE key == plan[r][run[r].next]
  <1>1. PICK cmd \in Commands : Begin(cmd) /\ cmd = CommandOf(key, run[r].world, run[r].org)
    BY CallBegins
  <1>2. /\ ExecutorInv /\ Keyed /\ KeyedCall
        /\ PlansMade /\ RunsOK(org, version) /\ CallerOK(call)
        /\ RunsReportWhatIsVerified /\ ActionsInOrder /\ SentIsPlanned
        /\ FastPathsReachDevices /\ CurrentOK(call, org, version)
    BY DEF ExecutionInv
  <1>3. [SystemNext]_vars
    BY <1>1 DEF SystemNext
  <1>4. /\ UNCHANGED <<version, org, receipts, byId, byKey, sent, plan, disturbed>>
        /\ call.step = "idle" /\ call'.step = "organization" /\ call'.cmd = cmd
        /\ call'.world = version
    BY <1>1 DEF Begin, Call, kernelVars, Idle
  <1>5. run[r].step = "call" /\ run' = [run EXCEPT ![r].step = "calling"]
    BY DEF Call
  <1>6. ExecutorInv' /\ Keyed'
    BY <1>2, <1>3, ExecutorStepStays, KeyedStays, ProposalExecutionAssumption
  <1>7. KeyedCall'
    BY <1>1, <1>4 DEF KeyedCall, CommandOf
  <1>8. PlansMade' /\ ActionsInOrder' /\ SentIsPlanned'
    BY <1>2, <1>4 DEF PlansMade, ActionsInOrder, SentIsPlanned, Verified
  <1>9. /\ run' \in [Runs -> Activations] /\ run'[r].step = "calling"
        /\ \A s \in Runs : /\ s # r => run'[s] = run[s]
                           /\ run'[s].next = run[s].next /\ run'[s].org = run[s].org
                           /\ run'[s].world = run[s].world
    BY <1>2, <1>5 DEF RunsOK, Activations
  <1>10. RunsOK(org, version)'
    <2> SUFFICES ASSUME NEW s \in Runs
                 PROVE  /\ run'[s].org \in 1..org /\ run'[s].world <= version
                        /\ run'[s].next <= Len(plan[s]) + 1
                        /\ run'[s].step \in Acting => run'[s].next <= Len(plan[s])
                        /\ run'[s].step \in {"start", "bind"} => s \in Executions
      BY <1>4, <1>9 DEF RunsOK
    <2>1. CASE s # r
      BY <1>2, <1>9, <2>1 DEF RunsOK
    <2>2. CASE s = r
      BY <1>2, <1>5, <1>9, <2>2 DEF RunsOK, Acting
    <2>3. QED
      BY <2>1, <2>2
  <1>11. CallerOK(call)'
    BY <1>1, <1>2, <1>4, <1>9 DEF CallerOK
  <1>12. RunsReportWhatIsVerified' /\ FastPathsReachDevices'
    BY <1>2, <1>4, <1>9 DEF RunsReportWhatIsVerified, FastPathsReachDevices, Verified, Runs,
                           FastPaths
  <1>13. CurrentOK(call, org, version)'
    <2> SUFFICES ASSUME NEW s \in FastPaths \ disturbed
                 PROVE  /\ run'[s].step \in Acting => run'[s].org = org
                        /\ run'[s].step = "call" => run'[s].world = version
                        /\ run'[s].step = "calling" => run'[s].world = version
      BY <1>4 DEF CurrentOK
    <2>1. s \in Runs
      BY DEF Runs
    <2>2. CASE s # r
      <3>1. run'[s].step # "calling"
        BY <1>2, <1>4, <1>9, <2>1, <2>2 DEF CallerOK
      <3>2. QED
        BY <1>2, <1>9, <2>1, <2>2, <3>1 DEF CurrentOK
    <2>3. CASE s = r
      BY <1>2, <1>5, <1>9, <2>1, <2>3 DEF CurrentOK, Acting
    <2>4. QED
      BY <2>2, <2>3
  <1>14. QED
    BY <1>6, <1>7, <1>8, <1>10, <1>11, <1>12, <1>13 DEF ExecutionInv

LEMMA OthersExecutionStays ==
  ASSUME ExecutionInv, Others
  PROVE  ExecutionInv'
  <1>1. /\ ExecutorInv /\ Keyed /\ KeyedCall
        /\ PlansMade /\ RunsOK(org, version) /\ CallerOK(call)
        /\ RunsReportWhatIsVerified /\ ActionsInOrder /\ SentIsPlanned
    BY DEF ExecutionInv
  <1>2. [SystemNext]_vars
    BY DEF Others, SystemNext
  <1>3. /\ UNCHANGED <<receipts, byId, byKey, sent, call, run, plan>>
        /\ disturbed' = Runs
    BY DEF Others, OthersWrite, OthersTransition, executorVars
  <1>4. ExecutorInv' /\ Keyed' /\ KeyedCall'
    BY <1>1, <1>2, <1>3, ExecutorStepStays, KeyedStays, ProposalExecutionAssumption DEF KeyedCall
  <1>5. version \in Nat /\ version' \in Nat /\ version <= version'
    BY <1>1, <1>2, KernelOfStep
  <1>6. org \in Nat /\ org' \in Nat /\ org <= org'
    <2>1. org \in Nat
      BY <1>1 DEF ExecutorInv, StateTypes
    <2>2. org' = org \/ org' = org + 1
      BY DEF Others, OthersWrite, OthersTransition, executorVars
    <2>3. QED
      BY <2>1, <2>2
  <1>7. RunsOK(org, version)'
    <2>1. run' = run /\ plan' = plan
      BY <1>3
    <2>2. \A r \in Runs : run[r].org \in 1..org' /\ run[r].world <= version'
      <3> SUFFICES ASSUME NEW r \in Runs PROVE run[r].org \in 1..org' /\ run[r].world <= version'
        OBVIOUS
      <3>1. run[r] \in Activations /\ run[r].org \in 1..org /\ run[r].world <= version
        BY <1>1 DEF RunsOK
      <3>2. run[r].org \in Nat /\ run[r].world \in Nat
        BY <3>1 DEF Activations
      <3>3. QED
        BY <1>5, <1>6, <3>1, <3>2
    <2>3. QED
      BY <1>1, <2>1, <2>2 DEF RunsOK
  <1>8. PlansMade' /\ ActionsInOrder' /\ SentIsPlanned' /\ CallerOK(call)'
    BY <1>1, <1>3 DEF PlansMade, ActionsInOrder, SentIsPlanned, Verified, CallerOK
  <1>9. RunsReportWhatIsVerified'
    BY <1>1, <1>3 DEF RunsReportWhatIsVerified, Verified
  <1>10. FastPathsReachDevices' /\ CurrentOK(call, org, version)'
    BY <1>3 DEF FastPathsReachDevices, CurrentOK, Runs
  <1>11. QED
    BY <1>4, <1>7, <1>8, <1>9, <1>10 DEF ExecutionInv

\* The executor's step in a run's thread: whose command it is, and that it is a
\* step of the system.
LEMMA CallingSteps ==
  ASSUME ExecutionInv, NEW r \in Runs, Calling(r)
  PROVE  /\ [SystemNext]_vars /\ ExecutorStep /\ run[r].step = "calling"
         /\ run[r].next \in DOMAIN plan[r] /\ run[r].next \in Nat
         /\ plan[r][run[r].next] \in CommandKeys
         /\ call.cmd = CommandOf(plan[r][run[r].next], run[r].world, run[r].org)
         /\ version' \in Nat /\ version <= version'
         /\ org' = org /\ plan' = plan
  <1>1. /\ ExecutorStep /\ run[r].step = "calling" /\ plan' = plan
        /\ ExecutorInv /\ RunsOK(org, version) /\ CallerOK(call) /\ PlansMade
    BY DEF Calling, ExecutionInv
  <1>2. [SystemNext]_vars
    BY <1>1 DEF SystemNext
  <1>3. run[r] \in Activations /\ run[r].next <= Len(plan[r])
    BY <1>1 DEF RunsOK, Acting
  <1>4. plan[r] \in Seq(CommandKeys) /\ Len(plan[r]) \in Nat
    BY <1>1, PlansKnown
  <1>5. run[r].next \in DOMAIN plan[r] /\ run[r].next \in Nat
    BY <1>3, <1>4 DEF Activations
  <1>6. plan[r][run[r].next] \in CommandKeys
    BY <1>4, <1>5
  <1>7. version' \in Nat /\ version <= version' /\ org' = org
    BY <1>1, <1>2, KernelOfStep, StepOfCommand
  <1>8. QED
    BY <1>1, <1>2, <1>5, <1>6, <1>7 DEF CallerOK

\* An activation a that goes on from x, past its action only if it is done.
Continues(a, x, done) ==
  /\ a \in Activations /\ a.step \in {"check"} \cup Ended
  /\ a.org = x.org /\ a.world = x.world
  /\ a.next = x.next \/ (a.next = x.next + 1 /\ done)

LEMMA AfterContinues ==
  ASSUME NEW x \in Activations, NEW o
  PROVE  /\ Continues(AfterFast(x, o), x, o # "RAISED")
         /\ Continues(After(x, o), x, o = "VERIFIED")
  <1>1. x.next + 1 \in Nat \ {0} /\ x.next \in Nat \ {0} /\ x.org \in Nat /\ x.world \in Nat
    BY DEF Activations
  <1>2. \A step \in Ended : Continues([x EXCEPT !.step = step], x, FALSE)
    BY <1>1 DEF Activations, Ended, Continues
  <1>3. Continues([x EXCEPT !.step = "check", !.next = @ + 1], x, TRUE)
    BY <1>1 DEF Activations, Continues
  <1>4. CASE o = "RAISED"
    BY <1>2, <1>4 DEF AfterFast, After, Ended, Continues
  <1>5. CASE o = "VERIFIED"
    BY <1>3, <1>5 DEF AfterFast, After, Continues
  <1>6. CASE o # "RAISED" /\ o # "VERIFIED"
    BY <1>2, <1>3, <1>6 DEF AfterFast, After, Ended, Continues
  <1>7. QED
    BY <1>4, <1>5, <1>6

\* Where a run is once its command returned: an execution goes on after VERIFIED
\* only, and an undisturbed fast path has had its command sent.
LEMMA ReturnsTo ==
  ASSUME ExecutionInv, NEW r \in Runs, Calling(r), call' = Idle,
         NEW key \in CommandKeys, key = plan[r][run[r].next]
  PROVE  \E a \in Activations :
           /\ run' = [run EXCEPT ![r] = a] /\ a.step \in {"check"} \cup Ended
           /\ a.org = run[r].org /\ a.world = run[r].world
           /\ \/ a.next = run[r].next
              \/ /\ a.next = run[r].next + 1
                 /\ r \in Executions => Verified(key)'
                 /\ r \in FastPaths \ disturbed => sent'[key] > 0
  <1>1. /\ ExecutorStep /\ run[r].step = "calling" /\ run[r].next \in Nat
        /\ call.cmd = CommandOf(key, run[r].world, run[r].org) /\ call.cmd.key = key
    BY CallingSteps DEF CommandOf
  <1>2. run \in [Runs -> Activations] /\ run[r] \in Activations
    BY DEF ExecutionInv, RunsOK
  <1>3. /\ Outcome = "VERIFIED" => Verified(key)'
        /\ \/ Outcome = "RAISED"
           \/ call.step = "organization" /\ Stale(call.cmd, call.world)
           \/ sent'[key] > 0
    BY <1>1, OutcomeTells, ProposalExecutionAssumption DEF ExecutionInv
  <1>4. r \in FastPaths \ disturbed /\ call.step = "organization" => ~Stale(call.cmd, call.world)
    <2> SUFFICES ASSUME r \in FastPaths \ disturbed, call.step = "organization"
                 PROVE  ~Stale(call.cmd, call.world)
      OBVIOUS
    <2>1. run[r].org = org /\ run[r].world = call.world
      BY <1>1 DEF ExecutionInv, CurrentOK, Acting
    <2>2. QED
      BY <1>1, <2>1 DEF Stale, CommandOf
  <1> DEFINE a == IF r \in FastPaths THEN AfterFast(run[r], Outcome) ELSE After(run[r], Outcome)
  <1>5. run' = [run EXCEPT ![r] = a]
    BY DEF Calling
  <1>6. Continues(a, run[r], Outcome # "RAISED" /\ (r \notin FastPaths => Outcome = "VERIFIED"))
    <2>1. CASE r \in FastPaths
      BY <1>2, <2>1, AfterContinues DEF Continues
    <2>2. CASE r \notin FastPaths
      BY <1>2, <2>2, AfterContinues DEF Continues
    <2>3. QED
      BY <2>1, <2>2
  <1> HIDE DEF a
  <1>7. r \in Executions => r \notin FastPaths
    BY ProposalExecutionAssumption
  <1>8. QED
    BY <1>3, <1>4, <1>5, <1>6, <1>7 DEF Continues

\* The fail-stop: what a run has sent comes after the actions it saw verified.
LEMMA OrderStays ==
  ASSUME ExecutionInv, NEW r \in Runs, Calling(r)
  PROVE  ActionsInOrder' /\ SentIsPlanned'
  <1>1. /\ ExecutorInv /\ PlansMade /\ RunsReportWhatIsVerified /\ ActionsInOrder /\ SentIsPlanned
        /\ Runs = Executions \cup FastPaths
    BY DEF ExecutionInv, Runs
  <1> DEFINE key == plan[r][run[r].next]
  <1>2. /\ [SystemNext]_vars /\ ExecutorStep /\ plan' = plan
        /\ run[r].next \in DOMAIN plan[r] /\ run[r].next \in Nat
        /\ key \in CommandKeys /\ call.cmd = CommandOf(key, run[r].world, run[r].org)
    BY CallingSteps
  <1>3. call.cmd.key = key /\ key \in Range(plan[r])
    BY <1>2 DEF CommandOf, Range
  <1>4. /\ \A k \in CommandKeys : byKey[k] # Nothing => byKey'[k] = byKey[k]
        /\ \A k \in CommandKeys : sent'[k] = sent[k] \/ k = key
    BY <1>1, <1>2, <1>3, ResultsStay, StepOfCommand
  <1>5. SentIsPlanned'
    BY <1>1, <1>2, <1>3, <1>4 DEF SentIsPlanned
  <1>6. Actions \in Seq(CommandKeys) /\ DOMAIN Actions = 1..Len(Actions) /\ Len(Actions) \in Nat
    BY ProposalExecutionAssumption
  <1>7. ActionsInOrder'
    <2> SUFFICES ASSUME NEW i \in DOMAIN Actions, NEW j \in DOMAIN Actions, i < j,
                        sent'[Actions[j]] > 0
                 PROVE  Verified(Actions[i])' \/ \E first \in 1..i : Actions[first] = Actions[j]
      BY DEF ActionsInOrder
    <2>1. Actions[i] \in CommandKeys /\ Actions[j] \in CommandKeys /\ i \in Nat
      BY <1>6
    <2>2. Verified(Actions[i]) => Verified(Actions[i])'
      BY <1>4, <2>1 DEF Verified
    <2>3. CASE sent[Actions[j]] > 0
      BY <1>1, <2>2, <2>3 DEF ActionsInOrder
    <2>4. CASE Actions[j] = key
      <3>1. r \in Executions /\ plan[r] = Actions
        <4>1. key \in Range(Actions)
          BY <2>4 DEF Range
        <4>2. QED
          BY <1>1, <1>2, <1>3, <4>1, PlansKnown
      <3>2. CASE i < run[r].next
        BY <1>1, <2>2, <3>1, <3>2 DEF RunsReportWhatIsVerified
      <3>3. CASE ~(i < run[r].next)
        <4>1. run[r].next \in 1..i /\ Actions[run[r].next] = Actions[j]
          BY <1>2, <1>6, <2>1, <2>4, <3>1, <3>3
        <4>2. QED
          BY <4>1
      <3>4. QED
        BY <3>2, <3>3
    <2>5. QED
      BY <1>4, <2>1, <2>3, <2>4
  <1>8. QED
    BY <1>5, <1>7

LEMMA CallingStays ==
  ASSUME ExecutionInv, NEW r \in Runs, Calling(r)
  PROVE  ExecutionInv'
  <1>1. /\ ExecutorInv /\ Keyed /\ KeyedCall
        /\ PlansMade /\ RunsOK(org, version) /\ CallerOK(call)
        /\ RunsReportWhatIsVerified /\ FastPathsReachDevices /\ CurrentOK(call, org, version)
    BY DEF ExecutionInv
  <1>2. PICK key \in CommandKeys : key = plan[r][run[r].next]
    BY CallingSteps
  <1>3. /\ [SystemNext]_vars /\ ExecutorStep /\ run[r].step = "calling"
        /\ run[r].next \in DOMAIN plan[r] /\ run[r].next \in Nat
        /\ version' \in Nat /\ version \in Nat /\ version <= version'
        /\ org' = org /\ plan' = plan
    BY <1>1, CallingSteps, VersionIsNat DEF ExecutorInv
  <1>4. disturbed' = IF version' = version THEN disturbed ELSE disturbed \cup (Runs \ {r})
    BY DEF Calling
  <1>5. ExecutorInv' /\ Keyed'
    BY <1>1, <1>3, ExecutorStepStays, KeyedStays, ProposalExecutionAssumption
  <1>6. /\ \A k \in CommandKeys : byKey[k] # Nothing => byKey'[k] = byKey[k]
        /\ \A k \in CommandKeys : sent[k] > 0 => sent'[k] > 0
        /\ \/ call' = Idle
           \/ /\ call'.step \in Unanswered \cup {"execute", "return"}
              /\ call'.cmd = call.cmd
        /\ call.step # "idle"
    <2>1. \A k \in CommandKeys : sent[k] <= sent'[k] /\ sent[k] \in Nat /\ sent'[k] \in Nat
      BY <1>1, <1>3, <1>5, StepOfCommand DEF ExecutorInv, StateTypes
    <2>2. QED
      BY <1>1, <1>3, <2>1, ResultsStay, StepOfCommand
  <1>7. KeyedCall'
    BY <1>1, <1>6 DEF KeyedCall, Idle
  <1>8. PlansMade' /\ ActionsInOrder' /\ SentIsPlanned'
    BY <1>1, <1>3, OrderStays DEF PlansMade
  <1>9. /\ \A s \in Runs : plan[s] \in Seq(CommandKeys) /\ Len(plan[s]) \in Nat
        /\ DOMAIN plan[r] = 1..Len(plan[r])
        /\ \A s \in Executions : plan[s] = Actions
    BY <1>1, PlansKnown
  <1>10. \A s \in FastPaths \ disturbed' : s \notin disturbed /\ (s = r \/ version' = version)
    BY <1>4 DEF Runs
  <1>11. CASE call' # Idle
    <2>1. run' = run /\ call'.step \notin {"idle", "organization"} /\ call'.cmd = call.cmd
      BY <1>6, <1>11 DEF Calling, Unanswered
    <2>2. RunsOK(org, version)'
      <3>1. \A s \in Runs : run[s].world <= version'
        <4> SUFFICES ASSUME NEW s \in Runs PROVE run[s].world <= version'
          OBVIOUS
        <4>1. run[s].world \in Nat /\ run[s].world <= version
          BY <1>1 DEF RunsOK, Activations
        <4>2. QED
          BY <1>3, <4>1
      <3>2. QED
        BY <1>1, <1>3, <2>1, <3>1 DEF RunsOK
    <2>3. CallerOK(call)'
      BY <1>1, <1>3, <2>1 DEF CallerOK
    <2>4. RunsReportWhatIsVerified'
      BY <1>1, <1>6, <1>9, <2>1, ProposalExecutionAssumption DEF RunsReportWhatIsVerified, Verified
    <2>5. FastPathsReachDevices'
      <3> SUFFICES ASSUME NEW s \in FastPaths \ disturbed', NEW i \in DOMAIN plan[s],
                          i < run[s].next
                   PROVE  sent'[plan[s][i]] > 0
        BY <1>3, <2>1 DEF FastPathsReachDevices
      <3>1. sent[plan[s][i]] > 0 /\ plan[s][i] \in CommandKeys
        BY <1>1, <1>9, <1>10 DEF FastPathsReachDevices, Runs
      <3>2. QED
        BY <1>6, <3>1
    <2>6. CurrentOK(call, org, version)'
      BY <1>1, <1>3, <1>10, <2>1 DEF CurrentOK
    <2>7. QED
      BY <1>5, <1>7, <1>8, <2>2, <2>3, <2>4, <2>5, <2>6 DEF ExecutionInv
  <1>12. CASE call' = Idle
    <2>1. PICK a \in Activations :
            /\ run' = [run EXCEPT ![r] = a] /\ a.step \in {"check"} \cup Ended
            /\ a.org = run[r].org /\ a.world = run[r].world
            /\ \/ a.next = run[r].next
               \/ /\ a.next = run[r].next + 1
                  /\ r \in Executions => Verified(key)'
                  /\ r \in FastPaths \ disturbed => sent'[key] > 0
      BY <1>2, <1>12, ReturnsTo
    <2>2. /\ run' \in [Runs -> Activations]
          /\ \A s \in Runs : run'[s] = IF s = r THEN a ELSE run[s]
      BY <1>1, <2>1 DEF RunsOK
    <2>3. a.step \notin Acting \cup {"start", "bind"}
      BY <2>1 DEF Acting, Ended
    <2>4. RunsOK(org, version)'
      <3> SUFFICES ASSUME NEW s \in Runs
                   PROVE  /\ run'[s].org \in 1..org /\ run'[s].world <= version'
                          /\ run'[s].next <= Len(plan[s]) + 1
                          /\ run'[s].step \in Acting => run'[s].next <= Len(plan[s])
                          /\ run'[s].step \in {"start", "bind"} => s \in Executions
        BY <1>3, <2>2 DEF RunsOK
      <3>1. /\ run[s].world \in Nat /\ run[s].world <= version /\ run[s].org \in 1..org
            /\ run[s].next <= Len(plan[s]) + 1
            /\ run[s].step \in Acting => run[s].next <= Len(plan[s])
            /\ run[s].step \in {"start", "bind"} => s \in Executions
        BY <1>1 DEF RunsOK, Activations
      <3>2. CASE s # r
        BY <1>3, <2>2, <3>1, <3>2
      <3>3. CASE s = r
        BY <1>3, <1>9, <2>1, <2>2, <2>3, <3>1, <3>3
      <3>4. QED
        BY <3>2, <3>3
    <2>5. CallerOK(call)'
      BY <1>1, <1>3, <2>2, <2>3 DEF CallerOK, Acting
    <2>6. RunsReportWhatIsVerified'
      <3> SUFFICES ASSUME NEW s \in Executions, NEW i \in DOMAIN Actions, i < run'[s].next
                   PROVE  Verified(Actions[i])'
        BY DEF RunsReportWhatIsVerified
      <3>1. s \in Runs /\ Actions[i] \in CommandKeys /\ i \in Nat
        BY ProposalExecutionAssumption DEF Runs
      <3>2. CASE i < run[s].next
        BY <1>1, <1>6, <3>1, <3>2 DEF RunsReportWhatIsVerified, Verified
      <3>3. CASE ~(i < run[s].next)
        <4>1. s = r /\ i = run[r].next /\ a.next = run[r].next + 1
          BY <1>3, <2>1, <2>2, <3>1, <3>3
        <4>2. QED
          BY <1>2, <1>9, <2>1, <4>1
      <3>4. QED
        BY <3>2, <3>3
    <2>7. FastPathsReachDevices'
      <3> SUFFICES ASSUME NEW s \in FastPaths \ disturbed', NEW i \in DOMAIN plan[s],
                          i < run'[s].next
                   PROVE  sent'[plan[s][i]] > 0
        BY <1>3 DEF FastPathsReachDevices
      <3>1. s \in Runs /\ plan[s][i] \in CommandKeys /\ i \in Nat /\ s \notin disturbed
        BY <1>9, <1>10 DEF Runs
      <3>2. CASE i < run[s].next
        BY <1>1, <1>6, <3>1, <3>2 DEF FastPathsReachDevices
      <3>3. CASE ~(i < run[s].next)
        <4>1. s = r /\ i = run[r].next /\ a.next = run[r].next + 1
          BY <1>3, <2>1, <2>2, <3>1, <3>3
        <4>2. QED
          BY <1>2, <2>1, <3>1, <4>1
      <3>4. QED
        BY <3>2, <3>3
    <2>8. CurrentOK(call, org, version)'
      <3> SUFFICES ASSUME NEW s \in FastPaths \ disturbed'
                   PROVE  /\ run'[s].step \in Acting => run'[s].org = org
                          /\ run'[s].step = "call" => run'[s].world = version'
                          /\ run'[s].step # "calling"
        BY <1>3 DEF CurrentOK
      <3>1. s \in Runs /\ s \notin disturbed
        BY <1>10 DEF Runs
      <3>2. CASE s = r
        BY <2>2, <2>3, <3>1, <3>2 DEF Acting
      <3>3. CASE s # r
        <4>1. run[s].step # "calling"
          BY <1>1, <1>3, <3>1, <3>3 DEF CallerOK
        <4>2. QED
          BY <1>1, <1>10, <2>2, <3>1, <3>3, <4>1 DEF CurrentOK
      <3>4. QED
        BY <3>2, <3>3
    <2>9. QED
      BY <1>5, <1>7, <1>8, <2>4, <2>5, <2>6, <2>7, <2>8 DEF ExecutionInv
  <1>13. QED
    BY <1>11, <1>12

---------------------------------------------------------------------------
(* The threads of an incident *)

\* Runs call the executor as any caller may.
LEMMA ExecutionIsSystem == ExecutionInv /\ [ExecutionNext]_allVars => [SystemNext]_vars
  <1> SUFFICES ASSUME ExecutionInv, [ExecutionNext]_allVars PROVE [SystemNext]_vars
    OBVIOUS
  <1>1. ASSUME NEW r \in Runs, Validate(r) \/ Bind(r) \/ Check(r) \/ CheckFast(r) \/ Stamp(r)
        PROVE  UNCHANGED vars
    BY <1>1 DEF Validate, Bind, Check, CheckFast, Stamp
  <1>2. ASSUME NEW r \in Runs, Call(r) PROVE SystemNext
    BY <1>2, CallBegins DEF SystemNext
  <1>3. ASSUME NEW r \in Runs, Calling(r) PROVE [SystemNext]_vars
    BY <1>3, CallingSteps
  <1>4. CASE Others
    BY <1>4 DEF Others, SystemNext
  <1>5. CASE Finished \/ UNCHANGED allVars
    BY <1>5 DEF Finished, allVars
  <1>6. QED
    BY <1>1, <1>2, <1>3, <1>4, <1>5 DEF ExecutionNext, RunStep

LEMMA ExecutionStays == ExecutionInv /\ [ExecutionNext]_allVars => ExecutionInv'
  <1> SUFFICES ASSUME ExecutionInv, [ExecutionNext]_allVars PROVE ExecutionInv'
    OBVIOUS
  <1>1. ASSUME NEW r \in Runs, RunStep(r) PROVE ExecutionInv'
    BY <1>1, MovesStay, CallStays, CallingStays DEF RunStep
  <1>2. CASE Others
    BY <1>2, OthersExecutionStays
  <1>3. CASE Finished \/ UNCHANGED allVars
    <2>1. UNCHANGED allVars
      BY <1>3 DEF Finished
    <2>2. /\ UNCHANGED <<version, org, receipts, byId, byKey, sent, call>> /\ UNCHANGED vars
          /\ UNCHANGED <<run, plan, disturbed>>
      BY <2>1 DEF allVars, runVars, vars, kernelVars, executorVars
    <2>3. ExecutorInv'
      BY <2>2, ExecutorStepStays DEF ExecutionInv
    <2>4. Keyed' /\ KeyedCall' /\ SentIsPlanned' /\ FastPathsReachDevices'
      BY <2>2 DEF ExecutionInv, Keyed, KeyedCall, SentIsPlanned, FastPathsReachDevices
    <2>5. RunsReportWhatIsVerified' /\ ActionsInOrder'
      BY <2>2 DEF ExecutionInv, RunsReportWhatIsVerified, ActionsInOrder, Verified
    <2>6. PlansMade' /\ RunsOK(org, version)' /\ CallerOK(call)' /\ CurrentOK(call, org, version)'
      BY <2>2 DEF ExecutionInv, PlansMade, RunsOK, CallerOK, CurrentOK
    <2>7. QED
      BY <2>3, <2>4, <2>5, <2>6 DEF ExecutionInv
  <1>4. QED
    BY <1>1, <1>2, <1>3 DEF ExecutionNext

LEMMA ExecutionStart == ExecutionInit => ExecutionInv
  <1> SUFFICES ASSUME ExecutionInit PROVE ExecutionInv
    OBVIOUS
  <1>1. ExecutorInv
    BY InitialExecutor DEF ExecutionInit
  <1>2. /\ byId = [i \in Ids |-> Nothing] /\ byKey = [k \in CommandKeys |-> Nothing]
        /\ receipts = [i \in Ids |-> Nothing] /\ sent = [k \in CommandKeys |-> 0]
        /\ call.step = "idle" /\ version = 0 /\ org = 1 /\ disturbed = {}
    BY DEF ExecutionInit, SystemInit, ExecutorInit, KernelInit, Idle
  <1>3. Keyed /\ KeyedCall
    BY <1>2, ProposalExecutionAssumption DEF Keyed, KeyedCall, Unanswered
  <1>4. PlansMade
    BY DEF ExecutionInit, PlansMade
  <1>5. PICK started \in Overlaps :
          run = [r \in Runs |-> [step |-> IF r \notin started THEN "ended"
                                         ELSE IF r \in Executions THEN "start" ELSE "check",
                                 next |-> 1, org |-> 1, world |-> 0]]
    BY DEF ExecutionInit
  <1>6. /\ run \in [Runs -> Activations]
        /\ \A r \in Runs : /\ run[r].step \in {"ended", "start", "check"}
                           /\ run[r].step = "start" => r \in Executions
                           /\ run[r].next = 1 /\ run[r].org = 1 /\ run[r].world = 0
    BY <1>5 DEF Activations, Ended
  <1>7. \A r \in Runs : Len(plan[r]) \in Nat /\ DOMAIN plan[r] = 1..Len(plan[r])
    BY <1>4, PlansKnown
  <1>8. RunsOK(org, version)
    BY <1>2, <1>6, <1>7 DEF RunsOK, Acting
  <1>9. CallerOK(call) /\ CurrentOK(call, org, version)
    BY <1>6 DEF CallerOK, CurrentOK, Acting, Runs
  <1>10. RunsReportWhatIsVerified
    BY <1>6, ProposalExecutionAssumption DEF RunsReportWhatIsVerified, Runs
  <1>11. ActionsInOrder /\ SentIsPlanned
    BY <1>2, ProposalExecutionAssumption DEF ActionsInOrder, SentIsPlanned
  <1>12. FastPathsReachDevices
    BY <1>6, <1>7 DEF FastPathsReachDevices, Runs
  <1>13. QED
    BY <1>1, <1>3, <1>4, <1>8, <1>9, <1>10, <1>11, <1>12 DEF ExecutionInv

\* ExecutionInv is an invariant of the incident's threads.
THEOREM ExecutionInvariant == ExecutionSpec => []ExecutionInv
  BY ExecutionStart, ExecutionStays, PTL DEF ExecutionSpec

\* Executions and fast paths drive the executor as its callers may: what holds of
\* CommandExecutor holds during an incident.
THEOREM ExecutionsAreCallers == ExecutionSpec => SystemSpec
  <1>1. ExecutionInit => SystemInit
    BY DEF ExecutionInit
  <1>2. QED
    BY <1>1, ExecutionIsSystem, ExecutionInvariant, PTL DEF ExecutionSpec, SystemSpec

\* Fail-stop: whichever of the concurrent runs of a proposal sends an action, all
\* actions before it are VERIFIED.
THEOREM ExecutionsFailStop == ExecutionSpec => []ActionsInOrder
  <1>1. ExecutionInv => ActionsInOrder
    BY DEF ExecutionInv
  <1>2. QED
    BY <1>1, ExecutionInvariant, PTL

\* What a run reports as done is what the executor remembers as VERIFIED.
THEOREM ReportsAreVerified == ExecutionSpec => []RunsReportWhatIsVerified
  <1>1. ExecutionInv => RunsReportWhatIsVerified
    BY DEF ExecutionInv
  <1>2. QED
    BY <1>1, ExecutionInvariant, PTL

\* A fast path that nobody disturbs sends every action it went through.
THEOREM FastPathsAreHeard == ExecutionSpec => []FastPathsReachDevices
  <1>1. ExecutionInv => FastPathsReachDevices
    BY DEF ExecutionInv
  <1>2. QED
    BY <1>1, ExecutionInvariant, PTL

\* The drone is sent home or after a person, not both.
THEOREM DroneIsNotTorn == ExecutionSpec => []DroneHasOneTask
  <1>1. ExecutionInv => DroneHasOneTask
    <2> SUFFICES ASSUME ExecutionInv, sent[Recall] > 0, sent[Track] > 0 PROVE FALSE
      BY DEF DroneHasOneTask
    <2>1. \E r, s \in Runs : Recall \in Range(plan[r]) /\ Track \in Range(plan[s])
      BY ProposalExecutionAssumption DEF ExecutionInv, SentIsPlanned
    <2>2. QED
      BY <2>1, PlansKnown DEF ExecutionInv
  <1>2. QED
    BY <1>1, ExecutionInvariant, PTL

\* The runs stay typed.
THEOREM ExecutionTypes == ExecutionSpec => []ExecutionTypeOK
  <1>1. ExecutionInv /\ ExecutorTypeOK => ExecutionTypeOK
    <2> SUFFICES ASSUME ExecutionInv, ExecutorTypeOK PROVE ExecutionTypeOK
      OBVIOUS
    <2>1. /\ RunsOK(org, version) /\ org \in 1..MaxOrg /\ version \in 0..MaxVersion
          /\ MaxOrg \in Nat /\ MaxVersion \in Nat
      BY WorldStateKernelAssumption, CommandExecutorAssumption
         DEF ExecutionInv, ExecutorTypeOK, TypeOK
    <2>2. ASSUME NEW r \in Runs
          PROVE  run[r] \in [step : {"start", "bind", "check", "stamp", "call", "calling"} \cup Ended,
                             next : Nat \ {0}, org : 1..MaxOrg, world : 0..MaxVersion]
      <3>1. run[r] \in Activations /\ run[r].org \in 1..org /\ run[r].world <= version
        BY <2>1 DEF RunsOK
      <3>2. run[r].org \in 1..MaxOrg /\ run[r].world \in 0..MaxVersion
        BY <2>1, <3>1 DEF Activations
      <3>3. QED
        BY <3>1, <3>2 DEF Activations
    <2>3. QED
      BY <2>1, <2>2 DEF RunsOK, ExecutionTypeOK
  <1>2. QED
    BY <1>1, ExecutionInvariant, ExecutionsAreCallers, ExecutorTypes, PTL

---------------------------------------------------------------------------
(* One world for all *)

\* A world is published only below the last version.
LEMMA PublishingIsBounded ==
  ASSUME IInv, Next, version' # version
  PROVE  version < MaxVersion
  <1>1. ASSUME NEW e, NEW c, Update(e, c) PROVE version < MaxVersion
    BY <1>1 DEF Update, Commit
  <1>2. QED
    BY <1>1 DEF Next, Write, Apply

\* A kernel operation that leaves the version leaves everything: a no-op commits
\* nothing, keeps no key and is not counted.
LEMMA QuietOperation ==
  ASSUME IInv, [Next]_kernelVars, version' = version
  PROVE  UNCHANGED kernelVars
  <1>1. version \in Nat /\ commits \in [Keys -> Nat]
    BY KernelKnown DEF IInv, TypeOK
  <1>2. ASSUME NEW e, NEW c, Update(e, c) PROVE UNCHANGED <<facts, version, past>>
    BY <1>1, <1>2 DEF Update, Commit, NextVersion
  <1>3. ASSUME NEW ev \in Events, Apply(ev) PROVE UNCHANGED <<processed, commits>>
    <2>1. processed' = processed
      BY <1>1, <1>3 DEF Apply, Kept
    <2>2. ev.key \in Keys /\ version' - version = 0
      BY <1>1 DEF Events
    <2>3. commits' = [commits EXCEPT ![ev.key] = commits[ev.key] + 0]
      BY <1>3, <2>2 DEF Apply
    <2>4. QED
      BY <1>1, <2>1, <2>2, <2>3
  <1>4. QED
    BY <1>2, <1>3 DEF Next, Write, Apply, kernelVars

\* To the observers, what drives the executor is one of the other writers.
LEMMA DriveIsOtherWriter ==
  ASSUME ExecutionInv, Drive
  PROVE  [ExecutionNext]_allVars /\ [ObserversNext]_worldVars
  <1>1. PICK r \in Runs : RunStep(r)
    BY DEF Drive
  <1>2. ExecutorInv
    BY DEF ExecutionInv
  <1>3. UNCHANGED kernelVars \/ \E e \in Entities, c \in Contents : Write(e, c)
    <2>1. CASE Validate(r) \/ Bind(r) \/ Check(r) \/ CheckFast(r) \/ Stamp(r)
      BY <2>1 DEF Validate, Bind, Check, CheckFast, Stamp, vars
    <2>2. CASE Call(r)
      BY <1>2, <2>2, CallBegins, ExecutorWrites
    <2>3. CASE Calling(r)
      BY <1>2, <2>3, ExecutorWrites DEF Calling
    <2>4. QED
      BY <1>1, <2>1, <2>2, <2>3 DEF RunStep
  <1>4. UNCHANGED worldVars \/ OtherWriter
    BY <1>3 DEF Drive, OtherWriter, worldVars
  <1>5. QED
    BY <1>1, <1>4 DEF ExecutionNext, ObserversNext

\* To the runs, what the observers do is a write of others or nothing.
LEMMA ObserveIsOthers ==
  ASSUME ObserversInv, Observe, MaxVersion <= MaxWrites
  PROVE  [ExecutionNext]_allVars
  <1>1. IInv /\ [Next]_kernelVars
    BY ObserversStep DEF ObserversInv, Observe
  <1>2. CASE version' = version
    <2>1. UNCHANGED kernelVars /\ disturbed' = disturbed
      BY <1>1, <1>2, QuietOperation DEF Observe
    <2>2. UNCHANGED allVars
      BY <2>1 DEF Observe, allVars, vars, runVars
    <2>3. QED
      BY <2>2
  <1>3. CASE version' # version
    <2>1. Next
      BY <1>1, <1>3 DEF kernelVars
    <2>2. version < MaxWrites
      BY <1>1, <1>3, <2>1, PublishingIsBounded, KernelKnown, WorldStateKernelAssumption,
         CommandExecutorAssumption
    <2>3. OthersWrite /\ disturbed' = Runs
      BY <1>3, <2>1, <2>2 DEF Observe, OthersWrite
    <2>4. Others
      BY <2>3 DEF Observe, Others
    <2>5. QED
      BY <2>4 DEF ExecutionNext
  <1>4. QED
    BY <1>2, <1>3

LEMMA SharedStep ==
  ASSUME ExecutionInv, ObserversInv, [SharedNext]_sharedVars, MaxVersion <= MaxWrites
  PROVE  [ExecutionNext]_allVars /\ [ObserversNext]_worldVars
  <1>1. CASE Drive
    BY <1>1, DriveIsOtherWriter
  <1>2. CASE Observe
    BY <1>2, ObserveIsOthers DEF Observe
  <1>3. CASE ChangeOrganization
    <2>1. Others /\ UNCHANGED worldVars
      BY <1>3 DEF ChangeOrganization, Others, OthersTransition, worldVars
    <2>2. QED
      BY <2>1 DEF ExecutionNext
  <1>4. CASE UNCHANGED sharedVars
    BY <1>4 DEF sharedVars, allVars, vars, worldVars
  <1>5. QED
    BY <1>1, <1>2, <1>3, <1>4 DEF SharedNext

\* Around one kernel, each part is the environment the other was proved in: every
\* behaviour of the whole is one of ProposalExecution and one of WorldObservers,
\* when the bound on the others' worlds does not cut off what the kernel allows.
THEOREM PartsShareOneWorld ==
  ASSUME MaxVersion <= MaxWrites
  PROVE  SharedSpec => ExecutionSpec /\ ObserversSpec
  <1>1. SharedInit => ExecutionInit /\ ObserversInit /\ ExecutionInv /\ ObserversInv
    BY ExecutionStart, ObserversStart DEF SharedInit
  <1>2. ExecutionInv /\ ObserversInv /\ [SharedNext]_sharedVars =>
          [ExecutionNext]_allVars /\ [ObserversNext]_worldVars
    BY SharedStep
  <1>3. ExecutionInv /\ ObserversInv /\ [SharedNext]_sharedVars =>
          ExecutionInv' /\ ObserversInv'
    BY <1>2, ExecutionStays, ObserversStep
  <1>4. QED
    BY <1>1, <1>2, <1>3, PTL DEF SharedSpec, ExecutionSpec, ObserversSpec

\* So an action is sent only after those before it are VERIFIED, and a snapshot is
\* one version of the world, while executions, fast paths, sensors, monitors and
\* snapshots all go on at once.
COROLLARY OrderAndSnapshotsInOneWorld ==
  ASSUME MaxVersion <= MaxWrites
  PROVE  SharedSpec => [](ActionsInOrder /\ SnapshotIsOneVersion /\ SignalsApplyOnce)
  BY PartsShareOneWorld, ExecutionsFailStop, SnapshotsAreVersions, SignalsCountOnce, PTL
============================================================================
