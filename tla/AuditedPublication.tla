------------------------ MODULE AuditedPublication ------------------------
(***************************************************************************)
(* What ModeManager and ProposalBoard both promise: a value becomes        *)
(* visible only after the audit ledger holds it, one change at a time, and *)
(* only along legal changes.  A change that was recorded is published.     *)
(***************************************************************************)
CONSTANTS
  Keys,    \* what is published: the organization, or each proposal
  Start,   \* the value every key starts with
  Legal    \* the changes a key may go through: a set of <<old, new>>

VARIABLES recorded,   \* key -> last value the ledger acknowledged
          published   \* key -> value the readers see

Init ==
  /\ published = [k \in Keys |-> Start]
  /\ recorded = published

Record(k) ==
  /\ recorded = published
  /\ \E change \in Legal :
       /\ change[1] = published[k]
       /\ recorded' = [recorded EXCEPT ![k] = change[2]]
  /\ UNCHANGED published

Publish ==
  /\ recorded # published
  /\ published' = recorded
  /\ UNCHANGED recorded

Next == (\E k \in Keys : Record(k)) \/ Publish

Spec == Init /\ [][Next]_<<recorded, published>>

FairSpec == Spec /\ WF_<<recorded, published>>(Publish)
===========================================================================
