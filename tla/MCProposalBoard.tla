-------------------------- MODULE MCProposalBoard --------------------------
(* TLC instances of ProposalBoard. *)
EXTENDS ProposalBoard, TLC

\* "supervisor" is active in NORMAL and WATCH only.
MCAgentRoles == {"supervisor"}

MCSymmetry == Permutations(ProposalIds)
============================================================================
