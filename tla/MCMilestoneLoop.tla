-------------------------- MODULE MCMilestoneLoop --------------------------
(***************************************************************************)
(* Small instances of MilestoneLoop: two milestones, a Backlog item and a  *)
(* dispute.                                                                *)
(***************************************************************************)
EXTENDS MilestoneLoop

CONSTANTS m1, m2, b1, d1
=============================================================================
