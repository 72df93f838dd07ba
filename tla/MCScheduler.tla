---------------------------- MODULE MCScheduler ----------------------------
(***************************************************************************)
(* Small instances of Scheduler.  One task with every role and button      *)
(* shows what sessions, restarts and the two stopping points do; two tasks *)
(* with few roles show what the queue and the slots do.                    *)
(***************************************************************************)
EXTENDS Scheduler, TLC

Doc(status, open, unfinished, implRound) ==
  [status |-> status, designRound |-> 1, designLimit |-> 1, implRound |-> implRound,
   implLimit |-> 1, open |-> open, unfinished |-> unfinished, milestones |-> 1]

(* Work goes on; the plan is agreed and the work audited; all is done; the *)
(* loop has used up its rounds.                                            *)
AllDocs == {Doc("Designing", TRUE, TRUE, 0), Doc("Implementing", FALSE, TRUE, 1),
            Doc("Implementing", FALSE, FALSE, 1), Doc("Implementing", TRUE, TRUE, 2)}

(* The loop goes round, ends, or gives up.                                 *)
ShortDocs == {Doc("Implementing", FALSE, FALSE, 1), Doc("Implementing", TRUE, TRUE, 2)}

(* The documents of a task whose first session finds it infeasible.        *)
StopDocs == {Doc("Infeasible", TRUE, TRUE, 0)}

(* The documents of a task that finishes.                                  *)
DoneDocs == {Doc("Implementing", FALSE, FALSE, 1)}

Symmetry == Permutations(Sids)
=============================================================================
