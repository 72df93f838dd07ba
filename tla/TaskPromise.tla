---------------------------- MODULE TaskPromise ----------------------------
(***************************************************************************)
(* What the product promises about a task, with nothing of how the core    *)
(* keeps it: a task asks its user twice, once for the plan and once for    *)
(* the merge; nothing lands in the base branch without the second answer;  *)
(* a finished task has landed; a cancelled or finished task stays so.      *)
(* docs/development/requirements.md, T-05 to T-10, and the transition      *)
(* table of crates/autome-domain/src/task.rs.  Scheduler implements it.    *)
(***************************************************************************)
EXTENDS Naturals

CONSTANT Tasks

VARIABLES
  stage,  \* where each task is, as its user sees it
  landed  \* the tasks whose whole work is in the base branch

vars == <<stage, landed>>

Stages == {"none", "queued", "working", "asksPlan", "asksMerge", "landing", "clearing",
           "held", "done", "cancelled"}
Over   == {"none", "done", "cancelled"}

TypeOK == stage \in [Tasks -> Stages] /\ landed \subseteq Tasks

Init == stage = [t \in Tasks |-> "none"] /\ landed = {}

(* The task goes from one of the stages of `from` to one of `to`.          *)
Moves(t, from, to) ==
  /\ stage[t] \in from
  /\ \E x \in to : stage' = [stage EXCEPT ![t] = x]
  /\ UNCHANGED landed

Submit(t)      == Moves(t, {"none"}, {"queued"})
Begin(t)       == Moves(t, {"queued"}, {"working"})
Ask(t)         == Moves(t, {"working"}, {"asksPlan", "asksMerge"})
AnswerPlan(t)  == Moves(t, {"asksPlan"}, {"working"})
AnswerMerge(t) == Moves(t, {"asksMerge"}, {"working", "landing"})
Blocked(t)     == t \notin landed /\ Moves(t, {"landing"}, {"asksMerge"})
Landed(t)      == t \in landed /\ Moves(t, {"landing"}, {"clearing"})
Finish(t)      == Moves(t, {"clearing"}, {"done"})
Hold(t)        == Moves(t, Stages \ ({"held", "queued", "asksPlan", "asksMerge"} \cup Over), {"held"})
Release(t)     == Moves(t, {"held"}, {"queued", "working"})
Cancel(t)      == Moves(t, Stages \ Over, {"cancelled"})

(* Only a landing task lands; only new work takes it back.                 *)
Land(t)   == stage[t] = "landing" /\ landed' = landed \cup {t} /\ UNCHANGED stage
Rework(t) == stage[t] = "working" /\ landed' = landed \ {t} /\ UNCHANGED stage

Next == \E t \in Tasks :
  \/ Submit(t) \/ Begin(t) \/ Ask(t) \/ AnswerPlan(t) \/ AnswerMerge(t)
  \/ Blocked(t) \/ Landed(t) \/ Finish(t) \/ Hold(t) \/ Release(t) \/ Cancel(t)
  \/ Land(t) \/ Rework(t)

Spec == Init /\ [][Next]_vars

(* A task that is cleaned up or done has landed.                           *)
DoneHasLanded == \A t \in Tasks : stage[t] \in {"clearing", "done"} => t \in landed
=============================================================================
