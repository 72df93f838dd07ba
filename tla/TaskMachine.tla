---------------------------- MODULE TaskMachine ----------------------------
(***************************************************************************)
(* The transition table of one task: crates/autome-domain/src/task.rs.     *)
(*                                                                         *)
(* The table is a pure function of the task's state, the trigger and a     *)
(* context (enabled roles, budget N, the user's pending decisions).  There *)
(* is one operator per trigger; each returns a transition, or Rejected.    *)
(* The module has no variables: Scheduler applies it to several tasks with *)
(* sessions, crashes and a queue; MilestoneLoop walks it for one with its  *)
(* document, WorkspaceMerge for one with its repositories.                 *)
(*                                                                         *)
(* Here and in every module, a definition whose name begins with Bug is    *)
(* not part of the model: it is the definition after it with a plausible   *)
(* bug, and shows that a property would notice.                            *)
(***************************************************************************)
EXTENDS Naturals

---------------------------------------------------------------------------
(* Nodes.  A role is named by the node it runs in: Design is the plan      *)
(* role's node, Implement the impl role's.                                 *)

RoleNodes    == {"Design", "Review", "Adjudicate", "Implement", "Audit", "Retro"}
SessionNodes == RoleNodes \cup {"Intake"}
WaitNodes    == {"AwaitDesignApproval", "AwaitMerge"}
CoreNodes    == {"Rebase", "Merging", "Cleanup"}
Nodes        == SessionNodes \cup WaitNodes \cup CoreNodes

(* A failure keeps the reason the failure panel branches on.               *)
Reasons == {"DesignBudget", "ImplBudget", "Infeasible", "Protocol",
            "SessionCrashed", "RebaseConflict", "Config", "CoreStep"}

(* A task state is [st, node, reason, limit]: node is "none" where the     *)
(* variant carries none, limit is the budget an exhausted loop ran out of. *)
State(st, node)           == [st |-> st, node |-> node, reason |-> "none", limit |-> 0]
Queued                    == State("Queued", "none")
Active(node)              == State("Active", node)
Paused(node)              == State("Paused", node)
Stopped(node)             == State("Stopped", node)
Done                      == State("Done", "none")
Cancelled                 == State("Cancelled", "none")
Failed(at, reason, limit) == [st |-> "Failed", node |-> at, reason |-> reason, limit |-> limit]

TaskStates ==
  {Queued, Done, Cancelled}
    \cup [st : {"Active", "Paused", "Stopped"}, node : Nodes, reason : {"none"}, limit : {0}]
    \cup [st : {"Failed"}, node : Nodes, reason : Reasons, limit : Nat]

IsTerminal(s)   == s.st \in {"Done", "Cancelled"}
OccupiesSlot(s) == s.st = "Active" /\ s.node \notin WaitNodes

---------------------------------------------------------------------------
(* A transition.  action is "Start" (launch the session of next.node, with *)
(* the given injection), "RunCoreStep", "RunCancel" or "None".  budget is  *)
(* the N the transition carries, NoBudget when it carries none.            *)

NoBudget == 0
Injections == {"none", "DesignFeedback", "Decisions", "RebaseConflict"}

Rejected == [ok |-> FALSE, next |-> Queued, action |-> "None", inject |-> "none",
             budget |-> NoBudget, consumes |-> FALSE]
To(next, action) == [ok |-> TRUE, next |-> next, action |-> action, inject |-> "none",
                     budget |-> NoBudget, consumes |-> FALSE]

Start(node, inject) == [To(Active(node), "Start") EXCEPT !.inject = inject]
RunCore(node)       == To(Active(node), "RunCoreStep")
Await(node)         == To(Active(node), "None")
Fail(at, reason)    == To(Failed(at, reason, 0), "None")
OutOfRounds(at, reason, limit) == To(Failed(at, reason, limit), "None")

(* A context is [enabled, factor, budget, included, ruled].                *)

---------------------------------------------------------------------------
(* Where each loop goes next, with the roles the configuration disables    *)
(* skipped over.                                                           *)

AfterDesign(c) == IF "Review" \in c.enabled THEN Start("Review", "none")
                                            ELSE Await("AwaitDesignApproval")

AfterReview(c) == IF "Adjudicate" \in c.enabled THEN Start("Adjudicate", "none")
                                                ELSE Await("AwaitDesignApproval")

AfterTheLoop(c) == IF "Retro" \in c.enabled THEN Start("Retro", "none") ELSE RunCore("Rebase")

(* base is the budget the caller decided on, NoBudget when it has none.    *)
StartImpl(c, base) ==
  LET had == IF base # NoBudget THEN base ELSE c.budget
  IN  IF c.included = 0
      THEN [Start("Implement", "none") EXCEPT !.budget = base]
      ELSE [Start("Implement", "Decisions") EXCEPT !.budget = had + c.factor * c.included,
                                                   !.consumes = TRUE]

---------------------------------------------------------------------------
(* Control triggers.                                                       *)

BugCancelsAnything(s) == To(Cancelled, "RunCancel")
OnCancel(s) == IF IsTerminal(s) THEN Rejected ELSE To(Cancelled, "RunCancel")

OnPause(s) == IF s.st = "Active" /\ s.node \notin WaitNodes
              THEN To(Paused(s.node), "None") ELSE Rejected

OnStop(s) == IF \/ s.st = "Active" /\ s.node \notin WaitNodes
                \/ s.st = "Paused"
             THEN To(Stopped(s.node), "None") ELSE Rejected

OnResume(s) == IF s.st \in {"Paused", "Stopped"} THEN To(Queued, "None") ELSE Rejected

OnSlotAvailable(s) == IF s.st = "Queued" THEN Start("Intake", "none") ELSE Rejected

OnExtendBudget(s, extra, c) ==
  IF s.st # "Failed" \/ extra = 0 THEN Rejected
  ELSE CASE s.reason = "ImplBudget"   -> StartImpl(c, s.limit + extra)
         [] s.reason = "DesignBudget" -> Start("Design", "none")
         [] OTHER                     -> Rejected

OnRerunFrom(s, node, c) ==
  IF s.st \in {"Failed", "Stopped"}
  THEN CASE node \in {"Intake"} \cup c.enabled -> Start(node, "none")
         [] node = "Rebase"                    -> RunCore("Rebase")
         [] OTHER                              -> Rejected
  ELSE Rejected

---------------------------------------------------------------------------
(* A session ended.  outcome is "Ok", "Crashed", "Unparseable",            *)
(* "MissingArtifact" or "GuardFailed"; d is the design document's status   *)
(* block when it is "Ok": [status, designRound, designLimit, implRound,    *)
(* implLimit, open, unfinished].  open: some milestone is open;            *)
(* unfinished: not all of them are done (one is open or awaiting audit).   *)

ImplBudgetOf(c, d) == IF c.budget # NoBudget THEN c.budget ELSE d.implLimit

AfterAdjudicate(d) ==
  IF d.status # "Designing" THEN Await("AwaitDesignApproval")
  ELSE IF d.designRound >= d.designLimit
       THEN OutOfRounds("Adjudicate", "DesignBudget", d.designLimit)
       ELSE Start("Review", "none")

(* The implementation loop's test: leave it, give up, or go round again.   *)
NextImplRound(at, finished, c, d) ==
  IF finished THEN AfterTheLoop(c)
  ELSE IF d.implRound >= ImplBudgetOf(c, d)
       THEN OutOfRounds(at, "ImplBudget", ImplBudgetOf(c, d))
       ELSE StartImpl(c, NoBudget)

AfterSession(node, c, d) ==
  CASE node = "Intake"     -> Start("Design", "none")
    [] node = "Design"     -> AfterDesign(c)
    [] node = "Review"     -> AfterReview(c)
    [] node = "Adjudicate" -> AfterAdjudicate(d)
    [] node = "Implement"  -> IF "Audit" \in c.enabled
                              THEN Start("Audit", "none")
                              ELSE NextImplRound("Implement", ~d.open, c, d)
    [] node = "Audit"      -> NextImplRound("Audit", ~d.unfinished, c, d)
    [] OTHER               -> RunCore("Rebase")

OnSessionEnded(s, outcome, c, d) ==
  IF s.st # "Active" \/ s.node \notin SessionNodes THEN Rejected
  ELSE IF outcome = "Ok"
       THEN CASE d.status = "Infeasible"      -> Fail(s.node, "Infeasible")
              [] d.status = "ProtocolFailure" -> Fail(s.node, "Protocol")
              [] OTHER                        -> AfterSession(s.node, c, d)
       ELSE Fail(s.node, IF outcome = "Crashed" THEN "SessionCrashed" ELSE "Protocol")

---------------------------------------------------------------------------
(* The two stopping points, and the steps the core runs itself.            *)

OnApprove(s, c) ==
  IF s # Active("AwaitDesignApproval") THEN Rejected
  ELSE IF c.included + c.ruled > 0
       THEN [Start("Design", "Decisions") EXCEPT !.consumes = TRUE]
       ELSE [Start("Implement", "none") EXCEPT !.budget = c.budget]

OnReject(s) == IF s = Active("AwaitDesignApproval") THEN Start("Design", "DesignFeedback")
                                                    ELSE Rejected

OnMerge(s, c) ==
  IF s # Active("AwaitMerge") THEN Rejected
  ELSE IF c.included > 0 THEN StartImpl(c, NoBudget) ELSE RunCore("Merging")

(* result is "Ok", "Conflict", "Blocked" or "Failed".                      *)
OnCoreStepDone(s, node, result) ==
  IF s # Active(node) \/ node \notin CoreNodes THEN Rejected
  ELSE CASE node = "Rebase"  /\ result = "Ok"               -> Await("AwaitMerge")
         [] node = "Rebase"  /\ result = "Conflict"         -> Start("Implement", "RebaseConflict")
         [] node = "Merging" /\ result = "Ok"               -> RunCore("Cleanup")
         [] node = "Merging" /\ result = "Blocked"          -> Await("AwaitMerge")
         [] node = "Cleanup" /\ result \in {"Ok", "Failed"} -> To(Done, "None")
         [] node # "Rebase"  /\ result = "Conflict"         -> Fail(node, "RebaseConflict")
         [] OTHER                                           -> Fail(node, "CoreStep")

(* advance (scheduler.rs) stores the budget a transition carries; entering *)
(* the implementation loop by approval with no budget yet, it computes     *)
(* N = factor * max(1, milestones).  0 milestones stands for a document    *)
(* that cannot be read: both give the factor alone.                        *)
ComputeBudget(factor, milestones) == factor * (IF milestones = 0 THEN 1 ELSE milestones)

ResolveBudget(tr, approving, c, milestones) ==
  IF tr.budget # NoBudget THEN tr.budget
  ELSE IF approving /\ tr.next = Active("Implement") /\ c.budget = NoBudget
       THEN ComputeBudget(c.factor, milestones)
       ELSE c.budget
=============================================================================
