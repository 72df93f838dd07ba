------------------------- MODULE TaskMachineProofs -------------------------
(***************************************************************************)
(* What every transition of the table has in common, whatever the state,   *)
(* the trigger and the context: the facts the scheduler's proofs rest on.  *)
(***************************************************************************)
EXTENDS TaskMachine, TLAPS

Transitions == [ok : BOOLEAN, next : TaskStates,
                action : {"None", "Start", "RunCoreStep", "RunCancel"},
                inject : Injections, budget : Nat, consumes : BOOLEAN]

Contexts == [enabled : SUBSET RoleNodes, factor : Nat, budget : Nat,
             included : Nat, ruled : Nat]

(* A session is started for the session node the task enters, and the      *)
(* checkouts are discarded for the task that is cancelled.                 *)
StartsItsNode(tr) ==
  /\ tr.action = "Start" => tr.next = Active(tr.next.node) /\ tr.next.node \in SessionNodes
  /\ tr.action = "RunCancel" => tr.next = Cancelled

(* The constructors of transitions.                                        *)
LEMMA StatesAreTyped ==
  /\ {Queued, Done, Cancelled} \subseteq TaskStates
  /\ \A n \in Nodes : {Active(n), Paused(n), Stopped(n)} \subseteq TaskStates
  /\ \A n \in Nodes, r \in Reasons, l \in Nat : Failed(n, r, l) \in TaskStates
BY DEF TaskStates, Queued, Done, Cancelled, Active, Paused, Stopped, Failed, State

(* Starting a session.                                                     *)
LEMMA StartIsTyped ==
  ASSUME NEW n \in SessionNodes, NEW i \in Injections
  PROVE  Start(n, i) \in Transitions /\ StartsItsNode(Start(n, i))
BY StatesAreTyped DEF Start, To, Transitions, StartsItsNode, Nodes, Injections, NoBudget, Active, State

(* The transitions without a session.                                      *)
LEMMA OthersAreTyped ==
  /\ \A n \in Nodes : RunCore(n) \in Transitions /\ Await(n) \in Transitions
  /\ \A n \in Nodes, r \in Reasons, l \in Nat :
       OutOfRounds(n, r, l) \in Transitions /\ Fail(n, r) \in Transitions
  /\ Rejected \in Transitions
BY StatesAreTyped DEF RunCore, Await, OutOfRounds, Fail, Rejected, To, Transitions, Injections, NoBudget

(* Setting the budget or the consumption leaves the rest of a transition.  *)
LEMMA Adjusted ==
  ASSUME NEW tr \in Transitions, StartsItsNode(tr), NEW n \in Nat, NEW b \in BOOLEAN
  PROVE  /\ [tr EXCEPT !.budget = n] \in Transitions
         /\ [tr EXCEPT !.budget = n, !.consumes = b] \in Transitions
         /\ [tr EXCEPT !.consumes = b] \in Transitions
         /\ StartsItsNode([tr EXCEPT !.budget = n])
         /\ StartsItsNode([tr EXCEPT !.budget = n, !.consumes = b])
         /\ StartsItsNode([tr EXCEPT !.consumes = b])
BY DEF Transitions, StartsItsNode

(* The budget of a round that absorbs decisions is a number.               *)
LEMMA StartImplIsTyped ==
  ASSUME NEW c \in Contexts, NEW base \in Nat
  PROVE  StartImpl(c, base) \in Transitions /\ StartsItsNode(StartImpl(c, base))
<1> DEFINE had  == IF base # NoBudget THEN base ELSE c.budget
           more == had + c.factor * c.included
<1>1. more \in Nat
  <2>1. c.factor * c.included \in Nat
    BY DEF Contexts
  <2>2. had \in Nat
    BY DEF Contexts
  <2>3. QED
    BY <2>1, <2>2
<1>2. "Implement" \in SessionNodes /\ {"none", "Decisions"} \subseteq Injections
  BY DEF SessionNodes, RoleNodes, Injections
<1> DEFINE plain   == Start("Implement", "none")
           carried == Start("Implement", "Decisions")
<1>3. /\ plain \in Transitions /\ StartsItsNode(plain)
      /\ carried \in Transitions /\ StartsItsNode(carried)
  BY <1>2, StartIsTyped
<1>4. StartImpl(c, base) \in {[plain EXCEPT !.budget = base],
                              [carried EXCEPT !.budget = more, !.consumes = TRUE]}
  BY DEF StartImpl
<1> HIDE DEF more, plain, carried
<1>5. /\ [plain EXCEPT !.budget = base] \in Transitions
      /\ StartsItsNode([plain EXCEPT !.budget = base])
  BY <1>3, Adjusted
<1>6. /\ [carried EXCEPT !.budget = more, !.consumes = TRUE] \in Transitions
      /\ StartsItsNode([carried EXCEPT !.budget = more, !.consumes = TRUE])
  BY <1>1, <1>3, Adjusted
<1>7. QED
  BY <1>4, <1>5, <1>6

---------------------------------------------------------------------------
(* Each trigger: which states it applies to and where it leads.  A state   *)
(* is one of the table's, or that of a task not submitted yet.             *)

States == TaskStates \cup {State("Absent", "none")}

Good(tr) == tr \in Transitions /\ StartsItsNode(tr)

(* Which states there are, by their tag.                                   *)
LEMMA StatesByTag ==
  ASSUME NEW s \in States
  PROVE  /\ s.st = "Queued" => s = Queued
         /\ s.st = "Active"  => s = Active(s.node) /\ s.node \in Nodes
         /\ s.st = "Paused"  => s = Paused(s.node) /\ s.node \in Nodes
         /\ s.st = "Stopped" => s = Stopped(s.node) /\ s.node \in Nodes
         /\ s.st = "Failed"  => s.node \in Nodes /\ s.reason \in Reasons /\ s.limit \in Nat
         /\ s.st \in {"Absent", "Queued", "Active", "Paused", "Stopped", "Failed", "Done", "Cancelled"}
         /\ s.limit \in Nat
BY DEF States, TaskStates, Queued, Done, Cancelled, Active, Paused, Stopped, State

(* The user's control triggers.                                            *)
LEMMA ControlMoves ==
  ASSUME NEW s \in States
  PROVE  /\ Good(OnCancel(s)) /\ Good(OnPause(s)) /\ Good(OnStop(s)) /\ Good(OnResume(s))
         /\ OnCancel(s).ok => ~IsTerminal(s) /\ OnCancel(s).next = Cancelled
         /\ OnPause(s).ok => /\ s.st = "Active" /\ s.node \notin WaitNodes
                             /\ OnPause(s).next = Paused(s.node)
         /\ OnStop(s).ok => /\ \/ s.st = "Active" /\ s.node \notin WaitNodes
                               \/ s.st = "Paused"
                            /\ OnStop(s).next = Stopped(s.node)
         /\ OnResume(s).ok => s.st \in {"Paused", "Stopped"} /\ OnResume(s).next = Queued
         /\ {OnCancel(s).action, OnPause(s).action, OnStop(s).action, OnResume(s).action}
              \subseteq {"None", "RunCancel"}
<1>1. \A n \in Nodes : {To(Paused(n), "None"), To(Stopped(n), "None")} \subseteq Transitions
  BY StatesAreTyped DEF To, Transitions, Injections, NoBudget
<1>2. {To(Cancelled, "RunCancel"), To(Queued, "None"), Rejected} \subseteq Transitions
  BY StatesAreTyped, OthersAreTyped DEF To, Transitions, Injections, NoBudget
<1>3. Good(OnCancel(s)) /\ Good(OnResume(s))
  BY <1>2 DEF OnCancel, OnResume, Good, StartsItsNode, To, Rejected
<1>4. Good(OnPause(s)) /\ Good(OnStop(s))
  BY <1>1, <1>2, StatesByTag DEF OnPause, OnStop, Good, StartsItsNode, To, Rejected
<1>5. QED
  BY <1>3, <1>4 DEF OnCancel, OnPause, OnStop, OnResume, To, Rejected

(* The constructors again, with where they lead.                           *)
LEMMA Constructors ==
  /\ \A n \in SessionNodes, i \in Injections :
       Good(Start(n, i)) /\ Start(n, i).next = Active(n)
  /\ \A n \in Nodes : /\ Good(RunCore(n)) /\ RunCore(n).next = Active(n)
                      /\ Good(Await(n)) /\ Await(n).next = Active(n)
  /\ \A n \in Nodes, r \in Reasons, l \in Nat :
       /\ Good(OutOfRounds(n, r, l)) /\ OutOfRounds(n, r, l).next.st = "Failed"
       /\ Good(Fail(n, r)) /\ Fail(n, r).next.st = "Failed"
  /\ Good(Rejected) /\ Rejected.ok = FALSE
<1>1. \A n \in SessionNodes, i \in Injections :
        Good(Start(n, i)) /\ Start(n, i).next = Active(n)
  BY StartIsTyped DEF Good, Start, To
<1>2. \A n \in Nodes : /\ Good(RunCore(n)) /\ RunCore(n).next = Active(n)
                       /\ Good(Await(n)) /\ Await(n).next = Active(n)
  BY OthersAreTyped DEF Good, RunCore, Await, To, StartsItsNode
<1>3. \A n \in Nodes, r \in Reasons, l \in Nat :
        Good(OutOfRounds(n, r, l)) /\ OutOfRounds(n, r, l).next.st = "Failed"
  BY OthersAreTyped DEF Good, OutOfRounds, Failed, To, StartsItsNode
<1>4. \A n \in Nodes, r \in Reasons : Good(Fail(n, r)) /\ Fail(n, r).next.st = "Failed"
  BY OthersAreTyped, 0 \in Nat DEF Good, Fail, Failed, To, StartsItsNode
<1>5. QED
  BY <1>1, <1>2, <1>3, <1>4, OthersAreTyped DEF Good, Rejected, StartsItsNode

(* An implementation round is one, whatever its budget.                    *)
LEMMA StartImplMoves ==
  ASSUME NEW c \in Contexts, NEW base \in Nat
  PROVE  Good(StartImpl(c, base)) /\ StartImpl(c, base).next = Active("Implement")
<1>1. StartImpl(c, base).next = Active("Implement")
  BY DEF StartImpl, Start, To
<1>2. QED
  BY <1>1, StartImplIsTyped DEF Good

(* The names of the nodes and injections the triggers use.                 *)
LEMMA Names ==
  /\ SessionNodes \subseteq Nodes /\ CoreNodes \subseteq Nodes /\ WaitNodes \subseteq Nodes
  /\ {"Intake", "Design", "Review", "Adjudicate", "Implement", "Audit", "Retro"} = SessionNodes
  /\ {"none", "DesignFeedback", "Decisions", "RebaseConflict"} = Injections
  /\ {"AwaitDesignApproval", "AwaitMerge"} = WaitNodes
  /\ {"Rebase", "Merging", "Cleanup"} = CoreNodes
  /\ {"DesignBudget", "ImplBudget", "Infeasible", "Protocol",
      "SessionCrashed", "RebaseConflict", "Config", "CoreStep"} = Reasons
BY DEF SessionNodes, RoleNodes, Nodes, CoreNodes, WaitNodes, Injections, Reasons

(* The slot, the failure panel and the two stopping points.                *)
LEMMA UserMoves ==
  ASSUME NEW s \in States, NEW c \in Contexts
  PROVE  /\ Good(OnSlotAvailable(s)) /\ Good(OnApprove(s, c))
         /\ Good(OnReject(s)) /\ Good(OnMerge(s, c))
         /\ OnSlotAvailable(s).ok => s = Queued /\ OnSlotAvailable(s).next = Active("Intake")
         /\ OnApprove(s, c).ok =>
              /\ s = Active("AwaitDesignApproval")
              /\ OnApprove(s, c).next \in {Active("Design"), Active("Implement")}
         /\ OnReject(s).ok =>
              s = Active("AwaitDesignApproval") /\ OnReject(s).next = Active("Design")
         /\ OnMerge(s, c).ok =>
              /\ s = Active("AwaitMerge")
              /\ OnMerge(s, c).next \in {Active("Implement"), Active("Merging")}
<1>1. Good(OnSlotAvailable(s)) /\ Good(OnReject(s))
  BY Constructors, Names DEF OnSlotAvailable, OnReject
<1>2. Good(OnMerge(s, c))
  BY Constructors, Names, StartImplMoves DEF OnMerge, NoBudget
<1>3. Good(OnApprove(s, c))
  <2> DEFINE back == Start("Design", "Decisions")
             on   == Start("Implement", "none")
  <2>1. Good(back) /\ Good(on) /\ c.budget \in Nat
    BY Constructors, Names DEF Contexts
  <2>2. OnApprove(s, c) \in {Rejected, [back EXCEPT !.consumes = TRUE],
                            [on EXCEPT !.budget = c.budget]}
    BY DEF OnApprove
  <2> HIDE DEF back, on
  <2>3. Good([back EXCEPT !.consumes = TRUE]) /\ Good([on EXCEPT !.budget = c.budget])
    BY <2>1, Adjusted DEF Good
  <2>4. QED
    BY <2>2, <2>3, Constructors
<1>4. OnMerge(s, c).ok => OnMerge(s, c).next \in {Active("Implement"), Active("Merging")}
  BY StartImplMoves, Constructors, Names DEF OnMerge, NoBudget
<1>5. QED
  BY <1>1, <1>2, <1>3, <1>4, StatesByTag, Constructors, Names
     DEF OnSlotAvailable, OnApprove, OnReject, OnMerge, Start, To, Rejected

(* The failure panel.                                                      *)
LEMMA PanelMoves ==
  ASSUME NEW s \in States, NEW c \in Contexts, NEW extra \in Nat, NEW node \in Nodes
  PROVE  /\ Good(OnExtendBudget(s, extra, c)) /\ Good(OnRerunFrom(s, node, c))
         /\ OnExtendBudget(s, extra, c).ok =>
              /\ s.st = "Failed"
              /\ OnExtendBudget(s, extra, c).next \in {Active("Design"), Active("Implement")}
         /\ OnRerunFrom(s, node, c).ok =>
              /\ s.st \in {"Failed", "Stopped"}
              /\ \E n \in SessionNodes \cup {"Rebase"} : OnRerunFrom(s, node, c).next = Active(n)
<1>1. s.limit + extra \in Nat
  BY StatesByTag
<1>2. /\ Good(StartImpl(c, s.limit + extra))
      /\ StartImpl(c, s.limit + extra).next = Active("Implement")
  BY <1>1, StartImplMoves
<1>3. node \in {"Intake"} \cup c.enabled => node \in SessionNodes
  BY Names DEF Contexts, SessionNodes, RoleNodes
<1>4. Good(OnRerunFrom(s, node, c))
  BY <1>3, Constructors, Names DEF OnRerunFrom
<1>5. Good(OnExtendBudget(s, extra, c))
  BY <1>2, Constructors, Names DEF OnExtendBudget
<1>6. OnExtendBudget(s, extra, c).ok =>
              /\ s.st = "Failed"
              /\ OnExtendBudget(s, extra, c).next \in {Active("Design"), Active("Implement")}
  BY <1>2, Constructors, Names DEF OnExtendBudget
<1>7. OnRerunFrom(s, node, c).ok =>
              /\ s.st \in {"Failed", "Stopped"}
              /\ \E n \in SessionNodes \cup {"Rebase"} : OnRerunFrom(s, node, c).next = Active(n)
  BY <1>3, Constructors, Names DEF OnRerunFrom
<1>8. QED
  BY <1>4, <1>5, <1>6, <1>7

---------------------------------------------------------------------------
(* The end of a session and of a core step.                                *)

IsStatus(d) == {d.designRound, d.designLimit, d.implRound, d.implLimit} \subseteq Nat

(* What the loop does next: another round, or out of it.                   *)
LEMMA LoopMoves ==
  ASSUME NEW c \in Contexts, NEW d, IsStatus(d), NEW finished \in BOOLEAN,
         NEW at \in SessionNodes
  PROVE  LET tr == NextImplRound(at, finished, c, d)
         IN  /\ Good(tr)
             /\ \/ tr.next.st = "Failed"
                \/ tr.next \in {Active("Retro"), Active("Rebase"), Active("Implement")}
<1>1. ImplBudgetOf(c, d) \in Nat
  BY DEF ImplBudgetOf, Contexts, IsStatus
<1>2. Good(AfterTheLoop(c)) /\ AfterTheLoop(c).next \in {Active("Retro"), Active("Rebase")}
  BY Constructors, Names DEF AfterTheLoop
<1>3. LET tr == OutOfRounds(at, "ImplBudget", ImplBudgetOf(c, d))
      IN  Good(tr) /\ tr.next.st = "Failed"
  BY <1>1, Constructors, Names
<1>4. Good(StartImpl(c, NoBudget)) /\ StartImpl(c, NoBudget).next = Active("Implement")
  BY StartImplMoves DEF NoBudget
<1>5. QED
  BY <1>2, <1>3, <1>4 DEF NextImplRound

(* The end of a session leads on, back, or to a failure.                   *)
LEMMA SessionMoves ==
  ASSUME NEW s \in States, NEW c \in Contexts, NEW d, IsStatus(d),
         d.open \in BOOLEAN, d.unfinished \in BOOLEAN, NEW outcome
  PROVE  LET tr == OnSessionEnded(s, outcome, c, d)
         IN  /\ Good(tr)
             /\ tr.ok => /\ s.st = "Active" /\ s.node \in SessionNodes
                         /\ \/ tr.next.st = "Failed"
                            \/ \E n \in SessionNodes \cup {"AwaitDesignApproval", "Rebase"} :
                                 tr.next = Active(n)
<1> DEFINE Leads(tr) == /\ Good(tr)
                        /\ \/ tr.next.st = "Failed"
                           \/ \E n \in SessionNodes \cup {"AwaitDesignApproval", "Rebase"} :
                                tr.next = Active(n)
<1>1. \A n \in SessionNodes, i \in Injections : Leads(Start(n, i))
  BY Constructors
<1>2. Leads(Await("AwaitDesignApproval")) /\ Leads(RunCore("Rebase"))
  BY Constructors, Names
<1>3. \A n \in Nodes, r \in Reasons, l \in Nat : Leads(OutOfRounds(n, r, l)) /\ Leads(Fail(n, r))
  BY Constructors
<1>4. \A n \in SessionNodes, f \in BOOLEAN : Leads(NextImplRound(n, f, c, d))
  BY LoopMoves, Names
<1> HIDE DEF Leads
<1>5. Leads(AfterDesign(c)) /\ Leads(AfterReview(c)) /\ Leads(AfterAdjudicate(d))
  <2>1. Leads(AfterDesign(c)) /\ Leads(AfterReview(c))
    BY <1>1, <1>2, Names DEF AfterDesign, AfterReview
  <2>2. d.designLimit \in Nat /\ "Adjudicate" \in Nodes /\ "DesignBudget" \in Reasons
    BY Names DEF IsStatus
  <2>3. Leads(AfterAdjudicate(d))
    BY <1>1, <1>2, <1>3, <2>2, Names DEF AfterAdjudicate
  <2>4. QED
    BY <2>1, <2>3
<1>6. \A n \in SessionNodes : Leads(AfterSession(n, c, d))
  BY <1>1, <1>2, <1>4, <1>5, Names DEF AfterSession
<1>7. s.st = "Active" /\ s.node \in SessionNodes => Leads(OnSessionEnded(s, outcome, c, d))
  BY <1>3, <1>6, Names DEF OnSessionEnded
<1>8. s.st # "Active" \/ s.node \notin SessionNodes => OnSessionEnded(s, outcome, c, d) = Rejected
  BY DEF OnSessionEnded
<1>9. QED
  BY <1>7, <1>8, Constructors DEF Leads

(* A core step: what each result leads to.                                 *)
LEMMA CoreStepMoves ==
  ASSUME NEW s \in States, NEW result
  PROVE  LET tr == OnCoreStepDone(s, s.node, result)
         IN  /\ Good(tr)
             /\ tr.ok => /\ s = Active(s.node) /\ s.node \in CoreNodes
                         /\ \/ tr.next.st = "Failed"
                            \/ tr.next = Active("Implement") /\ s.node = "Rebase"
                            \/ /\ tr.next = Active("AwaitMerge")
                               /\ s.node = "Rebase" \/ (s.node = "Merging" /\ result = "Blocked")
                            \/ tr.next = Active("Cleanup") /\ s.node = "Merging" /\ result = "Ok"
                            \/ tr.next = Done /\ s.node = "Cleanup"
<1>1. Good(To(Done, "None"))
  BY StatesAreTyped DEF Good, To, Transitions, Injections, NoBudget, StartsItsNode
<1>2. CASE s # Active(s.node) \/ s.node \notin CoreNodes
  BY <1>2, Constructors DEF OnCoreStepDone
<1>3. CASE s = Active(s.node) /\ s.node = "Rebase"
  <2>1. OnCoreStepDone(s, s.node, result) \in
          {Await("AwaitMerge"), Start("Implement", "RebaseConflict"), Fail("Rebase", "CoreStep")}
    BY <1>3, Names DEF OnCoreStepDone
  <2>2. /\ "AwaitMerge" \in Nodes /\ "Rebase" \in Nodes /\ "Implement" \in SessionNodes
        /\ "RebaseConflict" \in Injections /\ "CoreStep" \in Reasons
    BY Names
  <2>3. /\ Good(Await("AwaitMerge")) /\ Await("AwaitMerge").next = Active("AwaitMerge")
        /\ LET tr == Start("Implement", "RebaseConflict")
           IN  Good(tr) /\ tr.next = Active("Implement")
        /\ LET tr == Fail("Rebase", "CoreStep") IN Good(tr) /\ tr.next.st = "Failed"
    BY <2>2, Constructors
  <2>4. QED
    BY <1>3, <2>1, <2>3, Names
<1>4. CASE s = Active(s.node) /\ s.node = "Merging"
  BY <1>4, Constructors, Names DEF OnCoreStepDone
<1>5. CASE s = Active(s.node) /\ s.node = "Cleanup"
  <2>1. To(Done, "None").next = Done
    BY DEF To
  <2>2. QED
    BY <1>1, <1>5, <2>1, Constructors, Names DEF OnCoreStepDone
<1>6. QED
  BY <1>2, <1>3, <1>4, <1>5, Names

(* The budget advance stores is a number.                                  *)
LEMMA ResolvedIsNat ==
  ASSUME NEW tr \in Transitions, NEW c \in Contexts, NEW m \in Nat, NEW approving
  PROVE  ResolveBudget(tr, approving, c, m) \in Nat
<1>1. ComputeBudget(c.factor, m) \in Nat
  BY DEF ComputeBudget, Contexts
<1>2. tr.budget \in Nat /\ c.budget \in Nat
  BY DEF Transitions, Contexts
<1>3. QED
  BY <1>1, <1>2 DEF ResolveBudget
=============================================================================
