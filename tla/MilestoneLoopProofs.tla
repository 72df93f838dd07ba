------------------------ MODULE MilestoneLoopProofs ------------------------
(***************************************************************************)
(* What MilestoneLoop keeps true for any milestones, items, slips, crashes *)
(* and budgets.  The first part says where each trigger leads, the second  *)
(* takes the actions one by one, the third draws the conclusions.  The     *)
(* last two parts are about the reader of the design document the loop     *)
(* goes by, and the brief each of its rounds is handed.                    *)
(***************************************************************************)
EXTENDS MilestoneLoop, TaskMachineProofs, Integers, Sequences, FiniteSetTheorems, WellFoundedInduction

---------------------------------------------------------------------------
(* Types.                                                                  *)

Jobs == [todo : Steps, tr : Transitions, approving : BOOLEAN]

Typed == TypeOK /\ job \in Jobs /\ StartsItsNode(job.tr)

(* The decisions that wait can be counted.                                 *)
LEMMA ContextIsTyped ==
  ASSUME NEW rs \in [Items -> Rows], budget \in Nat
  PROVE  Context(rs) \in Contexts /\ Context(rs).factor # 0
<1>1. ASSUME NEW disp PROVE PendingIn(rs, disp) \in Nat
  <2> DEFINE those == {i \in Items : rs[i].disp = disp /\ ~rs[i].consumed}
  <2>1. IsFiniteSet(those)
    BY LoopConstants, FS_Subset
  <2>2. QED
    BY <2>1, FS_CardinalityType DEF PendingIn
<1>2. Enabled \in SUBSET RoleNodes
  BY LoopConstants DEF RoleNodes
<1>3. QED
  BY <1>1, <1>2, LoopConstants DEF Context, Contexts

(* So can the milestones of a document.                                    *)
LEMMA BlockIsTyped ==
  ASSUME TypeOK
  PROVE  /\ IsStatus(StatusBlock) /\ StatusBlock.open \in BOOLEAN
         /\ StatusBlock.unfinished = ~AllDone(table) /\ AllDone(table) \in BOOLEAN
         /\ StatusBlock.status = "Implementing"
         /\ Cardinality(Present(table)) \in Nat
<1>1. IsFiniteSet(Present(table))
  BY LoopConstants, FS_Subset DEF Present
<1>2. Cardinality(Present(table)) \in Nat
  BY <1>1, FS_CardinalityType
<1>3. round \in Nat /\ MaxBudget \in Nat
  BY LoopConstants DEF TypeOK
<1>4. AllDone(table) \in BOOLEAN /\ NoneOpen(table) \in BOOLEAN
  BY DEF AllDone, NoneOpen
<1>5. QED
  BY <1>2, <1>3, <1>4 DEF StatusBlock, Block, IsStatus

---------------------------------------------------------------------------
(* Where the triggers lead.                                                *)

(* A transition into an implementation round that consumes decisions       *)
(* carries a budget.                                                       *)
RaisesN(tr) == tr.consumes /\ tr.next = Active("Implement") => tr.budget # NoBudget

LEMMA StartImplRaises ==
  ASSUME NEW c \in Contexts, c.factor # 0, NEW base \in Nat
  PROVE  RaisesN(StartImpl(c, base))
<1> DEFINE had == IF base # NoBudget THEN base ELSE c.budget
<1>1. CASE c.included = 0
  BY <1>1 DEF StartImpl, RaisesN, Start, To
<1>2. CASE c.included # 0
  <2> DEFINE more == c.factor * c.included
  <2>1. c.factor \in Nat \ {0} /\ c.included \in Nat \ {0} /\ had \in Nat
    BY <1>2 DEF Contexts
  <2>2. \A f, i \in Nat \ {0} : f * i \in Nat /\ f * i # 0
    OBVIOUS
  <2>3. more \in Nat /\ more # 0
    BY <2>1, <2>2
  <2>4. StartImpl(c, base).budget = had + more
    BY <1>2 DEF StartImpl, Start, To
  <2> HIDE DEF had, more
  <2>5. QED
    BY <2>1, <2>3, <2>4 DEF RaisesN, NoBudget
<1>3. QED
  BY <1>1, <1>2

(* Those that consume nothing raise nothing.                               *)
LEMMA OthersRaise ==
  /\ \A n, i : RaisesN(Start(n, i)) /\ ~Start(n, i).consumes
  /\ \A n : RaisesN(RunCore(n)) /\ RaisesN(Await(n))
  /\ \A n, r, l : RaisesN(Fail(n, r)) /\ RaisesN(OutOfRounds(n, r, l))
  /\ RaisesN(Rejected) /\ RaisesN(To(Done, "None"))
BY DEF RaisesN, Start, RunCore, Await, Fail, OutOfRounds, Rejected, To

PastNodes == {"Retro", "AwaitMerge"} \cup CoreNodes

(* The loop's test, when a round has gone well.                            *)
LEMMA RoundLeads ==
  ASSUME NEW c \in Contexts, c.factor # 0, NEW d, IsStatus(d), NEW finished \in BOOLEAN,
         NEW at \in {"Implement", "Audit"}
  PROVE  LET tr == NextImplRound(at, finished, c, d)
         IN  /\ RaisesN(tr)
             /\ \/ finished /\ tr.next \in {Active("Retro"), Active("Rebase")}
                \/ tr.next = Failed(at, "ImplBudget", tr.next.limit)
                \/ tr.next = Active("Implement")
<1> DEFINE limit == ImplBudgetOf(c, d)
<1>1. CASE finished
  BY <1>1, OthersRaise DEF NextImplRound, AfterTheLoop, Start, RunCore, To
<1>2. CASE ~finished /\ d.implRound >= limit
  BY <1>2, OthersRaise DEF NextImplRound, OutOfRounds, To, Failed
<1>3. CASE ~finished /\ ~(d.implRound >= limit)
  <2>1. NextImplRound(at, finished, c, d) = StartImpl(c, NoBudget)
    BY <1>3 DEF NextImplRound
  <2>2. QED
    BY <2>1, StartImplRaises, StartImplMoves DEF NoBudget
<1>4. QED
  BY <1>1, <1>2, <1>3

(* The end of a session.                                                   *)
LEMMA SessionLeads ==
  ASSUME NEW s \in TaskStates, s.st = "Active", s.node \in SessionNodes,
         NEW c \in Contexts, c.factor # 0, NEW oc,
         NEW d, IsStatus(d), d.status = "Implementing",
         d.open \in BOOLEAN, d.unfinished \in BOOLEAN
  PROVE  LET tr == OnSessionEnded(s, oc, c, d)
         IN  /\ RaisesN(tr)
             /\ oc # "Ok" => tr.next \in {Failed(s.node, "SessionCrashed", 0),
                                          Failed(s.node, "Protocol", 0)}
             /\ oc = "Ok" =>
                  /\ \/ tr.next = Active(tr.next.node) /\ tr.next.node \in Nodes
                     \/ tr.next.st = "Failed" /\ tr.next.node \notin PastNodes
                        /\ tr.next.reason \in {"DesignBudget", "ImplBudget"}
                  /\ s.node = "Intake" => tr.next = Active("Design")
                  /\ tr.next.node \in PastNodes =>
                       \/ s.node = "Retro"
                       \/ s.node = "Audit" /\ ~d.unfinished
                       \/ s.node = "Implement" /\ "Audit" \notin c.enabled
<1> DEFINE tr == OnSessionEnded(s, oc, c, d)
<1>1. CASE oc # "Ok"
  <2>1. tr \in {Fail(s.node, "SessionCrashed"), Fail(s.node, "Protocol")}
    BY <1>1 DEF OnSessionEnded
  <2>2. QED
    BY <1>1, <2>1, OthersRaise DEF Fail, To
<1>2. CASE oc = "Ok"
  <2>1. tr = AfterSession(s.node, c, d)
    BY <1>2 DEF OnSessionEnded
  <2> DEFINE Leads(x) == /\ RaisesN(x)
                         /\ \/ x.next = Active(x.next.node) /\ x.next.node \in Nodes
                            \/ x.next.st = "Failed" /\ x.next.node \notin PastNodes
                               /\ x.next.reason \in {"DesignBudget", "ImplBudget"}
  <2>2. /\ \A n \in SessionNodes, i \in Injections :
             Leads(Start(n, i)) /\ Start(n, i).next = Active(n) /\ Start(n, i).next.node = n
        /\ Leads(Await("AwaitDesignApproval"))
        /\ Await("AwaitDesignApproval").next.node = "AwaitDesignApproval"
        /\ Leads(RunCore("Rebase"))
    BY OthersRaise, Names DEF Start, Await, RunCore, To, Active, State
  <2>3. CASE s.node = "Intake"
    BY <1>2, <2>1, <2>2, <2>3, Names DEF AfterSession, PastNodes
  <2>4. CASE s.node \in {"Design", "Review"}
    BY <1>2, <2>1, <2>2, <2>4, Names DEF AfterSession, AfterDesign, AfterReview, PastNodes
  <2>5. CASE s.node = "Adjudicate"
    BY <1>2, <2>1, <2>2, <2>5, Names DEF AfterSession, AfterAdjudicate, PastNodes
  <2>6. CASE s.node = "Implement" /\ "Audit" \in c.enabled
    BY <1>2, <2>1, <2>2, <2>6, Names DEF AfterSession, PastNodes
  <2>7. CASE s.node = "Implement" /\ "Audit" \notin c.enabled
    <3> DEFINE again == NextImplRound("Implement", ~d.open, c, d)
    <3>1. tr = again
      BY <2>1, <2>7 DEF AfterSession
    <3>2. /\ RaisesN(again)
          /\ \/ ~d.open /\ again.next \in {Active("Retro"), Active("Rebase")}
             \/ again.next = Failed("Implement", "ImplBudget", again.next.limit)
             \/ again.next = Active("Implement")
      BY RoundLeads
    <3> HIDE DEF again
    <3>3. Leads(again)
      BY <3>2, Names DEF Active, State, Failed, PastNodes
    <3>4. QED
      BY <1>2, <2>7, <3>1, <3>3
  <2>8. CASE s.node = "Audit"
    <3> DEFINE again == NextImplRound("Audit", ~d.unfinished, c, d)
    <3>1. tr = again
      BY <2>1, <2>8 DEF AfterSession
    <3>2. /\ RaisesN(again)
          /\ \/ ~d.unfinished /\ again.next \in {Active("Retro"), Active("Rebase")}
             \/ again.next = Failed("Audit", "ImplBudget", again.next.limit)
             \/ again.next = Active("Implement")
      BY RoundLeads
    <3> HIDE DEF again
    <3>3. Leads(again) /\ (d.unfinished => again.next.node \notin PastNodes)
      BY <3>2, Names DEF Active, State, Failed, PastNodes
    <3>4. QED
      BY <1>2, <2>8, <3>1, <3>3
  <2>9. CASE s.node = "Retro"
    BY <1>2, <2>1, <2>2, <2>9, Names DEF AfterSession, PastNodes
  <2>10. QED
    BY <2>3, <2>4, <2>5, <2>6, <2>7, <2>8, <2>9, Names
<1>3. QED
  BY <1>1, <1>2

(* A button that is accepted finds the task waiting, or at rest.           *)
LEMMA PressLeads ==
  ASSUME TypeOK, NEW button, Pressed(button).ok
  PROVE  LET tr == Pressed(button)
         IN  /\ Good(tr) /\ RaisesN(tr)
             /\ \/ /\ state = Active("AwaitDesignApproval")
                   /\ tr.next \in {Active("Design"), Active("Implement")}
                \/ /\ state = Active("AwaitMerge")
                   /\ tr.next \in {Active("Implement"), Active("Merging")}
                \/ /\ state.st = "Failed" /\ state.reason = "ImplBudget"
                   /\ tr.next = Active("Implement")
                \/ /\ state.st = "Failed" /\ state.reason = "DesignBudget"
                   /\ tr.next = Active("Design")
                \/ /\ button = "rerun" /\ state.st \in {"Failed", "Stopped"}
                   /\ tr.next = Active(state.node) /\ state.node \in Nodes
<1> DEFINE c  == Context(rows)
           rc == [Context(rows) EXCEPT !.enabled = RoleNodes]
<1>1. c \in Contexts /\ c.factor # 0 /\ rc \in Contexts /\ state \in States
  BY ContextIsTyped DEF TypeOK, Contexts, States
<1> HIDE DEF c, rc
<1>2. CASE button = "approve"
  <2>1. Pressed(button) = OnApprove(state, c)
    BY <1>2 DEF Pressed, c
  <2>2. OnApprove(state, c).ok => RaisesN(OnApprove(state, c))
    BY DEF OnApprove, RaisesN, Start, To, Rejected, Active, State
  <2>3. QED
    BY <1>1, <2>1, <2>2, UserMoves
<1>3. CASE button = "reject"
  <2>1. Pressed(button) = OnReject(state) /\ RaisesN(OnReject(state))
    BY <1>3, OthersRaise DEF Pressed, OnReject
  <2>2. QED
    BY <1>1, <2>1, UserMoves
<1>4. CASE button = "merge"
  <2>1. Pressed(button) = OnMerge(state, c)
    BY <1>4 DEF Pressed, c
  <2>2. RaisesN(OnMerge(state, c))
    BY <1>1, OthersRaise, StartImplRaises DEF OnMerge, NoBudget
  <2>3. QED
    BY <1>1, <2>1, <2>2, UserMoves
<1>5. CASE button = "extend"
  <2>1. Pressed(button) = OnExtendBudget(state, 1, c)
    BY <1>5 DEF Pressed, c, Rejected
  <2>2. state.limit + 1 \in Nat
    BY <1>1, StatesByTag
  <2>3. RaisesN(StartImpl(c, state.limit + 1))
    BY <1>1, <2>2, StartImplRaises
  <2>4. RaisesN(OnExtendBudget(state, 1, c))
    BY <2>3, OthersRaise DEF OnExtendBudget
  <2>5. /\ StartImpl(c, state.limit + 1).next = Active("Implement")
        /\ Start("Design", "none").next = Active("Design")
    BY <1>1, <2>2, StartImplMoves, Constructors, Names
  <2>6. OnExtendBudget(state, 1, c).ok =>
          \/ /\ state.st = "Failed" /\ state.reason = "ImplBudget"
             /\ OnExtendBudget(state, 1, c).next = Active("Implement")
          \/ /\ state.st = "Failed" /\ state.reason = "DesignBudget"
             /\ OnExtendBudget(state, 1, c).next = Active("Design")
    BY <2>5 DEF OnExtendBudget, Rejected
  <2>7. Good(OnExtendBudget(state, 1, c))
    BY <1>1, PanelMoves, Names
  <2>8. QED
    BY <2>1, <2>4, <2>6, <2>7
<1>6. CASE button = "rerun"
  <2>1. Pressed(button) = OnRerunFrom(state, state.node, rc)
    BY <1>6 DEF Pressed, rc
  <2>2. state.st \in {"Failed", "Stopped"}
    BY <2>1 DEF OnRerunFrom, Rejected
  <2>3. state.node \in Nodes
    BY <1>1, <2>2, StatesByTag DEF Stopped, State
  <2>4. RaisesN(OnRerunFrom(state, state.node, rc))
    BY OthersRaise DEF OnRerunFrom
  <2>5. OnRerunFrom(state, state.node, rc).next = Active(state.node)
    BY <2>1, <2>2, <2>3 DEF OnRerunFrom, Start, RunCore, To, Rejected
  <2>6. QED
    BY <1>1, <1>6, <2>1, <2>2, <2>3, <2>4, <2>5, PanelMoves
<1>7. CASE button \notin {"approve", "reject", "merge", "extend", "rerun"}
  BY <1>7 DEF Pressed, Rejected
<1>8. QED
  BY <1>2, <1>3, <1>4, <1>5, <1>6, <1>7

(* A step of the core.                                                     *)
LEMMA StepLeads ==
  ASSUME TypeOK, state.st = "Active", state.node \in CoreNodes, NEW result
  PROVE  LET tr == OnCoreStepDone(state, state.node, result)
         IN  /\ Good(tr) /\ RaisesN(tr)
             /\ \/ tr.next \in {Active("AwaitMerge"), Active("Implement"), Active("Cleanup"), Done}
                \/ /\ tr.next.st = "Failed" /\ tr.next.node = state.node
                   /\ tr.next.reason \in {"RebaseConflict", "CoreStep"}
<1> DEFINE tr == OnCoreStepDone(state, state.node, result)
<1>1. state \in States /\ state = Active(state.node)
  BY StatesByTag DEF TypeOK, States
<1>2. Good(tr)
  BY <1>1, CoreStepMoves
<1>3. tr \in {Await("AwaitMerge"), Start("Implement", "RebaseConflict"), RunCore("Cleanup"),
               To(Done, "None"), Fail(state.node, "RebaseConflict"), Fail(state.node, "CoreStep")}
  BY <1>1 DEF OnCoreStepDone
<1>4. RaisesN(tr)
  BY <1>3, OthersRaise
<1>5. /\ Await("AwaitMerge").next = Active("AwaitMerge")
      /\ Start("Implement", "RebaseConflict").next = Active("Implement")
      /\ RunCore("Cleanup").next = Active("Cleanup") /\ To(Done, "None").next = Done
      /\ \A r : Fail(state.node, r).next = Failed(state.node, r, 0)
  BY DEF Await, Start, RunCore, Fail, To
<1> DEFINE Leads(x) ==
      \/ x \in {Active("AwaitMerge"), Active("Implement"), Active("Cleanup"), Done}
      \/ /\ x.st = "Failed" /\ x.node = state.node
         /\ x.reason \in {"RebaseConflict", "CoreStep"}
<1>6. \A r \in {"RebaseConflict", "CoreStep"} : Leads(Failed(state.node, r, 0))
  BY DEF Failed
<1>7. /\ Leads(Active("AwaitMerge")) /\ Leads(Active("Implement")) /\ Leads(Active("Cleanup"))
      /\ Leads(Done)
  OBVIOUS
<1> HIDE DEF Leads
<1>8. Leads(tr.next)
  BY <1>3, <1>5, <1>6, <1>7
<1>9. QED
  BY <1>2, <1>4, <1>8 DEF Leads

---------------------------------------------------------------------------
(* What holds whatever the user presses and wherever the core dies.        *)

Kept == /\ Typed /\ SessionAtItsNode /\ OwedToTheState
        /\ DecidedAreThere /\ PaysFirst /\ AbsorbedIsPaid

(* A transition that is stored.                                            *)
LEMMA CommitOwes ==
  ASSUME NEW tr, Good(tr), RaisesN(tr), NEW approving \in BOOLEAN, Commit(tr, approving)
  PROVE  /\ state' = tr.next /\ state' \in TaskStates
         /\ job' \in Jobs /\ StartsItsNode(job'.tr) /\ job'.todo = "budget"
         /\ OwedToTheState' /\ PaysFirst'
<1>1. job' = [todo |-> "budget", tr |-> tr, approving |-> approving] /\ state' = tr.next
  BY DEF Commit, Job, Then
<1>2. tr.next \in TaskStates /\ tr \in Transitions
  BY DEF Good, Transitions
<1>3. PaysFirst'
  BY <1>1 DEF PaysFirst, RaisesN
<1>4. QED
  BY <1>1, <1>2, <1>3 DEF Jobs, Steps, Good, OwedToTheState

(* The next statement of advance.                                          *)
LEMMA GoesOnTo ==
  ASSUME Typed, GoesOn, job.todo # "none"
  PROVE  /\ job' \in Jobs /\ StartsItsNode(job'.tr)
         /\ job.todo = "guards"  => job' = [job EXCEPT !.todo = "advance"]
         /\ job.todo = "budget"  => job' = [job EXCEPT !.todo = "consume"]
         /\ job.todo = "consume" => job' = [job EXCEPT !.todo = "start"]
         /\ job.todo = "start"   => job' = Resting
<1>1. Resting \in Jobs /\ StartsItsNode(Resting.tr)
  BY OthersAreTyped DEF Resting, Job, Jobs, Steps, StartsItsNode, Rejected
<1>2. /\ Then["guards"] = "advance" /\ Then["advance"] = "budget"
      /\ Then["budget"] = "consume" /\ Then["consume"] = "start"
  BY DEF Then
<1>3. job.todo \in {"guards", "advance", "budget", "consume", "start"} /\ job \in Jobs
  BY DEF Typed, Jobs, Steps
<1>4. CASE job.todo = "start"
  BY <1>1, <1>4 DEF GoesOn
<1>5. CASE job.todo # "start"
  <2>1. job' = [job EXCEPT !.todo = Then[job.todo]]
    BY <1>5 DEF GoesOn
  <2>2. Then[job.todo] \in Steps
    BY <1>2, <1>3, <1>5 DEF Steps
  <2>3. job' \in Jobs /\ job'.tr = job.tr
    BY <1>3, <2>1, <2>2 DEF Jobs
  <2>4. QED
    BY <1>2, <1>5, <2>1, <2>3 DEF Typed
<1>6. QED
  BY <1>4, <1>5

(* A button, the queue or a core step: only a transition is stored.        *)
LEMMA MovesKeep ==
  ASSUME Kept, NEW tr, Good(tr), RaisesN(tr), NEW approving \in BOOLEAN, Commit(tr, approving),
         session = "none",
         UNCHANGED <<budget, rows, before, document, session, outcome, crashes, history>>
  PROVE  Kept'
<1>1. /\ state' = tr.next /\ state' \in TaskStates
      /\ job' \in Jobs /\ StartsItsNode(job'.tr) /\ job'.todo = "budget"
      /\ OwedToTheState' /\ PaysFirst'
  BY CommitOwes
<1>2. Typed'
  BY <1>1 DEF Kept, Typed, TypeOK, Jobs, Steps, document, history
<1>3. SessionAtItsNode' /\ DecidedAreThere' /\ AbsorbedIsPaid'
  BY <1>1 DEF Kept, SessionAtItsNode, DecidedAreThere, AbsorbedIsPaid, document, history
<1>4. QED
  BY <1>1, <1>2, <1>3 DEF Kept

LEMMA PressKeeps ==
  ASSUME Kept, NEW button, Press(button)
  PROVE  Kept'
<1>1. Pressed(button).ok /\ Commit(Pressed(button), button = "approve")
  BY DEF Press, Commit
<1>2. Good(Pressed(button)) /\ RaisesN(Pressed(button)) /\ ~(state.st = "Active" /\ state.node \in SessionNodes)
  BY <1>1, PressLeads DEF Kept, Typed, Active, State, SessionNodes, RoleNodes
<1>3. session = "none"
  BY <1>2 DEF Kept, SessionAtItsNode
<1>4. (button = "approve") \in BOOLEAN
  OBVIOUS
<1>5. QED
  BY <1>1, <1>2, <1>3, <1>4, MovesKeep DEF Press

LEMMA CoreStepKeeps ==
  ASSUME Kept, CoreStep
  PROVE  Kept'
<1>1. PICK result \in StepResult(state.node) :
        Commit(OnCoreStepDone(state, state.node, result), FALSE)
  BY DEF CoreStep
<1> DEFINE tr == OnCoreStepDone(state, state.node, result)
<1>2. Good(tr) /\ RaisesN(tr)
  BY StepLeads DEF Kept, Typed, CoreStep
<1>3. session = "none"
  BY Names DEF Kept, SessionAtItsNode, CoreStep
<1> HIDE DEF tr
<1>4. QED
  BY <1>1, <1>2, <1>3, MovesKeep DEF CoreStep, tr

LEMMA BeginsKeeps ==
  ASSUME Kept, Begins
  PROVE  Kept'
<1> DEFINE tr == OnSlotAvailable(state)
<1>1. Good(tr) /\ RaisesN(tr) /\ state = Queued
  <2>1. state \in States /\ tr.ok
    BY DEF Kept, Typed, TypeOK, States, Begins, Commit
  <2>2. RaisesN(tr)
    BY OthersRaise DEF OnSlotAvailable
  <2>3. QED
    BY <2>1, <2>2, UserMoves, ContextIsTyped DEF Kept, Typed, TypeOK
<1>2. session = "none"
  BY <1>1 DEF Kept, SessionAtItsNode, Queued, State
<1> HIDE DEF tr
<1>3. QED
  BY <1>1, <1>2, MovesKeep DEF Begins, tr

LEMMA SessionEndsKeeps ==
  ASSUME Kept, SessionEnds
  PROVE  Kept'
<1>1. round' \in 0..MaxRounds
  <2>1. round \in 0..MaxRounds /\ MaxRounds \in Nat
    BY LoopConstants DEF Kept, Typed, TypeOK
  <2>2. round' \in Counts(state.node)
    BY DEF SessionEnds
  <2>3. QED
    BY <2>1, <2>2 DEF Counts
<1>2. /\ listed' \subseteq Items /\ audited' \subseteq Milestones
      /\ outcome' \in {"Ok", "Crashed", "Unparseable", "GuardFailed"}
  BY DEF SessionEnds, Kept, Typed, TypeOK
<1>3. Idle /\ state.node \in SessionNodes
  BY DEF Kept, SessionAtItsNode, SessionEnds
<1>4. Typed'
  BY <1>1, <1>2 DEF SessionEnds, Kept, Typed, TypeOK, Jobs
<1>5. QED
  BY <1>3, <1>4 DEF SessionEnds, Kept, SessionAtItsNode, OwedToTheState, DecidedAreThere,
                    PaysFirst, AbsorbedIsPaid, Idle, Waiting

LEMMA ReapKeeps ==
  ASSUME Kept, Reap
  PROVE  Kept'
<1>1. job' \in Jobs /\ StartsItsNode(job'.tr) /\ job'.todo = "guards" /\ ~job'.tr.consumes
  BY OthersAreTyped DEF Reap, Job, Jobs, Steps, StartsItsNode, Rejected
<1>2. Typed'
  BY <1>1 DEF Reap, Kept, Typed, TypeOK, document, history, Jobs
<1>3. QED
  BY <1>1, <1>2 DEF Reap, Kept, SessionAtItsNode, OwedToTheState, DecidedAreThere,
                    PaysFirst, AbsorbedIsPaid, document, history

(* While the core is at work on a transition, no session runs.             *)
LEMMA NoSessionMeanwhile ==
  ASSUME Kept, job.todo # "none"
  PROVE  session = "none"
BY DEF Kept, SessionAtItsNode, Idle

LEMMA GuardsKeeps ==
  ASSUME Kept, Guards
  PROVE  Kept'
<1>1. /\ job' \in Jobs /\ StartsItsNode(job'.tr)
      /\ job'.todo = "advance" /\ job'.tr = job.tr
  BY GoesOnTo DEF Guards, Kept, Typed, Jobs
<1>2. /\ before' \in Table \cup {NoSnapshot}
      /\ outcome' \in {"Ok", "Crashed", "Unparseable", "GuardFailed"}
  BY DEF Guards, Kept, Typed, TypeOK
<1>3. session = "none"
  BY NoSessionMeanwhile DEF Guards
<1>4. Typed'
  BY <1>1, <1>2, <1>3 DEF Guards, Kept, Typed, TypeOK, document, history, Jobs
<1>5. QED
  BY <1>1, <1>3, <1>4 DEF Guards, Kept, SessionAtItsNode, OwedToTheState, DecidedAreThere,
                          PaysFirst, AbsorbedIsPaid, document, history

(* sync_decisions adds rows and drops those nobody has decided.            *)
LEMMA SyncedRows ==
  ASSUME Kept
  PROVE  /\ Synced(rows) \in [Items -> Rows]
         /\ \A i \in Items : Synced(rows)[i].disp # "None" => Synced(rows)[i].there
         /\ \A i \in Items : rows[i].disp # "None" => Synced(rows)[i] = rows[i]
<1>1. rows \in [Items -> Rows] /\ DecidedAreThere
  BY DEF Kept, Typed, TypeOK
<1>2. ASSUME NEW i \in Items
      PROVE  /\ Synced(rows)[i] \in Rows
             /\ Synced(rows)[i].disp # "None" => Synced(rows)[i].there
             /\ rows[i].disp # "None" => Synced(rows)[i] = rows[i]
  <2> DEFINE there == [rows[i] EXCEPT !.there = TRUE]
  <2>1. rows[i] \in Rows /\ (rows[i].disp # "None" => rows[i].there)
    BY <1>1 DEF DecidedAreThere
  <2>2. there \in Rows /\ there.there /\ (rows[i].disp # "None" => there = rows[i])
    BY <2>1 DEF Rows
  <2>3. NoRow \in Rows /\ NoRow.disp = "None"
    BY DEF NoRow, Rows
  <2>4. Synced(rows)[i] = IF i \in listed THEN there
                          ELSE IF rows[i].disp = "None" /\ ~rows[i].consumed THEN NoRow ELSE rows[i]
    BY DEF Synced
  <2> HIDE DEF there
  <2>5. QED
    BY <2>1, <2>2, <2>3, <2>4
<1>3. QED
  BY <1>2 DEF Synced

LEMMA AdvanceKeeps ==
  ASSUME Kept, Advance
  PROVE  Kept'
<1> DEFINE tr == OnSessionEnded(state, outcome, Context(rows'), StatusBlock)
<1>1. rows' \in [Items -> Rows] /\ DecidedAreThere'
  <2>1. CASE outcome = "Ok"
    <3>1. rows' = Synced(rows)
      BY <2>1 DEF Advance
    <3>2. /\ Synced(rows) \in [Items -> Rows]
          /\ \A i \in Items : Synced(rows)[i].disp # "None" => Synced(rows)[i].there
      BY SyncedRows
    <3>3. DecidedAreThere'
      BY <3>1, <3>2, Zenon DEF DecidedAreThere
    <3>4. QED
      BY <3>1, <3>2, <3>3
  <2>2. CASE outcome # "Ok"
    BY <2>2 DEF Advance, Kept, Typed, TypeOK, DecidedAreThere
  <2>3. QED
    BY <2>1, <2>2
<1>2. Context(rows') \in Contexts /\ Context(rows').factor # 0
  BY <1>1, ContextIsTyped DEF Kept, Typed, TypeOK
<1>3. state \in TaskStates /\ state.st = "Active" /\ state.node \in SessionNodes /\ TypeOK
  BY DEF Advance, Kept, Typed, TypeOK, SessionAtItsNode
<1>4. Good(tr) /\ RaisesN(tr)
  BY <1>2, <1>3, BlockIsTyped, SessionLeads, SessionMoves DEF States
<1>5. Commit(tr, FALSE)
  BY DEF Advance
<1> HIDE DEF tr
<1>6. /\ state' \in TaskStates /\ job' \in Jobs /\ StartsItsNode(job'.tr)
      /\ job'.todo = "budget" /\ OwedToTheState' /\ PaysFirst'
  BY <1>4, <1>5, CommitOwes
<1>7. session = "none"
  BY NoSessionMeanwhile DEF Advance
<1>8. Typed'
  BY <1>1, <1>6, <1>7 DEF Advance, Kept, Typed, TypeOK, document, history, Jobs
<1>9. SessionAtItsNode' /\ AbsorbedIsPaid'
  BY <1>6, <1>7 DEF Advance, Kept, SessionAtItsNode, AbsorbedIsPaid, history
<1>10. QED
  BY <1>1, <1>6, <1>8, <1>9 DEF Kept

(* The budget comes first: what waits for the round is paid.               *)
LEMMA WriteBudgetKeeps ==
  ASSUME Kept, WriteBudget
  PROVE  Kept'
<1>1. /\ job' \in Jobs /\ StartsItsNode(job'.tr)
      /\ job'.todo = "consume" /\ job'.tr = job.tr
  BY GoesOnTo DEF WriteBudget, Kept, Typed, Jobs
<1>2. budget' \in Nat
  <2>1. Context(rows) \in Contexts /\ job.tr \in Transitions /\ TypeOK
    BY ContextIsTyped DEF Kept, Typed, TypeOK, Jobs
  <2>2. QED
    BY <2>1, BlockIsTyped, ResolvedIsNat DEF WriteBudget
<1>3. session = "none"
  BY NoSessionMeanwhile DEF WriteBudget
<1>4. paid \subseteq paid' /\ paid' \subseteq Items
  BY DEF WriteBudget, Waiting, Kept, Typed, TypeOK
<1>5. Typed'
  BY <1>1, <1>2, <1>3, <1>4 DEF WriteBudget, Kept, Typed, TypeOK, document, Jobs
<1>6. PaysFirst'
  BY <1>1 DEF WriteBudget, Kept, PaysFirst, Waiting
<1>7. QED
  BY <1>1, <1>3, <1>4, <1>5, <1>6
     DEF WriteBudget, Kept, SessionAtItsNode, OwedToTheState, DecidedAreThere, AbsorbedIsPaid

LEMMA WriteConsumedKeeps ==
  ASSUME Kept, WriteConsumed
  PROVE  Kept'
<1>1. /\ job' \in Jobs /\ StartsItsNode(job'.tr)
      /\ job'.todo = "start" /\ job'.tr = job.tr
  BY GoesOnTo DEF WriteConsumed, Kept, Typed, Jobs
<1>2. rows' \in [Items -> Rows] /\ DecidedAreThere'
  <2>1. rows \in [Items -> Rows] /\ DecidedAreThere
    BY DEF Kept, Typed, TypeOK
  <2>2. Consumed(rows) \in [Items -> Rows]
    BY <2>1 DEF Consumed, Rows
  <2>3. \A i \in Items : /\ Consumed(rows)[i].disp = rows[i].disp
                        /\ Consumed(rows)[i].there = rows[i].there
    BY <2>1 DEF Consumed, Rows
  <2>4. QED
    BY <2>1, <2>2, <2>3 DEF WriteConsumed, DecidedAreThere
<1>3. session = "none"
  BY NoSessionMeanwhile DEF WriteConsumed
<1>4. AbsorbedIsPaid' /\ absorbed' \subseteq Items
  BY DEF WriteConsumed, Kept, Typed, TypeOK, AbsorbedIsPaid, PaysFirst
<1>5. Typed'
  BY <1>1, <1>2, <1>3, <1>4 DEF WriteConsumed, Kept, Typed, TypeOK, document, Jobs
<1>6. PaysFirst'
  BY <1>1 DEF PaysFirst
<1>7. QED
  BY <1>1, <1>2, <1>3, <1>4, <1>5, <1>6 DEF WriteConsumed, Kept, SessionAtItsNode, OwedToTheState

(* A session is started for the node the state is at.                      *)
LEMMA PerformKeeps ==
  ASSUME Kept, PerformAction
  PROVE  Kept'
<1>1. job' = Resting /\ job' \in Jobs /\ StartsItsNode(job'.tr) /\ job'.todo = "none"
      /\ ~job'.tr.consumes
  BY GoesOnTo DEF PerformAction, Kept, Typed, Jobs, Resting, Job, Rejected
<1>2. session = "none" /\ state = job.tr.next
  BY NoSessionMeanwhile DEF PerformAction, Kept, OwedToTheState
<1>3. session' = "running" => state.st = "Active" /\ state.node \in SessionNodes
  BY <1>2 DEF PerformAction, Kept, Typed, StartsItsNode, Active, State
<1>4. session' \in {"none", "running"} /\ told' \subseteq Items
  BY <1>2 DEF PerformAction, Starts, Decided, Waiting, Kept, Typed, TypeOK
<1>5. Typed'
  BY <1>1, <1>4 DEF PerformAction, Kept, Typed, TypeOK, document, Jobs, Idle
<1>6. QED
  BY <1>1, <1>3, <1>4, <1>5 DEF PerformAction, Kept, SessionAtItsNode, OwedToTheState, DecidedAreThere,
                          PaysFirst, AbsorbedIsPaid, Idle

LEMMA RedispatchKeeps ==
  ASSUME Kept, Redispatch
  PROVE  Kept'
<1>1. session' = "running" /\ told' \subseteq Items
  BY DEF Redispatch, Starts, Decided, Waiting, Kept, Typed, TypeOK
<1>2. Typed'
  BY <1>1 DEF Redispatch, Kept, Typed, TypeOK, document, Jobs, Idle
<1>3. QED
  BY <1>1, <1>2 DEF Redispatch, Kept, SessionAtItsNode, OwedToTheState, DecidedAreThere,
                    PaysFirst, AbsorbedIsPaid, Idle, Waiting

LEMMA CrashKeeps ==
  ASSUME Kept, Crash
  PROVE  Kept'
<1>1. job' \in Jobs /\ StartsItsNode(job'.tr) /\ job'.todo = "none" /\ ~job'.tr.consumes
  BY OthersAreTyped DEF Crash, Resting, Job, Jobs, Steps, StartsItsNode, Rejected
<1>2. crashes' \in 0..MaxCrashes
  BY LoopConstants DEF Crash, Kept, Typed, TypeOK
<1>3. Typed'
  BY <1>1, <1>2 DEF Crash, Kept, Typed, TypeOK, document, history, Jobs, Idle
<1>4. QED
  BY <1>1, <1>3 DEF Crash, Kept, SessionAtItsNode, OwedToTheState, DecidedAreThere,
                    PaysFirst, AbsorbedIsPaid, document, history, Idle

LEMMA DecideKeeps ==
  ASSUME Kept, NEW i \in Items, Decide(i)
  PROVE  Kept'
<1>1. rows' \in [Items -> Rows] /\ DecidedAreThere'
  <2>1. rows \in [Items -> Rows] /\ DecidedAreThere
    BY DEF Kept, Typed, TypeOK
  <2>2. PICK disp \in {"None", "Include", "Ignore", "Ruled"} :
          rows' = [rows EXCEPT ![i].disp = disp]
    BY DEF Decide
  <2>3. \A j \in Items : rows'[j] \in Rows /\ rows'[j].there = rows[j].there
                        /\ (j # i => rows'[j] = rows[j])
    BY <2>1, <2>2 DEF Rows
  <2>4. rows' \in [Items -> Rows]
    BY <2>1, <2>2, <2>3
  <2>5. QED
    BY <2>1, <2>3, <2>4 DEF DecidedAreThere, Decide
<1>2. Idle
  BY DEF Decide
<1>3. Typed'
  BY <1>1 DEF Decide, Kept, Typed, TypeOK, document, history, Jobs, Idle
<1>4. QED
  BY <1>1, <1>2, <1>3 DEF Decide, Kept, SessionAtItsNode, OwedToTheState,
                          PaysFirst, AbsorbedIsPaid, history, Idle

LEMMA InitKeeps == Init => Kept
<1> SUFFICES ASSUME Init PROVE Kept
  OBVIOUS
<1>1. job \in Jobs /\ StartsItsNode(job.tr) /\ job.todo = "none" /\ ~job.tr.consumes
  BY OthersAreTyped DEF Init, Resting, Job, Jobs, Steps, StartsItsNode, Rejected
<1>2. /\ state \in TaskStates /\ rows \in [Items -> Rows] /\ table \in Table /\ budget \in Nat
      /\ round \in 0..MaxRounds /\ crashes \in 0..MaxCrashes
  BY StatesAreTyped, LoopConstants DEF Init, NoRow, Rows, Table, Cells, NoBudget
<1>3. Typed
  BY <1>1, <1>2 DEF Init, Typed, TypeOK, Jobs, Idle
<1>4. QED
  BY <1>1, <1>3 DEF Init, Kept, SessionAtItsNode, OwedToTheState, DecidedAreThere, PaysFirst,
                    AbsorbedIsPaid, NoRow, Idle

LEMMA NextKeeps == Kept /\ [Next]_vars => Kept'
<1> SUFFICES ASSUME Kept, [Next]_vars PROVE Kept'
  OBVIOUS
<1>1. CASE Core
  BY <1>1, ReapKeeps, GuardsKeeps, AdvanceKeeps, WriteBudgetKeeps, WriteConsumedKeeps,
     PerformKeeps, CoreStepKeeps, BeginsKeeps, RedispatchKeeps DEF Core
<1>2. CASE User
  BY <1>2, PressKeeps, DecideKeeps DEF User
<1>3. CASE SessionEnds \/ Crash
  BY <1>3, SessionEndsKeeps, CrashKeeps
<1>4. CASE UNCHANGED vars
  BY <1>4 DEF vars, document, history, Kept, Typed, TypeOK, SessionAtItsNode, OwedToTheState,
              DecidedAreThere, PaysFirst, AbsorbedIsPaid, Idle, Waiting
<1>5. QED
  BY <1>1, <1>2, <1>3, <1>4 DEF Next

LEMMA AlwaysKept == Spec => []Kept
BY InitKeeps, NextKeeps, PTL DEF Spec

(* Every variable keeps its type.                                          *)
THEOREM TypesHold == Spec => []TypeOK
<1>1. Kept => TypeOK
  BY DEF Kept, Typed
<1>2. QED
  BY <1>1, AlwaysKept, PTL

(* An item is absorbed by an implementation round only after its work was  *)
(* added to N, wherever the core dies.                                     *)
THEOREM AbsorbedWasPaid == Spec => []AbsorbedIsPaid
<1>1. Kept => AbsorbedIsPaid
  BY DEF Kept
<1>2. QED
  BY <1>1, AlwaysKept, PTL

(* A decision is lost to nothing but the user.                             *)
LEMMA WordStands ==
  ASSUME Kept, Next, NEW i \in Items, rows[i].disp # "None", Idle => job' # job
  PROVE  rows'[i] \in {rows[i], [rows[i] EXCEPT !.consumed = TRUE]}
<1>1. CASE Advance
  <2>1. rows' = rows \/ rows' = Synced(rows)
    BY <1>1 DEF Advance
  <2>2. Synced(rows)[i] = rows[i]
    BY SyncedRows
  <2>3. QED
    BY <2>1, <2>2
<1>2. CASE WriteConsumed
  <2>1. rows' = rows \/ rows'[i] = [rows[i] EXCEPT !.consumed = @ \/ rows[i].disp # "None"]
    BY <1>2 DEF WriteConsumed, Consumed
  <2>2. (rows[i].consumed \/ rows[i].disp # "None") = TRUE
    OBVIOUS
  <2>3. QED
    BY <2>1, <2>2
<1>3. CASE Reap \/ Guards \/ WriteBudget \/ PerformAction \/ CoreStep \/ Begins \/ Redispatch
  BY <1>3 DEF Reap, Guards, WriteBudget, PerformAction, CoreStep, Begins, Redispatch
<1>4. CASE SessionEnds \/ Crash \/ \E button \in Presses : Press(button)
  BY <1>4 DEF SessionEnds, Crash, Press
<1>5. ASSUME NEW j \in Items, Decide(j) PROVE FALSE
  BY <1>5 DEF Decide
<1>6. QED
  BY <1>1, <1>2, <1>3, <1>4, <1>5 DEF Next, Core, User

(* What the user has decided stands until it is consumed.                  *)
THEOREM WordIsKept == Spec => UserWordStands
<1> DEFINE Stands == \A i \in Items : rows[i].disp # "None" /\ (Idle => job' # job)
                        => rows'[i] \in {rows[i], [rows[i] EXCEPT !.consumed = TRUE]}
<1>1. Kept /\ [Next]_vars => [Stands]_vars
  BY WordStands
<1>2. QED
  BY <1>1, AlwaysKept, PTL DEF Spec, UserWordStands

---------------------------------------------------------------------------
(* With an audit, nothing unfinished goes past the loop.                   *)

Past == state.node \in PastNodes \/ state = Done

LEMMA FinishedKeeps ==
  ASSUME Kept, "Audit" \in Enabled, FinishedSinceTheLoop, Next
  PROVE  FinishedSinceTheLoop'
<1>1. Past => AllDone(table)
  BY DEF FinishedSinceTheLoop, Past, PastNodes
<1>2. SUFFICES Past' => AllDone(table')
  BY DEF FinishedSinceTheLoop, Past, PastNodes
<1>3. ~(Active("Implement").node \in PastNodes) /\ Active("Implement") # Done
      /\ ~(Active("Design").node \in PastNodes) /\ Active("Design") # Done
      /\ ~(Active("Intake").node \in PastNodes) /\ Active("Intake") # Done
  BY DEF Active, Done, State, PastNodes, CoreNodes
<1>4. \A n : Active(n).node = n /\ Active(n) # Done
  BY DEF Active, Done, State
<1>5. CASE SessionEnds
  <2>1. state' = state /\ state.st = "Active" /\ table \in Table /\ table' \in Table
    BY <1>5 DEF SessionEnds, Kept, Typed, TypeOK
  <2>2. CASE state.node \in PastNodes
    <3>1. Edits(state.node) = {}
      BY <2>2 DEF Edits, PastNodes, CoreNodes
    <3>2. \A m \in Milestones : table'[m] = table[m]
      BY <1>5, <3>1 DEF SessionEnds
    <3>3. table' = table
      BY <2>1, <3>2 DEF Table
    <3>4. QED
      BY <1>1, <2>2, <3>3 DEF Past
  <2>3. CASE state.node \notin PastNodes
    BY <2>1, <2>3 DEF Past, Done, State
  <2>4. QED
    BY <2>2, <2>3
<1>6. CASE Advance
  <2> DEFINE tr == OnSessionEnded(state, outcome, Context(rows'), StatusBlock)
  <2>1. /\ state' = tr.next /\ table' = table
        /\ state.st = "Active" /\ state.node \in SessionNodes /\ state \in TaskStates /\ TypeOK
    BY <1>6 DEF Advance, Commit, document, Kept, Typed, TypeOK, SessionAtItsNode
  <2>2. Context(rows') \in Contexts /\ Context(rows').factor # 0 /\ "Audit" \in Context(rows').enabled
    <3>1. rows' \in [Items -> Rows]
      BY <1>6, SyncedRows DEF Advance, Kept, Typed, TypeOK
    <3>2. QED
      BY <3>1, ContextIsTyped DEF Kept, Typed, TypeOK, Context
  <2>3. /\ outcome # "Ok" => tr.next \in {Failed(state.node, "SessionCrashed", 0),
                                          Failed(state.node, "Protocol", 0)}
        /\ outcome = "Ok" =>
             /\ \/ tr.next = Active(tr.next.node) /\ tr.next.node \in Nodes
                \/ tr.next.st = "Failed" /\ tr.next.node \notin PastNodes
                   /\ tr.next.reason \in {"DesignBudget", "ImplBudget"}
             /\ tr.next.node \in PastNodes =>
                  \/ state.node = "Retro"
                  \/ state.node = "Audit" /\ ~StatusBlock.unfinished
                  \/ state.node = "Implement" /\ "Audit" \notin Context(rows').enabled
    BY <2>1, <2>2, BlockIsTyped, SessionLeads
  <2>4. ~StatusBlock.unfinished => AllDone(table)
    BY <2>1, BlockIsTyped
  <2> HIDE DEF tr
  <2>5. CASE outcome # "Ok"
    <3>1. state'.node = state.node /\ state' # Done
      BY <2>1, <2>3, <2>5 DEF Failed, Done, State
    <3>2. QED
      BY <1>1, <2>1, <3>1 DEF Past
  <2>6. CASE outcome = "Ok"
    <3>1. state' # Done
      BY <1>4, <2>1, <2>3, <2>6 DEF Done, State
    <3>2. "Retro" \in PastNodes
      BY DEF PastNodes
    <3>3. QED
      BY <1>1, <2>1, <2>2, <2>3, <2>4, <2>6, <3>1, <3>2 DEF Past
  <2>7. QED
    BY <2>5, <2>6
<1>7. ASSUME NEW button, Press(button) PROVE Past' => AllDone(table')
  <2>1. Pressed(button).ok /\ state' = Pressed(button).next /\ table' = table /\ TypeOK
    BY <1>7 DEF Press, Commit, document, Kept, Typed
  <2>2. \/ state' \in {Active("Design"), Active("Implement")}
        \/ state = Active("AwaitMerge")
        \/ state' = Active(state.node)
    BY <2>1, PressLeads
  <2>3. Active("AwaitMerge").node \in PastNodes
    BY <1>4 DEF PastNodes
  <2>4. QED
    BY <1>1, <1>3, <1>4, <2>1, <2>2, <2>3 DEF Past
<1>8. CASE CoreStep
  <2>1. state.node \in PastNodes /\ table' = table
    BY <1>8 DEF CoreStep, PastNodes, document
  <2>2. QED
    BY <1>1, <2>1 DEF Past
<1>9. CASE Begins
  <2>1. state' = Active("Intake")
    BY <1>9 DEF Begins, Commit, OnSlotAvailable, Start, To, Rejected
  <2>2. QED
    BY <1>3, <2>1 DEF Past
<1>10. CASE Reap \/ Guards \/ WriteBudget \/ WriteConsumed \/ PerformAction \/ Redispatch \/ Crash
            \/ \E i \in Items : Decide(i)
  <2>1. state' = state /\ table' = table
    BY <1>10 DEF Reap, Guards, WriteBudget, WriteConsumed, PerformAction, Redispatch, Crash,
                 Decide, document
  <2>2. QED
    BY <1>1, <2>1 DEF Past
<1>11. QED
  BY <1>5, <1>6, <1>7, <1>8, <1>9, <1>10 DEF Next, Core, User

(* What is offered for the merge is finished.                              *)
THEOREM MergesTheFinished == ASSUME "Audit" \in Enabled PROVE Spec => []FinishedBeforeMerge
<1>1. Init => FinishedSinceTheLoop
  BY DEF Init, FinishedSinceTheLoop, Queued, Done, State, CoreNodes
<1>2. Kept /\ FinishedSinceTheLoop /\ [Next]_vars => FinishedSinceTheLoop'
  BY FinishedKeeps DEF vars, document, FinishedSinceTheLoop
<1>3. FinishedSinceTheLoop => FinishedBeforeMerge
  BY DEF FinishedSinceTheLoop, FinishedBeforeMerge, PastTheLoop
<1>4. QED
  BY <1>1, <1>2, <1>3, AlwaysKept, PTL DEF Spec
---------------------------------------------------------------------------
(* Where no round is started again over the traces of a lost one, the      *)
(* snapshot a round is compared with is the table it was given.            *)

(* The end of a session, and a button, as the invariants below need them.  *)
LEMMA RoundEnds ==
  ASSUME Kept, Advance
  PROVE  /\ outcome # "Ok" => state' \in {Failed(state.node, "SessionCrashed", 0),
                                         Failed(state.node, "Protocol", 0)}
         /\ outcome = "Ok" /\ state.node = "Intake" => state' = Active("Design")
<1> DEFINE c  == Context(rows')
           d  == StatusBlock
           tr == OnSessionEnded(state, outcome, c, d)
<1>1. /\ state' = tr.next
      /\ state.st = "Active" /\ state.node \in SessionNodes /\ state \in TaskStates /\ TypeOK
  BY DEF Advance, Commit, Kept, Typed, TypeOK, SessionAtItsNode
<1>2. c \in Contexts /\ c.factor # 0
  <2>1. rows' \in [Items -> Rows]
    BY SyncedRows DEF Advance, Kept, Typed, TypeOK
  <2>2. QED
    BY <2>1, ContextIsTyped DEF Kept, Typed, TypeOK
<1>3. /\ IsStatus(d) /\ d.status = "Implementing"
      /\ d.open \in BOOLEAN /\ d.unfinished \in BOOLEAN
  BY <1>1, BlockIsTyped
<1> HIDE DEF c, d
<1>4. /\ outcome # "Ok" => tr.next \in {Failed(state.node, "SessionCrashed", 0),
                                       Failed(state.node, "Protocol", 0)}
      /\ outcome = "Ok" /\ state.node = "Intake" => tr.next = Active("Design")
  <2> HIDE DEF tr
  <2>1. QED
    BY <1>1, <1>2, <1>3, SessionLeads DEF tr
<1>5. QED
  BY <1>1, <1>4

LEMMA CalmPress ==
  ASSUME Kept, Calm, NEW button \in Presses, Press(button)
  PROVE  /\ Idle /\ session = "none" /\ session' = session /\ job'.todo = "budget"
         /\ before' = before /\ table' = table /\ audited' = audited
         /\ \/ state.st = "Active" /\ state.node \in WaitNodes
            \/ state.st = "Failed" /\ state.reason \in {"ImplBudget", "DesignBudget"}
<1>1. Pressed(button).ok /\ job'.todo = "budget" /\ TypeOK
  BY DEF Press, Commit, Job, Then, Kept, Typed
<1>2. \/ state.st = "Active" /\ state.node \in WaitNodes
      \/ state.st = "Failed" /\ state.reason \in {"ImplBudget", "DesignBudget"}
  <2>1. button # "rerun"
    BY DEF Calm
  <2>2. \A n \in WaitNodes : Active(n).st = "Active" /\ Active(n).node = n
    BY DEF Active, State
  <2>3. QED
    BY <1>1, <2>1, <2>2, PressLeads, Names
<1>3. session = "none"
  BY <1>2, Names DEF Kept, SessionAtItsNode
<1>4. QED
  BY <1>1, <1>2, <1>3 DEF Press, document, history

LEMMA SnapshotKeeps ==
  ASSUME Kept, Calm, SnapshotIsTable, Next
  PROVE  SnapshotIsTable'
<1>1. job.todo # "none" => session = "none"
  BY NoSessionMeanwhile
<1>2. /\ \A n : Active(n).st = "Active" /\ Active(n).node = n
      /\ Queued.st = "Queued"
  BY DEF Active, Queued, State
<1>3. CASE SessionEnds \/ Reap
  BY <1>3 DEF SessionEnds, Reap, SnapshotIsTable, Job
<1>4. CASE Guards
  <2>1. job'.todo = "advance" /\ state' = state /\ table' = table
    BY <1>4, GoesOnTo DEF Guards, document, Kept, Typed, Jobs
  <2>2. state \in TaskStates /\ state.st = "Active" /\ state.node \in SessionNodes
    BY <1>4 DEF Guards, Kept, Typed, TypeOK, SessionAtItsNode
  <2>3. state = Active(state.node)
    BY <2>2, StatesByTag DEF States
  <2>4. CASE Read(outcome) /\ state.node \in RoleNodes
    BY <1>4, <2>1, <2>4 DEF Guards, SnapshotIsTable
  <2>5. CASE Read(outcome) /\ state.node \notin RoleNodes
    BY <2>1, <2>2, <2>3, <2>5 DEF SnapshotIsTable, SessionNodes
  <2>6. CASE ~Read(outcome)
    BY <1>4, <2>1, <2>6 DEF Guards, SnapshotIsTable, Read
  <2>7. QED
    BY <2>4, <2>5, <2>6
<1>5. CASE Advance
  <2>1. /\ before' = before /\ table' = table /\ job'.todo = "budget"
        /\ job.todo = "advance" /\ session = "none"
    BY <1>1, <1>5 DEF Advance, document, Commit, Job, Then
  <2>2. before = table \/ outcome # "Ok" \/ state.node = "Intake"
    <3>1. state.st = "Active"
      BY <2>1 DEF Kept, SessionAtItsNode
    <3>2. state # Queued /\ ~RoundFailed /\ (state = Active("Intake") => state.node = "Intake")
      BY <1>2, <3>1 DEF RoundFailed
    <3>3. QED
      BY <2>1, <3>2 DEF SnapshotIsTable
  <2>3. outcome # "Ok" => RoundFailed'
    BY <1>5, RoundEnds DEF RoundFailed, Failed
  <2>4. outcome = "Ok" /\ state.node = "Intake" => state' = Active("Design")
    BY <1>5, RoundEnds
  <2>5. QED
    BY <2>1, <2>2, <2>3, <2>4 DEF SnapshotIsTable
<1>6. ASSUME NEW button \in Presses, Press(button) PROVE SnapshotIsTable'
  <2>1. /\ Idle /\ session = "none" /\ before' = before /\ table' = table
        /\ \/ state.st = "Active" /\ state.node \in WaitNodes
           \/ state.st = "Failed" /\ state.reason \in {"ImplBudget", "DesignBudget"}
    BY <1>6, CalmPress
  <2>2. state \notin {Queued, Active("Intake"), Active("Design")} /\ ~RoundFailed
    BY <1>2, <2>1, Names DEF RoundFailed
  <2>3. before = table
    BY <2>1, <2>2 DEF SnapshotIsTable, Idle
  <2>4. QED
    BY <2>1, <2>3 DEF SnapshotIsTable
<1>7. CASE CoreStep
  <2>1. session = "none" /\ state.st = "Active" /\ state.node \in CoreNodes /\ Idle
    BY <1>7, Names DEF CoreStep, Kept, SessionAtItsNode
  <2>2. before = table
    <3>1. state \notin {Queued, Active("Intake"), Active("Design")} /\ ~RoundFailed
      BY <1>2, <2>1 DEF RoundFailed, CoreNodes
    <3>2. QED
      BY <2>1, <3>1 DEF SnapshotIsTable, Idle
  <2>3. QED
    BY <1>7, <2>2 DEF CoreStep, document, SnapshotIsTable
<1>8. CASE Begins
  <2>1. state' = Active("Intake")
    BY <1>8 DEF Begins, Commit, OnSlotAvailable, Start, To, Rejected
  <2>2. QED
    BY <2>1 DEF SnapshotIsTable
<1>9. CASE WriteBudget \/ WriteConsumed \/ PerformAction
  <2>1. /\ before' = before /\ table' = table /\ state' = state
        /\ job.todo \in {"budget", "consume", "start"} /\ job'.todo # "advance"
    BY <1>9, GoesOnTo DEF WriteBudget, WriteConsumed, PerformAction, document,
                          Kept, Typed, Jobs, Resting, Job
  <2>2. QED
    BY <1>1, <2>1 DEF SnapshotIsTable, RoundFailed
<1>10. CASE Redispatch \/ \E i \in Items : Decide(i)
  BY <1>10 DEF Redispatch, Decide, document, SnapshotIsTable, RoundFailed
<1>11. CASE Crash
  BY <1>11 DEF Crash, Resting, Job, document, SnapshotIsTable, RoundFailed, Calm
<1>12. QED
  BY <1>3, <1>4, <1>5, <1>6, <1>7, <1>8, <1>9, <1>10, <1>11 DEF Next, Core, User

(* A round is compared with the table it was given.                        *)
THEOREM ComparedAsGiven == ASSUME Calm PROVE Spec => []ComparedWithItsStart
<1>1. Init => SnapshotIsTable
  BY DEF Init, SnapshotIsTable
<1>2. Kept /\ SnapshotIsTable /\ [Next]_vars => SnapshotIsTable'
  BY SnapshotKeeps DEF vars, document, SnapshotIsTable, RoundFailed
<1>3. Kept /\ SnapshotIsTable => ComparedWithItsStart
  BY DEF Kept, SessionAtItsNode, SnapshotIsTable, RoundFailed, ComparedWithItsStart,
         Idle, Active, Queued, State
<1>4. QED
  BY <1>1, <1>2, <1>3, AlwaysKept, PTL DEF Spec
---------------------------------------------------------------------------
(* Where the rounds, besides, create no milestone that is closed already,  *)
(* a closing that no audit wrote is seen by the guard of the very round.   *)

LEMMA ClosingIsSeen ==
  ASSUME Kept, SnapshotIsTable, "closesNew" \notin Slips, ClosingsAreSeen, SessionEnds
  PROVE  ClosingsAreSeen'
<1>1. session = "running" /\ Idle /\ state.st = "Active" /\ state' = state /\ before' = before
      /\ session' = "ended" /\ table' \in Table
  BY DEF SessionEnds, Kept, SessionAtItsNode
<1>2. Unaudited = {}
  BY <1>1 DEF ClosingsAreSeen, RoundFailed, Idle
<1>3. ASSUME NEW m \in Milestones, m \in Unaudited'
      PROVE  state.node = "Implement" /\ table[m] \in {"Open", "Pending"} /\ table'[m] = "Done"
  <2>1. table'[m] = "Done" /\ m \notin audited'
    BY <1>3 DEF Unaudited
  <2>2. /\ audited' = {n \in Milestones : /\ table'[n] = "Done"
                                          /\ n \in audited \/ (state.node = "Audit" /\ table[n] # "Done")}
        /\ table'[m] = table[m] \/ <<table[m], table'[m]>> \in Edits(state.node)
    BY DEF SessionEnds
  <2>3. table[m] # "Done"
    BY <1>2, <2>1, <2>2 DEF Unaudited
  <2>4. state.node # "Audit" /\ <<table[m], "Done">> \in Edits(state.node)
    BY <2>1, <2>2, <2>3
  <2>5. QED
    BY <2>1, <2>4 DEF Edits
<1>4. Unaudited' # {} => state.node = "Implement" /\ before = table /\ table \in Table
  <2>1. state.node = "Implement" => before = table
    BY <1>1 DEF SnapshotIsTable, RoundFailed, Idle, Active, Queued, State
  <2>2. QED
    BY <1>3, <2>1 DEF Unaudited, Kept, Typed, TypeOK
<1>5. Unaudited' # {} => Unaudited' \subseteq ClosedByImpl'
  <2>1. \A m \in Unaudited' : m \in Milestones
    BY DEF Unaudited
  <2>2. before = table /\ table \in Table => DOMAIN before = Milestones
    BY DEF Table
  <2>3. QED
    BY <1>1, <1>3, <1>4, <2>1, <2>2 DEF ClosedByImpl
<1>6. QED
  BY <1>1, <1>4, <1>5 DEF ClosingsAreSeen

LEMMA ClosingsKeep ==
  ASSUME Kept, Calm, SnapshotIsTable, "closesNew" \notin Slips, ClosingsAreSeen, Next
  PROVE  ClosingsAreSeen'
<1>1. job.todo # "none" => session = "none"
  BY NoSessionMeanwhile
<1>2. Idle /\ session = "none" /\ ~RoundFailed => Unaudited = {}
  BY DEF ClosingsAreSeen, Idle
<1>3. CASE SessionEnds
  BY <1>3, ClosingIsSeen
<1>4. CASE Reap
  BY <1>4 DEF Reap, document, history, Job, ClosingsAreSeen, Unaudited, ClosedByImpl, RoundFailed, Idle
<1>5. CASE Guards
  <2>1. /\ job'.todo = "advance" /\ UNCHANGED <<state, table, audited>>
        /\ state.st = "Active" /\ session = "none" /\ job.todo = "guards"
    BY <1>1, <1>5, GoesOnTo DEF Guards, document, history, Kept, Typed, Jobs, SessionAtItsNode
  <2>2. Unaudited # {} => state.node = "Implement" /\ ClosedByImpl # {}
    BY <2>1 DEF ClosingsAreSeen, RoundFailed
  <2>3. state.node = "Implement" /\ ClosedByImpl # {} => outcome' # "Ok"
    BY <1>5 DEF Guards, Read, Admits, RoleNodes
  <2>4. QED
    BY <2>1, <2>2, <2>3 DEF ClosingsAreSeen, Unaudited
<1>6. CASE Advance
  <2>1. UNCHANGED <<table, audited>> /\ job.todo = "advance" /\ session = "none"
    BY <1>1, <1>6 DEF Advance, document, history
  <2>2. Unaudited # {} => outcome # "Ok"
    BY <2>1 DEF ClosingsAreSeen, RoundFailed, Kept, SessionAtItsNode
  <2>3. outcome # "Ok" => RoundFailed'
    BY <1>6, RoundEnds DEF RoundFailed, Failed
  <2>4. QED
    BY <2>1, <2>2, <2>3 DEF ClosingsAreSeen, Unaudited
<1>7. ASSUME NEW button \in Presses, Press(button) PROVE ClosingsAreSeen'
  BY <1>2, <1>7, CalmPress DEF ClosingsAreSeen, Unaudited, RoundFailed
<1>8. CASE CoreStep \/ Begins \/ Redispatch
  <2>1. Idle /\ session = "none" /\ UNCHANGED <<table, audited>>
    BY <1>8, Names DEF CoreStep, Begins, Redispatch, Kept, SessionAtItsNode, document, history,
                       Commit, OnSlotAvailable, Rejected
  <2>2. ~RoundFailed
    BY <1>8 DEF CoreStep, Begins, Redispatch, RoundFailed, Commit, OnSlotAvailable, Rejected
  <2>3. QED
    BY <1>2, <2>1, <2>2 DEF ClosingsAreSeen, Unaudited
<1>9. CASE WriteBudget \/ WriteConsumed \/ PerformAction
  <2>1. /\ UNCHANGED <<table, audited, state>>
        /\ job.todo \in {"budget", "consume", "start"}
    BY <1>9 DEF WriteBudget, WriteConsumed, PerformAction, document
  <2>2. QED
    BY <1>1, <2>1 DEF ClosingsAreSeen, RoundFailed, Unaudited
<1>10. CASE \E i \in Items : Decide(i)
  BY <1>10 DEF Decide, document, history, ClosingsAreSeen, Unaudited, ClosedByImpl, RoundFailed
<1>11. CASE Crash
  BY <1>11 DEF Crash, Resting, Job, document, history, ClosingsAreSeen, Unaudited, ClosedByImpl,
               RoundFailed, Calm
<1>12. QED
  BY <1>3, <1>4, <1>5, <1>6, <1>7, <1>8, <1>9, <1>10, <1>11 DEF Next, Core, User

(* No milestone goes to the merge whose closing an implementation round    *)
(* wrote.                                                                  *)
THEOREM AuditsClose == ASSUME Calm, "closesNew" \notin Slips PROVE Spec => []OnlyAuditCloses
<1> DEFINE Both == SnapshotIsTable /\ ClosingsAreSeen
<1>1. Init => Both
  BY DEF Init, SnapshotIsTable, ClosingsAreSeen, Unaudited
<1>2. Kept /\ Both /\ [Next]_vars => Both'
  BY SnapshotKeeps, ClosingsKeep
     DEF vars, document, history, SnapshotIsTable, ClosingsAreSeen, Unaudited, ClosedByImpl, RoundFailed
<1>3. Kept /\ Both => OnlyAuditCloses
  <2>1. SUFFICES ASSUME Kept, Both, PastTheLoop PROVE Unaudited = {}
    BY DEF OnlyAuditCloses, Unaudited
  <2>2. state.node # "Implement" /\ state.st \in {"Active", "Done"}
    BY <2>1 DEF PastTheLoop, CoreNodes, Done, State
  <2>3. QED
    BY <2>1, <2>2 DEF ClosingsAreSeen, RoundFailed
<1>4. QED
  BY <1>1, <1>2, <1>3, AlwaysKept, PTL DEF Spec

---------------------------------------------------------------------------
(* The design document the loop reads: of whatever lines sessions write    *)
(* it, the reader finds what is there.                                     *)

CONSTANTS Scripts, Required, Optional
VARIABLES topic, doc, r

D == INSTANCE StatusDocument

(* StatusDocument counts as this module does.                              *)
LEMMA SameCount ==
  ASSUME NEW S
  PROVE  D!Cardinality(S) = Cardinality(S)
BY DEF D!Cardinality, Cardinality

(* Numbers are well-ordered.                                               *)
LEMMA LeastNumber ==
  ASSUME NEW T, T \subseteq Nat, T # {}
  PROVE  \E x \in T : \A y \in T : x <= y
<1> DEFINE U == {1..n : n \in T}
<1>1. U \subseteq FiniteSubsetsOf(Nat) /\ U # {}
  <2>1. ASSUME NEW n \in T PROVE IsFiniteSet(1..n) /\ 1..n \subseteq Nat
    BY FS_Interval
  <2>2. QED
    BY <2>1 DEF FiniteSubsetsOf
<1>2. PICK u \in U : \A v \in U : <<v, u>> \notin StrictSubsetOrdering(Nat)
  <2> HIDE DEF U
  <2> QED
    BY <1>1, WFMin, FS_StrictSubsetOrderingWellFounded
<1>3. PICK x \in T : u = 1..x
  OBVIOUS
<1>4. ASSUME NEW y \in T, ~(x <= y) PROVE FALSE
  <2>1. 1..y \subseteq 1..x /\ x \notin 1..y /\ x \in 1..x
    BY <1>4
  <2>2. <<1..y, u>> \in StrictSubsetOrdering(Nat)
    BY <1>3, <2>1, 1..y # 1..x DEF StrictSubsetOrdering
  <2>3. QED
    BY <1>2, <2>2
<1>5. QED
  BY <1>4

---------------------------------------------------------------------------
(* A line more.                                                            *)
Grown(l, n) == doc \in Seq(D!Lines) /\ l \in D!Lines /\ n = Len(doc) /\ doc' = Append(doc, l)

LEMMA LineIsAdded ==
  ASSUME NEW l, NEW n, Grown(l, n)
  PROVE  /\ n \in Nat /\ DOMAIN doc = 1..n /\ Len(doc') = n + 1 /\ DOMAIN doc' = 1..(n + 1)
         /\ doc' \in Seq(D!Lines) /\ doc'[n + 1] = l /\ \A i \in 1..n : doc'[i] = doc[i]
BY DEF Grown

(* The code fences above a line, with one line more.                       *)
LEMMA FencesGrow ==
  ASSUME NEW l, NEW n, Grown(l, n)
  PROVE  /\ \A i \in 1..(n + 1) : D!Fences(i)' = D!Fences(i)
         /\ D!Fences(n + 2)' = IF l.k = "fence" THEN D!Fences(n + 1) \cup {n + 1} ELSE D!Fences(n + 1)
         /\ n + 1 \notin D!Fences(n + 1) /\ IsFiniteSet(D!Fences(n + 1))
<1>1. /\ n \in Nat /\ doc'[n + 1] = l /\ \A i \in 1..n : doc'[i] = doc[i]
  BY LineIsAdded
<1>2. \A i : D!Fences(i)' = {j \in 1..(i - 1) : doc'[j].k = "fence"}
  BY DEF D!Fences
<1>3. ASSUME NEW i \in 1..(n + 1) PROVE D!Fences(i)' = D!Fences(i)
  <2>1. \A j \in 1..(i - 1) : doc'[j] = doc[j]
    BY <1>1
  <2>2. QED
    BY <1>2, <2>1 DEF D!Fences
<1>4. D!Fences(n + 2)' = IF l.k = "fence" THEN D!Fences(n + 1) \cup {n + 1} ELSE D!Fences(n + 1)
  <2>1. 1..((n + 2) - 1) = (1..((n + 1) - 1)) \cup {n + 1} /\ 1..((n + 1) - 1) = 1..n
    BY <1>1
  <2>2. D!Fences(n + 2)' = {j \in 1..((n + 2) - 1) : doc'[j].k = "fence"}
    BY DEF D!Fences
  <2>3. D!Fences(n + 1) = {j \in 1..n : doc[j].k = "fence"}
    BY <2>1 DEF D!Fences
  <2>4. n + 1 \notin 1..n
    BY <1>1
  <2>5. QED
    BY <1>1, <2>1, <2>2, <2>3, <2>4
<1>5. IsFiniteSet(D!Fences(n + 1))
  <2>1. IsFiniteSet(1..n) /\ D!Fences(n + 1) \subseteq 1..n
    BY <1>1, FS_Interval DEF D!Fences
  <2>2. QED
    BY <2>1, FS_Subset
<1>6. n + 1 \notin D!Fences(n + 1)
  BY <1>1 DEF D!Fences
<1>7. QED
  BY <1>3, <1>4, <1>5, <1>6

(* What the scanner knows of where it is.                                  *)
Heading(l) == l.k \in {"section", "title"}
Open(i)    == Cardinality(D!Fences(i)) % 2 = 0

(* Which lines stand in no code block, and which of them are headings.     *)
LEMMA SeenGrows ==
  ASSUME NEW l, NEW n, Grown(l, n)
  PROVE  /\ \A i \in 1..n : D!Visible(i)' = D!Visible(i)
         /\ D!Visible(n + 1)' = (l.k # "fence" /\ Open(n + 1))
         /\ Open(n + 2)' = IF l.k = "fence" THEN ~Open(n + 1) ELSE Open(n + 1)
         /\ D!Heads' = IF Open(n + 1) /\ Heading(l) THEN D!Heads \cup {n + 1} ELSE D!Heads
         /\ D!Heads \subseteq 1..n
<1>1. /\ n \in Nat /\ DOMAIN doc = 1..n /\ DOMAIN doc' = 1..(n + 1) /\ Len(doc') = n + 1
      /\ doc'[n + 1] = l /\ \A i \in 1..n : doc'[i] = doc[i]
  BY LineIsAdded
<1>2. \A i : D!Visible(i)' = (doc'[i].k # "fence" /\ Cardinality(D!Fences(i)') % 2 = 0)
  BY SameCount DEF D!Visible
<1>3. \A i \in 1..n : D!Visible(i)' = D!Visible(i)
  <2>1. \A i \in 1..n : i \in 1..(n + 1)
    BY <1>1
  <2>2. QED
    BY <1>1, <1>2, <2>1, FencesGrow, SameCount DEF D!Visible
<1>4. D!Visible(n + 1)' = (l.k # "fence" /\ Open(n + 1))
  <2>1. n + 1 \in 1..(n + 1)
    BY <1>1
  <2>2. D!Fences(n + 1)' = D!Fences(n + 1)
    BY <2>1, FencesGrow
  <2>3. QED
    BY <1>1, <1>2, <2>2 DEF Open
<1>5. Open(n + 2)' = IF l.k = "fence" THEN ~Open(n + 1) ELSE Open(n + 1)
  <2>1. Open(n + 2)' = (Cardinality(D!Fences(n + 2)') % 2 = 0)
    BY DEF Open
  <2>2. CASE l.k = "fence"
    <3>1. PICK F, c : F = D!Fences(n + 1) /\ c = Cardinality(F)
      OBVIOUS
    <3>a. IsFiniteSet(F) /\ n + 1 \notin F /\ D!Fences(n + 2)' = F \cup {n + 1}
      BY <2>2, <3>1, FencesGrow
    <3>2. c \in Nat /\ Cardinality(D!Fences(n + 2)') = c + 1
      BY <3>1, <3>a, FS_AddElement, FS_CardinalityType
    <3>3. ((c + 1) % 2 = 0) = ~(c % 2 = 0)
      BY <3>2
    <3>4. QED
      BY <2>1, <2>2, <3>1, <3>2, <3>3 DEF Open
  <2>3. CASE l.k # "fence"
    BY <2>1, <2>3, FencesGrow DEF Open
  <2>4. QED
    BY <2>2, <2>3
<1>6. D!Heads \subseteq 1..n
  BY <1>1 DEF D!Heads
<1>7. D!Heads' = IF Open(n + 1) /\ Heading(l) THEN D!Heads \cup {n + 1} ELSE D!Heads
  <2>1. D!Heads' = {i \in 1..(n + 1) : D!Visible(i)' /\ doc'[i].k \in {"section", "title"}}
    BY <1>1 DEF D!Heads
  <2>2. 1..(n + 1) = (1..n) \cup {n + 1} /\ n + 1 \notin 1..n
    BY <1>1
  <2>3. D!Heads = {i \in 1..n : D!Visible(i) /\ doc[i].k \in {"section", "title"}}
    BY <1>1 DEF D!Heads
  <2>4. (D!Visible(n + 1)' /\ doc'[n + 1].k \in {"section", "title"}) <=> Open(n + 1) /\ Heading(l)
    BY <1>1, <1>4 DEF Heading
  <2>5. QED
    BY <1>1, <1>3, <2>1, <2>2, <2>3, <2>4
<1>8. QED
  BY <1>3, <1>4, <1>5, <1>6, <1>7

(* The section a line stands in is the last heading's above it.            *)
LEMMA SectionGrows ==
  ASSUME NEW l, NEW n, Grown(l, n)
  PROVE  /\ \A i \in 1..(n + 1) : D!SectionAt(i)' = D!SectionAt(i)
         /\ D!SectionAt(n + 2)' =
              IF Open(n + 1) /\ Heading(l) THEN IF l.k = "title" THEN "preamble" ELSE l.a
              ELSE D!SectionAt(n + 1)
<1> DEFINE above(i) == {h \in D!Heads : h < i}
           last(i)  == CHOOSE h \in above(i) : \A g \in above(i) : g <= h
<1>1. /\ n \in Nat /\ DOMAIN doc = 1..n /\ Len(doc') = n + 1
      /\ doc'[n + 1] = l /\ \A i \in 1..n : doc'[i] = doc[i]
  BY LineIsAdded
<1>2. D!Heads \subseteq 1..n /\ D!Heads' = IF Open(n + 1) /\ Heading(l) THEN D!Heads \cup {n + 1}
        ELSE D!Heads
  BY SeenGrows
<1>3. \A i : above(i)' = {h \in D!Heads' : h < i}
  OBVIOUS
<1>4. \A i : D!SectionAt(i) = IF above(i) = {} \/ doc[last(i)].k = "title" THEN "preamble"
        ELSE doc[last(i)].a
  BY DEF D!SectionAt
<1>5. \A i : D!SectionAt(i)' = IF above(i)' = {} \/ doc'[last(i)'].k = "title" THEN "preamble"
        ELSE doc'[last(i)'].a
  BY DEF D!SectionAt
<1>6. \A i : last(i)' = CHOOSE h \in above(i)' : \A g \in above(i)' : g <= h
  OBVIOUS
<1>7. ASSUME NEW i \in 1..(n + 2), above(i) # {} PROVE last(i) \in 1..n
  <2> DEFINE A == above(i)
  <2>1. A \subseteq 1..n /\ A # {}
    BY <1>2, <1>7
  <2> HIDE DEF A
  <2>2. \E h \in A : \A g \in A : g <= h
    <3> DEFINE B == {n - h : h \in A}
    <3>1. B \subseteq Nat /\ B # {}
      <4>1. ASSUME NEW h \in A PROVE n - h \in Nat
        BY <1>1, <2>1
      <4>2. QED
        BY <2>1, <4>1
    <3> HIDE DEF B
    <3>2. PICK b \in B : \A c \in B : b <= c
      BY <3>1, LeastNumber
    <3> USE DEF B
    <3>3. PICK h \in A : b = n - h
      OBVIOUS
    <3>4. \A g \in A : n - h <= n - g
      BY <3>2, <3>3
    <3>5. QED
      BY <1>1, <2>1, <3>4
  <2>3. last(i) = CHOOSE h \in A : \A g \in A : g <= h
    BY DEF A
  <2> HIDE DEF last
  <2>4. QED
    BY <2>1, <2>2, <2>3
<1> HIDE DEF above, last
<1>8. ASSUME NEW i \in 1..(n + 2), above(i)' = above(i) PROVE D!SectionAt(i)' = D!SectionAt(i)
  <2>1. last(i)' = last(i)
    BY <1>6, <1>8 DEF last
  <2>2. CASE above(i) = {}
    BY <1>4, <1>5, <1>8, <2>2
  <2>3. CASE above(i) # {}
    BY <1>1, <1>4, <1>5, <1>7, <1>8, <2>1, <2>3
  <2>4. QED
    BY <2>2, <2>3
<1>9. ASSUME NEW i \in 1..(n + 1) PROVE D!SectionAt(i)' = D!SectionAt(i)
  <2>1. above(i)' = above(i)
    BY <1>1, <1>2, <1>3 DEF above
  <2>2. i \in 1..(n + 2)
    BY <1>1
  <2>3. QED
    BY <1>8, <2>1, <2>2
<1>10. CASE ~(Open(n + 1) /\ Heading(l))
  <2>1. above(n + 2)' = above(n + 2) /\ above(n + 2) = above(n + 1)
    <3>1. PICK H : H = D!Heads
      OBVIOUS
    <3>2. D!Heads' = H /\ H \subseteq 1..n
      BY <1>2, <1>10, <3>1
    <3>3. above(n + 2)' = {h \in H : h < n + 2} /\ above(n + 2) = {h \in H : h < n + 2}
          /\ above(n + 1) = {h \in H : h < n + 1}
      BY <1>3, <3>1, <3>2 DEF above
    <3>4. \A h \in H : h < n + 2 /\ h < n + 1
      BY <1>1, <3>2
    <3>5. QED
      BY <3>3, <3>4
  <2>2. n + 2 \in 1..(n + 2)
    BY <1>1
  <2>3. D!SectionAt(n + 2)' = D!SectionAt(n + 2)
    BY <1>8, <2>1, <2>2
  <2>4. D!SectionAt(n + 2) = D!SectionAt(n + 1)
    BY <1>4, <2>1 DEF last
  <2>5. QED
    BY <1>9, <1>10, <2>3, <2>4
<1>11. CASE Open(n + 1) /\ Heading(l)
  <2>1. above(n + 2)' = D!Heads \cup {n + 1}
    <3>1. PICK H, G : H = D!Heads /\ G = D!Heads'
      OBVIOUS
    <3>2. G = H \cup {n + 1} /\ H \subseteq 1..n
      BY <1>2, <1>11, <3>1
    <3>3. above(n + 2)' = {h \in G : h < n + 2}
      BY <1>3, <3>1
    <3>4. \A h \in G : h < n + 2
      BY <1>1, <3>2
    <3>5. QED
      BY <3>1, <3>2, <3>3, <3>4
  <2>2. last(n + 2)' = n + 1
    <3>1. PICK A, H : A = above(n + 2)' /\ H = D!Heads
      OBVIOUS
    <3>b. H \subseteq 1..n /\ A = H \cup {n + 1}
      BY <1>2, <2>1, <3>1
    <3>a. n + 1 \in A /\ \A h \in A : h \in 1..(n + 1)
      BY <1>1, <3>b
    <3>2. \A h \in A : (\A g \in A : g <= h) => h = n + 1
      BY <1>1, <3>a
    <3>3. n + 1 \in A /\ \A g \in A : g <= n + 1
      BY <1>1, <3>a
    <3>4. last(n + 2)' = CHOOSE h \in A : \A g \in A : g <= h
      BY <1>6, <3>1
    <3>5. QED
      BY <3>2, <3>3, <3>4
  <2>3. above(n + 2)' # {}
    BY <2>1
  <2>4. D!SectionAt(n + 2)' = IF l.k = "title" THEN "preamble" ELSE l.a
    BY <1>1, <1>5, <2>2, <2>3
  <2>5. QED
    BY <1>9, <1>11, <2>4
<1>12. QED
  BY <1>10, <1>11

(* What the n-th line adds to the text of a section.                       *)
LEMMA TextGrows ==
  ASSUME NEW l, NEW n, Grown(l, n), NEW s
  PROVE  /\ D!Text(s)' = IF Open(n + 1) /\ l.k # "fence" /\ ~Heading(l) /\ D!SectionAt(n + 1) = s
                       THEN D!Text(s) \cup {n + 1} ELSE D!Text(s)
         /\ D!Text(s) \subseteq 1..n
<1>1. /\ n \in Nat /\ DOMAIN doc = 1..n /\ DOMAIN doc' = 1..(n + 1)
  BY LineIsAdded
<1>2. D!Text(s) = {i \in 1..n : D!Visible(i) /\ i \notin D!Heads /\ D!SectionAt(i) = s}
  BY <1>1 DEF D!Text
<1>3. D!Text(s)' = {i \in 1..(n + 1) : D!Visible(i)' /\ i \notin D!Heads' /\ D!SectionAt(i)' = s}
  BY <1>1 DEF D!Text
<1>4. 1..(n + 1) = (1..n) \cup {n + 1} /\ n + 1 \notin 1..n
  BY <1>1
<1>5. ASSUME NEW i \in 1..n
      PROVE  (D!Visible(i)' /\ i \notin D!Heads' /\ D!SectionAt(i)' = s)
               <=> (D!Visible(i) /\ i \notin D!Heads /\ D!SectionAt(i) = s)
  <2>1. D!Visible(i)' = D!Visible(i) /\ (i \in D!Heads' <=> i \in D!Heads)
    BY <1>4, SeenGrows
  <2>2. D!SectionAt(i)' = D!SectionAt(i)
    BY <1>4, SectionGrows
  <2>3. QED
    BY <2>1, <2>2
<1>6. (D!Visible(n + 1)' /\ n + 1 \notin D!Heads' /\ D!SectionAt(n + 1)' = s)
        <=> (Open(n + 1) /\ l.k # "fence" /\ ~Heading(l) /\ D!SectionAt(n + 1) = s)
  <2>1. D!Visible(n + 1)' = (l.k # "fence" /\ Open(n + 1))
          /\ (n + 1 \in D!Heads' <=> Open(n + 1) /\ Heading(l))
    BY <1>4, SeenGrows
  <2>2. D!SectionAt(n + 1)' = D!SectionAt(n + 1)
    BY <1>4, SectionGrows
  <2>3. QED
    BY <2>1, <2>2
<1>7. QED
  BY <1>2, <1>3, <1>4, <1>5, <1>6


---------------------------------------------------------------------------
(* What the reader holds.                                                  *)
Faults == {"DuplicateField", "BadValue", "BadMilestoneRow", "DuplicateMilestoneId"}
Places == {"outside", "milestone header", "other header", "body", "other"}
RowsRead  == Seq([id : STRING, state : D!States, line : Nat])
AnItem    == [named : BOOLEAN, ticked : BOOLEAN, text : Seq(Nat)]
ItemsRead == Seq(AnItem)
Readers ==
  [err : Faults \cup {"none"}, section : D!Sections, fence : BOOLEAN, table : Places, seen : BOOLEAN,
   field : [D!Keys -> STRING \cup {D!Unset}], rows : RowsRead, items : [D!Lists -> ItemsRead]]

(* A line that belongs to the text of its section.                         *)
Belongs(p, l) == ~p.fence /\ l.k # "fence" /\ ~Heading(l)

(* Where the scanner is after a line.                                      *)
Fenced(p, l) == IF l.k = "fence" THEN ~p.fence ELSE p.fence
Headed(p, l) ==
  IF ~p.fence /\ Heading(l) THEN IF l.k = "title" THEN "preamble" ELSE l.a ELSE p.section

(* What becomes of a line among the items of a list.                       *)
ListRead(p, l, n) ==
  IF D!Continues(p, l) THEN [p EXCEPT !.items[p.section] = D!Continued(@, n)] ELSE D!ReadBullet(p, l, n)
Begun(p, q, s, n) ==
  \E named, ticked \in BOOLEAN :
    q = [p EXCEPT !.items[s] = Append(p.items[s], [named |-> named, ticked |-> ticked, text |-> <<n>>])]
WentOn(p, q, s, n) == q = [p EXCEPT !.items[s] = D!Continued(p.items[s], n)]

RowOf(l, n) == [id |-> l.a, state |-> l.b, line |-> n]
HeaderOf(p, l) == IF l.k = "header" /\ ~p.seen THEN "milestone header" ELSE "other header"

(* One line is read as its section reads it, or it moves the scanner.      *)
LEMMA ReadIs ==
  ASSUME NEW p \in Readers, NEW l \in D!Lines, NEW n \in Nat, p.err = "none", NEW q, q = D!Read(p, l, n)
  PROVE  /\ Belongs(p, l) /\ p.section = "milestones" => q = D!ReadTable(p, l, n)
         /\ Belongs(p, l) /\ p.section = "preamble" => q = D!ReadField(p, l)
         /\ Belongs(p, l) /\ p.section \in D!Lists =>
              q = ListRead(p, l, n)
         /\ Belongs(p, l) /\ p.section = "other" => q = p
         /\ ~Belongs(p, l) =>
              q = [p EXCEPT !.fence = Fenced(p, l), !.section = Headed(p, l)]
<1>1. p = [err |-> p.err, section |-> p.section, fence |-> p.fence, table |-> p.table, seen |-> p.seen,
           field |-> p.field, rows |-> p.rows, items |-> p.items] /\ p.fence \in BOOLEAN
             /\ p.section \in D!Sections
  BY DEF Readers
<1>2. CASE l.k = "fence"
  <2>1. q = [p EXCEPT !.fence = ~@]
    BY <1>2 DEF D!Read
  <2>2. ~Belongs(p, l) /\ ~Heading(l)
    BY <1>2 DEF Belongs, Heading
  <2>3. QED
    BY <1>1, <1>2, <2>1, <2>2 DEF Fenced, Headed
<1>3. CASE l.k # "fence" /\ p.fence
  <2>1. q = p
    BY <1>3 DEF D!Read
  <2>2. ~Belongs(p, l)
    BY <1>3 DEF Belongs
  <2>3. QED
    BY <1>1, <1>3, <2>1, <2>2 DEF Fenced, Headed
<1>4. CASE l.k # "fence" /\ ~p.fence /\ D!Continues(p, l)
  <2>1. q = [p EXCEPT !.items[p.section] = D!Continued(@, n)]
    BY <1>4 DEF D!Read
  <2>2. Belongs(p, l) /\ p.section \in D!Lists /\ p.section \notin {"milestones", "preamble", "other"}
    BY <1>4 DEF Belongs, D!Continues, Heading, D!Lists
  <2>3. QED
    BY <1>4, <2>1, <2>2 DEF ListRead
<1>5. CASE l.k # "fence" /\ ~p.fence /\ ~D!Continues(p, l) /\ Heading(l)
  <2>1. q = IF l.k = "section" THEN [p EXCEPT !.section = l.a] ELSE [p EXCEPT !.section = "preamble"]
    BY <1>5 DEF D!Read, Heading
  <2>2. ~Belongs(p, l)
    BY <1>5 DEF Belongs
  <2>3. QED
    BY <1>1, <1>5, <2>1, <2>2 DEF Heading, Fenced, Headed
<1>6. CASE l.k # "fence" /\ ~p.fence /\ ~D!Continues(p, l) /\ ~Heading(l)
  <2>1. q = D!Within(p, l, n)
    BY <1>6 DEF D!Read, Heading
  <2>2. Belongs(p, l)
    BY <1>6 DEF Belongs
  <2>3. QED
    BY <1>6, <2>1, <2>2 DEF D!Within, D!Lists, ListRead
<1>7. QED
  BY <1>2, <1>3, <1>4, <1>5, <1>6

(* What a line of the preamble does: nothing, a failure, or its key's first *)
(* value.                                                                  *)
LEMMA FieldRead ==
  ASSUME NEW p \in Readers, NEW l \in D!Lines, NEW q, q = D!ReadField(p, l)
  PROVE  /\ q \in Readers
         /\ \/ (l.k # "field" \/ l.a \notin D!Keys) /\ q = p
            \/ q.err \in {"DuplicateField", "BadValue"}
            \/ l.k = "field" /\ l.a \in D!Keys /\ p.field[l.a] = D!Unset
                 /\ q = [p EXCEPT !.field[l.a] = l.b]
<1>1. l.b \in STRING
  BY DEF D!Lines
<1>2. CASE l.k # "field" \/ l.a \notin D!Keys
  BY <1>2 DEF D!ReadField
<1>3. CASE l.k = "field" /\ l.a \in D!Keys /\ (p.field[l.a] # D!Unset \/ ~D!Parses(l.a, l.b))
  <2>1. q = [p EXCEPT !.err = "DuplicateField"] \/ q = [p EXCEPT !.err = "BadValue"]
    BY <1>3 DEF D!ReadField, D!Fails
  <2>2. QED
    BY <2>1 DEF Readers, Faults
<1>4. CASE l.k = "field" /\ l.a \in D!Keys /\ p.field[l.a] = D!Unset /\ D!Parses(l.a, l.b)
  <2>1. q = [p EXCEPT !.field[l.a] = l.b]
    BY <1>4 DEF D!ReadField
  <2>2. [p.field EXCEPT ![l.a] = l.b] \in [D!Keys -> STRING \cup {D!Unset}]
    BY <1>1, <1>4 DEF Readers
  <2>3. q \in Readers
    BY <2>1, <2>2 DEF Readers
  <2>4. QED
    BY <1>4, <2>1, <2>3
<1>5. QED
  BY <1>2, <1>3, <1>4

(* A bullet begins an item, an indented line continues the last one.       *)
LEMMA ItemRead ==
  ASSUME NEW p \in Readers, NEW l \in D!Lines, NEW n \in Nat, NEW q, NEW s \in D!Lists, p.section = s,
         q = ListRead(p, l, n)
  PROVE  /\ q \in Readers
         /\ \/ l.k # "bullet" /\ q = p
            \/ l.k = "bullet" /\ Begun(p, q, s, n)
            \/ l.k = "indented" /\ p.items[s] # <<>> /\ WentOn(p, q, s, n)
<1>1. p.items \in [D!Lists -> ItemsRead] /\ p.items[s] \in ItemsRead
  BY DEF Readers
<1>2. ASSUME NEW its \in ItemsRead PROVE [p EXCEPT !.items[s] = its] \in Readers
  <2>1. [p.items EXCEPT ![s] = its] \in [D!Lists -> ItemsRead]
    BY <1>1, <1>2
  <2>2. QED
    BY <2>1 DEF Readers
<1>3. CASE D!Continues(p, l)
  <2>1. q = [p EXCEPT !.items[s] = D!Continued(p.items[s], n)] /\ l.k = "indented" /\ p.items[s] # <<>>
    BY <1>1, <1>3 DEF D!Continues, ListRead
  <2>2. D!Continued(p.items[s], n) \in ItemsRead
    <3>1. PICK its : its = p.items[s]
      OBVIOUS
    <3>2. Len(its) \in DOMAIN its /\ its[Len(its)] \in AnItem
      <4>1. PICK T : T = AnItem
        OBVIOUS
      <4>2. its \in Seq(T) /\ its # <<>>
        BY <1>1, <2>1, <3>1, <4>1 DEF ItemsRead
      <4>3. Len(its) \in DOMAIN its /\ its[Len(its)] \in T
        BY <4>2
      <4>4. QED
        BY <4>1, <4>3
    <3>3. PICK it : it = [its[Len(its)] EXCEPT !.text = Append(@, n)]
      OBVIOUS
    <3>4. it \in AnItem
      <4>1. PICK last : last = its[Len(its)]
        OBVIOUS
      <4>2. last \in AnItem
        BY <3>2, <4>1
      <4>3. Append(last.text, n) \in Seq(Nat)
        BY <4>2 DEF AnItem
      <4>4. it = [last EXCEPT !.text = Append(last.text, n)]
        BY <3>3, <4>1
      <4>5. QED
        BY <4>2, <4>3, <4>4 DEF AnItem
    <3>5. D!Continued(its, n) = [its EXCEPT ![Len(its)] = it]
      BY <3>2, <3>3 DEF D!Continued
    <3>6. QED
      BY <1>1, <3>1, <3>2, <3>4, <3>5 DEF ItemsRead
  <2>3. QED
    BY <1>1, <1>2, <2>1, <2>2 DEF WentOn
<1>4. CASE ~D!Continues(p, l) /\ l.k = "bullet"
  <2>1. q = [p EXCEPT !.items[p.section] = Append(@, [named |-> l.a # "", ticked |-> l.b = "x", text |-> <<n>>])]
    BY <1>4 DEF D!ReadBullet, ListRead
  <2>2. PICK named, ticked \in BOOLEAN : named = (l.a # "") /\ ticked = (l.b = "x")
    OBVIOUS
  <2>3. PICK it : it = [named |-> named, ticked |-> ticked, text |-> <<n>>]
    OBVIOUS
  <2>4. it \in AnItem
    BY <2>3 DEF AnItem
  <2>5. Append(p.items[s], it) \in ItemsRead
    BY <1>1, <2>4 DEF ItemsRead
  <2>6. q = [p EXCEPT !.items[s] = Append(p.items[s], it)]
    BY <1>1, <2>1, <2>2, <2>3
  <2>7. q \in Readers
    BY <1>2, <2>5, <2>6
  <2>8. QED
    BY <1>1, <1>4, <2>2, <2>3, <2>6, <2>7 DEF Begun
<1>5. CASE ~D!Continues(p, l) /\ l.k # "bullet"
  BY <1>5 DEF D!ReadBullet, ListRead
<1>6. QED
  BY <1>3, <1>4, <1>5

(* What a line does to the table.                                          *)
LEMMA TableRead ==
  ASSUME NEW p \in Readers, NEW l \in D!Lines, NEW n \in Nat, NEW q, q = D!ReadTable(p, l, n)
  PROVE  /\ q \in Readers
         /\ \/ l.k \notin D!Pipes /\ q = [p EXCEPT !.table = "outside"]
            \/ l.k = "separator" /\ q = D!Opened(p)
            \/ l.k \in D!Pipes \ {"separator"} /\ p.table = "other" /\ q = p
            \/ q.err \in Faults
            \/ /\ l.k = "row" /\ p.table = "body" /\ \A i \in DOMAIN p.rows : p.rows[i].id # l.a
               /\ q = [p EXCEPT !.rows = Append(p.rows, RowOf(l, n))]
            \/ /\ l.k \in D!Pipes \ {"separator"} /\ p.table \notin {"other", "body"}
               /\ q = [p EXCEPT !.table = HeaderOf(p, l)]
<1>1. CASE l.k \notin D!Pipes
  BY <1>1 DEF D!ReadTable, Readers, Places
<1>2. CASE l.k = "separator"
  BY <1>2 DEF D!ReadTable, D!Opened, Readers, Places, D!Pipes
<1>3. CASE l.k \in D!Pipes \ {"separator"} /\ p.table = "other"
  BY <1>3 DEF D!ReadTable
<1>4. CASE l.k \in D!Pipes \ {"separator"} /\ p.table = "body"
  <2>1. q = D!Row(p, l, n)
    BY <1>4 DEF D!ReadTable
  <2>2. CASE l.k # "row" \/ \E i \in DOMAIN p.rows : p.rows[i].id = l.a
    <3>1. q = [p EXCEPT !.err = "BadMilestoneRow"] \/ q = [p EXCEPT !.err = "DuplicateMilestoneId"]
      BY <2>1, <2>2 DEF D!Row, D!Fails
    <3>2. QED
      BY <3>1 DEF Readers, Faults
  <2>3. CASE l.k = "row" /\ \A i \in DOMAIN p.rows : p.rows[i].id # l.a
    <3>1. q = [p EXCEPT !.rows = Append(p.rows, RowOf(l, n))]
      BY <2>1, <2>3 DEF D!Row, RowOf
    <3>2. PICK row : row = RowOf(l, n)
      OBVIOUS
    <3>3. row \in [id : STRING, state : D!States, line : Nat]
      BY <2>3, <3>2 DEF D!Lines, RowOf
    <3>4. q \in Readers
      <4>1. Append(p.rows, row) \in RowsRead
        <5>1. p.rows \in RowsRead
          BY DEF Readers
        <5>2. PICK T : T = [id : STRING, state : D!States, line : Nat]
          OBVIOUS
        <5>3. p.rows \in Seq(T) /\ row \in T
          BY <3>3, <5>1, <5>2 DEF RowsRead
        <5>4. Append(p.rows, row) \in Seq(T)
          BY <5>3
        <5>5. QED
          BY <5>2, <5>4 DEF RowsRead
      <4>2. PICK had \in RowsRead : had = Append(p.rows, row)
        BY <4>1
      <4>3. q = [p EXCEPT !.rows = had]
        BY <3>1, <3>2, <4>2
      <4>4. QED
        BY <4>3 DEF Readers
    <3>5. QED
      BY <1>4, <2>3, <3>1, <3>4
  <2>4. QED
    BY <2>2, <2>3
<1>5. CASE l.k \in D!Pipes \ {"separator"} /\ p.table \notin {"other", "body"}
  BY <1>5 DEF D!ReadTable, D!IsItsHeader, HeaderOf, Readers, Places
<1>6. QED
  BY <1>1, <1>2, <1>3, <1>4, <1>5

(* The reader keeps its shape, and fails with one of four errors.          *)
LEMMA ReaderHolds ==
  ASSUME NEW p \in Readers, NEW l \in D!Lines, NEW n \in Nat
  PROVE  D!Read(p, l, n) \in Readers /\ (p.err # "none" => D!Read(p, l, n) = p)
<1>1. PICK q : q = D!Read(p, l, n)
  OBVIOUS
<1>2. p.err # "none" => q = p
  BY <1>1 DEF D!Read
<1>3. CASE p.err = "none"
  <2>1. CASE ~Belongs(p, l)
    <3>1. Heading(l) /\ l.k # "title" => l.a \in D!Sections
      BY DEF Heading, D!Lines
    <3>3. Fenced(p, l) \in BOOLEAN /\ Headed(p, l) \in D!Sections
      BY <3>1 DEF Readers, D!Sections, Fenced, Headed
    <3>4. q = [p EXCEPT !.fence = Fenced(p, l), !.section = Headed(p, l)]
      BY <1>1, <1>3, <2>1, ReadIs
    <3>5. q \in Readers
      BY <3>3, <3>4 DEF Readers
    <3>6. QED
      BY <1>1, <1>3, <3>5
  <2>2. CASE Belongs(p, l)
    <3>1. p.section \in {"preamble", "milestones", "other"} \cup D!Lists
      BY DEF Readers, D!Sections, D!Lists
    <3>2. p.section = "preamble" => q \in Readers
      BY <1>1, <1>3, <2>2, ReadIs, FieldRead
    <3>3. p.section = "milestones" => q \in Readers
      <4>1. p.section = "milestones" => q = D!ReadTable(p, l, n)
        BY <1>1, <1>3, <2>2, ReadIs
      <4>2. QED
        BY <4>1, TableRead
    <3>4. p.section \in D!Lists => q \in Readers
      <4>1. p.section \in D!Lists => q = ListRead(p, l, n)
        BY <1>1, <1>3, <2>2, ReadIs
      <4>2. QED
        BY <4>1, ItemRead
    <3>5. p.section = "other" => q \in Readers
      BY <1>1, <1>3, <2>2, ReadIs
    <3>6. QED
      BY <1>1, <1>3, <3>1, <3>2, <3>3, <3>4, <3>5
  <2>3. QED
    BY <2>1, <2>2
<1>4. QED
  BY <1>1, <1>2, <1>3


---------------------------------------------------------------------------
(* The milestone table, as the scanner has it after the lines so far.      *)
InTable == D!Pipes \ {"separator"}
Runs(t)    == \A m \in D!Milestones : t < m => doc[m].k \in InTable
HeaderLast == \E h \in D!Milestones : doc[h].k = "header" /\ \A m \in D!Milestones : m <= h

(* What a line more makes of the tables there are.                         *)
LEMMA MilestonesGrow ==
  ASSUME NEW l, NEW n, Grown(l, n), NEW added \in BOOLEAN, D!Milestones \subseteq 1..n,
         D!Milestones' = IF added THEN D!Milestones \cup {n + 1} ELSE D!Milestones
  PROVE  /\ D!Tops' = IF added /\ l.k = "separator" /\ HeaderLast THEN D!Tops \cup {n + 1} ELSE D!Tops
         /\ D!Tops \subseteq 1..n
         /\ \A t \in 1..n : D!Under(t)' =
              IF added /\ l.k \in InTable /\ Runs(t) THEN D!Under(t) \cup {n + 1} ELSE D!Under(t)
         /\ D!Under(n + 1)' = {}
         /\ \A t \in 1..n : D!OnItsOwn(t)' <=> D!OnItsOwn(t)
         /\ D!OnItsOwn(n + 1)' =>
              \A s \in D!Milestones : doc[s].k = "separator" =>
                \E m \in D!Milestones : s < m /\ doc[m].k \notin D!Pipes
         /\ \A t \in 1..n : Runs(t)' <=> Runs(t) /\ (added => l.k \in InTable)
         /\ Runs(n + 1)'
         /\ HeaderLast' <=> IF added THEN l.k = "header" ELSE HeaderLast
<1>1. /\ n \in Nat /\ doc'[n + 1] = l /\ \A i \in 1..n : doc'[i] = doc[i]
  BY LineIsAdded
<1>2. PICK M, MM : M = D!Milestones /\ MM = D!Milestones'
  OBVIOUS
<1>3. M \subseteq 1..n /\ MM = IF added THEN M \cup {n + 1} ELSE M
  BY <1>2
<1>4. /\ \A m \in M : m \in 1..n /\ m \in Nat /\ m < n + 1 /\ m # n + 1 /\ m \in MM /\ doc'[m] = doc[m]
      /\ \A m \in MM : m \in Nat /\ m <= n + 1 /\ (m < n + 1 => m \in M)
           /\ (m \notin M => added /\ m = n + 1)
  BY <1>1, <1>3
<1>5. /\ \A i, j : D!Between(i, j) = {m \in M : i < m /\ m < j}
      /\ \A i, j : D!Between(i, j)' = {m \in MM : i < m /\ m < j}
  BY <1>2 DEF D!Between
<1>6. /\ \A i : \A j \in 1..(n + 1) : D!Between(i, j)' = D!Between(i, j)
      /\ \A i : D!Between(i, n + 1) = {m \in M : i < m}
  <2>1. ASSUME NEW i, NEW j \in 1..(n + 1) PROVE D!Between(i, j)' = D!Between(i, j)
    <3>1. \A m : m \in MM /\ m < j => m \in M
      BY <1>1, <1>4
    <3>2. \A m : m \in M => m \in MM
      BY <1>4
    <3>3. QED
      BY <1>5, <3>1, <3>2
  <2>2. QED
    BY <1>4, <1>5, <2>1
<1>7. HeaderLast' <=> IF added THEN l.k = "header" ELSE HeaderLast
  <2>1. HeaderLast' <=> \E h \in MM : doc'[h].k = "header" /\ \A m \in MM : m <= h
    BY <1>2 DEF HeaderLast
  <2>2. HeaderLast <=> \E h \in M : doc[h].k = "header" /\ \A m \in M : m <= h
    BY <1>2 DEF HeaderLast
  <2>3. CASE added
    <3>1. n + 1 \in MM /\ \A h \in MM : (\A m \in MM : m <= h) <=> h = n + 1
      BY <1>1, <1>3, <1>4, <2>3
    <3>2. QED
      BY <1>1, <2>1, <2>3, <3>1
  <2>4. CASE ~added
    BY <1>3, <1>4, <2>1, <2>2, <2>4
  <2>5. QED
    BY <2>3, <2>4
<1>8. /\ \A t : Runs(t)' <=> \A m \in MM : t < m => doc'[m].k \in InTable
      /\ \A t : Runs(t) <=> \A m \in M : t < m => doc[m].k \in InTable
  BY <1>2 DEF Runs, InTable
<1>9. Runs(n + 1)'
  BY <1>1, <1>4, <1>8
<1>10. ASSUME NEW t \in 1..n PROVE Runs(t)' <=> Runs(t) /\ (added => l.k \in InTable)
  <2>1. added => n + 1 \in MM /\ t < n + 1
    BY <1>1, <1>3
  <2>2. QED
    BY <1>1, <1>4, <1>8, <2>1
<1>11. /\ \A t : D!Under(t)' = {i \in MM : /\ t < i /\ doc'[i].k \in InTable
                                         /\ \A m \in D!Between(t, i)' : doc'[m].k \in InTable}
       /\ \A t : D!Under(t) = {i \in M : /\ t < i /\ doc[i].k \in InTable
                                       /\ \A m \in D!Between(t, i) : doc[m].k \in InTable}
  BY <1>2 DEF D!Under, InTable
<1>12. D!Under(n + 1)' = {}
  BY <1>1, <1>4, <1>11
<1>13. ASSUME NEW t \in 1..n
       PROVE  D!Under(t)' = IF added /\ l.k \in InTable /\ Runs(t) THEN D!Under(t) \cup {n + 1}
                ELSE D!Under(t)
  <2>1. ASSUME NEW i \in M PROVE i \in D!Under(t)' <=> i \in D!Under(t)
    <3>1. i \in MM /\ doc'[i] = doc[i] /\ D!Between(t, i)' = D!Between(t, i)
      <4>1. i \in 1..(n + 1)
        BY <1>1, <1>3
      <4>2. QED
        BY <1>4, <1>6, <4>1
    <3>2. \A m \in D!Between(t, i) : doc'[m] = doc[m]
      BY <1>4, <1>5
    <3>3. QED
      BY <1>11, <3>1, <3>2
  <2>2. n + 1 \in D!Under(t)' <=> added /\ l.k \in InTable /\ Runs(t)
    <3>1. D!Between(t, n + 1)' = {m \in M : t < m}
      <4>1. n + 1 \in 1..(n + 1)
        BY <1>1
      <4>2. QED
        BY <1>6, <4>1
    <3>2. (\A m \in D!Between(t, n + 1)' : doc'[m].k \in InTable) <=> Runs(t)
      BY <1>4, <1>8, <3>1
    <3>3. t < n + 1 /\ (n + 1 \in MM <=> added)
      BY <1>1, <1>3, <1>4
    <3>4. n + 1 \in D!Under(t)' <=> n + 1 \in MM /\ t < n + 1 /\ doc'[n + 1].k \in InTable
            /\ (\A m \in D!Between(t, n + 1)' : doc'[m].k \in InTable)
      BY <1>11
    <3>5. QED
      BY <1>1, <3>2, <3>3, <3>4
  <2>3. D!Under(t) \subseteq M /\ D!Under(t)' \subseteq M \cup {n + 1} /\ n + 1 \notin M
    BY <1>3, <1>4, <1>11
  <2>4. QED
    BY <2>1, <2>2, <2>3
<1>14. /\ \A t : D!OnItsOwn(t)' <=> \A s \in MM : s < t /\ doc'[s].k = "separator"
            => \E m \in D!Between(s, t)' : doc'[m].k \notin D!Pipes
       /\ \A t : D!OnItsOwn(t) <=> \A s \in M : s < t /\ doc[s].k = "separator"
            => \E m \in D!Between(s, t) : doc[m].k \notin D!Pipes
  BY <1>2 DEF D!OnItsOwn
<1>15. ASSUME NEW t \in 1..n PROVE D!OnItsOwn(t)' <=> D!OnItsOwn(t)
  <2>1. t \in 1..(n + 1) /\ \A s \in MM : s < t => s \in M
    BY <1>1, <1>4
  <2>2. \A s : D!Between(s, t)' = D!Between(s, t) /\ \A m \in D!Between(s, t) : doc'[m] = doc[m]
    BY <1>4, <1>5, <1>6, <2>1
  <2>3. QED
    BY <1>4, <1>14, <2>1, <2>2
<1>16. D!OnItsOwn(n + 1)' =>
         \A s \in D!Milestones : doc[s].k = "separator" =>
           \E m \in D!Milestones : s < m /\ doc[m].k \notin D!Pipes
  <2>1. n + 1 \in 1..(n + 1)
    BY <1>1
  <2>2. \A s : D!Between(s, n + 1)' = {m \in M : s < m}
    BY <1>6, <2>1
  <2>3. ASSUME D!OnItsOwn(n + 1)', NEW s \in M, doc[s].k = "separator"
        PROVE  \E m \in M : s < m /\ doc[m].k \notin D!Pipes
    <3>1. s \in MM /\ s < n + 1 /\ doc'[s].k = "separator"
      BY <1>4, <2>3
    <3>2. PICK m \in D!Between(s, n + 1)' : doc'[m].k \notin D!Pipes
      BY <1>14, <2>3, <3>1
    <3>3. QED
      BY <1>4, <2>2, <3>2
  <2>4. QED
    BY <1>2, <2>3
<1>17. D!Tops' = IF added /\ l.k = "separator" /\ HeaderLast THEN D!Tops \cup {n + 1} ELSE D!Tops
  <2>1. /\ D!Tops' = {t \in MM : /\ doc'[t].k = "separator"
                               /\ \E h \in MM : h < t /\ doc'[h].k = "header" /\ D!Between(h, t)' = {}}
        /\ D!Tops = {t \in M : /\ doc[t].k = "separator"
                             /\ \E h \in M : h < t /\ doc[h].k = "header" /\ D!Between(h, t) = {}}
    BY <1>2 DEF D!Tops
  <2>2. ASSUME NEW t \in M PROVE t \in D!Tops' <=> t \in D!Tops
    <3>1. t \in 1..(n + 1) /\ t \in MM /\ doc'[t] = doc[t] /\ \A h \in MM : h < t => h \in M
      BY <1>1, <1>4
    <3>2. \A h : D!Between(h, t)' = D!Between(h, t)
      BY <1>6, <3>1
    <3>3. QED
      BY <1>4, <2>1, <3>1, <3>2
  <2>3. n + 1 \in D!Tops' <=> added /\ l.k = "separator" /\ HeaderLast
    <3>1. n + 1 \in 1..(n + 1) /\ (n + 1 \in MM <=> added) /\ \A h \in MM : h < n + 1 <=> h \in M
      BY <1>1, <1>3, <1>4
    <3>2. \A h : D!Between(h, n + 1)' = {m \in M : h < m}
      BY <1>6, <3>1
    <3>3. HeaderLast <=> \E h \in M : doc[h].k = "header" /\ {m \in M : h < m} = {}
      <4>1. \A h \in M : (\A m \in M : m <= h) <=> {m \in M : h < m} = {}
        BY <1>4
      <4>2. QED
        BY <1>2, <4>1 DEF HeaderLast
    <3>4. n + 1 \in D!Tops' <=> n + 1 \in MM /\ doc'[n + 1].k = "separator"
                              /\ \E h \in MM : h < n + 1 /\ doc'[h].k = "header"
                                   /\ D!Between(h, n + 1)' = {}
      BY <2>1
    <3>5. (\E h \in MM : h < n + 1 /\ doc'[h].k = "header" /\ D!Between(h, n + 1)' = {}) <=> HeaderLast
      BY <1>4, <3>1, <3>2, <3>3
    <3>6. QED
      BY <1>1, <3>1, <3>4, <3>5
  <2>4. D!Tops \subseteq M /\ D!Tops' \subseteq M \cup {n + 1} /\ n + 1 \notin M
    BY <1>3, <1>4, <2>1
  <2>5. QED
    BY <2>2, <2>3, <2>4
<1>18. D!Tops \subseteq 1..n
  BY <1>2, <1>3 DEF D!Tops
<1>19. QED
  BY <1>7, <1>9, <1>10, <1>12, <1>13, <1>15, <1>16, <1>17, <1>18

---------------------------------------------------------------------------
(* What the reader holds is what the lines so far say.                     *)
FirstTop(t) == t \in D!Tops /\ D!OnItsOwn(t) /\ \A u \in D!Tops : t <= u

Scanned ==
  \A n : n = Len(doc) => (r.fence <=> ~Open(n + 1)) /\ r.section = D!SectionAt(n + 1)

RowsInTable(t) ==
  D!RowLines = D!Under(t) /\ (Runs(t) <=> r.table = "body") /\ \A u \in D!Tops : FirstTop(u) => u = t

TableAt ==
  /\ r.table = "milestone header" => HeaderLast /\ ~r.seen
  /\ HeaderLast => r.table \in {"milestone header", "other", "body"} \/ r.seen
  /\ r.table = "other" => \E s \in D!Milestones : doc[s].k = "separator" /\ Runs(s)
  /\ r.table = "body" => r.seen
  /\ ~r.seen => r.rows = <<>> /\ \A t \in D!Tops : ~FirstTop(t)
  /\ r.seen => \E t \in D!Tops : RowsInTable(t)

RowsDiffer == \A i, j \in DOMAIN r.rows : r.rows[i].id = r.rows[j].id => i = j

Said(k) == {i \in D!Text("preamble") : doc[i].k = "field" /\ doc[i].a = k}

FieldsAreSaid ==
  \A k \in D!Keys : \/ Said(k) = {} /\ r.field[k] = D!Unset
                  \/ \E i \in Said(k) : Said(k) = {i} /\ r.field[k] = doc[i].b

Firsts(its) == {its[i].text[1] : i \in DOMAIN its}
Apart(its)  ==
  \A i, j \in DOMAIN its : i < j
    => \A m \in DOMAIN its[i].text, n \in DOMAIN its[j].text : its[i].text[m] # its[j].text[n]
Filled(its, lines) ==
  \A i \in DOMAIN its : its[i].text # <<>> /\ \A m \in DOMAIN its[i].text : its[i].text[m] \in lines
TextsKept(its, lines, d) ==
  \A i \in DOMAIN its : \A m \in DOMAIN its[i].text \ {1} :
    d[its[i].text[m]].k = "indented" /\ its[i].text[m] \in lines

ItemsAreBullets ==
  \A s \in D!Lists :
    /\ Firsts(r.items[s]) = {i \in D!Text(s) : doc[i].k = "bullet"}
    /\ Apart(r.items[s]) /\ Filled(r.items[s], D!Text(s)) /\ TextsKept(r.items[s], D!Text(s), doc)

DocumentInductive ==
  /\ doc \in Seq(D!Lines) /\ r \in Readers
  /\ r.err = "none" => Scanned /\ TableAt /\ RowsDiffer /\ FieldsAreSaid /\ ItemsAreBullets

(* One line is read.                                                       *)
Reads(l, n) == Grown(l, n) /\ r' = D!Read(r, l, n + 1) /\ r \in Readers /\ r.err = "none" /\ Scanned

(* The line that is read is text of its section, as the lines say it.      *)
LEMMA WhatBelongs ==
  ASSUME NEW l, NEW n, Reads(l, n), NEW s
  PROVE  /\ D!Text(s)' = IF Belongs(r, l) /\ r.section = s THEN D!Text(s) \cup {n + 1} ELSE D!Text(s)
         /\ D!Text(s) \subseteq 1..n
<1>1. Grown(l, n) /\ n = Len(doc)
  BY DEF Reads, Grown
<1>2. (r.fence <=> ~Open(n + 1)) /\ r.section = D!SectionAt(n + 1)
  BY <1>1 DEF Reads, Scanned
<1>3. r.fence \in BOOLEAN
  BY DEF Reads, Readers
<1>4. Belongs(r, l) <=> Open(n + 1) /\ l.k # "fence" /\ ~Heading(l)
  BY <1>2, <1>3 DEF Belongs
<1>5. QED
  BY <1>1, <1>2, <1>4, TextGrows

(* The reader after the line, by what the line is to it.                   *)
LEMMA ReadsIs ==
  ASSUME NEW l, NEW n, Reads(l, n)
  PROVE  /\ n \in Nat /\ n + 1 \in Nat /\ l \in D!Lines /\ r \in Readers /\ r' \in Readers
         /\ Belongs(r, l) /\ r.section = "milestones" => r' = D!ReadTable(r, l, n + 1)
         /\ Belongs(r, l) /\ r.section = "preamble" => r' = D!ReadField(r, l)
         /\ Belongs(r, l) /\ r.section \in D!Lists =>
              r' = ListRead(r, l, n + 1)
         /\ Belongs(r, l) /\ r.section = "other" => r' = r
         /\ ~Belongs(r, l) => r' = [r EXCEPT !.fence = Fenced(r, l), !.section = Headed(r, l)]
<1>1. Grown(l, n) /\ r \in Readers /\ r.err = "none" /\ r' = D!Read(r, l, n + 1)
  BY DEF Reads
<1>2. l \in D!Lines /\ n \in Nat
  BY <1>1, LineIsAdded DEF Grown
<1>3. PICK p, q, m : p = r /\ q = r' /\ m = n + 1
  OBVIOUS
<1>4. p \in Readers /\ p.err = "none" /\ q = D!Read(p, l, m) /\ m \in Nat
  BY <1>1, <1>2, <1>3
<1>5. q \in Readers
  BY <1>2, <1>4, ReaderHolds
<1>6. /\ Belongs(p, l) /\ p.section = "milestones" => q = D!ReadTable(p, l, m)
      /\ Belongs(p, l) /\ p.section = "preamble" => q = D!ReadField(p, l)
      /\ Belongs(p, l) /\ p.section \in D!Lists => q = ListRead(p, l, m)
      /\ Belongs(p, l) /\ p.section = "other" => q = p
      /\ ~Belongs(p, l) => q = [p EXCEPT !.fence = Fenced(p, l), !.section = Headed(p, l)]
  BY <1>2, <1>4, ReadIs
<1>7. QED
  BY <1>2, <1>3, <1>4, <1>5, <1>6

(* What a line leaves as it is that is not of a section.                   *)
LEMMA Untouched ==
  ASSUME NEW l, NEW n, Reads(l, n), r'.err = "none"
  PROVE  /\ ~(Belongs(r, l) /\ r.section = "milestones") =>
              r'.rows = r.rows /\ r'.table = r.table /\ r'.seen = r.seen
         /\ ~(Belongs(r, l) /\ r.section = "preamble") => r'.field = r.field
         /\ \A s \in D!Lists : ~(Belongs(r, l) /\ r.section = s) => r'.items[s] = r.items[s]
         /\ Belongs(r, l) => r'.fence = r.fence /\ r'.section = r.section
         /\ ~Belongs(r, l) => r'.fence = Fenced(r, l) /\ r'.section = Headed(r, l)
<1>1. PICK p, q, m : p = r /\ q = r' /\ m = n + 1
  OBVIOUS
<1>2. /\ n \in Nat /\ m \in Nat /\ l \in D!Lines /\ p \in Readers /\ q \in Readers
      /\ Belongs(p, l) /\ p.section = "milestones" => q = D!ReadTable(p, l, m)
      /\ Belongs(p, l) /\ p.section = "preamble" => q = D!ReadField(p, l)
      /\ Belongs(p, l) /\ p.section \in D!Lists => q = ListRead(p, l, m)
      /\ Belongs(p, l) /\ p.section = "other" => q = p
      /\ ~Belongs(p, l) => q = [p EXCEPT !.fence = Fenced(p, l), !.section = Headed(p, l)]
  BY <1>1, ReadsIs
<1>3. p.section \in {"preamble", "milestones", "other"} \cup D!Lists /\ q.err = "none"
      /\ "milestones" \notin D!Lists /\ "preamble" \notin D!Lists /\ "other" \notin D!Lists
  BY <1>1, <1>2 DEF Readers, D!Sections, D!Lists
<1>4. CASE ~Belongs(p, l)
  BY <1>1, <1>2, <1>4 DEF Readers
<1>5. CASE Belongs(p, l) /\ p.section = "other"
  BY <1>1, <1>2, <1>5
<1>6. CASE Belongs(p, l) /\ p.section = "preamble"
  <2>1. q = p \/ \E b : q = [p EXCEPT !.field[l.a] = b]
    <3>1. q = D!ReadField(p, l)
      BY <1>2, <1>6
    <3>2. PICK b : b = l.b
      OBVIOUS
    <3>3. q = p \/ q = [p EXCEPT !.field[l.a] = b]
      BY <1>2, <1>3, <3>1, <3>2, FieldRead
    <3>4. QED
      BY <3>3
  <2>2. QED
    BY <1>1, <1>2, <1>3, <1>6, <2>1 DEF Readers
<1>7. CASE Belongs(p, l) /\ p.section = "milestones"
  <2>1. q = D!ReadTable(p, l, m)
    BY <1>2, <1>7
  <2>2. q.field = p.field /\ q.items = p.items /\ q.fence = p.fence /\ q.section = p.section
    <3>1. \/ \E x : q = [p EXCEPT !.table = x]
          \/ l.k = "separator" /\ q = D!Opened(p)
          \/ q = p
          \/ \E x : q = [p EXCEPT !.rows = x]
      <4>1. q.err \notin Faults
        BY <1>3 DEF Faults
      <4>2. PICK x, y : /\ x = HeaderOf(p, l)
                        /\ y = Append(p.rows, RowOf(l, m))
        OBVIOUS
      <4>3. \/ q = [p EXCEPT !.table = "outside"] \/ q = [p EXCEPT !.table = x]
            \/ l.k = "separator" /\ q = D!Opened(p)
            \/ q = p
            \/ q = [p EXCEPT !.rows = y]
        <5>1. p \in Readers /\ l \in D!Lines /\ m \in Nat
          BY <1>2
        <5>2. QED
          BY <2>1, <4>1, <4>2, <5>1, TableRead
      <4>4. QED
        BY <4>3
    <3>2. D!Opened(p).field = p.field /\ D!Opened(p).items = p.items /\ D!Opened(p).fence = p.fence
          /\ D!Opened(p).section = p.section
      BY <1>2 DEF D!Opened, Readers
    <3>3. QED
      BY <1>2, <3>1, <3>2 DEF Readers
  <2>3. QED
    BY <1>1, <1>3, <1>7, <2>2
<1>8. CASE Belongs(p, l) /\ p.section \in D!Lists
  <2>1. q = ListRead(p, l, m)
    BY <1>2, <1>8
  <2>2. q = p \/ \E its : q = [p EXCEPT !.items[p.section] = its]
    BY <1>8, <2>1 DEF D!ReadBullet, ListRead
  <2>3. QED
    BY <1>1, <1>2, <1>3, <1>8, <2>2 DEF Readers
<1>9. QED
  BY <1>1, <1>3, <1>4, <1>5, <1>6, <1>7, <1>8

(* The scanner is where fences and headings say, after the line as before  *)
(* it.                                                                     *)
LEMMA ScannerMoves ==
  ASSUME NEW l, NEW n, Reads(l, n), r'.err = "none"
  PROVE  Scanned'
<1>1. Grown(l, n) /\ n \in Nat /\ n = Len(doc) /\ Len(doc') = n + 1 /\ r.fence \in BOOLEAN
  BY LineIsAdded DEF Reads, Grown, Readers
<1>2. (r.fence <=> ~Open(n + 1)) /\ r.section = D!SectionAt(n + 1)
  BY <1>1 DEF Reads, Scanned
<1>3. /\ Open(n + 2)' = IF l.k = "fence" THEN ~Open(n + 1) ELSE Open(n + 1)
      /\ D!SectionAt(n + 2)' = IF Open(n + 1) /\ Heading(l) THEN IF l.k = "title" THEN "preamble" ELSE l.a
                             ELSE D!SectionAt(n + 1)
  BY <1>1, SeenGrows, SectionGrows
<1>4. (r'.fence <=> ~Open(n + 2)') /\ r'.section = D!SectionAt(n + 2)'
  <2>1. CASE Belongs(r, l)
    BY <1>1, <1>2, <1>3, <2>1, Untouched DEF Belongs
  <2>2. CASE ~Belongs(r, l)
    BY <1>1, <1>2, <1>3, <2>2, Untouched DEF Belongs, Fenced, Headed
  <2>3. QED
    BY <2>1, <2>2
<1>5. ASSUME NEW k, k = Len(doc') PROVE (r'.fence <=> ~Open(k + 1)') /\ r'.section = D!SectionAt(k + 1)'
  <2>1. k + 1 = n + 2
    BY <1>1, <1>5
  <2>2. QED
    BY <1>4, <2>1
<1>6. QED
  BY <1>5 DEF Scanned

(* A field holds what the only line of its key says.                       *)
LEMMA FieldsStaySaid ==
  ASSUME NEW l, NEW n, Reads(l, n), r'.err = "none", FieldsAreSaid
  PROVE  FieldsAreSaid'
<1>1. Grown(l, n) /\ n \in Nat /\ doc'[n + 1] = l /\ \A i \in 1..n : doc'[i] = doc[i]
  BY LineIsAdded DEF Reads
<1>2. PICK T, U : T = D!Text("preamble") /\ U = D!Text("preamble")'
  OBVIOUS
<1>3. U = (IF Belongs(r, l) /\ r.section = "preamble" THEN T \cup {n + 1} ELSE T) /\ T \subseteq 1..n
  BY <1>2, WhatBelongs
<1>4. /\ \A k : Said(k) = {i \in T : doc[i].k = "field" /\ doc[i].a = k}
      /\ \A k : Said(k)' = {i \in U : doc'[i].k = "field" /\ doc'[i].a = k}
  BY <1>2 DEF Said
<1>5. \A k : Said(k)' = IF Belongs(r, l) /\ r.section = "preamble" /\ l.k = "field" /\ l.a = k
                        THEN Said(k) \cup {n + 1} ELSE Said(k)
  <2>1. ASSUME NEW k
        PROVE Said(k)' = IF Belongs(r, l) /\ r.section = "preamble" /\ l.k = "field" /\ l.a = k
                         THEN Said(k) \cup {n + 1} ELSE Said(k)
    <3>1. \A i \in T : doc'[i] = doc[i]
      BY <1>1, <1>3
    <3>2. CASE Belongs(r, l) /\ r.section = "preamble"
      BY <1>1, <1>3, <1>4, <3>1, <3>2
    <3>3. CASE ~(Belongs(r, l) /\ r.section = "preamble")
      BY <1>3, <1>4, <3>1, <3>3
    <3>4. QED
      BY <3>2, <3>3
  <2>2. QED
    BY <2>1
<1>6. \A k : Said(k) \subseteq 1..n
  BY <1>3, <1>4
<1>7. CASE ~(Belongs(r, l) /\ r.section = "preamble" /\ l.k = "field" /\ l.a \in D!Keys)
  <2>1. \A k \in D!Keys : Said(k)' = Said(k)
    BY <1>5, <1>7
  <2>2. r'.field = r.field
    <3>1. CASE ~(Belongs(r, l) /\ r.section = "preamble")
      BY <3>1, Untouched
    <3>2. CASE Belongs(r, l) /\ r.section = "preamble"
      <4>1. r' = D!ReadField(r, l) /\ r \in Readers /\ l \in D!Lines
        BY <3>2, ReadsIs
      <4>2. QED
        BY <1>7, <3>2, <4>1 DEF D!ReadField
    <3>3. QED
      BY <3>1, <3>2
  <2>3. ASSUME NEW k \in D!Keys
        PROVE \/ Said(k)' = {} /\ r'.field[k] = D!Unset
              \/ \E i \in Said(k)' : Said(k)' = {i} /\ r'.field[k] = doc'[i].b
    <3>1. CASE Said(k) = {} /\ r.field[k] = D!Unset
      BY <2>1, <2>2, <3>1
    <3>2. CASE \E i \in Said(k) : Said(k) = {i} /\ r.field[k] = doc[i].b
      <4>1. PICK i \in Said(k) : Said(k) = {i} /\ r.field[k] = doc[i].b
        BY <3>2
      <4>2. doc'[i] = doc[i]
        BY <1>1, <1>6, <4>1
      <4>3. QED
        BY <2>1, <2>2, <4>1, <4>2
    <3>3. QED
      BY <3>1, <3>2 DEF FieldsAreSaid
  <2>4. QED
    BY <2>3 DEF FieldsAreSaid
<1>8. CASE Belongs(r, l) /\ r.section = "preamble" /\ l.k = "field" /\ l.a \in D!Keys
  <2>1. r' = D!ReadField(r, l) /\ r \in Readers /\ l \in D!Lines
    BY <1>8, ReadsIs
  <2>2. r.field[l.a] = D!Unset /\ r' = [r EXCEPT !.field[l.a] = l.b]
    <3>1. PICK q : q = r'
      OBVIOUS
    <3>2. q = D!ReadField(r, l) /\ q.err \notin {"DuplicateField", "BadValue"}
      BY <2>1, <3>1
    <3>3. QED
      BY <1>8, <2>1, <3>1, <3>2, FieldRead
  <2>3. r'.field = [r.field EXCEPT ![l.a] = l.b] /\ r.field \in [D!Keys -> STRING \cup {D!Unset}]
    BY <2>1, <2>2 DEF Readers
  <2>4. l.b # D!Unset
    BY <1>8, <2>1 DEF D!Lines
  <2>5. \A i \in 1..n : doc[i] \in D!Lines
    BY <1>1 DEF Grown
  <2>6. Said(l.a) = {}
    <3>1. ASSUME NEW i \in Said(l.a), r.field[l.a] = doc[i].b PROVE FALSE
      <4>1. doc[i].k = "field" /\ doc[i] \in D!Lines
        BY <1>4, <1>6, <2>5
      <4>2. QED
        BY <2>2, <3>1, <4>1 DEF D!Lines
    <3>2. QED
      BY <1>8, <3>1 DEF FieldsAreSaid
  <2>7. ASSUME NEW k \in D!Keys
        PROVE \/ Said(k)' = {} /\ r'.field[k] = D!Unset
              \/ \E i \in Said(k)' : Said(k)' = {i} /\ r'.field[k] = doc'[i].b
    <3>1. CASE k = l.a
      <4>1. Said(k)' = {n + 1} /\ r'.field[k] = l.b
        BY <1>5, <1>8, <2>3, <2>6, <3>1
      <4>2. QED
        BY <1>1, <4>1
    <3>2. CASE k # l.a
      <4>1. Said(k)' = Said(k) /\ r'.field[k] = r.field[k]
        BY <1>5, <2>3, <3>2
      <4>2. CASE Said(k) = {} /\ r.field[k] = D!Unset
        BY <4>1, <4>2
      <4>3. CASE \E i \in Said(k) : Said(k) = {i} /\ r.field[k] = doc[i].b
        <5>1. PICK i \in Said(k) : Said(k) = {i} /\ r.field[k] = doc[i].b
          BY <4>3
        <5>2. doc'[i] = doc[i]
          BY <1>1, <1>6, <5>1
        <5>3. QED
          BY <4>1, <5>1, <5>2
      <4>4. QED
        BY <4>2, <4>3 DEF FieldsAreSaid
    <3>3. QED
      BY <3>1, <3>2
  <2>8. QED
    BY <2>7 DEF FieldsAreSaid
<1>9. QED
  BY <1>7, <1>8

(* A line that is no item's yet.                                           *)
LEMMA ItemBegins ==
  ASSUME NEW its \in ItemsRead, NEW it \in AnItem,
         NEW new \in Nat, it.text = <<new>>, NEW lines, new \notin lines, NEW d,
           NEW all, all = Append(its, it),
         Apart(its), Filled(its, lines), TextsKept(its, lines, d)
  PROVE  /\ Firsts(all) = Firsts(its) \cup {new}
         /\ Apart(all) /\ Filled(all, lines \cup {new}) /\ TextsKept(all, lines \cup {new}, d)
<1>1. PICK T : T = AnItem
  OBVIOUS
<1>2. its \in Seq(T) /\ it \in T
  BY <1>1 DEF ItemsRead
<1>3. PICK k \in Nat : k = Len(its)
  BY <1>2
<1>4. /\ DOMAIN its = 1..k /\ DOMAIN all = 1..(k + 1) /\ all[k + 1] = it
      /\ \A i \in 1..k : all[i] = its[i]
  BY <1>2, <1>3
<1>5. /\ \A i \in 1..(k + 1) : i \in 1..k \/ i = k + 1
      /\ \A i \in 1..k : i \in 1..(k + 1) /\ ~(k + 1 < i)
      /\ k + 1 \in 1..(k + 1) /\ ~(k + 1 < k + 1)
  BY <1>3
<1>6. DOMAIN it.text = {1} /\ it.text[1] = new /\ it.text # <<>>
  OBVIOUS
<1>7. \A i \in 1..k : \A m \in DOMAIN its[i].text : its[i].text[m] \in lines /\ its[i].text[m] # new
  BY <1>4 DEF Filled
<1>8. Firsts(all) = Firsts(its) \cup {new}
  BY <1>4, <1>5, <1>6 DEF Firsts
<1>9. Apart(all)
  <2>1. ASSUME NEW i \in 1..(k + 1), NEW j \in 1..(k + 1), i < j, NEW a \in DOMAIN all[i].text,
                 NEW b \in DOMAIN all[j].text
        PROVE all[i].text[a] # all[j].text[b]
    <3>1. CASE j = k + 1
      <4>1. i \in 1..k
        BY <1>5, <2>1, <3>1
      <4>2. QED
        BY <1>4, <1>6, <1>7, <3>1, <4>1
    <3>2. CASE j # k + 1
      <4>1. j \in 1..k /\ i \in 1..k
        BY <1>5, <2>1, <3>2
      <4>2. all[i] = its[i] /\ all[j] = its[j] /\ i \in DOMAIN its /\ j \in DOMAIN its
        BY <1>4, <4>1
      <4>3. QED
        BY <2>1, <4>2 DEF Apart
    <3>3. QED
      BY <3>1, <3>2
  <2>2. QED
    BY <1>4, <2>1 DEF Apart
<1>10. Filled(all, lines \cup {new})
  <2>1. ASSUME NEW i \in 1..(k + 1)
        PROVE all[i].text # <<>> /\ \A m \in DOMAIN all[i].text : all[i].text[m] \in lines \cup {new}
    <3>1. CASE i = k + 1
      BY <1>4, <1>6, <3>1
    <3>2. CASE i \in 1..k
      BY <1>4, <1>7, <3>2 DEF Filled
    <3>3. QED
      BY <1>5, <3>1, <3>2
  <2>2. QED
    BY <1>4, <2>1 DEF Filled
<1>11. TextsKept(all, lines \cup {new}, d)
  BY <1>4, <1>5, <1>6 DEF TextsKept
<1>12. QED
  BY <1>8, <1>9, <1>10, <1>11

(* An indented line belongs to the last item alone.                        *)
LEMMA ItemGoesOn ==
  ASSUME NEW its \in ItemsRead, its # <<>>, NEW new \in Nat, NEW lines, new \notin lines, NEW d, NEW all,
         all = D!Continued(its, new), d[new].k = "indented",
         Apart(its), Filled(its, lines), TextsKept(its, lines, d)
  PROVE  /\ Firsts(all) = Firsts(its)
         /\ Apart(all) /\ Filled(all, lines \cup {new}) /\ TextsKept(all, lines \cup {new}, d)
<1>1. PICK T : T = AnItem
  OBVIOUS
<1>2. its \in Seq(T)
  BY <1>1 DEF ItemsRead
<1>3. PICK k \in Nat : k = Len(its)
  BY <1>2
<1>4. k \in 1..k /\ DOMAIN its = 1..k /\ its[k] \in T /\ \A i \in 1..k : its[i] \in T
  BY <1>2, <1>3
<1>5. PICK text \in Seq(Nat) : text = its[k].text
  BY <1>1, <1>4 DEF AnItem
<1>6. PICK more : more = Append(text, new)
  OBVIOUS
<1>7. all = [its EXCEPT ![k] = [its[k] EXCEPT !.text = more]]
  BY <1>3, <1>5, <1>6 DEF D!Continued
<1>8. DOMAIN all = 1..k /\ all[k].text = more /\ \A i \in 1..k : i # k => all[i].text = its[i].text
  BY <1>1, <1>4, <1>7
<1>9. PICK e \in Nat : e = Len(text)
  OBVIOUS
<1>10. /\ DOMAIN text = 1..e /\ DOMAIN more = 1..(e + 1) /\ more[e + 1] = new
            /\ \A m \in 1..e : more[m] = text[m]
       /\ text # <<>> /\ 1 \in 1..e /\ 1 \in 1..(e + 1) /\ more # <<>> /\ e + 1 # 1
       /\ \A m \in 1..(e + 1) : m \in 1..e \/ m = e + 1
  <2>1. text # <<>>
    BY <1>4, <1>5 DEF Filled
  <2>2. QED
    BY <1>6, <1>9, <2>1
<1>11. \A i \in 1..k : \A m \in DOMAIN its[i].text : its[i].text[m] \in lines /\ its[i].text[m] # new
  BY <1>4 DEF Filled
<1>12. \A i \in 1..k : its[i].text # <<>> /\ 1 \in DOMAIN its[i].text
  <2>1. ASSUME NEW i \in 1..k PROVE its[i].text # <<>> /\ 1 \in DOMAIN its[i].text
    <3>1. its[i].text \in Seq(Nat) /\ its[i].text # <<>>
      BY <1>1, <1>4 DEF AnItem, Filled
    <3>2. QED
      BY <3>1
  <2>2. QED
    BY <2>1
<1>13. Firsts(all) = Firsts(its)
  <2>1. \A i \in 1..k : all[i].text[1] = its[i].text[1]
    BY <1>5, <1>8, <1>10
  <2>2. QED
    <3>1. Firsts(its) = {its[i].text[1] : i \in 1..k} /\ Firsts(all) = {all[i].text[1] : i \in 1..k}
      BY <1>4, <1>8 DEF Firsts
    <3>2. QED
      BY <2>1, <3>1
<1>14. Apart(all)
  <2>1. ASSUME NEW i \in 1..k, NEW j \in 1..k, i < j, NEW a \in DOMAIN all[i].text,
                 NEW b \in DOMAIN all[j].text
        PROVE all[i].text[a] # all[j].text[b]
    <3>1. i # k
      BY <1>3, <2>1
    <3>2. all[i].text = its[i].text
      BY <1>8, <3>1
    <3>3. CASE j # k
      <4>1. all[j].text = its[j].text /\ a \in DOMAIN its[i].text /\ b \in DOMAIN its[j].text
        BY <1>8, <2>1, <3>2, <3>3
      <4>2. its[i].text[a] # its[j].text[b]
        BY <1>4, <2>1, <4>1 DEF Apart
      <4>3. QED
        BY <3>2, <4>1, <4>2
    <3>4. CASE j = k /\ b = e + 1
      BY <1>8, <1>10, <1>11, <2>1, <3>2, <3>4
    <3>5. CASE j = k /\ b # e + 1
      <4>1. b \in 1..e /\ all[j].text[b] = its[j].text[b] /\ b \in DOMAIN its[j].text
        BY <1>5, <1>8, <1>10, <2>1, <3>5
      <4>2. QED
        BY <1>4, <2>1, <3>2, <4>1 DEF Apart
    <3>6. QED
      BY <3>3, <3>4, <3>5
  <2>2. QED
    BY <1>8, <2>1 DEF Apart
<1>15. Filled(all, lines \cup {new})
  <2>1. ASSUME NEW i \in 1..k
        PROVE all[i].text # <<>> /\ \A m \in DOMAIN all[i].text : all[i].text[m] \in lines \cup {new}
    <3>1. CASE i = k
      BY <1>5, <1>8, <1>10, <1>11, <3>1
    <3>2. CASE i # k
      BY <1>8, <1>11, <1>12, <3>2
    <3>3. QED
      BY <3>1, <3>2
  <2>2. QED
    BY <1>8, <2>1 DEF Filled
<1>16. TextsKept(all, lines \cup {new}, d)
  <2>1. ASSUME NEW i \in 1..k, NEW m \in DOMAIN all[i].text \ {1}
        PROVE d[all[i].text[m]].k = "indented" /\ all[i].text[m] \in lines \cup {new}
    <3>1. CASE i = k /\ m = e + 1
      BY <1>8, <1>10, <3>1
    <3>2. CASE i = k /\ m # e + 1
      <4>1. all[i].text[m] = its[i].text[m] /\ m \in DOMAIN its[i].text \ {1}
        BY <1>5, <1>8, <1>10, <2>1, <3>2
      <4>2. d[its[i].text[m]].k = "indented" /\ its[i].text[m] \in lines
        BY <1>4, <2>1, <4>1 DEF TextsKept
      <4>3. QED
        BY <4>1, <4>2
    <3>3. CASE i # k
      BY <1>4, <1>8, <3>3 DEF TextsKept
    <3>4. QED
      BY <3>1, <3>2, <3>3
  <2>2. QED
    BY <1>8, <2>1 DEF TextsKept
<1>17. QED
  BY <1>13, <1>14, <1>15, <1>16

(* The items of a list are its bullets, and share no line.                 *)
LEMMA ItemsStayBullets ==
  ASSUME NEW l, NEW n, Reads(l, n), r'.err = "none", ItemsAreBullets
  PROVE  ItemsAreBullets'
<1>1. Grown(l, n) /\ n \in Nat /\ doc'[n + 1] = l /\ \A i \in 1..n : doc'[i] = doc[i]
  BY LineIsAdded DEF Reads
<1>2. ASSUME NEW s \in D!Lists
      PROVE  /\ Firsts(r'.items[s]) = {i \in D!Text(s)' : doc'[i].k = "bullet"}
             /\ Apart(r'.items[s]) /\ Filled(r'.items[s], D!Text(s)')
                  /\ TextsKept(r'.items[s], D!Text(s)', doc')
  <2>1. PICK T, U, its, all, d : T = D!Text(s) /\ U = D!Text(s)' /\ its = r.items[s]
               /\ all = r'.items[s] /\ d = doc'
    OBVIOUS
  <2>2. U = (IF Belongs(r, l) /\ r.section = s THEN T \cup {n + 1} ELSE T) /\ T \subseteq 1..n
    BY <2>1, WhatBelongs
  <2>3. /\ its \in ItemsRead /\ Firsts(its) = {i \in T : doc[i].k = "bullet"} /\ Apart(its)
        /\ Filled(its, T) /\ TextsKept(its, T, doc)
    BY <2>1 DEF ItemsAreBullets, Reads, Readers
  <2>4. (\A i \in T : d[i] = doc[i]) /\ d[n + 1] = l /\ n + 1 \notin T
    BY <1>1, <2>1, <2>2
  <2>5. TextsKept(its, T, d) /\ Firsts(its) = {i \in T : d[i].k = "bullet"}
    BY <2>3, <2>4 DEF TextsKept
  <2>6. CASE ~(Belongs(r, l) /\ r.section = s)
    <3>1. all = its /\ U = T
      BY <2>1, <2>2, <2>6, Untouched
    <3>2. QED
      BY <2>1, <2>3, <2>5, <3>1
  <2>7. CASE Belongs(r, l) /\ r.section = s
    <3>1. U = T \cup {n + 1}
      BY <2>2, <2>7
    <3>2. PICK p, q, m : p = r /\ q = r' /\ m = n + 1
      OBVIOUS
    <3>3. /\ p \in Readers /\ l \in D!Lines /\ m \in Nat /\ p.section = s
          /\ q = ListRead(p, l, m)
      BY <2>7, <3>2, ReadsIs
    <3>4. \/ l.k # "bullet" /\ q = p
          \/ l.k = "bullet" /\ Begun(p, q, s, m)
          \/ l.k = "indented" /\ p.items[s] # <<>> /\ WentOn(p, q, s, m)
      BY <3>3, ItemRead
    <3>5. p.items \in [D!Lists -> ItemsRead] /\ p.items[s] = its /\ q.items[s] = all
      BY <2>1, <3>2, <3>3 DEF Readers
    <3>6. {i \in U : d[i].k = "bullet"} = IF l.k = "bullet" THEN Firsts(its) \cup {n + 1} ELSE Firsts(its)
      BY <2>4, <2>5, <3>1
    <3>7. CASE l.k # "bullet" /\ q = p
      <4>1. all = its
        BY <3>5, <3>7
      <4>2. Filled(its, U) /\ TextsKept(its, U, d)
        BY <2>3, <2>5, <3>1 DEF Filled, TextsKept
      <4>3. QED
        BY <2>1, <2>3, <3>6, <3>7, <4>1, <4>2
    <3>8. CASE l.k = "bullet" /\ Begun(p, q, s, m)
      <4>1. PICK named \in BOOLEAN, ticked \in BOOLEAN :
                    q = [p EXCEPT !.items[s] = Append(p.items[s], [named |-> named, ticked |-> ticked, text |-> <<m>>])]
        BY <3>8 DEF Begun
      <4>2. PICK it : it = [named |-> named, ticked |-> ticked, text |-> <<m>>]
        OBVIOUS
      <4>3. it \in AnItem /\ it.text = <<n + 1>>
        BY <3>2, <3>3, <4>2 DEF AnItem
      <4>4. q = [p EXCEPT !.items[s] = Append(its, it)]
        BY <3>5, <4>1, <4>2
      <4>5. all = Append(its, it)
        BY <3>3, <3>5, <4>4 DEF Readers
      <4>6. Firsts(all) = Firsts(its) \cup {n + 1} /\ Apart(all) /\ Filled(all, U) /\ TextsKept(all, U, d)
        <5>1. m \notin T /\ m \in Nat /\ it.text = <<m>>
          BY <1>1, <2>4, <3>2, <4>3
        <5>2. /\ Firsts(all) = Firsts(its) \cup {m} /\ Apart(all)
              /\ Filled(all, T \cup {m}) /\ TextsKept(all, T \cup {m}, d)
          <6>1. its \in ItemsRead /\ Apart(its) /\ Filled(its, T) /\ TextsKept(its, T, d)
            BY <2>3, <2>5
          <6>2. QED
            BY <4>3, <4>5, <5>1, <6>1, ItemBegins
        <5>3. QED
          BY <3>1, <3>2, <5>2
      <4>7. QED
        BY <2>1, <3>6, <3>8, <4>6
    <3>9. CASE l.k = "indented" /\ p.items[s] # <<>> /\ WentOn(p, q, s, m)
      <4>1. q = [p EXCEPT !.items[s] = D!Continued(its, m)]
        BY <3>5, <3>9 DEF WentOn
      <4>2. all = D!Continued(its, n + 1)
        BY <3>2, <3>3, <3>5, <4>1 DEF Readers
      <4>3. Firsts(all) = Firsts(its) /\ Apart(all) /\ Filled(all, U) /\ TextsKept(all, U, d)
        <5>1. m \notin T /\ m \in Nat /\ its # <<>> /\ d[m].k = "indented" /\ all = D!Continued(its, m)
          BY <1>1, <2>4, <3>2, <3>5, <3>9, <4>2
        <5>2. /\ Firsts(all) = Firsts(its) /\ Apart(all)
              /\ Filled(all, T \cup {m}) /\ TextsKept(all, T \cup {m}, d)
          <6>1. its \in ItemsRead /\ Apart(its) /\ Filled(its, T) /\ TextsKept(its, T, d)
            BY <2>3, <2>5
          <6>2. QED
            BY <5>1, <6>1, ItemGoesOn
        <5>3. QED
          BY <3>1, <3>2, <5>2
      <4>4. QED
        BY <2>1, <3>6, <3>9, <4>3
    <3>10. QED
      BY <3>4, <3>7, <3>8, <3>9
  <2>8. QED
    BY <2>6, <2>7
<1>3. QED
  BY <1>2 DEF ItemsAreBullets, Firsts, Apart, Filled, TextsKept

(* What a line does to the rows: nothing, or one row of its own.           *)
LEMMA RowsStayApart ==
  ASSUME NEW l, NEW n, Reads(l, n), r'.err = "none"
  PROVE  \/ r'.rows = r.rows
         \/ /\ l.k = "row" /\ r.table = "body" /\ Belongs(r, l) /\ r.section = "milestones"
            /\ r'.rows = Append(r.rows, RowOf(l, n + 1))
            /\ \A i \in DOMAIN r.rows : r.rows[i].id # l.a
<1>1. PICK p, q, m : p = r /\ q = r' /\ m = n + 1
  OBVIOUS
<1>2. p \in Readers /\ l \in D!Lines /\ m \in Nat /\ q.err \notin Faults
  BY <1>1, ReadsIs DEF Faults
<1>3. CASE ~(Belongs(r, l) /\ r.section = "milestones")
  BY <1>3, Untouched
<1>4. CASE Belongs(r, l) /\ r.section = "milestones"
  <2>1. q = D!ReadTable(p, l, m)
    BY <1>1, <1>4, ReadsIs
  <2>2. PICK y : y = Append(p.rows, RowOf(l, m))
    OBVIOUS
  <2>3. \/ q.rows = p.rows
        \/ /\ l.k = "row" /\ p.table = "body" /\ \A i \in DOMAIN p.rows : p.rows[i].id # l.a
           /\ q = [p EXCEPT !.rows = y]
    <3>1. D!Opened(p).rows = p.rows
      BY <1>2 DEF D!Opened, Readers
    <3>2. \/ q = [p EXCEPT !.table = "outside"] \/ q = D!Opened(p) \/ q = p
               \/ q = [p EXCEPT !.table = HeaderOf(p, l)]
          \/ /\ l.k = "row" /\ p.table = "body" /\ \A i \in DOMAIN p.rows : p.rows[i].id # l.a
             /\ q = [p EXCEPT !.rows = y]
      BY <1>2, <2>1, <2>2, TableRead
    <3>3. QED
      BY <1>2, <3>1, <3>2 DEF Readers
  <2>4. QED
    BY <1>1, <1>2, <1>4, <2>2, <2>3 DEF Readers
<1>5. QED
  BY <1>3, <1>4

OneMore(had, all, k, l, m) ==
  /\ k \in Nat /\ DOMAIN had = 1..k /\ DOMAIN all = 1..(k + 1) /\ \A i \in 1..k : all[i] = had[i]
  /\ all[k + 1].id = l.a /\ all[k + 1].line = m

(* A list with one row more.                                               *)
LEMMA RowsAdd ==
  ASSUME NEW had \in RowsRead, NEW l \in D!Lines, NEW m \in Nat, NEW all, all = Append(had, RowOf(l, m))
  PROVE  \E k : OneMore(had, all, k, l, m)
<1>1. PICK row : row = RowOf(l, m)
  OBVIOUS
<1>2. row = [id |-> l.a, state |-> l.b, line |-> m]
  BY <1>1 DEF RowOf
<1>3. PICK k \in Nat : k = Len(had)
  BY DEF RowsRead
<1>4. DOMAIN had = 1..k /\ DOMAIN all = 1..(k + 1) /\ all[k + 1] = row /\ \A i \in 1..k : all[i] = had[i]
  BY <1>1, <1>3 DEF RowsRead
<1>5. OneMore(had, all, k, l, m)
  BY <1>2, <1>4 DEF OneMore
<1>6. QED
  BY <1>5

(* No two rows have one id: the second is a failure.                       *)
LEMMA RowsKeepDiffering ==
  ASSUME NEW l, NEW n, Reads(l, n), r'.err = "none", RowsDiffer
  PROVE  RowsDiffer'
<1>1. CASE r'.rows = r.rows
  BY <1>1 DEF RowsDiffer
<1>2. CASE /\ l.k = "row" /\ r'.rows = Append(r.rows, RowOf(l, n + 1))
           /\ \A i \in DOMAIN r.rows : r.rows[i].id # l.a
  <2>1. r.rows \in RowsRead /\ l \in D!Lines /\ n + 1 \in Nat
    BY ReadsIs DEF Readers
  <2>2. PICK had, all, m : had = r.rows /\ all = r'.rows /\ m = n + 1
    OBVIOUS
  <2>a. PICK k : OneMore(had, all, k, l, m)
    BY <1>2, <2>1, <2>2, RowsAdd
  <2>3. /\ k \in Nat /\ DOMAIN had = 1..k /\ DOMAIN all = 1..(k + 1) /\ \A i \in 1..k : all[i] = had[i]
        /\ all[k + 1].id = l.a
    BY <2>a DEF OneMore
  <2>4. ASSUME NEW i \in 1..(k + 1), NEW j \in 1..(k + 1), all[i].id = all[j].id PROVE i = j
    <3>1. (i \in 1..k \/ i = k + 1) /\ (j \in 1..k \/ j = k + 1)
      BY <2>3
    <3>2. \A h \in 1..k : all[h].id # all[k + 1].id
      BY <1>2, <2>2, <2>3
    <3>3. CASE i \in 1..k /\ j \in 1..k
      BY <2>2, <2>3, <2>4, <3>3 DEF RowsDiffer
    <3>4. QED
      BY <2>4, <3>1, <3>2, <3>3
  <2>5. QED
    BY <2>2, <2>3, <2>4 DEF RowsDiffer
<1>3. QED
  BY <1>1, <1>2, RowsStayApart

(* The rows' lines, with one row more.                                     *)
LEMMA LinesOfRows ==
  ASSUME NEW l, NEW n, Reads(l, n), r'.rows = Append(r.rows, RowOf(l, n + 1))
  PROVE  D!RowLines' = D!RowLines \cup {n + 1}
<1>1. r.rows \in RowsRead /\ l \in D!Lines /\ n + 1 \in Nat
  BY ReadsIs DEF Readers
<1>2. PICK had, all, m : had = r.rows /\ all = r'.rows /\ m = n + 1
  OBVIOUS
<1>3. PICK k : OneMore(had, all, k, l, m)
  BY <1>1, <1>2, RowsAdd
<1>4. /\ k \in Nat /\ DOMAIN had = 1..k /\ DOMAIN all = 1..(k + 1) /\ \A i \in 1..k : all[i] = had[i]
      /\ all[k + 1].line = m
  BY <1>3 DEF OneMore
<1>5. D!RowLines = {had[i].line : i \in 1..k} /\ D!RowLines' = {all[i].line : i \in 1..(k + 1)}
  BY <1>2, <1>4 DEF D!RowLines
<1>6. 1..(k + 1) = (1..k) \cup {k + 1}
  BY <1>4
<1>7. QED
  BY <1>2, <1>4, <1>5, <1>6

(* The rows are the lines under the first milestone table, wherever the    *)
(* scanner is.                                                             *)
LEMMA TableStands ==
  ASSUME NEW l, NEW n, Reads(l, n), r'.err = "none", TableAt
  PROVE  TableAt'
<1> DEFINE added == Belongs(r, l) /\ r.section = "milestones"
<1>1. Grown(l, n) /\ n \in Nat /\ doc'[n + 1] = l /\ \A i \in 1..n : doc'[i] = doc[i]
  BY LineIsAdded DEF Reads
<1>2. D!Milestones' = (IF added THEN D!Milestones \cup {n + 1} ELSE D!Milestones)
      /\ D!Milestones \subseteq 1..n
      /\ added \in BOOLEAN
  <2>1. added \in BOOLEAN
    BY DEF Belongs
  <2>2. QED
    BY <2>1, WhatBelongs DEF D!Milestones
<1>3. /\ D!Tops' = IF added /\ l.k = "separator" /\ HeaderLast THEN D!Tops \cup {n + 1} ELSE D!Tops
      /\ D!Tops \subseteq 1..n
      /\ \A t \in 1..n : D!Under(t)' =
           IF added /\ l.k \in InTable /\ Runs(t) THEN D!Under(t) \cup {n + 1} ELSE D!Under(t)
      /\ D!Under(n + 1)' = {}
      /\ \A t \in 1..n : D!OnItsOwn(t)' <=> D!OnItsOwn(t)
      /\ D!OnItsOwn(n + 1)' =>
           \A s \in D!Milestones : doc[s].k = "separator" =>
             \E m \in D!Milestones : s < m /\ doc[m].k \notin D!Pipes
      /\ \A t \in 1..n : Runs(t)' <=> Runs(t) /\ (added => l.k \in InTable)
      /\ Runs(n + 1)'
      /\ HeaderLast' <=> IF added THEN l.k = "header" ELSE HeaderLast
  BY <1>1, <1>2, MilestonesGrow
<1>4. r \in Readers /\ l \in D!Lines /\ r.table \in Places /\ r.seen \in BOOLEAN
  BY ReadsIs DEF Readers
(* A table that was first stays first, and none comes first after it.      *)
<1>5. \A u : FirstTop(u)' <=> u \in D!Tops' /\ D!OnItsOwn(u)' /\ \A v \in D!Tops' : u <= v
  BY DEF FirstTop
<1>6. ASSUME NEW u \in D!Tops, FirstTop(u)' PROVE FirstTop(u)
  BY <1>3, <1>5, <1>6 DEF FirstTop
<1>7. ASSUME NEW t \in D!Tops, NEW u \in D!Tops', FirstTop(u)' PROVE FirstTop(u) /\ u \in D!Tops
  <2>1. u <= t /\ t \in 1..n /\ n \in Nat
    BY <1>1, <1>3, <1>5, <1>7
  <2>2. u # n + 1
    BY <2>1
  <2>3. u \in D!Tops
    BY <1>3, <2>2
  <2>4. QED
    BY <1>6, <1>7, <2>3
(* The table that was read goes on or is over.                             *)
<1>8. ASSUME r.seen, NEW t \in D!Tops, RowsInTable(t), r'.seen,
             \/ r'.rows = r.rows /\ ~(added /\ l.k \in InTable /\ Runs(t))
             \/ r'.rows = Append(r.rows, RowOf(l, n + 1)) /\ added /\ l.k \in InTable /\ Runs(t),
             Runs(t) /\ (added => l.k \in InTable) <=> r'.table = "body"
      PROVE  \E t2 \in D!Tops' : RowsInTable(t2)'
  <2>1. t \in 1..n /\ t \in D!Tops'
    BY <1>3
  <2>2. D!RowLines = D!Under(t) /\ \A u \in D!Tops : FirstTop(u) => u = t
    BY <1>8 DEF RowsInTable
  <2>3. D!RowLines' = D!Under(t)'
    <3>1. CASE r'.rows = r.rows /\ ~(added /\ l.k \in InTable /\ Runs(t))
      <4>1. D!RowLines' = D!RowLines
        BY <3>1 DEF D!RowLines
      <4>2. D!Under(t)' = D!Under(t)
        BY <1>3, <2>1, <3>1
      <4>3. QED
        BY <2>2, <4>1, <4>2
    <3>2. CASE r'.rows = Append(r.rows, RowOf(l, n + 1)) /\ added /\ l.k \in InTable /\ Runs(t)
      <4>1. D!RowLines' = D!RowLines \cup {n + 1}
        BY <3>2, LinesOfRows
      <4>2. D!Under(t)' = D!Under(t) \cup {n + 1}
        BY <1>3, <2>1, <3>2
      <4>3. QED
        BY <2>2, <4>1, <4>2
    <3>3. QED
      BY <1>8, <3>1, <3>2
  <2>4. Runs(t)' <=> r'.table = "body"
    BY <1>3, <1>8, <2>1
  <2>5. \A u \in D!Tops' : FirstTop(u)' => u = t
    BY <1>7, <2>2
  <2>6. RowsInTable(t)'
    BY <2>3, <2>4, <2>5 DEF RowsInTable
  <2>7. QED
    BY <2>1, <2>6
<1>9. CASE ~added
  <2>1. r'.rows = r.rows /\ r'.table = r.table /\ r'.seen = r.seen
    BY <1>9, Untouched
  <2>2. D!Tops' = D!Tops /\ (HeaderLast' <=> HeaderLast) /\ \A t \in D!Tops' : FirstTop(t)' => FirstTop(t)
    BY <1>3, <1>6, <1>9
  <2>3. r'.table = "milestone header" => HeaderLast' /\ ~r'.seen
    BY <2>1, <2>2 DEF TableAt
  <2>4. HeaderLast' => r'.table \in {"milestone header", "other", "body"} \/ r'.seen
    BY <2>1, <2>2 DEF TableAt
  <2>5. r'.table = "other" => \E s \in D!Milestones' : doc'[s].k = "separator" /\ Runs(s)'
    <3>1. ASSUME NEW s \in D!Milestones, doc[s].k = "separator", Runs(s)
          PROVE s \in D!Milestones' /\ doc'[s].k = "separator" /\ Runs(s)'
      <4>1. s \in 1..n
        BY <1>2
      <4>2. QED
        BY <1>1, <1>2, <1>3, <1>9, <3>1, <4>1
    <3>2. QED
      BY <2>1, <3>1 DEF TableAt
  <2>6. r'.table = "body" => r'.seen
    BY <2>1 DEF TableAt
  <2>7. ~r'.seen => r'.rows = <<>> /\ \A t \in D!Tops' : ~FirstTop(t)'
    BY <2>1, <2>2 DEF TableAt
  <2>8. r'.seen => \E t \in D!Tops' : RowsInTable(t)'
    <3>1. ASSUME r.seen PROVE \E t \in D!Tops' : RowsInTable(t)'
      <4>1. PICK t \in D!Tops : RowsInTable(t)
        BY <3>1 DEF TableAt
      <4>2. Runs(t) <=> r'.table = "body"
        BY <2>1, <4>1 DEF RowsInTable
      <4>3. QED
        BY <1>8, <1>9, <2>1, <3>1, <4>1, <4>2
    <3>2. QED
      BY <2>1, <3>1
  <2>9. QED
    BY <2>3, <2>4, <2>5, <2>6, <2>7, <2>8 DEF TableAt
<1>10. CASE added
  <2>1. PICK p, q, m : p = r /\ q = r' /\ m = n + 1
    OBVIOUS
  <2>2. p \in Readers /\ m \in Nat /\ q = D!ReadTable(p, l, m) /\ q.err \notin Faults
    BY <1>10, <2>1, ReadsIs DEF Faults
  <2>3. \/ l.k \notin D!Pipes /\ q = [p EXCEPT !.table = "outside"]
        \/ l.k = "separator" /\ q = D!Opened(p)
        \/ l.k \in InTable /\ p.table = "other" /\ q = p
        \/ l.k = "row" /\ p.table = "body" /\ q = [p EXCEPT !.rows = Append(p.rows, RowOf(l, m))]
        \/ l.k \in InTable /\ p.table \notin {"other", "body"} /\ q = [p EXCEPT !.table = HeaderOf(p, l)]
    BY <1>4, <2>2, TableRead DEF InTable
  <2>4. n + 1 \in D!Milestones' /\ \A s \in D!Milestones : s \in D!Milestones' /\ s \in 1..n
          /\ doc'[s] = doc[s]
    BY <1>1, <1>2, <1>10
  <2>5. "separator" \in D!Pipes /\ "header" \in InTable /\ "row" \in InTable /\ "separator" \notin InTable
        /\ InTable \subseteq D!Pipes
    BY DEF D!Pipes, InTable
  (* Lines that open nothing.                                              *)
  <2>6. ASSUME ~(l.k = "separator" /\ HeaderLast)
        PROVE  D!Tops' = D!Tops /\ \A t \in D!Tops' : FirstTop(t)' => FirstTop(t)
    BY <1>3, <1>6, <2>6
  <2>7. CASE l.k \notin D!Pipes /\ q = [p EXCEPT !.table = "outside"]
    <3>1. r'.rows = r.rows /\ r'.table = "outside" /\ r'.seen = r.seen
      BY <2>1, <2>2, <2>7 DEF Readers
    <3>2. ~HeaderLast' /\ l.k # "separator" /\ l.k \notin InTable
      BY <1>3, <1>10, <2>5, <2>7
    <3>3. r'.seen => \E t \in D!Tops' : RowsInTable(t)'
      <4>1. ASSUME r.seen PROVE \E t \in D!Tops' : RowsInTable(t)'
        <5>1. PICK t \in D!Tops : RowsInTable(t)
          BY <4>1 DEF TableAt
        <5>2. QED
          BY <1>8, <1>10, <3>1, <3>2, <4>1, <5>1
      <4>2. QED
        BY <3>1, <4>1
    <3>4. ~r'.seen => r'.rows = <<>> /\ \A t \in D!Tops' : ~FirstTop(t)'
      BY <2>6, <3>1, <3>2 DEF TableAt
    <3>5. QED
      BY <3>1, <3>2, <3>3, <3>4 DEF TableAt
  <2>8. CASE l.k = "separator" /\ q = D!Opened(p) /\ p.table = "milestone header"
    <3>1. r'.rows = r.rows /\ r'.table = "body" /\ r'.seen
      BY <2>1, <2>2, <2>8 DEF Readers, D!Opened
    <3>2. HeaderLast /\ ~r.seen /\ r.rows = <<>> /\ \A t \in D!Tops : ~FirstTop(t)
      BY <2>1, <2>8 DEF TableAt
    <3>3. ~HeaderLast' /\ n + 1 \in D!Tops' /\ D!Tops' = D!Tops \cup {n + 1}
      BY <1>3, <1>10, <2>8, <3>2
    <3>4. RowsInTable(n + 1)'
      <4>1. D!RowLines' = {}
        BY <3>1, <3>2 DEF D!RowLines
      <4>2. \A u \in D!Tops' : FirstTop(u)' => u = n + 1
        BY <1>6, <3>2, <3>3
      <4>3. PICK t : t = n + 1
        OBVIOUS
      <4>4. RowsInTable(t)'
        BY <1>3, <3>1, <4>1, <4>2, <4>3 DEF RowsInTable
      <4>5. QED
        BY <4>3, <4>4
    <3>5. PICK t : t = n + 1
      OBVIOUS
    <3>6. \E t2 \in D!Tops' : RowsInTable(t2)'
      BY <3>3, <3>4
    <3>7. QED
      BY <3>1, <3>3, <3>6 DEF TableAt
  <2>9. CASE l.k = "separator" /\ q = D!Opened(p) /\ p.table # "milestone header"
    <3>1. r'.rows = r.rows /\ r'.seen = r.seen /\ r'.table \in {"other", "outside"}
      <4>1. q = [p EXCEPT !.table = "other"] \/ q = [p EXCEPT !.table = "outside"]
        BY <2>9 DEF D!Opened
      <4>2. p = [err |-> p.err, section |-> p.section, fence |-> p.fence, table |-> p.table, seen |-> p.seen,
                 field |-> p.field, rows |-> p.rows, items |-> p.items]
        BY <2>2 DEF Readers
      <4>3. QED
        BY <2>1, <4>1, <4>2
    <3>2. ~HeaderLast' /\ l.k \notin InTable
      BY <1>3, <1>10, <2>5, <2>9
    <3>3. r'.table = "other" => \E s \in D!Milestones' : doc'[s].k = "separator" /\ Runs(s)'
      BY <1>1, <1>3, <2>4, <2>9
    <3>4. r'.seen => \E t \in D!Tops' : RowsInTable(t)'
      <4>1. ASSUME r.seen PROVE \E t \in D!Tops' : RowsInTable(t)'
        <5>1. PICK t \in D!Tops : RowsInTable(t)
          BY <4>1 DEF TableAt
        <5>2. QED
          BY <1>8, <1>10, <3>1, <3>2, <4>1, <5>1
      <4>2. QED
        BY <3>1, <4>1
    <3>5. ~r'.seen => r'.rows = <<>> /\ \A t \in D!Tops' : ~FirstTop(t)'
      <4>1. ASSUME ~r.seen, NEW t \in D!Tops', FirstTop(t)' PROVE FALSE
        <5>1. \A u \in D!Tops : ~FirstTop(u)
          BY <4>1 DEF TableAt
        <5>2. t \notin D!Tops
          BY <1>6, <4>1, <5>1
        <5>3. t = n + 1 /\ HeaderLast
          BY <1>3, <5>2
        <5>4. r.table = "other"
          BY <2>1, <2>9, <4>1, <5>3 DEF TableAt
        <5>5. PICK s \in D!Milestones : doc[s].k = "separator" /\ Runs(s)
          BY <5>4 DEF TableAt
        <5>6. D!OnItsOwn(n + 1)'
          BY <1>5, <4>1, <5>3
        <5>7. PICK i \in D!Milestones : s < i /\ doc[i].k \notin D!Pipes
          BY <1>3, <5>5, <5>6
        <5>8. QED
          BY <2>5, <5>5, <5>7 DEF Runs
      <4>2. QED
        BY <3>1, <4>1 DEF TableAt
    <3>6. QED
      BY <3>1, <3>2, <3>3, <3>4, <3>5 DEF TableAt
  <2>10. CASE l.k \in InTable /\ p.table = "other" /\ q = p
    <3>1. r' = r /\ r.table = "other" /\ l.k # "separator"
      BY <2>1, <2>5, <2>10
    <3>2. \E s \in D!Milestones' : doc'[s].k = "separator" /\ Runs(s)'
      <4>1. PICK s \in D!Milestones : doc[s].k = "separator" /\ Runs(s)
        BY <3>1 DEF TableAt
      <4>2. QED
        BY <1>3, <2>4, <2>10, <4>1
    <3>3. r.seen => \E t \in D!Tops' : RowsInTable(t)'
      <4>1. ASSUME r.seen PROVE \E t \in D!Tops' : RowsInTable(t)'
        <5>1. PICK t \in D!Tops : RowsInTable(t)
          BY <4>1 DEF TableAt
        <5>2. ~Runs(t)
          BY <3>1, <5>1 DEF RowsInTable
        <5>3. QED
          BY <1>8, <3>1, <4>1, <5>1, <5>2
      <4>2. QED
        BY <4>1
    <3>4. ~r.seen => r.rows = <<>> /\ \A t \in D!Tops' : ~FirstTop(t)'
      BY <2>6, <3>1 DEF TableAt
    <3>5. QED
      BY <3>1, <3>2, <3>3, <3>4 DEF TableAt
  <2>11. CASE l.k = "row" /\ p.table = "body" /\ q = [p EXCEPT !.rows = Append(p.rows, RowOf(l, m))]
    <3>1. r'.rows = Append(r.rows, RowOf(l, n + 1)) /\ r'.table = "body" /\ r'.seen = r.seen
            /\ r.table = "body" /\ r.seen
      BY <2>1, <2>2, <2>11 DEF Readers, TableAt
    <3>2. PICK t \in D!Tops : RowsInTable(t)
      BY <3>1 DEF TableAt
    <3>3. Runs(t) /\ l.k \in InTable
      BY <2>5, <2>11, <3>1, <3>2 DEF RowsInTable
    <3>4. \E t2 \in D!Tops' : RowsInTable(t2)'
      BY <1>8, <1>10, <3>1, <3>2, <3>3
    <3>5. QED
      BY <3>1, <3>4 DEF TableAt
  <2>12. CASE l.k \in InTable /\ p.table \notin {"other", "body"} /\ q = [p EXCEPT !.table = HeaderOf(p, l)]
    <3>1. r'.rows = r.rows /\ r'.seen = r.seen /\ r'.table = HeaderOf(r, l) /\ r.table # "body"
            /\ l.k # "separator"
      BY <2>1, <2>2, <2>5, <2>12 DEF Readers
    <3>2. HeaderLast' <=> l.k = "header"
      BY <1>3, <1>10
    <3>3. r'.table = (IF l.k = "header" /\ ~r.seen THEN "milestone header" ELSE "other header")
      BY <3>1 DEF HeaderOf
    <3>4. r.seen => \E t \in D!Tops' : RowsInTable(t)'
      <4>1. ASSUME r.seen PROVE \E t \in D!Tops' : RowsInTable(t)'
        <5>1. PICK t \in D!Tops : RowsInTable(t)
          BY <4>1 DEF TableAt
        <5>2. ~Runs(t) /\ r'.table # "body"
          BY <3>1, <3>3, <5>1 DEF RowsInTable
        <5>3. QED
          BY <1>8, <3>1, <4>1, <5>1, <5>2
      <4>2. QED
        BY <4>1
    <3>5. ~r.seen => r.rows = <<>> /\ \A t \in D!Tops' : ~FirstTop(t)'
      BY <2>6, <3>1 DEF TableAt
    <3>6. QED
      BY <3>1, <3>2, <3>3, <3>4, <3>5 DEF TableAt
  <2>13. QED
    BY <2>3, <2>7, <2>8, <2>9, <2>10, <2>11, <2>12
<1>11. QED
  BY <1>9, <1>10

---------------------------------------------------------------------------
(* An empty document.                                                      *)
LEMMA DocumentStarts ==
  ASSUME D!DocumentConstants, D!Init
  PROVE  DocumentInductive
<1>1. doc = <<>> /\ r = D!Fresh /\ DOMAIN doc = {}
  BY DEF D!Init
<1>2. doc \in Seq(D!Lines) /\ Len(doc) = 0
  BY <1>1
<1>3. /\ r.err = "none" /\ r.section = "preamble" /\ r.fence = FALSE /\ r.table = "outside"
           /\ r.seen = FALSE
      /\ r.field = [k \in D!Keys |-> D!Unset] /\ r.rows = <<>> /\ r.items = [s \in D!Lists |-> <<>>]
  BY <1>1 DEF D!Fresh
<1>4. r \in Readers
  <2>1. "preamble" \in D!Sections /\ "outside" \in Places /\ <<>> \in RowsRead /\ <<>> \in ItemsRead
    <3>1. ASSUME NEW S PROVE <<>> \in Seq(S)
      OBVIOUS
    <3>2. <<>> \in RowsRead /\ <<>> \in ItemsRead
      BY <3>1 DEF RowsRead, ItemsRead
    <3>3. "preamble" \in D!Sections /\ "outside" \in Places
      BY DEF D!Sections, Places
    <3>4. QED
      BY <3>2, <3>3
  <2>2. [k \in D!Keys |-> D!Unset] \in [D!Keys -> STRING \cup {D!Unset}]
          /\ [s \in D!Lists |-> <<>>] \in [D!Lists -> ItemsRead]
    BY <2>1
  <2>3. QED
    BY <1>1, <2>1, <2>2 DEF D!Fresh, Readers
<1>5. D!Heads = {} /\ \A s : D!Text(s) = {}
  BY <1>1 DEF D!Heads, D!Text
<1>6. Scanned
  <2>1. D!Fences(1) = {} /\ Open(1)
    <3>1. D!Fences(1) = {}
      BY DEF D!Fences
    <3>2. QED
      BY <3>1, FS_EmptySet DEF Open
  <2>2. D!SectionAt(1) = "preamble"
    BY <1>5 DEF D!SectionAt
  <2>3. QED
    BY <1>2, <1>3, <2>1, <2>2 DEF Scanned
<1>7. TableAt
  <2>1. D!Milestones = {} /\ D!Tops = {}
    BY <1>5 DEF D!Milestones, D!Tops
  <2>2. QED
    BY <1>3, <2>1 DEF TableAt, HeaderLast
<1>8. RowsDiffer
  BY <1>3 DEF RowsDiffer
<1>9. FieldsAreSaid
  BY <1>3, <1>5 DEF FieldsAreSaid, Said
<1>10. ItemsAreBullets
  <2>1. \A s \in D!Lists : r.items[s] = <<>> /\ DOMAIN r.items[s] = {}
    BY <1>3
  <2>2. QED
    BY <1>5, <2>1 DEF ItemsAreBullets, Firsts, Apart, Filled, TextsKept
<1>11. QED
  BY <1>2, <1>4, <1>6, <1>7, <1>8, <1>9, <1>10 DEF DocumentInductive

(* A line more, or none.                                                   *)
LEMMA DocumentStands ==
  ASSUME D!DocumentConstants, DocumentInductive, [D!Next]_D!vars
  PROVE  DocumentInductive'
<1>1. CASE UNCHANGED D!vars
  <2>1. topic' = topic /\ doc' = doc /\ r' = r
    BY <1>1 DEF D!vars
  <2>2. QED
    <3>1. /\ \A i : (Open(i)' <=> Open(i)) /\ (D!Visible(i)' <=> D!Visible(i))
          /\ D!Heads' = D!Heads
      BY <2>1, SameCount DEF Open, D!Visible, D!Fences, D!Heads
    <3>2. \A i : D!SectionAt(i)' = D!SectionAt(i)
      BY <2>1, <3>1 DEF D!SectionAt
    <3>3. \A s : D!Text(s)' = D!Text(s)
      BY <2>1, <3>1, <3>2 DEF D!Text
    <3>4. D!Milestones' = D!Milestones /\ \A i, j : D!Between(i, j)' = D!Between(i, j)
      BY <3>3 DEF D!Milestones, D!Between
    <3>5. /\ D!Tops' = D!Tops /\ (HeaderLast' <=> HeaderLast) /\ D!RowLines' = D!RowLines
          /\ \A t : D!Under(t)' = D!Under(t) /\ (D!OnItsOwn(t)' <=> D!OnItsOwn(t)) /\ (Runs(t)' <=> Runs(t))
      BY <2>1, <3>4 DEF D!Tops, HeaderLast, D!RowLines, D!Under, D!OnItsOwn, Runs
    <3>6. \A t : FirstTop(t)' <=> FirstTop(t)
      BY <3>5 DEF FirstTop
    <3>7. Scanned => Scanned'
      BY <2>1, <3>1, <3>2 DEF Scanned
    <3>8. TableAt => TableAt'
      <4>1. \A t : RowsInTable(t) => RowsInTable(t)'
        BY <2>1, <3>5, <3>6 DEF RowsInTable
      <4>2. QED
        BY <2>1, <3>4, <3>5, <3>6, <4>1 DEF TableAt
    <3>9. RowsDiffer => RowsDiffer'
      BY <2>1 DEF RowsDiffer
    <3>10. FieldsAreSaid => FieldsAreSaid'
      <4>1. \A k : Said(k)' = Said(k)
        BY <2>1, <3>3 DEF Said
      <4>2. QED
        BY <2>1, <4>1 DEF FieldsAreSaid
    <3>11. ItemsAreBullets => ItemsAreBullets'
      BY <2>1, <3>3 DEF ItemsAreBullets, Firsts, Apart, Filled, TextsKept
    <3>12. QED
      BY <2>1, <3>7, <3>8, <3>9, <3>10, <3>11 DEF DocumentInductive
<1>2. CASE D!Next
  <2>1. PICK l \in Scripts[topic][Len(doc) + 1] : D!Write(l)
    BY <1>2 DEF D!Next
  <2>2. l \in D!Lines
    <3>1. Scripts[topic] \in Seq(SUBSET D!Lines) /\ Len(doc) < Len(Scripts[topic]) /\ Len(doc) \in Nat
      BY <1>2 DEF D!Next, D!DocumentConstants, DocumentInductive
    <3>2. Len(doc) + 1 \in DOMAIN Scripts[topic]
      BY <3>1
    <3>3. Scripts[topic][Len(doc) + 1] \in SUBSET D!Lines
      BY <3>1, <3>2
    <3>4. QED
      BY <2>1, <3>3
  <2>3. PICK n : n = Len(doc)
    OBVIOUS
  <2>4. Grown(l, n) /\ r' = D!Read(r, l, n + 1) /\ r \in Readers
    BY <2>1, <2>2, <2>3 DEF D!Write, Grown, DocumentInductive
  <2>5. doc' \in Seq(D!Lines) /\ n \in Nat
    BY <2>4, LineIsAdded
  <2>6. CASE r.err # "none"
    <3>1. r' = r
      BY <2>2, <2>4, <2>5, <2>6, ReaderHolds
    <3>2. QED
      BY <2>4, <2>5, <2>6, <3>1 DEF DocumentInductive
  <2>7. CASE r.err = "none"
    <3>1. Reads(l, n) /\ Scanned /\ TableAt /\ RowsDiffer /\ FieldsAreSaid /\ ItemsAreBullets
      BY <2>4, <2>7 DEF Reads, DocumentInductive
    <3>2. r' \in Readers
      BY <3>1, ReadsIs
    <3>3. ASSUME r'.err = "none"
          PROVE  Scanned' /\ TableAt' /\ RowsDiffer' /\ FieldsAreSaid' /\ ItemsAreBullets'
      BY <3>1, <3>3, ScannerMoves, TableStands, RowsKeepDiffering, FieldsStaySaid, ItemsStayBullets
    <3>4. QED
      BY <2>5, <3>2, <3>3 DEF DocumentInductive
  <2>8. QED
    BY <2>6, <2>7
<1>3. QED
  BY <1>1, <1>2

(* status_block.rs parse, line by line: the scanner is where fences and    *)
(* headings say (Scanned), the rows are the lines under the one milestone  *)
(* table there can be (TableAt), of different ids, a field has its only    *)
(* line's value, and a list's items are its bullets.  That the table is    *)
(* the first one is known only because a header is the milestone table's   *)
(* until a body was opened, and HeaderLast says when the scanner saw it.   *)
THEOREM DocumentStaysInductive ==
  ASSUME D!DocumentConstants
  PROVE  D!Spec => []DocumentInductive
<1>1. D!Init => DocumentInductive
  BY DocumentStarts
<1>2. DocumentInductive /\ [D!Next]_D!vars => DocumentInductive'
  BY DocumentStands
<1>3. QED
  BY <1>1, <1>2, PTL DEF D!Spec

(* What the invariant says of a document read without a failure.           *)
LEMMA InductiveReads ==
  ASSUME DocumentInductive
  PROVE  D!ReadsWhatIsThere
<1>1. SUFFICES ASSUME r.err = "none" PROVE D!ReadsWhatIsThere
  BY DEF D!ReadsWhatIsThere
<1>2. TableAt /\ FieldsAreSaid /\ ItemsAreBullets
  BY <1>1 DEF DocumentInductive
<1>3. D!RowLines = {} \/ \E t \in D!Tops : D!RowLines \subseteq D!Under(t)
  <2>1. CASE r.seen
    BY <1>2, <2>1 DEF TableAt, RowsInTable
  <2>2. CASE ~r.seen
    <3>1. r.rows = <<>>
      BY <1>2, <2>2 DEF TableAt
    <3>2. DOMAIN r.rows = {}
      BY <3>1
    <3>3. QED
      BY <3>2 DEF D!RowLines
  <2>3. QED
    BY <2>1, <2>2
<1>4. ASSUME NEW t \in D!Tops, D!OnItsOwn(t), \A u \in D!Tops : t <= u PROVE D!RowLines = D!Under(t)
  <2>1. FirstTop(t)
    BY <1>4 DEF FirstTop
  <2>2. r.seen
    BY <1>2, <2>1 DEF TableAt
  <2>3. PICK u \in D!Tops : RowsInTable(u)
    BY <1>2, <2>2 DEF TableAt
  <2>4. QED
    BY <2>1, <2>3 DEF RowsInTable
<1>5. QED
  BY <1>2, <1>3, <1>4
     DEF D!ReadsWhatIsThere, FieldsAreSaid, Said, ItemsAreBullets, Firsts, Apart, Filled, TextsKept

(* And of one that is accepted.                                            *)
LEMMA AcceptedSays ==
  ASSUME D!DocumentConstants, DocumentInductive
  PROVE  D!AcceptedIsWhole
<1>1. SUFFICES ASSUME D!Answer(r) = "ok"
               PROVE  /\ \A k \in Required : \E i \in DOMAIN doc : doc[i].k = "field" /\ doc[i].a = k
                           /\ doc[i].b = r.field[k]
                      /\ \A i, j \in DOMAIN r.rows : r.rows[i].id = r.rows[j].id => i = j
                      /\ r.field["status"] \in {"implementing", "done"} => r.rows # <<>>
                      /\ r.rows # <<>> => r.field["current"] = "none" \/ D!Known(r, r.field["current"])
                      /\ D!Focus(r) = 0 => \A i \in DOMAIN r.rows : r.rows[i].state = "done"
                      /\ D!Focus(r) # 0 => D!Focus(r) \in DOMAIN r.rows /\ r.rows[D!Focus(r)].state # "done"
  BY DEF D!AcceptedIsWhole
<1>2. r.err = "none"
  BY <1>1 DEF D!Answer, DocumentInductive, Readers, Faults
<1>3. /\ \A k \in Required : r.field[k] # D!Unset
      /\ ~(r.rows = <<>> /\ r.field["status"] \in {"implementing", "done"})
      /\ ~(r.field["current"] # "none" /\ r.rows # <<>> /\ ~D!Known(r, r.field["current"]))
  BY <1>1, <1>2 DEF D!Answer
<1>4. FieldsAreSaid /\ RowsDiffer /\ r.rows \in RowsRead
  BY <1>2 DEF DocumentInductive, Readers
<1>5. ASSUME NEW k \in Required
      PROVE \E i \in DOMAIN doc : doc[i].k = "field" /\ doc[i].a = k /\ doc[i].b = r.field[k]
  <2>1. k \in D!Keys
    BY DEF D!Keys
  <2>2. PICK i \in Said(k) : r.field[k] = doc[i].b
    BY <1>3, <1>4, <2>1 DEF FieldsAreSaid
  <2>3. i \in DOMAIN doc /\ doc[i].k = "field" /\ doc[i].a = k
    BY DEF Said, D!Text
  <2>4. QED
    BY <2>2, <2>3
<1>6. \A i, j \in DOMAIN r.rows : r.rows[i].id = r.rows[j].id => i = j
  BY <1>4 DEF RowsDiffer
<1>7. DOMAIN r.rows \subseteq Nat /\ 0 \notin DOMAIN r.rows
      /\ \A i \in DOMAIN r.rows : r.rows[i].state \in D!States
  <2>1. PICK had, R : had = r.rows /\ R = [id : STRING, state : D!States, line : Nat]
    OBVIOUS
  <2>2. had \in Seq(R)
    BY <1>4, <2>1 DEF RowsRead
  <2>3. DOMAIN had \subseteq Nat /\ 0 \notin DOMAIN had /\ \A i \in DOMAIN had : had[i] \in R
    BY <2>2
  <2>4. QED
    BY <2>1, <2>3
<1>8. ASSUME NEW states
      PROVE  LET of == {i \in DOMAIN r.rows : r.rows[i].state \in states}
             IN  IF of = {} THEN D!First(r, states) = 0 ELSE D!First(r, states) \in of
  <2> DEFINE of == {i \in DOMAIN r.rows : r.rows[i].state \in states}
  <2>1. D!First(r, states) = IF of = {} THEN 0 ELSE CHOOSE i \in of : \A j \in of : i <= j
    BY DEF D!First
  <2>2. ASSUME of # {} PROVE \E i \in of : \A j \in of : i <= j
    <3>1. of \subseteq Nat
      BY <1>7
    <3> HIDE DEF of
    <3>2. QED
      BY <2>2, <3>1, LeastNumber
  <2> HIDE DEF of
  <2>3. IF of = {} THEN D!First(r, states) = 0 ELSE D!First(r, states) \in of
    BY <2>1, <2>2
  <2>4. QED
    BY <2>3 DEF of
<1>9. PICK named : named = {i \in DOMAIN r.rows : r.rows[i].id = r.field["current"]
             /\ r.rows[i].state # "done"}
  OBVIOUS
<1>10. D!Focus(r) = IF named # {} THEN CHOOSE i \in named : TRUE
                  ELSE IF D!First(r, {"open"}) # 0 THEN D!First(r, {"open"}) ELSE D!First(r, {"pending"})
  BY <1>9 DEF D!Focus
<1>11. D!First(r, {"open"}) = 0 \/ (D!First(r, {"open"}) \in DOMAIN r.rows
         /\ r.rows[D!First(r, {"open"})].state = "open")
  BY <1>8
<1>12. D!First(r, {"pending"}) = 0 \/ (D!First(r, {"pending"}) \in DOMAIN r.rows
         /\ r.rows[D!First(r, {"pending"})].state = "pending")
  BY <1>8
<1>13. CASE named # {}
  <2>1. D!Focus(r) \in named
    BY <1>10, <1>13
  <2>2. QED
    BY <1>3, <1>5, <1>6, <1>7, <1>9, <2>1
<1>14. CASE named = {} /\ D!First(r, {"open"}) # 0
  BY <1>3, <1>5, <1>6, <1>10, <1>11, <1>14
<1>15. CASE named = {} /\ D!First(r, {"open"}) = 0
  <2>1. D!Focus(r) = D!First(r, {"pending"})
    BY <1>10, <1>15
  <2>2. D!Focus(r) = 0 => \A i \in DOMAIN r.rows : r.rows[i].state = "done"
    <3>1. ASSUME D!Focus(r) = 0, NEW i \in DOMAIN r.rows PROVE r.rows[i].state = "done"
      <4>1. r.rows[i].state # "open"
        BY <1>7, <1>8, <1>15
      <4>2. r.rows[i].state # "pending"
        BY <1>7, <1>8, <2>1, <3>1
      <4>3. QED
        BY <1>7, <4>1, <4>2 DEF D!States
    <3>2. QED
      BY <3>1
  <2>3. QED
    BY <1>3, <1>5, <1>6, <1>12, <2>1, <2>2
<1>16. QED
  BY <1>13, <1>14, <1>15

(* Of every document, whatever its lines and however many, parse either    *)
(* fails or finds what is there and nothing else, whatever prose with      *)
(* pipes, other tables and code blocks stand around it; what it accepts    *)
(* has its required fields, milestones of different ids, work in it once   *)
(* it is past its design and a current milestone that is one of them, and  *)
(* brief.rs focus names work that is not done as long as there is any.     *)
THEOREM DocumentsAreRead ==
  ASSUME D!DocumentConstants
  PROVE  D!Spec => [](D!ReadsWhatIsThere /\ D!AcceptedIsWhole)
<1>1. DocumentInductive => D!ReadsWhatIsThere /\ D!AcceptedIsWhole
  BY InductiveReads, AcceptedSays
<1>2. QED
  BY <1>1, DocumentStaysInductive, PTL

---------------------------------------------------------------------------
(* The brief of a round, from what the rounds before it left.              *)

CONSTANTS Topics, Ids, Inside, RoundsEach, None

R == INSTANCE Briefing WITH MaxRounds <- RoundsEach

(* What rounds leave, and the brief of the one under way: it is what the   *)
(* document and the evidence of now give.                                  *)
TheIds  == R!ToSet(Ids)
TheRoles == {"impl", "audit"}

RoundsLeft ==
  [readable : BOOLEAN, table : [TheIds -> R!States], current : TheIds \cup {None},
   evidence : SUBSET [of : TheIds, round : 0..RoundsEach, role : TheRoles],
   audit : Seq(SUBSET TheIds), rounds : [TheRoles -> 0..RoundsEach]]

BriefOf(d, b) ==
  /\ b.role \in TheRoles /\ b.about = R!Focus(d)
  /\ b.words = R!Counterpart(d, b.role).words /\ b.file = R!Counterpart(d, b.role).file

BriefInductive == doc \in RoundsLeft /\ (r = R!NoBrief \/ BriefOf(doc, r))

(* The first row of a state is there when there is a row of it.            *)
LEMMA FirstIs ==
  ASSUME R!BriefingConstants, NEW d \in RoundsLeft, NEW st
  PROVE  IF \E id \in TheIds : d.table[id] = st
         THEN R!FirstIn(d, st) \in TheIds /\ d.table[R!FirstIn(d, st)] = st
         ELSE R!FirstIn(d, st) = None
<1> DEFINE of == {i \in DOMAIN Ids : d.table[Ids[i]] = st}
<1>1. /\ Len(Ids) \in Nat /\ DOMAIN Ids = 1..Len(Ids)
      /\ TheIds = {Ids[i] : i \in 1..Len(Ids)}
  BY DEF R!BriefingConstants, TheIds, R!ToSet
<1>2. R!FirstIn(d, st) = IF of = {} THEN None ELSE Ids[R!Min(of)]
  BY DEF R!FirstIn
<1>3. of # {} <=> \E id \in TheIds : d.table[id] = st
  BY <1>1
<1>4. ASSUME of # {} PROVE R!Min(of) \in of
  <2>1. of \subseteq Nat
    BY <1>1
  <2> HIDE DEF of
  <2>2. \E m \in of : \A n \in of : m <= n
    BY <1>4, <2>1, LeastNumber
  <2>3. QED
    BY <2>2 DEF R!Min
<1>5. ASSUME of # {} PROVE Ids[R!Min(of)] \in TheIds /\ d.table[Ids[R!Min(of)]] = st
  <2>1. PICK m \in of : m = R!Min(of)
    BY <1>4, <1>5
  <2>2. m \in 1..Len(Ids) /\ d.table[Ids[m]] = st
    BY <1>1
  <2>3. QED
    BY <1>1, <2>1, <2>2
<1> HIDE DEF of
<1>6. QED
  BY <1>2, <1>3, <1>5

(* The focus is unfinished, and there is one while anything is.            *)
LEMMA FocusIs ==
  ASSUME R!BriefingConstants, NEW d \in RoundsLeft
  PROVE  /\ R!Focus(d) # None <=> d.readable /\ \E id \in TheIds : d.table[id] # "Done"
         /\ R!Focus(d) # None => R!Focus(d) \in TheIds /\ d.table[R!Focus(d)] # "Done"
<1>1. None \notin TheIds /\ d.current \in TheIds \cup {None}
      /\ \A id \in TheIds : d.table[id] \in {"Open", "Pending", "Done"}
  BY DEF R!BriefingConstants, RoundsLeft, R!States, TheIds
<1>2. CASE ~d.readable
  BY <1>2 DEF R!Focus
<1>3. CASE d.readable /\ d.current # None /\ d.table[d.current] # "Done"
  BY <1>1, <1>3 DEF R!Focus
<1>4. CASE d.readable /\ ~(d.current # None /\ d.table[d.current] # "Done")
  <2>1. R!Focus(d) = IF R!FirstIn(d, "Open") # None THEN R!FirstIn(d, "Open") ELSE R!FirstIn(d, "Pending")
    BY <1>4 DEF R!Focus
  <2>2. PICK a, b : a = R!FirstIn(d, "Open") /\ b = R!FirstIn(d, "Pending")
    OBVIOUS
  <2>3. IF \E id \in TheIds : d.table[id] = "Open" THEN a \in TheIds /\ d.table[a] = "Open" ELSE a = None
    BY <2>2, FirstIs
  <2>4. IF \E id \in TheIds : d.table[id] = "Pending" THEN b \in TheIds /\ d.table[b] = "Pending" ELSE b = None
    BY <2>2, FirstIs
  <2>5. QED
    BY <1>1, <1>4, <2>1, <2>2, <2>3, <2>4
<1>5. QED
  BY <1>2, <1>3, <1>4

(* Of the evidence there is of a milestone the latest is given.            *)
LEMMA LatestIs ==
  ASSUME R!BriefingConstants, NEW d \in RoundsLeft, NEW id, NEW role,
         NEW f \in d.evidence, f.of = id, f.role = role
  PROVE  \E g \in R!LatestEvidence(d, id, role) : g.of = id /\ g.role = role /\ g.round >= f.round
<1> DEFINE of == {e \in d.evidence : e.of = id /\ e.role = role}
           T == {RoundsEach - e.round : e \in of}
<1>1. RoundsEach \in Nat /\ \A e \in d.evidence : e.round \in 0..RoundsEach
  BY DEF R!BriefingConstants, RoundsLeft
<1>2. f \in of
  OBVIOUS
<1>3. T \subseteq Nat /\ T # {}
  BY <1>1, <1>2
<1>4. PICK m \in T : \A n \in T : m <= n
  <2> HIDE DEF T
  <2>1. QED
    BY <1>3, LeastNumber
<1>5. PICK g \in of : m = RoundsEach - g.round
  BY <1>4
<1>6. \A e \in of : e.round <= g.round
  <2>1. ASSUME NEW e \in of PROVE e.round <= g.round
    <3>1. m <= RoundsEach - e.round
      BY <1>4
    <3>2. e.round \in 0..RoundsEach /\ g.round \in 0..RoundsEach
      BY <1>1
    <3>3. QED
      BY <1>1, <1>5, <3>1, <3>2
  <2>2. QED
    BY <2>1
<1>7. g \in R!LatestEvidence(d, id, role)
  BY <1>6 DEF R!LatestEvidence
<1>8. QED
  <2>1. f.round <= g.round /\ f.round \in Int /\ g.round \in Int
    BY <1>1, <1>2, <1>6
  <2>2. QED
    BY <1>7, <2>1

(* What a brief is made of does not change while rounds are counted.       *)
LEMMA BriefStays ==
  ASSUME NEW d, NEW e, NEW b, BriefOf(d, b), e.readable = d.readable, e.table = d.table,
         e.current = d.current, e.evidence = d.evidence, e.audit = d.audit
  PROVE  BriefOf(e, b)
<1>1. \A st : R!FirstIn(e, st) = R!FirstIn(d, st)
  BY DEF R!FirstIn
<1>2. R!Focus(e) = R!Focus(d)
  BY <1>1 DEF R!Focus
<1>3. \A id : R!Paragraphs(e, id) = R!Paragraphs(d, id)
  BY DEF R!Paragraphs
<1>4. \A id, role : R!LatestEvidence(e, id, role) = R!LatestEvidence(d, id, role)
  BY DEF R!LatestEvidence
<1>5. R!Counterpart(e, b.role) = R!Counterpart(d, b.role)
  BY <1>2, <1>3, <1>4 DEF R!Counterpart
<1>6. QED
  BY <1>2, <1>5 DEF BriefOf

LEMMA BriefsBegin ==
  ASSUME R!BriefingConstants, R!Init
  PROVE  BriefInductive
<1>1. /\ r = R!NoBrief
      /\ doc = [readable |-> TRUE, table |-> [id \in TheIds |-> "Open"], current |-> None, evidence |-> {},
                audit |-> <<>>, rounds |-> [role \in TheRoles |-> 0]]
  BY DEF R!Init, TheIds, TheRoles
<1>2. doc \in RoundsLeft
  <2>1. RoundsEach \in Nat
    BY DEF R!BriefingConstants
  <2>2. [role \in TheRoles |-> 0] \in [TheRoles -> 0..RoundsEach]
    BY <2>1
  <2>3. [id \in TheIds |-> "Open"] \in [TheIds -> R!States]
    BY DEF R!States
  <2>4. QED
    BY <1>1, <2>2, <2>3 DEF RoundsLeft
<1>3. QED
  BY <1>1, <1>2 DEF BriefInductive

LEMMA BriefIsWritten ==
  ASSUME R!BriefingConstants, BriefInductive, NEW role \in TheRoles, R!WriteBrief(role)
  PROVE  BriefInductive'
<1>1. /\ doc \in RoundsLeft /\ R!NextRound(role) <= RoundsEach
      /\ doc' = [doc EXCEPT !.rounds[role] = R!NextRound(role)]
  BY DEF BriefInductive, R!WriteBrief
<1>2. r' = [role |-> role, about |-> R!Focus(doc),
            words |-> R!Counterpart(doc, role).words, file |-> R!Counterpart(doc, role).file]
  BY DEF R!WriteBrief
<1>3. PICK e, b : e = doc' /\ b = r'
  OBVIOUS
<1>4. R!NextRound(role) \in 0..RoundsEach
  <2>1. doc.rounds[role] \in 0..RoundsEach /\ RoundsEach \in Nat
    BY <1>1 DEF RoundsLeft, R!BriefingConstants
  <2>2. QED
    BY <1>1, <2>1 DEF R!NextRound
<1>5. e = [doc EXCEPT !.rounds = [doc.rounds EXCEPT ![role] = R!NextRound(role)]]
  BY <1>1, <1>3
<1>6. [doc.rounds EXCEPT ![role] = R!NextRound(role)] \in [TheRoles -> 0..RoundsEach]
  BY <1>1, <1>4 DEF RoundsLeft
<1>7. /\ e \in RoundsLeft /\ e.readable = doc.readable /\ e.table = doc.table
      /\ e.current = doc.current /\ e.evidence = doc.evidence /\ e.audit = doc.audit
  BY <1>1, <1>5, <1>6 DEF RoundsLeft
<1>8. BriefOf(doc, b)
  BY <1>2, <1>3 DEF BriefOf
<1>9. BriefOf(e, b)
  BY <1>7, <1>8, BriefStays
<1>10. QED
  BY <1>3, <1>7, <1>9 DEF BriefInductive

LEMMA RoundsStand ==
  ASSUME R!BriefingConstants, BriefInductive, R!RoundEnds
  PROVE  BriefInductive'
<1>1. r # R!NoBrief /\ r' = R!NoBrief /\ doc \in RoundsLeft /\ r.role \in TheRoles
  BY DEF BriefInductive, R!RoundEnds, BriefOf
<1>2. PICK id \in TheIds, cur \in TheIds \cup {None}, st \in R!States, ok, named, said \in BOOLEAN :
        doc' = R!Left(id, cur, st, ok, named, said)
  BY DEF R!RoundEnds, TheIds
<1>3. PICK t, v, a :
        /\ t = [doc.table EXCEPT ![id] = st]
        /\ v = IF named THEN doc.evidence \cup {R!File(id, doc.rounds[r.role], r.role)} ELSE doc.evidence
        /\ a = IF said THEN Append(doc.audit, {id}) ELSE doc.audit
  OBVIOUS
<1>4. doc' = [doc EXCEPT !.readable = ok, !.current = cur, !.table = t, !.evidence = v, !.audit = a]
  BY <1>2, <1>3 DEF R!Left
<1>5. t \in [TheIds -> R!States]
  BY <1>1, <1>3 DEF RoundsLeft
<1>6. v \subseteq [of : TheIds, round : 0..RoundsEach, role : TheRoles]
  <2>1. doc.rounds[r.role] \in 0..RoundsEach
    BY <1>1 DEF RoundsLeft
  <2>2. R!File(id, doc.rounds[r.role], r.role) \in [of : TheIds, round : 0..RoundsEach, role : TheRoles]
    BY <1>1, <2>1 DEF R!File
  <2>3. doc.evidence \subseteq [of : TheIds, round : 0..RoundsEach, role : TheRoles]
    BY <1>1 DEF RoundsLeft
  <2>4. QED
    BY <1>3, <2>2, <2>3
<1>7. a \in Seq(SUBSET TheIds)
  <2>1. doc.audit \in Seq(SUBSET TheIds) /\ {id} \in SUBSET TheIds
    BY <1>1 DEF RoundsLeft
  <2>2. QED
    BY <1>3, <2>1
<1>8. doc' \in RoundsLeft
  BY <1>1, <1>4, <1>5, <1>6, <1>7 DEF RoundsLeft
<1>9. QED
  BY <1>1, <1>8 DEF BriefInductive, R!NoBrief

LEMMA BriefSays ==
  ASSUME R!BriefingConstants, BriefInductive
  PROVE  R!BriefLeadsOn
<1>1. SUFFICES ASSUME r # R!NoBrief
      PROVE  /\ r.about # None <=> doc.readable /\ \E id \in TheIds : doc.table[id] # "Done"
             /\ r.about # None => doc.table[r.about] # "Done"
             /\ r.role = "impl" /\ r.about # None =>
                  \A i \in DOMAIN doc.audit : r.about \in doc.audit[i] => i \in r.words
             /\ r.role = "audit" /\ r.about # None =>
                  \A f \in doc.evidence : f.of = r.about /\ f.role = "impl" =>
                    \E g \in r.file : g.of = f.of /\ g.role = f.role /\ g.round >= f.round
  BY DEF R!BriefLeadsOn, TheIds
<1>2. doc \in RoundsLeft /\ r.about = R!Focus(doc)
      /\ r.words = R!Counterpart(doc, r.role).words /\ r.file = R!Counterpart(doc, r.role).file
  BY <1>1 DEF BriefInductive, BriefOf
<1>3. PICK d : d = doc
  OBVIOUS
<1>4. /\ R!Focus(d) # None <=> d.readable /\ \E id \in TheIds : d.table[id] # "Done"
      /\ R!Focus(d) # None => R!Focus(d) \in TheIds /\ d.table[R!Focus(d)] # "Done"
  BY <1>2, <1>3, FocusIs
<1>5. ASSUME r.role = "impl", r.about # None, NEW i \in DOMAIN doc.audit, r.about \in doc.audit[i]
      PROVE  i \in r.words
  <2>1. r.words = R!Paragraphs(doc, r.about)
    BY <1>2, <1>5 DEF R!Counterpart
  <2>2. i \in R!Paragraphs(doc, r.about)
    BY <1>5 DEF R!Paragraphs
  <2>3. QED
    BY <2>1, <2>2
<1>6. ASSUME r.role = "audit", r.about # None, NEW f \in doc.evidence, f.of = r.about, f.role = "impl"
      PROVE  \E g \in r.file : g.of = f.of /\ g.role = f.role /\ g.round >= f.round
  <2>1. r.file = R!LatestEvidence(doc, r.about, "impl")
    BY <1>2, <1>6 DEF R!Counterpart
  <2>2. PICK id : id = r.about
    OBVIOUS
  <2>3. f \in d.evidence /\ f.of = id /\ f.role = "impl" /\ d \in RoundsLeft
    BY <1>2, <1>3, <1>6, <2>2
  <2>4. \E g \in R!LatestEvidence(d, id, "impl") : g.of = id /\ g.role = "impl" /\ g.round >= f.round
    BY <2>3, LatestIs
  <2>5. QED
    BY <1>3, <1>6, <2>1, <2>2, <2>4
<1>7. QED
  BY <1>2, <1>3, <1>4, <1>5, <1>6

(* brief.rs focus, milestone_paragraphs and latest_evidence, over any      *)
(* number of rounds and milestones and whatever they leave: a brief is     *)
(* about unfinished work whenever there is any, repeats every word of the  *)
(* audit on it, and names the newest evidence for an audit to verify.      *)
THEOREM BriefsLeadOn ==
  ASSUME R!BriefingConstants
  PROVE  R!Spec => []R!BriefLeadsOn
<1>1. R!Init => BriefInductive
  BY BriefsBegin
<1>2. BriefInductive /\ [R!Next]_R!vars => BriefInductive'
  <2>1. ASSUME BriefInductive, UNCHANGED R!vars PROVE BriefInductive'
    BY <2>1 DEF R!vars, BriefInductive
  <2>2. ASSUME BriefInductive, R!Next PROVE BriefInductive'
    BY <2>2, BriefIsWritten, RoundsStand DEF R!Next, TheRoles
  <2>3. QED
    BY <2>1, <2>2
<1>3. BriefInductive => R!BriefLeadsOn
  BY BriefSays
<1>4. QED
  BY <1>1, <1>2, <1>3, PTL DEF R!Spec
=============================================================================
