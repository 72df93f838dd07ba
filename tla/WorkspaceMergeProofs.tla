------------------------ MODULE WorkspaceMergeProofs ------------------------
(***************************************************************************)
(* What WorkspaceMerge promises of the work in a task's repositories, for  *)
(* any workspace, any number of edits and any number of crashes: a task    *)
(* that is done has landed everything, nothing is lost on the way, and a   *)
(* cancel leaves nothing behind but where git itself has failed.           *)
(***************************************************************************)
EXTENDS WorkspaceMerge, TaskMachineProofs

---------------------------------------------------------------------------
(* TypeOK in two parts: the repositories, and the operation in progress.   *)

ReposTyped ==
  /\ named \subseteq Repos
  /\ checkout \in [Repos -> {"none", "clean", "dirty"}]
  /\ branch \in [Repos -> BOOLEAN] /\ ahead \in [Repos -> BOOLEAN]
  /\ behind \in [Repos -> {"no", "apart", "clash"}]
  /\ tree \in [Repos -> {"ok", "edited", "elsewhere"}]
  /\ archived \in {"no", "whole", "part", "nothing"}
  /\ stray \in BOOLEAN /\ late \subseteq Repos /\ failed \subseteq Repos
  /\ meddled \in 0..MaxMeddled /\ crashes \in 0..MaxCrashes

Operations == [op : {"none", "prepare", "archive", "cancel"} \cup CoreNodes,
               left : SUBSET Repos, stuck : BOOLEAN]

StepTyped ==
  /\ step \in Operations
  /\ step.op \in CoreNodes => state = Active(step.op)
  /\ step.op = "prepare" => state.st = "Active" /\ state.node \in SessionNodes
  /\ step.op \in {"archive", "cancel"} => state = Cancelled

Sessions == {"none", "running", "ended"}

(* The type invariant by its parts, in this state and the next.            *)
LEMMA TypeParts ==
  /\ TypeOK <=> state \in TaskStates /\ session \in Sessions /\ ReposTyped /\ StepTyped
  /\ TypeOK' <=> state' \in TaskStates /\ session' \in Sessions /\ ReposTyped' /\ StepTyped'
BY DEF TypeOK, ReposTyped, StepTyped, Operations, Sessions

(* The repositories an operation visits are members of the workspace, and  *)
(* every checkout is among them.                                           *)
LEMMA LayoutHoldsCheckouts ==
  ASSUME ReposTyped
  PROVE  Layout \subseteq Repos /\ CheckedOut \subseteq Layout
BY WorkspaceConstants DEF ReposTyped, Layout, CheckedOut

(* What the four variables of a repository hold.                           *)
GitTyped ==
  /\ checkout \in [Repos -> {"none", "clean", "dirty"}]
  /\ branch \in [Repos -> BOOLEAN] /\ ahead \in [Repos -> BOOLEAN]
  /\ behind \in [Repos -> {"no", "apart", "clash"}]

(* A git command that works or fails is counted, and what failed once is   *)
(* remembered.                                                             *)
LEMMA FailuresAreKept ==
  ASSUME ReposTyped, NEW r \in Repos, GitWorks \/ GitFails(r), GitTyped', late' \subseteq Repos,
         UNCHANGED <<named, archived, tree, stray, crashes>>
  PROVE  ReposTyped' /\ failed \subseteq failed'
<1>1. meddled' \in 0..MaxMeddled /\ failed' \in SUBSET Repos /\ failed \subseteq failed'
  <2>1. CASE GitWorks
    BY <2>1 DEF GitWorks, ReposTyped
  <2>2. CASE GitFails(r)
    BY <2>2, WorkspaceConstants DEF GitFails, Happens, ReposTyped
  <2>3. QED
    BY <2>1, <2>2
<1>2. QED
  BY <1>1 DEF ReposTyped, GitTyped

(* The same of a step that leaves the repositories as they are.            *)
LEMMA FailuresApart ==
  ASSUME ReposTyped, NEW r \in Repos, GitWorks \/ GitFails(r),
         UNCHANGED <<git, named, archived, tree, stray, late, crashes>>
  PROVE  ReposTyped' /\ failed \subseteq failed'
<1>1. GitTyped' /\ late' \subseteq Repos
  BY DEF ReposTyped, GitTyped, git
<1>2. QED
  BY <1>1, FailuresAreKept

(* The names of the operations.                                            *)
LEMMA Operating ==
  /\ Rest \in Operations /\ Rest.op = "none" /\ Rest.left = {} /\ Rest.stuck = FALSE
  /\ \A n \in {"none", "prepare", "archive", "cancel"} \cup CoreNodes, s \in SUBSET Repos :
       Op(n, s) \in Operations /\ Op(n, s).op = n /\ Op(n, s).left = s /\ Op(n, s).stuck = FALSE
  /\ {"none", "prepare", "archive", "cancel"} \cap CoreNodes = {}
BY DEF Rest, Op, Operations, CoreNodes

(* A visit takes a repository off the list.                                *)
LEMMA Visiting ==
  ASSUME step \in Operations, NEW r, NEW stuck \in BOOLEAN, Visit(r, stuck)
  PROVE  /\ step' \in Operations /\ step'.op = step.op
         /\ step'.left = step.left \ {r}
         /\ step'.stuck = (step.stuck \/ stuck)
BY DEF Operations, Visit

(* What a session finds here is typed like any other document.             *)
LEMMA Givens ==
  /\ Loop \in Contexts /\ [Loop EXCEPT !.enabled = RoleNodes] \in Contexts
  /\ IsStatus(Written) /\ Written.open \in BOOLEAN /\ Written.unfinished \in BOOLEAN
BY DEF Loop, Contexts, IsStatus, Written

(* States that are told apart by their tag or node.                        *)
LEMMA Apart ==
  /\ Done.st = "Done" /\ Cancelled.st = "Cancelled" /\ Queued.st = "Queued"
  /\ \A n \in Nodes : /\ Active(n).st = "Active" /\ Active(n).node = n
                      /\ Active(n) \in TaskStates
  /\ Done # Cancelled /\ {Done, Cancelled, Queued} \subseteq TaskStates
  /\ SessionNodes \cap CoreNodes = {} /\ SessionNodes \cap WaitNodes = {}
  /\ CoreNodes \cap WaitNodes = {}
<1>1. /\ Done.st = "Done" /\ Cancelled.st = "Cancelled" /\ Queued.st = "Queued"
      /\ \A n \in Nodes : Active(n).st = "Active" /\ Active(n).node = n
  BY DEF Done, Cancelled, Queued, Active, State
<1>2. SessionNodes \cap CoreNodes = {} /\ SessionNodes \cap WaitNodes = {}
      /\ CoreNodes \cap WaitNodes = {}
  BY DEF SessionNodes, CoreNodes, WaitNodes, RoleNodes
<1>3. QED
  BY <1>1, <1>2, StatesAreTyped

---------------------------------------------------------------------------
(* The transitions an idle task takes lead neither to the cleanup nor to   *)
(* the end, and to Cancelled only with a cancel to run.                    *)

Settles(tr) ==
  /\ Good(tr) /\ tr.ok
  /\ tr.next # Done /\ tr.next # Active("Cleanup")
  /\ tr.next = Cancelled => tr.action = "RunCancel"

(* A stopping task or one that goes to a node other than the cleanup.      *)
LEMMA SettlesAt ==
  ASSUME NEW tr, Good(tr), tr.ok,
         tr.next.st \in {"Failed", "Stopped", "Paused", "Queued"}
           \/ \E n \in Nodes : n # "Cleanup" /\ tr.next = Active(n)
  PROVE  Settles(tr)
BY Apart, Names DEF Settles

(* No button leads to the cleanup or the end, and only stop and cancel end *)
(* a session.                                                              *)
LEMMA ButtonsSettle ==
  ASSUME TypeOK, NEW button, NEW tr \in Pressed(button), tr.ok
  PROVE  /\ Settles(tr) /\ state \notin {Done, Cancelled}
         /\ button \notin {"stop", "cancel"} => state.st # "Active" \/ state.node \notin SessionNodes
<1>1. state \in States
  BY DEF TypeOK, States
<1>2. CASE button = "approve" \/ button = "merge"
  <2>1. tr \in {OnApprove(state, Loop), OnMerge(state, Loop)}
    BY <1>2 DEF Pressed
  <2>2. /\ Good(tr) /\ state \in {Active("AwaitDesignApproval"), Active("AwaitMerge")}
        /\ tr.next \in {Active("Design"), Active("Implement"), Active("Merging")}
    BY <1>1, <2>1, Givens, UserMoves
  <2>3. QED
    BY <2>2, SettlesAt, Apart, Names
<1>3. CASE button = "rerun"
  <2>1. PICK n \in {"Implement", "Rebase"} :
               tr = OnRerunFrom(state, n, [Loop EXCEPT !.enabled = RoleNodes])
    BY <1>3 DEF Pressed
  <2>2. n \in Nodes /\ 0 \in Nat
    BY <2>1, Names
  <2>3. /\ Good(tr) /\ state.st \in {"Failed", "Stopped"}
        /\ \E m \in SessionNodes \cup {"Rebase"} : tr.next = Active(m)
    BY <1>1, <2>1, <2>2, Givens, PanelMoves
  <2>4. QED
    BY <2>3, SettlesAt, Apart, Names
<1>4. CASE button = "stop"
  <2>1. tr = OnStop(state)
    BY <1>4 DEF Pressed
  <2>2. Good(tr) /\ state.st \in {"Active", "Paused"} /\ tr.next = Stopped(state.node)
    BY <1>1, <2>1, ControlMoves
  <2>3. tr.next.st = "Stopped"
    BY <2>2 DEF Stopped, State
  <2>4. QED
    BY <1>4, <2>2, <2>3, SettlesAt, Apart
<1>5. CASE button = "cancel"
  <2>1. tr = OnCancel(state)
    BY <1>5 DEF Pressed
  <2>2. Good(tr) /\ ~IsTerminal(state) /\ tr.next = Cancelled
    BY <1>1, <2>1, ControlMoves
  <2>3. tr.action = "RunCancel"
    BY <2>1 DEF OnCancel, To, Rejected
  <2>4. state \notin {Done, Cancelled}
    BY <2>2, Apart DEF IsTerminal
  <2>5. QED
    BY <1>5, <2>2, <2>3, <2>4, Apart, Names DEF Settles
<1>6. CASE button \notin {"approve", "merge", "rerun", "stop", "cancel"}
  BY <1>6 DEF Pressed
<1>7. QED
  BY <1>2, <1>3, <1>4, <1>5, <1>6

(* A slot, and the end of a session.                                       *)
LEMMA SlotSettles ==
  ASSUME TypeOK, OnSlotAvailable(state).ok
  PROVE  Settles(OnSlotAvailable(state)) /\ state = Queued
<1>1. state \in States
  BY DEF TypeOK, States
<1>2. Good(OnSlotAvailable(state)) /\ OnSlotAvailable(state).next = Active("Intake") /\ state = Queued
  BY <1>1, Givens, UserMoves
<1>3. QED
  BY <1>2, SettlesAt, Names

(* No session's result does.                                               *)
LEMMA ReapSettles ==
  ASSUME TypeOK, OnSessionEnded(state, "Ok", Loop, Written).ok
  PROVE  /\ Settles(OnSessionEnded(state, "Ok", Loop, Written))
         /\ state.st = "Active" /\ state.node \in SessionNodes
<1> DEFINE tr == OnSessionEnded(state, "Ok", Loop, Written)
<1>1. state \in States
  BY DEF TypeOK, States
<1>2. /\ Good(tr) /\ tr.ok /\ state.st = "Active" /\ state.node \in SessionNodes
      /\ \/ tr.next.st = "Failed"
         \/ \E n \in SessionNodes \cup {"AwaitDesignApproval", "Rebase"} : tr.next = Active(n)
  BY <1>1, Givens, SessionMoves
<1>3. \A n \in SessionNodes \cup {"AwaitDesignApproval", "Rebase"} : n \in Nodes /\ n # "Cleanup"
  BY Names
<1> HIDE DEF tr
<1>4. Settles(tr)
  BY <1>2, <1>3, SettlesAt
<1>5. QED
  BY <1>2, <1>4 DEF tr

---------------------------------------------------------------------------
(* What an idle task's move leaves of the invariant.                       *)

(* Taking a transition sets out on what it says, and the operation fits    *)
(* the state.                                                              *)
LEMMA TakingIsTyped ==
  ASSUME ReposTyped, NEW tr, Settles(tr), Take(tr)
  PROVE  /\ state' \in TaskStates /\ state' = tr.next
         /\ step' \in {Op("prepare", Layout \ CheckedOut), Op("archive", Layout), Rest}
         /\ step'.op = "prepare" => state'.st = "Active" /\ state'.node \in SessionNodes
         /\ step'.op = "archive" <=> state' = Cancelled
         /\ StepTyped'
<1>1. /\ state' = tr.next /\ tr \in Transitions /\ StartsItsNode(tr)
      /\ step' = CASE tr.action = "Start"     -> Op("prepare", Layout \ CheckedOut)
                    [] tr.action = "RunCancel" -> Op("archive", Layout)
                    [] OTHER                   -> Rest
  BY DEF Take, Settles, Good
<1>2. state' \in TaskStates
  BY <1>1 DEF Transitions
<1>3. step' \in {Op("prepare", Layout \ CheckedOut), Op("archive", Layout), Rest}
  BY <1>1
<1>4. /\ Op("prepare", Layout \ CheckedOut).op = "prepare"
      /\ Op("archive", Layout).op = "archive" /\ Rest.op = "none"
      /\ {Op("prepare", Layout \ CheckedOut), Op("archive", Layout), Rest} \subseteq Operations
  BY LayoutHoldsCheckouts, Operating
<1>5. step'.op = "prepare" => state'.st = "Active" /\ state'.node \in SessionNodes
  <2>1. step'.op = "prepare" => tr.action = "Start"
    BY <1>1, <1>4
  <2>2. QED
    BY <1>1, <2>1, Apart, Names DEF StartsItsNode
<1>6. step'.op = "archive" <=> state' = Cancelled
  <2>1. step'.op = "archive" => tr.action = "RunCancel"
    BY <1>1, <1>4
  <2>2. tr.action = "RunCancel" => step'.op = "archive"
    BY <1>1, <1>4
  <2>3. QED
    BY <1>1, <2>1, <2>2 DEF StartsItsNode, Settles
<1>7. step'.op \in {"prepare", "archive", "none"} /\ step' \in Operations
  BY <1>3, <1>4
<1>8. QED
  BY <1>1, <1>2, <1>3, <1>5, <1>6, <1>7, Operating DEF StepTyped

(* An idle task that moves: what the repositories hold afterwards has its  *)
(* checkouts where they were.                                              *)
LEMMA IdleMoves ==
  ASSUME Inductive, Idle, NEW tr, Settles(tr), Take(tr), state \notin {Done, Cancelled},
         session' = "none", ReposTyped', crashes' = crashes, branch' = branch,
         failed \subseteq failed',
         \A r \in Repos : checkout'[r] # "none" <=> checkout[r] # "none",
         \A r \in Repos : ahead'[r] => checkout'[r] # "none"
  PROVE  Inductive'
<1>1. TypeOK /\ ReposTyped /\ step = Rest /\ step.op = "none"
  BY TypeParts, Operating DEF Inductive, Idle
<1>2. /\ state' \in TaskStates /\ state' = tr.next /\ StepTyped'
      /\ step' \in {Op("prepare", Layout \ CheckedOut), Op("archive", Layout), Rest}
      /\ step'.op = "archive" <=> state' = Cancelled
  BY <1>1, TakingIsTyped
<1>3. TypeOK'
  BY <1>2, TypeParts DEF Sessions
<1>4. SessionAtItsNode'
  BY DEF SessionAtItsNode
<1>5. WorkIsCheckedOut'
  BY DEF WorkIsCheckedOut
<1>6. /\ step'.op \in {"prepare", "archive", "none"}
      /\ step'.op = "archive" => step'.left = Layout
  BY <1>1, <1>2, LayoutHoldsCheckouts, Operating
<1>7. MergeComesToIt'
  BY <1>6, Operating DEF MergeComesToIt, CoreNodes
<1>8. CleanupAfterAll'
  BY <1>2 DEF CleanupAfterAll, Settles
<1>9. ArchivedFirst'
  BY <1>6, WorkspaceConstants DEF ArchivedFirst
<1>10. BranchesInReach'
  <2>1. crashes = 0 => \A r \in Repos : branch[r] => checkout[r] # "none" \/ r \in failed
    BY <1>1 DEF Inductive, BranchesInReach
  <2>2. crashes' = 0 => \A r \in Repos : branch'[r] => checkout'[r] # "none" \/ r \in failed'
    BY <2>1
  <2>3. state' = Cancelled => \A r \in Repos : checkout'[r] # "none" => r \in step'.left
    BY <1>1, <1>2, <1>6, LayoutHoldsCheckouts DEF CheckedOut
  <2>4. QED
    BY <2>2, <2>3 DEF BranchesInReach, Remains
<1>11. QED
  BY <1>3, <1>4, <1>5, <1>7, <1>8, <1>9, <1>10 DEF Inductive

(* A press on an idle task.                                                *)
LEMMA PressMoves ==
  ASSUME Inductive, NEW button, Press(button)
  PROVE  Inductive'
<1>1. PICK tr \in Pressed(button) : Take(tr)
  BY DEF Press
<1>2. Idle /\ TypeOK /\ ReposTyped /\ tr.ok
  BY <1>1, TypeParts DEF Press, Inductive, Take
<1>3. /\ Settles(tr) /\ state \notin {Done, Cancelled}
      /\ button \notin {"stop", "cancel"} => state.st # "Active" \/ state.node \notin SessionNodes
  BY <1>2, ButtonsSettle
<1>4. session' = "none"
  BY <1>3 DEF Press, Inductive, SessionAtItsNode
<1>5. /\ ReposTyped' /\ crashes' = crashes /\ branch' = branch
      /\ checkout' = checkout /\ ahead' = ahead /\ failed' = failed
  BY <1>2 DEF Press, ReposTyped, git
<1>6. \A r \in Repos : ahead[r] => checkout[r] # "none"
  BY <1>3 DEF Inductive, WorkIsCheckedOut
<1>7. QED
  BY <1>1, <1>2, <1>3, <1>4, <1>5, <1>6, IdleMoves

(* The head of the queue.                                                  *)
LEMMA BeginsMoves ==
  ASSUME Inductive, Begins
  PROVE  Inductive'
<1> DEFINE tr == OnSlotAvailable(state)
<1>1. Idle /\ TypeOK /\ ReposTyped /\ Take(tr) /\ tr.ok
  BY TypeParts DEF Begins, Inductive, Take
<1>2. Settles(tr) /\ state = Queued
  BY <1>1, SlotSettles
<1>3. state \notin {Done, Cancelled} /\ session' = "none"
  BY <1>2, Apart DEF Begins, Inductive, SessionAtItsNode
<1>4. /\ ReposTyped' /\ crashes' = crashes /\ branch' = branch
      /\ checkout' = checkout /\ ahead' = ahead /\ failed' = failed
  BY <1>1 DEF Begins, ReposTyped, git, world
<1>5. \A r \in Repos : ahead[r] => checkout[r] # "none"
  BY <1>3 DEF Inductive, WorkIsCheckedOut
<1> HIDE DEF tr
<1>6. QED
  BY <1>1, <1>2, <1>3, <1>4, <1>5, IdleMoves

(* The end of a session.                                                   *)
LEMMA ReapMoves ==
  ASSUME Inductive, Reap
  PROVE  Inductive'
<1> DEFINE tr == OnSessionEnded(state, "Ok", Loop, Written)
<1>1. Idle /\ TypeOK /\ ReposTyped /\ Take(tr) /\ tr.ok
  BY TypeParts DEF Reap, Inductive, Take
<1>2. Settles(tr) /\ state.st = "Active"
  BY <1>1, ReapSettles
<1>3. state \notin {Done, Cancelled} /\ session' = "none"
  BY <1>2, Apart DEF Reap
<1>4. PICK swept \in SUBSET Dirty :
        /\ Sweeps(swept)
        /\ GitWorks \/ \E r \in Repos : GitFails(r)
  BY DEF Reap, Dirty
<1>5. \A r \in Repos :
        /\ checkout'[r] = IF r \in swept THEN "clean" ELSE checkout[r]
        /\ ahead'[r] = (ahead[r] \/ r \in swept)
        /\ r \in swept => checkout[r] = "dirty"
  BY <1>4 DEF Sweeps, Dirty
<1>6. ReposTyped' /\ failed \subseteq failed' /\ crashes' = crashes /\ branch' = branch
  <2>1. GitTyped' /\ late' \subseteq Repos
    BY <1>1, <1>4 DEF Reap, Sweeps, ReposTyped, GitTyped
  <2>2. PICK r \in Repos : GitWorks \/ GitFails(r)
    BY <1>4, WorkspaceConstants
  <2>3. QED
    BY <1>1, <2>1, <2>2, FailuresAreKept DEF Reap
<1>7. \A r \in Repos : ahead[r] => checkout[r] # "none"
  BY <1>3 DEF Inductive, WorkIsCheckedOut
<1>8. \A r \in Repos : checkout'[r] # "none" <=> checkout[r] # "none"
  BY <1>5
<1>9. \A r \in Repos : ahead'[r] => checkout'[r] # "none"
  BY <1>5, <1>7
<1> HIDE DEF tr
<1>10. QED
  BY <1>1, <1>2, <1>3, <1>6, <1>8, <1>9, IdleMoves

---------------------------------------------------------------------------
(* A core step that ends.                                                  *)

Results == {"Ok", "Failed", "Conflict", "Blocked"}

(* A core step that ends: the merge with success only when nothing is      *)
(* ahead.                                                                  *)
LEMMA EndsMoves ==
  ASSUME Inductive, step.op \in CoreNodes, NEW result \in Results, Ends(result),
         step.op = "Merging" /\ result = "Ok" => \A r \in Repos : ~ahead[r],
         step.op = "Cleanup" => result \in {"Ok", "Failed"},
         UNCHANGED <<session, git, archived, crashes>>, ReposTyped', failed \subseteq failed'
  PROVE  Inductive'
<1> DEFINE tr == OnCoreStepDone(state, state.node, result)
<1>1. /\ TypeOK /\ ReposTyped /\ StepTyped /\ state = Active(step.op) /\ step.op \in Nodes
      /\ state.node = step.op /\ Take(tr) /\ tr.ok /\ state \in States
  BY TypeParts, Apart, Names DEF Inductive, StepTyped, Ends, Take, TypeOK, States
<1>2. /\ Good(tr)
      /\ \/ tr.next.st = "Failed"
         \/ tr.next \in {Active("Implement"), Active("AwaitMerge")}
         \/ tr.next = Active("Cleanup") /\ step.op = "Merging" /\ result = "Ok"
         \/ tr.next = Done /\ step.op = "Cleanup"
  BY <1>1, CoreStepMoves
<1>3. step.op = "Cleanup" => tr = To(Done, "None")
  BY <1>1 DEF OnCoreStepDone, CoreNodes
<1>4. session = "none" /\ session' = "none" /\ ReposTyped'
  BY <1>1, Apart DEF Inductive, SessionAtItsNode
<1>5. \A r \in Repos : ahead[r] => checkout[r] # "none"
  BY <1>1, Apart DEF Inductive, WorkIsCheckedOut
<1>6. /\ state' = tr.next /\ state' \in TaskStates
      /\ step' \in {Op("prepare", Layout \ CheckedOut), Rest}
      /\ step'.op = "prepare" => state'.st = "Active" /\ state'.node \in SessionNodes
  <2>1. tr \in Transitions /\ StartsItsNode(tr) /\ tr.next # Cancelled
    BY <1>2, Apart, Names DEF Good
  <2>2. /\ state' = tr.next
        /\ step' = IF tr.action = "Start" THEN Op("prepare", Layout \ CheckedOut) ELSE Rest
    BY <1>1, <2>1 DEF Take, StartsItsNode
  <2>3. step'.op = "prepare" => tr.action = "Start"
    BY <2>2, Operating
  <2>4. QED
    BY <2>1, <2>2, <2>3, Apart, Names DEF StartsItsNode, Transitions
<1>7. /\ step' \in Operations /\ step'.op \in {"prepare", "none"}
  BY <1>1, <1>6, LayoutHoldsCheckouts, Operating
<1>8. TypeOK'
  BY <1>4, <1>6, <1>7, TypeParts, Operating DEF Sessions, StepTyped
<1>9. state' # Cancelled /\ step'.op \notin CoreNodes /\ step'.op \notin {"archive", "cancel"}
  BY <1>2, <1>6, <1>7, Apart, Names, Operating
<1>10. CleanupAfterAll'
  <2>1. step.op = "Cleanup" => \A r \in Repos : ~ahead[r]
    BY <1>1 DEF Inductive, CleanupAfterAll
  <2>2. state' \in {Active("Cleanup"), Done} => \A r \in Repos : ~ahead[r]
    BY <1>2, <1>6, <2>1, Apart, Names
  <2>3. QED
    BY <2>2 DEF CleanupAfterAll, git
<1>11. BranchesInReach'
  <2>1. step.op = "Cleanup" => state' = Done
    BY <1>3, <1>6 DEF To
  <2>2. state \notin {Done, Cancelled}
    BY <1>1, Apart
  <2>3. QED
    BY <1>9, <2>1, <2>2 DEF Inductive, BranchesInReach, git
<1>12. /\ SessionAtItsNode' /\ WorkIsCheckedOut' /\ MergeComesToIt' /\ ArchivedFirst'
  BY <1>4, <1>5, <1>9, Names
     DEF SessionAtItsNode, WorkIsCheckedOut, MergeComesToIt, ArchivedFirst, git
<1>13. QED
  BY <1>8, <1>10, <1>11, <1>12 DEF Inductive

(* A core step that goes on: the list gets shorter, the task stays where   *)
(* it is.                                                                  *)
LEMMA GoesOn ==
  ASSUME Inductive, step.op \in CoreNodes, NEW r \in Repos, NEW stuck \in BOOLEAN,
         Visit(r, stuck), UNCHANGED <<state, session, archived, crashes>>, ReposTyped',
         failed \subseteq failed',
         \A q \in Repos : ahead'[q] => ahead[q] /\ checkout'[q] # "none",
         step.op = "Merging" /\ ahead'[r] => stuck,
         step.op # "Cleanup" => checkout' = checkout /\ branch' = branch
  PROVE  Inductive'
<1>1. /\ TypeOK /\ StepTyped /\ state = Active(step.op) /\ step.op \in Nodes
      /\ step \in Operations /\ state \in TaskStates /\ session \in Sessions
  BY TypeParts, Names DEF Inductive, StepTyped
<1>2. /\ step' \in Operations /\ step'.op = step.op
      /\ step'.left = step.left \ {r} /\ step'.stuck = (step.stuck \/ stuck)
  BY <1>1, Visiting
<1>3. StepTyped'
  BY <1>1, <1>2 DEF StepTyped
<1>4. TypeOK'
  BY <1>1, <1>3, TypeParts
<1>5. /\ state \notin {Done, Cancelled} /\ session = "none"
      /\ step.op \notin {"prepare", "archive", "cancel", "none"}
  BY <1>1, Apart, Operating DEF Inductive, SessionAtItsNode
<1>6. SessionAtItsNode' /\ WorkIsCheckedOut' /\ ArchivedFirst'
  BY <1>2, <1>5 DEF SessionAtItsNode, WorkIsCheckedOut, ArchivedFirst
<1>7. MergeComesToIt'
  BY <1>2 DEF Inductive, MergeComesToIt
<1>8. CleanupAfterAll'
  BY DEF Inductive, CleanupAfterAll
<1>9. BranchesInReach'
  BY <1>2, <1>5 DEF Inductive, BranchesInReach
<1>10. QED
  BY <1>4, <1>6, <1>7, <1>8, <1>9 DEF Inductive

(* A core step begins with the repositories to visit.                      *)
LEMMA CoreStepBegins ==
  ASSUME Inductive, CoreStep
  PROVE  Inductive'
<1>1. /\ TypeOK /\ ReposTyped /\ StepTyped /\ state = Active(state.node)
      /\ state.node \in CoreNodes /\ step = Rest /\ state \in States
      /\ step' = Op(state.node, Layout)
      /\ UNCHANGED <<state, session, named, git, archived, world>>
  <2>1. TypeOK /\ state \in States
    BY DEF Inductive, TypeOK, States
  <2>2. QED
    BY <2>1, TypeParts, StatesByTag DEF CoreStep, Idle
<1>2. /\ step' \in Operations /\ step'.op = state.node /\ step'.left = Layout
      /\ CheckedOut \subseteq Layout
  BY <1>1, LayoutHoldsCheckouts, Operating
<1>3. TypeOK'
  <2>1. StepTyped' /\ ReposTyped'
    BY <1>1, <1>2, Operating DEF StepTyped, ReposTyped, git, world
  <2>2. QED
    BY <1>1, <2>1, TypeParts
<1>4. /\ session = "none" /\ state \notin {Done, Cancelled}
      /\ step'.op \notin {"archive", "cancel"} /\ step.op = "none"
  BY <1>1, <1>2, Apart, Names, Operating DEF Inductive, SessionAtItsNode
<1>5. MergeComesToIt'
  BY <1>1, <1>2, <1>4 DEF Inductive, WorkIsCheckedOut, MergeComesToIt, CheckedOut, git
<1>6. BranchesInReach'
  BY <1>1, <1>2, <1>4 DEF Inductive, BranchesInReach, git, world
<1>7. SessionAtItsNode' /\ WorkIsCheckedOut' /\ CleanupAfterAll' /\ ArchivedFirst'
  BY <1>1, <1>4 DEF Inductive, SessionAtItsNode, WorkIsCheckedOut, CleanupAfterAll,
                    ArchivedFirst, git
<1>8. QED
  BY <1>3, <1>5, <1>6, <1>7 DEF Inductive

(* While a core step runs, what has not landed is in a checkout.           *)
LEMMA AtACoreNode ==
  ASSUME Inductive, step.op \in CoreNodes
  PROVE  /\ TypeOK /\ ReposTyped /\ step \in Operations /\ state = Active(step.op)
         /\ \A r \in Repos : ahead[r] => checkout[r] # "none"
         /\ step.op = "Cleanup" => \A r \in Repos : ~ahead[r]
BY TypeParts, Apart, Names
   DEF Inductive, StepTyped, WorkIsCheckedOut, CleanupAfterAll

(* A rebase takes no commit away.                                          *)
LEMMA RebaseMoves ==
  ASSUME Inductive, NEW r \in Repos, RebaseRepo(r)
  PROVE  Inductive'
<1>1. /\ ReposTyped /\ step.op = "Rebase" /\ step.op \in CoreNodes
      /\ \A q \in Repos : ahead[q] => checkout[q] # "none"
  BY AtACoreNode, Names DEF RebaseRepo
<1>2. UNCHANGED <<session, named, archived, tree, stray, late, crashes>>
  BY DEF RebaseRepo
<1>3. CASE Ends("Failed") /\ UNCHANGED git /\ (GitWorks \/ GitFails(r))
  BY <1>1, <1>2, <1>3, FailuresApart, EndsMoves DEF Results
<1>4. CASE GitFails(r) /\ UNCHANGED git /\ Visit(r, FALSE) /\ UNCHANGED state
  <2>1. ReposTyped' /\ failed \subseteq failed'
    BY <1>1, <1>2, <1>4, FailuresApart
  <2>2. QED
    BY <1>1, <1>2, <1>4, <2>1, GoesOn DEF git
<1>5. CASE /\ Visit(r, Conflicts(r)) /\ GitWorks
           /\ behind' = [behind EXCEPT ![r] = IF Rebases(r) THEN "no" ELSE @]
           /\ UNCHANGED <<state, checkout, branch, ahead>>
  <2>1. Conflicts(r) \in BOOLEAN
    BY DEF Conflicts
  <2>2. GitTyped' /\ late' \subseteq Repos
    BY <1>1, <1>2, <1>5 DEF ReposTyped, GitTyped
  <2>3. ReposTyped' /\ failed \subseteq failed'
    BY <1>1, <1>2, <1>5, <2>2, FailuresAreKept
  <2>4. QED
    BY <1>1, <1>2, <1>5, <2>1, <2>3, GoesOn
<1>6. QED
  BY <1>3, <1>4, <1>5 DEF RebaseRepo

(* A repository merged is no longer ahead; one that is still ahead has     *)
(* stuck.                                                                  *)
LEMMA MergeMoves ==
  ASSUME Inductive, NEW r \in Repos, MergeRepo(r)
  PROVE  Inductive'
<1>1. /\ ReposTyped /\ step.op = "Merging" /\ step.op \in CoreNodes
      /\ \A q \in Repos : ahead[q] => checkout[q] # "none"
  BY AtACoreNode, Names DEF MergeRepo
<1>2. UNCHANGED <<session, named, archived, tree, stray, crashes>>
  BY DEF MergeRepo
<1>3. CASE Ends("Failed") /\ UNCHANGED <<git, late>> /\ (GitWorks \/ GitFails(r))
  <2>1. ReposTyped' /\ failed \subseteq failed'
    BY <1>1, <1>2, <1>3, FailuresApart
  <2>2. QED
    BY <1>1, <1>2, <1>3, <2>1, EndsMoves DEF Results
<1>4. CASE GitFails(r) /\ UNCHANGED <<git, late>> /\ Visit(r, TRUE) /\ UNCHANGED state
  <2>1. ReposTyped' /\ failed \subseteq failed'
    BY <1>1, <1>2, <1>4, FailuresApart
  <2>2. QED
    BY <1>1, <1>2, <1>4, <2>1, GoesOn DEF git
<1>5. CASE /\ GitWorks /\ Visit(r, ~Contained(r) /\ ~Mergeable(r))
           /\ ahead'  = [ahead EXCEPT ![r] = @ /\ ~Mergeable(r)]
           /\ late'   = IF Mergeable(r) THEN late \ {r} ELSE late
           /\ behind' = [behind EXCEPT ![r] = IF ~Contained(r) /\ Mergeable(r) THEN "apart" ELSE @]
           /\ UNCHANGED <<state, checkout, branch>>
  <2> DEFINE stuck == ~Contained(r) /\ ~Mergeable(r)
  <2>1. stuck \in BOOLEAN /\ Mergeable(r) \in BOOLEAN
    BY DEF Mergeable
  <2>2. \A q \in Repos : ahead'[q] = (ahead[q] /\ (q = r => ~Mergeable(r)))
    BY <1>1, <1>5 DEF ReposTyped
  <2>3. ahead' \in [Repos -> BOOLEAN]
    BY <1>1, <1>5, <2>1 DEF ReposTyped
  <2>4. late' \subseteq Repos
    BY <1>1, <1>5 DEF ReposTyped
  <2>5. GitTyped'
    BY <1>1, <1>5, <2>3 DEF ReposTyped, GitTyped
  <2>6. ReposTyped' /\ failed \subseteq failed'
    BY <1>1, <1>2, <1>5, <2>4, <2>5, FailuresAreKept
  <2>7. ahead'[r] => stuck
    BY <2>2 DEF Contained
  <2>8. \A q \in Repos : ahead'[q] => ahead[q] /\ checkout'[q] # "none"
    BY <1>1, <1>5, <2>2
  <2>9. Visit(r, stuck)
    BY <1>5
  <2> HIDE DEF stuck
  <2>10. QED
    BY <1>1, <1>2, <1>5, <2>1, <2>6, <2>7, <2>8, <2>9, GoesOn
<1>6. QED
  BY <1>3, <1>4, <1>5 DEF MergeRepo

(* A cleanup that takes a checkout away and keeps the branch for the next  *)
(* visit.                                                                  *)
LEMMA CheckoutRemoved ==
  ASSUME Inductive, step.op = "Cleanup", ReposTyped',
         UNCHANGED <<state, session, step, archived, crashes, ahead>>
  PROVE  Inductive'
<1>1. TypeOK /\ \A r \in Repos : ~ahead[r]
  BY AtACoreNode, Names DEF Inductive
<1>2. TypeOK'
  BY <1>1, TypeParts DEF StepTyped
<1>3. state = Active("Cleanup") /\ session = "none"
  BY AtACoreNode, Apart, Names DEF Inductive, SessionAtItsNode
<1>4. BranchesInReach'
  BY <1>3, Apart, Names DEF BranchesInReach
<1>5. /\ SessionAtItsNode' /\ WorkIsCheckedOut' /\ MergeComesToIt'
      /\ CleanupAfterAll' /\ ArchivedFirst'
  BY <1>1, <1>3
     DEF SessionAtItsNode, WorkIsCheckedOut, MergeComesToIt, CleanupAfterAll, ArchivedFirst
<1>6. QED
  BY <1>2, <1>4, <1>5 DEF Inductive

(* The things a cleanup does in a repository.                              *)
LEMMA CleanCases ==
  ASSUME TypeOK, NEW r \in Repos, CleanRepo(r)
  PROVE  /\ step.op = "Cleanup"
         /\ UNCHANGED <<session, named, archived, tree, stray, late, crashes>>
         /\ GitWorks \/ GitFails(r)
         /\ \/ Ends("Failed") /\ UNCHANGED git
            \/ /\ checkout[r] = "clean" /\ checkout' = [checkout EXCEPT ![r] = "none"]
               /\ UNCHANGED <<state, step, branch, ahead, behind>>
            \/ /\ checkout[r] = "none"
               /\ branch[r] => ~ahead[r] /\ r \notin late
               /\ branch' = [branch EXCEPT ![r] = FALSE] /\ Visit(r, FALSE)
               /\ UNCHANGED <<state, checkout, ahead, behind>>
<1>1. /\ step.op = "Cleanup"
      /\ UNCHANGED <<session, named, archived, tree, stray, late, crashes>>
      /\ GitWorks \/ GitFails(r)
  BY DEF CleanRepo
<1>2. CASE Ends("Failed") /\ UNCHANGED git
  BY <1>1, <1>2
<1>3. CASE /\ checkout[r] = "clean" /\ checkout' = [checkout EXCEPT ![r] = "none"]
           /\ UNCHANGED <<state, step, branch, ahead, behind>>
  BY <1>1, <1>3
<1>4. CASE /\ checkout[r] = "none" /\ ~Refuses(r)
           /\ branch' = [branch EXCEPT ![r] = FALSE]
           /\ Visit(r, FALSE)
           /\ UNCHANGED <<state, checkout, ahead, behind>>
  <2>1. branch[r] => ~ahead[r] /\ r \notin late
    BY <1>4 DEF Refuses, DeletesBranch
  <2>2. QED
    BY <1>1, <1>4, <2>1
<1>5. QED
  BY <1>2, <1>3, <1>4 DEF CleanRepo

(* The cleanup removes what has landed.                                    *)
LEMMA CleanMoves ==
  ASSUME Inductive, NEW r \in Repos, CleanRepo(r)
  PROVE  Inductive'
<1>1. TypeOK
  BY DEF Inductive
<1>2. /\ step.op = "Cleanup" /\ step.op \in CoreNodes
      /\ UNCHANGED <<session, named, archived, tree, stray, late, crashes>>
      /\ GitWorks \/ GitFails(r)
  BY <1>1, CleanCases, Names
<1>3. ReposTyped /\ \A q \in Repos : ~ahead[q]
  BY <1>2, AtACoreNode
<1>4. CASE Ends("Failed") /\ UNCHANGED git
  <2>1. ReposTyped' /\ failed \subseteq failed'
    BY <1>2, <1>3, <1>4, FailuresApart
  <2>2. QED
    BY <1>2, <1>4, <2>1, EndsMoves DEF Results
<1>5. CASE /\ checkout[r] = "clean" /\ checkout' = [checkout EXCEPT ![r] = "none"]
           /\ UNCHANGED <<state, step, branch, ahead, behind>>
  <2>1. GitTyped' /\ late' \subseteq Repos
    BY <1>2, <1>3, <1>5 DEF ReposTyped, GitTyped
  <2>2. ReposTyped'
    BY <1>2, <1>3, <2>1, FailuresAreKept
  <2>3. QED
    BY <1>2, <1>5, <2>2, CheckoutRemoved
<1>6. CASE /\ branch' = [branch EXCEPT ![r] = FALSE] /\ Visit(r, FALSE)
           /\ UNCHANGED <<state, checkout, ahead, behind>>
  <2>1. GitTyped' /\ late' \subseteq Repos
    BY <1>2, <1>3, <1>6 DEF ReposTyped, GitTyped
  <2>2. ReposTyped' /\ failed \subseteq failed'
    BY <1>2, <1>3, <2>1, FailuresAreKept
  <2>3. QED
    BY <1>2, <1>3, <1>6, <2>2, GoesOn
<1>7. QED
  BY <1>1, <1>4, <1>5, <1>6, CleanCases

(* The three core steps report.                                            *)
LEMMA StepsFinish ==
  ASSUME Inductive, RebaseDone \/ MergeDone \/ CleanDone
  PROVE  Inductive'
<1>1. UNCHANGED <<session, git, archived, crashes>> /\ ReposTyped' /\ failed \subseteq failed'
  BY TypeParts DEF RebaseDone, MergeDone, CleanDone, Inductive, ReposTyped, git, world
<1>2. CASE RebaseDone
  BY <1>1, <1>2, EndsMoves, Names DEF RebaseDone, Results
<1>3. CASE MergeDone
  <2>1. ~step.stuck => \A r \in Repos : ~ahead[r]
    BY <1>3 DEF MergeDone, Inductive, MergeComesToIt
  <2>2. PICK result \in {"Blocked", "Ok"} :
               /\ Ends(result) /\ result = "Ok" => ~step.stuck
    BY <1>3 DEF MergeDone
  <2>3. QED
    BY <1>1, <1>3, <2>1, <2>2, EndsMoves, Names DEF MergeDone, Results
<1>4. CASE CleanDone
  BY <1>1, <1>4, EndsMoves, Names, Operating DEF CleanDone, Results
<1>5. QED
  BY <1>2, <1>3, <1>4

---------------------------------------------------------------------------
(* A session's checkouts, and its start.                                   *)

(* recover prepares the repositories again.                                *)
LEMMA RedispatchMoves ==
  ASSUME Inductive, Redispatch
  PROVE  Inductive'
<1>1. /\ TypeOK /\ ReposTyped /\ step.op = "none" /\ session = "none"
      /\ state.st = "Active" /\ state.node \in SessionNodes
      /\ step' = Op("prepare", Layout \ CheckedOut)
      /\ UNCHANGED <<state, session, named, git, archived, world>>
  BY TypeParts, Operating DEF Redispatch, Idle, Inductive
<1>2. step' \in Operations /\ step'.op = "prepare"
  BY <1>1, LayoutHoldsCheckouts, Operating
<1>3. StepTyped' /\ ReposTyped'
  BY <1>1, <1>2, Operating DEF StepTyped, ReposTyped, git, world
<1>4. TypeOK'
  BY <1>1, <1>3, TypeParts
<1>5. state # Cancelled
  BY <1>1, Apart
<1>6. BranchesInReach'
  BY <1>1, <1>2, <1>5 DEF Inductive, BranchesInReach, git, world
<1>7. /\ SessionAtItsNode' /\ WorkIsCheckedOut' /\ MergeComesToIt'
      /\ CleanupAfterAll' /\ ArchivedFirst'
  BY <1>1, <1>2 DEF Inductive, SessionAtItsNode, WorkIsCheckedOut, MergeComesToIt,
                    CleanupAfterAll, ArchivedFirst, git
<1>8. QED
  BY <1>4, <1>6, <1>7 DEF Inductive

(* A checkout is made, or the launch fails.                                *)
LEMMA PrepareMoves ==
  ASSUME Inductive, NEW r \in Repos, PrepareRepo(r)
  PROVE  Inductive'
<1>1. /\ TypeOK /\ ReposTyped /\ StepTyped /\ step.op = "prepare"
      /\ state.st = "Active" /\ state.node \in SessionNodes
      /\ session = "none" /\ state \notin {Done, Cancelled}
      /\ UNCHANGED <<session, named, archived, tree, stray, late, crashes>>
      /\ GitWorks \/ GitFails(r)
  BY TypeParts, Apart DEF PrepareRepo, Inductive, StepTyped, SessionAtItsNode
<1>2. /\ \A q \in Repos : ahead[q] => checkout[q] # "none"
      /\ crashes = 0 => \A q \in Repos : branch[q] => checkout[q] # "none" \/ q \in failed
  BY <1>1 DEF Inductive, WorkIsCheckedOut, BranchesInReach
<1>3. CASE /\ NotPrepared /\ ahead' = ahead /\ checkout' = checkout /\ GitTyped'
           /\ \A q \in Repos : branch'[q] => branch[q] \/ q \in failed'
  <2>1. state' = Failed(state.node, "Config", 0) /\ step' = Rest
    BY <1>3 DEF NotPrepared
  <2>2. /\ state' \in TaskStates
        /\ state'.st = "Failed"
    BY <1>1, <2>1, StatesAreTyped, Names, 0 \in Nat DEF Failed
  <2>3. state' # Cancelled /\ state' \notin {Active("Cleanup"), Done}
    BY <2>2, Apart, Names
  <2>4. ReposTyped' /\ StepTyped' /\ failed \subseteq failed'
    <3>1. late' \subseteq Repos
      BY <1>1 DEF ReposTyped
    <3>2. ReposTyped' /\ failed \subseteq failed'
      BY <1>1, <1>3, <3>1, FailuresAreKept
    <3>3. QED
      BY <2>1, <3>2, Operating DEF StepTyped
  <2>5. TypeOK' /\ step'.op = "none"
    BY <1>1, <2>1, <2>2, <2>4, TypeParts, Operating
  <2>6. BranchesInReach'
    BY <1>1, <1>2, <1>3, <2>3, <2>4 DEF BranchesInReach
  <2>7. /\ SessionAtItsNode' /\ WorkIsCheckedOut' /\ MergeComesToIt'
        /\ CleanupAfterAll' /\ ArchivedFirst'
    BY <1>1, <1>2, <1>3, <2>1, <2>3, <2>5
       DEF SessionAtItsNode, WorkIsCheckedOut, MergeComesToIt, CleanupAfterAll, ArchivedFirst
  <2>8. QED
    BY <2>5, <2>6, <2>7 DEF Inductive
<1>4. CASE /\ checkout' = [checkout EXCEPT ![r] = "clean"]
           /\ branch'   = [branch EXCEPT ![r] = TRUE]
           /\ behind'   = [behind EXCEPT ![r] = "no"]
           /\ Visit(r, FALSE) /\ UNCHANGED <<state, ahead>>
  <2>1. /\ step' \in Operations /\ step'.op = "prepare"
    BY <1>1, <1>4, Visiting DEF StepTyped
  <2>2. GitTyped' /\ late' \subseteq Repos
    BY <1>1, <1>4 DEF ReposTyped, GitTyped
  <2>3. ReposTyped' /\ StepTyped' /\ failed \subseteq failed'
    BY <1>1, <1>4, <2>1, <2>2, FailuresAreKept, Operating DEF StepTyped
  <2>4. TypeOK'
    BY <1>1, <1>4, <2>3, TypeParts
  <2>5. \A q \in Repos : /\ checkout'[q] = (IF q = r THEN "clean" ELSE checkout[q])
                         /\ branch'[q] = (q = r \/ branch[q])
    BY <1>1, <1>4 DEF ReposTyped
  <2>6. BranchesInReach'
    <3>1. crashes' = 0 => \A q \in Repos : branch'[q] => checkout'[q] # "none" \/ q \in failed'
      BY <1>1, <1>2, <2>3, <2>5
    <3>2. QED
      BY <1>1, <1>4, <3>1 DEF BranchesInReach
  <2>7. WorkIsCheckedOut'
    BY <1>2, <1>4, <2>5 DEF WorkIsCheckedOut
  <2>8. SessionAtItsNode' /\ MergeComesToIt' /\ CleanupAfterAll' /\ ArchivedFirst'
    BY <1>1, <1>4, <2>1
       DEF Inductive, SessionAtItsNode, MergeComesToIt, CleanupAfterAll, ArchivedFirst
  <2>9. QED
    BY <2>4, <2>6, <2>7, <2>8 DEF Inductive
<1>5. CASE NotPrepared /\ GitWorks /\ UNCHANGED git
  <2>1. GitTyped' /\ ahead' = ahead /\ checkout' = checkout /\ branch' = branch
    BY <1>1, <1>5 DEF ReposTyped, GitTyped, git
  <2>2. QED
    BY <1>3, <1>5, <2>1
<1>6. CASE /\ NotPrepared /\ GitFails(r)
           /\ \E made \in BOOLEAN : branch' = [branch EXCEPT ![r] = made]
           /\ behind' = [behind EXCEPT ![r] = "no"]
           /\ UNCHANGED <<checkout, ahead>>
  <2>1. PICK made \in BOOLEAN : branch' = [branch EXCEPT ![r] = made]
    BY <1>6
  <2>2. GitTyped'
    BY <1>1, <1>6, <2>1 DEF ReposTyped, GitTyped
  <2>3. \A q \in Repos : branch'[q] => branch[q] \/ q = r
    BY <1>1, <2>1 DEF ReposTyped
  <2>4. r \in failed'
    BY <1>6 DEF GitFails
  <2>5. \A q \in Repos : branch'[q] => branch[q] \/ q \in failed'
    BY <2>3, <2>4
  <2>6. QED
    BY <1>3, <1>6, <2>2, <2>5
<1>7. QED
  BY <1>4, <1>5, <1>6 DEF PrepareRepo

(* The session starts where every repository is checked out.               *)
LEMMA LaunchMoves ==
  ASSUME Inductive, Launch
  PROVE  Inductive'
<1>1. /\ TypeOK /\ ReposTyped /\ StepTyped /\ step.op = "prepare"
      /\ session' = "running" /\ step' = Rest
      /\ UNCHANGED <<state, named, git, archived, world>>
  BY TypeParts, Operating DEF Launch, Inductive
<1>2. state.st = "Active" /\ state.node \in SessionNodes /\ state # Cancelled
  BY <1>1, Apart DEF StepTyped
<1>3. ReposTyped' /\ StepTyped'
  BY <1>1, Operating DEF ReposTyped, StepTyped, git, world
<1>4. TypeOK'
  BY <1>1, <1>3, TypeParts DEF Sessions
<1>5. BranchesInReach'
  BY <1>1, <1>2, Operating DEF Inductive, BranchesInReach, git, world
<1>6. /\ SessionAtItsNode' /\ WorkIsCheckedOut' /\ MergeComesToIt'
      /\ CleanupAfterAll' /\ ArchivedFirst'
  BY <1>1, <1>2, Operating DEF Inductive, SessionAtItsNode, WorkIsCheckedOut, MergeComesToIt,
                    CleanupAfterAll, ArchivedFirst, git
<1>7. QED
  BY <1>4, <1>5, <1>6 DEF Inductive

---------------------------------------------------------------------------
(* Cancelling.                                                             *)

(* The documents are archived before anything is discarded.                *)
LEMMA ArchiveMoves ==
  ASSUME Inductive, Archive
  PROVE  Inductive'
<1>1. /\ TypeOK /\ ReposTyped /\ StepTyped /\ step.op = "archive" /\ state = Cancelled
      /\ archived' \in {"no", "whole", "part", "nothing"}
      /\ checkout[Docs] # "none" => archived' # "no"
      /\ step' = Op("cancel", step.left)
      /\ UNCHANGED <<state, session, named, git, world>>
  BY TypeParts DEF Archive, Inductive, StepTyped, ReposTyped
<1>2. step' \in Operations /\ step'.op = "cancel" /\ step'.left = step.left
  BY <1>1, Operating DEF StepTyped, Operations
<1>3. ReposTyped' /\ StepTyped'
  BY <1>1, <1>2, Operating DEF ReposTyped, StepTyped, git, world
<1>4. TypeOK'
  BY <1>1, <1>3, TypeParts
<1>5. BranchesInReach'
  BY <1>1, <1>2 DEF Inductive, BranchesInReach, Remains, git, world
<1>6. ArchivedFirst'
  BY <1>1, <1>2 DEF Inductive, ArchivedFirst, git
<1>7. SessionAtItsNode' /\ WorkIsCheckedOut' /\ MergeComesToIt' /\ CleanupAfterAll'
  BY <1>1, <1>2, Apart DEF Inductive, SessionAtItsNode, WorkIsCheckedOut, MergeComesToIt,
                    CleanupAfterAll, git
<1>8. QED
  BY <1>4, <1>5, <1>6, <1>7 DEF Inductive

(* A checkout and its branch go together.                                  *)
LEMMA DiscardMoves ==
  ASSUME Inductive, NEW r \in Repos, DiscardRepo(r)
  PROVE  Inductive'
<1>1. /\ TypeOK /\ ReposTyped /\ StepTyped /\ step.op = "cancel" /\ state = Cancelled
      /\ UNCHANGED <<state, session, named, ahead, behind, archived, tree, stray, late, crashes>>
      /\ GitWorks \/ GitFails(r)
  BY TypeParts DEF DiscardRepo, Inductive, StepTyped
<1>2. /\ step' \in Operations /\ step'.op = "cancel"
      /\ step'.left \in {step.left, step.left \ {r}}
      /\ GitTyped'
      /\ \A q \in Repos : Remains(q)' =>
           Remains(q) /\ (q \in step.left => q \in step'.left \cup failed')
  <2>1. CASE checkout' = [checkout EXCEPT ![r] = "none"] /\ UNCHANGED <<step, branch>>
    <3>1. \A q \in Repos : Remains(q)' => Remains(q)
      BY <1>1, <2>1 DEF Remains, ReposTyped
    <3>2. GitTyped'
      BY <1>1, <2>1 DEF ReposTyped, GitTyped
    <3>3. QED
      BY <1>1, <2>1, <3>1, <3>2 DEF StepTyped
  <2>2. CASE /\ checkout[r] = "none" /\ Visit(r, FALSE) /\ UNCHANGED checkout
             /\ branch' = [branch EXCEPT ![r] = @ /\ ~DeletesBranch(r, TRUE)]
    <3>1. branch' = [branch EXCEPT ![r] = FALSE]
      BY <1>1, <2>2 DEF DeletesBranch, ReposTyped
    <3>2. step' \in Operations /\ step'.op = "cancel" /\ step'.left = step.left \ {r}
      BY <1>1, <2>2, Visiting DEF StepTyped
    <3>3. \A q \in Repos : Remains(q)' => Remains(q) /\ q # r
      BY <1>1, <2>2, <3>1 DEF Remains, ReposTyped
    <3>4. GitTyped'
      BY <1>1, <2>2, <3>1 DEF ReposTyped, GitTyped
    <3>5. QED
      BY <1>1, <3>2, <3>3, <3>4
  <2>3. CASE /\ GitFails(r) /\ Visit(r, FALSE) /\ UNCHANGED checkout
             /\ \E left \in BOOLEAN : branch' = [branch EXCEPT ![r] = @ /\ left]
    <3>1. PICK left \in BOOLEAN : branch' = [branch EXCEPT ![r] = @ /\ left]
      BY <2>3
    <3>2. step' \in Operations /\ step'.op = "cancel" /\ step'.left = step.left \ {r}
      BY <1>1, <2>3, Visiting DEF StepTyped
    <3>3. \A q \in Repos : Remains(q)' => Remains(q)
      BY <1>1, <2>3, <3>1 DEF Remains, ReposTyped
    <3>4. GitTyped'
      <4>1. branch' \in [Repos -> BOOLEAN]
        BY <1>1, <3>1 DEF ReposTyped
      <4>2. QED
        BY <1>1, <2>3, <4>1 DEF ReposTyped, GitTyped
    <3>5. r \in failed'
      BY <2>3 DEF GitFails
    <3>6. QED
      BY <1>1, <3>2, <3>3, <3>4, <3>5
  <2>4. QED
    BY <2>1, <2>2, <2>3 DEF DiscardRepo
<1>3. ReposTyped' /\ failed \subseteq failed'
  <2>1. late' \subseteq Repos
    BY <1>1 DEF ReposTyped
  <2>2. QED
    BY <1>1, <1>2, <2>1, FailuresAreKept
<1>4. TypeOK'
  BY <1>1, <1>2, <1>3, TypeParts, Operating DEF StepTyped
<1>5. BranchesInReach'
  <2>1. crashes' = 0 => \A q \in Repos : Remains(q) => q \in step.left \cup failed
    BY <1>1 DEF Inductive, BranchesInReach
  <2>2. crashes' = 0 => \A q \in Repos : Remains(q)' => q \in step'.left \cup failed'
    BY <1>2, <1>3, <2>1
  <2>3. QED
    BY <1>1, <2>2, Apart DEF BranchesInReach
<1>6. /\ SessionAtItsNode' /\ WorkIsCheckedOut' /\ MergeComesToIt'
      /\ CleanupAfterAll' /\ ArchivedFirst'
  BY <1>1, <1>2, Apart DEF Inductive, SessionAtItsNode, WorkIsCheckedOut, MergeComesToIt,
                    CleanupAfterAll, ArchivedFirst
<1>7. QED
  BY <1>4, <1>5, <1>6 DEF Inductive

(* A step that ends without a word to the transition table: a cancel that  *)
(* is through, or a core that dies.                                        *)
LEMMA StopsShort ==
  ASSUME Inductive, step' = Rest,
         UNCHANGED <<state, session, named, git, archived, tree, stray, late, failed, meddled>>,
         \/ crashes' = crashes /\ step = Op("cancel", {})
         \/ crashes < MaxCrashes /\ crashes' = crashes + 1
  PROVE  Inductive'
<1>1. TypeOK /\ ReposTyped /\ StepTyped
  BY TypeParts DEF Inductive
<1>2. ReposTyped' /\ StepTyped'
  BY <1>1, WorkspaceConstants, Operating DEF ReposTyped, StepTyped, git
<1>3. TypeOK'
  BY <1>1, <1>2, TypeParts
<1>4. BranchesInReach'
  <2>1. CASE crashes < MaxCrashes /\ crashes' = crashes + 1
    <3>1. crashes' # 0
      BY <1>1, <2>1 DEF ReposTyped
    <3>2. QED
      BY <3>1 DEF BranchesInReach
  <2>2. CASE crashes' = crashes /\ step = Op("cancel", {})
    <3>1. step.left = {} /\ step.op = "cancel" /\ step'.left = {} /\ state = Cancelled
      BY <1>1, <2>2, Operating DEF StepTyped
    <3>2. QED
      BY <2>2, <3>1 DEF Inductive, BranchesInReach, Remains, git
  <2>3. QED
    BY <2>1, <2>2
<1>5. /\ SessionAtItsNode' /\ WorkIsCheckedOut' /\ MergeComesToIt'
      /\ CleanupAfterAll' /\ ArchivedFirst'
  BY Operating, Names DEF Inductive, SessionAtItsNode, WorkIsCheckedOut, MergeComesToIt,
                    CleanupAfterAll, ArchivedFirst, git
<1>6. QED
  BY <1>3, <1>4, <1>5 DEF Inductive

---------------------------------------------------------------------------
(* What happens outside the core: no operation, state or branch moves, and *)
(* a session commits where it has a checkout.                              *)
LEMMA OutsideMoves ==
  ASSUME Inductive, ReposTyped', UNCHANGED <<state, branch, archived, step, failed, crashes>>,
         session' \in Sessions, session' # "none" => session # "none",
         \A r \in Repos : checkout'[r] # "none" <=> checkout[r] # "none",
         \A r \in Repos : ahead'[r] => ahead[r] \/ (session # "none" /\ checkout[r] # "none")
  PROVE  Inductive'
<1>1. TypeOK /\ StepTyped
  BY TypeParts DEF Inductive
<1>2. TypeOK'
  BY <1>1, TypeParts DEF StepTyped
<1>3. session # "none" => /\ step.op = "none"
                          /\ state \notin {Active("Cleanup"), Done, Cancelled}
  BY Apart, Names DEF Inductive, SessionAtItsNode
<1>4. /\ SessionAtItsNode' /\ WorkIsCheckedOut' /\ MergeComesToIt'
      /\ CleanupAfterAll' /\ ArchivedFirst'
  <2>1. \A r \in Repos : ahead'[r] => ahead[r] \/ (checkout'[r] # "none" /\ session # "none")
    OBVIOUS
  <2>2. SessionAtItsNode' /\ WorkIsCheckedOut' /\ CleanupAfterAll'
    BY <1>3, <2>1 DEF Inductive, SessionAtItsNode, WorkIsCheckedOut, CleanupAfterAll
  <2>3. MergeComesToIt' /\ ArchivedFirst'
    BY <1>3, WorkspaceConstants DEF Inductive, MergeComesToIt, ArchivedFirst
  <2>4. QED
    BY <2>2, <2>3
<1>5. BranchesInReach'
  BY DEF Inductive, BranchesInReach, Remains
<1>6. QED
  BY <1>2, <1>4, <1>5 DEF Inductive

(* The session, the user and the core that dies.                           *)
LEMMA WorldMoves ==
  ASSUME Inductive, World
  PROVE  Inductive'
<1>1. TypeOK /\ ReposTyped /\ session \in Sessions
  BY TypeParts DEF Inductive
<1>2. CASE SessionWorks
  <2>1. PICK wrote, mended \in SUBSET CheckedOut :
          /\ ahead'  = [r \in Repos |-> ahead[r] \/ r \in wrote]
          /\ behind' \in [Repos -> {"no", "apart", "clash"}]
    BY <1>2 DEF SessionWorks
  <2>2. \A r \in Repos : ahead'[r] => ahead[r] \/ checkout[r] # "none"
    BY <2>1 DEF CheckedOut
  <2>3. ReposTyped'
    BY <1>1, <1>2, <2>1 DEF SessionWorks, ReposTyped, world
  <2>4. QED
    BY <1>1, <1>2, <2>2, <2>3, OutsideMoves DEF SessionWorks, world
<1>3. CASE SessionEnds
  <2>1. ReposTyped'
    BY <1>1, <1>3 DEF SessionEnds, ReposTyped, git, world
  <2>2. QED
    BY <1>1, <1>3, <2>1, OutsideMoves DEF SessionEnds, git, world, Sessions
<1>4. CASE Crash
  BY <1>4, StopsShort DEF Crash
<1>5. ASSUME NEW with, Meddles(with)
      PROVE  meddled' \in 0..MaxMeddled
  BY <1>1, <1>5, WorkspaceConstants DEF Meddles, Happens, ReposTyped
<1>6. ASSUME NEW r \in Repos, BaseMoves(r) \/ EditTree(r) \/ MendTree(r)
      PROVE  Inductive'
  <2>1. /\ UNCHANGED <<state, session, named, checkout, branch, ahead, archived, step, stray, late,
                       failed, crashes>>
        /\ meddled' \in 0..MaxMeddled
    BY <1>1, <1>5, <1>6 DEF BaseMoves, EditTree, MendTree, Meddles, git, ReposTyped
  <2>2. /\ behind' \in [Repos -> {"no", "apart", "clash"}]
        /\ tree' \in [Repos -> {"ok", "edited", "elsewhere"}]
    BY <1>1, <1>6 DEF BaseMoves, EditTree, MendTree, git, ReposTyped
  <2>3. ReposTyped'
    BY <1>1, <2>1, <2>2 DEF ReposTyped
  <2>4. QED
    BY <1>1, <2>1, <2>3, OutsideMoves
<1>7. ASSUME NEW r \in Repos, EditCheckout(r)
      PROVE  Inductive'
  <2>1. /\ UNCHANGED <<state, session, named, branch, ahead, behind, archived, step, tree, stray,
                       late, failed, crashes>>
        /\ meddled' \in 0..MaxMeddled
        /\ checkout[r] = "clean" /\ checkout' = [checkout EXCEPT ![r] = "dirty"]
    BY <1>5, <1>7 DEF EditCheckout, Meddles
  <2>2. ReposTyped' /\ \A q \in Repos : checkout'[q] # "none" <=> checkout[q] # "none"
    BY <1>1, <2>1 DEF ReposTyped
  <2>3. QED
    BY <1>1, <2>1, <2>2, OutsideMoves
<1>8. ASSUME NEW r \in Repos, StrayCommits(r)
      PROVE  Inductive'
  <2>1. /\ UNCHANGED <<state, session, named, checkout, branch, ahead, archived, step, tree, stray,
                       failed, crashes>>
        /\ meddled' \in 0..MaxMeddled /\ late' = late \cup {r}
    BY <1>5, <1>8 DEF StrayCommits, Meddles
  <2>2. behind' \in [Repos -> {"no", "apart", "clash"}]
    <3>1. PICK how \in {"no", "apart", "clash"} : behind' = [behind EXCEPT ![r] = how]
      BY <1>1, <1>8 DEF StrayCommits, ReposTyped
    <3>2. QED
      BY <1>1, <3>1 DEF ReposTyped
  <2>3. ReposTyped'
    BY <1>1, <1>8, <2>1, <2>2 DEF ReposTyped
  <2>4. QED
    BY <1>1, <2>1, <2>3, OutsideMoves
<1>9. QED
  BY <1>2, <1>3, <1>4, <1>6, <1>7, <1>8 DEF World

---------------------------------------------------------------------------
(* The invariant holds at every moment.                                    *)

(* The invariant holds of a task not yet begun.                            *)
LEMMA StartsInductive == Init => Inductive
<1> SUFFICES ASSUME Init PROVE Inductive
  OBVIOUS
<1>1. ReposTyped /\ StepTyped
  <2>1. meddled \in 0..MaxMeddled /\ crashes \in 0..MaxCrashes
    BY WorkspaceConstants DEF Init
  <2>2. step \in Operations /\ step.op = "none"
    BY Operating DEF Init
  <2>3. ReposTyped
    BY <2>1 DEF Init, ReposTyped
  <2>4. StepTyped
    BY <2>2, Operating DEF StepTyped
  <2>5. QED
    BY <2>3, <2>4
<1>2. TypeOK
  BY <1>1, TypeParts, Apart DEF Init, Sessions
<1>3. state = Queued /\ step.op = "none" /\ state \notin {Active("Cleanup"), Done, Cancelled}
  BY Operating, Apart, Names DEF Init
<1>4. QED
  BY <1>2, <1>3, WorkspaceConstants
     DEF Init, Inductive, SessionAtItsNode, WorkIsCheckedOut, MergeComesToIt, CleanupAfterAll,
         ArchivedFirst, BranchesInReach

(* Every step keeps it.                                                    *)
LEMMA StepsStayInductive == Inductive /\ [Next]_vars => Inductive'
<1> SUFFICES ASSUME Inductive, [Next]_vars PROVE Inductive'
  OBVIOUS
<1>1. CASE Core
  <2>1. CASE Begins \/ Reap \/ Redispatch \/ Launch \/ CoreStep
    BY <2>1, BeginsMoves, ReapMoves, RedispatchMoves, LaunchMoves, CoreStepBegins
  <2>2. CASE \E r \in Repos : PrepareRepo(r) \/ RebaseRepo(r) \/ MergeRepo(r) \/ CleanRepo(r)
                              \/ DiscardRepo(r)
    BY <2>2, PrepareMoves, RebaseMoves, MergeMoves, CleanMoves, DiscardMoves
  <2>3. CASE RebaseDone \/ MergeDone \/ CleanDone \/ Archive
    BY <2>3, StepsFinish, ArchiveMoves
  <2>4. CASE Discarded
    BY <2>4, StopsShort DEF Discarded, world
  <2>5. QED
    BY <1>1, <2>1, <2>2, <2>3, <2>4 DEF Core
<1>2. CASE User
  BY <1>2, PressMoves DEF User
<1>3. CASE World
  BY <1>3, WorldMoves
<1>4. CASE UNCHANGED vars
  <2>1. UNCHANGED <<state, session, named, checkout, branch, ahead, behind, archived, step,
                    tree, stray, late, failed, meddled, crashes>>
    BY <1>4 DEF vars, git, world
  <2>2. ReposTyped' /\ session \in Sessions
    BY <2>1, TypeParts DEF Inductive, ReposTyped
  <2>3. QED
    BY <2>1, <2>2, OutsideMoves
<1>5. QED
  BY <1>1, <1>2, <1>3, <1>4 DEF Next

(* At every moment the types hold, a session is at its node, work that has *)
(* not landed is where the steps look for it, and a cleanup comes after    *)
(* everything has landed.                                                  *)
THEOREM AlwaysInductive == Spec => []Inductive
BY StartsInductive, StepsStayInductive, PTL DEF Spec

(* A task that is done has its work in the base of every repository,       *)
(* whatever the document names at the end (merge_all, cleanup).            *)
THEOREM DoneHasLanded == Spec => []DoneLandsEverything
<1>1. Inductive => DoneLandsEverything
  BY DEF Inductive, CleanupAfterAll, DoneLandsEverything
<1>2. QED
  BY <1>1, AlwaysInductive, PTL

(* A cancel the core lives through leaves a checkout or a branch only where *)
(* a git command failed for reasons of its own: it passes over no           *)
(* repository, and no failure in one ends it before the others              *)
(* (cancel_task, working_repos).                                            *)
THEOREM CancelIsThorough == Spec => []CancelReachesAll
<1>1. Inductive => CancelReachesAll
  BY Operating DEF Inductive, BranchesInReach, Remains, CancelReachesAll, Cleared, Idle
<1>2. QED
  BY <1>1, AlwaysInductive, PTL

(* Neither a checkout with edits nor a branch with work that has not       *)
(* landed is thrown away but by a cancel, and by that the documents' only  *)
(* after it tried to copy them (cleanup, cancel_task).                     *)
THEOREM NothingIsLost == Spec => NothingDestroyed
<1> DEFINE Kept == /\ \A r \in Repos : Lost(r) => state = Cancelled
                   /\ branch[Docs] /\ ~branch'[Docs] /\ ahead[Docs] => archived # "no"
<1>1. Inductive /\ [Next]_vars => [Kept]_vars
  <2> SUFFICES ASSUME Inductive, Next PROVE Kept
    BY DEF vars
  <2>1. TypeOK /\ ReposTyped /\ StepTyped /\ Docs \in Repos
    BY TypeParts, WorkspaceConstants DEF Inductive
  <2>2. CASE UNCHANGED <<checkout, branch, ahead>>
    BY <2>1, <2>2 DEF Lost
  <2>3. CASE SessionWorks
    BY <2>1, <2>3 DEF SessionWorks, Lost
  <2>4. CASE Reap
    BY <2>1, <2>4 DEF Reap, Sweeps, Dirty, Lost, ReposTyped
  <2>5. ASSUME NEW r \in Repos, PrepareRepo(r)
        PROVE  Kept
    BY <2>1, <2>5 DEF PrepareRepo, AddsCheckout, Lost, ReposTyped, git
  <2>6. ASSUME NEW r \in Repos, MergeRepo(r)
        PROVE  Kept
    BY <2>1, <2>6 DEF MergeRepo, Lost, ReposTyped, git
  <2>7. ASSUME NEW r \in Repos, CleanRepo(r)
        PROVE  Kept
    <3>1. /\ step.op = "Cleanup" /\ ahead' = ahead
          /\ \A q \in Repos : checkout[q] # checkout'[q] => checkout[q] = "clean"
          /\ \A q \in Repos : branch[q] /\ ~branch'[q] => ~ahead[q] /\ q \notin late
      <4>1. CASE UNCHANGED git
        BY <2>1, <2>7, <4>1, CleanCases DEF git
      <4>2. CASE /\ checkout[r] = "clean" /\ checkout' = [checkout EXCEPT ![r] = "none"]
                 /\ UNCHANGED <<state, step, branch, ahead, behind>>
        BY <2>1, <2>7, <4>2, CleanCases DEF ReposTyped
      <4>3. CASE /\ branch[r] => ~ahead[r] /\ r \notin late
                 /\ branch' = [branch EXCEPT ![r] = FALSE]
                 /\ UNCHANGED <<state, checkout, ahead, behind>>
        BY <2>1, <2>7, <4>3, CleanCases DEF ReposTyped
      <4>4. QED
        BY <2>1, <2>7, <4>1, <4>2, <4>3, CleanCases
    <3>2. QED
      BY <2>1, <3>1 DEF Lost
  <2>8. ASSUME NEW r \in Repos, DiscardRepo(r)
        PROVE  Kept
    BY <2>1, <2>8 DEF DiscardRepo, Lost, ReposTyped, StepTyped, Inductive, ArchivedFirst
  <2>9. ASSUME NEW r \in Repos, EditCheckout(r)
        PROVE  Kept
    BY <2>1, <2>9 DEF EditCheckout, Meddles, Lost, ReposTyped
  <2>10. QED
    BY <2>2, <2>3, <2>4, <2>5, <2>6, <2>7, <2>8, <2>9
       DEF Next, Core, User, World, Press, Begins, Redispatch, Launch, CoreStep, RebaseRepo,
           RebaseDone, MergeDone, CleanDone, Archive, Discarded, SessionEnds, Crash, BaseMoves,
           EditTree, MendTree, StrayCommits, Meddles, git
<1>2. QED
  BY <1>1, AlwaysInductive, PTL DEF Spec, NothingDestroyed
=============================================================================
