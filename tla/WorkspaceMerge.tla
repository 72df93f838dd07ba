--------------------------- MODULE WorkspaceMerge ---------------------------
(***************************************************************************)
(* The repositories of one task: the checkouts a session gets, the commits *)
(* it leaves, and the steps the core runs on them by itself: rebase, merge *)
(* clean up, cancel.  crates/automed/src/scheduler.rs (rebase_all,         *)
(* merge_all, cleanup, cancel_task, working_repos, start_session's         *)
(* checkouts), layout.rs and git.rs.                                       *)
(*                                                                         *)
(* A workspace task works in several repositories, one of which holds its  *)
(* documents.  Every step visits them one after the other; git commands    *)
(* are the atomic steps here, and between two of them the user may edit or *)
(* switch their own tree, a base may move on, a process that outlived a    *)
(* stop may write or commit, or the core may die; and any command may fail *)
(* for reasons of its own.  Where the task goes is decided by TaskMachine. *)
(***************************************************************************)
EXTENDS TaskMachine, FiniteSets

CONSTANTS
  Repos,      \* the members of the workspace
  Docs,       \* the one that holds the documents
  Presses,    \* the triggers the user may press
  Meddling,   \* what goes wrong outside: "base", "tree", "checkout", "stray", "git"
  MaxMeddled, \* bound: how often it does
  MaxCrashes  \* bound: crashes of the core

ASSUME WorkspaceConstants ==
  /\ IsFiniteSet(Repos) /\ Docs \in Repos
  /\ MaxMeddled \in Nat /\ MaxCrashes \in Nat

VARIABLES
  state,    \* store: the task's state
  session,  \* the task's session: "none", "running" or "ended"
  named,    \* the repos: line of the design document, but for the documents' own
  checkout, \* the task's checkout of each repository: "none", "clean" or "dirty"
  branch,   \* whether the task's branch exists
  ahead,    \* whether work of the task's sessions is not in the base
  behind,   \* what the base has that the branch lacks: "no", "apart", "clash"
  tree,     \* the user's own tree: "ok"; "edited", in a file the merge changes; "elsewhere"
  archived, \* the copy of the documents: "no" for none tried, "whole", "part", "nothing"
  step,     \* core: the operation in progress
  stray,    \* whether a session was stopped whose process may still be there
  late,     \* where that process committed what is not in the base
  failed,   \* where a git command failed for reasons of its own, so far
  meddled,  \* how often something of Meddling happened
  crashes   \* how often the core has died

git   == <<checkout, branch, ahead, behind>>
world == <<tree, stray, late, failed, meddled, crashes>>
vars  == <<state, session, named, git, archived, step, world>>

---------------------------------------------------------------------------
(* An operation in progress: the repositories it has left to visit, and    *)
(* whether one of those it visited stood in its way.                       *)

Op(name, repos) == [op |-> name, left |-> repos, stuck |-> FALSE]
Rest == Op("none", {})
Idle == step = Rest

(* working_repos and TaskLayout: the documents' repository, what is        *)
(* checked out, and what the document names, if it is there to be read.    *)
CheckedOut == {r \in Repos : checkout[r] # "none"}
BugDocumentAlone == {Docs} \cup (IF checkout[Docs] = "none" THEN {} ELSE named)
Layout     == {Docs} \cup CheckedOut \cup (IF checkout[Docs] = "none" THEN {} ELSE named)

(* Every operation takes the documents first; merge_all takes them last.   *)
DocsFirst(left) == IF Docs \in left THEN {Docs} ELSE left
DocsLast(left)  == IF left = {Docs} THEN left ELSE left \ {Docs}

Visit(r, stuck) == step' = [step EXCEPT !.left = @ \ {r}, !.stuck = @ \/ stuck]

(* advance and perform: a step of the core waits for the next tick.        *)
Take(tr) ==
  /\ tr.ok
  /\ state' = tr.next
  /\ step'  = CASE tr.action = "Start"     -> Op("prepare", Layout \ CheckedOut)
                [] tr.action = "RunCancel" -> Op("archive", Layout)
                [] OTHER                   -> Rest

(* run_core_step: the result goes through the transition table.            *)
Ends(result) == Take(OnCoreStepDone(state, state.node, result))

(* The loop itself is not the subject here: every role that may be left    *)
(* out is, and every document says the work is done.                       *)
Loop    == [enabled |-> {}, factor |-> 1, budget |-> 1, included |-> 0, ruled |-> 0]
Written == [status |-> "Implementing", designRound |-> 1, designLimit |-> 1, implRound |-> 1,
            implLimit |-> 1, open |-> FALSE, unfinished |-> FALSE, milestones |-> 1]

Init ==
  /\ state = Queued /\ session = "none" /\ named = {}
  /\ checkout = [r \in Repos |-> "none"]
  /\ branch   = [r \in Repos |-> FALSE]
  /\ ahead    = [r \in Repos |-> FALSE]
  /\ behind   = [r \in Repos |-> "no"]
  /\ tree     = [r \in Repos |-> "ok"]
  /\ archived = "no" /\ step = Rest
  /\ stray = FALSE /\ late = {} /\ failed = {} /\ meddled = 0 /\ crashes = 0

---------------------------------------------------------------------------
(* The world outside the core.                                             *)

(* A session rewrites the repos: line, commits in some of its checkouts    *)
(* and may bring its branch up to date with the base in others.            *)
SessionWorks ==
  /\ session = "running"
  /\ named' \in SUBSET (Repos \ {Docs})
  /\ \E wrote, mended \in SUBSET CheckedOut :
       /\ ahead'  = [r \in Repos |-> ahead[r] \/ r \in wrote]
       /\ behind' \in [Repos -> {"no", "apart", "clash"}]
       /\ \A r \in Repos : behind'[r] \in IF r \in mended THEN {"no"}
                                          ELSE IF r \in wrote /\ behind[r] = "apart"
                                          THEN {"apart", "clash"} ELSE {behind[r]}
  /\ UNCHANGED <<state, session, checkout, branch, archived, step, world>>

SessionEnds ==
  /\ session = "running" /\ session' = "ended"
  /\ UNCHANGED <<state, named, git, archived, step, world>>

Happens(what) == what \in Meddling /\ meddled < MaxMeddled /\ meddled' = meddled + 1

Meddles(with) ==
  /\ Happens(with)
  /\ UNCHANGED <<state, session, named, branch, ahead, archived, step, stray, failed, crashes>>

(* Another task is merged, or the user commits.                            *)
BaseMoves(r) ==
  /\ Meddles("base")
  /\ branch[r] /\ behind[r] # "clash"
  /\ \E how \in {"apart", "clash"} : /\ how = "clash" => ahead[r] \/ r \in late
                                     /\ behind' = [behind EXCEPT ![r] = how]
  /\ UNCHANGED <<checkout, tree, late>>

(* The user edits their own tree, or checks out something else in it.      *)
EditTree(r) ==
  /\ Meddles("tree")
  /\ \E how \in {"edited", "elsewhere"} : tree' = [tree EXCEPT ![r] = how]
  /\ UNCHANGED <<checkout, behind, late>>

MendTree(r) ==
  /\ tree[r] # "ok" /\ tree' = [tree EXCEPT ![r] = "ok"]
  /\ UNCHANGED <<state, session, named, git, archived, step, stray, late, failed, meddled, crashes>>

(* The user, or a process a session left behind, writes into a checkout.   *)
EditCheckout(r) ==
  /\ Meddles("checkout")
  /\ checkout[r] = "clean" /\ checkout' = [checkout EXCEPT ![r] = "dirty"]
  /\ UNCHANGED <<behind, tree, late>>

(* The process of a session that was stopped: no signal reaches it (see    *)
(* SessionProcess), and it goes on in its checkouts.                       *)
StrayCommits(r) ==
  /\ Meddles("stray")
  /\ stray /\ checkout[r] # "none" /\ branch[r]
  /\ late' = late \cup {r}
  /\ \E how \in IF behind[r] = "apart" THEN {"apart", "clash"} ELSE {behind[r]} :
       behind' = [behind EXCEPT ![r] = how]
  /\ UNCHANGED <<checkout, tree>>

Crash ==
  /\ crashes < MaxCrashes
  /\ crashes' = crashes + 1
  /\ step' = Rest
  /\ UNCHANGED <<state, session, named, git, archived, tree, stray, late, failed, meddled>>

---------------------------------------------------------------------------
(* A git command does what it is there for, or it fails for reasons of its *)
(* own: a lock another process holds, a file it cannot delete, a time out. *)

GitWorks == UNCHANGED <<meddled, failed>>

GitFails(r) == Happens("git") /\ failed' = failed \cup {r}

---------------------------------------------------------------------------
(* The user's buttons, the queue, and the end of a session.                *)

Pressed(button) ==
  CASE button = "approve" -> {OnApprove(state, Loop)}
    [] button = "merge"   -> {OnMerge(state, Loop)}
    [] button = "stop"    -> {OnStop(state)}
    [] button = "rerun"   -> {OnRerunFrom(state, n, [Loop EXCEPT !.enabled = RoleNodes]) :
                                n \in {"Implement", "Rebase"}}
    [] button = "cancel"  -> {OnCancel(state)}
    [] OTHER              -> {}

(* task_stop and task_cancel end the session before anything else.  Its    *)
(* row is closed; its process may run on.                                  *)
Press(button) ==
  /\ Idle
  /\ \E tr \in Pressed(button) : Take(tr)
  /\ LET ends == button \in {"stop", "cancel"}
     IN  /\ session' = IF ends THEN "none" ELSE session
         /\ stray'   = (stray \/ (ends /\ session = "running"))
  /\ UNCHANGED <<named, git, archived, tree, late, failed, meddled, crashes>>

Begins ==
  /\ Idle /\ Take(OnSlotAvailable(state))
  /\ UNCHANGED <<session, named, git, archived, world>>

(* reap_session sweeps what the session left uncommitted into a commit,    *)
(* in every checkout, before the task moves on; a sweep that fails is only *)
(* logged.                                                                 *)
Dirty == {r \in Repos : checkout[r] = "dirty"}

Sweeps(swept) ==
  /\ checkout' = [r \in Repos |-> IF r \in swept THEN "clean" ELSE checkout[r]]
  /\ ahead'    = [r \in Repos |-> ahead[r] \/ r \in swept]

Reap ==
  /\ Idle /\ session = "ended"
  /\ session' = "none"
  /\ \/ Sweeps(Dirty) /\ GitWorks
     \/ \E r \in Dirty : Sweeps(Dirty \ {r}) /\ GitFails(r)
  /\ Take(OnSessionEnded(state, "Ok", Loop, Written))
  /\ UNCHANGED <<named, branch, behind, archived, tree, stray, late, crashes>>

(* recover: a session node that has no session is dispatched again.        *)
Redispatch ==
  /\ Idle /\ state.st = "Active" /\ state.node \in SessionNodes /\ session = "none"
  /\ step' = Op("prepare", Layout \ CheckedOut)
  /\ UNCHANGED <<state, session, named, git, archived, world>>

---------------------------------------------------------------------------
(* What git makes of it (git.rs).                                          *)

(* worktree add -b: a branch that exists already is an error.              *)
AddsCheckout(r) == ~branch[r]

(* worktree remove refuses a checkout with edits unless forced.            *)
RemovesCheckout(r, force) == force \/ checkout[r] # "dirty"

(* branch -d refuses one that is not merged into what the user has checked *)
(* out.                                                                    *)
DeletesBranch(r, force) == force \/ (~ahead[r] /\ r \notin late /\ tree[r] # "elsewhere")

(* rebase, aborted when it does not go through.  It refuses a checkout     *)
(* with uncommitted edits; no file is in conflict then, and rebase_all     *)
(* looks at the files alone.                                               *)
Rebases(r)   == checkout[r] = "clean" /\ behind[r] # "clash"
Conflicts(r) == checkout[r] = "clean" /\ behind[r] = "clash"

(* merge-base --is-ancestor: the branch is on top of the base.             *)
OnTop(r) == behind[r] = "no"

(* The user's uncommitted files that the merge would change as well.       *)
InTheWay(r) == tree[r] = "edited"

(* merge_task_branch's preconditions.                                      *)
Mergeable(r) == branch[r] /\ ~InTheWay(r) /\ tree[r] # "elsewhere" /\ OnTop(r)

---------------------------------------------------------------------------
(* start_session: a checkout and a branch in each repository that has      *)
(* none; an error fails the task.  worktree add makes the branch first, so *)
(* one that fails may leave it.                                            *)

NotPrepared == state' = Failed(state.node, "Config", 0) /\ step' = Rest

PrepareRepo(r) ==
  /\ step.op = "prepare" /\ r \in DocsFirst(step.left)
  /\ \/ /\ ~AddsCheckout(r) /\ NotPrepared /\ GitWorks
        /\ UNCHANGED git
     \/ /\ AddsCheckout(r) /\ GitWorks
        /\ checkout' = [checkout EXCEPT ![r] = "clean"]
        /\ branch'   = [branch EXCEPT ![r] = TRUE]
        /\ behind'   = [behind EXCEPT ![r] = "no"]
        /\ Visit(r, FALSE)
        /\ UNCHANGED <<state, ahead>>
     \/ /\ AddsCheckout(r) /\ NotPrepared /\ GitFails(r)
        /\ \E made \in BOOLEAN : branch' = [branch EXCEPT ![r] = made]
        /\ behind' = [behind EXCEPT ![r] = "no"]
        /\ UNCHANGED <<checkout, ahead>>
  /\ UNCHANGED <<session, named, archived, tree, stray, late, crashes>>

Launch ==
  /\ step = Op("prepare", {})
  /\ session' = "running" /\ step' = Rest
  /\ UNCHANGED <<state, named, git, archived, world>>

---------------------------------------------------------------------------
(* The core's own steps.                                                   *)

BugStepsOnlyOnce ==
  /\ Idle /\ state.st = "Active" /\ state.node \in CoreNodes /\ crashes = 0
  /\ step' = Op(state.node, Layout)
  /\ UNCHANGED <<state, session, named, git, archived, world>>

CoreStep ==
  /\ Idle /\ state.st = "Active" /\ state.node \in CoreNodes
  /\ step' = Op(state.node, Layout)
  /\ UNCHANGED <<state, session, named, git, archived, world>>

(* A repository without a checkout fails the step, and so does git where   *)
(* it cannot run; where it runs and fails, no file is in conflict.         *)
RebaseRepo(r) ==
  /\ step.op = "Rebase" /\ r \in DocsFirst(step.left)
  /\ \/ checkout[r] = "none" /\ Ends("Failed") /\ UNCHANGED git /\ GitWorks
     \/ /\ checkout[r] # "none" /\ Visit(r, Conflicts(r)) /\ GitWorks
        /\ behind' = [behind EXCEPT ![r] = IF Rebases(r) THEN "no" ELSE @]
        /\ UNCHANGED <<state, checkout, branch, ahead>>
     \/ /\ checkout[r] # "none" /\ GitFails(r) /\ UNCHANGED git
        /\ Ends("Failed") \/ (Visit(r, FALSE) /\ UNCHANGED state)
  /\ UNCHANGED <<session, named, archived, tree, stray, late, crashes>>

RebaseDone ==
  /\ step.op = "Rebase" /\ step.left = {}
  /\ Ends(IF step.stuck THEN "Conflict" ELSE "Ok")
  /\ UNCHANGED <<session, named, git, archived, world>>

(* What the base already contains is skipped.  A repository the document   *)
(* names and no session has worked in has no branch to merge, an error     *)
(* that is found unless the tree is found elsewhere first.  A merge that   *)
(* git gives up on is undone and reported as blocked.                      *)
Contained(r) == branch[r] /\ ~ahead[r] /\ r \notin late
NoBranch(r)  == ~branch[r] /\ tree[r] # "elsewhere"

MergeRepo(r) ==
  /\ step.op = "Merging" /\ r \in DocsLast(step.left)
  /\ \/ NoBranch(r) /\ Ends("Failed") /\ UNCHANGED <<git, late>> /\ GitWorks
     \/ /\ ~NoBranch(r) /\ GitWorks
        /\ Visit(r, ~Contained(r) /\ ~Mergeable(r))
        /\ ahead'  = [ahead EXCEPT ![r] = @ /\ ~Mergeable(r)]
        /\ late'   = IF Mergeable(r) THEN late \ {r} ELSE late
        /\ behind' = [behind EXCEPT ![r] = IF ~Contained(r) /\ Mergeable(r) THEN "apart" ELSE @]
        /\ UNCHANGED <<state, checkout, branch>>
     \/ /\ ~NoBranch(r) /\ GitFails(r) /\ UNCHANGED <<git, late>>
        /\ Ends("Failed") \/ (Visit(r, TRUE) /\ UNCHANGED state)
  /\ UNCHANGED <<session, named, archived, tree, stray, crashes>>

BugDocsDecide ==
  /\ step.op = "Merging" /\ step.left = {}
  /\ Ends(IF ahead[Docs] THEN "Blocked" ELSE "Ok")
  /\ UNCHANGED <<session, named, git, archived, world>>

MergeDone ==
  /\ step.op = "Merging" /\ step.left = {}
  /\ Ends(IF step.stuck THEN "Blocked" ELSE "Ok")
  /\ UNCHANGED <<session, named, git, archived, world>>

(* Nothing is forced, and the first error ends the cleanup.                *)
BugCleansByForce(r) ==
  /\ step.op = "Cleanup" /\ r \in DocsFirst(step.left)
  /\ IF checkout[r] # "none"
     THEN /\ checkout' = [checkout EXCEPT ![r] = "none"]
          /\ UNCHANGED <<state, step, branch, ahead, behind>>
     ELSE /\ branch' = [branch EXCEPT ![r] = FALSE]
          /\ Visit(r, FALSE)
          /\ UNCHANGED <<state, checkout, ahead, behind>>
  /\ UNCHANGED <<session, named, archived, world>>

Refuses(r) ==
  \/ ~RemovesCheckout(r, FALSE)
  \/ checkout[r] = "none" /\ branch[r] /\ ~DeletesBranch(r, FALSE)

CleanRepo(r) ==
  /\ step.op = "Cleanup" /\ r \in DocsFirst(step.left)
  /\ \/ Refuses(r) /\ Ends("Failed") /\ UNCHANGED git /\ GitWorks
     \/ /\ checkout[r] = "clean" /\ GitWorks
        /\ checkout' = [checkout EXCEPT ![r] = "none"]
        /\ UNCHANGED <<state, step, branch, ahead, behind>>
     \/ /\ checkout[r] = "none" /\ ~Refuses(r) /\ GitWorks
        /\ branch' = [branch EXCEPT ![r] = FALSE]
        /\ Visit(r, FALSE)
        /\ UNCHANGED <<state, checkout, ahead, behind>>
     \/ Ends("Failed") /\ UNCHANGED git /\ GitFails(r)
  /\ UNCHANGED <<session, named, archived, tree, stray, late, crashes>>

CleanDone ==
  /\ step = Op("Cleanup", {})
  /\ Ends("Ok")
  /\ UNCHANGED <<session, named, git, archived, world>>

(* cancel_task: the documents first, while the branch that holds them      *)
(* exists.  There may be no directory of theirs to copy, and a copy that   *)
(* fails on the way is not noticed.                                        *)
Archive ==
  /\ step.op = "archive"
  /\ archived' \in IF checkout[Docs] = "none" THEN {archived} ELSE {"whole", "part", "nothing"}
  /\ step' = Op("cancel", step.left)
  /\ UNCHANGED <<state, session, named, git, world>>

(* Then every checkout and branch, by force.  What fails is not noticed    *)
(* either: the next command and the next repository have their turn.  A    *)
(* branch whose checkout is still registered is not deleted.               *)
DiscardRepo(r) ==
  /\ step.op = "cancel" /\ r \in DocsFirst(step.left)
  /\ \/ /\ checkout[r] # "none" /\ RemovesCheckout(r, TRUE) /\ GitWorks
        /\ checkout' = [checkout EXCEPT ![r] = "none"]
        /\ UNCHANGED <<step, branch>>
     \/ /\ checkout[r] = "none" /\ GitWorks
        /\ branch' = [branch EXCEPT ![r] = @ /\ ~DeletesBranch(r, TRUE)]
        /\ Visit(r, FALSE)
        /\ UNCHANGED checkout
     \/ /\ GitFails(r)
        /\ \E left \in BOOLEAN : branch' = [branch EXCEPT ![r] = @ /\ left]
        /\ Visit(r, FALSE)
        /\ UNCHANGED checkout
  /\ UNCHANGED <<state, session, named, ahead, behind, archived, tree, stray, late, crashes>>

Discarded ==
  /\ step = Op("cancel", {})
  /\ step' = Rest
  /\ UNCHANGED <<state, session, named, git, archived, world>>

---------------------------------------------------------------------------
Core ==
  \/ Begins \/ Reap \/ Redispatch \/ Launch \/ CoreStep
  \/ \E r \in Repos : PrepareRepo(r) \/ RebaseRepo(r) \/ MergeRepo(r) \/ CleanRepo(r)
                      \/ DiscardRepo(r)
  \/ RebaseDone \/ MergeDone \/ CleanDone \/ Archive \/ Discarded

User == \E button \in Presses : Press(button)

World ==
  \/ SessionWorks \/ SessionEnds \/ Crash
  \/ \E r \in Repos : \/ BaseMoves(r) \/ EditTree(r) \/ MendTree(r)
                       \/ EditCheckout(r) \/ StrayCommits(r)

Next == Core \/ User \/ World

Spec == Init /\ [][Next]_vars

(* A tick follows every change and comes at intervals: the core always     *)
(* gets on with what it has to do.                                         *)
FairSpec == Spec /\ WF_vars(Core)

(* The same, with a user who, asked to merge, presses merge.               *)
WillingSpec == FairSpec /\ WF_vars(Press("merge"))

---------------------------------------------------------------------------
(* Properties.                                                             *)

(* Every variable has its type, and an operation in progress belongs to    *)
(* the state the task is in: a step that fails is over.                    *)
TypeOK ==
  /\ state \in TaskStates
  /\ session \in {"none", "running", "ended"}
  /\ named \subseteq Repos
  /\ checkout \in [Repos -> {"none", "clean", "dirty"}]
  /\ {branch, ahead} \subseteq [Repos -> BOOLEAN]
  /\ behind \in [Repos -> {"no", "apart", "clash"}]
  /\ tree \in [Repos -> {"ok", "edited", "elsewhere"}]
  /\ archived \in {"no", "whole", "part", "nothing"}
  /\ stray \in BOOLEAN /\ late \subseteq Repos /\ failed \subseteq Repos
  /\ step \in [op : {"none", "prepare", "archive", "cancel"} \cup CoreNodes,
               left : SUBSET Repos, stuck : BOOLEAN]
  /\ step.op \in CoreNodes => state = Active(step.op)
  /\ step.op = "prepare" => state.st = "Active" /\ state.node \in SessionNodes
  /\ step.op \in {"archive", "cancel"} => state = Cancelled
  /\ meddled \in 0..MaxMeddled /\ crashes \in 0..MaxCrashes

(* A task that is done has landed: every repository a session ever         *)
(* committed in has its work in the base, whatever the last version of the *)
(* document names, and however often the merge was blocked, failed, was    *)
(* pressed again or cut short.  What a process that outlived a stop        *)
(* commits once the merge has passed is not awaited by any step.           *)
DoneLandsEverything == state = Done => \A r \in Repos : ~ahead[r]

(* Work that has not landed, committed or not, a stopped session's too, is *)
(* never thrown away but by a cancel: cleanup deletes nothing by force and *)
(* no checkout is made anew over an old branch.  And a cancel throws away  *)
(* the documents' branch only after it has tried to copy them.             *)
Lost(r) ==
  \/ checkout[r] = "dirty" /\ checkout'[r] = "none"
  \/ (ahead[r] \/ r \in late) /\ branch[r] /\ ~branch'[r]
  \/ ahead[r] /\ ~ahead'[r] /\ step.op # "Merging"

NothingDestroyed ==
  [][ /\ \A r \in Repos : Lost(r) => state = Cancelled
      /\ branch[Docs] /\ ~branch'[Docs] /\ ahead[Docs] => archived # "no" ]_vars

(* It does not hold that the copy is then whole: cancel_task deletes the   *)
(* branch whatever became of it (scheduler.rs:1695).                       *)
CopiedBeforeDeleted ==
  [][branch[Docs] /\ ~branch'[Docs] /\ ahead[Docs] => archived = "whole"]_vars

(* A cancel that was not cut short leaves a checkout or a branch only in a *)
(* repository where git itself has failed: one that fails does not keep it *)
(* from the others, and one the document has stopped naming is not         *)
(* forgotten.                                                              *)
Cleared(r) == checkout[r] = "none" /\ ~branch[r]

CancelReachesAll ==
  state = Cancelled /\ Idle /\ crashes = 0 => \A r \in Repos : Cleared(r) \/ r \in failed

(* It does not hold that it leaves none at all: what fails is ignored, and *)
(* the cancelled task is archived over what is left (scheduler.rs:1705).   *)
CancelLeavesNothing ==
  state = Cancelled /\ Idle /\ crashes = 0 => \A r \in Repos : Cleared(r)

(* A step the core runs itself comes to an end, even if the core dies in   *)
(* the middle of it.                                                       *)
CoreStepsEnd == \A n \in CoreNodes : state = Active(n) ~> state # Active(n)

(* The documents are merged last: the base never holds the record of work  *)
(* it does not hold (merge_all's own comment).                             *)
DocsLandLast ==
  [][ahead[Docs] /\ ~ahead'[Docs] => \A r \in Repos : ~ahead'[r]]_vars

(* A user who keeps pressing merge gets it merged, or the task sent back.  *)
(* It does not hold of a base that has moved since the rebase: the merge   *)
(* is blocked, and no button leads back to a rebase (task.rs:864).         *)
PressedMergeLands ==
  state = Active("AwaitMerge") ~> state # Active("AwaitMerge") /\ state # Active("Merging")

(* What holds besides at every moment, whatever is pressed, edited or cut  *)
(* short; WorkspaceMergeProofs proves it.  A session belongs to the node   *)
(* the task is at, and no operation runs beside it.                        *)
SessionAtItsNode ==
  session # "none" => state.st = "Active" /\ state.node \in SessionNodes /\ step.op = "none"

(* Work that has not landed is in a checkout, where working_repos looks.   *)
WorkIsCheckedOut == state # Cancelled => \A r \in Repos : ahead[r] => checkout[r] # "none"

(* A merge in progress has still to visit it, or will be reported blocked. *)
MergeComesToIt ==
  step.op = "Merging" => \A r \in Repos : ahead[r] => r \in step.left \/ step.stuck

(* The cleanup begins when everything has landed.                          *)
CleanupAfterAll == state \in {Active("Cleanup"), Done} => \A r \in Repos : ~ahead[r]

(* A cancel discards the documents after it has tried to copy them.        *)
ArchivedFirst ==
  /\ step.op = "archive" /\ ahead[Docs] => checkout[Docs] # "none"
  /\ step.op = "cancel"  /\ ahead[Docs] => archived # "no"

(* Until the core dies, a branch lives as long as its checkout, but for    *)
(* the moment between the two that a cleanup or a cancel takes and for     *)
(* what git has failed in.                                                 *)
Remains(r) == checkout[r] # "none" \/ branch[r]

BranchesInReach ==
  crashes = 0 =>
    /\ state \notin {Done, Cancelled} /\ step.op # "Cleanup" =>
         \A r \in Repos : branch[r] => checkout[r] # "none" \/ r \in failed
    /\ state = Cancelled => \A r \in Repos : Remains(r) => r \in step.left \cup failed

Inductive ==
  /\ TypeOK /\ SessionAtItsNode /\ WorkIsCheckedOut /\ MergeComesToIt
  /\ CleanupAfterAll /\ ArchivedFirst /\ BranchesInReach
=============================================================================
