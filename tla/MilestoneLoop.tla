--------------------------- MODULE MilestoneLoop ---------------------------
(***************************************************************************)
(* The loop of one task seen from its design document: the milestone table *)
(* the rounds write, the guards that admit a round's output, the snapshots *)
(* they compare it with, the budget N, and the user's decisions about the  *)
(* Backlog and the disputes.  crates/automed/src/scheduler.rs              *)
(* (apply_guards, advance, sync_decisions, perform), guards.rs, the        *)
(* decisions of store.rs, and autome-domain's status_block.rs.             *)
(*                                                                         *)
(* advance writes its results to the store one statement after the other;  *)
(* each is a step here, and the core may die between two of them.          *)
(***************************************************************************)
EXTENDS TaskMachine, FiniteSets

CONSTANTS
  Milestones, \* identifiers the milestone table may hold
  Backlog,    \* identifiers of Backlog items
  Disputes,   \* identifiers of disputes
  Enabled,    \* the roles that are enabled, of those that may be left out
  Factor,     \* budget_factor
  Presses,    \* the triggers the user may press
  Slips,      \* what a session may get wrong: "closes", "closesNew", "noEvidence",
              \* "fails", "miscounts"
  CrashIn,    \* the writes the core may die before
  MaxCrashes, \* bound: crashes of the core
  MaxBudget,  \* the limit documents state; bound: no extension from here on
  MaxRounds   \* bound: the document's round count goes no further, and rebases are clean from here on

Items == Backlog \cup Disputes
Cells == {"absent", "Open", "Pending", "Done"}
Table == [Milestones -> Cells]

ASSUME LoopConstants ==
  /\ IsFiniteSet(Milestones) /\ IsFiniteSet(Items) /\ Backlog \cap Disputes = {}
  /\ Enabled \subseteq {"Audit", "Retro"}
  /\ Factor \in Nat \ {0} /\ {MaxCrashes, MaxBudget, MaxRounds} \subseteq Nat

VARIABLES
  state,   \* store: the task's state
  budget,  \* store: the task's N, NoBudget before it is computed
  rows,    \* store: the decision rows
  before,  \* store: the last task.snapshot event, NoSnapshot before the first
  table,   \* the design document: its milestones
  round,   \* the design document: implementation-round
  listed,  \* the design document: its Backlog and its disputes
  session, \* "none", "running", "ended"
  outcome, \* how the session to be reaped ended, and what the guards make of it
  job,     \* core: what the operation in progress has left to do
  crashes, \* how often the core has died
  audited, \* history: the milestones whose closing an audit wrote
  paid,    \* history: the items that have been added to N
  absorbed,\* history: the items consumed on the way into an implementation round
  told     \* history: the items whose decision a session has been given

document == <<table, round, listed>>
history  == <<audited, paid, absorbed, told>>
vars     == <<state, budget, rows, before, document, session, outcome, job, crashes, history>>

---------------------------------------------------------------------------
(* Decisions: store.rs.                                                    *)

NoRow == [there |-> FALSE, disp |-> "None", consumed |-> FALSE]
Rows  == [there : BOOLEAN, disp : {"None", "Include", "Ignore", "Ruled"}, consumed : BOOLEAN]

Waiting(disps) == {i \in Items : rows[i].disp \in disps /\ ~rows[i].consumed}
Decided        == Waiting({"Include", "Ignore", "Ruled"})

(* sync_decisions: a row for every item of the document; one that is gone  *)
(* from it goes, unless the user has said something about it.              *)
BugForgetsDecided(rs) ==
  [i \in Items |-> IF i \in listed THEN [rs[i] EXCEPT !.there = TRUE]
                   ELSE IF rs[i].consumed THEN rs[i] ELSE NoRow]
Synced(rs) ==
  [i \in Items |-> IF i \in listed THEN [rs[i] EXCEPT !.there = TRUE]
                   ELSE IF rs[i].disp = "None" /\ ~rs[i].consumed THEN NoRow ELSE rs[i]]

(* consume_decisions.                                                      *)
Consumed(rs) == [i \in Items |-> [rs[i] EXCEPT !.consumed = @ \/ rs[i].disp # "None"]]

PendingIn(rs, disp) == Cardinality({i \in Items : rs[i].disp = disp /\ ~rs[i].consumed})

Context(rs) == [enabled |-> Enabled, factor |-> Factor, budget |-> budget,
                included |-> PendingIn(rs, "Include"), ruled |-> PendingIn(rs, "Ruled")]

---------------------------------------------------------------------------
(* The document, as the parser hands it on; the design loop's own rounds   *)
(* are not the subject here.                                               *)

Present(t) == {m \in Milestones : t[m] # "absent"}
AllDone(t) == Present(t) # {} /\ \A m \in Present(t) : t[m] = "Done"
NoneOpen(t) == Present(t) # {} /\ \A m \in Present(t) : t[m] # "Open"

Block(unfinished, counted) ==
  [status |-> "Implementing", designRound |-> 1, designLimit |-> 1, implRound |-> counted,
   implLimit |-> MaxBudget, open |-> ~NoneOpen(table), unfinished |-> unfinished,
   milestones |-> Cardinality(Present(table))]
BugPendingIsDone     == Block(~NoneOpen(table), round)
BugReadsDesignRounds == Block(~AllDone(table), 1)
StatusBlock          == Block(~AllDone(table), round)

---------------------------------------------------------------------------
(* The guards: guards.rs.                                                  *)

NoSnapshot == <<>>

(* impl_closed_milestone: what was there before, and not closed, and is.   *)
BugOpenOnesOnly == {m \in DOMAIN before : before[m] = "Open" /\ table[m] = "Done"}
ClosedByImpl == {m \in DOMAIN before : before[m] \notin {"absent", "Done"} /\ table[m] = "Done"}

(* impl_had_a_target: a round needs something open, or nothing unfinished. *)
HadTarget ==
  \/ \E m \in DOMAIN before : before[m] = "Open"
  \/ \A m \in DOMAIN before : before[m] \in {"absent", "Done"}

(* audit_moved_the_table: something awaits the audit, and nothing moved.   *)
Stalled == before = table /\ \E m \in Milestones : table[m] = "Pending"

(* evidence_missing is the session's doing altogether.                     *)
Admits(node) ==
  CASE node = "Implement" -> ClosedByImpl = {} /\ HadTarget
    [] node = "Audit"     -> ~Stalled
    [] OTHER              -> TRUE

---------------------------------------------------------------------------
(* The order in which advance writes.                                      *)

Steps == {"none", "guards", "advance", "budget", "consume", "start"}
BugConsumesFirst == [guards |-> "advance", advance |-> "consume", consume |-> "budget",
                     budget |-> "start", start |-> "none"]
Then == [guards |-> "advance", advance |-> "budget", budget |-> "consume",
         consume |-> "start", start |-> "none"]

Job(todo, tr, approving) == [todo |-> todo, tr |-> tr, approving |-> approving]
Idle    == job.todo = "none"
Resting == Job("none", Rejected, FALSE)

(* The state is stored first; the rest of the transition is owed.          *)
Commit(tr, approving) ==
  /\ tr.ok
  /\ state' = tr.next
  /\ job'   = Job(Then["advance"], tr, approving)

GoesOn == job' = IF job.todo = "start" THEN Resting ELSE [job EXCEPT !.todo = Then[@]]

Init ==
  /\ state = Queued /\ budget = NoBudget /\ rows = [i \in Items |-> NoRow]
  /\ before = NoSnapshot /\ table = [m \in Milestones |-> "absent"] /\ round = 0 /\ listed = {}
  /\ session = "none" /\ outcome = "Ok" /\ job = Resting /\ crashes = 0
  /\ audited = {} /\ paid = {} /\ absorbed = {} /\ told = {}

---------------------------------------------------------------------------
(* Sessions.  A round edits the table, counts itself, lists what it found, *)
(* and ends.  The count is text like the rest of the document: no guard    *)
(* compares it with the one before, and a round may forget itself, or any  *)
(* session write another number.                                           *)

Counts(node) ==
  {IF node = "Implement" /\ round < MaxRounds THEN round + 1 ELSE round}
    \cup (IF "miscounts" \in Slips THEN 0..MaxRounds ELSE {})

Edits(node) ==
  CASE node = "Design"    -> {<<"absent", "Open">>}
    [] node = "Implement" ->
         {<<"Open", "Pending">>, <<"absent", "Open">>}
           \cup (IF "closes"    \in Slips THEN {"Open", "Pending"} \X {"Done"} ELSE {})
           \cup (IF "closesNew" \in Slips THEN {<<"absent", "Done">>} ELSE {})
    [] node = "Audit"     -> {"Pending"} \X {"Done", "Open"} \cup {<<"Done", "Open">>}
    [] OTHER              -> {}

SessionEnds ==
  /\ session = "running" /\ state.st = "Active"
  /\ session' = "ended"
  /\ table' \in Table
  /\ \A m \in Milestones : table'[m] = table[m] \/ <<table[m], table'[m]>> \in Edits(state.node)
  /\ state.node # "Intake" => Present(table') # {}
  /\ listed' \in IF state.node = "Intake" THEN {listed} ELSE SUBSET Items
  /\ round' \in Counts(state.node)
  /\ outcome' \in {"Ok"} \cup (IF "fails" \in Slips THEN {"Crashed", "Unparseable"} ELSE {})
                         \cup (IF "noEvidence" \in Slips /\ state.node \in {"Implement", "Audit"}
                               THEN {"GuardFailed"} ELSE {})
  /\ audited' = {m \in Milestones : /\ table'[m] = "Done"
                                    /\ m \in audited \/ (state.node = "Audit" /\ table[m] # "Done")}
  /\ UNCHANGED <<state, budget, rows, before, job, crashes, paid, absorbed, told>>

(* reap_session closes the session's row before it looks at the result.    *)
Reap ==
  /\ Idle /\ session = "ended"
  /\ session' = "none"
  /\ job' = Job("guards", Rejected, FALSE)
  /\ UNCHANGED <<state, budget, rows, before, document, outcome, crashes, history>>

---------------------------------------------------------------------------
(* The steps of the core.                                                  *)

Read(oc) == oc \in {"Ok", "GuardFailed"}

(* apply_guards, for a document that can be read and a session with a      *)
(* role: the verdict, and the snapshot for the next round to be compared   *)
(* with, whatever the verdict.                                             *)
Guards ==
  /\ job.todo = "guards"
  /\ IF Read(outcome) /\ state.node \in RoleNodes
     THEN /\ before'  = table
          /\ outcome' = IF Admits(state.node) THEN outcome ELSE "GuardFailed"
     ELSE UNCHANGED <<before, outcome>>
  /\ GoesOn
  /\ UNCHANGED <<state, budget, rows, document, session, crashes, history>>

(* advance, up to the stored state.                                        *)
Advance ==
  /\ job.todo = "advance"
  /\ rows' = IF outcome = "Ok" THEN Synced(rows) ELSE rows
  /\ Commit(OnSessionEnded(state, outcome, Context(rows'), StatusBlock), FALSE)
  /\ outcome' = "Ok"
  /\ UNCHANGED <<budget, before, document, session, crashes, history>>

WriteBudget ==
  /\ job.todo = "budget"
  /\ budget' = ResolveBudget(job.tr, job.approving, Context(rows), Cardinality(Present(table)))
  /\ paid' = IF job.tr.consumes /\ job.tr.budget # NoBudget THEN paid \cup Waiting({"Include"})
                                                             ELSE paid
  /\ GoesOn
  /\ UNCHANGED <<state, rows, before, document, session, outcome, crashes, audited, absorbed, told>>

WriteConsumed ==
  /\ job.todo = "consume"
  /\ rows' = IF job.tr.consumes THEN Consumed(rows) ELSE rows
  /\ absorbed' = IF job.tr.consumes /\ job.tr.next = Active("Implement")
                 THEN absorbed \cup Waiting({"Include"}) ELSE absorbed
  /\ GoesOn
  /\ UNCHANGED <<state, budget, before, document, session, outcome, crashes, audited, paid, told>>

(* start_session reads the decisions it hands to a round with a role when  *)
(* it writes the prompt and the brief.                                     *)
Starts(node) ==
  /\ session' = "running"
  /\ told' = IF node \in RoleNodes THEN told \cup Decided ELSE told

PerformAction ==
  /\ job.todo = "start"
  /\ IF job.tr.action = "Start" THEN Starts(state.node) ELSE UNCHANGED <<session, told>>
  /\ GoesOn
  /\ UNCHANGED <<state, budget, rows, before, document, outcome, crashes, audited, paid, absorbed>>

(* A rebase may leave conflicts for the loop, a merge may be blocked.      *)
StepResult(node) ==
  CASE node = "Rebase"  -> {"Ok"} \cup (IF round < MaxRounds THEN {"Conflict"} ELSE {})
    [] node = "Merging" -> {"Ok", "Blocked"}
    [] OTHER            -> {"Ok"}

CoreStep ==
  /\ Idle /\ state.st = "Active" /\ state.node \in CoreNodes
  /\ \E result \in StepResult(state.node) : Commit(OnCoreStepDone(state, state.node, result), FALSE)
  /\ UNCHANGED <<budget, rows, before, document, session, outcome, crashes, history>>

Begins ==
  /\ Idle /\ Commit(OnSlotAvailable(state), FALSE)
  /\ UNCHANGED <<budget, rows, before, document, session, outcome, crashes, history>>

(* recover: a session node without a session is started again, without the *)
(* injection the transition had.                                           *)
Redispatch ==
  /\ Idle /\ session = "none" /\ state.st = "Active" /\ state.node \in SessionNodes
  /\ Starts(state.node)
  /\ UNCHANGED <<state, budget, rows, before, document, outcome, job, crashes,
                 audited, paid, absorbed>>

Crash ==
  /\ job.todo \in CrashIn /\ crashes < MaxCrashes
  /\ crashes' = crashes + 1
  /\ job' = Resting
  /\ UNCHANGED <<state, budget, rows, before, document, session, outcome, history>>

---------------------------------------------------------------------------
(* The user.                                                               *)

Pressed(button) ==
  CASE button = "approve" -> OnApprove(state, Context(rows))
    [] button = "reject"  -> OnReject(state)
    [] button = "merge"   -> OnMerge(state, Context(rows))
    [] button = "extend"  -> IF state.limit < MaxBudget THEN OnExtendBudget(state, 1, Context(rows))
                                                   ELSE Rejected
    [] button = "rerun"   -> OnRerunFrom(state, state.node,
                                         [Context(rows) EXCEPT !.enabled = RoleNodes])
    [] OTHER              -> Rejected

Press(button) ==
  /\ Idle
  /\ Commit(Pressed(button), button = "approve")
  /\ UNCHANGED <<budget, rows, before, document, session, outcome, crashes, history>>

(* task_decide: any row that is not consumed, again and again.             *)
Decide(i) ==
  /\ Idle
  /\ rows[i].there /\ ~rows[i].consumed
  /\ \E disp \in {"None"} \cup (IF i \in Backlog THEN {"Include", "Ignore"} ELSE {"Ruled"}) :
       rows' = [rows EXCEPT ![i].disp = disp]
  /\ UNCHANGED <<state, budget, before, document, session, outcome, job, crashes, history>>

---------------------------------------------------------------------------
Core == \/ Reap \/ Guards \/ Advance \/ WriteBudget \/ WriteConsumed \/ PerformAction
        \/ CoreStep \/ Begins \/ Redispatch

User == (\E button \in Presses : Press(button)) \/ (\E i \in Items : Decide(i))

Next == Core \/ SessionEnds \/ User \/ Crash

Spec == Init /\ [][Next]_vars

(* A tick follows every change, and a session ends.                        *)
FairSpec == Spec /\ WF_vars(Core) /\ WF_vars(SessionEnds)

---------------------------------------------------------------------------
(* Properties.                                                             *)

(* Every variable has its type; nothing is owed while a session runs.      *)
TypeOK ==
  /\ state \in TaskStates /\ budget \in Nat
  /\ rows \in [Items -> Rows]
  /\ before \in Table \cup {NoSnapshot} /\ table \in Table
  /\ round \in 0..MaxRounds /\ listed \subseteq Items
  /\ session \in {"none", "running", "ended"}
  /\ outcome \in {"Ok", "Crashed", "Unparseable", "GuardFailed"}
  /\ job.todo \in Steps /\ job.approving \in BOOLEAN
  /\ session = "running" => Idle
  /\ crashes \in 0..MaxCrashes
  /\ audited \subseteq Milestones /\ {paid, absorbed, told} \subseteq SUBSET Items

(* The task has left the implementation loop, for the merge.               *)
PastTheLoop == \/ state.st = "Active" /\ state.node \in {"Retro", "AwaitMerge"} \cup CoreNodes
               \/ state = Done

(* An implementation round never closes a milestone, only an audit does    *)
(* (status_block.rs, MilestoneState): none goes to the merge whose closing *)
(* an implementation round wrote.                                          *)
OnlyAuditCloses == PastTheLoop => \A m \in Milestones : table[m] = "Done" => m \in audited

(* What is offered for the merge is finished, however often a rebase sent  *)
(* it back, the user included one thing more or the budget was extended.   *)
FinishedBeforeMerge == PastTheLoop => AllDone(table)

(* A round of the implementation loop is compared with the table it was    *)
(* given, not with an older one: what a guard holds against it, it did.    *)
ComparedWithItsStart ==
  session = "running" /\ state.node \in {"Implement", "Audit"} => before = table

(* What the user has decided stands until it is consumed or the user       *)
(* changes it, whatever the rounds do to the list it came from; what is    *)
(* consumed stays as it was.                                               *)
UserWordStands ==
  [][\A i \in Items : rows[i].disp # "None" /\ (Idle => job' # job)
        => rows'[i] \in {rows[i], [rows[i] EXCEPT !.consumed = TRUE]}]_vars

(* The work of an included item is added to N before the item counts as    *)
(* consumed, even if the core dies in between: no implementation round     *)
(* absorbs one out of the original N.                                      *)
AbsorbedIsPaid == absorbed \subseteq paid

(* The loop stops by a count that the sessions write.  As long as that     *)
(* count grows from some time on (every implementation round raises it and *)
(* no session lowers it), whatever it was before, the loop comes to an end *)
(* in the merge or in a failure, through every crash, conflict and         *)
(* extension (task.rs:738, task.rs after_implement_without_audit).         *)
InTheLoop == state \in {Active("Implement"), Active("Audit")}

CountGrows ==
  session' = "ended" /\ session = "running" =>
    /\ round' >= round
    /\ state.node = "Implement" => round' > round \/ round' = MaxRounds

LoopEnds == <>[][CountGrows]_vars => (InTheLoop ~> ~InTheLoop)

(* That the count grows is left to the sessions, although the core is said *)
(* to check that it is monotonic (technical-design.md, 5.5): without it an *)
(* implementation round that leaves it as it was is followed by an audit   *)
(* and by the next one for ever, and this does not hold.                   *)
LoopAlwaysEnds == InTheLoop ~> ~InTheLoop

(* A decision is given to the round that is to act on it (task.rs,         *)
(* Inject::Decisions; launcher.rs, PromptSpec): none is consumed that no   *)
(* session has ever been told of.  It does not hold of a core that dies    *)
(* after consume_decisions and before the session is launched: recovery    *)
(* launches the round without them (scheduler.rs:772, scheduler.rs:1152).  *)
ConsumedIsTold == Idle => \A i \in Items : rows[i].consumed => i \in told

---------------------------------------------------------------------------
(* What is true at every moment besides, and makes the safety properties   *)
(* above inductive: MilestoneLoopProofs proves it.                         *)

(* A session runs, or waits to be reaped, for the node the task is at, and *)
(* the core owes nothing meanwhile; its result is looked at there.         *)
SessionAtItsNode ==
  /\ session # "none" => Idle /\ state.st = "Active" /\ state.node \in SessionNodes
  /\ job.todo \in {"guards", "advance"} => state.st = "Active" /\ state.node \in SessionNodes

(* What is owed is owed to the state that was stored.                      *)
OwedToTheState == job.todo \in {"budget", "consume", "start"} => state = job.tr.next

(* Only an item that has a row is decided.                                 *)
DecidedAreThere == \A i \in Items : rows[i].disp # "None" => rows[i].there

(* A transition that takes items into an implementation round raises N,    *)
(* and has done so when it comes to consume them.                          *)
PaysFirst ==
  job.tr.consumes /\ job.tr.next = Active("Implement") =>
    /\ job.todo = "budget" => job.tr.budget # NoBudget
    /\ job.todo = "consume" => Waiting({"Include"}) \subseteq paid

(* Whatever has gone past the loop has a finished table, and keeps it when *)
(* it fails there.                                                         *)
FinishedSinceTheLoop ==
  state.node \in {"Retro", "AwaitMerge"} \cup CoreNodes \/ state = Done => AllDone(table)

(* The round before failed, by its own doing.                              *)
RoundFailed == state.st = "Failed" /\ state.reason \in {"SessionCrashed", "Protocol"}

(* Outside of a round and its reaping, the snapshot is the table, unless   *)
(* the round failed or the table is about to be written for the first time.*)
SnapshotIsTable ==
  \/ before = table
  \/ session = "ended" \/ job.todo = "guards"
  \/ job.todo = "advance" /\ outcome # "Ok"
  \/ RoundFailed
  \/ state \in {Queued, Active("Intake")}
  \/ state = Active("Design") /\ job.todo # "advance"

(* A closing no audit wrote is one the guard of this very round still has  *)
(* to see, or has seen.                                                    *)
Unaudited == {m \in Milestones : table[m] = "Done" /\ m \notin audited}
ClosingsAreSeen ==
  \/ Unaudited = {}
  \/ /\ session = "ended" \/ job.todo = "guards"
     /\ state.node = "Implement" /\ Unaudited \subseteq ClosedByImpl
  \/ job.todo = "advance" /\ outcome # "Ok" /\ state.node = "Implement"
  \/ RoundFailed

(* No round is started again over what it, or a lost one, has left behind. *)
Calm == "rerun" \notin Presses /\ CrashIn \cap {"guards", "advance"} = {}

=============================================================================
