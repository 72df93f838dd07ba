----------------------------- MODULE Scheduler -----------------------------
(***************************************************************************)
(* The core of automed: one project's tasks, the sessions that run for     *)
(* them, the scheduling pass (tick), the user's commands and a restart.    *)
(* crates/automed/src/scheduler.rs, with the parts of store.rs,            *)
(* dispatch.rs, launcher.rs and session.rs it is made of.                  *)
(*                                                                         *)
(* The core is one thread: it handles a command or a tick to its end       *)
(* before it reads the next.  It is cut here where something outside it    *)
(* can come between two of its steps: a session ending, the user editing   *)
(* the configuration files, or the core dying.  phase says what the core   *)
(* is in the middle of, pend which effect of it is still outstanding.      *)
(***************************************************************************)
EXTENDS TaskMachine, FiniteSets

CONSTANTS
  Tasks,          \* the tasks the user may submit
  Sids,           \* session ids; one is free again once its row is closed and its process gone
  NoTask, NoSid,  \* stand for "none"
  ParallelLimit,  \* the project's parallel_limit, at least 1
  Factor,         \* loop_defaults.budget_factor
  Enabled,        \* the roles the configuration enables, by node
  Docs,           \* the status blocks a session may leave in the design document
  Presses,        \* the triggers the user may press
  RerunNodes,     \* the nodes the user may ask to re-run from
  ExtraRounds,    \* the rounds the user may add to a budget
  MaxDecided,     \* bound: decisions of one kind waiting at a time
  MaxBudget,      \* bound: the budget past which the user extends no more
  MaxCrashes,     \* bound: crashes of the core
  ConfigEdits,    \* whether the user edits the configuration into and out of an invalid one
  LaunchFailures, \* whether start_session may fail
  PidSeen,        \* what read_pid may answer: TRUE, the pid; FALSE, None after its two seconds
  CarefulUser     \* whether the user restarts a task only when none of its sessions runs

ASSUME SchedulerConstants ==
  /\ IsFiniteSet(Tasks) /\ NoTask \notin Tasks /\ NoSid \notin Sids
  /\ ParallelLimit \in Nat \ {0} /\ Factor \in Nat \ {0}
  /\ Enabled \subseteq RoleNodes /\ RerunNodes \subseteq Nodes /\ ExtraRounds \subseteq Nat
  /\ MaxDecided \in Nat /\ MaxBudget \in Nat /\ MaxCrashes \in Nat
  /\ {ConfigEdits, LaunchFailures, CarefulUser} \subseteq BOOLEAN
  /\ PidSeen \subseteq BOOLEAN /\ PidSeen # {}
  /\ \A d \in Docs : /\ {d.designRound, d.designLimit, d.implRound, d.implLimit,
                         d.milestones} \subseteq Nat
                     /\ {d.open, d.unfinished} \subseteq BOOLEAN

VARIABLES
  task,      \* store: the state of each task, Absent before it is submitted
  created,   \* store: created_at, as the number of the task's submission
  budget,    \* store: budget_n, NoBudget before it is computed
  decided,   \* store: decisions taken and not consumed, [included, ruled]
  sess,      \* sessions: their row in the store and their process
  worktree,  \* whether the task's checkout exists
  merged,    \* whether the branch is in the base with no loop session started since
  configOk,  \* whether the configuration files are valid now
  crashes,   \* how often the core has died
  recovered, \* core: whether this process has run its first tick
  phase,     \* core: what it is in the middle of
  todoT,     \* core: tasks left to visit in this phase
  todoS,     \* core: sessions left to visit in this phase
  queue,     \* core: queued tasks left to visit in fill_slots
  inUse,     \* core: fill_slots' count of the slots in use
  pend       \* core: the outstanding step of the operation in progress

store == <<task, created, budget, decided>>
outside == <<sess, worktree, merged, configOk, crashes>>
core == <<recovered, phase, todoT, todoS, queue, inUse, pend>>
vars == <<store, outside, core>>

---------------------------------------------------------------------------
(* Sessions.  row: the store has a running row for it.  proc: "alive";     *)
(* "ok" or "err", exited and left its marker; "gone", died without one;    *)
(* "none", the id is free.  kind is the node it runs for.                  *)

Absent == State("Absent", "none")

FreeSession == [row |-> FALSE, proc |-> "none", task |-> NoTask, kind |-> "none", pid |-> FALSE]

Rows(t)     == {s \in Sids : sess[s].row /\ sess[s].task = t}
BugReapsActiveOnly == {s \in Sids : sess[s].row /\ task[sess[s].task].st = "Active"}
RunningRows == {s \in Sids : sess[s].row}
FreeSids    == {s \in Sids : sess[s] = FreeSession}

(* finish_session: the row is closed; the id is free unless the process is *)
(* still there.                                                            *)
CloseRow(r)  == IF r.proc = "alive" THEN [r EXCEPT !.row = FALSE] ELSE FreeSession

(* session.rs classify: a marker says it exited; a live pid that it runs;  *)
(* without either it runs on until its log has been idle for ten minutes.  *)
Exited(r)    == r.proc \in {"ok", "err"}
BugPidIgnored(r) == r.proc \in {"gone", "alive"}
MayVanish(r) == r.proc = "gone" \/ (r.proc = "alive" /\ ~r.pid)

---------------------------------------------------------------------------
(* The outstanding step.  op: "none"; "press", the trigger `what` after    *)
(* the session was stopped; "ended", a closed session's result, `good`     *)
(* when it exited with 0; "launch" and "insert", a session of node `what`  *)
(* to start, then to record, `good` when advance asked for it; "stepped", *)
(* the result `what` of a core step; "cancel", a checkout to remove.       *)

Pending(op, t, s, what, good) == [op |-> op, task |-> t, sid |-> s, what |-> what, good |-> good]
NoOp == Pending("none", NoTask, NoSid, "none", FALSE)

Context(t) == [enabled |-> Enabled, factor |-> Factor, budget |-> budget[t],
               included |-> decided[t].included, ruled |-> decided[t].ruled]

SlotsInUse(ts) == Cardinality({t \in Tasks : OccupiesSlot(ts[t])})
(* queued_tasks: oldest first.                                             *)
QueuedTasks == {t \in Tasks : task[t].st = "Queued"}
Oldest(q) == {t \in q : \A u \in q : created[t] <= created[u]}

(* advance: with an invalid configuration or a rejected trigger it changes *)
(* nothing.  Otherwise it stores the new state, the budget and the         *)
(* consumed decisions, and only then is the action performed.              *)
Advances(tr) == configOk /\ tr.ok

Effect(t, tr) ==
  CASE tr.action = "Start"     -> Pending("launch", t, NoSid, tr.next.node, TRUE)
    [] tr.action = "RunCancel" -> Pending("cancel", t, NoSid, "none", TRUE)
    [] OTHER                   -> NoOp

Commit(t, tr, approving, milestones) ==
  /\ task'    = [task EXCEPT ![t] = tr.next]
  /\ budget'  = [budget EXCEPT ![t] = ResolveBudget(tr, approving, Context(t), milestones)]
  /\ decided' = IF tr.consumes
                THEN [decided EXCEPT ![t] = [included |-> 0, ruled |-> 0]] ELSE decided
  /\ pend'    = Effect(t, tr)
  /\ UNCHANGED created

Errs == pend' = NoOp /\ UNCHANGED store
---------------------------------------------------------------------------
Init ==
  /\ task      = [t \in Tasks |-> Absent]
  /\ created   = [t \in Tasks |-> 0]
  /\ budget    = [t \in Tasks |-> NoBudget]
  /\ decided   = [t \in Tasks |-> [included |-> 0, ruled |-> 0]]
  /\ sess      = [s \in Sids |-> FreeSession]
  /\ worktree  = [t \in Tasks |-> FALSE]
  /\ merged    = [t \in Tasks |-> FALSE]
  /\ configOk  = TRUE
  /\ crashes   = 0
  /\ recovered = FALSE
  /\ phase = "idle" /\ todoT = {} /\ todoS = {} /\ queue = {} /\ inUse = 0
  /\ pend = NoOp

Idle == phase = "idle" /\ pend = NoOp
In(p) == phase = p /\ pend = NoOp

---------------------------------------------------------------------------
(* The world outside the core.                                             *)

(* The wrapper writes the marker, or the process dies without one.         *)
SessionExits(s) ==
  /\ sess[s].proc = "alive"
  /\ \E how \in {"ok", "err", "gone"} :
       sess' = [sess EXCEPT ![s] = IF @.row \/ pend.sid = s
                                   THEN [@ EXCEPT !.proc = how] ELSE FreeSession]
  /\ UNCHANGED <<store, worktree, merged, configOk, crashes, core>>

EditConfig ==
  /\ ConfigEdits
  /\ configOk' = ~configOk
  /\ UNCHANGED <<store, sess, worktree, merged, crashes, core>>

(* The core dies and is started again; what it had not stored is lost.  A  *)
(* session launched and not yet recorded is known to nobody.               *)
Crash ==
  /\ crashes < MaxCrashes
  /\ crashes' = crashes + 1
  /\ sess' = IF pend.op = "insert" /\ sess[pend.sid].proc # "alive"
             THEN [sess EXCEPT ![pend.sid] = FreeSession] ELSE sess
  /\ recovered' = FALSE
  /\ phase' = "idle" /\ todoT' = {} /\ todoS' = {} /\ queue' = {} /\ inUse' = 0
  /\ pend' = NoOp
  /\ UNCHANGED <<store, worktree, merged, configOk>>

---------------------------------------------------------------------------
(* The user's commands (dispatch.rs).  A command that changed something    *)
(* runs a tick before the next command is read.                            *)

Create(t) ==
  /\ Idle /\ task[t] = Absent
  /\ task'  = [task EXCEPT ![t] = Queued]
  /\ created' = [created EXCEPT ![t] = 1 + Cardinality({u \in Tasks : task[u] # Absent})]
  /\ phase' = "command"
  /\ UNCHANGED <<budget, decided, outside, recovered, todoT, todoS, queue, inUse, pend>>

(* The transitions a press of one button can make.                         *)
Pressed(t, button) ==
  LET s == task[t]
      c == Context(t)
  IN  CASE button = "approve" -> {OnApprove(s, c)}
        [] button = "reject"  -> {OnReject(s)}
        [] button = "merge"   -> {OnMerge(s, c)}
        [] button = "pause"   -> {OnPause(s)}
        [] button = "resume"  -> {OnResume(s)}
        [] button = "rerun"   -> {OnRerunFrom(s, n, c) : n \in RerunNodes}
        [] button = "extend"  -> {OnExtendBudget(s, n, c) :
                                    n \in {x \in ExtraRounds : s.limit + x <= MaxBudget}}
        [] OTHER              -> {}

Restarts == {"resume", "rerun", "extend"}

(* task_trigger.  One the table rejects, or that meets an invalid          *)
(* configuration, changes nothing and runs no tick.                        *)
Press(t, button) ==
  /\ Idle /\ task[t] # Absent
  /\ CarefulUser /\ button \in Restarts => Rows(t) = {}
  /\ \E tr \in Pressed(t, button), m \in {0} \cup {d.milestones : d \in Docs} :
       Advances(tr) /\ Commit(t, tr, button = "approve", m)
  /\ phase' = "command"
  /\ UNCHANGED <<outside, recovered, todoT, todoS, queue, inUse>>

(* task_stop and task_cancel close the task's session first, whatever comes *)
(* of the trigger.  running_session picks one row.  stop_session signals a *)
(* process group of the wrapper's pid; run_in_terminal starts the wrapper  *)
(* in the core's own group, so there is none, and the process runs on.     *)
PressToEnd(t, button) ==
  /\ Idle /\ task[t] # Absent
  /\ \/ Rows(t) = {} /\ UNCHANGED sess
     \/ \E s \in Rows(t) : sess' = [sess EXCEPT ![s] = CloseRow(@)]
  /\ pend' = Pending("press", t, NoSid, button, FALSE)
  /\ phase' = "command"
  /\ UNCHANGED <<store, worktree, merged, configOk, crashes, recovered, todoT, todoS, queue, inUse>>

ApplyPress ==
  /\ pend.op = "press"
  /\ LET t  == pend.task
         tr == IF pend.what = "stop" THEN OnStop(task[t]) ELSE OnCancel(task[t])
     IN  IF Advances(tr) THEN Commit(t, tr, FALSE, 0) /\ UNCHANGED phase
                         ELSE Errs /\ phase' = "idle"
  /\ UNCHANGED <<outside, recovered, todoT, todoS, queue, inUse>>

BugRetroBesideSession(t) ==
  /\ Idle /\ task[t].st \notin {"Absent", "Active", "Queued"}
  /\ configOk /\ "Retro" \in Enabled /\ worktree[t]
  /\ pend' = Pending("launch", t, NoSid, "Retro", FALSE)
  /\ phase' = "retro"
  /\ UNCHANGED <<store, outside, recovered, todoT, todoS, queue, inUse>>

(* start_retro: a retro round for a task that is not running.              *)
StartRetro(t) ==
  /\ Idle /\ task[t].st \notin {"Absent", "Active", "Queued"}
  /\ Rows(t) = {} /\ configOk /\ "Retro" \in Enabled /\ worktree[t]
  /\ pend' = Pending("launch", t, NoSid, "Retro", FALSE)
  /\ phase' = "retro"
  /\ UNCHANGED <<store, outside, recovered, todoT, todoS, queue, inUse>>

(* task_decide: the items are those of a document a session has left.      *)
Decide(t) ==
  /\ Idle /\ worktree[t] /\ budget[t] <= MaxBudget
  /\ \E i, r \in 0..MaxDecided : decided' = [decided EXCEPT ![t] = [included |-> i, ruled |-> r]]
  /\ UNCHANGED <<task, created, budget, outside, core>>

---------------------------------------------------------------------------
(* What a transition's action does: start_session in two steps, the launch *)
(* and the row, for a session can end and the core can die between them.   *)

BugFailureNotRecorded ==
  /\ pend.op = "launch" /\ LaunchFailures
  /\ phase' = IF phase \in {"command", "retro"} THEN "idle" ELSE phase
  /\ pend' = NoOp
  /\ UNCHANGED <<store, outside, recovered, todoT, todoS, queue, inUse>>

(* A failed launch ends a command or a manual retro with an error; the     *)
(* task advance was moving is recorded as Failed (record_failed_action).   *)
LaunchFails ==
  /\ pend.op = "launch" /\ LaunchFailures
  /\ task' = IF pend.good THEN [task EXCEPT ![pend.task] = Failed(pend.what, "Config", 0)]
                          ELSE task
  /\ \E made \in BOOLEAN : worktree' = [worktree EXCEPT ![pend.task] = @ \/ made]
  /\ phase' = IF phase \in {"command", "retro"} THEN "idle" ELSE phase
  /\ pend' = NoOp
  /\ UNCHANGED <<created, budget, decided, sess, merged, configOk, crashes,
                 recovered, todoT, todoS, queue, inUse>>

Launch ==
  /\ pend.op = "launch"
  /\ \E s \in FreeSids :
       /\ sess' = [sess EXCEPT ![s] = [row |-> FALSE, proc |-> "alive", task |-> pend.task,
                                       kind |-> pend.what, pid |-> FALSE]]
       /\ pend' = [pend EXCEPT !.op = "insert", !.sid = s]
  /\ worktree' = [worktree EXCEPT ![pend.task] = TRUE]
  /\ merged' = [merged EXCEPT ![pend.task] = @ /\ phase = "retro"]
  /\ UNCHANGED <<store, configOk, crashes, recovered, phase, todoT, todoS, queue, inUse>>

BugStartsNotCounted ==
  /\ pend.op = "insert"
  /\ \E seen \in PidSeen :
       sess' = [sess EXCEPT ![pend.sid] = [@ EXCEPT !.row = TRUE, !.pid = seen]]
  /\ phase' = IF phase = "retro" THEN "idle" ELSE phase
  /\ pend' = NoOp
  /\ UNCHANGED <<store, worktree, merged, configOk, crashes, recovered, todoT, todoS, queue, inUse>>

(* read_pid and insert_session.                                            *)
Insert ==
  /\ pend.op = "insert"
  /\ \E seen \in PidSeen :
       sess' = [sess EXCEPT ![pend.sid] = [@ EXCEPT !.row = TRUE, !.pid = seen]]
  /\ inUse' = IF phase = "fill" THEN inUse + 1 ELSE inUse
  /\ phase' = IF phase = "retro" THEN "idle" ELSE phase
  /\ pend' = NoOp
  /\ UNCHANGED <<store, worktree, merged, configOk, crashes, recovered, todoT, todoS, queue>>

(* cancel_task: git's errors are ignored, so the checkout may stay.        *)
CancelTask ==
  /\ pend.op = "cancel"
  /\ \E stays \in BOOLEAN : worktree' = [worktree EXCEPT ![pend.task] = @ /\ stays]
  /\ pend' = NoOp
  /\ UNCHANGED <<store, sess, merged, configOk, crashes,
                 recovered, phase, todoT, todoS, queue, inUse>>

---------------------------------------------------------------------------
(* One scheduling pass (tick): recover on the first of a process, then     *)
(* reap sessions, run core steps, fill slots.                              *)

TickBegins ==
  /\ phase \in {"idle", "command"} /\ pend = NoOp
  /\ recovered' = TRUE
  /\ IF recovered
     THEN phase' = "reap" /\ todoS' = RunningRows /\ UNCHANGED todoT
     ELSE /\ phase' = "recover"
          /\ todoT' = {t \in Tasks : task[t].st = "Active" /\ task[t].node \in SessionNodes}
          /\ UNCHANGED todoS
  /\ UNCHANGED <<store, outside, queue, inUse, pend>>

BugRowStaysOpen(s) ==
  /\ Exited(sess[s]) \/ MayVanish(sess[s])
  /\ pend' = Pending("ended", sess[s].task, NoSid, sess[s].kind, sess[s].proc = "ok")
  /\ UNCHANGED sess

(* The first half of reap_session: the row is closed for good before the   *)
(* task is advanced.                                                       *)
Finish(s) ==
  /\ Exited(sess[s]) \/ MayVanish(sess[s])
  /\ sess' = [sess EXCEPT ![s] = CloseRow(@)]
  /\ pend' = Pending("ended", sess[s].task, NoSid, sess[s].kind, sess[s].proc = "ok")

BugNeverRedispatches(t) ==
  /\ In("recover") /\ t \in todoT
  /\ todoT' = todoT \ {t}
  /\ \/ \E s \in Rows(t) : \/ Finish(s)
                           \/ ~Exited(sess[s]) /\ UNCHANGED <<sess, pend>>
     \/ Rows(t) = {} /\ UNCHANGED <<sess, pend>>
  /\ UNCHANGED <<store, worktree, merged, configOk, crashes,
                 recovered, phase, todoS, queue, inUse>>

(* recover visits a task at a session node: it reaps its session, leaves   *)
(* it running, or starts the node's session again when there is none.      *)
RecoverTask(t) ==
  /\ In("recover") /\ t \in todoT
  /\ todoT' = todoT \ {t}
  /\ \/ \E s \in Rows(t) : \/ Finish(s)
                           \/ ~Exited(sess[s]) /\ UNCHANGED <<sess, pend>>
     \/ /\ Rows(t) = {} /\ UNCHANGED sess
        /\ pend' = IF configOk THEN Pending("launch", t, NoSid, task[t].node, FALSE) ELSE NoOp
  /\ UNCHANGED <<store, worktree, merged, configOk, crashes,
                 recovered, phase, todoS, queue, inUse>>

RecoverDone ==
  /\ In("recover") /\ todoT = {}
  /\ phase' = "reap" /\ todoS' = RunningRows
  /\ UNCHANGED <<store, outside, recovered, todoT, queue, inUse, pend>>

ReapSession(s) ==
  /\ In("reap") /\ s \in todoS
  /\ todoS' = todoS \ {s}
  /\ \/ Finish(s)
     \/ ~Exited(sess[s]) /\ UNCHANGED <<sess, pend>>
  /\ UNCHANGED <<store, worktree, merged, configOk, crashes,
                 recovered, phase, todoT, queue, inUse>>

(* Its second half.  A retro round of a task that is not running changes   *)
(* nothing; any other result goes to whatever node the task is at.         *)
ApplyEnded ==
  /\ pend.op = "ended"
  /\ LET t == pend.task
     IN  IF pend.what = "Retro" /\ task[t].st # "Active" THEN Errs
         ELSE \E outcome \in IF pend.good
                             THEN {"Ok", "Unparseable", "MissingArtifact", "GuardFailed"}
                             ELSE {"Crashed"}, d \in Docs :
                LET tr == OnSessionEnded(task[t], outcome, Context(t), d)
                IN  IF Advances(tr) THEN Commit(t, tr, FALSE, 0) ELSE Errs
  /\ UNCHANGED <<outside, recovered, phase, todoT, todoS, queue, inUse>>

ReapDone ==
  /\ In("reap") /\ todoS = {}
  /\ phase' = "steps"
  /\ todoT' = {t \in Tasks : task[t].st = "Active" /\ task[t].node \in CoreNodes}
  /\ UNCHANGED <<store, outside, recovered, todoS, queue, inUse, pend>>

---------------------------------------------------------------------------
(* run_core_step: rebase_all, merge_all or cleanup, then its result.  A    *)
(* branch already in its base is skipped, so a second merge succeeds.      *)

StepResults(t) ==
  CASE task[t].node = "Rebase"  -> IF worktree[t] THEN {"Ok", "Conflict", "Failed"} ELSE {"Failed"}
    [] task[t].node = "Merging" -> IF merged[t] THEN {"Ok"} ELSE {"Ok", "Blocked", "Failed"}
    [] OTHER                    -> {"Ok", "Failed"}

CoreStep(t) ==
  /\ In("steps") /\ t \in todoT
  /\ todoT' = todoT \ {t}
  /\ \E result \in StepResults(t) :
       /\ merged'   = [merged EXCEPT ![t] = @ \/ (task[t].node = "Merging" /\ result = "Ok")]
       /\ worktree' = [worktree EXCEPT ![t] = @ /\ ~(task[t].node = "Cleanup" /\ result = "Ok")]
       /\ pend'     = Pending("stepped", t, NoSid, result, TRUE)
  /\ UNCHANGED <<store, sess, configOk, crashes, recovered, phase, todoS, queue, inUse>>

ApplyStep ==
  /\ pend.op = "stepped"
  /\ LET t  == pend.task
         tr == OnCoreStepDone(task[t], task[t].node, pend.what)
     IN  IF Advances(tr) THEN Commit(t, tr, FALSE, 0) ELSE Errs
  /\ UNCHANGED <<outside, recovered, phase, todoT, todoS, queue, inUse>>

BugStoppedHoldSlots ==
  /\ In("steps") /\ todoT = {}
  /\ phase' = "fill" /\ queue' = QueuedTasks
  /\ inUse' = Cardinality({t \in Tasks : task[t].st \in {"Active", "Paused", "Failed"}})
  /\ UNCHANGED <<store, outside, recovered, todoT, todoS, pend>>

StepsDone ==
  /\ In("steps") /\ todoT = {}
  /\ phase' = "fill" /\ queue' = QueuedTasks /\ inUse' = SlotsInUse(task)
  /\ UNCHANGED <<store, outside, recovered, todoT, todoS, pend>>

---------------------------------------------------------------------------
(* fill_slots: the queue is read once; a task that cannot start does not   *)
(* block the ones behind it.                                               *)

FillHead ==
  /\ In("fill") /\ inUse < ParallelLimit
  /\ \E t \in Oldest(queue) :
       /\ queue' = queue \ {t}
       /\ LET tr == OnSlotAvailable(task[t])
          IN  IF Advances(tr) THEN Commit(t, tr, FALSE, 0) ELSE Errs
  /\ UNCHANGED <<outside, recovered, phase, todoT, todoS, inUse>>

FillDone ==
  /\ In("fill") /\ (queue = {} \/ inUse >= ParallelLimit)
  /\ phase' = "idle" /\ queue' = {} /\ inUse' = 0
  /\ UNCHANGED <<store, outside, recovered, todoT, todoS, pend>>

---------------------------------------------------------------------------
User(t) ==
  \/ Create(t)
  \/ \E button \in Presses \ {"stop", "cancel"} : Press(t, button)
  \/ \E button \in Presses \cap {"stop", "cancel"} : PressToEnd(t, button)
  \/ "retro" \in Presses /\ StartRetro(t)
  \/ Decide(t)

Perform == ApplyPress \/ LaunchFails \/ Launch \/ Insert \/ CancelTask \/ ApplyEnded \/ ApplyStep

Tick ==
  \/ \E t \in Tasks : RecoverTask(t) \/ CoreStep(t)
  \/ \E s \in Sids : ReapSession(s)
  \/ RecoverDone \/ ReapDone \/ StepsDone \/ FillHead \/ FillDone

World == (\E s \in Sids : SessionExits(s)) \/ EditConfig \/ Crash

Next == (\E t \in Tasks : User(t)) \/ TickBegins \/ Tick \/ Perform \/ World

Spec == Init /\ [][Next]_vars

(* The core finishes what it is in the middle of, and reads its requests   *)
(* in the order they came: a tick the shell asked for is run, however many *)
(* commands come with it.  Nobody has to press anything, no session has to *)
(* end, and the configuration is not promised to be mended.                *)
Fairness == WF_vars(Tick \/ Perform) /\ SF_vars(TickBegins)

FairSpec == Spec /\ Fairness

---------------------------------------------------------------------------
(* Properties.                                                             *)

(* Every variable has its type.                                            *)
ButtonNames == {"approve", "reject", "merge", "pause", "resume", "rerun", "extend",
                "stop", "cancel", "retro"}
Ops     == {"none", "press", "launch", "insert", "cancel", "ended", "stepped"}
Whats   == SessionNodes \cup {"none", "stop", "cancel", "Ok", "Conflict", "Blocked", "Failed"}
Session == [row : BOOLEAN, proc : {"none", "alive", "ok", "err", "gone"},
            task : Tasks \cup {NoTask}, kind : SessionNodes \cup {"none"}, pid : BOOLEAN]

TypeOK ==
  /\ task \in [Tasks -> TaskStates \cup {Absent}]
  /\ created \in [Tasks -> Nat]
  /\ budget \in [Tasks -> Nat]
  /\ decided \in [Tasks -> [included : Nat, ruled : Nat]]
  /\ sess \in [Sids -> Session]
  /\ {worktree, merged} \subseteq [Tasks -> BOOLEAN]
  /\ {configOk, recovered} \subseteq BOOLEAN
  /\ crashes \in Nat /\ inUse \in Nat
  /\ phase \in {"idle", "command", "retro", "recover", "reap", "steps", "fill"}
  /\ todoT \subseteq Tasks /\ queue \subseteq Tasks /\ todoS \subseteq Sids
  /\ pend \in [op : Ops, task : Tasks \cup {NoTask}, sid : Sids \cup {NoSid},
               what : Whats, good : BOOLEAN]

(* A task has at most one running session in the store, which              *)
(* running_session (store.rs) takes for granted when it picks the first.   *)
OneRowPerTask ==
  \A s, r \in Sids : sess[s].row /\ sess[r].row /\ sess[s].task = sess[r].task => s = r

(* At most one process works in a task's checkout. It does not hold of a   *)
(* user who resumes a paused task while its session still runs: on_resume  *)
(* queues it (task.rs:561), and the slot starts another session beside the *)
(* first.                                                                  *)
OneProcessPerTask ==
  \A s, r \in Sids : /\ sess[s].proc = "alive" /\ sess[r].proc = "alive"
                     /\ sess[s].task = sess[r].task
                     => s = r

(* A session's result moves its task only if the task is still at the node *)
(* the session ran for: reap_session hands the result to whatever node the *)
(* task is at by then.                                                     *)
ResultMatchesNode ==
  [][\A t \in Tasks : pend.op = "ended" /\ pend.task = t /\ task'[t] # task[t]
                      => task[t].node = pend.what]_vars

(* A process the store knows nothing about would work, and cost, on: only  *)
(* the session being launched right now may be one.                        *)
Known(s) == sess[s].row \/ pend.sid = s

(* Nothing but the user's stop or cancel makes the store forget a process  *)
(* that runs: not a pass that reaps, not a restart of its task, not a      *)
(* launch beside others.                                                   *)
Forgets(s) == Known(s) /\ ~Known(s)' /\ sess'[s].proc = "alive"

OnlyStopsForget == [][\A s \in Sids : Forgets(s) => pend'.op = "press"]_vars

(* A stop is to end it as well: no process runs that the store does not    *)
(* know of (stop_session's own comment).  It does not hold: the signal     *)
(* reaches nobody.                                                         *)
NoOrphan == \A s \in Sids : sess[s].proc = "alive" => Known(s)

(* When the core rests, every task shown as running a session has one:     *)
(* nothing would ever move a task that has none.                           *)
NoStalledTask ==
  Idle /\ recovered =>
    \A t \in Tasks : task[t].st = "Active" /\ task[t].node \in SessionNodes => Rows(t) # {}

(* What is cleaned up or done has been merged, and no session has worked   *)
(* on it since: cleanup deletes the branch.                                *)
DoneIsMerged ==
  \A t \in Tasks : task[t] \in {Active("Cleanup"), Done} => merged[t]

(* fill_slots counts the slots once and keeps its own count while launches *)
(* succeed and fail: no task leaves the queue into a slot that is not      *)
(* there.                                                                  *)
QueueStartsWithinLimit ==
  [][\A t \in Tasks : task[t] = Queued /\ task'[t].st = "Active"
                      => SlotsInUse(task') <= ParallelLimit]_vars

(* The project never has more tasks running than its parallel_limit. It    *)
(* does not hold: the user's own triggers (on_approve, on_merge,           *)
(* on_rerun_from, on_extend_budget) start sessions without counting slots. *)
WithinParallelLimit == SlotsInUse(task) <= ParallelLimit

(* A session that has left its marker is reaped.                           *)
EndedIsReaped == \A s \in Sids : sess[s].row /\ Exited(sess[s]) ~> ~sess[s].row

(* Tasks leave the queue in the order they were created, and none waits in *)
(* it for ever while a slot stays free.                                    *)
QueueDrains ==
  /\ [][\A t, u \in Tasks :
          created[t] < created[u] /\ task[u] = Queued /\ task'[u].st = "Active"
          => task[t] # Queued]_vars
  /\ \A t \in Tasks :
       <>[](configOk /\ SlotsInUse(task) < ParallelLimit) => []<>(task[t] # Queued)

(* A task found at a session node without a session, as a crash leaves it, *)
(* gets one or leaves the node.                                            *)
StalledRecovers ==
  \A t \in Tasks : \A n \in SessionNodes :
    (task[t] = Active(n) /\ Rows(t) = {}) ~> (task[t] # Active(n) \/ Rows(t) # {})

---------------------------------------------------------------------------
(* The scheduler keeps the promise a task makes to its user: the mapping   *)
(* reads off the stage the panel shows.                                    *)
StageOf(s) ==
  CASE s.st = "Absent"                          -> "none"
    [] s.st = "Queued"                          -> "queued"
    [] s.st \in {"Paused", "Stopped", "Failed"} -> "held"
    [] s.st = "Done"                            -> "done"
    [] s.st = "Cancelled"                       -> "cancelled"
    [] s = Active("AwaitDesignApproval")        -> "asksPlan"
    [] s = Active("AwaitMerge")                 -> "asksMerge"
    [] s = Active("Merging")                    -> "landing"
    [] s = Active("Cleanup")                    -> "clearing"
    [] OTHER                                    -> "working"

Promise == INSTANCE TaskPromise WITH stage  <- [t \in Tasks |-> StageOf(task[t])],
                                     landed <- {t \in Tasks : merged[t]}

(* Nothing lands without the user's second answer, a finished task has     *)
(* landed, and a finished or cancelled task stays so.                      *)
KeepsPromise == Promise!Spec

---------------------------------------------------------------------------
(* What is true at every moment besides, and makes the safety properties   *)
(* above inductive: SchedulerProofs proves it, TLC checks it first.        *)

(* The outstanding step is of a task, a session and a node there are.      *)
PendingIsWhole ==
  /\ pend.op # "none" => pend.task \in Tasks
  /\ pend.op = "press" => task[pend.task] # Absent
  /\ pend.op = "insert" => pend.sid \in Sids
  /\ pend.op \in {"launch", "insert", "ended"} => pend.what \in SessionNodes

(* A session that is not free, or being recorded, runs for a node of a     *)
(* task.                                                                   *)
SessionsAreWhole ==
  \A s \in Sids :
    sess[s].row \/ sess[s].proc # "none" \/ (pend.op = "insert" /\ pend.sid = s) =>
    sess[s].task \in Tasks /\ sess[s].kind \in SessionNodes

(* Each phase has its own kinds of outstanding steps.                      *)
OpsOfPhase ==
  /\ phase = "idle" => pend.op = "none"
  /\ phase = "fill" => pend.op \in {"none", "launch", "insert"}
  /\ pend.op = "press" => phase = "command"
  /\ pend.op = "ended" => phase \in {"recover", "reap"}
  /\ pend.op = "stepped" => phase = "steps"

(* recover still visits tasks at a session node only, the core steps those *)
(* at a core node, and each task once.                                     *)
VisitsOnce ==
  /\ phase = "recover" =>
       \A t \in todoT : task[t].st = "Active" /\ task[t].node \in SessionNodes
  /\ phase = "steps" =>
       \A t \in todoT : task[t].st = "Active" /\ task[t].node \in CoreNodes
  /\ phase \in {"recover", "steps"} /\ pend.op # "none" => pend.task \notin todoT

(* What is launched is the session of the node the task is at, but for a   *)
(* retro round the user asked for, whose failure is not the task's.        *)
LaunchesItsNode ==
  /\ pend.op = "launch" /\ (phase # "retro" \/ pend.good) => task[pend.task] = Active(pend.what)
  /\ pend.op = "launch" /\ phase = "fill" => pend.good

(* A merge that reports success has merged, one that was blocked has not.  *)
StepIsTrue ==
  pend.op = "stepped" /\ task[pend.task].node = "Merging" =>
    /\ pend.what = "Ok" => merged[pend.task]
    /\ pend.what = "Blocked" => ~merged[pend.task]

(* fill_slots never counts fewer slots than there are in use, its launch   *)
(* in progress aside.                                                      *)
SlotsCounted ==
  phase = "fill" =>
    SlotsInUse(task) <= inUse + (IF pend.op \in {"launch", "insert"} THEN 1 ELSE 0)

Inductive ==
  /\ TypeOK /\ PendingIsWhole /\ SessionsAreWhole /\ OpsOfPhase /\ VisitsOnce
  /\ LaunchesItsNode /\ StepIsTrue /\ DoneIsMerged /\ SlotsCounted
=============================================================================
