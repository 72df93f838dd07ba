-------------------------- MODULE SchedulerProofs --------------------------
(***************************************************************************)
(* The scheduler, for any tasks, sessions, roles, documents and limits.    *)
(* Each lemma on the way is about one group of actions and says what the   *)
(* group does to the invariant's parts.  In five parts:                    *)
(*   1. its types, and the safety of merging and of the slots, by the      *)
(*      inductive invariant Inductive;                                     *)
(*   2. the promise: every step of the scheduler is a step of TaskPromise  *)
(*      or leaves what the user sees alone, and the queue starts no task   *)
(*      without a slot;                                                    *)
(*   3. its sessions: where a user restarts a task only when none of its   *)
(*      sessions runs, a task has one session at a time and gets the       *)
(*      result of the node it is at;                                       *)
(*   4. where the core does not die and every pid is read, nothing but a   *)
(*      stop makes the store forget a process;                             *)
(*   5. where the configuration stays valid and the core does not die, no  *)
(*      task is left at a session's node without one.                      *)
(***************************************************************************)
EXTENDS Scheduler, TaskMachineProofs, FiniteSetTheorems

---------------------------------------------------------------------------
(* Part 1: types, merging and the slots.                                  *)

(* The slots in use are a number, and one task more or less in a slot      *)
(* changes it by one: what fill_slots' own count stands on.                *)
LEMMA SlotsAreNat ==
  ASSUME NEW ts
  PROVE  SlotsInUse(ts) \in Nat /\ IsFiniteSet({t \in Tasks : OccupiesSlot(ts[t])})
<1>1. IsFiniteSet({t \in Tasks : OccupiesSlot(ts[t])})
  BY SchedulerConstants, FS_Subset
<1>2. QED
  BY <1>1, FS_CardinalityType DEF SlotsInUse

(* One task that changes changes the slots in use by one at most.          *)
LEMMA OneMoreSlot ==
  ASSUME NEW ts, NEW us, NEW t \in Tasks, \A u \in Tasks \ {t} : us[u] = ts[u]
  PROVE  /\ SlotsInUse(us) <= SlotsInUse(ts) + 1
         /\ OccupiesSlot(ts[t]) /\ ~OccupiesSlot(us[t]) => SlotsInUse(us) + 1 <= SlotsInUse(ts)
<1> DEFINE T == {u \in Tasks : OccupiesSlot(ts[u])}
           U == {u \in Tasks : OccupiesSlot(us[u])}
<1>1. U \subseteq T \cup {t} /\ (OccupiesSlot(ts[t]) /\ ~OccupiesSlot(us[t]) => U = T \ {t} /\ t \in T)
  OBVIOUS
<1>2. /\ IsFiniteSet(T) /\ IsFiniteSet(T \cup {t}) /\ IsFiniteSet(U)
      /\ Cardinality(T \cup {t}) <= Cardinality(T) + 1
      /\ t \in T => Cardinality(T \ {t}) = Cardinality(T) - 1
      /\ Cardinality(T) \in Nat /\ Cardinality(U) \in Nat /\ Cardinality(T \cup {t}) \in Nat
  <2> HIDE DEF T, U
  <2>1. IsFiniteSet(T) /\ IsFiniteSet(U)
    BY SlotsAreNat DEF T, U
  <2>2. /\ IsFiniteSet(T \cup {t})
        /\ Cardinality(T \cup {t}) = IF t \in T THEN Cardinality(T) ELSE Cardinality(T) + 1
    BY <2>1, FS_AddElement
  <2>3. t \in T => Cardinality(T \ {t}) = Cardinality(T) - 1
    BY <2>1, FS_RemoveElement
  <2>4. Cardinality(T) \in Nat /\ Cardinality(U) \in Nat /\ Cardinality(T \cup {t}) \in Nat
    BY <2>1, <2>2, FS_CardinalityType
  <2>5. QED
    BY <2>1, <2>2, <2>3, <2>4
<1>3. SlotsInUse(us) = Cardinality(U) /\ SlotsInUse(ts) = Cardinality(T)
  BY DEF SlotsInUse
<1> HIDE DEF T, U
<1>4. Cardinality(U) <= Cardinality(T \cup {t})
  BY <1>1, <1>2, FS_Subset
<1>5. QED
  BY <1>1, <1>2, <1>3, <1>4

---------------------------------------------------------------------------
(* advance: what storing a transition does.                                *)

(* The context of a task and the result of a transition on it are typed.   *)
LEMMA ContextIsTyped ==
  ASSUME TypeOK, NEW t \in Tasks
  PROVE  Context(t) \in Contexts /\ task[t] \in States
BY SchedulerConstants DEF TypeOK, Context, Contexts, States, Absent

(* The store after advance, and the step it leaves outstanding.            *)
LEMMA CommitMoves ==
  ASSUME TypeOK, NEW t \in Tasks, NEW tr, Good(tr), NEW approving, NEW m \in Nat,
         Commit(t, tr, approving, m)
  PROVE  /\ task' \in [Tasks -> TaskStates \cup {Absent}] /\ created' \in [Tasks -> Nat]
         /\ budget' \in [Tasks -> Nat] /\ decided' \in [Tasks -> [included : Nat, ruled : Nat]]
         /\ pend' \in [op : Ops, task : Tasks \cup {NoTask}, sid : Sids \cup {NoSid},
                       what : Whats, good : BOOLEAN]
         /\ task'[t] = tr.next /\ \A u \in Tasks \ {t} : task'[u] = task[u]
         /\ pend'.op \in {"none", "launch", "cancel"}
         /\ pend'.op # "none" => pend'.task = t
         /\ pend'.op = "launch" => /\ task'[t] = Active(pend'.what) /\ pend'.good
                                   /\ pend'.what \in SessionNodes
         /\ tr.action = "Start" => pend'.op = "launch"
<1>1. ResolveBudget(tr, approving, Context(t), m) \in Nat
  BY ContextIsTyped, ResolvedIsNat DEF Good
<1>2. /\ task' \in [Tasks -> TaskStates \cup {Absent}] /\ created' \in [Tasks -> Nat]
      /\ task'[t] = tr.next /\ \A u \in Tasks \ {t} : task'[u] = task[u]
  BY DEF Commit, TypeOK, Good, Transitions
<1>3. budget' \in [Tasks -> Nat] /\ decided' \in [Tasks -> [included : Nat, ruled : Nat]]
  BY <1>1 DEF Commit, TypeOK
<1>4. CASE tr.action = "Start"
  <2>1. pend' = Pending("launch", t, NoSid, tr.next.node, TRUE)
    BY <1>4 DEF Commit, Effect
  <2>2. tr.next = Active(tr.next.node) /\ tr.next.node \in SessionNodes
    BY <1>4 DEF Good, StartsItsNode
  <2>3. QED
    BY <1>2, <1>3, <2>1, <2>2 DEF Pending, Ops, Whats
<1>5. CASE tr.action # "Start"
  <2>1. \/ pend' = Pending("cancel", t, NoSid, "none", TRUE)
        \/ pend' = NoOp
    BY <1>5 DEF Commit, Effect
  <2>2. CASE pend' = NoOp
    BY <1>2, <1>3, <1>5, <2>2 DEF Pending, NoOp, Ops, Whats
  <2>3. CASE pend' = Pending("cancel", t, NoSid, "none", TRUE)
    BY <1>2, <1>3, <1>5, <2>3 DEF Pending, Ops, Whats
  <2>4. QED
    BY <2>1, <2>2, <2>3
<1>6. QED
  BY <1>4, <1>5

(* A stored transition keeps the invariant, provided a task that comes to  *)
(* cleanup, or is done, has been merged, and only fill_slots counts it.    *)
LEMMA CommitKeeps ==
  ASSUME Inductive, NEW t \in Tasks, NEW tr, Good(tr), NEW approving, NEW m \in Nat,
         Commit(t, tr, approving, m),
         tr.next \in {Active("Cleanup"), Done} => merged[t],
         UNCHANGED <<sess, worktree, merged, configOk, crashes, recovered, todoT, todoS, inUse>>,
         queue' \subseteq queue,
         phase' \in {"command", "recover", "reap", "steps", "fill"},
         phase' \in {"recover", "steps"} => phase = phase' /\ t \notin todoT,
         phase' = "fill" => phase = "fill" /\ pend.op = "none" /\ tr.action = "Start"
  PROVE  Inductive'
<1> USE DEF Inductive
<1>1. TypeOK'
  BY CommitMoves DEF TypeOK
<1>2. PendingIsWhole' /\ SessionsAreWhole' /\ OpsOfPhase'
  BY CommitMoves DEF PendingIsWhole, SessionsAreWhole, OpsOfPhase
<1>3. VisitsOnce'
  <2>1. todoT \subseteq Tasks
    BY DEF TypeOK
  <2>2. phase' \in {"recover", "steps"} => \A u \in todoT : task'[u] = task[u]
    BY <2>1, CommitMoves
  <2>3. pend'.op # "none" => pend'.task = t
    BY CommitMoves
  <2>4. QED
    BY <2>2, <2>3 DEF VisitsOnce
<1>4. LaunchesItsNode' /\ StepIsTrue' /\ DoneIsMerged'
  BY CommitMoves DEF LaunchesItsNode, StepIsTrue, DoneIsMerged
<1>5. SlotsCounted'
  <2> SUFFICES ASSUME phase' = "fill"
               PROVE  SlotsInUse(task)' <= inUse + 1
    BY CommitMoves DEF SlotsCounted
  <2>1. SlotsInUse(task') <= SlotsInUse(task) + 1
    BY CommitMoves, OneMoreSlot
  <2>2. SlotsInUse(task) <= inUse
    BY DEF SlotsCounted, TypeOK
  <2>3. SlotsInUse(task') \in Nat /\ SlotsInUse(task) \in Nat /\ inUse \in Nat
    BY SlotsAreNat DEF TypeOK
  <2>4. QED
    BY <2>1, <2>2, <2>3
<1>6. QED
  BY <1>1, <1>2, <1>3, <1>4, <1>5

(* An error in advance changes nothing, and ends the step.                 *)
LEMMA ErrsKeeps ==
  ASSUME Inductive, Errs,
         UNCHANGED <<sess, worktree, merged, configOk, crashes, recovered, todoT, todoS, inUse>>,
         queue' \subseteq queue, phase' \in {phase, "idle"},
         phase = "fill" => pend.op = "none"
  PROVE  Inductive'
<1> USE DEF Inductive, Errs, NoOp, Pending, store
<1>1. TypeOK'
  BY DEF TypeOK, Ops, Whats
<1>2. PendingIsWhole' /\ SessionsAreWhole' /\ OpsOfPhase'
  BY DEF PendingIsWhole, SessionsAreWhole, OpsOfPhase
<1>3. VisitsOnce' /\ LaunchesItsNode' /\ StepIsTrue' /\ DoneIsMerged'
  BY DEF VisitsOnce, LaunchesItsNode, StepIsTrue, DoneIsMerged
<1>4. SlotsCounted'
  BY DEF SlotsCounted, SlotsInUse
<1>5. QED
  BY <1>1, <1>2, <1>3, <1>4

(* The constants of the records.                                           *)
LEMMA FreeIsTyped == FreeSession \in Session
BY DEF FreeSession, Session

(* The fields of a session that steps write.                               *)
LEMMA SessionFields ==
  ASSUME NEW r \in Session, NEW b \in BOOLEAN, NEW how \in {"alive", "ok", "err", "gone"}
  PROVE  /\ [r EXCEPT !.row = TRUE, !.pid = b] \in Session
         /\ [r EXCEPT !.row = FALSE] \in Session
         /\ [r EXCEPT !.proc = how] \in Session
BY DEF Session

(* No step outstanding is a step outstanding, to the types.                *)
LEMMA NoOpIsTyped ==
  NoOp \in [op : Ops, task : Tasks \cup {NoTask}, sid : Sids \cup {NoSid},
           what : Whats, good : BOOLEAN] /\ NoOp.op = "none"
BY DEF NoOp, Pending, Ops, Whats

---------------------------------------------------------------------------
(* The world.                                                              *)

(* A session ends: its record keeps its task and its node.                 *)
LEMMA SessionExitsKeeps ==
  ASSUME Inductive, NEW s \in Sids, SessionExits(s)
  PROVE  Inductive'
<1> USE DEF Inductive, SessionExits, store, core
<1>1. PICK how \in {"ok", "err", "gone"} :
        sess' = [sess EXCEPT ![s] = IF @.row \/ pend.sid = s
                                    THEN [@ EXCEPT !.proc = how] ELSE FreeSession]
  OBVIOUS
<1>2. sess' \in [Sids -> Session]
  <2>1. sess \in [Sids -> Session] /\ FreeSession \in Session
    BY FreeIsTyped DEF TypeOK
  <2>2. [sess[s] EXCEPT !.proc = how] \in Session
    <3>1. sess[s] \in Session /\ how \in {"alive", "ok", "err", "gone"}
      BY <2>1
    <3>2. QED
      BY <3>1, SessionFields
  <2>3. QED
    BY <1>1, <2>1, <2>2
<1>3. TypeOK'
  BY <1>2 DEF TypeOK
<1>4. SessionsAreWhole'
  BY <1>1 DEF SessionsAreWhole, FreeSession, TypeOK, Session
<1>5. PendingIsWhole' /\ OpsOfPhase' /\ VisitsOnce' /\ LaunchesItsNode' /\ StepIsTrue'
      /\ DoneIsMerged' /\ SlotsCounted'
  BY DEF PendingIsWhole, OpsOfPhase, VisitsOnce, LaunchesItsNode, StepIsTrue, DoneIsMerged,
         SlotsCounted, SlotsInUse
<1>6. QED
  BY <1>3, <1>4, <1>5

(* The invariant says nothing of the configuration.                        *)
LEMMA EditConfigKeeps ==
  ASSUME Inductive, EditConfig
  PROVE  Inductive'
<1> USE DEF Inductive, EditConfig, store, core
<1>1. TypeOK'
  BY DEF TypeOK
<1>2. QED
  BY <1>1 DEF PendingIsWhole, SessionsAreWhole, OpsOfPhase, VisitsOnce, LaunchesItsNode, StepIsTrue,
              DoneIsMerged, SlotsCounted, SlotsInUse

(* A crash forgets the step outstanding, and the phase with it.            *)
LEMMA CrashKeeps ==
  ASSUME Inductive, Crash
  PROVE  Inductive'
<1> USE DEF Inductive, Crash, store
<1>1. sess' \in [Sids -> Session] /\ SessionsAreWhole'
  BY NoOpIsTyped DEF TypeOK, Session, FreeSession, SessionsAreWhole
<1>2. TypeOK'
  <2>1. /\ phase' = "idle" /\ todoT' = {} /\ todoS' = {} /\ queue' = {} /\ inUse' = 0
        /\ pend' = NoOp /\ recovered' = FALSE /\ crashes' \in Nat
        /\ UNCHANGED <<task, created, budget, decided, worktree, merged, configOk>>
    BY DEF TypeOK
  <2> HIDE DEF Crash
  <2>2. QED
    BY <1>1, <2>1, NoOpIsTyped DEF TypeOK
<1>3. QED
  BY <1>1, <1>2 DEF PendingIsWhole, OpsOfPhase, VisitsOnce, LaunchesItsNode, StepIsTrue,
                    DoneIsMerged, SlotsCounted, NoOp, Pending

---------------------------------------------------------------------------
(* The user.                                                               *)

(* A new task is queued, neither cleaned up nor done.                      *)
LEMMA CreateKeeps ==
  ASSUME Inductive, NEW t \in Tasks, Create(t)
  PROVE  Inductive'
<1> USE DEF Inductive, Create, outside
<1>1. task' = [task EXCEPT ![t] = Queued] /\ Queued \in TaskStates /\ Queued.st = "Queued"
  BY StatesAreTyped DEF Queued, State
<1>2. TypeOK'
  <2>1. IsFiniteSet({u \in Tasks : task[u] # Absent})
    BY SchedulerConstants, FS_Subset
  <2>2. 1 + Cardinality({u \in Tasks : task[u] # Absent}) \in Nat
    BY <2>1, FS_CardinalityType
  <2>3. QED
    BY <1>1, <2>2 DEF TypeOK
<1>3. pend' = NoOp /\ pend = NoOp /\ phase' = "command"
  BY DEF Idle
<1>4. DoneIsMerged'
  BY <1>1 DEF DoneIsMerged, TypeOK, Done, Queued, Active, State
<1>5. QED
  BY <1>2, <1>3, <1>4, NoOpIsTyped DEF PendingIsWhole, SessionsAreWhole, OpsOfPhase, VisitsOnce,
     LaunchesItsNode, StepIsTrue, SlotsCounted

(* No button leads to cleanup or done.                                     *)
LEMMA PressedMoves ==
  ASSUME TypeOK, NEW t \in Tasks, NEW button, NEW tr \in Pressed(t, button), tr.ok
  PROVE  Good(tr) /\ tr.next \notin {Active("Cleanup"), Done}
<1> DEFINE s == task[t]
           c == Context(t)
<1>1. s \in States /\ c \in Contexts
  BY ContextIsTyped
<1>2. \A n \in Nodes \ {"Cleanup"} : Active(n) \notin {Active("Cleanup"), Done}
  BY DEF Active, Done, State
<1>3. \A n : {Paused(n), Queued} \cap {Active("Cleanup"), Done} = {}
  BY DEF Paused, Queued, Active, Done, State
<1>4. {"Design", "Implement", "Merging"} \subseteq Nodes \ {"Cleanup"}
      /\ SessionNodes \cup {"Rebase"} \subseteq Nodes \ {"Cleanup"}
  BY DEF Nodes, SessionNodes, RoleNodes, CoreNodes
<1>5. CASE button \in {"approve", "reject", "merge"}
  BY <1>1, <1>2, <1>4, <1>5, UserMoves DEF Pressed
<1>6. CASE button \in {"pause", "resume"}
  BY <1>1, <1>3, <1>6, ControlMoves DEF Pressed
<1>7. CASE button = "rerun"
  <2>1. PICK n \in RerunNodes : tr = OnRerunFrom(s, n, c)
    BY <1>7 DEF Pressed
  <2>2. n \in Nodes
    BY SchedulerConstants
  <2>3. QED
    BY <1>1, <1>2, <1>4, <2>1, <2>2, 0 \in Nat, PanelMoves
<1>8. CASE button = "extend"
  <2>1. PICK n \in ExtraRounds : tr = OnExtendBudget(s, n, c)
    BY <1>8 DEF Pressed
  <2>2. n \in Nat /\ "Design" \in Nodes
    BY SchedulerConstants, <1>4
  <2>3. QED
    BY <1>1, <1>2, <1>4, <2>1, <2>2, PanelMoves
<1>9. QED
  BY <1>5, <1>6, <1>7, <1>8 DEF Pressed

(* A press is a stored transition.                                         *)
LEMMA PressKeeps ==
  ASSUME Inductive, NEW t \in Tasks, NEW button, Press(t, button)
  PROVE  Inductive'
<1>1. PICK tr \in Pressed(t, button), m \in {0} \cup {d.milestones : d \in Docs} :
        Advances(tr) /\ Commit(t, tr, button = "approve", m)
  BY DEF Press
<1>2. Good(tr) /\ tr.next \notin {Active("Cleanup"), Done}
  BY <1>1, PressedMoves DEF Advances, Inductive
<1>3. m \in Nat
  BY SchedulerConstants
<1>4. UNCHANGED <<sess, worktree, merged, configOk, crashes, recovered, todoT, todoS, queue, inUse>>
      /\ phase' = "command"
  BY DEF Press, outside
<1>5. QED
  BY <1>1, <1>2, <1>3, <1>4, CommitKeeps

(* Stop and Cancel end a session before they move the task.                *)
LEMMA PressToEndKeeps ==
  ASSUME Inductive, NEW t \in Tasks, NEW button \in {"stop", "cancel"}, PressToEnd(t, button)
  PROVE  Inductive'
<1> USE DEF Inductive, PressToEnd, store
<1>1. sess' \in [Sids -> Session] /\ SessionsAreWhole'
  <2>1. CASE UNCHANGED sess
    BY <2>1 DEF Pending, TypeOK, SessionsAreWhole
  <2>2. ASSUME NEW s \in Rows(t), sess' = [sess EXCEPT ![s] = CloseRow(@)]
        PROVE  sess' \in [Sids -> Session] /\ SessionsAreWhole'
    <3>1. s \in Sids /\ sess[s] \in Session /\ sess[s].row
      BY DEF Rows, TypeOK
    <3>2. CloseRow(sess[s]) \in {FreeSession, [sess[s] EXCEPT !.row = FALSE]}
      BY <3>1 DEF CloseRow, Session
    <3>3. sess' \in [Sids -> Session]
      BY <2>2, <3>1, <3>2, FreeIsTyped DEF TypeOK, Session
    <3>4. SessionsAreWhole'
      <4>1. sess[s].task \in Tasks /\ sess[s].kind \in SessionNodes
        BY <3>1 DEF SessionsAreWhole
      <4>2. pend'.op = "press" /\ \A r \in Sids \ {s} : sess'[r] = sess[r]
        BY <2>2 DEF Pending, TypeOK
      <4>3. \/ sess'[s] = FreeSession
            \/ sess'[s].task = sess[s].task /\ sess'[s].kind = sess[s].kind
        BY <2>2, <3>1, <3>2 DEF TypeOK, Session
      <4> HIDE DEF PressToEnd
      <4>4. QED
        BY <4>1, <4>2, <4>3 DEF SessionsAreWhole, FreeSession
    <3>5. QED
      BY <3>3, <3>4
  <2>3. QED
    BY <2>1, <2>2
<1>2. TypeOK'
  BY <1>1 DEF TypeOK, Pending, Ops, Whats
<1>3. QED
  BY <1>1, <1>2 DEF PendingIsWhole, OpsOfPhase, VisitsOnce, LaunchesItsNode, StepIsTrue,
                    DoneIsMerged, SlotsCounted, Pending

(* A retro round of a task that is not running.                            *)
LEMMA StartRetroKeeps ==
  ASSUME Inductive, NEW t \in Tasks, StartRetro(t)
  PROVE  Inductive'
<1> USE DEF Inductive, StartRetro, store, outside
<1>1. TypeOK'
  BY DEF TypeOK, Pending, Ops, Whats, SessionNodes, RoleNodes
<1>2. QED
  BY <1>1, Names DEF PendingIsWhole, SessionsAreWhole, OpsOfPhase, VisitsOnce, LaunchesItsNode,
     StepIsTrue, DoneIsMerged, SlotsCounted, Pending

(* Decisions are numbers within the bound.                                 *)
LEMMA DecideKeeps ==
  ASSUME Inductive, NEW t \in Tasks, Decide(t)
  PROVE  Inductive'
<1> USE DEF Inductive, Decide, outside, core
<1>1. TypeOK'
  <2>1. PICK i, r \in 0..MaxDecided : decided' = [decided EXCEPT ![t] = [included |-> i, ruled |-> r]]
    OBVIOUS
  <2>2. i \in Nat /\ r \in Nat
    BY SchedulerConstants
  <2>3. decided' \in [Tasks -> [included : Nat, ruled : Nat]]
    BY <2>1, <2>2 DEF TypeOK
  <2>4. QED
    BY <2>3 DEF TypeOK
<1>2. QED
  BY <1>1 DEF PendingIsWhole, SessionsAreWhole, OpsOfPhase, VisitsOnce, LaunchesItsNode,
     StepIsTrue, DoneIsMerged, SlotsCounted, SlotsInUse

---------------------------------------------------------------------------
(* What a transition's action does.                                        *)

(* Stop and Cancel move the task, or are refused.                          *)
LEMMA ApplyPressKeeps ==
  ASSUME Inductive, ApplyPress
  PROVE  Inductive'
<1> DEFINE t  == pend.task
           tr == IF pend.what = "stop" THEN OnStop(task[t]) ELSE OnCancel(task[t])
<1>1. t \in Tasks /\ phase = "command"
  BY DEF ApplyPress, Inductive, PendingIsWhole, OpsOfPhase
<1>2. task[t] \in States
  BY <1>1, ContextIsTyped DEF Inductive
<1>3. UNCHANGED <<sess, worktree, merged, configOk, crashes, recovered, todoT, todoS, queue, inUse>>
  BY DEF ApplyPress, outside
<1>4. CASE Advances(tr)
  <2>1. Good(tr) /\ tr.ok
    BY <1>2, <1>4, ControlMoves DEF Advances
  <2>2. tr.next \notin {Active("Cleanup"), Done}
    <3>1. \A n : {Stopped(n), Cancelled} \cap {Active("Cleanup"), Done} = {}
      BY DEF Stopped, Cancelled, Active, Done, State
    <3>2. tr.next = Cancelled \/ \E n : tr.next = Stopped(n)
      BY <1>2, <2>1, ControlMoves
    <3>3. QED
      BY <3>1, <3>2
  <2>3. Commit(t, tr, FALSE, 0) /\ phase' = "command"
    BY <1>1, <1>4 DEF ApplyPress
  <2> HIDE DEF t, tr
  <2>4. QED
    BY <1>1, <1>3, <2>1, <2>2, <2>3, CommitKeeps
<1>5. CASE ~Advances(tr)
  <2>1. Errs /\ phase' = "idle"
    BY <1>5 DEF ApplyPress
  <2>2. QED
    BY <1>1, <1>3, <2>1, ErrsKeeps
<1>6. QED
  BY <1>4, <1>5

(* A failed launch frees the slot it was counted for.                      *)
LEMMA LaunchFailsKeeps ==
  ASSUME Inductive, LaunchFails
  PROVE  Inductive'
<1> DEFINE t == pend.task
           ts == [task EXCEPT ![t] = Failed(pend.what, "Config", 0)]
<1>1. /\ t \in Tasks /\ pend.op = "launch" /\ pend.what \in SessionNodes
      /\ task' = IF pend.good THEN ts ELSE task
      /\ pend' = NoOp
      /\ phase' \in {phase, "idle"} /\ (phase' = "fill" => phase = "fill")
      /\ UNCHANGED <<created, budget, decided, sess, merged, configOk, crashes,
                     recovered, todoT, todoS, queue, inUse>>
  BY DEF LaunchFails, Inductive, PendingIsWhole
<1>2. Failed(pend.what, "Config", 0) \in TaskStates
  BY <1>1, 0 \in Nat, StatesAreTyped, Names
<1>3. worktree' \in [Tasks -> BOOLEAN]
  BY DEF LaunchFails, Inductive, TypeOK
<1>4. TypeOK'
  BY <1>1, <1>2, <1>3, NoOpIsTyped DEF Inductive, TypeOK
<1>5. PendingIsWhole' /\ SessionsAreWhole' /\ OpsOfPhase' /\ LaunchesItsNode' /\ StepIsTrue'
  BY <1>1, NoOpIsTyped
     DEF Inductive, PendingIsWhole, SessionsAreWhole, OpsOfPhase, LaunchesItsNode, StepIsTrue
<1>6. \A u \in Tasks \ {t} : task'[u] = task[u]
  BY <1>1 DEF Inductive, TypeOK
<1>7. VisitsOnce'
  <2>1. todoT \subseteq Tasks
    BY DEF Inductive, TypeOK
  <2>2. QED
    BY <1>1, <1>6, <2>1, NoOpIsTyped DEF Inductive, VisitsOnce
<1>8. DoneIsMerged'
  BY <1>1 DEF Inductive, TypeOK, DoneIsMerged, Failed, Active, Done, State
<1>9. SlotsCounted'
  <2> SUFFICES ASSUME phase' = "fill"
               PROVE  SlotsInUse(task)' <= inUse
    BY <1>1, NoOpIsTyped DEF SlotsCounted, Inductive, TypeOK
  <2>1. phase = "fill" /\ pend.good /\ task' = ts /\ task[t] = Active(pend.what)
    BY <1>1 DEF Inductive, LaunchesItsNode
  <2>2. OccupiesSlot(task[t]) /\ ~OccupiesSlot(task'[t])
    BY <1>1, <2>1 DEF Inductive, TypeOK, OccupiesSlot, Active, Failed, State, SessionNodes, RoleNodes,
                      WaitNodes
  <2>3. SlotsInUse(task') + 1 <= SlotsInUse(task)
    BY <1>1, <1>6, <2>2, OneMoreSlot
  <2>4. SlotsInUse(task) <= inUse + 1
    BY <1>1, <2>1 DEF Inductive, SlotsCounted
  <2>5. SlotsInUse(task') \in Nat /\ SlotsInUse(task) \in Nat /\ inUse \in Nat
    BY SlotsAreNat DEF Inductive, TypeOK
  <2>6. QED
    BY <2>3, <2>4, <2>5
<1>10. QED
  BY <1>4, <1>5, <1>7, <1>8, <1>9 DEF Inductive

(* A launched session takes back the merge of a task at its node only.     *)
LEMMA LaunchKeeps ==
  ASSUME Inductive, Launch
  PROVE  Inductive'
<1> USE DEF Inductive, store
<1>1. PICK s \in FreeSids :
        /\ sess' = [sess EXCEPT ![s] = [row |-> FALSE, proc |-> "alive", task |-> pend.task,
                                        kind |-> pend.what, pid |-> FALSE]]
        /\ pend' = [pend EXCEPT !.op = "insert", !.sid = s]
  BY DEF Launch
<1>2. /\ pend.op = "launch" /\ pend.task \in Tasks /\ pend.what \in SessionNodes
      /\ s \in Sids
  BY DEF Launch, PendingIsWhole, FreeSids
<1>3. /\ worktree' = [worktree EXCEPT ![pend.task] = TRUE]
      /\ merged' = [merged EXCEPT ![pend.task] = @ /\ phase = "retro"]
      /\ UNCHANGED <<task, created, budget, decided, configOk, crashes, recovered, phase,
                     todoT, todoS, queue, inUse>>
  BY DEF Launch
<1>4. sess' \in [Sids -> Session] /\ SessionsAreWhole'
  BY <1>1, <1>2 DEF TypeOK, Session, SessionsAreWhole
<1>5. pend' \in [op : Ops, task : Tasks \cup {NoTask}, sid : Sids \cup {NoSid},
                what : Whats, good : BOOLEAN]
      /\ pend'.op = "insert" /\ pend'.sid = s /\ pend'.task = pend.task /\ pend'.what = pend.what
  BY <1>1, <1>2 DEF TypeOK, Ops
<1>6. merged' \in [Tasks -> BOOLEAN] /\ worktree' \in [Tasks -> BOOLEAN]
  BY <1>2, <1>3 DEF TypeOK
<1>7. TypeOK'
  BY <1>3, <1>4, <1>5, <1>6 DEF TypeOK
<1>8. PendingIsWhole' /\ OpsOfPhase' /\ VisitsOnce' /\ LaunchesItsNode' /\ StepIsTrue'
  BY <1>2, <1>3, <1>5 DEF PendingIsWhole, OpsOfPhase, VisitsOnce, LaunchesItsNode, StepIsTrue
<1>9. DoneIsMerged'
  <2> SUFFICES ASSUME NEW t \in Tasks, task[t] \in {Active("Cleanup"), Done}
               PROVE  merged'[t]
    BY <1>3 DEF DoneIsMerged
  <2>1. merged[t]
    BY DEF DoneIsMerged
  <2>2. CASE t # pend.task \/ phase = "retro"
    BY <1>3, <2>1, <2>2 DEF TypeOK
  <2>3. CASE t = pend.task /\ phase # "retro"
    <3>1. task[t] = Active(pend.what) /\ pend.what # "Cleanup"
      BY <1>2, <2>3 DEF LaunchesItsNode, SessionNodes, RoleNodes
    <3>2. QED
      BY <3>1 DEF Active, Done, State
  <2>4. QED
    BY <2>2, <2>3
<1>10. SlotsCounted'
  BY <1>2, <1>3, <1>5 DEF SlotsCounted, SlotsInUse
<1>11. QED
  BY <1>4, <1>7, <1>8, <1>9, <1>10

(* A recorded session is counted, and is the one that was launched.        *)
LEMMA InsertKeeps ==
  ASSUME Inductive, Insert
  PROVE  Inductive'
<1> USE DEF Inductive
<1>1. PICK seen \in PidSeen :
        sess' = [sess EXCEPT ![pend.sid] = [@ EXCEPT !.row = TRUE, !.pid = seen]]
  BY DEF Insert
<1>2. /\ pend.op = "insert" /\ pend.sid \in Sids /\ seen \in BOOLEAN
      /\ inUse' = IF phase = "fill" THEN inUse + 1 ELSE inUse
      /\ phase' \in {phase, "idle"} /\ pend' = NoOp
      /\ UNCHANGED <<task, created, budget, decided, worktree, merged, configOk, crashes,
                     recovered, todoT, todoS, queue>>
  BY SchedulerConstants DEF Insert, PendingIsWhole, store
<1>3. sess' \in [Sids -> Session]
  <2>1. sess \in [Sids -> Session]
    BY DEF TypeOK
  <2>2. [sess[pend.sid] EXCEPT !.row = TRUE, !.pid = seen] \in Session
    BY <1>2, <2>1, SessionFields
  <2>3. QED
    BY <1>1, <1>2, <2>1, <2>2
<1>4. TypeOK'
  BY <1>2, <1>3, NoOpIsTyped DEF TypeOK
<1>5. PendingIsWhole' /\ OpsOfPhase' /\ VisitsOnce' /\ LaunchesItsNode' /\ StepIsTrue' /\ DoneIsMerged'
  BY <1>2, NoOpIsTyped DEF PendingIsWhole, OpsOfPhase, VisitsOnce, LaunchesItsNode, StepIsTrue,
                           DoneIsMerged
<1>6. SlotsCounted'
  BY <1>2, NoOpIsTyped DEF SlotsCounted, SlotsInUse, TypeOK
<1>7. SessionsAreWhole'
  <2>1. \A s \in Sids \ {pend.sid} : sess'[s] = sess[s]
    BY <1>1 DEF TypeOK
  <2>2. /\ sess'[pend.sid].task = sess[pend.sid].task
        /\ sess'[pend.sid].kind = sess[pend.sid].kind
    BY <1>1, <1>2 DEF TypeOK, Session
  <2>3. sess[pend.sid].task \in Tasks /\ sess[pend.sid].kind \in SessionNodes
    BY <1>2 DEF SessionsAreWhole
  <2>4. QED
    BY <1>2, <2>1, <2>2, <2>3, NoOpIsTyped DEF SessionsAreWhole
<1>8. QED
  BY <1>3, <1>4, <1>5, <1>6, <1>7

(* A removed checkout touches nothing else.                                *)
LEMMA CancelTaskKeeps ==
  ASSUME Inductive, CancelTask
  PROVE  Inductive'
<1> USE DEF Inductive
<1>1. /\ pend.op = "cancel" /\ pend' = NoOp /\ worktree' \in [Tasks -> BOOLEAN]
      /\ UNCHANGED <<task, created, budget, decided, sess, merged, configOk, crashes,
                     recovered, phase, todoT, todoS, queue, inUse>>
  BY DEF CancelTask, TypeOK, store
<1>2. TypeOK'
  BY <1>1, NoOpIsTyped DEF TypeOK
<1>3. QED
  BY <1>1, <1>2, NoOpIsTyped DEF PendingIsWhole, SessionsAreWhole, OpsOfPhase, VisitsOnce,
     LaunchesItsNode, StepIsTrue, DoneIsMerged, SlotsCounted, SlotsInUse

(* The result of a session: an Infeasible, a failure or the next node, and *)
(* never cleanup or the end.                                               *)
LEMMA ApplyEndedKeeps ==
  ASSUME Inductive, ApplyEnded
  PROVE  Inductive'
<1> DEFINE t == pend.task
<1>1. /\ t \in Tasks /\ phase \in {"recover", "reap"}
      /\ phase \in {"recover", "steps"} => t \notin todoT
  BY DEF ApplyEnded, Inductive, PendingIsWhole, OpsOfPhase, VisitsOnce
<1>2. UNCHANGED <<sess, worktree, merged, configOk, crashes, recovered, phase, todoT, todoS,
                  queue, inUse>>
  BY DEF ApplyEnded, outside
<1>3. CASE Errs
  BY <1>1, <1>2, <1>3, ErrsKeeps
<1>4. ASSUME NEW outcome, NEW d \in Docs,
             Advances(OnSessionEnded(task[t], outcome, Context(t), d)),
             Commit(t, OnSessionEnded(task[t], outcome, Context(t), d), FALSE, 0)
      PROVE  Inductive'
  <2> DEFINE tr == OnSessionEnded(task[t], outcome, Context(t), d)
  <2>1. task[t] \in States /\ Context(t) \in Contexts
    BY <1>1, ContextIsTyped DEF Inductive
  <2>2. IsStatus(d) /\ d.open \in BOOLEAN /\ d.unfinished \in BOOLEAN
    BY SchedulerConstants DEF IsStatus
  <2>3. /\ Good(tr)
        /\ \/ tr.next.st = "Failed"
           \/ \E n \in SessionNodes \cup {"AwaitDesignApproval", "Rebase"} : tr.next = Active(n)
    BY <1>4, <2>1, <2>2, SessionMoves DEF Advances
  <2>4. tr.next \notin {Active("Cleanup"), Done}
    <3>1. \A n \in SessionNodes \cup {"AwaitDesignApproval", "Rebase"} :
            Active(n) \notin {Active("Cleanup"), Done}
      BY DEF Active, Done, State, SessionNodes, RoleNodes
    <3>2. "Failed" \notin {Active("Cleanup").st, Done.st}
      BY DEF Active, Done, State
    <3>3. QED
      BY <2>3, <3>1, <3>2
  <2>5. Commit(t, tr, FALSE, 0)
    BY <1>4
  <2> HIDE DEF t, tr
  <2>6. QED
    BY <1>1, <1>2, <2>3, <2>4, <2>5, CommitKeeps
<1>5. QED
  BY <1>3, <1>4 DEF ApplyEnded

(* A core step's result: cleanup only after a merge.                       *)
LEMMA ApplyStepKeeps ==
  ASSUME Inductive, ApplyStep
  PROVE  Inductive'
<1> DEFINE t  == pend.task
           tr == OnCoreStepDone(task[t], task[t].node, pend.what)
<1>1. t \in Tasks /\ pend.op = "stepped" /\ phase = "steps" /\ t \notin todoT
  BY DEF ApplyStep, Inductive, PendingIsWhole, OpsOfPhase, VisitsOnce
<1>2. UNCHANGED <<sess, worktree, merged, configOk, crashes, recovered, phase, todoT, todoS,
                  queue, inUse>>
  BY DEF ApplyStep, outside
<1>3. task[t] \in States
  BY <1>1, ContextIsTyped DEF Inductive
<1>4. CASE Advances(tr)
  <2>1. Good(tr) /\ tr.ok
    BY <1>3, <1>4, CoreStepMoves DEF Advances
  <2>2. \/ tr.next.st = "Failed"
        \/ tr.next \in {Active("AwaitMerge"), Active("Implement")}
        \/ tr.next = Active("Cleanup") /\ task[t].node = "Merging" /\ pend.what = "Ok"
        \/ tr.next = Done /\ task[t] = Active("Cleanup")
    BY <1>3, <2>1, CoreStepMoves
  <2>3. {Active("AwaitMerge"), Active("Implement")} \cap {Active("Cleanup"), Done} = {}
        /\ "Failed" \notin {Active("Cleanup").st, Done.st}
    BY DEF Active, Done, State
  <2>4. tr.next \in {Active("Cleanup"), Done} => merged[t]
    BY <1>1, <2>2, <2>3 DEF Inductive, StepIsTrue, DoneIsMerged
  <2>5. Commit(t, tr, FALSE, 0)
    BY <1>1, <1>4 DEF ApplyStep
  <2> HIDE DEF t, tr
  <2>6. QED
    BY <1>1, <1>2, <2>1, <2>4, <2>5, CommitKeeps
<1>5. CASE ~Advances(tr)
  <2>1. Errs
    BY <1>5 DEF ApplyStep
  <2>2. QED
    BY <1>1, <1>2, <2>1, ErrsKeeps
<1>6. QED
  BY <1>4, <1>5

---------------------------------------------------------------------------
(* The scheduling pass.                                                    *)

(* A pass begins with the tasks to recover, or the sessions to reap.       *)
LEMMA TickBeginsKeeps ==
  ASSUME Inductive, TickBegins
  PROVE  Inductive'
<1> USE DEF Inductive
<1>1. /\ pend = NoOp /\ UNCHANGED <<store, outside, queue, inUse, pend>> /\ recovered' = TRUE
      /\ \/ phase' = "reap" /\ todoS' = RunningRows /\ UNCHANGED todoT
         \/ /\ phase' = "recover" /\ UNCHANGED todoS
            /\ todoT' = {t \in Tasks : task[t].st = "Active" /\ task[t].node \in SessionNodes}
  BY DEF TickBegins
<1>2. TypeOK'
  BY <1>1 DEF TypeOK, store, outside, RunningRows
<1>3. QED
  BY <1>1, <1>2, NoOpIsTyped DEF store, outside, PendingIsWhole, SessionsAreWhole, OpsOfPhase,
     VisitsOnce, LaunchesItsNode, StepIsTrue, DoneIsMerged, SlotsCounted

(* Closing a session's row leaves its result to be applied.                *)
LEMMA FinishMoves ==
  ASSUME Inductive, NEW s \in Sids, Finish(s)
  PROVE  /\ sess' \in [Sids -> Session] /\ sess[s].task \in Tasks
         /\ pend' \in [op : Ops, task : Tasks \cup {NoTask}, sid : Sids \cup {NoSid},
                       what : Whats, good : BOOLEAN]
         /\ pend'.op = "ended" /\ pend'.task = sess[s].task /\ pend'.what \in SessionNodes
         /\ SessionsAreWhole'
<1>1. sess[s] \in Session /\ sess \in [Sids -> Session]
  BY DEF Inductive, TypeOK
<1>2. sess[s].task \in Tasks /\ sess[s].kind \in SessionNodes
  BY DEF Inductive, SessionsAreWhole, Finish, Exited, MayVanish
<1>3. pend' = Pending("ended", sess[s].task, NoSid, sess[s].kind, sess[s].proc = "ok")
  BY DEF Finish
<1>4. sess' = [sess EXCEPT ![s] = CloseRow(sess[s])]
  BY DEF Finish
<1>5. CloseRow(sess[s]) \in {FreeSession, [sess[s] EXCEPT !.row = FALSE]}
  BY DEF CloseRow
<1>6. CloseRow(sess[s]) \in Session
  BY <1>1, <1>5, FreeIsTyped, SessionFields
<1>7. /\ pend' \in [op : Ops, task : Tasks \cup {NoTask}, sid : Sids \cup {NoSid},
                    what : Whats, good : BOOLEAN]
      /\ pend'.op = "ended" /\ pend'.task = sess[s].task /\ pend'.what \in SessionNodes
  BY <1>2, <1>3 DEF Pending, Ops, Whats
<1>8. SessionsAreWhole'
  <2>1. \A r \in Sids \ {s} : sess'[r] = sess[r]
    BY <1>1, <1>4
  <2>2. \/ sess'[s] = FreeSession
        \/ sess'[s].task = sess[s].task /\ sess'[s].kind = sess[s].kind
    BY <1>1, <1>4, <1>5 DEF Session
  <2>3. QED
    BY <1>2, <1>7, <2>1, <2>2 DEF SessionsAreWhole, FreeSession, Inductive
<1>9. QED
  BY <1>1, <1>2, <1>4, <1>6, <1>7, <1>8

(* Recovery reaps a session or starts the node of the task again.          *)
LEMMA RecoverTaskKeeps ==
  ASSUME Inductive, NEW t \in Tasks, RecoverTask(t)
  PROVE  Inductive'
<1> USE DEF Inductive
<1>1. /\ phase = "recover" /\ pend = NoOp /\ t \in todoT /\ todoT' = todoT \ {t}
      /\ UNCHANGED <<task, created, budget, decided, worktree, merged, configOk, crashes,
                     recovered, phase, todoS, queue, inUse>>
  BY DEF RecoverTask, In, store
<1>2. /\ sess' \in [Sids -> Session] /\ SessionsAreWhole'
      /\ pend' \in [op : Ops, task : Tasks \cup {NoTask}, sid : Sids \cup {NoSid},
                    what : Whats, good : BOOLEAN]
      /\ \/ pend'.op = "none"
         \/ pend'.op = "ended" /\ pend'.task = t /\ pend'.what \in SessionNodes
         \/ /\ pend'.op = "launch" /\ pend'.task = t /\ pend'.what \in SessionNodes
            /\ task[t] = Active(pend'.what)
  <2>1. CASE \E s \in Rows(t) : Finish(s)
    BY <2>1, FinishMoves DEF Rows
  <2>2. CASE UNCHANGED <<sess, pend>>
    BY <1>1, <2>2, NoOpIsTyped DEF TypeOK, SessionsAreWhole
  <2>3. CASE UNCHANGED sess
             /\ pend' = IF configOk THEN Pending("launch", t, NoSid, task[t].node, FALSE) ELSE NoOp
    <3>1. task[t].node \in SessionNodes /\ task[t].st = "Active" /\ task[t] \in States
      BY <1>1, ContextIsTyped DEF VisitsOnce
    <3>2. task[t] = Active(task[t].node)
      BY <3>1, StatesByTag
    <3>3. CASE configOk
      BY <2>3, <3>1, <3>2, <3>3 DEF TypeOK, Pending, Ops, Whats, SessionsAreWhole
    <3>4. CASE ~configOk
      BY <2>3, <3>4, NoOpIsTyped DEF TypeOK, SessionsAreWhole
    <3>5. QED
      BY <3>3, <3>4
  <2>4. QED
    BY <2>1, <2>2, <2>3 DEF RecoverTask
<1>3. TypeOK'
  BY <1>1, <1>2 DEF TypeOK
<1>4. QED
  BY <1>1, <1>2, <1>3 DEF PendingIsWhole, OpsOfPhase, VisitsOnce, LaunchesItsNode, StepIsTrue,
     DoneIsMerged, SlotsCounted

(* A reaped session leaves its result to be applied.                       *)
LEMMA ReapSessionKeeps ==
  ASSUME Inductive, NEW s \in Sids, ReapSession(s)
  PROVE  Inductive'
<1> USE DEF Inductive
<1>1. /\ phase = "reap" /\ pend = NoOp /\ todoS' = todoS \ {s}
      /\ UNCHANGED <<task, created, budget, decided, worktree, merged, configOk, crashes,
                     recovered, phase, todoT, queue, inUse>>
  BY DEF ReapSession, In, store
<1>2. /\ sess' \in [Sids -> Session] /\ SessionsAreWhole'
      /\ pend' \in [op : Ops, task : Tasks \cup {NoTask}, sid : Sids \cup {NoSid},
                    what : Whats, good : BOOLEAN]
      /\ \/ pend'.op = "none"
         \/ pend'.op = "ended" /\ pend'.task \in Tasks /\ pend'.what \in SessionNodes
  <2>1. CASE Finish(s)
    BY <2>1, FinishMoves
  <2>2. CASE UNCHANGED <<sess, pend>>
    BY <1>1, <2>2, NoOpIsTyped DEF TypeOK, SessionsAreWhole
  <2>3. QED
    BY <2>1, <2>2 DEF ReapSession
<1>3. TypeOK'
  BY <1>1, <1>2 DEF TypeOK
<1>4. QED
  BY <1>1, <1>2, <1>3 DEF PendingIsWhole, OpsOfPhase, VisitsOnce, LaunchesItsNode, StepIsTrue,
     DoneIsMerged, SlotsCounted

(* From one phase to the next, with no step outstanding.                   *)
LEMMA PhaseEndsKeep ==
  ASSUME Inductive, RecoverDone \/ ReapDone \/ StepsDone \/ FillDone
  PROVE  Inductive'
<1> USE DEF Inductive
<1>1. /\ pend = NoOp /\ pend' = NoOp /\ phase' \in {"reap", "steps", "fill", "idle"}
      /\ UNCHANGED <<task, created, budget, decided, outside, recovered>>
      /\ todoT' \subseteq Tasks /\ todoS' \subseteq Sids /\ queue' \subseteq Tasks /\ inUse' \in Nat
      /\ phase' = "fill" => inUse' = SlotsInUse(task)
      /\ phase' = "steps" =>
           \A t \in todoT' : task[t].st = "Active" /\ task[t].node \in CoreNodes
  <2>1. CASE RecoverDone
    BY <2>1 DEF RecoverDone, In, store, outside, TypeOK, RunningRows
  <2>2. CASE ReapDone
    BY <2>2 DEF ReapDone, In, store, outside, TypeOK
  <2>3. CASE StepsDone
    BY <2>3, SlotsAreNat DEF StepsDone, In, store, outside, TypeOK, QueuedTasks
  <2>4. CASE FillDone
    BY <2>4 DEF FillDone, In, store, outside, TypeOK
  <2>5. QED
    BY <2>1, <2>2, <2>3, <2>4
<1>2. TypeOK'
  BY <1>1, NoOpIsTyped DEF TypeOK, outside
<1>3. SlotsCounted'
  BY <1>1, NoOpIsTyped, SlotsAreNat DEF SlotsCounted, SlotsInUse
<1>4. QED
  BY <1>1, <1>2, <1>3, NoOpIsTyped DEF outside, PendingIsWhole, SessionsAreWhole, OpsOfPhase,
     VisitsOnce, LaunchesItsNode, StepIsTrue, DoneIsMerged

(* A core step merges before it reports that it has.                       *)
LEMMA CoreStepKeeps ==
  ASSUME Inductive, NEW t \in Tasks, CoreStep(t)
  PROVE  Inductive'
<1> USE DEF Inductive
<1>1. /\ phase = "steps" /\ pend = NoOp /\ todoT' = todoT \ {t}
      /\ UNCHANGED <<task, created, budget, decided, sess, configOk, crashes,
                     recovered, phase, todoS, queue, inUse>>
  BY DEF CoreStep, In, store
<1>2. PICK result \in StepResults(t) :
        /\ merged'   = [merged EXCEPT ![t] = @ \/ (task[t].node = "Merging" /\ result = "Ok")]
        /\ worktree' = [worktree EXCEPT ![t] = @ /\ ~(task[t].node = "Cleanup" /\ result = "Ok")]
        /\ pend'     = Pending("stepped", t, NoSid, result, TRUE)
  BY DEF CoreStep
<1>3. result \in {"Ok", "Conflict", "Blocked", "Failed"}
  BY DEF StepResults
<1>4. /\ pend' \in [op : Ops, task : Tasks \cup {NoTask}, sid : Sids \cup {NoSid},
                    what : Whats, good : BOOLEAN]
      /\ pend'.op = "stepped" /\ pend'.task = t /\ pend'.what = result
  BY <1>2, <1>3 DEF Pending, Ops, Whats
<1>5. /\ merged' \in [Tasks -> BOOLEAN] /\ worktree' \in [Tasks -> BOOLEAN]
      /\ \A u \in Tasks : merged[u] => merged'[u]
      /\ task[t].node = "Merging" => /\ result = "Ok" => merged'[t]
                                     /\ result = "Blocked" => ~merged'[t]
  BY <1>2 DEF TypeOK, StepResults
<1>6. TypeOK'
  BY <1>1, <1>4, <1>5 DEF TypeOK
<1>7. PendingIsWhole' /\ SessionsAreWhole' /\ OpsOfPhase' /\ VisitsOnce' /\ LaunchesItsNode'
      /\ SlotsCounted'
  BY <1>1, <1>4, NoOpIsTyped
     DEF PendingIsWhole, SessionsAreWhole, OpsOfPhase, VisitsOnce, LaunchesItsNode, SlotsCounted
<1>8. StepIsTrue' /\ DoneIsMerged'
  BY <1>1, <1>4, <1>5 DEF StepIsTrue, DoneIsMerged
<1>9. QED
  BY <1>6, <1>7, <1>8

(* The head of the queue goes to Active(Intake), by a launch fill_slots    *)
(* will count; nothing else leaves the queue there.                        *)
LEMMA FillHeadMoves ==
  ASSUME Inductive, FillHead
  PROVE  \E t \in Tasks :
           LET tr == OnSlotAvailable(task[t])
           IN  /\ Good(tr) /\ queue' = queue \ {t}
               /\ \/ Errs
                  \/ /\ Commit(t, tr, FALSE, 0) /\ tr.action = "Start"
                     /\ tr.next \notin {Active("Cleanup"), Done}
<1>1. PICK t \in Oldest(queue) :
        /\ queue' = queue \ {t}
        /\ LET tr == OnSlotAvailable(task[t])
           IN  IF Advances(tr) THEN Commit(t, tr, FALSE, 0) ELSE Errs
  BY DEF FillHead
<1>2. t \in Tasks
  BY DEF Oldest, Inductive, TypeOK
<1> DEFINE tr == OnSlotAvailable(task[t])
<1>3. task[t] \in States /\ Context(t) \in Contexts
  BY <1>2, ContextIsTyped DEF Inductive
<1>4. Good(tr)
  BY <1>3, UserMoves
<1>5. tr.ok => tr.action = "Start"
  BY DEF OnSlotAvailable, Start, To, Rejected
<1>6. tr.ok => tr.next = Active("Intake")
  BY <1>3, UserMoves
<1>7. Active("Intake") \notin {Active("Cleanup"), Done}
  BY DEF Active, Done, State
<1>8. \/ Errs
      \/ Commit(t, tr, FALSE, 0) /\ tr.ok
  BY <1>1 DEF Advances
<1> HIDE DEF tr
<1>9. Good(tr) /\ (Errs \/ (Commit(t, tr, FALSE, 0) /\ tr.action = "Start"
                             /\ tr.next \notin {Active("Cleanup"), Done}))
  BY <1>4, <1>5, <1>6, <1>7, <1>8
<1>10. QED
  BY <1>1, <1>2, <1>9 DEF tr

(* The head of the queue is stored like any transition.                    *)
LEMMA FillHeadKeeps ==
  ASSUME Inductive, FillHead
  PROVE  Inductive'
<1>1. PICK t \in Tasks :
        LET tr == OnSlotAvailable(task[t])
        IN  /\ Good(tr) /\ queue' = queue \ {t}
            /\ \/ Errs
               \/ /\ Commit(t, tr, FALSE, 0) /\ tr.action = "Start"
                  /\ tr.next \notin {Active("Cleanup"), Done}
  BY FillHeadMoves
<1>2. /\ phase = "fill" /\ pend.op = "none" /\ phase' = phase
      /\ UNCHANGED <<sess, worktree, merged, configOk, crashes, recovered, todoT, todoS, inUse>>
  BY NoOpIsTyped DEF FillHead, In, outside
<1>3. CASE Errs
  BY <1>1, <1>2, <1>3, ErrsKeeps
<1>4. CASE ~Errs
  <2> DEFINE tr == OnSlotAvailable(task[t])
  <2>1. /\ Good(tr) /\ Commit(t, tr, FALSE, 0) /\ tr.action = "Start"
        /\ tr.next \notin {Active("Cleanup"), Done}
    BY <1>1, <1>4
  <2> HIDE DEF tr
  <2>2. QED
    BY <1>1, <1>2, <2>1, CommitKeeps
<1>5. QED
  BY <1>3, <1>4

---------------------------------------------------------------------------
(* The theorems.                                                           *)

(* The invariant holds of a fresh installation.                            *)
LEMMA InitIsInductive == Init => Inductive
<1> SUFFICES ASSUME Init
             PROVE  Inductive
  OBVIOUS
<1> USE DEF Init
<1>1. TypeOK
  BY FreeIsTyped, NoOpIsTyped DEF TypeOK, NoBudget
<1>2. DoneIsMerged
  BY DEF DoneIsMerged, Absent, Active, Done, State
<1>3. QED
  BY <1>1, <1>2, NoOpIsTyped DEF Inductive, PendingIsWhole, SessionsAreWhole, OpsOfPhase, VisitsOnce,
     LaunchesItsNode, StepIsTrue, SlotsCounted, FreeSession

(* Every step keeps the invariant.                                         *)
LEMMA NextKeeps ==
  ASSUME Inductive, [Next]_vars
  PROVE  Inductive'
<1>1. ASSUME NEW t \in Tasks, User(t)
      PROVE  Inductive'
  <2>1. ASSUME NEW button \in Presses \cap {"stop", "cancel"}, PressToEnd(t, button)
        PROVE  Inductive'
    BY <2>1, PressToEndKeeps
  <2>2. QED
    BY <1>1, <2>1, CreateKeeps, PressKeeps, StartRetroKeeps, DecideKeeps DEF User
<1>2. CASE TickBegins
  BY <1>2, TickBeginsKeeps
<1>3. CASE Tick
  BY <1>3, RecoverTaskKeeps, CoreStepKeeps, ReapSessionKeeps, PhaseEndsKeep, FillHeadKeeps DEF Tick
<1>4. CASE Perform
  BY <1>4, ApplyPressKeeps, LaunchFailsKeeps, LaunchKeeps, InsertKeeps, CancelTaskKeeps,
     ApplyEndedKeeps, ApplyStepKeeps DEF Perform
<1>5. CASE World
  BY <1>5, SessionExitsKeeps, EditConfigKeeps, CrashKeeps DEF World
<1>6. CASE UNCHANGED vars
  BY <1>6 DEF vars, store, outside, core, Inductive, TypeOK, PendingIsWhole, SessionsAreWhole,
     OpsOfPhase, VisitsOnce, LaunchesItsNode, StepIsTrue, DoneIsMerged, SlotsCounted, SlotsInUse
<1>7. QED
  BY <1>1, <1>2, <1>3, <1>4, <1>5, <1>6 DEF Next

(* The invariant is one: of every task, session, role and document, and    *)
(* whatever crashes, configuration edits and failing launches.             *)
THEOREM AlwaysInductive == Spec => []Inductive
<1>1. Init => Inductive
  BY InitIsInductive
<1>2. Inductive /\ [Next]_vars => Inductive'
  BY NextKeeps
<1>3. QED
  BY <1>1, <1>2, PTL DEF Spec

(* Every variable keeps its type.                                          *)
THEOREM TypesHold == Spec => []TypeOK
<1>1. Inductive => TypeOK
  BY DEF Inductive
<1>2. QED
  BY <1>1, AlwaysInductive, PTL

(* What is cleaned up or done has been merged, and nothing has worked on   *)
(* it since.                                                               *)
THEOREM MergedBeforeDone == Spec => []DoneIsMerged
<1>1. Inductive => DoneIsMerged
  BY DEF Inductive
<1>2. QED
  BY <1>1, AlwaysInductive, PTL

---------------------------------------------------------------------------
(* Part 2: the promise.                                                   *)

(* The stage each state shows.                                             *)
LEMMA StagesOfStates ==
  /\ \A n \in SessionNodes \cup {"Rebase"} : StageOf(Active(n)) = "working"
  /\ StageOf(Active("AwaitDesignApproval")) = "asksPlan"
  /\ StageOf(Active("AwaitMerge")) = "asksMerge"
  /\ StageOf(Active("Merging")) = "landing" /\ StageOf(Active("Cleanup")) = "clearing"
  /\ StageOf(Queued) = "queued" /\ StageOf(Done) = "done" /\ StageOf(Cancelled) = "cancelled"
  /\ StageOf(Absent) = "none"
  /\ \A n : StageOf(Paused(n)) = "held" /\ StageOf(Stopped(n)) = "held"
  /\ \A s : s.st = "Failed" => StageOf(s) = "held"
BY DEF StageOf, Active, Paused, Stopped, Queued, Done, Cancelled, Absent, State, SessionNodes, RoleNodes

(* The stages of the states of one kind.                                   *)
LEMMA StagesByTag ==
  ASSUME NEW s \in States
  PROVE  /\ s.st \in {"Paused", "Stopped", "Failed"} => StageOf(s) = "held"
         /\ s.st = "Active" /\ s.node \notin WaitNodes =>
              StageOf(s) \in {"working", "landing", "clearing"}
         /\ s # Absent /\ ~IsTerminal(s) => StageOf(s) \in Promise!Stages \ Promise!Over
         /\ StageOf(s) = "queued" <=> s = Queued
<1>1. s.st \in {"Paused", "Stopped", "Failed"} => StageOf(s) = "held"
  BY DEF StageOf, Active, State
<1>2. s.st = "Active" /\ s.node \notin WaitNodes => StageOf(s) \in {"working", "landing", "clearing"}
  BY StatesByTag DEF StageOf, Active, State, WaitNodes
<1>3. s # Absent => s.st # "Absent"
  BY StatesAreTyped DEF States, TaskStates, Absent, State, Queued, Done, Cancelled
<1>4. s # Absent /\ ~IsTerminal(s) => StageOf(s) \in Promise!Stages \ Promise!Over
  BY <1>3, StatesByTag DEF StageOf, IsTerminal, Promise!Stages, Promise!Over
<1>5. StageOf(s) = "queued" <=> s = Queued
  BY StatesByTag DEF StageOf, Queued, Active, State
<1>6. QED
  BY <1>1, <1>2, <1>4, <1>5

(* What a new state of one task is to the promise.                         *)
LEMMA StageMoves ==
  ASSUME NEW t \in Tasks, \A u \in Tasks \ {t} : task'[u] = task[u], UNCHANGED merged,
         NEW from, NEW to, StageOf(task[t]) \in from, StageOf(task'[t]) \in to
  PROVE  Promise!Moves(t, from, to)
<1>1. [u \in Tasks |-> StageOf(task'[u])]
        = [[u \in Tasks |-> StageOf(task[u])] EXCEPT ![t] = StageOf(task'[t])]
  OBVIOUS
<1>2. {u \in Tasks : merged'[u]} = {u \in Tasks : merged[u]}
  OBVIOUS
<1>3. QED
  BY <1>1, <1>2 DEF Promise!Moves

(* The user sees no change.                                                *)
Unseen == UNCHANGED Promise!vars

(* A new state that shows the same stage.                                  *)
LEMMA StageStays ==
  ASSUME NEW t \in Tasks, \A u \in Tasks \ {t} : task'[u] = task[u], UNCHANGED merged,
         StageOf(task'[t]) = StageOf(task[t])
  PROVE  Unseen
<1>1. [u \in Tasks |-> StageOf(task'[u])] = [u \in Tasks |-> StageOf(task[u])]
  OBVIOUS
<1>2. QED
  BY <1>1 DEF Unseen, Promise!vars

(* Without a new state and a new merge, the user sees no change.           *)
LEMMA NothingSeen ==
  ASSUME UNCHANGED <<task, merged>>
  PROVE  Unseen
BY DEF Unseen, Promise!vars

(* A step of the promise other than Begin, which fill_slots keeps for      *)
(* itself.                                                                 *)
Other(t) ==
  \/ Promise!Submit(t) \/ Promise!Ask(t) \/ Promise!AnswerPlan(t) \/ Promise!AnswerMerge(t)
  \/ Promise!Blocked(t) \/ Promise!Landed(t) \/ Promise!Finish(t) \/ Promise!Hold(t)
  \/ Promise!Release(t) \/ Promise!Cancel(t) \/ Promise!Land(t) \/ Promise!Rework(t)

(* A new task is submitted.                                                *)
LEMMA CreateSeen ==
  ASSUME Inductive, NEW t \in Tasks, Create(t)
  PROVE  Other(t)
<1>1. /\ task'[t] = Queued /\ \A u \in Tasks \ {t} : task'[u] = task[u]
      /\ task[t] = Absent /\ UNCHANGED merged
  BY DEF Create, outside, Inductive, TypeOK
<1>2. StageOf(task[t]) \in {"none"} /\ StageOf(task'[t]) \in {"queued"}
  BY <1>1, StagesOfStates
<1>3. Promise!Moves(t, {"none"}, {"queued"})
  BY <1>1, <1>2, StageMoves
<1>4. QED
  BY <1>3 DEF Other, Promise!Submit

(* Each button is an answer, a hold or a release, if it does anything.     *)
LEMMA PressSeen ==
  ASSUME Inductive, NEW t \in Tasks, NEW button, Press(t, button)
  PROVE  Other(t) \/ Unseen
<1> DEFINE s == task[t]
           c == Context(t)
<1>1. PICK tr \in Pressed(t, button), m \in {0} \cup {d.milestones : d \in Docs} :
        Advances(tr) /\ Commit(t, tr, button = "approve", m)
  BY DEF Press
<1>2. /\ tr.ok /\ task'[t] = tr.next /\ \A u \in Tasks \ {t} : task'[u] = task[u]
      /\ UNCHANGED merged /\ s \in States /\ c \in Contexts
  BY <1>1, ContextIsTyped DEF Advances, Commit, Press, outside, Inductive, TypeOK
<1>3. "Design" \in SessionNodes /\ "Implement" \in SessionNodes
  BY Names
<1>4. CASE button \in {"approve", "reject"}
  <2>1. StageOf(s) = "asksPlan" /\ StageOf(tr.next) = "working"
    BY <1>2, <1>3, <1>4, UserMoves, StagesOfStates DEF Pressed
  <2>2. Promise!Moves(t, {"asksPlan"}, {"working"})
    BY <1>2, <2>1, StageMoves
  <2>3. QED
    BY <2>2 DEF Other, Promise!AnswerPlan
<1>5. CASE button = "merge"
  <2>1. StageOf(s) = "asksMerge" /\ StageOf(tr.next) \in {"working", "landing"}
    BY <1>2, <1>3, <1>5, UserMoves, StagesOfStates DEF Pressed
  <2>2. Promise!Moves(t, {"asksMerge"}, {"working", "landing"})
    BY <1>2, <2>1, StageMoves
  <2>3. QED
    BY <2>2 DEF Other, Promise!AnswerMerge
<1>6. CASE button = "pause"
  <2>1. StageOf(s) \in {"working", "landing", "clearing"} /\ StageOf(tr.next) = "held"
    BY <1>2, <1>6, ControlMoves, StagesOfStates, StagesByTag DEF Pressed
  <2>2. StageOf(s) \in Promise!Stages \ ({"held", "queued", "asksPlan", "asksMerge"} \cup Promise!Over)
    BY <2>1 DEF Promise!Stages, Promise!Over
  <2>3. QED
    BY <1>2, <2>1, <2>2, StageMoves DEF Other, Promise!Hold
<1>7. CASE button = "resume"
  <2>1. StageOf(s) = "held" /\ StageOf(tr.next) = "queued"
    BY <1>2, <1>7, ControlMoves, StagesOfStates, StagesByTag DEF Pressed
  <2>2. Promise!Moves(t, {"held"}, {"queued", "working"})
    BY <1>2, <2>1, StageMoves
  <2>3. QED
    BY <2>2 DEF Other, Promise!Release
<1>8. CASE button \in {"rerun", "extend"}
  <2>1. s.st \in {"Failed", "Stopped"} /\ \E n \in SessionNodes \cup {"Rebase"} : tr.next = Active(n)
    <3>1. CASE button = "rerun"
      <4>1. PICK n \in RerunNodes : tr = OnRerunFrom(s, n, c)
        BY <3>1 DEF Pressed
      <4>2. n \in Nodes
        BY SchedulerConstants
      <4>3. QED
        BY <1>2, <4>1, <4>2, 0 \in Nat, PanelMoves
    <3>2. CASE button = "extend"
      <4>1. PICK n \in ExtraRounds : tr = OnExtendBudget(s, n, c)
        BY <3>2 DEF Pressed
      <4>2. n \in Nat /\ "Design" \in Nodes
        BY SchedulerConstants, Names
      <4>3. QED
        BY <1>2, <1>3, <4>1, <4>2, PanelMoves
    <3>3. QED
      BY <1>8, <3>1, <3>2
  <2>2. StageOf(s) = "held" /\ StageOf(tr.next) = "working"
    BY <1>2, <2>1, StagesOfStates, StagesByTag
  <2>3. Promise!Moves(t, {"held"}, {"queued", "working"})
    BY <1>2, <2>2, StageMoves
  <2>4. QED
    BY <2>3 DEF Other, Promise!Release
<1>9. QED
  BY <1>4, <1>5, <1>6, <1>7, <1>8 DEF Pressed

(* Stop holds a task, Cancel ends one that is not over.                    *)
LEMMA ApplyPressSeen ==
  ASSUME Inductive, ApplyPress, NEW t \in Tasks, t = pend.task
  PROVE  Other(t) \/ Unseen
<1> DEFINE s  == task[t]
           tr == IF pend.what = "stop" THEN OnStop(s) ELSE OnCancel(s)
<1>1. /\ t \in Tasks /\ s # Absent /\ s \in States /\ UNCHANGED merged
  BY ContextIsTyped DEF ApplyPress, Inductive, PendingIsWhole, outside
<1>2. CASE ~Advances(tr)
  BY <1>1, <1>2, NothingSeen DEF ApplyPress, Errs, store
<1>3. CASE Advances(tr)
  <2>1. /\ tr.ok /\ task'[t] = tr.next /\ \A u \in Tasks \ {t} : task'[u] = task[u]
    BY <1>1, <1>3 DEF ApplyPress, Advances, Commit, Inductive, TypeOK
  <2>2. CASE pend.what = "stop"
    <3>1. StageOf(s) \in {"held", "working", "landing", "clearing"} /\ StageOf(task'[t]) = "held"
      BY <1>1, <2>1, <2>2, ControlMoves, StagesOfStates, StagesByTag
    <3>2. CASE StageOf(s) = "held"
      BY <1>1, <2>1, <3>1, <3>2, StageStays
    <3>3. CASE StageOf(s) # "held"
      <4>1. StageOf(s) \in Promise!Stages
                           \ ({"held", "queued", "asksPlan", "asksMerge"} \cup Promise!Over)
        BY <3>1, <3>3 DEF Promise!Stages, Promise!Over
      <4>2. StageOf(task'[t]) \in {"held"}
        BY <3>1
      <4>3. Promise!Hold(t)
        BY <1>1, <2>1, <4>1, <4>2, StageMoves DEF Promise!Hold
      <4>4. QED
        BY <4>3 DEF Other
    <3>4. QED
      BY <3>2, <3>3
  <2>3. CASE pend.what # "stop"
    <3>1. StageOf(s) \in Promise!Stages \ Promise!Over /\ StageOf(task'[t]) \in {"cancelled"}
      BY <1>1, <2>1, <2>3, ControlMoves, StagesOfStates, StagesByTag
    <3>2. Promise!Cancel(t)
      BY <1>1, <2>1, <3>1, StageMoves DEF Promise!Cancel
    <3>3. QED
      BY <3>2 DEF Other
  <2>4. QED
    BY <2>2, <2>3
<1>4. QED
  BY <1>2, <1>3

(* From a stage of work to held.                                           *)
LEMMA HoldSeen ==
  ASSUME NEW t \in Tasks, \A u \in Tasks \ {t} : task'[u] = task[u], UNCHANGED merged,
         StageOf(task[t]) \in {"working", "landing", "clearing"}, StageOf(task'[t]) = "held"
  PROVE  Other(t)
<1>1. StageOf(task[t]) \in Promise!Stages
                          \ ({"held", "queued", "asksPlan", "asksMerge"} \cup Promise!Over)
  BY DEF Promise!Stages, Promise!Over
<1>2. StageOf(task'[t]) \in {"held"}
  OBVIOUS
<1>3. Promise!Hold(t)
  BY <1>1, <1>2, StageMoves DEF Promise!Hold
<1>4. QED
  BY <1>3 DEF Other

(* A launch that fails holds the task that was to start, and no other.     *)
LEMMA LaunchFailsSeen ==
  ASSUME Inductive, LaunchFails, NEW t \in Tasks, t = pend.task
  PROVE  Other(t) \/ Unseen
<1>1. /\ t \in Tasks /\ pend.what \in SessionNodes /\ UNCHANGED merged
      /\ pend.good => task[t] = Active(pend.what)
  BY DEF LaunchFails, Inductive, PendingIsWhole, LaunchesItsNode
<1>2. CASE ~pend.good
  BY <1>1, <1>2, NothingSeen DEF LaunchFails
<1>3. CASE pend.good
  <2>1. /\ task'[t] = Failed(pend.what, "Config", 0)
        /\ \A u \in Tasks \ {t} : task'[u] = task[u]
    BY <1>1, <1>3 DEF LaunchFails, Inductive, TypeOK
  <2>2. task'[t].st = "Failed"
    BY <2>1 DEF Failed
  <2>3. StageOf(task'[t]) = "held" /\ StageOf(task[t]) = "working"
    BY <1>1, <1>3, <2>2, StagesOfStates
  <2>4. QED
    BY <1>1, <2>1, <2>3, HoldSeen
<1>4. QED
  BY <1>2, <1>3

(* A session works on the task anew, unless it is a retro round of one     *)
(* that is not running.                                                    *)
LEMMA LaunchSeen ==
  ASSUME Inductive, Launch, NEW t \in Tasks, t = pend.task
  PROVE  Other(t) \/ Unseen
<1>1. /\ t \in Tasks /\ pend.what \in SessionNodes /\ UNCHANGED task
      /\ merged' = [merged EXCEPT ![t] = @ /\ phase = "retro"]
      /\ merged \in [Tasks -> BOOLEAN]
      /\ phase # "retro" => task[t] = Active(pend.what)
  BY DEF Launch, Inductive, PendingIsWhole, LaunchesItsNode, TypeOK, store
<1>2. CASE phase = "retro"
  <2>1. merged' = merged
    BY <1>1, <1>2
  <2>2. QED
    BY <1>1, <2>1, NothingSeen
<1>3. CASE phase # "retro"
  <2>1. {u \in Tasks : merged'[u]} = {u \in Tasks : merged[u]} \ {t}
    BY <1>1, <1>3
  <2>2. StageOf(task[t]) = "working"
    BY <1>1, <1>3, StagesOfStates
  <2>3. Promise!Rework(t)
    BY <1>1, <2>1, <2>2 DEF Promise!Rework
  <2>4. QED
    BY <2>3 DEF Other
<1>4. QED
  BY <1>2, <1>3

(* A session's result: more work, the plan's question, or a failure.       *)
LEMMA ApplyEndedSeen ==
  ASSUME Inductive, ApplyEnded, NEW t \in Tasks, t = pend.task
  PROVE  Other(t) \/ Unseen
<1>1. t \in Tasks /\ UNCHANGED merged
  BY DEF ApplyEnded, Inductive, PendingIsWhole, outside
<1>2. CASE Errs
  BY <1>1, <1>2, NothingSeen DEF Errs, store
<1>3. ASSUME NEW outcome, NEW d \in Docs,
             Advances(OnSessionEnded(task[t], outcome, Context(t), d)),
             Commit(t, OnSessionEnded(task[t], outcome, Context(t), d), FALSE, 0)
      PROVE  Other(t) \/ Unseen
  <2> DEFINE tr == OnSessionEnded(task[t], outcome, Context(t), d)
  <2>1. task[t] \in States /\ Context(t) \in Contexts
    BY <1>1, ContextIsTyped DEF Inductive
  <2>2. IsStatus(d) /\ d.open \in BOOLEAN /\ d.unfinished \in BOOLEAN
    BY SchedulerConstants DEF IsStatus
  <2>3. /\ task[t].st = "Active" /\ task[t].node \in SessionNodes
        /\ \/ tr.next.st = "Failed"
           \/ \E n \in SessionNodes \cup {"AwaitDesignApproval", "Rebase"} : tr.next = Active(n)
    BY <1>3, <2>1, <2>2, SessionMoves DEF Advances
  <2>4. task'[t] = tr.next /\ \A u \in Tasks \ {t} : task'[u] = task[u]
    BY <1>1, <1>3 DEF Commit, Inductive, TypeOK
  <2> HIDE DEF tr
  <2>5. StageOf(task[t]) = "working"
    BY <2>1, <2>3, StatesByTag, StagesOfStates
  <2>6. StageOf(task'[t]) \in {"held", "working", "asksPlan"}
    BY <2>3, <2>4, StagesOfStates
  <2>7. CASE StageOf(task'[t]) = "held"
    BY <1>1, <2>4, <2>5, <2>7, HoldSeen
  <2>8. CASE StageOf(task'[t]) = "working"
    BY <1>1, <2>4, <2>5, <2>8, StageStays
  <2>9. CASE StageOf(task'[t]) = "asksPlan"
    <3>1. Promise!Moves(t, {"working"}, {"asksPlan", "asksMerge"})
      BY <1>1, <2>4, <2>5, <2>9, StageMoves
    <3>2. QED
      BY <3>1 DEF Promise!Ask, Other
  <2>10. QED
    BY <2>6, <2>7, <2>8, <2>9
<1>4. QED
  BY <1>2, <1>3 DEF ApplyEnded

(* The result of a core step: a landed branch alone is cleared.            *)
LEMMA ApplyStepSeen ==
  ASSUME Inductive, ApplyStep, NEW t \in Tasks, t = pend.task
  PROVE  Other(t) \/ Unseen
<1> DEFINE tr == OnCoreStepDone(task[t], task[t].node, pend.what)
<1>1. UNCHANGED merged /\ task[t] \in States /\ pend.op = "stepped"
  BY ContextIsTyped DEF ApplyStep, outside, Inductive
<1>2. CASE ~Advances(tr)
  BY <1>1, <1>2, NothingSeen DEF ApplyStep, Errs, store
<1>3. CASE Advances(tr)
  <2>1. task'[t] = tr.next /\ tr.ok /\ \A u \in Tasks \ {t} : task'[u] = task[u]
    BY <1>3 DEF ApplyStep, Advances, Commit, Inductive, TypeOK
  <2>2. /\ task[t] = Active(task[t].node) /\ task[t].node \in CoreNodes
        /\ \/ tr.next.st = "Failed"
           \/ tr.next = Active("Implement") /\ task[t].node = "Rebase"
           \/ /\ tr.next = Active("AwaitMerge")
              /\ task[t].node = "Rebase" \/ (task[t].node = "Merging" /\ pend.what = "Blocked")
           \/ tr.next = Active("Cleanup") /\ task[t].node = "Merging" /\ pend.what = "Ok"
           \/ tr.next = Done /\ task[t].node = "Cleanup"
    BY <1>1, <2>1, CoreStepMoves
  <2>3. task[t].node = "Merging" => /\ pend.what = "Ok" => merged[t]
                                    /\ pend.what = "Blocked" => ~merged[t]
    BY <1>1 DEF Inductive, StepIsTrue
  <2>4. /\ task[t].node = "Rebase"  => StageOf(task[t]) = "working"
        /\ task[t].node = "Merging" => StageOf(task[t]) = "landing"
        /\ task[t].node = "Cleanup" => StageOf(task[t]) = "clearing"
    BY <2>2, StagesOfStates
  <2> HIDE DEF tr
  <2>5. CASE tr.next.st = "Failed"
    <3>1. StageOf(task'[t]) = "held" /\ StageOf(task[t]) \in {"working", "landing", "clearing"}
      BY <2>1, <2>2, <2>4, <2>5, StagesOfStates, Names
    <3>2. QED
      BY <1>1, <2>1, <3>1, HoldSeen
  <2>6. CASE tr.next = Active("Implement") /\ task[t].node = "Rebase"
    <3>1. StageOf(task'[t]) = StageOf(task[t])
      BY <2>1, <2>4, <2>6, StagesOfStates, Names
    <3>2. QED
      BY <1>1, <2>1, <3>1, StageStays
  <2>7. CASE tr.next = Active("AwaitMerge") /\ task[t].node = "Rebase"
    <3>1. Promise!Moves(t, {"working"}, {"asksPlan", "asksMerge"})
      BY <1>1, <2>1, <2>4, <2>7, StagesOfStates, StageMoves
    <3>2. QED
      BY <3>1 DEF Promise!Ask, Other
  <2>8. CASE tr.next = Active("AwaitMerge") /\ task[t].node = "Merging" /\ pend.what = "Blocked"
    <3>1. Promise!Moves(t, {"landing"}, {"asksMerge"})
      BY <1>1, <2>1, <2>4, <2>8, StagesOfStates, StageMoves
    <3>2. t \notin {u \in Tasks : merged[u]}
      BY <2>3, <2>8
    <3>3. QED
      BY <3>1, <3>2 DEF Promise!Blocked, Other
  <2>9. CASE tr.next = Active("Cleanup") /\ task[t].node = "Merging" /\ pend.what = "Ok"
    <3>1. Promise!Moves(t, {"landing"}, {"clearing"})
      BY <1>1, <2>1, <2>4, <2>9, StagesOfStates, StageMoves
    <3>2. t \in {u \in Tasks : merged[u]}
      <4>1. merged[t]
        BY <2>3, <2>9
      <4>2. QED
        BY <4>1
    <3>3. QED
      BY <3>1, <3>2 DEF Promise!Landed, Other
  <2>10. CASE tr.next = Done /\ task[t].node = "Cleanup"
    <3>1. Promise!Moves(t, {"clearing"}, {"done"})
      BY <1>1, <2>1, <2>4, <2>10, StagesOfStates, StageMoves
    <3>2. QED
      BY <3>1 DEF Promise!Finish, Other
  <2>11. QED
    BY <2>2, <2>5, <2>6, <2>7, <2>8, <2>9, <2>10
<1>4. QED
  BY <1>2, <1>3

(* A completed merge lands; the other steps move nothing yet.              *)
LEMMA CoreStepSeen ==
  ASSUME Inductive, NEW t \in Tasks, CoreStep(t)
  PROVE  Other(t) \/ Unseen
<1>1. PICK result \in StepResults(t) :
        merged' = [merged EXCEPT ![t] = @ \/ (task[t].node = "Merging" /\ result = "Ok")]
  BY DEF CoreStep
<1>2. /\ UNCHANGED task /\ merged \in [Tasks -> BOOLEAN] /\ task[t] \in States
      /\ task[t].st = "Active"
  BY ContextIsTyped DEF CoreStep, In, store, Inductive, TypeOK, VisitsOnce
<1>3. CASE task[t].node = "Merging" /\ result = "Ok"
  <2>1. {u \in Tasks : merged'[u]} = {u \in Tasks : merged[u]} \cup {t}
    BY <1>1, <1>2, <1>3
  <2>2. StageOf(task[t]) = "landing"
    BY <1>2, <1>3, StatesByTag, StagesOfStates
  <2>3. Promise!Land(t)
    BY <1>2, <2>1, <2>2 DEF Promise!Land
  <2>4. QED
    BY <2>3 DEF Other
<1>4. CASE ~(task[t].node = "Merging" /\ result = "Ok")
  <2>1. merged' = merged
    BY <1>1, <1>2, <1>4
  <2>2. QED
    BY <1>2, <2>1, NothingSeen
<1>5. QED
  BY <1>3, <1>4

(* fill_slots begins a queued task, within the limit.                      *)
LEMMA FillHeadSeen ==
  ASSUME Inductive, FillHead
  PROVE  /\ (\E t \in Tasks : Promise!Begin(t)) \/ Unseen
         /\ SlotsInUse(task') <= ParallelLimit \/ UNCHANGED task
<1>1. PICK t \in Oldest(queue) :
        LET tr == OnSlotAvailable(task[t])
        IN  IF Advances(tr) THEN Commit(t, tr, FALSE, 0) ELSE Errs
  BY DEF FillHead
<1> DEFINE tr == OnSlotAvailable(task[t])
<1>2. /\ t \in Tasks /\ task[t] \in States /\ Context(t) \in Contexts /\ UNCHANGED merged
      /\ inUse < ParallelLimit /\ SlotsInUse(task) <= inUse
  BY ContextIsTyped, NoOpIsTyped DEF FillHead, In, Oldest, outside, Inductive, TypeOK, SlotsCounted
<1>3. CASE ~Advances(tr)
  BY <1>1, <1>2, <1>3, NothingSeen DEF Errs, store
<1>4. CASE Advances(tr)
  <2>1. tr.ok /\ task'[t] = tr.next /\ \A u \in Tasks \ {t} : task'[u] = task[u]
    BY <1>1, <1>2, <1>4 DEF Advances, Commit, Inductive, TypeOK
  <2>2. task[t] = Queued /\ task'[t] = Active("Intake")
    BY <1>2, <2>1, UserMoves
  <2>3. StageOf(task[t]) \in {"queued"} /\ StageOf(task'[t]) \in {"working"}
    BY <2>2, StagesOfStates, Names
  <2> HIDE DEF tr
  <2>4. Promise!Begin(t)
    BY <1>2, <2>1, <2>3, StageMoves DEF Promise!Begin
  <2>5. SlotsInUse(task') <= SlotsInUse(task) + 1
    BY <1>2, <2>1, OneMoreSlot
  <2>6. SlotsInUse(task') \in Nat /\ SlotsInUse(task) \in Nat /\ inUse \in Nat /\ ParallelLimit \in Nat
    BY SlotsAreNat, SchedulerConstants DEF Inductive, TypeOK
  <2>7. SlotsInUse(task') <= ParallelLimit
    BY <1>2, <2>5, <2>6
  <2>8. QED
    BY <1>2, <2>4, <2>7
<1>5. QED
  BY <1>3, <1>4

(* Every other step shows nothing.                                         *)
LEMMA QuietUser ==
  ASSUME NEW t \in Tasks, NEW button, PressToEnd(t, button) \/ StartRetro(t) \/ Decide(t)
  PROVE  Unseen
BY NothingSeen DEF PressToEnd, StartRetro, Decide, store, outside

(* Recovery of one task.                                                   *)
LEMMA QuietTask ==
  ASSUME NEW t \in Tasks, RecoverTask(t)
  PROVE  Unseen
BY NothingSeen DEF RecoverTask, store

(* The end of a session, and its reaping.                                  *)
LEMMA QuietSession ==
  ASSUME NEW s \in Sids, ReapSession(s) \/ SessionExits(s)
  PROVE  Unseen
BY NothingSeen DEF ReapSession, SessionExits, store

(* The rest of the pass and of the world.                                  *)
LEMMA QuietCore ==
  ASSUME \/ TickBegins \/ RecoverDone \/ ReapDone \/ StepsDone \/ FillDone \/ Insert \/ CancelTask
         \/ EditConfig \/ Crash \/ UNCHANGED vars
  PROVE  Unseen
<1>1. UNCHANGED <<task, merged>>
  BY DEF TickBegins, RecoverDone, ReapDone, StepsDone, FillDone, Insert, CancelTask, EditConfig, Crash,
         vars, store, outside
<1>2. QED
  BY <1>1, NothingSeen

(* What every step of the scheduler is to the promise.                     *)
LEMMA NextSeen ==
  ASSUME Inductive, [Next]_vars
  PROVE  \/ Unseen
         \/ \E t \in Tasks : Other(t)
         \/ FillHead /\ \E t \in Tasks : Promise!Begin(t)
<1>1. ASSUME NEW t \in Tasks, User(t)
      PROVE  Other(t) \/ Unseen
  BY <1>1, CreateSeen, PressSeen, QuietUser DEF User
<1>2. CASE Tick
  <2>1. ASSUME NEW t \in Tasks, RecoverTask(t) \/ CoreStep(t)
        PROVE  Other(t) \/ Unseen
    BY <2>1, CoreStepSeen, QuietTask
  <2>2. CASE FillHead
    BY <2>2, FillHeadSeen
  <2>3. ASSUME NEW s \in Sids, ReapSession(s)
        PROVE  Unseen
    BY <2>3, QuietSession
  <2>4. CASE RecoverDone \/ ReapDone \/ StepsDone \/ FillDone
    BY <2>4, QuietCore
  <2>5. QED
    BY <1>2, <2>1, <2>2, <2>3, <2>4 DEF Tick
<1>3. CASE Perform
  <2>1. CASE Insert \/ CancelTask
    BY <2>1, QuietCore
  <2>2. CASE ApplyPress \/ LaunchFails \/ Launch \/ ApplyEnded \/ ApplyStep
    <3>1. PICK t \in Tasks : t = pend.task
      BY <2>2 DEF Inductive, PendingIsWhole, ApplyPress, LaunchFails, Launch, ApplyEnded, ApplyStep
    <3>2. Other(t) \/ Unseen
      BY <2>2, <3>1, ApplyPressSeen, LaunchFailsSeen, LaunchSeen, ApplyEndedSeen, ApplyStepSeen
    <3>3. QED
      BY <3>2
  <2>3. QED
    BY <1>3, <2>1, <2>2 DEF Perform
<1>4. CASE World
  BY <1>4, QuietSession, QuietCore DEF World
<1>5. CASE TickBegins \/ UNCHANGED vars
  BY <1>5, QuietCore
<1>6. QED
  BY <1>1, <1>2, <1>3, <1>4, <1>5 DEF Next

---------------------------------------------------------------------------
(* The theorems.                                                           *)

(* The initial state of the scheduler is one of the promise.               *)
LEMMA InitSeen == Init => Promise!Init
<1> SUFFICES ASSUME Init
             PROVE  Promise!Init
  OBVIOUS
<1>1. [t \in Tasks |-> StageOf(task[t])] = [t \in Tasks |-> "none"]
  BY StagesOfStates DEF Init
<1>2. {t \in Tasks : merged[t]} = {}
  BY DEF Init
<1>3. QED
  BY <1>1, <1>2 DEF Promise!Init

(* The scheduler keeps the promise a task makes its user: nothing lands    *)
(* without the second answer, what is done has landed, and what is over    *)
(* stays over, whatever crashes and however the steps interleave.          *)
THEOREM PromiseIsKept == Spec => KeepsPromise
<1>1. Init => Promise!Init
  BY InitSeen
<1>2. Inductive /\ [Next]_vars => [Promise!Next]_(Promise!vars)
  <2> SUFFICES ASSUME Inductive, [Next]_vars
               PROVE  Promise!Next \/ Unseen
    BY DEF Unseen
  <2>1. ASSUME NEW t \in Tasks, Other(t)
        PROVE  Promise!Next
    BY <2>1 DEF Other, Promise!Next
  <2>2. ASSUME NEW t \in Tasks, Promise!Begin(t)
        PROVE  Promise!Next
    BY <2>2 DEF Promise!Next
  <2>3. QED
    BY <2>1, <2>2, NextSeen
<1>3. QED
  BY <1>1, <1>2, AlwaysInductive, PTL DEF Spec, KeepsPromise, Promise!Spec

(* A step of the promise other than Begin takes no task out of the queue   *)
(* but to cancel it.                                                       *)
LEMMA OnlyBeginStarts ==
  ASSUME TypeOK, TypeOK', NEW u \in Tasks, task[u] = Queued, task'[u].st = "Active",
         Unseen \/ \E t \in Tasks : Other(t)
  PROVE  FALSE
<1> DEFINE stage == [t \in Tasks |-> StageOf(task[t])]
<1>1. StageOf(task[u]) = "queued" /\ stage[u] = "queued"
  BY StagesOfStates
<1>2. StageOf(task'[u]) \notin {"queued", "cancelled"} /\ stage'[u] = StageOf(task'[u])
  <2>1. task'[u] \in States
    BY DEF TypeOK, States, Absent
  <2>2. QED
    BY <2>1, StatesByTag DEF StageOf, Active, State, SessionNodes, RoleNodes, Nodes, WaitNodes, CoreNodes
<1>3. CASE Unseen
  <2>1. stage' = stage
    BY <1>3 DEF Unseen, Promise!vars
  <2>2. QED
    BY <1>1, <1>2, <2>1
<1>4. ASSUME NEW t \in Tasks, Other(t)
      PROVE  FALSE
  <2>1. stage' = stage \/ \E from, to : Promise!Moves(t, from, to)
                                      /\ ("queued" \in from => to = {"cancelled"})
    BY <1>4 DEF Other, Promise!Submit, Promise!Ask, Promise!AnswerPlan, Promise!AnswerMerge,
       Promise!Blocked, Promise!Landed, Promise!Finish, Promise!Hold, Promise!Release,
       Promise!Cancel, Promise!Land, Promise!Rework
  <2>2. stage' # stage
    BY <1>1, <1>2
  <2>3. PICK from, to : Promise!Moves(t, from, to) /\ ("queued" \in from => to = {"cancelled"})
    BY <2>1, <2>2
  <2>4. PICK x \in to : stage' = [stage EXCEPT ![t] = x]
    BY <2>3 DEF Promise!Moves
  <2>5. stage[t] \in from
    BY <2>3 DEF Promise!Moves
  <2>6. CASE u = t
    BY <1>1, <1>2, <2>3, <2>4, <2>5, <2>6
  <2>7. CASE u # t
    BY <1>1, <1>2, <2>4, <2>7
  <2>8. QED
    BY <2>6, <2>7
<1>5. QED
  BY <1>3, <1>4

(* fill_slots starts a queued task only when there is a slot for it, its   *)
(* own count of the slots notwithstanding.                                 *)
THEOREM QueueKeepsLimit == Spec => QueueStartsWithinLimit
<1>1. Inductive /\ Inductive' /\ [Next]_vars =>
        [\A t \in Tasks : task[t] = Queued /\ task'[t].st = "Active"
                         => SlotsInUse(task') <= ParallelLimit]_vars
  <2> SUFFICES ASSUME Inductive, Inductive', [Next]_vars,
                      NEW u \in Tasks, task[u] = Queued, task'[u].st = "Active"
               PROVE  SlotsInUse(task') <= ParallelLimit
    OBVIOUS
  <2>1. task' # task
    BY DEF Queued, State
  <2>2. CASE FillHead
    BY <2>1, <2>2, FillHeadSeen
  <2>3. CASE ~FillHead
    BY <2>3, NextSeen, OnlyBeginStarts DEF Inductive
  <2>4. QED
    BY <2>2, <2>3
<1>2. QED
  BY <1>1, AlwaysInductive, PTL DEF Spec, QueueStartsWithinLimit

---------------------------------------------------------------------------
(* Part 3: the sessions.                                                  *)

(* The invariant, on top of Inductive.                                     *)

(* A task that has a session is at its node, or is not running.            *)
RowAtItsNode ==
  \A s \in Sids : sess[s].row =>
    /\ task[sess[s].task].st \notin {"Absent", "Queued"}
    /\ task[sess[s].task].st = "Active" => task[sess[s].task].node = sess[s].kind

(* The outstanding step's task has no other session beside it.             *)
NoneBeside == pend.op \in {"press", "launch", "insert", "ended"} => Rows(pend.task) = {}

(* What is being started is the node's session, or the retro round of a    *)
(* task that is not running.                                               *)
LaunchFits ==
  pend.op \in {"launch", "insert"} =>
    IF phase = "retro" /\ ~pend.good
    THEN task[pend.task].st \notin {"Absent", "Active", "Queued"}
    ELSE task[pend.task] = Active(pend.what)

InsertFits ==
  pend.op = "insert" => /\ sess[pend.sid].task = pend.task /\ sess[pend.sid].kind = pend.what
                        /\ ~sess[pend.sid].row

(* A closed session's result finds its task at the node, or not running.   *)
EndedFits == pend.op = "ended" /\ task[pend.task].st = "Active" => task[pend.task].node = pend.what

(* The sessions left to reap are still in the store.                       *)
RowsToReap == phase = "reap" => \A s \in todoS : sess[s].row

Fits == OneRowPerTask /\ RowAtItsNode /\ NoneBeside /\ LaunchFits /\ InsertFits /\ EndedFits

---------------------------------------------------------------------------
(* Three kinds of steps.                                                   *)

(* No row is opened or moved.                                              *)
NoNewRow ==
  \A s \in Sids : sess'[s].row =>
    sess[s].row /\ sess'[s].task = sess[s].task /\ sess'[s].kind = sess[s].kind

(* Then no task gains a session.                                           *)
LEMMA RowsShrink ==
  ASSUME NoNewRow
  PROVE  \A t : Rows(t)' \subseteq Rows(t)
BY DEF NoNewRow, Rows

(* Tasks stay, and nothing is outstanding.                                 *)
LEMMA SettledFits ==
  ASSUME Fits, NoNewRow, task' = task, pend'.op \in {"none", "stepped", "cancel"}
  PROVE  Fits'
<1>1. OneRowPerTask' /\ RowAtItsNode'
  BY DEF Fits, NoNewRow, OneRowPerTask, RowAtItsNode
<1>2. NoneBeside' /\ LaunchFits' /\ InsertFits' /\ EndedFits'
  BY DEF NoneBeside, LaunchFits, InsertFits, EndedFits
<1>3. QED
  BY <1>1, <1>2 DEF Fits

(* Nothing of it moves.                                                    *)
LEMMA SameFits ==
  ASSUME Fits, NoNewRow, UNCHANGED <<task, pend, phase>>,
         pend.op = "insert" => /\ sess'[pend.sid].task = sess[pend.sid].task
                               /\ sess'[pend.sid].kind = sess[pend.sid].kind
                               /\ sess'[pend.sid].row = sess[pend.sid].row
  PROVE  Fits'
<1>1. OneRowPerTask' /\ RowAtItsNode'
  BY DEF Fits, NoNewRow, OneRowPerTask, RowAtItsNode
<1>2. NoneBeside'
  BY RowsShrink DEF Fits, NoneBeside
<1>3. LaunchFits' /\ InsertFits' /\ EndedFits'
  BY DEF Fits, LaunchFits, InsertFits, EndedFits
<1>4. QED
  BY <1>1, <1>2, <1>3 DEF Fits

(* A transition is stored for a task that has no session, or that stops    *)
(* running, which no queue and no node has to do with.                     *)
LEMMA CommitFits ==
  ASSUME Inductive, Fits, NEW t \in Tasks, NEW tr, Good(tr), NEW approving, NEW m \in Nat,
         Commit(t, tr, approving, m), sess' = sess,
         Rows(t) = {} \/ tr.next.st \notin {"Absent", "Queued", "Active"}
  PROVE  Fits'
<1>1. TypeOK /\ SessionsAreWhole
  BY DEF Inductive
<1>2. /\ task'[t] = tr.next /\ \A u \in Tasks \ {t} : task'[u] = task[u]
      /\ pend'.op \in {"none", "launch", "cancel"}
      /\ pend'.op # "none" => pend'.task = t
      /\ pend'.op = "launch" => task'[t] = Active(pend'.what) /\ pend'.good
  BY <1>1, CommitMoves
<1>3. \A u : Rows(u)' = Rows(u)
  BY DEF Rows
<1>4. \A s \in Sids : sess[s].row => sess[s].task \in Tasks /\ s \in Rows(sess[s].task)
  BY <1>1 DEF SessionsAreWhole, Rows
<1>5. RowAtItsNode'
  BY <1>2, <1>4 DEF Fits, RowAtItsNode
<1>6. NoneBeside'
  <2>1. pend'.op = "launch" => tr.next.st = "Active"
    BY <1>2 DEF Active, State
  <2>2. QED
    BY <1>2, <1>3, <2>1 DEF NoneBeside
<1>7. LaunchFits' /\ InsertFits' /\ EndedFits'
  BY <1>2 DEF LaunchFits, InsertFits, EndedFits
<1>8. OneRowPerTask'
  BY DEF Fits, OneRowPerTask
<1>9. QED
  BY <1>5, <1>6, <1>7, <1>8 DEF Fits

(* A refused transition leaves everything where it is.                     *)
LEMMA ErrsFits ==
  ASSUME Fits, Errs, sess' = sess
  PROVE  Fits'
BY SettledFits, NoOpIsTyped DEF Errs, store, NoNewRow

(* A task that runs no session: it waits in the queue, for the user, or    *)
(* for the core.                                                           *)
LEMMA NoRowsAt ==
  ASSUME Inductive, Fits, NEW t \in Tasks,
         \/ task[t].st \in {"Absent", "Queued"}
         \/ task[t].st = "Active" /\ task[t].node \notin SessionNodes
  PROVE  Rows(t) = {}
BY DEF Inductive, SessionsAreWhole, Fits, RowAtItsNode, Rows

---------------------------------------------------------------------------
(* The user's commands.                                                    *)

(* A careful user restarts a task without a session; a pause takes it out  *)
(* of running.                                                             *)
LEMMA PressFits ==
  ASSUME CarefulUser, Inductive, Fits, NEW t \in Tasks, NEW button, Press(t, button)
  PROVE  Fits'
<1>1. PICK tr \in Pressed(t, button), m \in {0} \cup {d.milestones : d \in Docs} :
        Advances(tr) /\ Commit(t, tr, button = "approve", m)
  BY DEF Press
<1>2. TypeOK /\ Good(tr) /\ tr.ok
  BY <1>1, PressedMoves DEF Advances, Inductive
<1>3. m \in Nat
  BY SchedulerConstants
<1>4. task[t] \in States /\ Context(t) \in Contexts
  BY <1>2, ContextIsTyped
<1>5. Rows(t) = {} \/ tr.next.st \notin {"Absent", "Queued", "Active"}
  <2>1. CASE button \in Restarts
    BY <2>1 DEF Press
  <2>2. CASE button \in {"approve", "reject", "merge"}
    <3>1. task[t] \in {Active("AwaitDesignApproval"), Active("AwaitMerge")}
      BY <1>1, <1>2, <1>4, <2>2, UserMoves DEF Pressed
    <3>2. task[t].st = "Active" /\ task[t].node \notin SessionNodes
      BY <3>1 DEF Active, State, SessionNodes, RoleNodes
    <3>3. QED
      BY <3>2, NoRowsAt
  <2>3. CASE button = "pause"
    <3>1. tr.next = Paused(task[t].node)
      BY <1>1, <1>2, <1>4, <2>3, ControlMoves DEF Pressed
    <3>2. QED
      BY <3>1 DEF Paused, State
  <2>4. button \in {"approve", "reject", "merge", "pause"} \cup Restarts
    BY <1>1 DEF Pressed, Restarts
  <2>5. QED
    BY <2>1, <2>2, <2>3, <2>4
<1>6. sess' = sess
  BY DEF Press, outside
<1>7. QED
  BY <1>1, <1>2, <1>3, <1>5, <1>6, CommitFits

(* A task that was not there has no session.                               *)
LEMMA CreateFits ==
  ASSUME Inductive, Fits, NEW t \in Tasks, Create(t)
  PROVE  Fits'
<1>1. /\ task[t] = Absent /\ task' = [task EXCEPT ![t] = Queued]
      /\ sess' = sess /\ pend' = pend /\ pend.op = "none" /\ TypeOK /\ SessionsAreWhole
  BY NoOpIsTyped DEF Create, outside, Idle, Inductive
<1>2. Rows(t) = {}
  <2>1. task[t].st \in {"Absent", "Queued"}
    BY <1>1 DEF Absent, State
  <2>2. QED
    BY <2>1, NoRowsAt
<1>3. \A s \in Sids : sess[s].row => sess[s].task \in Tasks \ {t}
  BY <1>1, <1>2 DEF SessionsAreWhole, Rows
<1>4. \A u \in Tasks \ {t} : task'[u] = task[u]
  BY <1>1 DEF TypeOK
<1>5. RowAtItsNode' /\ OneRowPerTask'
  BY <1>1, <1>3, <1>4 DEF Fits, RowAtItsNode, OneRowPerTask
<1>6. NoneBeside' /\ LaunchFits' /\ InsertFits' /\ EndedFits'
  BY <1>1 DEF NoneBeside, LaunchFits, InsertFits, EndedFits
<1>7. QED
  BY <1>5, <1>6 DEF Fits

(* The one session the task has is ended.                                  *)
LEMMA PressToEndFits ==
  ASSUME Inductive, Fits, NEW t \in Tasks, NEW button, PressToEnd(t, button)
  PROVE  Fits'
<1>1. /\ pend'.op = "press" /\ pend'.task = t /\ task' = task
      /\ TypeOK /\ sess \in [Sids -> Session]
  BY DEF PressToEnd, Pending, store, Inductive, TypeOK
<1>2. NoNewRow /\ Rows(t)' = {}
  <2>1. CASE Rows(t) = {} /\ UNCHANGED sess
    BY <2>1 DEF NoNewRow, Rows
  <2>2. ASSUME NEW s \in Rows(t), sess' = [sess EXCEPT ![s] = CloseRow(@)]
        PROVE  NoNewRow /\ Rows(t)' = {}
    <3>1. s \in Sids /\ sess[s] \in Session /\ sess[s].row /\ sess[s].task = t
      BY <1>1 DEF Rows
    <3>2. CloseRow(sess[s]) \in {FreeSession, [sess[s] EXCEPT !.row = FALSE]}
      BY <3>1 DEF CloseRow, Session
    <3>3. ~sess'[s].row /\ \A r \in Sids \ {s} : sess'[r] = sess[r]
      BY <1>1, <2>2, <3>1, <3>2 DEF FreeSession, Session
    <3>4. \A r \in Rows(t) : r = s
      BY <3>1 DEF Fits, OneRowPerTask, Rows
    <3>5. QED
      BY <3>3, <3>4 DEF NoNewRow, Rows
  <2>3. QED
    BY <2>1, <2>2 DEF PressToEnd
<1>3. OneRowPerTask' /\ RowAtItsNode'
  BY <1>1, <1>2 DEF Fits, NoNewRow, OneRowPerTask, RowAtItsNode
<1>4. NoneBeside' /\ LaunchFits' /\ InsertFits' /\ EndedFits'
  BY <1>1, <1>2 DEF NoneBeside, LaunchFits, InsertFits, EndedFits
<1>5. QED
  BY <1>3, <1>4 DEF Fits

(* A retro round is launched for a task that has no session and does not   *)
(* run.                                                                    *)
LEMMA StartRetroFits ==
  ASSUME Inductive, Fits, NEW t \in Tasks, StartRetro(t)
  PROVE  Fits'
<1>1. /\ pend'.op = "launch" /\ pend'.task = t /\ ~pend'.good /\ phase' = "retro"
      /\ task' = task /\ sess' = sess /\ Rows(t) = {}
      /\ task[t].st \notin {"Absent", "Active", "Queued"}
  BY DEF StartRetro, Pending, store, outside
<1>2. OneRowPerTask' /\ RowAtItsNode' /\ NoneBeside'
  BY <1>1 DEF Fits, OneRowPerTask, RowAtItsNode, NoneBeside, Rows
<1>3. LaunchFits' /\ InsertFits' /\ EndedFits'
  BY <1>1 DEF LaunchFits, InsertFits, EndedFits
<1>4. QED
  BY <1>2, <1>3 DEF Fits

(* A decision moves no task and no session.                                *)
LEMMA DecideFits ==
  ASSUME Fits, NEW t \in Tasks, Decide(t)
  PROVE  Fits'
BY SameFits DEF Decide, outside, core, NoNewRow

---------------------------------------------------------------------------
(* What a transition's action does.                                        *)

(* The session was ended before the trigger came.                          *)
LEMMA ApplyPressFits ==
  ASSUME Inductive, Fits, ApplyPress
  PROVE  Fits'
<1> DEFINE t  == pend.task
           tr == IF pend.what = "stop" THEN OnStop(task[t]) ELSE OnCancel(task[t])
<1>1. t \in Tasks /\ Rows(t) = {} /\ sess' = sess
  BY DEF ApplyPress, Inductive, PendingIsWhole, Fits, NoneBeside, outside
<1>2. task[t] \in States
  BY <1>1, ContextIsTyped DEF Inductive
<1>3. CASE Advances(tr)
  <2>1. Good(tr) /\ Commit(t, tr, FALSE, 0)
    BY <1>2, <1>3, ControlMoves DEF Advances, ApplyPress
  <2> HIDE DEF t, tr
  <2>2. QED
    BY <1>1, <2>1, CommitFits
<1>4. CASE ~Advances(tr)
  <2>1. Errs
    BY <1>4 DEF ApplyPress
  <2>2. QED
    BY <1>1, <2>1, ErrsFits
<1>5. QED
  BY <1>3, <1>4

(* A task whose session could not be launched has none.                    *)
LEMMA LaunchFailsFits ==
  ASSUME Inductive, Fits, LaunchFails
  PROVE  Fits'
<1>1. /\ pend.op = "launch" /\ pend.task \in Tasks /\ Rows(pend.task) = {}
      /\ sess' = sess /\ pend'.op = "none"
      /\ \A u \in Tasks \ {pend.task} : task'[u] = task[u]
  BY NoOpIsTyped DEF LaunchFails, Inductive, TypeOK, PendingIsWhole, Fits, NoneBeside
<1>2. \A s \in Sids : sess[s].row => sess[s].task \in Tasks \ {pend.task}
  BY <1>1 DEF Inductive, SessionsAreWhole, Rows
<1>3. OneRowPerTask' /\ RowAtItsNode'
  BY <1>1, <1>2 DEF Fits, OneRowPerTask, RowAtItsNode
<1>4. NoneBeside' /\ LaunchFits' /\ InsertFits' /\ EndedFits'
  BY <1>1 DEF NoneBeside, LaunchFits, InsertFits, EndedFits
<1>5. QED
  BY <1>3, <1>4 DEF Fits

(* A launched session is not recorded yet.                                 *)
LEMMA LaunchStaysFit ==
  ASSUME Inductive, Fits, Launch
  PROVE  Fits'
<1> DEFINE new == [row |-> FALSE, proc |-> "alive", task |-> pend.task,
                   kind |-> pend.what, pid |-> FALSE]
<1>1. PICK s \in FreeSids :
        /\ sess' = [sess EXCEPT ![s] = new]
        /\ pend' = [pend EXCEPT !.op = "insert", !.sid = s]
  BY DEF Launch
<1>2. /\ pend.op = "launch" /\ s \in Sids /\ UNCHANGED <<task, phase>>
      /\ sess' = [sess EXCEPT ![s] = new] /\ sess \in [Sids -> Session]
  BY <1>1 DEF Launch, FreeSids, store, Inductive, TypeOK
<1>3. /\ pend'.op = "insert" /\ pend'.sid = s
      /\ pend'.task = pend.task /\ pend'.what = pend.what /\ pend'.good = pend.good
  BY <1>1 DEF Inductive, TypeOK
<1>4. /\ sess'[s] = new /\ ~new.row /\ new.task = pend.task /\ new.kind = pend.what
      /\ \A r \in Sids \ {s} : sess'[r] = sess[r]
  BY <1>2
<1> HIDE DEF new
<1>5. NoNewRow
  BY <1>4 DEF NoNewRow
<1>6. OneRowPerTask' /\ RowAtItsNode'
  BY <1>2, <1>5 DEF Fits, NoNewRow, OneRowPerTask, RowAtItsNode
<1>7. NoneBeside'
  BY <1>2, <1>3, <1>5, RowsShrink DEF Fits, NoneBeside
<1>8. LaunchFits' /\ InsertFits' /\ EndedFits'
  BY <1>2, <1>3, <1>4 DEF Fits, LaunchFits, InsertFits, EndedFits
<1>9. QED
  BY <1>6, <1>7, <1>8 DEF Fits

(* The recorded session is its task's only one, and the node's.            *)
LEMMA InsertStaysFit ==
  ASSUME Inductive, Fits, Insert
  PROVE  Fits'
<1> DEFINE s == pend.sid
<1>1. PICK seen \in PidSeen :
        sess' = [sess EXCEPT ![s] = [@ EXCEPT !.row = TRUE, !.pid = seen]]
  BY DEF Insert
<1>2. /\ pend.op = "insert" /\ s \in Sids /\ pend.task \in Tasks /\ pend.what \in SessionNodes
      /\ task' = task /\ pend'.op = "none" /\ sess \in [Sids -> Session]
  BY NoOpIsTyped DEF Insert, store, Inductive, TypeOK, PendingIsWhole
<1>3. /\ Rows(pend.task) = {} /\ sess[s].task = pend.task /\ sess[s].kind = pend.what
  BY <1>2 DEF Fits, NoneBeside, InsertFits
<1>4. /\ \A r \in Sids \ {s} : sess'[r] = sess[r]
      /\ sess'[s].task = pend.task /\ sess'[s].kind = pend.what
  BY <1>1, <1>2, <1>3 DEF Session
<1>5. \A r \in Sids \ {s} : sess'[r].row => sess'[r].task # pend.task
  BY <1>3, <1>4 DEF Rows
<1>6. /\ task[pend.task].st \notin {"Absent", "Queued"}
      /\ task[pend.task].st = "Active" => task[pend.task].node = pend.what
  BY <1>2 DEF Fits, LaunchFits, Active, State
<1> HIDE DEF s
<1>7. OneRowPerTask'
  BY <1>4, <1>5 DEF Fits, OneRowPerTask
<1>8. RowAtItsNode'
  BY <1>2, <1>4, <1>6 DEF Fits, RowAtItsNode
<1>9. NoneBeside' /\ LaunchFits' /\ InsertFits' /\ EndedFits'
  BY <1>2 DEF NoneBeside, LaunchFits, InsertFits, EndedFits
<1>10. QED
  BY <1>7, <1>8, <1>9 DEF Fits

(* Removing a checkout ends the step.                                      *)
LEMMA CancelTaskFits ==
  ASSUME Fits, CancelTask
  PROVE  Fits'
BY SettledFits, NoOpIsTyped DEF CancelTask, store, NoNewRow

(* The closed session was the task's only one.                             *)
LEMMA ApplyEndedFits ==
  ASSUME Inductive, Fits, ApplyEnded
  PROVE  Fits'
<1> DEFINE t == pend.task
<1>1. t \in Tasks /\ Rows(t) = {} /\ sess' = sess
  BY DEF ApplyEnded, Inductive, PendingIsWhole, Fits, NoneBeside, outside
<1>2. CASE Errs
  BY <1>1, <1>2, ErrsFits
<1>3. ASSUME NEW outcome, NEW d \in Docs,
             Commit(t, OnSessionEnded(task[t], outcome, Context(t), d), FALSE, 0)
      PROVE  Fits'
  <2> DEFINE tr == OnSessionEnded(task[t], outcome, Context(t), d)
  <2>1. task[t] \in States /\ Context(t) \in Contexts
    BY <1>1, ContextIsTyped DEF Inductive
  <2>2. IsStatus(d) /\ d.open \in BOOLEAN /\ d.unfinished \in BOOLEAN
    BY SchedulerConstants DEF IsStatus
  <2>3. Good(tr)
    BY <2>1, <2>2, SessionMoves
  <2>4. Commit(t, tr, FALSE, 0)
    BY <1>3
  <2> HIDE DEF t, tr
  <2>5. QED
    BY <1>1, <2>3, <2>4, CommitFits
<1>4. QED
  BY <1>2, <1>3 DEF ApplyEnded

(* A task at a node of the core runs no session.                           *)
LEMMA ApplyStepFits ==
  ASSUME Inductive, Fits, ApplyStep
  PROVE  Fits'
<1> DEFINE t  == pend.task
           tr == OnCoreStepDone(task[t], task[t].node, pend.what)
<1>1. t \in Tasks /\ sess' = sess
  BY DEF ApplyStep, Inductive, PendingIsWhole, outside
<1>2. task[t] \in States
  BY <1>1, ContextIsTyped DEF Inductive
<1>3. CASE Advances(tr)
  <2>1. Good(tr) /\ tr.ok /\ Commit(t, tr, FALSE, 0)
    BY <1>2, <1>3, CoreStepMoves DEF Advances, ApplyStep
  <2>2. task[t] = Active(task[t].node) /\ task[t].node \in CoreNodes
    BY <1>2, <2>1, CoreStepMoves
  <2>3. task[t].st = "Active" /\ task[t].node \notin SessionNodes
    BY <2>2 DEF Active, State, CoreNodes, SessionNodes, RoleNodes
  <2>4. Rows(t) = {}
    BY <1>1, <2>3, NoRowsAt
  <2> HIDE DEF t, tr
  <2>5. QED
    BY <1>1, <2>1, <2>4, CommitFits
<1>4. CASE ~Advances(tr)
  <2>1. Errs
    BY <1>4 DEF ApplyStep
  <2>2. QED
    BY <1>1, <2>1, ErrsFits
<1>5. QED
  BY <1>3, <1>4

---------------------------------------------------------------------------
(* The scheduling pass.                                                    *)

(* From one phase to the next, and a core step.                            *)
LEMMA PassFits ==
  ASSUME Fits, \/ TickBegins \/ RecoverDone \/ ReapDone \/ StepsDone \/ FillDone
               \/ \E t \in Tasks : CoreStep(t)
  PROVE  Fits'
<1>1. ASSUME TickBegins \/ RecoverDone \/ ReapDone \/ StepsDone \/ FillDone
      PROVE  task' = task /\ sess' = sess /\ pend'.op = "none"
  BY <1>1, NoOpIsTyped DEF TickBegins, RecoverDone, ReapDone, StepsDone, FillDone, In, store, outside
<1>2. ASSUME NEW t \in Tasks, CoreStep(t)
      PROVE  task' = task /\ sess' = sess /\ pend'.op = "stepped"
  BY <1>2 DEF CoreStep, Pending, store
<1>3. task' = task /\ NoNewRow /\ pend'.op \in {"none", "stepped", "cancel"}
  BY <1>1, <1>2 DEF NoNewRow
<1>4. QED
  BY <1>3, SettledFits

(* A session's row is closed: its task has no other, and is at its node or *)
(* does not run.                                                           *)
LEMMA FinishFits ==
  ASSUME Inductive, Fits, NEW s \in Sids, sess[s].row, Finish(s), task' = task
  PROVE  Fits'
<1>1. /\ pend'.op = "ended" /\ pend'.task = sess[s].task /\ pend'.what = sess[s].kind
      /\ sess' = [sess EXCEPT ![s] = CloseRow(sess[s])]
      /\ sess \in [Sids -> Session]
  BY DEF Finish, Pending, Inductive, TypeOK
<1>2. ~CloseRow(sess[s]).row
  BY <1>1 DEF CloseRow, FreeSession, Session
<1>3. ~sess'[s].row /\ \A r \in Sids \ {s} : sess'[r] = sess[r]
  BY <1>1, <1>2
<1>4. NoNewRow
  BY <1>3 DEF NoNewRow
<1>5. OneRowPerTask' /\ RowAtItsNode'
  BY <1>4 DEF Fits, NoNewRow, OneRowPerTask, RowAtItsNode
<1>6. NoneBeside'
  BY <1>1, <1>3 DEF Fits, OneRowPerTask, NoneBeside, Rows
<1>7. LaunchFits' /\ InsertFits' /\ EndedFits'
  BY <1>1 DEF Fits, RowAtItsNode, LaunchFits, InsertFits, EndedFits
<1>8. QED
  BY <1>5, <1>6, <1>7 DEF Fits

(* recover starts the node's session only where there is none.             *)
LEMMA RecoverTaskFits ==
  ASSUME Inductive, Fits, NEW t \in Tasks, RecoverTask(t)
  PROVE  Fits'
<1>1. /\ phase = "recover" /\ pend = NoOp /\ t \in todoT /\ phase' = phase /\ task' = task
  BY DEF RecoverTask, In, store
<1>2. CASE \E s \in Rows(t) : Finish(s)
  BY <1>1, <1>2, FinishFits DEF Rows
<1>3. CASE UNCHANGED <<sess, pend>>
  BY <1>1, <1>3, NoOpIsTyped, SettledFits DEF NoNewRow
<1>4. CASE /\ Rows(t) = {} /\ UNCHANGED sess
           /\ pend' = IF configOk THEN Pending("launch", t, NoSid, task[t].node, FALSE) ELSE NoOp
  <2>1. CASE configOk
    <3>1. task[t].node \in SessionNodes /\ task[t].st = "Active" /\ task[t] \in States
      BY <1>1, ContextIsTyped DEF Inductive, VisitsOnce
    <3>2. task[t] = Active(task[t].node)
      BY <3>1, StatesByTag
    <3>3. /\ pend'.op = "launch" /\ pend'.task = t /\ pend'.what = task[t].node
          /\ phase' = "recover" /\ sess' = sess /\ task' = task
      BY <1>1, <1>4, <2>1 DEF Pending
    <3>4. OneRowPerTask' /\ RowAtItsNode' /\ NoneBeside'
      BY <1>4, <3>3 DEF Fits, OneRowPerTask, RowAtItsNode, NoneBeside, Rows
    <3>5. LaunchFits' /\ InsertFits' /\ EndedFits'
      BY <3>2, <3>3 DEF LaunchFits, InsertFits, EndedFits
    <3>6. QED
      BY <3>4, <3>5 DEF Fits
  <2>2. CASE ~configOk
    BY <1>1, <1>4, <2>2, NoOpIsTyped, SettledFits DEF NoNewRow
  <2>3. QED
    BY <2>1, <2>2
<1>5. QED
  BY <1>2, <1>3, <1>4 DEF RecoverTask

(* The sessions to reap are those with a row.                              *)
LEMMA ReapSessionFits ==
  ASSUME Inductive, Fits, NEW s \in Sids, sess[s].row, ReapSession(s)
  PROVE  Fits'
<1>1. task' = task /\ pend = NoOp
  BY DEF ReapSession, In, store
<1>2. CASE Finish(s)
  BY <1>1, <1>2, FinishFits
<1>3. CASE UNCHANGED <<sess, pend>>
  BY <1>1, <1>3, NoOpIsTyped, SettledFits DEF NoNewRow
<1>4. QED
  BY <1>2, <1>3 DEF ReapSession

(* A queued task has no session.                                           *)
LEMMA FillHeadFits ==
  ASSUME Inductive, Fits, FillHead
  PROVE  Fits'
<1>1. PICK t \in Tasks :
        LET tr == OnSlotAvailable(task[t])
        IN  Good(tr) /\ (Errs \/ (Commit(t, tr, FALSE, 0) /\ tr.action = "Start"))
  BY FillHeadMoves
<1>2. sess' = sess
  BY DEF FillHead, outside
<1>3. CASE Errs
  BY <1>2, <1>3, ErrsFits
<1>4. CASE ~Errs
  <2> DEFINE tr == OnSlotAvailable(task[t])
  <2>1. Good(tr) /\ Commit(t, tr, FALSE, 0) /\ tr.action = "Start"
    BY <1>1, <1>4
  <2>2. task[t].st \in {"Absent", "Queued"}
    BY <2>1 DEF OnSlotAvailable, Rejected
  <2>3. Rows(t) = {}
    BY <2>2, NoRowsAt
  <2> HIDE DEF tr
  <2>4. QED
    BY <1>2, <2>1, <2>3, CommitFits
<1>5. QED
  BY <1>3, <1>4

---------------------------------------------------------------------------
(* The world.                                                              *)

(* A session that ends keeps its row, its task and its node.               *)
LEMMA SessionExitsFits ==
  ASSUME Inductive, Fits, NEW s \in Sids, SessionExits(s)
  PROVE  Fits'
<1>1. PICK how \in {"ok", "err", "gone"} :
        sess' = [sess EXCEPT ![s] = IF @.row \/ pend.sid = s
                                    THEN [@ EXCEPT !.proc = how] ELSE FreeSession]
  BY DEF SessionExits
<1>2. sess \in [Sids -> Session] /\ UNCHANGED <<task, pend, phase>>
  BY DEF SessionExits, store, core, Inductive, TypeOK
<1>3. \A r \in Sids \ {s} : sess'[r] = sess[r]
  BY <1>1, <1>2
<1>4. CASE sess[s].row \/ pend.sid = s
  <2>1. /\ sess'[s].row = sess[s].row /\ sess'[s].task = sess[s].task
        /\ sess'[s].kind = sess[s].kind
    BY <1>1, <1>2, <1>4 DEF Session
  <2>2. NoNewRow
    BY <1>3, <2>1 DEF NoNewRow
  <2>3. QED
    BY <1>2, <1>3, <2>1, <2>2, SameFits DEF Inductive, PendingIsWhole
<1>5. CASE ~sess[s].row /\ pend.sid # s
  <2>1. ~sess'[s].row
    BY <1>1, <1>2, <1>5 DEF FreeSession
  <2>2. NoNewRow
    BY <1>3, <2>1 DEF NoNewRow
  <2>3. QED
    BY <1>2, <1>3, <1>5, <2>2, SameFits DEF Inductive, PendingIsWhole
<1>6. QED
  BY <1>4, <1>5

(* The configuration is no part of it.                                     *)
LEMMA EditConfigFits ==
  ASSUME Fits, EditConfig
  PROVE  Fits'
BY SameFits DEF EditConfig, store, core, NoNewRow

(* A crash forgets the step outstanding, and opens no row.                 *)
LEMMA CrashFits ==
  ASSUME Inductive, Fits, Crash
  PROVE  Fits'
<1>1. task' = task /\ pend'.op = "none"
  BY NoOpIsTyped DEF Crash, store
<1>2. NoNewRow
  BY DEF Crash, NoNewRow, FreeSession, Inductive, TypeOK
<1>3. QED
  BY <1>1, <1>2, SettledFits

---------------------------------------------------------------------------
(* The theorems.                                                           *)

(* A pass reads the sessions to reap and closes each once.                 *)
LEMMA RowsToReapKept ==
  ASSUME Inductive, RowsToReap, [Next]_vars
  PROVE  RowsToReap'
<1>1. ASSUME NEW t \in Tasks, User(t)
      PROVE  phase' \in {"command", "retro", "idle"}
  BY <1>1 DEF User, Create, Press, PressToEnd, StartRetro, Decide, Idle, core
<1>2. CASE TickBegins
  BY <1>2 DEF TickBegins, RowsToReap, RunningRows, outside
<1>3. ASSUME NEW s \in Sids, ReapSession(s)
      PROVE  \A r \in todoS' : sess'[r] = sess[r]
  BY <1>3 DEF ReapSession, Finish, Inductive, TypeOK
<1>4. CASE RecoverDone \/ ReapDone \/ StepsDone \/ FillDone \/ FillHead
  BY <1>4 DEF RecoverDone, ReapDone, StepsDone, FillDone, FillHead, In, RowsToReap, RunningRows, outside
<1>5. ASSUME NEW t \in Tasks, RecoverTask(t) \/ CoreStep(t)
      PROVE  phase' # "reap"
  BY <1>5 DEF RecoverTask, CoreStep, In
<1>6. CASE Perform
  <2>1. CASE Launch
    <3>1. PICK s \in FreeSids :
            sess' = [sess EXCEPT ![s] = [row |-> FALSE, proc |-> "alive", task |-> pend.task,
                                         kind |-> pend.what, pid |-> FALSE]]
      BY <2>1 DEF Launch
    <3>2. ~sess[s].row
      BY DEF FreeSids, FreeSession
    <3>3. QED
      BY <2>1, <3>1, <3>2 DEF Launch, RowsToReap, Inductive, TypeOK
  <2>2. CASE Insert
    BY <2>2 DEF Insert, RowsToReap, Inductive, TypeOK, Session
  <2>3. CASE ApplyPress \/ LaunchFails \/ CancelTask \/ ApplyEnded \/ ApplyStep
    BY <2>3 DEF ApplyPress, LaunchFails, CancelTask, ApplyEnded, ApplyStep, outside, RowsToReap
  <2>4. QED
    BY <1>6, <2>1, <2>2, <2>3 DEF Perform
<1>7. CASE World
  <2>1. CASE Crash
    BY <2>1 DEF Crash, RowsToReap
  <2>2. CASE EditConfig
    BY <2>2 DEF EditConfig, core, RowsToReap
  <2>3. ASSUME NEW s \in Sids, SessionExits(s)
        PROVE  \A r \in Sids : sess[r].row => sess'[r].row
    BY <2>3 DEF SessionExits, Inductive, TypeOK, Session
  <2>4. QED
    BY <1>7, <2>1, <2>2, <2>3 DEF World, SessionExits, core, RowsToReap, Inductive, TypeOK
<1>8. CASE UNCHANGED vars
  BY <1>8 DEF vars, outside, core, RowsToReap
<1>9. QED
  BY <1>1, <1>2, <1>3, <1>4, <1>5, <1>6, <1>7, <1>8
     DEF Next, Tick, RowsToReap, ReapSession

(* Every step of a careful user's scheduler keeps the invariant.           *)
LEMMA NextFits ==
  ASSUME CarefulUser, Inductive, RowsToReap, Fits, [Next]_vars
  PROVE  Fits'
<1>1. ASSUME NEW t \in Tasks, User(t)
      PROVE  Fits'
  BY <1>1, CreateFits, PressFits, PressToEndFits, StartRetroFits, DecideFits DEF User
<1>2. CASE TickBegins
  BY <1>2, PassFits
<1>3. CASE Tick
  <2>1. ASSUME NEW s \in Sids, ReapSession(s)
        PROVE  Fits'
    <3>1. sess[s].row
      BY <2>1 DEF ReapSession, In, RowsToReap
    <3>2. QED
      BY <2>1, <3>1, ReapSessionFits
  <2>2. QED
    BY <1>3, <2>1, PassFits, RecoverTaskFits, FillHeadFits DEF Tick
<1>4. CASE Perform
  BY <1>4, ApplyPressFits, LaunchFailsFits, LaunchStaysFit, InsertStaysFit, CancelTaskFits,
     ApplyEndedFits, ApplyStepFits DEF Perform
<1>5. CASE World
  BY <1>5, SessionExitsFits, EditConfigFits, CrashFits DEF World
<1>6. CASE UNCHANGED vars
  BY <1>6, SameFits DEF vars, store, outside, core, NoNewRow
<1>7. QED
  BY <1>1, <1>2, <1>3, <1>4, <1>5, <1>6 DEF Next

(* The invariant is one where a user restarts a task only when none of its *)
(* sessions runs.                                                          *)
LEMMA AlwaysFits ==
  ASSUME CarefulUser
  PROVE  Spec => [](Inductive /\ RowsToReap /\ Fits)
<1>1. Init => RowsToReap /\ Fits
  BY NoOpIsTyped DEF Init, RowsToReap, Fits, OneRowPerTask, RowAtItsNode, NoneBeside, LaunchFits,
     InsertFits, EndedFits, FreeSession
<1>2. Inductive /\ RowsToReap /\ Fits /\ [Next]_vars => RowsToReap' /\ Fits'
  BY NextFits, RowsToReapKept
<1>3. Inductive /\ [Next]_vars => Inductive'
  BY NextKeeps
<1>4. QED
  BY <1>1, <1>2, <1>3, InitIsInductive, PTL DEF Spec

(* A task has one session in the store at a time, whatever crashes, fails  *)
(* to launch or is not heard of: running_session may take the first.       *)
THEOREM OneSessionAtATime ==
  ASSUME CarefulUser
  PROVE  Spec => []OneRowPerTask
<1>1. Fits => OneRowPerTask
  BY DEF Fits
<1>2. QED
  BY <1>1, AlwaysFits, PTL

(* A closed session's result is applied to the node it ran for, or changes *)
(* nothing: reap_session may hand it to whatever node the task is at.      *)
THEOREM ResultsFindTheirNode ==
  ASSUME CarefulUser
  PROVE  Spec => ResultMatchesNode
<1> DEFINE Matches == \A t \in Tasks : pend.op = "ended" /\ pend.task = t /\ task'[t] # task[t]
                                       => task[t].node = pend.what
<1>1. Inductive /\ Fits /\ [Next]_vars => [Matches]_vars
  <2> SUFFICES ASSUME Inductive, Fits, Next, NEW t \in Tasks,
                      pend.op = "ended", pend.task = t, task'[t] # task[t]
               PROVE  task[t].node = pend.what
    OBVIOUS
  <2>1. pend # NoOp /\ phase # "idle"
    BY NoOpIsTyped DEF Inductive, OpsOfPhase
  <2>2. ApplyEnded
    BY <2>1 DEF Next, User, Create, Press, PressToEnd, StartRetro, Decide, Idle, TickBegins, Tick,
       RecoverTask, CoreStep, ReapSession, RecoverDone, ReapDone, StepsDone, FillHead, FillDone, In,
       Perform, ApplyPress, LaunchFails, Launch, Insert, CancelTask, ApplyStep, World, SessionExits,
       EditConfig, Crash, store
  <2>3. ~Errs
    BY DEF Errs, store
  <2>4. PICK outcome \in {"Ok", "Unparseable", "MissingArtifact", "GuardFailed", "Crashed"},
             d \in Docs : Advances(OnSessionEnded(task[t], outcome, Context(t), d))
    <3>1. pend.what # "Retro" \/ task[t].st = "Active"
      BY <2>2, <2>3 DEF ApplyEnded
    <3>2. PICK outcome \in IF pend.good
                           THEN {"Ok", "Unparseable", "MissingArtifact", "GuardFailed"}
                           ELSE {"Crashed"}, d \in Docs :
            LET tr == OnSessionEnded(task[t], outcome, Context(t), d)
            IN  IF Advances(tr) THEN Commit(t, tr, FALSE, 0) ELSE Errs
      BY <2>2, <3>1 DEF ApplyEnded
    <3>3. Advances(OnSessionEnded(task[t], outcome, Context(t), d))
      BY <2>3, <3>2
    <3>4. QED
      BY <3>2, <3>3
  <2>5. task[t].st = "Active"
    <3>1. OnSessionEnded(task[t], outcome, Context(t), d).ok
      BY <2>4 DEF Advances
    <3>2. QED
      BY <3>1 DEF OnSessionEnded, Rejected
  <2>6. QED
    BY <2>5 DEF Fits, EndedFits
<1>2. QED
  BY <1>1, AlwaysFits, PTL DEF Spec, ResultMatchesNode

---------------------------------------------------------------------------
(* Part 4: no process is forgotten but by a stop.                          *)

(* No running process is forgotten, where the core does not die and every  *)
(* pid is read.                                                            *)

AllGoesWell == MaxCrashes = 0 /\ PidSeen = {TRUE}

(* Of a recorded session the pid is known, and only the one being launched *)
(* is outstanding.                                                         *)
NothingHidden ==
  /\ \A s \in Sids : sess[s].row => sess[s].pid
  /\ pend.op # "insert" => pend.sid = NoSid

Remembers == \A s \in Sids : Forgets(s) => pend'.op = "press"

(* Storing a transition launches nothing yet.                              *)
LEMMA CommitLaunchesNothing ==
  ASSUME NEW t, NEW tr, NEW approving, NEW m, Commit(t, tr, approving, m) \/ Errs
  PROVE  pend'.op # "insert" /\ pend'.sid = NoSid
BY DEF Commit, Effect, Errs, NoOp, Pending

(* No session is touched, and nothing is launched.                         *)
LEMMA StaysHidden ==
  ASSUME NothingHidden, pend.op # "insert", sess' = sess, pend'.op # "insert", pend'.sid = NoSid
  PROVE  NothingHidden' /\ Remembers
BY SchedulerConstants DEF NothingHidden, Remembers, Forgets, Known

(* One session is, and it does not run unrecorded afterwards.              *)
LEMMA OneChanges ==
  ASSUME NothingHidden, NEW s \in Sids, pend.op # "insert" \/ pend.sid = s,
         \A r \in Sids \ {s} : sess'[r] = sess[r],
         sess'[s].row => sess'[s].pid,
         sess'[s].proc = "alive" => sess'[s].row \/ pend'.sid = s,
         pend'.op # "insert" => pend'.sid = NoSid
  PROVE  NothingHidden' /\ Remembers
BY SchedulerConstants DEF NothingHidden, Remembers, Forgets, Known

(* The user's commands forget at most the session that is stopped.         *)
LEMMA UserHidesNothing ==
  ASSUME AllGoesWell, Inductive, NothingHidden, NEW t \in Tasks, User(t)
  PROVE  NothingHidden' /\ Remembers
<1>1. pend = NoOp /\ pend.op # "insert" /\ sess \in [Sids -> Session]
  BY NoOpIsTyped DEF User, Create, Press, PressToEnd, StartRetro, Decide, Idle, Inductive, TypeOK,
     OpsOfPhase
<1>2. ASSUME NEW button, PressToEnd(t, button)
      PROVE  NothingHidden' /\ Remembers
  <2>1. pend'.op = "press" /\ pend'.sid = NoSid
    BY <1>2 DEF PressToEnd, Pending
  <2>2. ASSUME NEW s \in Rows(t), sess' = [sess EXCEPT ![s] = CloseRow(@)]
        PROVE  NothingHidden' /\ Remembers
    <3>1. s \in Sids /\ sess[s] \in Session
      BY <1>1 DEF Rows
    <3>2. ~CloseRow(sess[s]).row
      BY <3>1 DEF CloseRow, FreeSession, Session
    <3>3. ~sess'[s].row /\ \A r \in Sids \ {s} : sess'[r] = sess[r]
      BY <1>1, <2>2, <3>1, <3>2
    <3>4. QED
      BY <1>1, <2>1, <3>3 DEF NothingHidden, Remembers
  <2>3. CASE UNCHANGED sess
    BY <1>1, <2>1, <2>3, StaysHidden
  <2>4. QED
    BY <1>2, <2>2, <2>3 DEF PressToEnd
<1>3. ASSUME NEW button, Press(t, button)
      PROVE  NothingHidden' /\ Remembers
  <2>1. sess' = sess /\ pend'.op # "insert" /\ pend'.sid = NoSid
    BY <1>3, CommitLaunchesNothing DEF Press, outside
  <2>2. QED
    BY <1>1, <2>1, StaysHidden
<1>4. CASE Create(t) \/ StartRetro(t) \/ Decide(t)
  <2>1. sess' = sess /\ pend'.op # "insert" /\ pend'.sid = NoSid
    BY <1>1, <1>4 DEF Create, StartRetro, Decide, outside, core, NoOp, Pending
  <2>2. QED
    BY <1>1, <2>1, StaysHidden
<1>5. QED
  BY <1>2, <1>3, <1>4 DEF User

(* A session with a pid is closed only once it has ended.                  *)
LEMMA FinishHidesNothing ==
  ASSUME NothingHidden, sess \in [Sids -> Session], NEW s \in Sids, sess[s].row, Finish(s),
         pend.op # "insert"
  PROVE  NothingHidden' /\ Remembers
<1>1. pend'.op # "insert" /\ pend'.sid = NoSid
  BY DEF Finish, Pending
<1>2. sess[s].proc # "alive"
  BY DEF NothingHidden, Finish, Exited, MayVanish
<1>3. sess'[s] = FreeSession /\ \A r \in Sids \ {s} : sess'[r] = sess[r]
  BY <1>2 DEF Finish, CloseRow
<1>4. QED
  BY <1>1, <1>3, OneChanges DEF FreeSession

(* A pass closes the rows of sessions that have ended.                     *)
LEMMA TickHidesNothing ==
  ASSUME AllGoesWell, Inductive, RowsToReap, NothingHidden, TickBegins \/ Tick
  PROVE  NothingHidden' /\ Remembers
<1>1. pend = NoOp /\ pend.op # "insert" /\ sess \in [Sids -> Session]
  BY NoOpIsTyped DEF TickBegins, Tick, RecoverTask, CoreStep, ReapSession, RecoverDone, ReapDone,
     StepsDone, FillHead, FillDone, In, Inductive, TypeOK
<1>2. NoOp.sid = NoSid /\ NoOp.op # "insert"
  BY DEF NoOp, Pending
<1>3. CASE TickBegins \/ RecoverDone \/ ReapDone \/ StepsDone \/ FillDone
  <2>1. sess' = sess /\ pend' = pend
    BY <1>3 DEF TickBegins, RecoverDone, ReapDone, StepsDone, FillDone, outside
  <2>2. QED
    BY <1>1, <1>2, <2>1, StaysHidden
<1>4. CASE FillHead
  <2>1. sess' = sess /\ pend'.op # "insert" /\ pend'.sid = NoSid
    BY <1>4, CommitLaunchesNothing DEF FillHead, outside
  <2>2. QED
    BY <1>1, <2>1, StaysHidden
<1>5. ASSUME NEW t \in Tasks, CoreStep(t)
      PROVE  NothingHidden' /\ Remembers
  <2>1. sess' = sess /\ pend'.op # "insert" /\ pend'.sid = NoSid
    <3>1. PICK result \in StepResults(t) : pend' = Pending("stepped", t, NoSid, result, TRUE)
      BY <1>5 DEF CoreStep
    <3>2. QED
      BY <1>5, <3>1 DEF CoreStep, Pending
  <2>2. QED
    BY <1>1, <2>1, StaysHidden
<1>6. ASSUME NEW t \in Tasks, RecoverTask(t)
      PROVE  NothingHidden' /\ Remembers
  <2>1. CASE \E s \in Rows(t) : Finish(s)
    BY <1>1, <2>1, FinishHidesNothing DEF Rows
  <2>2. CASE sess' = sess /\ pend'.op # "insert" /\ pend'.sid = NoSid
    BY <1>1, <2>2, StaysHidden
  <2>3. QED
    <3>1. CASE UNCHANGED <<sess, pend>>
      BY <1>1, <1>2, <2>2, <3>1
    <3>2. CASE UNCHANGED sess
               /\ pend' = IF configOk THEN Pending("launch", t, NoSid, task[t].node, FALSE) ELSE NoOp
      BY <1>2, <2>2, <3>2 DEF Pending
    <3>3. QED
      BY <1>6, <2>1, <3>1, <3>2 DEF RecoverTask
<1>7. ASSUME NEW s \in Sids, ReapSession(s)
      PROVE  NothingHidden' /\ Remembers
  <2>1. sess[s].row
    BY <1>7 DEF ReapSession, In, RowsToReap
  <2>2. CASE Finish(s)
    BY <1>1, <2>1, <2>2, FinishHidesNothing
  <2>3. CASE UNCHANGED <<sess, pend>>
    BY <1>1, <1>2, <2>3, StaysHidden
  <2>4. QED
    BY <1>7, <2>2, <2>3 DEF ReapSession
<1>8. QED
  BY <1>3, <1>4, <1>5, <1>6, <1>7 DEF Tick

(* A launched session is recorded, with its pid.                           *)
LEMMA PerformHidesNothing ==
  ASSUME AllGoesWell, Inductive, NothingHidden, Perform
  PROVE  NothingHidden' /\ Remembers
<1>1. sess \in [Sids -> Session] /\ NoOp.sid = NoSid /\ NoOp.op # "insert"
  BY DEF Inductive, TypeOK, NoOp, Pending
<1>2. CASE ApplyPress \/ ApplyEnded \/ ApplyStep \/ LaunchFails \/ CancelTask
  <2>1. sess' = sess /\ pend.op # "insert"
    BY <1>2 DEF ApplyPress, ApplyEnded, ApplyStep, LaunchFails, CancelTask, outside
  <2>2. pend'.op # "insert" /\ pend'.sid = NoSid
    <3>1. CASE LaunchFails \/ CancelTask
      BY <1>1, <3>1 DEF LaunchFails, CancelTask
    <3>2. CASE ApplyPress \/ ApplyStep
      BY <3>2, CommitLaunchesNothing DEF ApplyPress, ApplyStep
    <3>3. ASSUME Errs \/ \E tr : Commit(pend.task, tr, FALSE, 0)
          PROVE  pend'.op # "insert" /\ pend'.sid = NoSid
      BY <3>3, CommitLaunchesNothing
    <3>4. QED
      BY <1>2, <3>1, <3>2, <3>3 DEF ApplyEnded
  <2>3. QED
    BY <2>1, <2>2, StaysHidden
<1>3. CASE Launch
  <2>1. PICK s \in FreeSids :
          /\ sess' = [sess EXCEPT ![s] = [row |-> FALSE, proc |-> "alive", task |-> pend.task,
                                          kind |-> pend.what, pid |-> FALSE]]
          /\ pend' = [pend EXCEPT !.op = "insert", !.sid = s]
    BY <1>3 DEF Launch
  <2>2. pend.op = "launch" /\ pend.sid = NoSid /\ s \in Sids /\ pend'.op = "insert" /\ pend'.sid = s
    BY <1>3, <2>1 DEF Launch, NothingHidden, Inductive, TypeOK, FreeSids
  <2>3. ~sess'[s].row /\ \A r \in Sids \ {s} : sess'[r] = sess[r]
    BY <1>1, <2>1, <2>2
  <2>4. QED
    BY <2>2, <2>3, OneChanges
<1>4. CASE Insert
  <2>1. sess' = [sess EXCEPT ![pend.sid] = [@ EXCEPT !.row = TRUE, !.pid = TRUE]]
    BY <1>4 DEF Insert, AllGoesWell
  <2>2. pend.op = "insert" /\ pend.sid \in Sids /\ pend' = NoOp
    BY <1>4 DEF Insert, Inductive, PendingIsWhole
  <2>3. /\ sess'[pend.sid].row /\ sess'[pend.sid].pid
        /\ \A r \in Sids \ {pend.sid} : sess'[r] = sess[r]
    BY <1>1, <2>1, <2>2 DEF Session
  <2>4. QED
    BY <1>1, <2>2, <2>3, OneChanges
<1>5. QED
  BY <1>2, <1>3, <1>4 DEF Perform

(* Sessions end by themselves.                                             *)
LEMMA WorldHidesNothing ==
  ASSUME AllGoesWell, Inductive, NothingHidden, World
  PROVE  NothingHidden' /\ Remembers
<1>1. ~Crash
  BY DEF Crash, AllGoesWell, Inductive, TypeOK
<1>2. CASE EditConfig
  BY <1>2 DEF EditConfig, core, NothingHidden, Remembers, Forgets, Known
<1>3. ASSUME NEW s \in Sids, SessionExits(s)
      PROVE  NothingHidden' /\ Remembers
  <2>1. PICK how \in {"ok", "err", "gone"} :
          sess' = [sess EXCEPT ![s] = IF @.row \/ pend.sid = s
                                      THEN [@ EXCEPT !.proc = how] ELSE FreeSession]
    BY <1>3 DEF SessionExits
  <2>2. /\ pend' = pend /\ sess \in [Sids -> Session]
        /\ \A r \in Sids \ {s} : sess'[r] = sess[r]
    BY <1>3, <2>1 DEF SessionExits, core, Inductive, TypeOK
  <2>3. \/ ~sess'[s].row /\ sess'[s].proc # "alive"
        \/ /\ sess'[s].row = sess[s].row /\ sess'[s].pid = sess[s].pid
           /\ sess'[s].proc # "alive"
    BY <2>1, <2>2 DEF Session, FreeSession
  <2>4. QED
    BY <2>2, <2>3, SchedulerConstants DEF NothingHidden, Remembers, Forgets, Known
<1>4. QED
  BY <1>1, <1>2, <1>3 DEF World

(* A process works, and costs, unknown to the store only once the user has *)
(* stopped or cancelled its task (reap_session, recover, start_session).   *)
THEOREM OnlyAStopForgets ==
  ASSUME AllGoesWell
  PROVE  Spec => OnlyStopsForget
<1>1. Init => RowsToReap /\ NothingHidden
  BY DEF Init, RowsToReap, NothingHidden, FreeSession, NoOp, Pending
<1>2. Inductive /\ RowsToReap /\ NothingHidden /\ [Next]_vars => NothingHidden' /\ [Remembers]_vars
  <2>1. CASE UNCHANGED vars
    BY <2>1 DEF vars, outside, core, NothingHidden
  <2>2. QED
    BY <2>1, UserHidesNothing, TickHidesNothing, PerformHidesNothing, WorldHidesNothing DEF Next
<1>3. Inductive /\ RowsToReap /\ [Next]_vars => RowsToReap' /\ Inductive'
  BY RowsToReapKept, NextKeeps
<1>4. (\A s \in Sids : Forgets(s) => pend'.op = "press") <=> Remembers
  BY DEF Remembers
<1>5. QED
  BY <1>1, <1>2, <1>3, <1>4, InitIsInductive, PTL DEF Spec, OnlyStopsForget, Remembers

---------------------------------------------------------------------------
(* No task is left behind, where the core does not die and the             *)
(* configuration stays valid, whatever launches fail, pids are not read    *)
(* and tasks restarted beside their session.                               *)

Undisturbed == MaxCrashes = 0 /\ ~ConfigEdits

AtSession(s) == s.st = "Active" /\ s.node \in SessionNodes

(* A task at a session node has a session, or the core is about to move it.*)
Attended(t) == Rows(t) # {} \/ (pend.task = t /\ pend.op \in {"press", "launch", "insert", "ended"})

(* Before the first pass no task has run, so recover finds none; a retro   *)
(* round is launched beside a task that does not run.                      *)
Accounted ==
  /\ configOk
  /\ ~recovered => /\ phase \in {"idle", "command", "retro"}
                   /\ \A t \in Tasks : task[t].st \in {"Absent", "Queued", "Cancelled"}
  /\ phase = "recover" => todoT = {} /\ pend.op = "none"
  /\ pend.op = "launch" /\ ~pend.good => task[pend.task].st # "Active"
  /\ pend.op = "insert" => sess[pend.sid].task = pend.task
  /\ \A t \in Tasks : AtSession(task[t]) => Attended(t)

(* A transition to a session node starts its session.                      *)
Starts(tr) == tr.ok /\ AtSession(tr.next) => tr.action = "Start"

(* The constructors once more.                                             *)
LEMMA ConstructorsStart ==
  /\ \A n, i : Starts(Start(n, i))
  /\ \A n \in Nodes \ SessionNodes : Starts(RunCore(n)) /\ Starts(Await(n))
  /\ \A n, r, l : Starts(Fail(n, r)) /\ Starts(OutOfRounds(n, r, l))
  /\ \A n : Starts(To(Paused(n), "None")) /\ Starts(To(Stopped(n), "None"))
  /\ Starts(To(Queued, "None")) /\ Starts(To(Done, "None")) /\ Starts(To(Cancelled, "RunCancel"))
  /\ Starts(Rejected)
  /\ \A c, b : Starts(StartImpl(c, b))
BY DEF Starts, AtSession, Start, RunCore, Await, Fail, OutOfRounds, To, Rejected, Active, Failed,
   Paused, Stopped, Queued, Done, Cancelled, State, StartImpl

(* The nodes that are not a session's.                                     *)
LEMMA OtherNodes ==
  {"AwaitDesignApproval", "AwaitMerge", "Rebase", "Merging", "Cleanup"} \subseteq Nodes \ SessionNodes
BY DEF Nodes, SessionNodes, RoleNodes, WaitNodes, CoreNodes

(* Every trigger of the table.                                             *)
LEMMA PressedStart ==
  ASSUME NEW t \in Tasks, NEW button, NEW tr \in Pressed(t, button)
  PROVE  Starts(tr)
<1> DEFINE s == task[t]
           c == Context(t)
<1>1. Starts(OnReject(s)) /\ Starts(OnPause(s)) /\ Starts(OnResume(s))
  BY ConstructorsStart DEF OnReject, OnPause, OnResume
<1>2. Starts(OnMerge(s, c))
  BY ConstructorsStart, OtherNodes DEF OnMerge
<1>3. Starts(OnApprove(s, c))
  <2>1. OnApprove(s, c).ok => OnApprove(s, c).action = "Start"
    BY DEF OnApprove, Start, To, Rejected
  <2>2. QED
    BY <2>1 DEF Starts
<1>4. \A n : Starts(OnRerunFrom(s, n, c))
  BY ConstructorsStart, OtherNodes DEF OnRerunFrom
<1>5. \A n : Starts(OnExtendBudget(s, n, c))
  BY ConstructorsStart DEF OnExtendBudget
<1>6. QED
  BY <1>1, <1>2, <1>3, <1>4, <1>5 DEF Pressed

(* And every trigger of the core; a task at a session node takes each of   *)
(* its own.                                                                *)
LEMMA OthersStart ==
  ASSUME NEW s, NEW c, NEW d
  PROVE  /\ Starts(OnStop(s)) /\ Starts(OnCancel(s)) /\ Starts(OnSlotAvailable(s))
         /\ \A result : Starts(OnCoreStepDone(s, s.node, result))
         /\ \A outcome : Starts(OnSessionEnded(s, outcome, c, d))
         /\ AtSession(s) => /\ OnStop(s).ok /\ OnCancel(s).ok
                            /\ \A outcome : OnSessionEnded(s, outcome, c, d).ok
<1>1. Starts(OnStop(s)) /\ Starts(OnCancel(s)) /\ Starts(OnSlotAvailable(s))
  BY ConstructorsStart DEF OnStop, OnCancel, OnSlotAvailable
<1>2. \A result : Starts(OnCoreStepDone(s, s.node, result))
  BY ConstructorsStart, OtherNodes DEF OnCoreStepDone
<1>3. \A at, f : Starts(NextImplRound(at, f, c, d)) /\ NextImplRound(at, f, c, d).ok
  <2>1. Starts(AfterTheLoop(c)) /\ AfterTheLoop(c).ok
    BY ConstructorsStart, OtherNodes DEF AfterTheLoop, Start, RunCore, To
  <2>2. StartImpl(c, NoBudget).ok
    BY DEF StartImpl, Start, To
  <2>3. \A n, r, l : OutOfRounds(n, r, l).ok
    BY DEF OutOfRounds, To
  <2>4. QED
    BY <2>1, <2>2, <2>3, ConstructorsStart DEF NextImplRound
<1>4. /\ \A n, i : Start(n, i).ok
      /\ \A n : Await(n).ok /\ RunCore(n).ok
      /\ \A n, r, l : OutOfRounds(n, r, l).ok /\ Fail(n, r).ok
  BY DEF Start, Await, RunCore, OutOfRounds, Fail, To
<1>5. Starts(AfterAdjudicate(d)) /\ AfterAdjudicate(d).ok
  BY <1>4, ConstructorsStart, OtherNodes DEF AfterAdjudicate
<1>6. Starts(AfterDesign(c)) /\ AfterDesign(c).ok /\ Starts(AfterReview(c)) /\ AfterReview(c).ok
  BY <1>4, ConstructorsStart, OtherNodes DEF AfterDesign, AfterReview
<1>7. \A n : Starts(AfterSession(n, c, d)) /\ AfterSession(n, c, d).ok
  BY <1>3, <1>4, <1>5, <1>6, ConstructorsStart, OtherNodes DEF AfterSession
<1>8. \A outcome : /\ Starts(OnSessionEnded(s, outcome, c, d))
                   /\ AtSession(s) => OnSessionEnded(s, outcome, c, d).ok
  BY <1>4, <1>7, ConstructorsStart DEF OnSessionEnded, AtSession
<1>9. AtSession(s) => OnStop(s).ok /\ OnCancel(s).ok
  BY DEF AtSession, OnStop, OnCancel, IsTerminal, SessionNodes, RoleNodes, WaitNodes, To
<1>10. QED
  BY <1>1, <1>2, <1>8, <1>9

(* A stored transition starts what it leads to.                            *)
LEMMA CommitAccounts ==
  ASSUME Inductive, Accounted, NEW t \in Tasks, NEW tr, Good(tr), Starts(tr), tr.ok,
         NEW approving, NEW m \in Nat, Commit(t, tr, approving, m),
         sess' = sess, configOk' = configOk, recovered' = recovered, phase' # "recover",
         recovered \/ (tr.next.st = "Cancelled" /\ phase' \in {"idle", "command", "retro"}),
         pend.op \in {"none", "stepped", "cancel"} \/ pend.task = t
  PROVE  Accounted'
<1>1. TypeOK
  BY DEF Inductive
<1>2. /\ task'[t] = tr.next /\ \A u \in Tasks \ {t} : task'[u] = task[u]
      /\ pend'.op \in {"none", "launch", "cancel"}
      /\ pend'.op # "none" => pend'.task = t
      /\ pend'.op = "launch" => pend'.good
      /\ tr.action = "Start" => pend'.op = "launch"
  BY <1>1, CommitMoves
<1>3. \A u \in Tasks : AtSession(task'[u]) => Attended(u)'
  <2>1. CASE AtSession(task'[t])
    <3>1. pend'.op = "launch" /\ pend'.task = t
      BY <1>2, <2>1 DEF Starts
    <3>2. QED
      BY <1>2, <3>1 DEF Accounted, Attended, Rows
  <2>2. CASE ~AtSession(task'[t])
    BY <1>2, <2>2 DEF Accounted, Attended, Rows
  <2>3. QED
    BY <2>1, <2>2
<1>4. QED
  BY <1>2, <1>3 DEF Accounted

(* Nothing moves but the step outstanding, which was no session's.         *)
LEMMA StillAccounted ==
  ASSUME Accounted, task' = task, sess' = sess, configOk' = configOk, recovered' = recovered,
         pend.op \in {"none", "stepped", "cancel"} \/ ~AtSession(task[pend.task]),
         pend'.op # "insert", pend'.op = "launch" => task[pend'.task].st # "Active",
         phase' # "recover", recovered \/ phase' \in {"idle", "command", "retro"}
  PROVE  Accounted'
<1>1. \A t \in Tasks : AtSession(task[t]) => Rows(t)' # {}
  BY DEF Accounted, Attended, Rows
<1>2. QED
  BY <1>1 DEF Accounted, Attended

(* A press moves a task that has run, and leaves its session to be         *)
(* started.                                                                *)
LEMMA UserAccounts ==
  ASSUME Inductive, Accounted, NEW t \in Tasks, User(t)
  PROVE  Accounted'
<1>1. /\ pend = NoOp /\ pend.op = "none" /\ phase = "idle" /\ recovered' = recovered
      /\ configOk' = configOk /\ phase' \in {"idle", "command", "retro"}
      /\ sess \in [Sids -> Session] /\ TypeOK
  BY NoOpIsTyped DEF User, Create, Press, PressToEnd, StartRetro, Decide, Idle, core, outside,
     Inductive, TypeOK
<1>2. CASE Create(t)
  <2>1. /\ task' = [task EXCEPT ![t] = Queued] /\ sess' = sess /\ pend' = pend
    BY <1>2 DEF Create, outside
  <2>2. Queued.st = "Queued"
    BY DEF Queued, State
  <2>3. QED
    BY <1>1, <2>1, <2>2 DEF TypeOK, Accounted, AtSession, Attended, Rows
<1>3. ASSUME NEW button, Press(t, button)
      PROVE  Accounted'
  <2>1. PICK tr \in Pressed(t, button), m \in {0} \cup {d.milestones : d \in Docs} :
          Advances(tr) /\ Commit(t, tr, button = "approve", m)
    BY <1>3 DEF Press
  <2>2. Good(tr) /\ Starts(tr) /\ tr.ok /\ m \in Nat /\ sess' = sess
    BY <1>1, <1>3, <2>1, PressedMoves, PressedStart, SchedulerConstants DEF Advances, Press, outside
  <2>3. task[t].st \in {"Active", "Paused", "Stopped", "Failed"}
    <3>1. task[t] \in States /\ Context(t) \in Contexts
      BY <1>1, ContextIsTyped
    <3>2. CASE button \in {"approve", "reject", "merge"}
      BY <2>1, <2>2, <3>1, <3>2, UserMoves DEF Pressed, Active, State
    <3>3. CASE button \in {"pause", "resume"}
      BY <2>1, <2>2, <3>1, <3>3, ControlMoves DEF Pressed
    <3>4. CASE button = "rerun"
      BY <2>1, <2>2, <3>1, <3>4, PanelMoves, 0 \in Nat, SchedulerConstants DEF Pressed
    <3>5. CASE button = "extend"
      <4>1. "Design" \in Nodes
        BY Names
      <4>2. QED
        BY <2>1, <2>2, <3>1, <3>5, <4>1, PanelMoves, SchedulerConstants DEF Pressed
    <3>6. QED
      BY <2>1, <3>2, <3>3, <3>4, <3>5 DEF Pressed
  <2>4. recovered
    BY <2>3 DEF Accounted
  <2>5. QED
    BY <1>1, <2>1, <2>2, <2>4, CommitAccounts
<1>4. ASSUME NEW button, PressToEnd(t, button)
      PROVE  Accounted'
  <2>1. pend'.op = "press" /\ pend'.task = t /\ task' = task
    BY <1>4 DEF PressToEnd, Pending, store
  <2>2. \A u \in Tasks \ {t} : Rows(u) # {} => Rows(u)' # {}
    <3>1. \A s \in Sids : sess[s].task # t => sess'[s] = sess[s]
      BY <1>1, <1>4 DEF PressToEnd, Rows
    <3>2. QED
      BY <3>1 DEF Rows
  <2>3. QED
    BY <1>1, <2>1, <2>2 DEF Accounted, Attended
<1>5. CASE StartRetro(t)
  <2>1. /\ task' = task /\ sess' = sess /\ pend'.op = "launch" /\ pend'.task = t
        /\ task[t].st # "Active"
    BY <1>5 DEF StartRetro, Pending, store, outside
  <2>2. QED
    BY <1>1, <2>1, StillAccounted
<1>6. CASE Decide(t)
  <2>1. task' = task /\ sess' = sess /\ pend' = pend
    BY <1>6 DEF Decide, outside, core
  <2>2. QED
    BY <1>1, <2>1, StillAccounted
<1>7. QED
  BY <1>2, <1>3, <1>4, <1>5, <1>6 DEF User

(* A closed session's result is outstanding until its task has moved.      *)
LEMMA TickAccounts ==
  ASSUME Inductive, Accounted, TickBegins \/ Tick
  PROVE  Accounted'
<1>1. /\ pend = NoOp /\ pend.op = "none" /\ TypeOK /\ configOk' = configOk
  BY NoOpIsTyped DEF TickBegins, Tick, RecoverTask, CoreStep, ReapSession, RecoverDone, ReapDone,
     StepsDone, FillHead, FillDone, In, outside, Inductive
<1>2. CASE TickBegins
  <2>1. /\ task' = task /\ sess' = sess /\ pend' = pend /\ recovered'
        /\ \/ phase' = "reap"
           \/ /\ ~recovered /\ phase' = "recover"
              /\ todoT' = {t \in Tasks : task[t].st = "Active" /\ task[t].node \in SessionNodes}
    BY <1>2 DEF TickBegins, store, outside
  <2>2. phase' = "recover" => todoT' = {}
    BY <2>1 DEF Accounted
  <2>3. QED
    BY <1>1, <2>1, <2>2 DEF Accounted, Attended, Rows
<1>3. CASE RecoverDone \/ ReapDone \/ StepsDone \/ FillDone
  <2>1. /\ task' = task /\ sess' = sess /\ pend' = pend /\ recovered' = recovered
        /\ phase' # "recover" /\ recovered
    BY <1>3 DEF RecoverDone, ReapDone, StepsDone, FillDone, In, store, outside, Accounted
  <2>2. QED
    BY <1>1, <2>1, StillAccounted
<1>4. ASSUME NEW t \in Tasks, CoreStep(t)
      PROVE  Accounted'
  <2>1. /\ task' = task /\ sess' = sess /\ pend'.op = "stepped" /\ recovered' = recovered
        /\ phase' # "recover" /\ recovered
    BY <1>4 DEF CoreStep, In, Pending, store, Accounted
  <2>2. QED
    BY <1>1, <2>1, StillAccounted
<1>5. ~ \E t \in Tasks : RecoverTask(t)
  BY DEF RecoverTask, In, Accounted
<1>6. ASSUME NEW s \in Sids, ReapSession(s)
      PROVE  Accounted'
  <2>1. task' = task /\ recovered' = recovered /\ phase' # "recover" /\ recovered
    BY <1>6 DEF ReapSession, In, store, Accounted
  <2>2. CASE Finish(s)
    <3>1. /\ pend'.op = "ended" /\ pend'.task = sess[s].task
          /\ \A r \in Sids \ {s} : sess'[r] = sess[r]
      BY <2>2 DEF Finish, Pending, Inductive, TypeOK
    <3>2. \A u \in Tasks \ {sess[s].task} : Rows(u) # {} => Rows(u)' # {}
      BY <3>1 DEF Rows
    <3>3. QED
      BY <1>1, <2>1, <3>1, <3>2 DEF Accounted, Attended
  <2>3. CASE UNCHANGED <<sess, pend>>
    BY <1>1, <2>1, <2>3, StillAccounted
  <2>4. QED
    BY <1>6, <2>2, <2>3 DEF ReapSession
<1>7. CASE FillHead
  <2>1. /\ sess' = sess /\ recovered' = recovered /\ phase' # "recover" /\ recovered
    BY <1>7 DEF FillHead, In, outside, Accounted
  <2>2. PICK t \in Tasks :
          LET tr == OnSlotAvailable(task[t])
          IN  Good(tr) /\ (Errs \/ (Commit(t, tr, FALSE, 0) /\ tr.action = "Start"))
    BY <1>7, FillHeadMoves
  <2>3. CASE Errs
    BY <1>1, <2>1, <2>3, StillAccounted, NoOpIsTyped DEF Errs, store
  <2>4. CASE ~Errs
    <3> DEFINE tr == OnSlotAvailable(task[t])
    <3>1. Good(tr) /\ Commit(t, tr, FALSE, 0) /\ Starts(tr)
      BY <2>2, <2>4, OthersStart
    <3>2. tr.ok
      BY <2>2, <2>4 DEF OnSlotAvailable, Rejected, Start, To
    <3> HIDE DEF tr
    <3>3. QED
      BY <1>1, <2>1, <3>1, <3>2, CommitAccounts
  <2>5. QED
    BY <2>3, <2>4
<1>8. QED
  BY <1>2, <1>3, <1>4, <1>5, <1>6, <1>7 DEF Tick

(* A session launched is recorded, a launch that fails fails its task.     *)
LEMMA PerformAccounts ==
  ASSUME Inductive, Accounted, Perform
  PROVE  Accounted'
<1> DEFINE t == pend.task
<1>1. /\ t \in Tasks /\ TypeOK /\ configOk' = configOk /\ recovered' = recovered
      /\ phase' # "recover" /\ NoOp.op = "none"
      /\ (recovered \/ phase' \in {"idle", "command", "retro"})
  BY NoOpIsTyped DEF Perform, ApplyPress, LaunchFails, Launch, Insert, CancelTask, ApplyEnded, ApplyStep,
     outside, Inductive, PendingIsWhole, Accounted
<1>2. CASE LaunchFails
  <2>1. /\ sess' = sess /\ pend' = NoOp /\ pend.op = "launch"
        /\ task' = IF pend.good THEN [task EXCEPT ![t] = Failed(pend.what, "Config", 0)] ELSE task
    BY <1>2 DEF LaunchFails
  <2>2. ~AtSession(task'[t]) /\ \A u \in Tasks \ {t} : task'[u] = task[u]
    BY <1>1, <2>1 DEF TypeOK, Accounted, AtSession, Failed
  <2>3. pend.good => recovered
    BY <1>1, <2>1 DEF Inductive, LaunchesItsNode, Accounted, Active, State
  <2>4. QED
    BY <1>1, <2>1, <2>2, <2>3 DEF Accounted, Attended, Rows
<1>3. CASE Launch
  <2>1. PICK s \in FreeSids :
          /\ sess' = [sess EXCEPT ![s] = [row |-> FALSE, proc |-> "alive", task |-> t,
                                          kind |-> pend.what, pid |-> FALSE]]
          /\ pend' = [pend EXCEPT !.op = "insert", !.sid = s]
    BY <1>3 DEF Launch
  <2>2. /\ s \in Sids /\ pend.op = "launch" /\ task' = task /\ phase' = phase
        /\ pend'.op = "insert" /\ pend'.sid = s /\ pend'.task = t /\ ~sess[s].row
    BY <1>1, <1>3, <2>1 DEF Launch, FreeSids, FreeSession, store, TypeOK
  <2>3. sess'[s].task = t /\ \A r \in Sids \ {s} : sess'[r] = sess[r]
    BY <1>1, <2>1, <2>2 DEF TypeOK
  <2>4. \A u \in Tasks : Rows(u) # {} => Rows(u)' # {}
    BY <2>2, <2>3 DEF Rows
  <2>5. QED
    BY <1>1, <2>2, <2>3, <2>4 DEF Accounted, Attended
<1>4. CASE Insert
  <2>1. /\ pend.op = "insert" /\ pend.sid \in Sids /\ sess[pend.sid].task = t
        /\ pend' = NoOp /\ task' = task
    BY <1>4 DEF Insert, store, Inductive, PendingIsWhole, Accounted
  <2>2. /\ \A r \in Sids : sess'[r].task = sess[r].task /\ (sess[r].row => sess'[r].row)
        /\ sess'[pend.sid].row
    BY <1>1, <1>4, <2>1 DEF Insert, TypeOK, Session
  <2>3. \A u \in Tasks : Rows(u) # {} => Rows(u)' # {}
    BY <2>2 DEF Rows
  <2>4. \A u \in Tasks : u = t => Rows(u)' # {}
    BY <2>1, <2>2 DEF Rows
  <2>5. QED
    BY <1>1, <2>1, <2>3, <2>4 DEF Accounted, Attended
<1>5. CASE CancelTask
  <2>1. task' = task /\ sess' = sess /\ pend' = NoOp /\ pend.op = "cancel"
    BY <1>5 DEF CancelTask, store
  <2>2. QED
    BY <1>1, <2>1, StillAccounted
<1>6. CASE ApplyPress
  <2> DEFINE tr == IF pend.what = "stop" THEN OnStop(task[t]) ELSE OnCancel(task[t])
  <2>1. task[t] \in States /\ sess' = sess
    BY <1>1, <1>6, ContextIsTyped DEF ApplyPress, outside
  <2>2. Starts(tr) /\ Good(tr) /\ (AtSession(task[t]) => tr.ok)
    BY <2>1, OthersStart, ControlMoves
  <2>3. recovered \/ ~tr.ok \/ tr.next.st = "Cancelled"
    BY <1>1, <2>1, ControlMoves DEF Accounted, Cancelled, State
  <2>4. IF Advances(tr) THEN Commit(t, tr, FALSE, 0) ELSE Errs
    BY <1>6 DEF ApplyPress
  <2> HIDE DEF tr
  <2>5. CASE Advances(tr)
    <3>1. tr.ok /\ Commit(t, tr, FALSE, 0)
      BY <2>4, <2>5 DEF Advances
    <3>2. QED
      BY <1>1, <2>1, <2>2, <2>3, <3>1, CommitAccounts
  <2>6. CASE ~Advances(tr)
    <3>1. ~AtSession(task[t]) /\ task' = task /\ pend' = NoOp
      BY <2>2, <2>4, <2>6 DEF Advances, Accounted, Errs, store
    <3>2. QED
      BY <1>1, <2>1, <3>1, StillAccounted
  <2>7. QED
    BY <2>5, <2>6
<1>7. CASE ApplyEnded
  <2>1. sess' = sess /\ recovered /\ task[t] \in States /\ Context(t) \in Contexts
    BY <1>1, <1>7, ContextIsTyped DEF ApplyEnded, outside, Inductive, OpsOfPhase, Accounted
  <2>2. CASE Errs /\ ~AtSession(task[t])
    BY <1>1, <2>1, <2>2, StillAccounted DEF Errs, store
  <2>3. ASSUME NEW outcome, NEW d \in Docs,
               LET tr == OnSessionEnded(task[t], outcome, Context(t), d)
               IN  IF Advances(tr) THEN Commit(t, tr, FALSE, 0) ELSE Errs
        PROVE  Accounted'
    <3> DEFINE tr == OnSessionEnded(task[t], outcome, Context(t), d)
    <3>1. IsStatus(d) /\ d.open \in BOOLEAN /\ d.unfinished \in BOOLEAN
      BY SchedulerConstants DEF IsStatus
    <3>2. Good(tr) /\ Starts(tr) /\ (AtSession(task[t]) => tr.ok)
      BY <2>1, <3>1, SessionMoves, OthersStart
    <3>3. IF Advances(tr) THEN Commit(t, tr, FALSE, 0) ELSE Errs
      BY <2>3
    <3> HIDE DEF tr
    <3>4. CASE Advances(tr)
      <4>1. tr.ok /\ Commit(t, tr, FALSE, 0)
        BY <3>3, <3>4 DEF Advances
      <4>2. QED
        BY <1>1, <2>1, <3>2, <4>1, CommitAccounts
    <3>5. CASE ~Advances(tr)
      BY <2>2, <3>2, <3>3, <3>5 DEF Advances, Accounted
    <3>6. QED
      BY <3>4, <3>5
  <2>4. QED
    BY <1>7, <2>2, <2>3 DEF ApplyEnded, AtSession
<1>8. CASE ApplyStep
  <2> DEFINE tr == OnCoreStepDone(task[t], task[t].node, pend.what)
  <2>1. sess' = sess /\ recovered /\ task[t] \in States /\ pend.op = "stepped"
    BY <1>1, <1>8, ContextIsTyped DEF ApplyStep, outside, Inductive, OpsOfPhase, Accounted
  <2>2. Good(tr) /\ Starts(tr)
    BY <2>1, CoreStepMoves, OthersStart
  <2>3. IF Advances(tr) THEN Commit(t, tr, FALSE, 0) ELSE Errs
    BY <1>8 DEF ApplyStep
  <2> HIDE DEF tr
  <2>4. CASE Advances(tr)
    <3>1. tr.ok /\ Commit(t, tr, FALSE, 0)
      BY <2>3, <2>4 DEF Advances
    <3>2. QED
      BY <1>1, <2>1, <2>2, <3>1, CommitAccounts
  <2>5. CASE ~Advances(tr)
    BY <1>1, <2>1, <2>3, <2>5, StillAccounted DEF Errs, store
  <2>6. QED
    BY <2>4, <2>5
<1>9. QED
  BY <1>2, <1>3, <1>4, <1>5, <1>6, <1>7, <1>8 DEF Perform

(* A session that ends is still in the store.                              *)
LEMMA WorldAccounts ==
  ASSUME Undisturbed, Inductive, Accounted, World
  PROVE  Accounted'
<1>1. ~Crash /\ ~EditConfig
  BY DEF Crash, EditConfig, Undisturbed, Inductive, TypeOK
<1>2. PICK s \in Sids : SessionExits(s)
  BY <1>1 DEF World
<1>3. /\ UNCHANGED <<task, configOk, recovered, phase, todoT, pend>>
      /\ \A r \in Sids : (sess[r].row \/ pend.sid = r) =>
           sess'[r].task = sess[r].task /\ sess'[r].row = sess[r].row
  BY <1>2 DEF SessionExits, store, core, Inductive, TypeOK, Session
<1>4. \A u \in Tasks : Rows(u) # {} => Rows(u)' # {}
  BY <1>3 DEF Rows
<1>5. QED
  BY <1>3, <1>4 DEF Accounted, Attended, Inductive, PendingIsWhole

(* A task that shows a session running has one whenever the core rests:    *)
(* nothing would ever move it otherwise.                                   *)
THEOREM NobodyIsLeftBehind ==
  ASSUME Undisturbed
  PROVE  Spec => []NoStalledTask
<1>1. Init => Accounted
  BY NoOpIsTyped DEF Init, Accounted, Absent, State, AtSession
<1>2. Inductive /\ Accounted /\ [Next]_vars => Accounted'
  <2>1. CASE UNCHANGED vars
    BY <2>1 DEF vars, store, outside, core, Accounted, Attended, Rows
  <2>2. QED
    BY <2>1, UserAccounts, TickAccounts, PerformAccounts, WorldAccounts DEF Next
<1>3. Inductive /\ [Next]_vars => Inductive'
  BY NextKeeps
<1>4. Accounted => NoStalledTask
  BY NoOpIsTyped DEF Accounted, NoStalledTask, Attended, AtSession, Idle
<1>5. QED
  BY <1>1, <1>2, <1>3, <1>4, InitIsInductive, PTL DEF Spec
=============================================================================
