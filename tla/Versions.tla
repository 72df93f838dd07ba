------------------------------ MODULE Versions ------------------------------
(***************************************************************************)
(* What a task is held to and what it leaves behind: the protocol frozen   *)
(* into its documents, the sessions that read it, and the numbers and      *)
(* lessons recorded about it.  protocol/mod.rs, scheduler.rs               *)
(* (freeze_protocol, apply_guards, check_lessons, write_task_metrics),     *)
(* task_metrics.rs, version_page.rs, store.rs.                             *)
(*                                                                         *)
(* Of a task's life only what these records depend on is kept: Scheduler   *)
(* has the rest.                                                           *)
(***************************************************************************)
EXTENDS Integers, Sequences, FiniteSetsExt

CONSTANTS
  Tasks,       \* 1..n, in the order they were created
  Builds,      \* the builds of Autome, in order: the tag and the text of each
  Domains,     \* what a lesson may be about
  Amounts,     \* what may be counted in a task's evidence
  LessonLists, \* what a retro round may write
  Starts,      \* how things may begin, and the bounds
  None

ASSUME VersionsConstants ==
  /\ Tasks = 1 .. Cardinality(Tasks) /\ IsFiniteSet(Tasks)
  /\ DOMAIN Builds = 1 .. Len(Builds) /\ Builds # <<>>
  /\ Amounts \subseteq Nat

VARIABLES
  build,  \* the build that is installed
  task,   \* what is recorded about each task, and where it stands
  left    \* bounds: what may still happen

taskSide == <<build, task>>

Spend(what) == left[what] > 0 /\ left' = [left EXCEPT ![what] = @ - 1]

---------------------------------------------------------------------------
(* The protocol as files.  A hash names the files it was taken over.       *)

Hash(files)  == files
Embedded     == [text |-> Builds[build].text, evals |-> TRUE]
Current      == [tag |-> Builds[build].tag, hash |-> Hash(Embedded)]
Copied(f)    == [f EXCEPT !.evals = FALSE]

(* A task nobody has started.                                              *)
NewTask ==
  [st |-> "queued", running |-> FALSE, ref |-> None, copy |-> None,
   closed |-> None, taken |-> 0, broken |-> 0, metrics |-> None, lessons |-> {}, nth |-> 0,
   sessions |-> {}, edited |-> FALSE, warned |-> FALSE]

(* A beginning: tasks that may have come further, before any version was   *)
(* recorded.                                                               *)
Begun(t) ==
  /\ t = [NewTask EXCEPT !.st = t.st, !.running = t.running, !.lessons = t.lessons, !.nth = t.nth,
                         !.metrics = t.metrics]
  /\ t.metrics # None => t.metrics.ref = None

ASSUME StartsConstants ==
  /\ \A n \in DOMAIN Builds :
       None \notin {[tag |-> Builds[n].tag, hash |-> [text |-> Builds[n].text, evals |-> TRUE]],
                   [text |-> Builds[n].text, evals |-> FALSE]}
  /\ \A s \in Starts : DOMAIN s.task = Tasks /\ \A i \in Tasks : Begun(s.task[i])

Set(i, t) == task' = [task EXCEPT ![i] = t]

Finished == {i \in Tasks : task[i].nth > 0}

---------------------------------------------------------------------------
(* freeze_protocol.                                                        *)

BugKept(t) == FALSE
Kept(t)    == t.ref # None /\ t.copy # None
Session(t, ref, files)    == [ref |-> ref, text |-> files.text]

Started(t, ref, files) ==
  [t EXCEPT !.st = "active", !.running = TRUE, !.sessions = @ \cup {Session(t, ref, files)}]

(* The copy is there: what it says is what holds, and a hash that is not   *)
(* the recorded one is remarked on.                                        *)
StartAgain(i) ==
  LET t == task[i] IN
  /\ t.st \in {"queued", "active"} /\ ~t.running /\ Kept(t)
  /\ Set(i, [Started(t, [t.ref EXCEPT !.hash = Hash(t.copy)], t.copy)
               EXCEPT !.warned = @ \/ Hash(t.copy) # t.ref.hash])
  /\ Spend("sessions") /\ UNCHANGED build

(* The first session: the copy is written and committed, then the version  *)
(* is recorded, once.                                                      *)
Frozen(t) == [t EXCEPT !.copy = Copied(Embedded)]

StartFirst(i) ==
  LET t == task[i] IN
  /\ t.st \in {"queued", "active"} /\ ~t.running /\ ~Kept(t)
  /\ \/ /\ Set(i, Started([Frozen(t) EXCEPT !.ref = IF @ = None THEN Current ELSE @], Current, Embedded))
        /\ Spend("sessions")
     \/ (* the commit fails *)
        Set(i, [Frozen(t) EXCEPT !.st = "failed"]) /\ Spend("crashes")
     \/ (* the process ends between the copy and the record *)
        Set(i, [Frozen(t) EXCEPT !.st = "active"]) /\ Spend("crashes")
  /\ UNCHANGED build

(* A newer build is installed; somebody edits the copy, or deletes it.     *)
Upgrade == build < Len(Builds) /\ build' = build + 1 /\ UNCHANGED <<task, left>>

EditCopy(i) ==
  /\ task[i].copy # None
  /\ \E c \in {None, [task[i].copy EXCEPT !.text = "edited"]} :
       Set(i, [task[i] EXCEPT !.copy = c, !.edited = TRUE])
  /\ Spend("edits") /\ UNCHANGED build

---------------------------------------------------------------------------
(* A round ends.  What it took back is counted before the snapshot is      *)
(* replaced; the process may end in between, and then the next round is    *)
(* compared with the older snapshot.                                       *)

NewlyTaken(t, closed) == IF t.closed = TRUE /\ ~closed THEN 1 ELSE 0

RoundEnds(i) ==
  LET t == task[i] IN
  /\ t.st = "active" /\ t.running
  /\ \E closed \in BOOLEAN :
       LET counted == [t EXCEPT !.running = FALSE, !.taken = @ + NewlyTaken(t, closed)] IN
       \/ Set(i, [counted EXCEPT !.closed = closed]) /\ UNCHANGED left
       \/ Set(i, counted) /\ Spend("crashes")
  /\ UNCHANGED build

(* The retro round, of the loop or asked for on a task that failed.  What  *)
(* does not parse leaves what was read before.                             *)
RetroEnds(i) ==
  /\ \/ task[i].st = "active" /\ task[i].running
     \/ task[i].st = "failed"
  /\ \E l \in LessonLists : Set(i, [task[i] EXCEPT !.lessons = l, !.running = FALSE])
  /\ Spend("retros") /\ UNCHANGED build

---------------------------------------------------------------------------
(* write_task_metrics: as a task goes into cleanup, fails or is cancelled. *)

Watched == {"contradicted", "failures"} \cup Domains
Measure(t, counts) ==
  [ref |-> t.ref,
   of  |-> [m \in Watched |-> CASE m = "contradicted" -> t.taken
                                [] m = "failures"     -> t.broken
                                [] OTHER              -> counts[m]]]

Measured(i, t, states) ==
  \E st \in states, counts \in [Domains -> Amounts] :
    Set(i, [t EXCEPT !.st = st, !.running = FALSE, !.metrics = Measure(t, counts)])

ProtocolFails(i) ==
  /\ task[i].st = "active" /\ task[i].running
  /\ Measured(i, [task[i] EXCEPT !.broken = @ + 1], {"failed"})
  /\ Spend("crashes") /\ UNCHANGED build

Leaves(i) ==
  /\ task[i].st = "active" /\ ~task[i].running
  /\ Measured(i, task[i], {"cleanup", "cancelled"})
  /\ UNCHANGED <<build, left>>

Done(i) ==
  /\ task[i].st = "cleanup"
  /\ Set(i, [task[i] EXCEPT !.st = "done", !.nth = Cardinality(Finished) + 1])
  /\ UNCHANGED <<build, left>>

Retry(i) ==
  /\ task[i].st = "failed"
  /\ Set(i, [task[i] EXCEPT !.st = "active"])
  /\ UNCHANGED <<build, left>>

TaskStep ==
  \/ Upgrade
  \/ \E i \in Tasks : \/ StartAgain(i) \/ StartFirst(i) \/ EditCopy(i)
                      \/ RoundEnds(i) \/ RetroEnds(i) \/ ProtocolFails(i)
                      \/ Leaves(i) \/ Done(i) \/ Retry(i)

TaskInit(s) == build = 1 /\ task = s.task /\ left = s.left

---------------------------------------------------------------------------
(* version_page::rows: the measured tasks by the version they recorded.    *)

RowOf(i)    == task[i].metrics.ref
Attributed  == {i \in Tasks : task[i].metrics # None /\ task[i].metrics.ref # None}
Rows        == {{j \in Attributed : RowOf(j) = RowOf(i)} : i \in Attributed}

---------------------------------------------------------------------------

(* A task whose copy nobody touched runs all its sessions under one text,  *)
(* whatever build is installed meanwhile and wherever freezing was cut     *)
(* short (scheduler.rs freeze_protocol, protocol principle 6).  And every  *)
(* number names the rules it was taken under: a session's version is a     *)
(* hash of what it read, and two tasks share a row of the version page     *)
(* only when their sessions read the same text - two builds that call      *)
(* different text by one tag do not (protocol/mod.rs, version_page.rs      *)
(* rows).                                                                  *)
RulesAreFrozen ==
  /\ \A i \in Tasks : ~task[i].edited => Cardinality({s.text : s \in task[i].sessions}) <= 1
  /\ \A i \in Tasks : \A s \in task[i].sessions : s.ref.hash.text = s.text
  /\ \A r \in Rows : \A i, j \in r :
       ~task[i].edited /\ ~task[j].edited =>
         {s.text : s \in task[i].sessions} = {s.text : s \in task[j].sessions}

(* The copy is said to have been edited only when somebody edited it: "A   *)
(* mismatch means someone edited the frozen copy" (scheduler.rs            *)
(* freeze_protocol).  The recorded hash is over every file of the          *)
(* protocol, the copy leaves the evaluation cases out: it does not hold.   *)
MismatchMeansEdited == \A i \in Tasks : task[i].warned => task[i].edited
=============================================================================
