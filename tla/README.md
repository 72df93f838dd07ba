# Autome's core, modelled

Autome is a desktop application that takes a coding task through a fixed loop of agent
sessions: intake, design, review, adjudication, implementation, audit, retrospective, then
rebase, merge and cleanup. An Electron shell owns the window; a Rust process, `automed`,
owns everything that matters: the task table, the sessions, the git worktrees, the
user's decisions. This directory holds TLA+ models of that process and of the shell around
it, TLC configurations that check them on small instances, and proofs of what is true for
instances of any size.

Paths below are relative to the repository; the crates `autome-domain` and `automed` are under
`crates/`, the shell under `apps/desktop/`. Lines are those of the commit the models were made
from.

## 1. Inventory

### The parts and how they interact

```
 user ── renderer ── shell (main.js, sidecar.js) ──frames──> automed main loop
                         │  scheduler.tick every 3 s            │ one command at a time,
                         │  besides the user's commands         │ to its end, then a tick
                         └── restarts a core that died          v
                                                        dispatch.rs ── scheduler.rs
                                                            │              │ tick: recover,
     agent sessions (own processes) <── launcher.rs ────────┼──────────────┤ reap, core steps,
       │ edit the design document, commit in checkouts      │              │ fill slots
       └── leave an exit marker ────────> reap_session ─────┘              v
                                                     store.rs (SQLite)   git.rs, layout.rs
```

| Part | State it keeps | Operations | Modelled |
|---|---|---|---|
| Task state machine, `autome-domain/src/task.rs` | none: a table | `apply`, for the triggers SlotAvailable, SessionEnded, Approve, Reject, Merge, Pause, Resume, Stop, Cancel, RerunFrom, ExtendBudget, CoreStepDone | `TaskMachine`, all |
| Scheduler, `automed/src/scheduler.rs` | whether this process has recovered | `tick` (`recover`, `reap_session`, `run_core_step`, `fill_slots`), `advance`, `perform`, `start_session`, `start_retro`, `redispatch` | `Scheduler` |
| Task commands, `automed/src/dispatch.rs` | none | create, trigger, stop, cancel, retro, decide, tick | `Scheduler` (without attachments), `Projects` (create) |
| Sessions, `session.rs`, `launcher.rs`, `init.rs` | a row; a process; pid, marker and log on disk | launch, `read_pid`, `classify`, `stop_session`, the wrapper script | `Scheduler` as rows and processes; `SessionProcess` as processes and files; `Prompt` |
| Store, `store.rs` | SQLite tables, each statement its own commit | rows of tasks, sessions, decisions, events, projects, proposals, experiments; its file and schema version | as variables of the models that use them; the file in `Schema` |
| Design document and guards, `status_block.rs`, `guards.rs` | milestone table, rounds, Backlog, disputes | parse; three guards that stop a task, warnings that do not | `MilestoneLoop`; the reader in `StatusDocument` |
| Decisions, `store.rs` | rows: disposition, consumed | `sync_decisions`, `set_disposition`, `consume_decisions` | `MilestoneLoop`, all |
| Repositories, `layout.rs`, `git.rs`, `scheduler.rs` | checkouts, branches, bases, the user's own trees | worktree add, sweep, rebase, merge, cleanup, cancel | `WorkspaceMerge`, all |
| Configuration, `config.rs`, `config_io.rs` | two layers of TOML, read on every transition | resolve, validate, set, reset, load, save | `Configuration`, `Projects` |
| Projects and onboarding, `project.rs`, `dispatch.rs`, `init.rs` | project rows, the files a project is given, the wizard's step | add, remove, initialise, advance, skip, run, save | `Projects` |
| Protocol versions, `protocol/mod.rs`, `scheduler.rs` | a task's frozen copy and the hash in its row | freeze, read again, attribute numbers; write a round's brief | `Versions`; the contract regions in `Contract`; what a brief takes from earlier rounds in `Briefing` |
| Curation, `curation.rs`, `dispatch_curation.rs`, `lesson.rs` | proposals, rules files, removal experiments | aggregate, approve, dismiss, retire, judge, restore | `Curation`; the files in `LearningDocuments` |
| Protocol evaluation, `protocol/eval*.rs`, `case.rs`, `brief.rs` | none: a command with an exit code | static layers, behavioural runs, graders | `Gate` |
| Environment probes, `env_probe.rs`, `environment.rs`, `dispatch.rs` | one cache with a generation | detect, get, classify a login | `Environment` |
| Main loop and framing, `main.rs`, `ipc/`, `framing.js` | bytes not read yet | read, handle, reply, events | `Shell`, `Framing` |
| Shell, `sidecar.js`, `core-restart.js`, `main.js`, `app.js` | requests waiting, quick failures, banner, refresh due | request, time out, restart, tick, show | `Shell` |
| Streams and usage, `stream_render.rs`, `usage.rs` | none: a filter | render a line, sum what a session cost | `Stream` |
| Gates of the shell, renderer, skills, metrics for panels, plugin texts, scripts | little or none | reads, predicates on one call, reports, wording | no, see section 5 |

`PROJECT.json` has the same list with every source file and the reason for each part that
is left out.

### What is hard about it

- **One thread against the world.** `automed` handles a command to its end, so commands do
  not interleave with each other. They do interleave with sessions that end, users who edit
  configuration or their own tree, bases that move, and the process being killed.
- **Rows and processes are two things.** A session is a row in the store and a process with
  a marker on disk; each can outlive the other. Pause leaves the session running; stop
  closes the row and signals a process group that is not there.
- **Statements, not transactions.** A transition is stored as state, then budget, then
  consumed decisions, then its action is run. Every gap is a place to die in.
- **Limits counted once.** `fill_slots` counts the slots before its loop and keeps its own
  count while launches succeed and fail; several transitions take a slot without asking.
- **Several repositories, no transaction across them.** One can be blocked when others have
  landed; the document that names them is itself on one of the branches; a cancel ignores what fails.
- **Documents written by agents.** What the guards compare is a snapshot of the table left
  by an earlier round; the count that ends the loop is written by the rounds themselves.

- **Texts that pass for code.** Prompts are filled word by word, documents are read line by
  line, lessons become rules by substring: what a session or a user writes decides what the
  core does next.
- **A shell that forgets and a core that dies.** Requests time out while their answer is on its
  way; restarts come from a timer and from a button; what a tick changed is in its reply only.

### What makes each modelled part correct

- *State machine and scheduler*: one running row per task; a result moves the task only at
  the node it was produced for; nothing but a stop lets a process run on unrecorded (and that a
  stop does is a finding); no task rests at a session node without a session; nothing is cleaned up that was not merged; the queue is fair and
  stays within `parallel_limit`; what ended is reaped, what stalled recovers.
- *Loop and decisions*: only audits close milestones; what goes to the merge is finished;
  a round is compared with the table it was given; the user's word stands until consumed;
  what is absorbed was paid for; the loop ends as long as its count grows.
- *Repositories*: done means landed everywhere; unlanded work is destroyed by a cancel only;
  a cancel tries the archive first and reaches every repository; every core step ends.
- *Shell*: one core at a time; nobody waits on a dead one; a core that died comes back or the
  user is told; every change is shown or admitted not to be.
- *Sessions*: code 0 is the CLI's; a session that starts was told everything; an end is noticed.
- *Projects and configuration*: no project inside another; a task's names stay its own; a project
  keeps its shape under its tasks; what the user said, by command or by hand, is what the
  files say; what the user made is not touched.
- *Learning*: a task runs under one text and its numbers name it; an answer is for good; a rule
  has the row it came from; what is offered for removal had its chance.
- *Documents, pipe and gate*: what is read is what was written; a contract region is reported
  broken exactly when it is; a version the gate passes can run and has earned it.
- *The store's file*: whoever opens it, and wherever that is cut short, it has what its version says.
- *Briefs*: what a round is handed is about what is unfinished, and the newest there is on it.
- *Environment*: a finding is the machine's; the newest reaches the screen.

`PROJECT.json` lists 40 hazards at their lines with the properties aimed at each.

## 2. Modules

| Module | What it is | Extends |
|---|---|---|
| `TaskMachine` | the transition table: operators over task states, no variables | |
| `TaskPromise` | abstract specification: what the product promises about a task | |
| `Scheduler` | tick, recovery, commands, sessions; the refinement mapping to `TaskPromise` | `TaskMachine` |
| `MilestoneLoop` | one task seen from its document: guards, snapshots, budget, decisions | `TaskMachine` |
| `WorkspaceMerge` | one task seen from its repositories, one git command at a time | `TaskMachine` |
| `Shell` | the desktop shell and the core it keeps alive | |
| `Configuration` | two sparse layers as functions | |
| `Projects` | projects, initialisation, the wizard, configuration commands | `Configuration` |
| `Versions` | the protocol a task is held to, and the numbers recorded of it | |
| `Curation` | from a lesson to a rule and back | `Versions` |
| `StatusDocument`, `LearningDocuments`, `Contract`, `Framing` | readers: a text is written line by line and read line by line | |
| `Schema` | the store's file, opened by cores of several builds | |
| `Briefing` | what a round's brief takes from what earlier rounds left | |
| `Prompt` | what a session is told and how its CLI is started, as operators | |
| `Stream` | a session's output, rendered and summed, as operators | |
| `SessionProcess` | one session as its processes and files | `Stream`, `Prompt` |
| `Gate` | the evaluation of a proposed protocol version | `Prompt` |
| `Environment` | the probe, its cache and the screen | |
| `MC...` | values for TLC; `MCProjects` has what the core knows of its user's machine, `Projects` or `Environment`; `MCDocuments` puts the four readers, `Schema`, `Briefing` and, by `MCGate`, the gate side by side | the above |
| `TaskMachineProofs` | lemmas on the table: types, which trigger leads where | `TaskMachine` |
| `SchedulerProofs` | in five parts: the inductive invariant; the refinement and the queue's limit; one session per task, results at their node; what makes the store forget a process; no task left behind | `Scheduler`, `TaskMachineProofs` |
| `MilestoneLoopProofs` | the invariants of the loop; the reader of the document it goes by; the briefs of its rounds | `MilestoneLoop`, `TaskMachineProofs`; instances of `StatusDocument`, `Briefing` |
| `WorkspaceMergeProofs` | the invariant of the repositories | `WorkspaceMerge`, `TaskMachineProofs` |
| `ShellProofs` | what surrounds a core, in three parts: its shell, its store's file, the machine | `Shell`, `Schema`, `Environment` |
| `ProjectsProofs` | the registry, the disk and the layers; free numbers and slugs | `Projects` |
| `CurationProofs` | the frozen version; rules, rows, answers and offers; the kernel contract | `Curation`; an instance of `Contract` |
| `SessionProofs` | in four parts: exit codes and logs; what a pass has earned; what an accepted version tells its rounds; the pipe to the shell | `SessionProcess`, `Gate`; an instance of `Framing` |

`Scheduler`, `MilestoneLoop` and `WorkspaceMerge` share the transition table and cut the rest of
the system three ways. Each takes the other two's detail as a choice among results: for the
scheduler a document is one of `Docs` and a merge says Ok, Blocked or Failed; for the loop a
rebase may conflict; for the repositories every document says the work is done. Definitions
named `Bug...` are not part of any specification: each is a plausible defect of the definition
after it, used to see that a property would notice.

### TaskMachine

A state is `[st, node, reason, limit]`; a transition is `[ok, next, action, inject, budget,
consumes]`. One operator per trigger of `task.rs`: `OnApprove`, `OnSessionEnded` and so on;
`Rejected` where the code returns an error. `ResolveBudget` is what `advance` stores as N: the
transition's own value, or, when an approval enters the implementation loop for the first
time, `budget_factor` times the number of milestones.

### Scheduler

| Model | Code |
|---|---|
| `task`, `created`, `budget`, `decided`, `sess[s].row` | rows in the store: survive a crash |
| `sess[s].proc`, `worktree`, `merged` | processes, checkouts and branches: survive too |
| `recovered`, `phase`, `todoT`, `todoS`, `queue`, `inUse`, `pend` | locals of `tick` and what it calls: lost in a crash |
| `Create`, `Press`, `PressToEnd`+`ApplyPress`, `StartRetro`, `Decide` | `task_create`, `task_trigger`, `task_stop`/`task_cancel`, `start_retro`, `task_decide` |
| `Commit`, `Effect`, then `Launch`+`Insert`, `LaunchFails`, `CancelTask` | `advance`, then `perform`: `start_session` up to `launch` and from `read_pid` to `insert_session`; `record_failed_action`; `cancel_task` |
| `TickBegins`, `RecoverTask`, `ReapSession`+`ApplyEnded`, `CoreStep`+`ApplyStep`, `FillHead`, the `...Done` steps | `tick`: the lists are read where the code reads them and worked off one element at a time |
| `SessionExits`, `EditConfig`, `Crash` | a process ends with or without its marker; the user edits TOML; the core dies and is started again |

The core is cut exactly where something outside can matter: between closing a session's row and
advancing its task, between closing it and moving the task in a stop, between launching and recording, between a core
step and its result, between any two elements of a list. `pend` is the step still outstanding. A
session without pid may be declared gone while it runs, as `classify` does after ten idle minutes. A stop closes a row
and ends no process: `stop_session` signals the process group of the wrapper's pid, and the wrapper is started in its
parent's (`SessionProcess` has this step by step).

### MilestoneLoop

`table`, `round`, `listed` are the document, written by `SessionEnds` as its node may and as the
`Slips` in force say it should not. The round count is such a text too: with "miscounts" any session leaves any number
(`Counts`), since no guard compares it with the one before. `before` is the last `task.snapshot` event. `job` is the
transition in progress: `Reap`, `Guards`, `Advance`, `WriteBudget`, `WriteConsumed`,
`PerformAction` are `reap_session`, `apply_guards` and the statements of `advance` in their order
(`Then`), with `Crash` between any two in `CrashIn`. `rows` are the decisions; `Synced`, `Consumed`,
`Decide` are the store's statements. `audited`, `paid`, `absorbed`, `told` are history: no guard
reads them.

### WorkspaceMerge

Per repository: the task's checkout, its branch, whether it is `ahead` (work not landed) and
`behind` (the base moved on: apart, or in a clash), and the user's own tree. `step` is the
operation in progress with the repositories it has left; `PrepareRepo`, `RebaseRepo`, `MergeRepo`,
`CleanRepo`, `DiscardRepo` visit one repository, `...Done` sends the result through the transition
table. In each of them git may also fail for reasons of its own (`GitFails`), and what the code does then is a
disjunct: `start_session`, `merge_all` and `cleanup` give up, `rebase_all` gives up or takes it for a rebase without
conflicts, a sweep and a cancel go on. `Archive` may copy all of the documents, a part or nothing, and nobody looks
(scheduler.rs:1695). `StrayCommits` is the process of a stopped session, which still has its checkouts; `late` is its
work, apart from what belongs to the task's rounds (`ahead`). `Layout` is `working_repos`: the documents' repository, whatever is checked out, whatever
the document names if it can still be read. `Mergeable` and `DeletesBranch` are the refusals of git
and of `merge_task_branch`.

### Shell

`proc`, `stdin` and `stdout` are the core's processes and their pipes; `sidecar`, `quick`, `timers`, `req` and
`lived` are what `main.js` and `sidecar.js` remember; `banner`, `queued` and `latest` are the screen. `Handle` is one
turn of `main.rs`: take a command, answer it, then send its event; a tick sends no event, its reply carries the news.
`Dies` may fall between any two steps, `OnExit` is the `exit` listener, `TimesOut` gives a request up whose answer may
still come. `RestartFires` and `RestartCore` are the timer and the button. What a command does is `Scheduler`'s
business; here it changes what there is to see, or does not.

### Projects and Configuration

A layer of configuration maps keys to values; the global one has every key, a project's has what it overrides.
`Resolve`, `Valid`, `Loaded` and `Saved` are the functions of `config.rs` and `config_io.rs`: loading cuts a number to
the width of a u32 and passes over one that is none; saving a project's file removes the old `loop.protocol` pin and
the whole table of a role that overrides nothing, with whatever else stood there. Keys nobody reads (`Unread`) are in the
files besides: a section of its own, the pin, a note beside a role's fields. In `Projects` a directory is absent, a plain directory, a file or a repository, with Autome's files in parts
(the user's, ours, an outdated one of ours, a link); `AddProject` is the whole handler with its order of checks and
writes, a fault between two of them included; `Meddle`, `HandEdit` and `Garble` are the user with an editor.

### Versions and Curation

A build carries a text under a tag. `StartFirst` freezes (copy, commit, row: `left.crashes` may cut it short),
`StartAgain` reads the copy back and compares hashes, `RoundEnds` and `RetroEnds` leave the numbers and the lessons.
`Curation` adds the panel, which is what the user last saw: every button is pressed on it and finds the world moved on.
A command writes its file, then its row, and may be lost between the two or lose only its answer.

### The readers

In `StatusDocument`, `LearningDocuments` and `Contract` a line is its kind and what it names, `doc` is what was written
so far and `r` what the reader holds, so that every prefix of every document is a state. What ought to be read is stated
apart, by quantifiers over the lines, and not by a second reader. `Framing` does the same with bytes, pieces and a
writer that dies.

### The store's file and the briefs

`Schema` has the file (`db`: tables and columns, version, whose it is, who writes) and the cores on their way into it.
`Looks` and `Asks` are two reads that no transaction joins; `Statement` is one statement of a block, seen by nobody else
before `Commit`; `Locked` is a wait given up and `Ends` a death at any point. Builds differ in how many blocks they know.
`Briefing` has what rounds leave (table, current milestone, evidence files, the audit's paragraphs) in `doc` and the
brief of the round under way in `r`; `WriteBrief` looks everything up, `RoundEnds` leaves what it likes.

### Sessions

`SessionProcess` has the core (`row`, a crash, a restart), the wrapper (`sh`), its pipeline and renderer (`pipe`), the
CLI (`cli`) and the disk (`files`). Each takes its own steps in any order; `World` kills any of them, sends signals,
lets writes fail, ten minutes pass, and another process take a number. `Prompt` fills a template name by name, each over
the whole text, as `launcher.rs` does; `Stream` renders and counts line by line.

### Gate and Environment

`Gate` reads the directory when the code does, three times, and lets somebody edit it in between; static faults, each
case's runs, turns and graders decide the exit code. `Environment` has probe threads that look up, spawn, wait with a
deadline and read two pipes; the cache with its generation; the tick that tells `main.js`; and a machine that changes.

## 3. What the runs check

Every run is `tlc -config <cfg> <module>`. States are distinct states, to the nearest thousand.

| Run | Instance | Checks |
|---|---|---|
| `sched_life` | one task, every role, every button, decisions, launches that fail; no crash (384,000 states) | `NoStalledTask`, `OnlyStopsForget`, `KeepsPromise` |
| `sched_rough` | one task, two roles; configuration edited in mid-tick, failing launches, unread pids, a crash (1,294,000 states) | `OneRowPerTask`, `ResultMatchesNode`, `Inductive` (with `TypeOK` and `DoneIsMerged`) |
| `sched_live` | two tasks, three sessions, one slot, pauses, a crash; under `FairSpec` (53,000 states) | `QueueStartsWithinLimit`, `EndedIsReaped`, `QueueDrains` (in order, and for good), `StalledRecovers` |
| `sched_stop` | one task, its user presses stop (a few dozen states to the counterexample) | violates `NoOrphan` |
| `rounds` | two milestones, one Backlog item, slips, any round count, a crash between any two writes in `CrashIn`; under `FairSpec` (746,000 states) | `OnlyAuditCloses`, `FinishedBeforeMerge`, `AbsorbedIsPaid`, `UserWordStands`, `LoopEnds` |
| `merge_repos` | two repositories, every button, two of: bases that move, edits, commits of a stopped session, failures of git; a crash; under `FairSpec` (648,000 states) | `DoneLandsEverything`, `CancelReachesAll`, `NothingDestroyed`, `CoreStepsEnd` |
| `merge_docs` | the same, the user's tree on another branch (some 1,000 states to the counterexample) | violates `DocsLandLast` |
| `shell` | two cores in turn, two requests, deaths and timeouts without bound; under `FairSpec` (308,000 states) | `OneCore`, `NobodyWaitsOnTheDead`, `CoreReturnsOrTold`, `ChangesAreShown` |
| `projects` | two directories, one inside the other, with two tasks and an edit, or a task and a word on the configuration; one project and two words, over files with keys nobody reads and numbers that are none; or three tools on eight machines, a change, a leftover process, two forced looks, a restart, under `EnvFairness` (462,000 states) | `RegistryIsSound`, `TheUsersWordHolds`, `ShapeHolds`, `UsersFilesKept`, `TellsOfTheMachine`, `NewestReachesTheScreen` |
| `learning` | four tasks, three builds, two lessons, a crash, a lost answer, edits (1,301,000 states) | `RulesAreFrozen`, `RuleHasItsRow`, `AnswersStand`, `OffersAreFair` |
| `documents` | every text of up to eight lines that one of seven scripts allows, frames in every cut, two cores at one file, a round's stream, two briefs of each role, some 270 versions at the gate (1,315,000 states) | `ReadAsWritten` (with `ContractHolds` and `BriefLeadsOn`), `StoreIsWhole`, `PassedCanRun`, `PassIsEarned` |
| `sessions` | four sessions that work and some 2,700 that are told something, a crash; under `FairSpec` (545,000 states) | `ExitIsTheClis`, `StartsFullyTold`, `EndIsNoticed` |

Two runs end in a counterexample, to a comment in the code: in `merge_docs` a blocked code repository is noted, and
the documents are merged all the same; in `sched_stop` a stopped session's process runs on, although the comment at the
signal says it is the leader of a group (the findings in `PROJECT.json` quote both). Other traces of this kind are
described below.

### Bounds, and why they are enough

- **Tasks and sessions.** What goes wrong between a task, its rows and its processes needs one
  task and two sessions. Only the queue and the slots relate tasks; there it takes two tasks, a
  slot fewer than tasks, and a third session for one that a crash left behind. Session ids are
  free again when row and process are gone, so two or three of them are an unbounded sequence.
- **Roles.** `sched_life` has all six roles; elsewhere only those whose presence the question
  depends on, since a disabled role is skipped by the table.
- **Status blocks.** The scheduler's `Docs` has one for each way out of a node: go on, agreed,
  finished, out of rounds; infeasible where a task has to end at once.
- **`MaxBudget`, `MaxDecided`, `MaxRounds`** bound how often a user extends, how many decisions of a
  kind wait, and the count a document may reach; they are large enough for a budget to be set,
  exhausted and extended. A document's count goes no further than `MaxRounds`, which is past any budget.
- **Crashes of the core** are at most one per run but in `shell`, which has no bound on them: a crash
  loses everything but the store and the world, so a second begins where a first could have. It can fall
  between any two steps.
- **Meddling** twice in the repositories, a failing git command included: enough for a base to move and a tree to be
  edited, for git to fail in either repository or in a cancel after a stopped session's process wrote there. Mending a tree is free, since a bound on it would let a trace end in a blocked merge.
- **`shell`**: two slots are the core that ends and the one that follows, and ids are used again; two
  requests are a tick and whatever races it; `MaxQuick` is 2 instead of 3. Each property follows one change, any
  one, from which the history variables start.
- **`projects`**: two paths, one above the other, are all that nesting, membership and a linked
  file need; two tasks make two names clash; one edit may fall between any two commands. Configuration is
  looked at with one project and two words, each a command or a line written by hand: two roles, three fields, the numbers
  0 and 1 by command, and by hand one that fits, one below, one above and one that is none; the width is eight. One
  of the beginnings has overrides, the old pin and notes beside a role that overrides something and one that does not.
  The two halves of the run, projects and tools, share no state and never move in one behaviour.
- **`learning`**: two tasks corroborate, one is created before and one after; two of the three builds call
  different texts by one tag; `Horizon` and `IdleTasks` are 1 where the code has 3 and 6
  (curation.rs:26, curation.rs:29), since what counts is on which side of a border a task falls. The starting states cut a long life short: a task from its start, or two
  that have learned the same.
- **`documents`**: each kind of text has a script: a fixed opening that brings the reader where its cases
  are, then four to six lines that may each be any of seven to eleven. A reader's state depends on the last heading, the
  fence and the item being collected: five lines open, interrupt, resume and close each of these. Frames are
  three payloads, each one of five and one of those over the limit, behind a length of two bytes of two values. The versions at
  the gate are a sound one with one thing changed in one of its texts, or one revision made while it is judged.
- **`documents`, the rest**: two cores and two starts of each put a second opener between any two steps of a first;
  files are new, of each version up to one that no build knows, or another program's with no version, one like ours and
  one beyond. Two milestones, one of whose ids is part of the other, and two rounds of each role make an older
  and a newer file and a paragraph that speaks of the other one.
- **`sessions`**: four sessions work (blocks of one message, a line that is not UTF-8, both runtimes, no renderer),
  and every combination of template, role, skills, injection, decisions and budget is told.
- **`projects`, the tools**: one machine change falls between any two steps of a probe; two forced looks and
  a tick give two probes that overlap; one leftover process holds a pipe.
- **Symmetry** is used on session ids in the safety runs only; no run with a liveness property has it.
- Deadlock is checked in every scheduler run. The other runs switch it off: their systems may come to rest
  (a task done or cancelled, a document written, a version judged, a core that stays away, nothing to
  add or to edit), and then nothing has to follow.

### Assumptions about the user

`CarefulUser` in the scheduler's runs: resume, rerun and extend are pressed only when the task has
no session running. Without it `OneRowPerTask` fails (below), and what follows from two
sessions in one checkout is not worth a run of its own. It also keeps the main cases of two hazards out (a pause and a
resume under a running session), as `PROJECT.json` says of them. `rounds` leaves rerun out, as explained below. No other
run assumes anything of the user.

### Fairness, and why the code justifies it

- `Scheduler`: `WF(Tick \/ Perform)`, because the core is one thread that finishes the command it is in
  (git and the terminal are expected to return); `SF(TickBegins)`, because the shell
  sends `scheduler.tick` every three seconds and a request that was sent is read in its turn, however
  many commands come in between. Weak fairness would not do: each command disables the tick for its
  duration. No session has to end, nobody has to press, nobody has to mend the configuration.
- `WorkspaceMerge`: `WF(Core)`, the same in one condition, as its core steps are only ever disabled by
  the user changing the task. `WillingSpec` adds a user who presses merge whenever asked; it is there for
  `PressedMergeLands`.
- `MilestoneLoop`: `WF(Core)` and `WF(SessionEnds)`. A session that never ends keeps its task in the loop
  for ever by design (there is a stop button and no time limit), so `LoopEnds` is stated for sessions
  that do. It also has a premise that is no fairness: that from some time on the count in the document grows
  (`CountGrows`). Before that it may be anything, so that what is shown is that no wrong count, crash, conflict or
  extension of the past keeps a task in the loop.
- `Shell`: timers fire, the core goes on with what it has read, the event loop reads its pipes and sees an
  exit, a request that waits too long times out. `Refresh` and `RestartCore` are strongly fair only because the
  model has a few request ids where the code has a counter: one that is free now and then is free for good
  there. Nobody has to press or command; no core has to die, and none has to live for long.
- `SessionProcess`: the core inserts, ticks, and is started again when it died; the shell script and the
  pipeline run on; ten minutes pass. That a CLI ends, or what it left behind, is not assumed.
- `Environment`: `WF(Probe)`, `WF(Tick)`, `WF(EnvGet)`: a thread goes on by itself, ticks come at
  intervals, a screen that is told to reads again. A process that holds a pipe need never let go of it.

### Counterexamples kept out of the runs

The following happen in the model and, as far as reading goes, in the code. Each is stated as a property under
the name given, whose comment says that it does not hold; the configurations leave the combination out.

Against something the repository says of itself:

- *Two sessions in one checkout* (`OneRowPerTask` without `CarefulUser`): pause leaves the session running
  (technical-design.md:246), resume re-queues the task at once (task.rs:561), and the queue starts a second one beside it;
  `running_session` takes one row for granted (store.rs:1153).
- *More than `parallel_limit`* (`WithinParallelLimit`): a task that waits for approval holds no slot, the
  queue gives it away, and approving takes one without asking (task.rs:777, against requirements.md:78).
- *A stop nobody hears* (`NoOrphan`, run `sched_stop`; `StoppedIsOver`): `stop_session` signals the
  process group of the wrapper (launcher.rs:913), which is none; the row is closed, the session goes on.
- *A loop that never ends* (`LoopAlwaysEnds`): the core is said to check that the round count is monotonic
  (technical-design.md:204), and no guard does; implementation rounds that leave the count as it was, and audits that find
  work unfinished, follow each other for ever.
- *Documents that are not in the archive* (`CopiedBeforeDeleted`): they "live *on the branch*; deleting the branch first
  would destroy them" (scheduler.rs:1673), so a cancel copies them first, ignores how the copy ends (scheduler.rs:1695)
  and deletes the branch.
- *What a cancel leaves* (`CancelLeavesNothing`): it ignores every error of git too (scheduler.rs:1705), one caused
  by the process a stop did not reach, say; the task is archived over the checkout and the branch that are left.
- *A hand-written line that is discarded* (`NothingIsDiscarded`, against config_io.rs:15): a number of the wrong type
  is neither read nor reported (config_io.rs:245), and the next save of the project removes it; so it does a note in the
  table of a role that overrides nothing (config_io.rs:400).
- *Decisions nobody is told* (`ConsumedIsTold`): they are consumed (scheduler.rs:772) before the round that
  is to act on them reads what is not consumed (scheduler.rs:1152); a core that dies in between starts the round
  again without them.
- *A milestone born closed* (`OnlyAuditCloses` with the slip "closesNew"): a row that is new and closed at once is
  in no snapshot, so no guard objects (guards.rs:170, against status_block.rs:112).
- *A merge with no way back* (`PressedMergeLands`): the base moves while a task waits for its merge; every press
  is blocked, and no button leads to the rebase that would mend it (task.rs:864).
- *A failed start nobody reads of* (`ChangesAreShown` with "unstarted"): a task `fill_slots` could not start fails,
  and its failure is in no list of the tick's report (scheduler.rs:692).
- *A limit that is not the one configured* (`LimitIsResolved`): `project_add` writes `parallel_limit` once
  (dispatch.rs:634); `config_set_loop` never changes it.
- *A number that does not fit* (`TheUsersWordHolds` with a number of `Numbers` at or beyond `Width`): `config_set_loop`
  narrows to 32 bits before anything is validated (dispatch.rs:1131), so what is stored is another number, and valid.
- *Somebody else's change in the init commit* (`NothingSweptIn`): `commit_paths` adds what it names and
  commits the whole index (git.rs:465, against git.rs:448).
- *An edit nobody made* (`MismatchMeansEdited`): the recorded hash is over every file of the protocol, the
  copy leaves the evaluation cases out, so every later session of a task warns (scheduler.rs:1301).
- *A verdict that changes* (`VerdictStands`): the window of a removal experiment takes tasks in the order they were
  created; one created earlier and finished later moves it (store.rs:996, against curation.rs:407).
- *Cases that are passed over* (`GatedCasesRun`): a change whose `eval` has no slash, or names a directory
  without `case.yaml`, passes the gate unrun.
- *A new core's first look* (`EveryCoresFindingsAreShown`): its generation counts from 0 again and may equal the
  one `main.js` saw last. *Coming back* (`ReturnLooksAgain`): a look that began in the last five minutes is not repeated.
- *What two comments of the reader say* (`UnindentedLineEndsTheItem`, `HeadingEndsTheTable`): an
  item may go on after an unindented line, and a milestone table after a heading or a code block.
- *Two files taken for what they are not* (`NoStrangerIsOpened`, `RefusedIsAStrangers`): a stranger's file whose version
  number is one of ours is opened, since `migrate` goes by the number; a new file that a second core opens while a first
  one commits version 1 is refused as a stranger's, with the advice to move it away (store.rs:201 and 206 are two reads).
- *An audit that is led elsewhere* (`AuditIsLedToThePending`): with no current milestone named, an open milestone
  comes before the one that waits for its audit (brief.rs:188).

Of a crash, a fault or a combination nothing promises anything about:

- *Launch, crash, recover*: a core that dies between `launch` and `insert_session` leaves a process
  without a row; recovery starts the node again beside it (`OnlyStopsForget` and `OneProcessPerTask` with `MaxCrashes = 1`).
- *Recovery whose launch fails*: `redispatch` reports the error and does not record it; the task stays
  active without a session until the next start of the core. `NoStalledTask` is checked
  with failing launches and no crash; `StalledRecovers` with a crash and no failing launches.
- *Configuration that flickers*: if it is invalid just when a session ends, the row is closed, `advance`
  refuses, and the task stays at its node without a session; the next start of the core recovers it. An invalid
  configuration also refuses cancel and stop, which go through `advance` (scheduler.rs:1742).
- *A manual retro, then a rerun while it runs*: the retro's result is given to the node the rerun began
  (`ResultMatchesNode` fails without `CarefulUser`).
- *Cancel cut short*: the state is already Cancelled, so nothing visits the remaining checkouts again.
  `CancelReachesAll` says so with `crashes = 0`.
- *A crash before the guards or before the state is stored*: the node is started again and the next
  snapshot takes in whatever the lost round wrote, an unaudited closing included. Likewise a failed guard
  followed by a rerun. `CrashIn` in `rounds` begins after the stored state for this reason, and "rerun" is
  not among its `Presses`.
- *A crash between state and budget*: on approval N stays unset, and the limit the document states counts;
  on a merge with included items, N is not raised and the items are not consumed, so they are paid for
  later. *Between budget and consumption*: the items are paid for twice. Nothing is absorbed unpaid, which
  is what `AbsorbedIsPaid` says.
- *A checkout deleted by hand*: its repository drops out of `working_repos`, or its old branch makes the
  next `worktree add -b` fail. The models let checkouts be edited, not deleted.
- *A zombie*: nobody waits for the wrapper (launcher.rs:766); one that dies without a marker still answers
  `kill(pid, 0)` and counts as running until the core is started again (`BackstopCatches`). A process the CLI left holding
  the pipe, or another one under the wrapper's number, has the same effect. `EndIsNoticed` names all three.
- *A line that is not UTF-8* ends the renderer, and with it the log; the usage of that session is not recorded.
- *A request with a placeholder in it* is rewritten by the intake prompt or refuses its launch
  (launcher.rs:570); `StartsFullyTold` excepts the request and nothing else.
- *A frame over the limit*: neither side limits what it writes, and `framing.js:33` throws out of the `data`
  listener: the bytes stay, nothing after them is read, and every request times out beside a core that lives.
  (`FrameDecoder` of framing.rs:91 mirrors this with a difference: frames taken before one that is too long, in the same
  call, are dropped with the error, although its comment says nothing is consumed. Only its tests call it; the core reads by
  `read_frame`.)
- *Files before rows* in curation: an answer lost between the two is given again, and the rule is written
  twice. `RuleHasItsRow` and `AnswersStand` say what holds all the same.
- *The wizard's commit*: the settled state is stored before `init_commit` (dispatch.rs:814), and a commit that fails
  is not tried again. The wizard's sessions have no rows, and nothing reaps them.
- *A probe that waits for a pipe* (env_probe.rs:681): the deadline covers the command, not the readers; what the
  command left behind keeps the probe, and `probing`, for as long as it lives. `NewestReachesTheScreen` excepts it.
- *Refreshes that overtake each other for ever*, and the report of a tick that was given up waiting for, are
  the two exceptions `ChangesAreShown` states.

## 4. What is proved

Forty-three theorems in seven modules; `TaskMachineProofs` has lemmas three of them share. None assumes bounds: the
constants are any that satisfy the ASSUME of their module, and further conditions are in the statement of the theorem.
Of the safety properties the runs check, all are proved but two, which are about what readers and prompts compute
(`ReadAsWritten`, of which the parts on the design document, the contract, the pipe and the briefs are proved, and `StartsFullyTold`; see the end of this section). Each inductive invariant was first checked by TLC on
the run's instance.

### The scheduler

The theorems of `SchedulerProofs`, for every value of the constants that satisfies `SchedulerConstants`: any set
of tasks that is finite, any set of session ids, any roles, documents, limits.

| Theorem | Says | Beyond `SchedulerConstants` |
|---|---|---|
| `AlwaysInductive` | `Spec => []Inductive` | |
| `TypesHold` | `Spec => []TypeOK` | |
| `MergedBeforeDone` | `Spec => []DoneIsMerged`: what is cleaned up or done was merged, with no session since | |
| `PromiseIsKept` | `Spec => KeepsPromise`: the scheduler implements `TaskPromise` | |
| `QueueKeepsLimit` | `Spec => QueueStartsWithinLimit` | |
| `OneSessionAtATime` | `Spec => []OneRowPerTask` | `CarefulUser` |
| `ResultsFindTheirNode` | `Spec => ResultMatchesNode` | `CarefulUser` |
| `OnlyAStopForgets` | `Spec => OnlyStopsForget` | `AllGoesWell`: no crash, pids read |
| `NobodyIsLeftBehind` | `Spec => []NoStalledTask` | `Undisturbed`: no crash, no configuration edits |

The first seven hold under every combination of crashes, failing launches, configuration edits and unread pids. The
conditions of the others are those of the counterexamples above, and no more: `OnlyAStopForgets` and
`NobodyIsLeftBehind` hold with a user who presses anything at any time.

**The argument.** `DoneIsMerged` is not inductive. A task reaches Cleanup by the result of a core step, and the
result was put aside in `pend` one step earlier, so `StepIsTrue` has to carry "this Ok was a merge" across the
gap. That needs `VisitsOnce`: the list of tasks at core nodes was read at the start of the phase, and no task may
have been moved, or be visited again, before its own result is applied. A session launched later would undo the
merge, so `LaunchesItsNode` says what may be launched: the session of the node the task is at, which is not
Cleanup, or a retro round, which does not touch `merged`. `OpsOfPhase` keeps results, launches and presses to
the phases they belong to, so that no button interferes; `PendingIsWhole` and `SessionsAreWhole` make the task, the
node and the session of an outstanding step exist; `SlotsCounted` relates `fill_slots`' own count to the tasks that
hold a slot, its launch in progress aside. `Inductive` is the conjunction, with `TypeOK`; `sched_rough` checks it
with TLC and `AlwaysInductive` proves it: one lemma per action, which cites lemmas of `TaskMachineProofs` on
where each trigger can lead.

**The refinement.** `StageOf` maps a task's state to what its user sees, `landed` is the set of merged tasks.
The second part has one lemma per action that can be seen (a submission, a press, a result, a start from the
queue, a failed launch) and four for those that cannot, each under `Inductive`. That a blocked merge has not
landed and a successful one has, which `TaskPromise` demands, is again `StepIsTrue`. `QueueKeepsLimit`
reuses that analysis: only `FillHead` takes a task out of the queue into activity, and there `SlotsCounted`
bounds the sum.

**Sessions.** That a task has one row is again not inductive: a launch in progress has to find no row, so `LaunchFits`
and `InsertFits` say what may be outstanding between `Launch` and `Insert`, and `NoneBeside` that no row stands
beside it. Where a row is (`RowAtItsNode`: its task is at its node, or is not running) makes both claims follow from
where a transition leads: only resume, rerun and extend lead a stopped task back, and `CarefulUser` keeps those from a
task with a row. `EndedFits` carries the same across the gap between closing a row and advancing its task.
`Fits` is the conjunction; `RowsToReap` adds that a tick closes only rows that are there, which holds because one thread
makes the list and works it off.

**Calm.** `OnlyAStopForgets` needs "every row has its pid", without which a reaped session may still run; that a step
which closes a row of a running process is a stop or a cancel is then a matter of going through the actions.
`NobodyIsLeftBehind` needs `Accounted`: a task at a session's node has a row or is
the one something is outstanding for (`Attended`); a failed start ends in a failed task, because a start that is
recorded comes with its action (`Starts`); and before the first pass no task has run, so that recovery, whose failures
are not recorded, has nothing to start.

### The loop

Six theorems of `MilestoneLoopProofs`, for every value of the constants that satisfies `LoopConstants`: any finite
sets of milestones and items, any roles that may be left out, factor and bounds.

| Theorem | Says | Beyond `LoopConstants` |
|---|---|---|
| `TypesHold` | `Spec => []TypeOK` | |
| `AbsorbedWasPaid` | `Spec => []AbsorbedIsPaid` | |
| `WordIsKept` | `Spec => UserWordStands` | |
| `MergesTheFinished` | `Spec => []FinishedBeforeMerge` | the audit is enabled |
| `ComparedAsGiven` | `Spec => []ComparedWithItsStart` | `Calm` |
| `AuditsClose` | `Spec => []OnlyAuditCloses` | `Calm`, no milestone is added as closed already |

The conditions are not for convenience: without the audit the loop's test is only that nothing is *open*, and
what awaits an audit that never comes goes to the merge; `Calm` leaves out the rerun after a failed round and the
crash before the guards or the stored state, and the last condition leaves out the milestone born closed, after
each of which the property fails (see the counterexamples above). The first three hold for every `CrashIn`,
every slip and every button, rerun included.

**The argument.** `AbsorbedIsPaid` is about two writes that are a crash apart. `PaysFirst` carries it from one to
the other: a transition that takes items into a round owes a raised N while the budget is to be written (a fact
about the table, `RaisesN`), and the waiting items are among the paid once the consumption is. `OwedToTheState`
and `SessionAtItsNode` say what may happen meanwhile: no session, no button, no result. `UserWordStands` rests on
`DecidedAreThere`, since `Synced` would otherwise touch a decided row. `FinishedBeforeMerge` needs
`FinishedSinceTheLoop`, which also covers a task that *failed* beyond the loop, whence a rerun returns.
`SnapshotIsTable` extends "compared with its start" to the moments between rounds: the snapshot is the table except
while a round is on or is being reaped, after a round that failed, and before the first design. With it, a closing
that no audit wrote is one that `ClosedByImpl` contains, and `ClosingsAreSeen` follows it from the edit through
the guard to the failed task. `Calm` is true in `rounds`.

### The design document

`DocumentsAreRead`, in a part of its own in `MilestoneLoopProofs`, is `Spec => [](ReadsWhatIsThere /\ AcceptedIsWhole)` of
`StatusDocument`: for documents of any length, any lines and any fields, in any order. `DocumentConstants` is assumed: a
line of a section names one, a milestone's row is in one of three states, no value is the mark for "unset".

**The argument.** `ReadsWhatIsThere` says by quantifiers over lines what the reader finds with five variables, so the
inductive invariant (`DocumentInductive`) ties each of these to the lines. `Scanned`: the reader is in a code block iff
the fences so far are odd in number, and in the section of the last heading outside one. `TableAt` has one fact for each
place in a table. A header counts as the milestone table's until a body was opened (`seen`), so that there is at most
one table whose rows are read (`RowsInTable`), and it is read as long as nothing but table lines followed (`Runs`); that
it is also the first one needs `HeaderLast`, that the last line of the section is a header exactly when the scanner says
so. `RowsDiffer`, `FieldsAreSaid` and `ItemsAreBullets` are about what was collected: ids differ, a field has its only
line, an item begins with its bullet and goes on with indented lines that no other item has. The lemmas before them say
what one more line changes in what the lines say (`SectionGrows`, `TextGrows`, `MilestonesGrow`), and what it changes in
the reader (`ReadIs`).

### The brief of a round

`BriefsLeadOn` of `MilestoneLoopProofs` is `BriefLeadsOn` after any number of rounds of any milestones. While a round is
under way its brief is what the operators give of the document there is (`BriefOf`): counting a round does not change that,
and only the end of the round touches the document. The rest is about a table with rows and a set of files:
`FocusIs` says that one of two searches finds a row whenever one is unfinished, `LatestIs` that of the rounds counted
so far, which are finitely many, one is the last that left evidence. An id that is part of another one costs the brief
a paragraph too many, never one too few, so nothing is assumed of `Inside`.

### The repositories

Four theorems of `WorkspaceMergeProofs`, for any workspace, any meddling, any number of failing git commands, failing
copies and crashes, with no further condition.

| Theorem | Says |
|---|---|
| `AlwaysInductive` | `Spec => []Inductive` |
| `DoneHasLanded` | `Spec => []DoneLandsEverything` |
| `CancelIsThorough` | `Spec => []CancelReachesAll` |
| `NothingIsLost` | `Spec => NothingDestroyed` |

**The argument.** `merge_all` visits what is checked out or named, and the document may stop naming a repository. So
everything rests on `WorkIsCheckedOut`: work that has not landed is in a checkout, until a cancel. `MergeComesToIt`
carries it through a merge: what has not landed is still to be visited, or the merge will be reported blocked;
hence `CleanupAfterAll`, that a cleanup begins when nothing is left to land, also after a crash and a rerun.
`SessionAtItsNode` keeps new work out meanwhile, but for what a stopped session's process commits (`late`), which no
step of the core waits for and only a merge or a cancel clears. `ArchivedFirst` is the order of `cancel_task`: the copy is
tried, with whatever success, before a branch goes. `BranchesInReach` says that, until the core dies, a branch lives as
long as its checkout, but for where git failed, so that a cancel which finds checkouts finds branches; and that of a
cancelled task whatever remains is in a repository still to be visited, or in one where git failed.

### The shell

Three theorems of `ShellProofs`, for any number of slots, requests, deaths and timeouts.

| Theorem | Says |
|---|---|
| `AlwaysInductive` | `Spec => []Inductive` |
| `OneAtATime` | `Spec => []OneCore` |
| `NobodyLeftWaiting` | `Spec => []NobodyWaitsOnTheDead` |

**The argument.** `Alone`: what is not off is the core `main.js` talks to, since a new one is started only when it
talks to none, and it lets go of one only when that is over. `Waits`: every request still known is to that
core, as `OnExit` settles them all. `Pipes` is what makes an answer find its own request: a pipe holds only requests
of its own core that are still known, each of them once and in one direction. `Unread` says what a dead core has not read
is gone.

### The store's file

`StoreStaysWhole` of the second part of `ShellProofs`: `StoreSpec => []StoreIsWhole`, for any number of cores, of any
builds, that start and die at any point as often as they like.

`SchemaConstants` asks one thing of the world: a stranger's file is `Strange`, that is, it has something in it, and among
the statements of the block that would come next under its version number there is one that does not go through.
Without it `migrate` would add our tables to such a file, since it goes by the number.

**The argument.** A file of ours that nobody is writing has `Upto(version)`, exactly, because a block is seen by others
only once it is committed with its number. What makes it inductive is `OnItsWay`, what a core in its way may know of a
file that others have changed since it looked: the version it read is never ahead of the file's, and a core that is
in its block holds the lock and has seen each of its statements go through (`GoThrough`). A core that looked too early
begins with a block that is there already, and `FirstFits` says that its first statement then fails: the first of each
block is a table no other block makes. That is also why a stranger's file is left as it is: somewhere before the end of
the block a statement fails, and nothing of the block is ever committed.

### Sessions

`ExitCodesAreTheClis` of the first part of `SessionProofs`: `Spec => []ExitIsTheClis`, for any session, any stream, and
any order of deaths, signals, failed writes, crashes and restarts.

**The argument.** A 0 can come to rest in three places: the wrapper's own variable, its marker file and the row. It is
only ever written from the file the CLI's exit code was noted in, so `ZeroIsTheClis` says of all three at once that the
CLI ran to its end and all it said went through (`Ran`). For that to be inductive the wrapper must never be where it
would note a second code (`Ended`: it never comes back to the pipeline), and a pipeline that was cut short must have been
cut by a signal, which the trap notes under a code of its own. `Ran` itself, once true, stays so: nobody writes to a
pipeline whose writers are gone. `Piped` carries the log: as far as the renderer has come, the log is those lines of
the stream that speak, in order and each once (`Logged`); and `UsageIsOfAll` follows because it is summed when the row is closed.

### The gate

Two theorems of `SessionProofs`, for any proposals, revisions made meanwhile, cases, runs, graders and answers.

| Theorem | Says |
|---|---|
| `PassesAreEarned` | `GateSpec => []PassIsEarned` |
| `PassedVersionsRun` | `GateSpec => []PassedCanRun` |

`GateConstants` asks of the constants what their counterparts are in the code. Texts, lists of graders and of changes are
sequences; cases are finitely many, each under a directory of its own; the paths of the baselines are written with their
slash, as `eval.rs` builds them itself; for each role `eval.rs` knows a phrase its template has to have, which is what makes
a missing template a fault; and the word that stands for a refused prompt is not a word of a text.

**The argument of the first.** `DueIsEarned`: what is due is still waiting or has earned its place, as long as no fault
was noted. A case that is being run is counted as it goes (`Current`): its votes are what its graders have really said,
and as many as its runs, and what is counted as agreed is what was agreed. `Waiting` keeps a case from being run twice,
which would make the counts those of another round. All of this is said of a version that nobody edited since the
evaluation began (`Unedited`): otherwise what was read and what is there are two things.

**The argument of the second.** What the static layers see is read once, so `ReadJudged` relates the verdict to the text it
was given of; the rest is about operators. `FillAll` fills one name after the other, each over the whole text so far:
`FillLeaves` says that a name, once filled, stays away unless a later value brings it back, and no value does, so no
placeholder is left and no prompt is refused. The words "N 35" stand beside each other in what is left (`BesideHas`). A
brief is the sections its map promises, one after the other (`BriefIs`), and a section begins with the heading it was
asked by (`SectionIs`), so whatever is promised and there is quoted.

### The pipe

`FramesArrive`, in the fourth part of `SessionProofs`, is `FramesArriveWhole` of any payloads, any size of the length before
them, any limit and every way the pipe may cut the bytes. `FramingConstants` asks that a header can say how long a payload
is; `encode_frame` writes the length `as u32`, and no payload comes near four gigabytes.

**The argument.** What was written is one string of bytes `w` with the places `at` where its frames end (`Written`). The
reader is `Aligned`: the frames handed on are the first so many, and buffer and pipe together are a piece of `w` that
begins where the last of them ends. That is what keeps a payload from being taken for a length, and it holds between any
two turns of the loop, not only between two pieces. `ClaimIs` then says that a length, once it is there, is the one of the
next frame. `DrainedHolds` is about the loop: a turn takes a length out at least, so after as many turns as there are bytes
nothing is left to take (`AtRest`), whereupon an empty pipe leaves an empty buffer.

### Projects and configuration

Five theorems of `ProjectsProofs`, for any finite set of paths, any nesting of them, any keys, roles and numbers, and any
beginnings in which a directory is `Plausible`.

| Theorem | Says | Beyond `ProjectsConstants` and `StartsConstants` |
|---|---|---|
| `AlwaysInductive` | `Spec => []Inductive` | |
| `RegistryStaysSound` | `Spec => []RegistryIsSound` | |
| `ShapeIsKept` | `Spec => ShapeHolds` | |
| `FilesStayTheUsers` | `Spec => UsersFilesKept` | |
| `WordIsWritten` | `Spec => []TheUsersWordHolds` | `NumbersFit` |

`NumbersFit` says that what is asked for fits in 32 bits. `config_set_loop` narrows with `as u32`, so a larger number is
stored as another one, and the file then does not say what the user said: `said` records what was asked, and without
the condition the theorem is false.

What is not kept is in the statement: `Sensible` says which values a file can hold a number by, `Keeps` which keys a
project's save leaves alone. The theorem says of all others that they stand as they were said, and of none that it
comes from nowhere.

**The argument.** A new task gets the first slug that is free, a new project the next id. That there is a free one is
the pigeonhole principle (`OneIsFree`, `FirstFree`): n tasks do not take n + 1 numbers. `Registered` adds to the
registry that a running task's project is active, `OnDisk` what a directory can hold: of what the user made, only the
user's own hand takes away. `WordIsWritten` is one lemma per command, on what the file says after a load that clamps and a
save that removes; it holds because a setter overwrites, in what was loaded, the keys it was given and no others.

### Versions and curation

Five theorems of the first part of `CurationProofs`, for any tasks, builds, lessons, wordings (`Inside` is any relation) and any
beginnings in which no version is recorded yet.

| Theorem | Says |
|---|---|
| `AlwaysInductive` | `Spec => []Inductive` |
| `TextIsFrozen` | `Spec => []RulesAreFrozen` |
| `WrittenRulesHaveRows` | `Spec => []RuleHasItsRow` |
| `AnswersAreForGood` | `Spec => AnswersStand` |
| `OffersAreOfTheQuiet` | `Spec => OffersAreFair` |

**The argument.** `RecordedFirst` is what freezes: a task has a version exactly when it has had a session, and until
somebody edits its copy, copy and version are of one text. A crash between the commit and the record leaves a copy
without a version and without sessions, so a newer build may still replace both. `MeasuredUnder` carries that to the
rows of the version page: equal versions are equal texts. For the rules, `Known` says something was proposed in this
domain in these words; it is never taken back, since an `Upserted` row keeps its words. `Written`, `Tried` and
`Pressable` say that of every line Autome wrote, every experiment and everything on a panel, however old. That a
rule offered for removal has been quiet needs the last `IdleTasks` of a set of tasks (`LastOnes`).

### The kernel contract

`ContractIsTheSeeds`, in the second part of `CurationProofs`, is `ContractHolds` of files of any length and of any regions
the binary knows. `ContractConstants` asks of those that they have names and text, as the regions of a seed do: they
come out of the same parser, and the one thing the comparison of hashes cannot tell apart is no line from an empty one.

**The argument.** The scanner is `Sound`: either the markers so far are pairs of one name each, but for the one that is
open (`Paired`, `Matched`), or it has stopped, and then the lines so far hold something no later line mends
(`Broken`: an opening marker with another before its end, one without a name, a name twice, a closing marker without
its partner). That a file with the seed's regions is never `Broken` (`SeedIsNotBroken`) is the half that is easy
to get wrong: each opening marker has its closing one where its region ends, two have not the same, and as there are as
many of one kind as of the other, every closing marker is somebody's. A scanner that let a second opening marker
begin the region anew would fail exactly here.

### The environment

Three theorems of the third part of `ShellProofs`, for any components in any order, any number of ways to ask and any
machines.

| Theorem | Says | Beyond `EnvironmentConstants` |
|---|---|---|
| `ProbesStayInductive` | `EnvSpec => []ProbeInductive` | |
| `FindingsAreTheMachines` | `EnvSpec => []TellsOfTheMachine` | `WordsAreMeant` |
| `NewestStands` | the first conjunct of `NewestReachesTheScreen` | |

`WordsAreMeant` says that an answer that comes is classified as what it means. It is true of the answers in the run,
which has the hard ones (a page of help, "not logged in", a JSON object that speaks of a key); of other CLIs it is what
`env_probe.rs` has to be kept to. It is a condition of the theorem and not an ASSUME because the run is to notice when
the classification goes wrong.

**The argument.** `StandsStill` is about a thread whose machine has not changed since it began: what it has found is
so, no way to ask before the one it is at is understood (`Asking`), and what it has heard is what the machine says.
The walk ends at the first that is understood (`FirstAnswer`) or past the last. A change of the machine makes this
vacuous for every thread there is and for what is in the cache, because `changes` is then ahead of both. `Alone` is
what makes the newest stand: there is one thread, so none can land after one that began later.

### Induction without an induction theorem

A minimal counterexample stands in for induction: `LeastNumber`, that a set of numbers has a least element, follows from
the library's well-founded orderings. With it the pigeonhole principle, the maximum and the last n of a set are
proved, and also what recursive functions yield (`Recursion`, `UpTo`): the lines `Without` keeps are lines of the file, and
a fold of the libraries is the concatenation it was meant to be (`FlattenIs`) once the function it is defined by is shown to
be there. What is not in reach is a statement about *every* recursive function, such as an induction theorem: each is proved
for its own.

### Only model-checked

- Every liveness property: `EndedIsReaped`, `QueueDrains`, `StalledRecovers`, `CoreStepsEnd`, `LoopEnds`,
  `CoreReturnsOrTold`, `ChangesAreShown`, `EndIsNoticed` (`LoopEnds` under its premise on the count), and of `NewestReachesTheScreen` all but its first conjunct.
  Liveness under fairness and `ENABLED` are out of the prover's reach.
- `ReadAsWritten` for lessons, changelogs and streams, on every text within the bounds: no proof was attempted.
- `StartsFullyTold`: it counts the words of what a person wrote in what the CLI reads. For every value of the constants
  it would need a condition on those words that the code does not check (that they are not words of a template).
- What is kept under a name as a counterexample (section 3) does not hold and is not checked.

## 5. What is not modelled, and why

- *The renderer*: panels and forms. The user of the models presses any button at any time the core accepts
  it, which is more than a panel allows; `Shell` has of `app.js` when it reads again and what its banner says.
- *The shell's gates* (which calls pass, the login PATH, the `app:` protocol): predicates on single calls.
- *Skills*: listings of directories. `Valid` takes which skills a runtime sees as given.
- *Metrics, version page, diff summaries*: reports. What a task's numbers are attributed to is in `Versions`.
- *The 1.x plugin, prompts and protocol texts*: written for agents. What they ask of a session appears as what a
  session may do to a document, and, in `Slips`, as what it may do instead.
- *Wording, the JSON of commands, TOML's syntax, SQLite*: taken at their word. A schema is its tables and
  added columns, without types and indexes.
- *Quitting the application*, the export of a protocol version, attachments of a task, the terminal
  application's scripting.
- *Clocks*: a deadline may pass when it can; ten idle minutes, five minutes of a fresh look and five seconds of
  a long-enough life are steps that may come or not.
- *Warnings*: guards on size, retro lines and prose record events and change no state.

## 6. Plan

What is left, in order of what it would add:

1. `SessionProcess` as the implementation of a scheduler's session: `row` and `sh` mapped to `sess`, so that the
   scheduler's assumptions on markers and pids become a refinement.
2. `DoneHasLanded` as a statement about `TaskPromise`, relating its `landed` to the repositories.
3. Quitting, and the commands of the envelope that only read.
