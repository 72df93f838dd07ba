------------------------------ MODULE Projects ------------------------------
(***************************************************************************)
(* Projects: what is registered, what a directory is given, the wizard and *)
(* its commit, the two layers of configuration, and the tasks as far as a  *)
(* project depends on them.  dispatch.rs (project_*, onboarding_*,         *)
(* config_*, task_create), init.rs, config_io.rs, store.rs, project.rs.    *)
(*                                                                         *)
(* A command runs to its end; between commands the user edits files, the   *)
(* wizard's sessions write, tasks end.  A command that is refused before   *)
(* it has changed anything is no step.                                     *)
(***************************************************************************)
EXTENDS Configuration, Sequences, FiniteSets

CONSTANTS
  Paths,     \* directories somebody might add
  Under,     \* pairs of paths, the first inside the second
  Global,    \* the scope that is no project
  Shipped,   \* GlobalConfig::default
  Seen,      \* by scope, the pairs of a skill and a runtime that sees it
  Starts,    \* how things may begin: what is on disk, the overrides its
             \* repositories come with, and the bounds on what happens
  Themes,    \* what the window may look like
  Faults     \* what may fail: "add" after the directory was touched, "commit"

Above(p)    == {q \in Paths : <<p, q>> \in Under}
Inside(p)   == {q \in Paths : <<q, p>> \in Under}
Children(p) == {q \in Inside(p) : \A r \in Above(q) : r \notin Inside(p)}
Scopes      == Paths \cup {Global}

ASSUME ProjectsConstants ==
  /\ Global \notin Paths /\ None \notin Paths /\ IsFiniteSet(Paths)
  /\ Under \subseteq Paths \X Paths
  /\ \A p \in Paths : p \notin Above(p)
  /\ \A p, q, r \in Paths : q \in Above(p) /\ r \in Above(q) => r \in Above(p)
  /\ DOMAIN Shipped = Keys \cup {Theme}
  /\ Scopes \subseteq DOMAIN Seen

VARIABLES
  dir,      \* what is on disk
  cfg,      \* the configuration files, by scope: whether they parse, what they say
  row,      \* store: projects, one row to a path
  tasks,    \* store: tasks, in the order of their ids
  said,     \* history: what the user last said, by scope and key
  left      \* bounds: how many tasks, edits and words are left

store == <<row, tasks>>
vars  == <<dir, cfg, store, said, left>>

(* What the user does to files and directories, and to the configuration,  *)
(* by hand or by command, a bounded number of times each.                  *)
Edit == left.edits > 0 /\ left' = [left EXCEPT !.edits = @ - 1]
Rewords == left.words > 0 /\ left' = [left EXCEPT !.words = @ - 1]

---------------------------------------------------------------------------
(* Directories.  A file is the set of the parts it is made of; one that is *)
(* not there has none.                                                     *)

Files == {"wrapper", "rules", "gitignore", "AGENTS.md"}
Parts == {"users", "ours", "old", "link"}

NoFiles == [f \in Files |-> {}]
Absent  == [st |-> "absent", repo |-> FALSE, branch |-> FALSE, files |-> NoFiles,
            staged |-> FALSE, swept |-> FALSE]
EmptyDir == [Absent EXCEPT !.st = "dir"]

Directories ==
  [st : {"absent", "dir", "file"}, repo : BOOLEAN, branch : BOOLEAN, files : [Files -> SUBSET Parts],
   staged : BOOLEAN, swept : BOOLEAN]

(* What is not a directory has no files; the wrapper is the user's or ours *)
(* as a whole; of AGENTS.md alone it matters whether it is a link.         *)
Plausible(d) ==
  /\ d.st # "dir" => d.files = NoFiles
  /\ d.files["wrapper"] \in {{}, {"users"}, {"ours"}, {"old"}}
  /\ \A f \in Files \ {"AGENTS.md"} : "link" \notin d.files[f]

ASSUME StartsConstants ==
  \A s \in Starts :
    /\ {s.tasks, s.edits, s.words} \subseteq Nat
    /\ DOMAIN s.over \subseteq Keys \cup Unread
    /\ s.dir \in [Paths -> Directories]
    /\ \A p \in Paths : /\ Plausible(s.dir[p])
                        /\ s.dir[p].st # "absent" => \A q \in Above(p) : s.dir[q].st = "dir"

(* discover_members: the repositories directly inside.                     *)
Members(d, p) == {q \in Children(p) : d[q].st = "dir" /\ d[q].repo}

(* create_dir_all.                                                         *)
Made(p) == [q \in Paths |-> IF q \in {p} \cup Above(p) /\ dir[q].st = "absent" THEN EmptyDir ELSE dir[q]]

(* git::init.                                                              *)
Initialised(d, p) ==
  IF d[p].repo THEN d ELSE [d EXCEPT ![p].repo = TRUE, ![p].branch = TRUE]

(* init_kind.  The wrapper is refreshed while it carries Autome's marker,  *)
(* the rules are only ever created, AGENTS.md has a section of its own for *)
(* Autome and is left alone when it is a link.                             *)
Owned(c)      == IF c = {} \/ "old" \in c THEN {"ours"} ELSE c
IfAbsent(c)   == IF c = {} THEN {"ours"} ELSE c
Appended(c)   == c \cup {"ours"}
BugSection(c) == (c \ {"old"}) \cup {"ours"}
Section(c)    == IF "link" \in c THEN c ELSE (c \ {"old"}) \cup {"ours"}

Scaffold(files, workspace) ==
  [f \in Files |-> CASE f = "wrapper"   -> Owned(files[f])
                     [] f = "rules"     -> IfAbsent(files[f])
                     [] f = "gitignore" -> IF workspace THEN files[f] ELSE Appended(files[f])
                     [] f = "AGENTS.md" -> Section(files[f])]

Scaffolded(d, p, workspace) ==
  [d EXCEPT ![p].files = Scaffold(@, workspace)]

(* The repository git finds from a directory: its own, or the nearest one  *)
(* it lies in.                                                             *)
Tops(p) == {q \in {p} \cup Above(p) : dir[q].repo}
Top(p)  == IF Tops(p) = {} THEN None
           ELSE CHOOSE q \in Tops(p) : \A r \in Tops(p) : r = q \/ r \in Above(q)

(* git::commit_paths, as far as it matters whose work is committed: what   *)
(* the user had staged goes along with the paths named.                    *)
CommittedAt(t) == [dir EXCEPT ![t].staged = FALSE, ![t].swept = @ \/ dir[t].staged]

---------------------------------------------------------------------------
(* load_global: what the file does not say, or not in a way that can be    *)
(* read, is as shipped.  save_global: every key is written, what nobody    *)
(* knows is left alone.                                                    *)

LoadedGlobal ==
  LET file == cfg[Global].set
  IN  Over(Loaded(file),
           [Shipped EXCEPT ![Theme] = IF Theme \in DOMAIN file /\ file[Theme] # Word THEN file[Theme] ELSE @])

SaveGlobal(g)        == cfg' = [cfg EXCEPT ![Global].set = Over(g, @)]
SaveProject(p, over) == cfg' = [cfg EXCEPT ![p].set = Saved(@, over)]

---------------------------------------------------------------------------
(* The registry.                                                           *)

FirstStep == 3
LastStep  == 5
Completed == LastStep + 1
Skipped   == LastStep + 2
Settled(w) == w \in {Completed, Skipped}

NoRow == [st |-> "none", id |-> 0, kind |-> "repo", docs |-> None, members |-> {},
          limit |-> 0, wizard |-> FirstStep]

Active(p) == row[p].st = "active"
Known     == {p \in Paths : row[p].st # "none"}
TasksOf(p) == {i \in DOMAIN tasks : tasks[i].project = row[p].id /\ p \in Known}

BugNested(p) == \E q \in Paths \ {p} : Active(q) /\ q \in Above(p)
Nested(p) == \E q \in Paths \ {p} : Active(q) /\ (q \in Above(p) \/ p \in Above(q))


(* A path that was removed gets its row back, and its id.                  *)
FreshId == Cardinality(Known) + 1
RowId(p) == IF p \in Known THEN row[p].id ELSE FreshId

(* project_add after the directory is there: what it is, then the          *)
(* repository, the scaffold, the global configuration, the row.            *)
Acceptable(p, d, workspace, docs) ==
  /\ ~Active(p) /\ ~Nested(p)
  /\ IF workspace THEN docs \in Members(d, p) ELSE dir[p].repo => dir[p].branch

AddProject(p, workspace, docs) ==
  LET d1 == Made(p)
      d2 == IF workspace THEN d1 ELSE Initialised(d1, p)
      d3 == Scaffolded(d2, p, workspace)
  IN /\ \A q \in {p} \cup Above(p) : dir[q].st # "file"
     /\ \/ ~Acceptable(p, d1, workspace, docs) /\ dir[p].st = "absent"
           /\ dir' = d1 /\ UNCHANGED store
        \/ Acceptable(p, d1, workspace, docs) /\ "add" \in Faults
           /\ dir' \in {d2, d3} /\ UNCHANGED store
        \/ Acceptable(p, d1, workspace, docs) /\ ~cfg[Global].ok
           /\ dir' = d3 /\ UNCHANGED store
        \/ /\ Acceptable(p, d1, workspace, docs) /\ cfg[Global].ok
           /\ dir' = d3
           /\ row' = [row EXCEPT ![p] =
                [st |-> "active", id |-> RowId(p), limit |-> LoadedGlobal[<<"loop", "parallel">>],
                 kind |-> IF workspace THEN "workspace" ELSE "repo",
                 docs |-> IF workspace THEN docs ELSE None,
                 members |-> IF workspace THEN Members(d1, p) ELSE {},
                 wizard |-> FirstStep]]
           /\ UNCHANGED tasks
     /\ UNCHANGED <<cfg, said, left>>

BugRemoveProject(p) ==
  /\ Active(p)
  /\ row' = [row EXCEPT ![p].st = "removed"]
  /\ UNCHANGED <<dir, cfg, tasks, said, left>>

RemoveProject(p) ==
  /\ Active(p) /\ \A i \in TasksOf(p) : tasks[i].over
  /\ row' = [row EXCEPT ![p].st = "removed"]
  /\ UNCHANGED <<dir, cfg, tasks, said, left>>

---------------------------------------------------------------------------
(* The wizard.  None of its handlers asks whether the project is still     *)
(* registered.                                                             *)

Advanced(w) == IF w < LastStep THEN w + 1 ELSE Completed

(* onboarding_step: the step is stored, then the commit is made, once.     *)
OnboardingStep(p, w) ==
  /\ p \in Known
  /\ w = Skipped \/ (~Settled(row[p].wizard) /\ w = Advanced(row[p].wizard))
  /\ row' = [row EXCEPT ![p].wizard = w]
  /\ IF Settled(w) /\ ~Settled(row[p].wizard) /\ Top(p) # None
     THEN dir' \in {CommittedAt(Top(p))} \cup (IF "commit" \in Faults THEN {dir} ELSE {})
     ELSE UNCHANGED dir
  /\ UNCHANGED <<cfg, tasks, said, left>>

(* The wizard's session is given the repository's root and told to write   *)
(* the profile and AGENTS.md.                                              *)
OnboardingRun(p) ==
  /\ p \in Known /\ ~Settled(row[p].wizard) /\ dir[p].st = "dir" /\ Edit
  /\ dir' = [dir EXCEPT ![p].files["AGENTS.md"] = @ \cup {"users"}]
  /\ UNCHANGED <<cfg, store, said>>

(* onboarding_save: the user's text for the profile or for AGENTS.md.      *)
OnboardingSave(p) ==
  /\ p \in Known /\ dir[p].st = "dir" /\ Edit
  /\ dir' = [dir EXCEPT ![p].files["AGENTS.md"] = {"users"} \cup (@ \cap {"link"})]
  /\ UNCHANGED <<cfg, store, said>>

---------------------------------------------------------------------------
(* Tasks.  A request becomes a slug, with a number when it is taken.       *)

Slug(p) ==
  LET taken == {tasks[i].slug : i \in TasksOf(p)}
  IN CHOOSE n \in 1..(Len(tasks) + 1) : n \notin taken /\ \A m \in 1..(n - 1) : m \in taken

TaskCreate(p) ==
  /\ Active(p) /\ cfg[p].ok
  /\ left.tasks > 0 /\ left' = [left EXCEPT !.tasks = @ - 1]
  /\ tasks' = Append(tasks, [project |-> row[p].id, slug |-> Slug(p), at |-> p, over |-> FALSE])
  /\ UNCHANGED <<dir, cfg, row, said>>

TaskEnds(i) ==
  /\ i \in DOMAIN tasks /\ ~tasks[i].over
  /\ tasks' = [tasks EXCEPT ![i].over = TRUE]
  /\ UNCHANGED <<dir, cfg, row, said, left>>

---------------------------------------------------------------------------
(* Configuration commands.  said follows what was asked for, not what was  *)
(* written.                                                                *)

Says(s, words) == said' = [said EXCEPT ![s] = words]

SetTheme(v) ==
  /\ cfg[Global].ok /\ Rewords
  /\ SaveGlobal(Over(Sets(Theme, v), LoadedGlobal))
  /\ Says(Global, Over(Sets(Theme, v), said[Global]))
  /\ UNCHANGED <<dir, store>>

SetRoleGlobal(r, patch) ==
  LET next == WithRole(LoadedGlobal, r, patch)
  IN /\ cfg[Global].ok /\ Rewords
     /\ Valid(Resolve(next, <<>>), Seen[Global])
     /\ SaveGlobal(next)
     /\ Says(Global, Over(OfRole(r, patch), said[Global]))
     /\ UNCHANGED <<dir, store>>

SetRoleProject(p, r, patch) ==
  LET over == WithRole(Loaded(cfg[p].set), r, patch)
  IN /\ cfg[Global].ok /\ p \in Known /\ cfg[p].ok /\ Rewords
     /\ Valid(Resolve(LoadedGlobal, over), Seen[p])
     /\ SaveProject(p, over)
     /\ Says(p, Over(OfRole(r, patch), said[p]))
     /\ UNCHANGED <<dir, store>>

(* Restoring a role is not validated.                                      *)
ResetRole(p, r) ==
  /\ p \in Known /\ cfg[p].ok /\ Rewords
  /\ SaveProject(p, WithoutRole(Loaded(cfg[p].set), r))
  /\ Says(p, WithoutRole(said[p], r))
  /\ UNCHANGED <<dir, store>>

(* Numbers are validated as if no skill existed.  A project's limit is     *)
(* also kept on its row.                                                   *)
SetLoopGlobal(patch) ==
  LET next == Over(OfLoop(patch), LoadedGlobal)
  IN /\ cfg[Global].ok /\ Rewords
     /\ Valid(Resolve(next, <<>>), {})
     /\ SaveGlobal(next)
     /\ Says(Global, Over(Asked(patch), said[Global]))
     /\ UNCHANGED <<dir, store>>

SetLoopProject(p, patch) ==
  LET over == WithLoop(Loaded(cfg[p].set), patch)
      view == Resolve(LoadedGlobal, over)
  IN /\ cfg[Global].ok /\ p \in Known /\ cfg[p].ok /\ Rewords
     /\ Valid(view, {})
     /\ SaveProject(p, over)
     /\ row' = [row EXCEPT ![p].limit = view[<<"loop", "parallel">>]]
     /\ Says(p, Over(Asked(patch), Restrict(said[p], DOMAIN said[p] \ Cleared(patch))))
     /\ UNCHANGED <<dir, tasks>>

---------------------------------------------------------------------------
(* The user's own hands: on the files, on the directories.                 *)

Scribbled == (LoopKeys \X Scribbles) \cup ((Unread \cup {Theme}) \X {Word})

HandEdit(s, k, v) ==
  /\ Rewords /\ (s \in Paths => dir[s].st = "dir")
  /\ cfg'  = [cfg EXCEPT ![s].set = Over(Sets(k, v), @)]
  /\ Says(s, Over(Sets(k, v), said[s]))
  /\ UNCHANGED <<dir, store>>

(* A typing error, and its correction.                                     *)
Garble(s) ==
  /\ (s \in Paths => dir[s].st = "dir")
  /\ IF cfg[s].ok THEN Rewords ELSE UNCHANGED left
  /\ cfg' = [cfg EXCEPT ![s].ok = ~@]
  /\ UNCHANGED <<dir, store, said>>

Outdated(files) ==
  [f \in Files |-> IF f \in {"wrapper", "AGENTS.md"} /\ "ours" \in files[f]
                   THEN (files[f] \ {"ours"}) \cup {"old"} ELSE files[f]]

(* Stages work of their own, changes the branch, writes a file, makes it a *)
(* link, or installs a version whose scaffold is newer.                    *)
Meddled(p) ==
  {[dir EXCEPT ![p].staged = TRUE], [dir EXCEPT ![p].branch = ~@],
   [dir EXCEPT ![p].files["AGENTS.md"] = {"link"}],
   [dir EXCEPT ![p].files = Outdated(@)]}
    \cup {[dir EXCEPT ![p].files[f] = {"users"}] : f \in Files}

Meddle(p) ==
  /\ Edit /\ dir[p].st = "dir" /\ dir' \in Meddled(p)
  /\ dir'[p].staged => dir[p].repo
  /\ UNCHANGED <<cfg, store, said>>

---------------------------------------------------------------------------
Init ==
  /\ \E s \in Starts :
       /\ dir = s.dir /\ left = [tasks |-> s.tasks, edits |-> s.edits, words |-> s.words]
       /\ cfg = [x \in Scopes |->
                   [ok  |-> TRUE,
                    set |-> IF x = Global THEN Shipped ELSE IF s.dir[x].repo THEN s.over ELSE <<>>]]
  /\ said = [x \in Scopes |-> cfg[x].set]
  /\ row = [p \in Paths |-> NoRow] /\ tasks = <<>>

Next ==
  \/ \E p \in Paths :
       \/ AddProject(p, FALSE, None) \/ (\E m \in Children(p) : AddProject(p, TRUE, m))
       \/ RemoveProject(p)
       \/ \E w \in {Skipped, Advanced(row[p].wizard)} : OnboardingStep(p, w)
       \/ OnboardingRun(p) \/ OnboardingSave(p)
       \/ TaskCreate(p) \/ Meddle(p)
       \/ \E r \in Roles : ResetRole(p, r) \/ \E patch \in RolePatches : SetRoleProject(p, r, patch)
       \/ \E patch \in LoopPatches : SetLoopProject(p, patch)
  \/ \E i \in DOMAIN tasks : TaskEnds(i)
  \/ \E v \in Themes : SetTheme(v)
  \/ \E r \in Roles, patch \in RolePatches : SetRoleGlobal(r, patch)
  \/ \E patch \in LoopPatches : SetLoopGlobal(patch)
  \/ \E s \in Scopes : \/ Garble(s)
                       \/ \E word \in Scribbled : HandEdit(s, word[1], word[2])

Spec == Init /\ [][Next]_vars

---------------------------------------------------------------------------
(* Properties.                                                             *)

TypeOK ==
  /\ \A p \in Paths : /\ dir[p].st \in {"absent", "dir", "file"}
                      /\ \A f \in Files : dir[p].files[f] \subseteq Parts
                      /\ row[p].wizard \in FirstStep..Skipped
  /\ \A s \in Scopes : cfg[s].ok \in BOOLEAN /\ DOMAIN cfg[s].set \subseteq Written
  /\ {left.tasks, left.edits, left.words} \subseteq Nat

(* What is registered is never inside what else is registered, and every   *)
(* task's project is a row, the same one whatever was removed and added    *)
(* again since (dispatch.rs:561-595, store.rs:604); and two tasks that     *)
(* ever worked at one path never have the same branch, checkout or         *)
(* document directory (project.rs:354, dispatch.rs:1325).                  *)
RegistryIsSound ==
  /\ TypeOK
  /\ \A p \in Paths : Active(p) => ~Nested(p)
  /\ \A p, q \in Known : row[p].id = row[q].id => p = q
  /\ \A i \in DOMAIN tasks : tasks[i].at \in Known /\ tasks[i].project = row[tasks[i].at].id
  /\ \A i, j \in DOMAIN tasks : tasks[i].at = tasks[j].at /\ tasks[i].slug = tasks[j].slug => i = j

(* What a project is does not change under a running task                  *)
(* (project.rs:88-90, dispatch.rs:777).                                    *)
ShapeHolds ==
  [][\A i \in DOMAIN tasks : ~tasks[i].over =>
       LET p == tasks[i].at
       IN /\ row'[p].st = "active"
          /\ <<row'[p].kind, row'[p].docs, row'[p].members>> = <<row[p].kind, row[p].docs, row[p].members>>]_vars

(* Initialising never touches what the user made: a wrapper taken over,    *)
(* rules, the text around Autome's section, a link into a repository that  *)
(* is not the project's (init.rs:92-235, init.rs:362-380).                 *)
UsersFilesKept ==
  [][left'.edits = left.edits =>
       \A p \in Paths, f \in Files :
         /\ "users" \in dir[p].files[f] => "users" \in dir'[p].files[f]
         /\ "link" \in dir[p].files[f] => dir'[p].files[f] = dir[p].files[f]
         /\ f \in {"wrapper", "rules"} /\ dir[p].files[f] = {"users"} => dir'[p].files[f] = {"users"}]_vars

(* The files say what the user last said of each key, by command or by     *)
(* hand, whatever was set, reset and edited in between: nothing that was   *)
(* inherited becomes an override, and nothing restored stays one           *)
(* (config_io.rs:9-17).  What cannot be taken as it stands is not kept: a  *)
(* number that is none or does not fit; and of a project's file the pin    *)
(* and what is noted beside a role's fields.                               *)
Sensible(k, v) == /\ k \in Keys \cup {Theme} => v # Word
                  /\ k \in LoopKeys => v \in 0..(Width - 1)
Keeps(s, k) == s = Global \/ k \notin {Pin} \cup Remarks

TheUsersWordHolds ==
  \A s \in Scopes :
    /\ DOMAIN cfg[s].set \subseteq DOMAIN said[s]
    /\ \A k \in DOMAIN said[s] :
         Keeps(s, k) /\ Sensible(k, said[s][k])
           => k \in DOMAIN cfg[s].set /\ cfg[s].set[k] = said[s][k]

(* Of these "a hand-edited file is never silently discarded [...] not      *)
(* swallowed into a default" (config_io.rs:15) does not hold: a number of  *)
(* the wrong type is neither read nor reported (config_io.rs:136,          *)
(* config_io.rs:245), and the next save removes it; a role without an      *)
(* override loses its table and what is noted there (config_io.rs:400).    *)
NothingIsDiscarded == \A s \in Scopes : DOMAIN said[s] \subseteq DOMAIN cfg[s].set

(* The limit the queue is filled by is the one the configuration resolves  *)
(* to, whichever layer it comes from (config_io.rs:4-13).  It does not     *)
(* hold: project_add writes it once, config_set_loop never again.          *)
LimitIsResolved ==
  \A p \in Paths : Active(p) => row[p].limit = Resolve(LoadedGlobal, Loaded(cfg[p].set))[<<"loop", "parallel">>]

(* The init commit takes only the paths it names (git.rs:447-450). It does *)
(* not hold: what was staged before goes with it (git.rs:465).             *)
NothingSweptIn == \A p \in Paths : ~dir[p].swept
=============================================================================
