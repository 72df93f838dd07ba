--------------------------- MODULE ProjectsProofs ---------------------------
(***************************************************************************)
(* Projects, for any directories, roles, fields, numbers and beginnings:   *)
(* what is registered stays apart and keeps its tasks, a project keeps its *)
(* shape under a running task, initialising leaves the user's files alone, *)
(* and the configuration files say what the user last said.                *)
(***************************************************************************)
EXTENDS Projects, FiniteSetTheorems, WellFoundedInduction, TLAPS

---------------------------------------------------------------------------
(* The inductive invariant, by what it is about.                           *)

RowFields == {"st", "id", "kind", "docs", "members", "limit", "wizard"}

IsRow(r) ==
  /\ r = [st |-> r.st, id |-> r.id, limit |-> r.limit, kind |-> r.kind, docs |-> r.docs,
          members |-> r.members, wizard |-> r.wizard]
  /\ r.st \in {"none", "active", "removed"} /\ r.wizard \in FirstStep..Skipped

Tasks == [project : Nat, slug : Nat, at : Paths, over : BOOLEAN]

(* A row's id is one of the numbers given out so far, so that the next one *)
(* is new; a task that runs has a project that is active.                  *)
Registered ==
  /\ DOMAIN row = Paths /\ \A p \in Paths : IsRow(row[p])
  /\ tasks \in Seq(Tasks)
  /\ \A p \in Paths : Active(p) => ~Nested(p)
  /\ \A p \in Known : row[p].id \in 1..Cardinality(Known)
  /\ \A p, q \in Known : row[p].id = row[q].id => p = q
  /\ \A i \in DOMAIN tasks :
       /\ tasks[i].at \in Known /\ tasks[i].project = row[tasks[i].at].id
       /\ ~tasks[i].over => Active(tasks[i].at)
  /\ \A i, j \in DOMAIN tasks : tasks[i].at = tasks[j].at /\ tasks[i].slug = tasks[j].slug => i = j

Sound(d) ==
  /\ d \in [Paths -> Directories]
  /\ \A p \in Paths : Plausible(d[p])

OnDisk == Sound(dir)

IsFile(c) ==
  /\ c = [ok |-> c.ok, set |-> c.set]
  /\ c.ok \in BOOLEAN /\ DOMAIN c.set \subseteq Written

Configured == DOMAIN cfg = Scopes /\ \A s \in Scopes : IsFile(cfg[s])

Bounded == left \in [tasks : Nat, edits : Nat, words : Nat]

Inductive == Registered /\ OnDisk /\ Configured /\ Bounded

---------------------------------------------------------------------------
(* Numbers and slugs.                                                      *)

(* Numbers are well-ordered.                                               *)
LEMMA LeastNumber ==
  ASSUME NEW T, T \subseteq Nat, T # {}
  PROVE  \E x \in T : \A y \in T : x <= y
<1> DEFINE U == {1..n : n \in T}
<1>1. U \subseteq FiniteSubsetsOf(Nat) /\ U # {}
  <2>1. ASSUME NEW n \in T PROVE IsFiniteSet(1..n) /\ 1..n \subseteq Nat
    BY FS_Interval
  <2>2. QED
    BY <2>1 DEF FiniteSubsetsOf
<1>2. PICK u \in U : \A v \in U : <<v, u>> \notin StrictSubsetOrdering(Nat)
  <2> HIDE DEF U
  <2> QED
    BY <1>1, WFMin, FS_StrictSubsetOrderingWellFounded
<1>3. PICK x \in T : u = 1..x
  OBVIOUS
<1>4. ASSUME NEW y \in T, ~(x <= y) PROVE FALSE
  <2>1. 1..y \subseteq 1..x /\ x \notin 1..y /\ x \in 1..x
    BY <1>4
  <2>2. <<1..y, u>> \in StrictSubsetOrdering(Nat)
    BY <1>3, <2>1, 1..y # 1..x DEF StrictSubsetOrdering
  <2>3. QED
    BY <1>2, <2>2
<1>5. QED
  BY <1>4

(* n things do not take n + 1 numbers.                                     *)
LEMMA OneIsFree ==
  ASSUME NEW n \in Nat, NEW f \in [1..n -> 1..(n + 1)]
  PROVE  \E k \in 1..(n + 1) : \A i \in 1..n : f[i] # k
<1>1. SUFFICES ASSUME \A k \in 1..(n + 1) : \E i \in 1..n : f[i] = k PROVE FALSE
  OBVIOUS
<1>2. f \in Surjection(1..n, 1..(n + 1))
  BY <1>1 DEF Surjection
<1>3. ExistsSurjection(1..n, 1..(n + 1))
  BY <1>2 DEF ExistsSurjection
<1>4. Cardinality(1..(n + 1)) <= n
  BY <1>3, FS_SurjCardinalityBound
<1>5. Cardinality(1..(n + 1)) = n + 1
  <2>1. 1 \in Int /\ n + 1 \in Int /\ ~(1 > n + 1) /\ n + 1 - 1 + 1 = n + 1
    OBVIOUS
  <2>2. Cardinality(1..(n + 1)) = IF 1 > n + 1 THEN 0 ELSE n + 1 - 1 + 1
    BY <2>1, FS_Interval
  <2>3. QED
    BY <2>1, <2>2
<1>6. QED
  BY <1>4, <1>5

(* So of 1..n+1 one is free, and the first that is free is the slug.       *)
LEMMA FirstFree ==
  ASSUME NEW ts \in Seq(Tasks), NEW I, I \subseteq DOMAIN ts
  PROVE  LET taken == {ts[i].slug : i \in I}
         IN  \E n \in 1..(Len(ts) + 1) : n \notin taken /\ \A m \in 1..(n - 1) : m \in taken
<1> DEFINE taken == {ts[i].slug : i \in I}
           free  == {n \in 1..(Len(ts) + 1) : n \notin taken}
           f     == [i \in 1..Len(ts) |-> IF ts[i].slug \in 1..(Len(ts) + 1) THEN ts[i].slug ELSE 1]
<1>1. free # {}
  <2>1. Len(ts) \in Nat /\ f \in [1..Len(ts) -> 1..(Len(ts) + 1)]
    OBVIOUS
  <2>2. PICK k \in 1..(Len(ts) + 1) : \A i \in 1..Len(ts) : f[i] # k
    <3> HIDE DEF f
    <3> QED
      BY <2>1, OneIsFree
  <2>3. k \notin taken
    BY <2>2
  <2>4. QED
    BY <2>3
<1>2. PICK n \in free : \A m \in free : n <= m
  <2>1. free \subseteq Nat
    OBVIOUS
  <2> HIDE DEF free
  <2>2. QED
    BY <1>1, <2>1, LeastNumber
<1>3. \A m \in 1..(n - 1) : m \in taken
  BY <1>2
<1>4. QED
  BY <1>3

---------------------------------------------------------------------------
(* What is registered.                                                     *)

(* A step that leaves the projects' states and ids alone, and the tasks.   *)
LEMMA RowsKept ==
  ASSUME Registered, tasks' = tasks, DOMAIN row' = Paths,
         \A q \in Paths : IsRow(row'[q]) /\ row'[q].st = row[q].st /\ row'[q].id = row[q].id
  PROVE  Registered'
<1>1. Known' = Known /\ \A q \in Paths : Active(q)' = Active(q)
  BY DEF Known, Active
<1>2. \A q \in Paths : Nested(q)' = Nested(q)
  BY <1>1 DEF Nested
<1>3. QED
  BY <1>1, <1>2 DEF Registered, Known

(* A project enters the registry, for the first time or again.             *)
LEMMA RowEntered ==
  ASSUME Registered, NEW p \in Paths, ~Active(p), ~Nested(p), NEW r, IsRow(r), r.st = "active",
         r.id = RowId(p), row' = [row EXCEPT ![p] = r], tasks' = tasks
  PROVE  Registered'
<1>1. /\ DOMAIN row' = Paths /\ row'[p] = r /\ \A q \in Paths \ {p} : row'[q] = row[q]
  BY DEF Registered
<1>2. /\ Known' = Known \cup {p} /\ Active(p)'
      /\ \A q \in Paths \ {p} : Active(q)' = Active(q)
  BY <1>1 DEF Known, Active
<1>3. IsFiniteSet(Known) /\ Cardinality(Known) \in Nat
  BY ProjectsConstants, FS_Subset, FS_CardinalityType DEF Known
<1>4. /\ p \in Known => Cardinality(Known') = Cardinality(Known)
      /\ p \notin Known => Cardinality(Known') = Cardinality(Known) + 1
  BY <1>2, <1>3, FS_AddElement
<1>5. \A q \in Known : row'[q].id = row[q].id
  BY <1>1 DEF RowId
<1>6. /\ \A q \in Known' : row'[q].id \in 1..Cardinality(Known')
      /\ \A q, s \in Known' : row'[q].id = row'[s].id => q = s
  <2>1. CASE p \in Known
    <3>1. Known' = Known
      BY <2>1, <1>2
    <3>2. QED
      BY <3>1, <1>5 DEF Registered
  <2>2. CASE p \notin Known
    <3>1. row'[p].id = Cardinality(Known) + 1 /\ Cardinality(Known') = Cardinality(Known) + 1
      BY <2>2, <1>1, <1>4 DEF RowId, FreshId
    <3>2. \A q \in Known : row'[q].id \in 1..Cardinality(Known)
      BY <1>5 DEF Registered
    <3>3. \A q, s \in Known : row'[q].id = row'[s].id => q = s
      BY <1>5 DEF Registered
    <3>4. QED
      BY <3>1, <3>2, <3>3, <1>2, <1>3
  <2>3. QED
    BY <2>1, <2>2
<1>7. ASSUME NEW q \in Paths, Active(q)' PROVE ~Nested(q)'
  <2>1. CASE q = p
    BY <2>1, <1>2 DEF Nested
  <2>2. CASE q # p
    <3>1. Active(q) /\ ~Nested(q)
      BY <2>2, <1>2, <1>7 DEF Registered
    <3>2. q \notin Above(p) /\ p \notin Above(q)
      BY <2>2, <3>1 DEF Nested
    <3>3. QED
      BY <3>1, <3>2, <1>2 DEF Nested
  <2>3. QED
    BY <2>1, <2>2
<1>8. \A i \in DOMAIN tasks : /\ tasks[i].at \in Known' /\ tasks[i].project = row'[tasks[i].at].id
                              /\ ~tasks[i].over => Active(tasks[i].at)'
  <2>1. \A i \in DOMAIN tasks : tasks[i].at \in Paths
    BY DEF Registered, Known
  <2>2. QED
    BY <2>1, <1>2, <1>5 DEF Registered
<1>9. QED
  BY <1>1, <1>6, <1>7, <1>8 DEF Registered

(* A project leaves it when no task of it runs.                            *)
LEMMA RowLeft ==
  ASSUME Registered, NEW p \in Paths, RemoveProject(p)
  PROVE  Registered'
<1>1. /\ Active(p) /\ tasks' = tasks /\ DOMAIN row' = Paths
      /\ row'[p] = [row[p] EXCEPT !.st = "removed"]
      /\ \A q \in Paths \ {p} : row'[q] = row[q]
  BY DEF RemoveProject, Registered
<1>2. IsRow(row'[p]) /\ row'[p].st = "removed" /\ row'[p].id = row[p].id
  BY <1>1 DEF Registered, IsRow
<1>3. /\ Known' = Known /\ ~Active(p)' /\ \A q \in Known : row'[q].id = row[q].id
      /\ \A q \in Paths \ {p} : Active(q)' = Active(q)
  BY <1>1, <1>2 DEF Known, Active
<1>4. \A q \in Paths : Active(q)' => ~Nested(q)'
  BY <1>1, <1>3 DEF Nested, Registered
<1>5. \A i \in DOMAIN tasks : ~tasks[i].over => Active(tasks[i].at)'
  <2>1. SUFFICES ASSUME NEW i \in DOMAIN tasks, ~tasks[i].over PROVE tasks[i].at # p
    <3>1. \A i \in DOMAIN tasks : tasks[i].at \in Paths /\ (~tasks[i].over => Active(tasks[i].at))
      BY DEF Registered, Known
    <3>2. QED
      BY <3>1, <1>1 DEF Active
  <2>2. tasks[i].at = p => i \in TasksOf(p)
    BY DEF Registered, TasksOf
  <2>3. QED
    BY <2>1, <2>2 DEF RemoveProject
<1>6. QED
  BY <1>1, <1>2, <1>3, <1>4, <1>5 DEF Registered

(* A task is created, with a slug no task at its path has.                 *)
LEMMA TaskCreated ==
  ASSUME Registered, NEW p \in Paths, TaskCreate(p)
  PROVE  Registered'
<1> DEFINE t == [project |-> row[p].id, slug |-> Slug(p), at |-> p, over |-> FALSE]
<1>1. Active(p) /\ row' = row /\ tasks' = Append(tasks, t)
  BY DEF TaskCreate
<1>2. p \in Known /\ Known' = Known /\ \A q \in Paths : Active(q)' = Active(q)
  BY <1>1 DEF Known, Active
<1>3. \A q \in Paths : Nested(q)' = Nested(q)
  BY <1>2 DEF Nested
<1>4. /\ Slug(p) \in 1..(Len(tasks) + 1)
      /\ \A i \in TasksOf(p) : tasks[i].slug # Slug(p)
  <2>1. tasks \in Seq(Tasks) /\ TasksOf(p) \subseteq DOMAIN tasks
    BY DEF Registered, TasksOf
  <2>2. QED
    BY <2>1, FirstFree DEF Slug
<1>5. t \in Tasks
  <2>1. row[p].id \in Nat
    <3>1. row[p].id \in 1..Cardinality(Known)
      BY <1>2 DEF Registered
    <3>2. Cardinality(Known) \in Nat
      BY ProjectsConstants, FS_Subset, FS_CardinalityType DEF Known
    <3>3. QED
      BY <3>1, <3>2
  <2>2. QED
    BY <2>1, <1>4 DEF Tasks, Registered
<1> HIDE DEF t
<1>6. /\ tasks' \in Seq(Tasks) /\ DOMAIN tasks' = 1..(Len(tasks) + 1) /\ DOMAIN tasks = 1..Len(tasks)
      /\ \A i \in DOMAIN tasks : tasks'[i] = tasks[i]
      /\ tasks'[Len(tasks) + 1] = t
  BY <1>1, <1>5 DEF Registered
<1>7. t.project = row[p].id /\ t.slug = Slug(p) /\ t.at = p /\ t.over = FALSE
  BY DEF t
<1>8. \A i \in DOMAIN tasks : tasks[i].at = p => tasks[i].slug # Slug(p)
  <2>1. \A i \in DOMAIN tasks : tasks[i].at = p => i \in TasksOf(p)
    BY <1>2 DEF Registered, TasksOf
  <2>2. QED
    BY <2>1, <1>4
<1>9. \A i \in DOMAIN tasks' : i \in DOMAIN tasks \/ i = Len(tasks) + 1
  BY <1>6 DEF Registered
<1>10. \A i, j \in DOMAIN tasks' :
         tasks'[i].at = tasks'[j].at /\ tasks'[i].slug = tasks'[j].slug => i = j
  BY <1>6, <1>7, <1>8, <1>9 DEF Registered
<1>11. \A i \in DOMAIN tasks' :
         /\ tasks'[i].at \in Known /\ tasks'[i].project = row[tasks'[i].at].id
         /\ ~tasks'[i].over => Active(tasks'[i].at)
  BY <1>1, <1>2, <1>6, <1>7, <1>9 DEF Registered
<1>12. QED
  BY <1>1, <1>2, <1>3, <1>6, <1>10, <1>11 DEF Registered, Known

(* A task ends.                                                            *)
LEMMA TaskEnded ==
  ASSUME Registered, NEW i \in DOMAIN tasks, TaskEnds(i)
  PROVE  Registered'
<1>1. /\ row' = row /\ tasks' \in Seq(Tasks) /\ DOMAIN tasks' = DOMAIN tasks
      /\ \A j \in DOMAIN tasks :
           /\ tasks'[j].at = tasks[j].at /\ tasks'[j].project = tasks[j].project
           /\ tasks'[j].slug = tasks[j].slug /\ (tasks[j].over => tasks'[j].over)
  <2>1. row' = row /\ tasks' = [tasks EXCEPT ![i] = [tasks[i] EXCEPT !.over = TRUE]]
    BY DEF TaskEnds
  <2>2. tasks[i] \in Tasks /\ [tasks[i] EXCEPT !.over = TRUE] \in Tasks
    <3>1. tasks[i] \in Tasks
      BY DEF Registered
    <3>2. QED
      BY <3>1 DEF Tasks
  <2>3. tasks' \in Seq(Tasks) /\ DOMAIN tasks' = DOMAIN tasks
    BY <2>1, <2>2 DEF Registered
  <2>4. /\ \A j \in DOMAIN tasks \ {i} : tasks'[j] = tasks[j]
        /\ tasks'[i] = [tasks[i] EXCEPT !.over = TRUE]
    BY <2>1 DEF Registered
  <2>5. /\ tasks'[i].at = tasks[i].at /\ tasks'[i].project = tasks[i].project
        /\ tasks'[i].slug = tasks[i].slug /\ tasks'[i].over
    BY <2>2, <2>4 DEF Tasks
  <2>6. QED
    BY <2>1, <2>3, <2>4, <2>5
<1>2. Known' = Known /\ \A q \in Paths : Active(q)' = Active(q)
  BY <1>1 DEF Known, Active
<1>3. \A q \in Paths : Nested(q)' = Nested(q)
  BY <1>2 DEF Nested
<1>4. QED
  BY <1>1, <1>2, <1>3 DEF Registered, Known

---------------------------------------------------------------------------
(* Directories.                                                            *)

(* What initialising may do to the files that are there.                   *)
KeepsUsersFiles(d, e) ==
  \A p \in Paths, f \in Files :
    /\ "users" \in d[p].files[f] => "users" \in e[p].files[f]
    /\ "link" \in d[p].files[f] => e[p].files[f] = d[p].files[f]
    /\ f \in {"wrapper", "rules"} /\ d[p].files[f] = {"users"} => e[p].files[f] = {"users"}

(* One directory changes.                                                  *)
LEMMA OneChanged ==
  ASSUME NEW d, Sound(d), NEW p \in Paths, NEW n \in Directories, Plausible(n)
  PROVE  Sound([d EXCEPT ![p] = n])
BY DEF Sound

(* Its files change.                                                       *)
LEMMA FilesChanged ==
  ASSUME NEW d, Sound(d), NEW p \in Paths, d[p].st = "dir", NEW files \in [Files -> SUBSET Parts],
         files["wrapper"] \in {{}, {"users"}, {"ours"}, {"old"}},
         \A f \in Files \ {"AGENTS.md"} : "link" \notin files[f]
  PROVE  Sound([d EXCEPT ![p].files = files])
<1>1. d[p] \in Directories
  BY DEF Sound
<1> DEFINE n == [d[p] EXCEPT !.files = files]
<1>2. n \in Directories /\ n.files = files /\ n.st = "dir"
  BY <1>1 DEF Directories
<1>3. Plausible(n)
  BY <1>2 DEF Plausible
<1>4. QED
  BY <1>2, <1>3, OneChanged

(* A directory is made, with those above it: no file that was there        *)
(* changes.                                                                *)
LEMMA MadeIs ==
  ASSUME OnDisk, NEW p \in Paths
  PROVE  /\ Sound(Made(p)) /\ \A q \in Paths : Made(p)[q].files = dir[q].files
         /\ dir[p].st # "file" => Made(p)[p].st = "dir"
<1>1. EmptyDir \in Directories /\ EmptyDir.st = "dir" /\ EmptyDir.files = NoFiles
  BY DEF EmptyDir, Absent, Directories, NoFiles
<1>2. Plausible(EmptyDir)
  BY <1>1 DEF Plausible, NoFiles, Files
<1>3. \A q \in Paths : dir[q] \in Directories /\ Plausible(dir[q])
  BY DEF OnDisk, Sound
<1>4. Made(p) \in [Paths -> Directories]
  BY <1>1, <1>3 DEF Made
<1>5. \A q \in Paths : /\ Made(p)[q] = dir[q] \/ (dir[q].st = "absent" /\ Made(p)[q] = EmptyDir)
                       /\ Plausible(Made(p)[q])
  BY <1>2, <1>3 DEF Made
<1>6. \A q \in Paths : Made(p)[q].files = dir[q].files
  BY <1>1, <1>3, <1>5 DEF Plausible
<1>7. dir[p].st # "file" => Made(p)[p].st = "dir"
  BY <1>1, <1>3 DEF Made, Directories
<1>8. QED
  BY <1>4, <1>5, <1>6, <1>7 DEF Sound

(* A repository is made.                                                   *)
LEMMA InitialisedIs ==
  ASSUME NEW d, Sound(d), NEW p \in Paths
  PROVE  LET e == Initialised(d, p)
         IN  Sound(e) /\ \A q \in Paths : e[q].files = d[q].files /\ e[q].st = d[q].st
<1>1. d[p] \in Directories /\ Plausible(d[p])
  BY DEF Sound
<1> DEFINE n == [[d[p] EXCEPT !.repo = TRUE] EXCEPT !.branch = TRUE]
<1>2. n \in Directories /\ n.files = d[p].files /\ n.st = d[p].st
  BY <1>1 DEF Directories
<1>3. Plausible(n)
  BY <1>1, <1>2 DEF Plausible
<1>4. [d EXCEPT ![p].repo = TRUE, ![p].branch = TRUE] = [d EXCEPT ![p] = n]
  BY DEF Sound
<1> HIDE DEF n
<1>5. QED
  BY <1>2, <1>3, <1>4, OneChanged DEF Initialised, Sound

(* The scaffold.                                                           *)
LEMMA ScaffoldedIs ==
  ASSUME NEW d, Sound(d), NEW p \in Paths, d[p].st = "dir", NEW workspace \in BOOLEAN
  PROVE  LET e == Scaffolded(d, p, workspace)
         IN  Sound(e) /\ KeepsUsersFiles(d, e)
<1> DEFINE old == d[p].files
           new == Scaffold(old, workspace)
<1>1. old \in [Files -> SUBSET Parts] /\ Plausible(d[p])
  BY DEF Sound, Directories
<1>2. /\ new \in [Files -> SUBSET Parts] /\ new["wrapper"] = Owned(old["wrapper"])
      /\ new["rules"] = IfAbsent(old["rules"]) /\ new["AGENTS.md"] = Section(old["AGENTS.md"])
      /\ new["gitignore"] \in {old["gitignore"], Appended(old["gitignore"])}
  BY <1>1 DEF Scaffold, Owned, IfAbsent, Appended, Section, Files, Parts
<1>3. /\ new["wrapper"] \in {{}, {"users"}, {"ours"}, {"old"}}
      /\ \A f \in Files \ {"AGENTS.md"} : "link" \notin new[f]
  BY <1>1, <1>2 DEF Plausible, Owned, IfAbsent, Appended, Files
<1>4. \A f \in Files : /\ "users" \in old[f] => "users" \in new[f]
                       /\ "link" \in old[f] => new[f] = old[f]
                       /\ f \in {"wrapper", "rules"} /\ old[f] = {"users"} => new[f] = {"users"}
  BY <1>1, <1>2 DEF Plausible, Owned, IfAbsent, Appended, Section, Files
<1> HIDE DEF new
<1>5. Sound([d EXCEPT ![p].files = new])
  BY <1>2, <1>3, FilesChanged
<1>6. Scaffolded(d, p, workspace) = [d EXCEPT ![p].files = new]
  BY DEF Scaffolded, new
<1>7. KeepsUsersFiles(d, [d EXCEPT ![p].files = new])
  BY <1>4 DEF KeepsUsersFiles, Sound, Directories
<1>8. QED
  BY <1>5, <1>6, <1>7

(* Adding a project, however far it gets.                                  *)
LEMMA AddOnDisk ==
  ASSUME OnDisk, NEW p \in Paths, NEW workspace \in BOOLEAN, NEW docs, AddProject(p, workspace, docs)
  PROVE  OnDisk' /\ KeepsUsersFiles(dir, dir')
<1> DEFINE d1 == Made(p)
           d2 == IF workspace THEN d1 ELSE Initialised(d1, p)
           d3 == Scaffolded(d2, p, workspace)
<1>1. dir' \in {d1, d2, d3} /\ dir[p].st # "file"
  BY DEF AddProject
<1>2. Sound(d1) /\ d1[p].st = "dir" /\ \A q \in Paths : d1[q].files = dir[q].files
  BY <1>1, MadeIs
<1> HIDE DEF d1
<1>3. Sound(d2) /\ d2[p].st = "dir" /\ \A q \in Paths : d2[q].files = dir[q].files
  BY <1>2, InitialisedIs
<1> HIDE DEF d2
<1>4. Sound(d3) /\ KeepsUsersFiles(d2, d3)
  BY <1>3, ScaffoldedIs
<1> HIDE DEF d3
<1>5. KeepsUsersFiles(dir, d1) /\ KeepsUsersFiles(dir, d2) /\ KeepsUsersFiles(dir, d3)
  BY <1>2, <1>3, <1>4 DEF KeepsUsersFiles
<1>6. QED
  BY <1>1, <1>2, <1>3, <1>4, <1>5 DEF OnDisk

(* The wizard's commit takes what is staged along and leaves every file.   *)
LEMMA StepOnDisk ==
  ASSUME OnDisk, NEW p \in Paths, NEW w, OnboardingStep(p, w)
  PROVE  OnDisk' /\ KeepsUsersFiles(dir, dir')
<1>1. KeepsUsersFiles(dir, dir)
  BY DEF KeepsUsersFiles
<1>2. ASSUME NEW t PROVE LET e == CommittedAt(t) IN Sound(e) /\ KeepsUsersFiles(dir, e)
  <2>1. CASE t \notin Paths
    <3>1. CommittedAt(t) = dir
      BY <2>1 DEF CommittedAt, OnDisk, Sound
    <3>2. QED
      BY <3>1, <1>1 DEF OnDisk
  <2>2. CASE t \in Paths
    <3>1. dir[t] \in Directories /\ Plausible(dir[t])
      BY <2>2 DEF OnDisk, Sound
    <3> DEFINE n == [[dir[t] EXCEPT !.staged = FALSE] EXCEPT !.swept = @ \/ dir[t].staged]
    <3>2. n \in Directories /\ n.files = dir[t].files /\ n.st = dir[t].st
      BY <3>1 DEF Directories
    <3>3. Plausible(n)
      BY <3>1, <3>2 DEF Plausible
    <3>4. CommittedAt(t) = [dir EXCEPT ![t] = n]
      BY <2>2 DEF OnDisk, Sound, CommittedAt
    <3> HIDE DEF n
    <3>5. KeepsUsersFiles(dir, [dir EXCEPT ![t] = n])
      BY <2>2, <3>2 DEF KeepsUsersFiles, OnDisk, Sound
    <3>6. Sound([dir EXCEPT ![t] = n])
      BY <2>2, <3>2, <3>3, OneChanged DEF OnDisk
    <3>7. QED
      BY <3>4, <3>5, <3>6
  <2>3. QED
    BY <2>1, <2>2
<1>3. dir' = dir \/ \E t : dir' = CommittedAt(t)
  BY DEF OnboardingStep
<1>4. QED
  BY <1>1, <1>2, <1>3 DEF OnDisk

(* AGENTS.md is written over, by the wizard's session or by the user.      *)
LEMMA AgentsOnDisk ==
  ASSUME OnDisk, NEW p \in Paths, dir[p].st = "dir", NEW c \in SUBSET Parts,
         dir' = [dir EXCEPT ![p].files["AGENTS.md"] = c]
  PROVE  OnDisk'
<1>1. dir[p].files \in [Files -> SUBSET Parts] /\ Plausible(dir[p])
  BY DEF OnDisk, Sound, Directories
<1> DEFINE files == [dir[p].files EXCEPT !["AGENTS.md"] = c]
<1>2. /\ files \in [Files -> SUBSET Parts] /\ files["wrapper"] = dir[p].files["wrapper"]
      /\ \A f \in Files \ {"AGENTS.md"} : files[f] = dir[p].files[f]
  BY <1>1 DEF Files
<1>3. dir' = [dir EXCEPT ![p].files = files]
  BY DEF OnDisk, Sound
<1> HIDE DEF files
<1>4. /\ files["wrapper"] \in {{}, {"users"}, {"ours"}, {"old"}}
      /\ \A f \in Files \ {"AGENTS.md"} : "link" \notin files[f]
  BY <1>1, <1>2 DEF Plausible
<1>5. Sound([dir EXCEPT ![p].files = files])
  BY <1>2, <1>4, FilesChanged DEF OnDisk
<1>6. QED
  BY <1>3, <1>5 DEF OnDisk

(* What users do by hand.                                                  *)
LEMMA MeddleOnDisk ==
  ASSUME OnDisk, NEW p \in Paths, Meddle(p)
  PROVE  OnDisk'
<1> DEFINE old == dir[p].files
<1>1. /\ dir[p] \in Directories /\ Plausible(dir[p]) /\ dir[p].st = "dir"
      /\ old \in [Files -> SUBSET Parts]
  BY DEF OnDisk, Sound, Directories, Meddle
<1>2. CASE dir' = [dir EXCEPT ![p].staged = TRUE]
  <2>1. [dir[p] EXCEPT !.staged = TRUE] \in Directories /\ Plausible([dir[p] EXCEPT !.staged = TRUE])
    BY <1>1 DEF Directories, Plausible
  <2>2. QED
    BY <1>2, <2>1, OneChanged DEF OnDisk
<1>3. CASE dir' = [dir EXCEPT ![p].branch = ~@]
  <2>1. /\ [dir[p] EXCEPT !.branch = ~dir[p].branch] \in Directories
        /\ Plausible([dir[p] EXCEPT !.branch = ~dir[p].branch])
    BY <1>1 DEF Directories, Plausible
  <2>2. QED
    BY <1>3, <2>1, OneChanged DEF OnDisk
<1>4. CASE dir' = [dir EXCEPT ![p].files["AGENTS.md"] = {"link"}]
  BY <1>1, <1>4, AgentsOnDisk DEF Parts
<1>5. CASE dir' = [dir EXCEPT ![p].files = Outdated(@)]
  <2>1. /\ Outdated(old) \in [Files -> SUBSET Parts]
        /\ Outdated(old)["wrapper"] \in {{}, {"users"}, {"ours"}, {"old"}}
        /\ \A f \in Files \ {"AGENTS.md"} : "link" \notin Outdated(old)[f]
    BY <1>1 DEF Outdated, Plausible, Files, Parts
  <2>2. QED
    BY <1>1, <1>5, <2>1, FilesChanged DEF OnDisk
<1>6. ASSUME NEW f \in Files, dir' = [dir EXCEPT ![p].files[f] = {"users"}] PROVE OnDisk'
  <2> DEFINE files == [old EXCEPT ![f] = {"users"}]
  <2>1. /\ files \in [Files -> SUBSET Parts]
        /\ \A g \in Files : files[g] \in {old[g], {"users"}}
    BY <1>1 DEF Parts
  <2>2. dir' = [dir EXCEPT ![p].files = files]
    BY <1>6 DEF OnDisk, Sound
  <2>3. /\ files["wrapper"] \in {{}, {"users"}, {"ours"}, {"old"}}
        /\ \A g \in Files \ {"AGENTS.md"} : "link" \notin files[g]
    BY <1>1, <2>1 DEF Plausible, Files
  <2> HIDE DEF files
  <2>4. QED
    BY <1>1, <2>1, <2>2, <2>3, FilesChanged DEF OnDisk
<1>7. QED
  BY <1>2, <1>3, <1>4, <1>5, <1>6 DEF Meddle, Meddled

---------------------------------------------------------------------------
(* Configuration files.                                                    *)

(* Keys nobody reads are no keys of a layer.                               *)
LEMMA UnreadAreNoKeys == Keys \cap (Unread \cup {Theme}) = {}
BY ConfigurationConstants DEF Keys, LoopKeys, RoleKeys, Unread, Remarks, Pin, DocRoot, Theme

(* What a file has to say of the words it was given in scope s.            *)
Answers(s, file, words) ==
  /\ DOMAIN file \subseteq DOMAIN words
  /\ \A k \in DOMAIN words :
       Keeps(s, k) /\ Sensible(k, words[k]) => k \in DOMAIN file /\ file[k] = words[k]

(* What makes sense is loaded as it is written.                            *)
LEMMA LoadedAsWritten ==
  ASSUME NEW f, NEW k \in DOMAIN f, k \in Keys, Sensible(k, f[k])
  PROVE  k \in DOMAIN Loaded(f) /\ Loaded(f)[k] = f[k]
<1>1. f[k] # Word
  BY DEF Sensible
<1>2. k \in LoopKeys => Clamped(f[k]) = f[k]
  BY ConfigurationConstants DEF Sensible, Clamped
<1>3. QED
  BY <1>1, <1>2 DEF Loaded

LEMMA LoadedKeys == \A f : DOMAIN Loaded(f) \subseteq Keys /\ DOMAIN Loaded(f) \subseteq DOMAIN f
BY DEF Loaded

(* Where the overrides answer the words about keys, and the other words    *)
(* are the ones the file has answered so far, it goes on to do so.         *)
LEMMA SavedAnswers ==
  ASSUME NEW s, NEW f, NEW w, NEW over, NEW v,
         DOMAIN f \subseteq Written, Answers(s, f, w), s # Global,
         DOMAIN over \subseteq Keys, DOMAIN over \subseteq DOMAIN v,
         \A k \in DOMAIN w \ Keys : k \in DOMAIN v,
         \A k \in DOMAIN v \ Keys : k \in DOMAIN w /\ v[k] = w[k],
         \A k \in DOMAIN v \cap Keys : Sensible(k, v[k]) => k \in DOMAIN over /\ over[k] = v[k]
  PROVE  Answers(s, Saved(f, over), v) /\ DOMAIN Saved(f, over) \subseteq Written
<1> DEFINE file == Saved(f, over)
<1>1. DOMAIN file = DOMAIN over \cup (DOMAIN f \cap LeftAlone(over))
  BY DEF Saved, Over, Restrict
<1>2. \A k \in DOMAIN over : file[k] = over[k]
  BY DEF Saved, Over
<1>3. \A k \in DOMAIN f \cap LeftAlone(over) : k \notin Keys /\ file[k] = f[k]
  <2>1. \A k \in LeftAlone(over) : k \notin Keys
    BY UnreadAreNoKeys DEF LeftAlone, Unread
  <2>2. QED
    BY <2>1 DEF Saved, Over, Restrict
<1> HIDE DEF file
<1>4. DOMAIN file \subseteq DOMAIN v /\ DOMAIN file \subseteq Written
  BY <1>1, <1>3 DEF Answers, Written
<1>5. ASSUME NEW k \in DOMAIN v, Keeps(s, k), Sensible(k, v[k]) PROVE k \in DOMAIN file /\ file[k] = v[k]
  <2>1. CASE k \in Keys
    BY <1>1, <1>2, <1>5, <2>1
  <2>2. CASE k \notin Keys
    <3>1. k \in DOMAIN f /\ f[k] = v[k]
      BY <1>5, <2>2 DEF Answers
    <3>2. k \in LeftAlone(over)
      BY <1>5, <2>2, <3>1 DEF Keeps, LeftAlone, Written, Unread
    <3>3. QED
      BY <1>1, <1>3, <3>1, <3>2
  <2>3. QED
    BY <2>1, <2>2
<1>6. QED
  BY <1>4, <1>5 DEF file, Answers

(* The overrides a command makes of a file answer the words as it changes  *)
(* them: g is said, of S nothing is said any more.                         *)
LEMMA OverridesAnswer ==
  ASSUME NEW s, NEW f, NEW w, NEW g, NEW S, DOMAIN g \subseteq Keys, S \subseteq Keys,
         DOMAIN f \subseteq Written, Answers(s, f, w), s # Global
  PROVE  LET over == Over(g, Restrict(Loaded(f), DOMAIN Loaded(f) \ S))
             v    == Over(g, Restrict(w, DOMAIN w \ S))
         IN  Answers(s, Saved(f, over), v) /\ DOMAIN Saved(f, over) \subseteq Written
<1> DEFINE over == Over(g, Restrict(Loaded(f), DOMAIN Loaded(f) \ S))
           v    == Over(g, Restrict(w, DOMAIN w \ S))
<1>1. /\ DOMAIN over = DOMAIN g \cup (DOMAIN Loaded(f) \ S)
      /\ \A k \in DOMAIN over : over[k] = IF k \in DOMAIN g THEN g[k] ELSE Loaded(f)[k]
  BY DEF Over, Restrict
<1>2. /\ DOMAIN v = DOMAIN g \cup (DOMAIN w \ S)
      /\ \A k \in DOMAIN v : v[k] = IF k \in DOMAIN g THEN g[k] ELSE w[k]
  BY DEF Over, Restrict
<1> HIDE DEF over, v
<1>3. DOMAIN over \subseteq Keys /\ DOMAIN over \subseteq DOMAIN v
  BY <1>1, <1>2, LoadedKeys DEF Answers
<1>4. ASSUME NEW k \in DOMAIN v \cap Keys, Sensible(k, v[k]) PROVE k \in DOMAIN over /\ over[k] = v[k]
  <2>1. CASE k \in DOMAIN g
    BY <1>1, <1>2, <2>1
  <2>2. CASE k \notin DOMAIN g
    <3>1. k \in DOMAIN w /\ k \notin S /\ v[k] = w[k] /\ Keeps(s, k)
      BY <1>2, <1>4, <2>2, UnreadAreNoKeys DEF Keeps, Unread
    <3>2. k \in DOMAIN f /\ f[k] = w[k]
      BY <1>4, <3>1 DEF Answers
    <3>3. k \in DOMAIN Loaded(f) /\ Loaded(f)[k] = f[k]
      BY <1>4, <3>1, <3>2, LoadedAsWritten
    <3>4. QED
      BY <1>1, <2>2, <3>1, <3>2, <3>3
  <2>3. QED
    BY <2>1, <2>2
<1>5. /\ \A k \in DOMAIN w \ Keys : k \in DOMAIN v
      /\ \A k \in DOMAIN v \ Keys : k \in DOMAIN w /\ v[k] = w[k]
  BY <1>2
<1>6. Answers(s, Saved(f, over), v) /\ DOMAIN Saved(f, over) \subseteq Written
  BY <1>3, <1>4, <1>5, SavedAnswers
<1>7. QED
  BY <1>6 DEF over, v

(* Without anything new, and without anything taken back.                  *)
LEMMA OverNothing ==
  ASSUME NEW f, NEW S PROVE Over(<<>>, Restrict(f, S)) = Restrict(f, S)
BY DEF Over, Restrict

LEMMA RestrictNothing ==
  ASSUME NEW f, NEW g PROVE Over(g, Restrict(f, DOMAIN f \ {})) = Over(g, f)
BY DEF Over, Restrict

(* The global file is written with every key.                              *)
LEMMA GlobalKeys == DOMAIN LoadedGlobal = Keys \cup {Theme}
BY ProjectsConstants, LoadedKeys DEF LoadedGlobal, Over

LEMMA GlobalAnswers ==
  ASSUME NEW w, NEW g, DOMAIN g \subseteq Keys \cup {Theme}, DOMAIN cfg[Global].set \subseteq Written,
         Answers(Global, cfg[Global].set, w), Keys \cup {Theme} \subseteq DOMAIN w
  PROVE  LET file == Over(Over(g, LoadedGlobal), cfg[Global].set)
         IN  /\ Answers(Global, file, Over(g, w)) /\ DOMAIN file \subseteq Written
             /\ Keys \cup {Theme} \subseteq DOMAIN Over(g, w)
<1> DEFINE f    == cfg[Global].set
           file == Over(Over(g, LoadedGlobal), f)
           v    == Over(g, w)
<1>1. /\ DOMAIN file = Keys \cup {Theme} \cup DOMAIN f
      /\ \A k \in DOMAIN file : file[k] = IF k \in DOMAIN g THEN g[k]
                                         ELSE IF k \in Keys \cup {Theme} THEN LoadedGlobal[k] ELSE f[k]
  <2>1. /\ DOMAIN Over(g, LoadedGlobal) = Keys \cup {Theme}
        /\ \A k \in Keys \cup {Theme} : Over(g, LoadedGlobal)[k] = IF k \in DOMAIN g THEN g[k] ELSE LoadedGlobal[k]
    BY GlobalKeys DEF Over
  <2>2. QED
    BY <2>1 DEF Over
<1>2. /\ DOMAIN v = DOMAIN g \cup DOMAIN w
      /\ \A k \in DOMAIN v : v[k] = IF k \in DOMAIN g THEN g[k] ELSE w[k]
  BY DEF Over
<1>3. ASSUME NEW k \in DOMAIN f \cap (Keys \cup {Theme}), Sensible(k, f[k]) PROVE LoadedGlobal[k] = f[k]
  <2>1. CASE k \in Keys
    <3>1. k \in DOMAIN Loaded(f) /\ Loaded(f)[k] = f[k]
      BY <1>3, <2>1, LoadedAsWritten
    <3>2. QED
      BY <3>1 DEF LoadedGlobal, Over
  <2>2. CASE k = Theme
    <3>1. Theme \notin DOMAIN Loaded(f)
      BY LoadedKeys, UnreadAreNoKeys
    <3>2. f[Theme] # Word /\ Theme \in DOMAIN f
      BY <1>3, <2>2 DEF Sensible
    <3>3. QED
      BY <2>2, <3>1, <3>2, ProjectsConstants DEF LoadedGlobal, Over
  <2>3. QED
    BY <2>1, <2>2
<1> HIDE DEF f, file, v
<1>4. ASSUME NEW k \in DOMAIN v, Keeps(Global, k), Sensible(k, v[k]) PROVE k \in DOMAIN file /\ file[k] = v[k]
  <2>1. CASE k \in DOMAIN g
    BY <1>1, <1>2, <2>1
  <2>2. CASE k \notin DOMAIN g
    <3>1. k \in DOMAIN w /\ v[k] = w[k]
      BY <1>2, <1>4, <2>2
    <3>2. k \in DOMAIN f /\ f[k] = w[k]
      BY <1>4, <3>1 DEF Answers, f
    <3>3. QED
      BY <1>1, <1>3, <1>4, <2>2, <3>1, <3>2
  <2>3. QED
    BY <2>1, <2>2
<1>5. DOMAIN file \subseteq DOMAIN v /\ DOMAIN file \subseteq Written /\ Keys \cup {Theme} \subseteq DOMAIN v
  BY <1>1, <1>2 DEF Answers, Written, f
<1>6. QED
  BY <1>4, <1>5 DEF Answers, file, v, f

(* What a patch says is about keys.                                        *)
LEMMA RolePatchKeys ==
  ASSUME NEW r \in Roles, NEW patch \in RolePatches
  PROVE  DOMAIN OfRole(r, patch) \subseteq Keys
BY ConfigurationConstants DEF OfRole, Keys, RoleKeys

LEMMA LoopPatchKeys ==
  ASSUME NEW patch \in LoopPatches
  PROVE  /\ DOMAIN OfLoop(patch) \subseteq Keys /\ Cleared(patch) \subseteq Keys
         /\ DOMAIN Asked(patch) = DOMAIN OfLoop(patch)
<1>1. PICK S \in SUBSET LoopFields : patch \in [S -> Numbers \cup {None}]
  BY DEF LoopPatches
<1>2. DOMAIN patch \subseteq LoopFields
  BY <1>1
<1>3. QED
  BY <1>2 DEF OfLoop, Asked, Cleared, Keys, LoopKeys

(* A number that fits is written as it was asked for.                      *)
NumbersFit == \A n \in Numbers : n < Width

LEMMA WrittenAsAsked ==
  ASSUME NumbersFit, NEW patch \in LoopPatches
  PROVE  OfLoop(patch) = Asked(patch)
<1>1. PICK S \in SUBSET LoopFields : patch \in [S -> Numbers \cup {None}]
  BY DEF LoopPatches
<1>2. \A k \in DOMAIN Asked(patch) : Asked(patch)[k] \in Numbers
  BY <1>1 DEF Asked
<1>3. \A n \in Numbers : n % Width = n
  BY ConfigurationConstants DEF NumbersFit
<1>4. \A k \in DOMAIN Asked(patch) : Asked(patch)[k] % Width = Asked(patch)[k]
  BY <1>2, <1>3
<1>5. QED
  BY <1>4 DEF OfLoop, Asked

(* A file is written.  Of the global one everything has been said, in the  *)
(* beginning by Autome.                                                    *)
WordHolds ==
  /\ DOMAIN said = Scopes /\ Keys \cup {Theme} \subseteq DOMAIN said[Global]
  /\ TheUsersWordHolds

LEMMA WordAnswers ==
  TheUsersWordHolds <=> \A s \in Scopes : Answers(s, cfg[s].set, said[s])
BY DEF TheUsersWordHolds, Answers

LEMMA FileWritten ==
  ASSUME Configured, NEW s \in Scopes, NEW f, DOMAIN f \subseteq Written,
         cfg' = [cfg EXCEPT ![s].set = f]
  PROVE  Configured'
<1>1. IsFile(cfg[s])
  BY DEF Configured
<1>2. /\ DOMAIN cfg' = Scopes /\ cfg'[s] = [ok |-> cfg[s].ok, set |-> f]
      /\ \A x \in Scopes \ {s} : cfg'[x] = cfg[x]
  BY <1>1 DEF Configured, IsFile
<1>3. IsFile(cfg'[s])
  BY <1>1, <1>2 DEF IsFile
<1>4. QED
  BY <1>2, <1>3 DEF Configured

LEMMA WordWritten ==
  ASSUME Configured, WordHolds, NEW s \in Scopes, NEW f, NEW g, Answers(s, f, g),
         s = Global => Keys \cup {Theme} \subseteq DOMAIN g,
         cfg' = [cfg EXCEPT ![s].set = f], said' = [said EXCEPT ![s] = g]
  PROVE  WordHolds'
<1>1. IsFile(cfg[s])
  BY DEF Configured
<1>2. DOMAIN said' = Scopes /\ said'[s] = g /\ \A x \in Scopes \ {s} : said'[x] = said[x]
  BY DEF WordHolds
<1>3. cfg'[s].set = f /\ \A x \in Scopes \ {s} : cfg'[x] = cfg[x]
  BY <1>1 DEF Configured, IsFile
<1>4. \A x \in Scopes : Answers(x, cfg[x].set, said[x])
  BY WordAnswers DEF WordHolds
<1>5. \A x \in Scopes : Answers(x, cfg'[x].set, said'[x])
  BY <1>2, <1>3, <1>4
<1>6. TheUsersWordHolds'
  BY <1>5 DEF TheUsersWordHolds, Answers
<1>7. Keys \cup {Theme} \subseteq DOMAIN said'[Global]
  BY <1>2 DEF WordHolds, Scopes
<1>8. QED
  BY <1>2, <1>6, <1>7 DEF WordHolds

(* A command that says g of the global file, or of a project's file and    *)
(* takes back S.                                                           *)
LEMMA GlobalCommand ==
  ASSUME Configured, NEW g, NEW a, DOMAIN g \subseteq Keys \cup {Theme},
         SaveGlobal(Over(g, LoadedGlobal)), Says(Global, Over(a, said[Global]))
  PROVE  Configured' /\ (WordHolds /\ g = a => WordHolds')
<1> DEFINE f == Over(Over(g, LoadedGlobal), cfg[Global].set)
           w == Over(a, said[Global])
<1>1. Global \in Scopes /\ DOMAIN cfg[Global].set \subseteq Written
  BY DEF Configured, IsFile, Scopes
<1>2. cfg' = [cfg EXCEPT ![Global].set = f] /\ said' = [said EXCEPT ![Global] = w]
  BY DEF SaveGlobal, Says
<1>3. DOMAIN f \subseteq Written
  BY <1>1, GlobalKeys DEF Over, Written
<1>4. ASSUME WordHolds, g = a PROVE Answers(Global, f, w) /\ Keys \cup {Theme} \subseteq DOMAIN w
  <2>1. Answers(Global, cfg[Global].set, said[Global]) /\ Keys \cup {Theme} \subseteq DOMAIN said[Global]
    BY <1>1, <1>4, WordAnswers DEF WordHolds
  <2>2. QED
    BY <1>1, <1>4, <2>1, GlobalAnswers
<1> HIDE DEF f, w
<1>5. Configured'
  BY <1>1, <1>2, <1>3, FileWritten
<1>6. WordHolds /\ g = a => WordHolds'
  BY <1>1, <1>2, <1>4, WordWritten
<1>7. QED
  BY <1>5, <1>6

LEMMA ProjectCommand ==
  ASSUME Configured, NEW p \in Paths, NEW g, NEW a, NEW S, DOMAIN g \subseteq Keys, S \subseteq Keys,
         SaveProject(p, Over(g, Restrict(Loaded(cfg[p].set), DOMAIN Loaded(cfg[p].set) \ S))),
         Says(p, Over(a, Restrict(said[p], DOMAIN said[p] \ S)))
  PROVE  Configured' /\ (WordHolds /\ g = a => WordHolds')
<1> DEFINE over == Over(g, Restrict(Loaded(cfg[p].set), DOMAIN Loaded(cfg[p].set) \ S))
           f == Saved(cfg[p].set, over)
           w == Over(a, Restrict(said[p], DOMAIN said[p] \ S))
<1>1. p \in Scopes /\ p # Global /\ DOMAIN cfg[p].set \subseteq Written
  BY ProjectsConstants DEF Configured, IsFile, Scopes
<1>2. cfg' = [cfg EXCEPT ![p].set = f] /\ said' = [said EXCEPT ![p] = w]
  BY DEF SaveProject, Says
<1>3. DOMAIN f \subseteq Written
  <2>1. DOMAIN over \subseteq Keys
    BY LoadedKeys DEF Over, Restrict
  <2> HIDE DEF over
  <2>2. QED
    BY <1>1, <2>1 DEF Saved, Over, Restrict, Written
<1>4. ASSUME WordHolds, g = a PROVE Answers(p, f, w)
  <2>1. Answers(p, cfg[p].set, said[p])
    BY <1>1, <1>4, WordAnswers DEF WordHolds
  <2>2. QED
    BY <1>1, <1>4, <2>1, OverridesAnswer
<1> HIDE DEF f, w
<1>5. Configured'
  BY <1>1, <1>2, <1>3, FileWritten
<1>6. WordHolds /\ g = a => WordHolds'
  BY <1>1, <1>2, <1>4, WordWritten
<1>7. QED
  BY <1>5, <1>6

(* The commands, and the user's hand.                                      *)
LEMMA ThemeWritten ==
  ASSUME Configured, NEW v, SetTheme(v)
  PROVE  Configured' /\ (WordHolds => WordHolds')
<1>1. DOMAIN Sets(Theme, v) \subseteq Keys \cup {Theme}
  BY DEF Sets
<1>2. QED
  BY <1>1, GlobalCommand DEF SetTheme

LEMMA RoleWritten ==
  ASSUME Configured, NEW r \in Roles, NEW patch \in RolePatches, SetRoleGlobal(r, patch)
  PROVE  Configured' /\ (WordHolds => WordHolds')
<1>1. DOMAIN OfRole(r, patch) \subseteq Keys \cup {Theme}
  BY RolePatchKeys
<1>2. QED
  BY <1>1, GlobalCommand DEF SetRoleGlobal, WithRole

LEMMA LoopWritten ==
  ASSUME Configured, NEW patch \in LoopPatches, SetLoopGlobal(patch)
  PROVE  Configured' /\ (NumbersFit /\ WordHolds => WordHolds')
<1>1. DOMAIN OfLoop(patch) \subseteq Keys \cup {Theme}
  BY LoopPatchKeys
<1>2. Configured' /\ (WordHolds /\ OfLoop(patch) = Asked(patch) => WordHolds')
  BY <1>1, GlobalCommand DEF SetLoopGlobal
<1>3. QED
  BY <1>2, WrittenAsAsked

LEMMA ProjectRoleWritten ==
  ASSUME Configured, NEW p \in Paths, NEW r \in Roles, NEW patch \in RolePatches,
         SetRoleProject(p, r, patch)
  PROVE  Configured' /\ (WordHolds => WordHolds')
<1> DEFINE g == OfRole(r, patch)
<1>1. DOMAIN g \subseteq Keys
  BY RolePatchKeys
<1>2. SaveProject(p, Over(g, Loaded(cfg[p].set))) /\ Says(p, Over(g, said[p]))
  BY DEF SetRoleProject, WithRole
<1> HIDE DEF g
<1> DEFINE S == {}
<1>3. /\ SaveProject(p, Over(g, Restrict(Loaded(cfg[p].set), DOMAIN Loaded(cfg[p].set) \ S)))
      /\ Says(p, Over(g, Restrict(said[p], DOMAIN said[p] \ S)))
  BY <1>2, RestrictNothing
<1>4. S \subseteq Keys
  OBVIOUS
<1> HIDE DEF S
<1>5. QED
  BY <1>1, <1>3, <1>4, ProjectCommand

LEMMA ProjectLoopWritten ==
  ASSUME Configured, NEW p \in Paths, NEW patch \in LoopPatches, SetLoopProject(p, patch)
  PROVE  Configured' /\ (NumbersFit /\ WordHolds => WordHolds')
<1>1. DOMAIN OfLoop(patch) \subseteq Keys /\ Cleared(patch) \subseteq Keys
  BY LoopPatchKeys
<1>2. Configured' /\ (WordHolds /\ OfLoop(patch) = Asked(patch) => WordHolds')
  BY <1>1, ProjectCommand DEF SetLoopProject, WithLoop
<1>3. QED
  BY <1>2, WrittenAsAsked

LEMMA RoleReset ==
  ASSUME Configured, NEW p \in Paths, NEW r \in Roles, ResetRole(p, r)
  PROVE  Configured' /\ (WordHolds => WordHolds')
<1> DEFINE S == {r} \X Fields
<1>1. S \subseteq Keys /\ DOMAIN <<>> \subseteq Keys
  BY DEF Keys, RoleKeys
<1>2. /\ SaveProject(p, Restrict(Loaded(cfg[p].set), DOMAIN Loaded(cfg[p].set) \ S))
      /\ Says(p, Restrict(said[p], DOMAIN said[p] \ S))
  BY DEF ResetRole, WithoutRole
<1> HIDE DEF S
<1>3. /\ SaveProject(p, Over(<<>>, Restrict(Loaded(cfg[p].set), DOMAIN Loaded(cfg[p].set) \ S)))
      /\ Says(p, Over(<<>>, Restrict(said[p], DOMAIN said[p] \ S)))
  BY <1>2, OverNothing
<1>4. QED
  BY <1>1, <1>3, ProjectCommand

LEMMA HandWritten ==
  ASSUME Configured, NEW s \in Scopes, NEW k \in Written, NEW v, HandEdit(s, k, v)
  PROVE  Configured' /\ (WordHolds => WordHolds')
<1> DEFINE f == Over(Sets(k, v), cfg[s].set)
           w == Over(Sets(k, v), said[s])
<1>1. cfg' = [cfg EXCEPT ![s].set = f] /\ said' = [said EXCEPT ![s] = w]
  BY DEF HandEdit, Says
<1>2. DOMAIN f \subseteq Written
  BY DEF Configured, IsFile, Over, Sets
<1>3. ASSUME WordHolds
      PROVE  Answers(s, f, w) /\ (s = Global => Keys \cup {Theme} \subseteq DOMAIN w)
  <2>1. Answers(s, cfg[s].set, said[s])
    BY <1>3, WordAnswers DEF WordHolds
  <2>2. Answers(s, f, w)
    BY <2>1 DEF Answers, Over, Sets
  <2>3. QED
    BY <1>3, <2>2 DEF WordHolds, Over
<1> HIDE DEF f, w
<1>4. QED
  BY <1>1, <1>2, <1>3, FileWritten, WordWritten

(* A typing error leaves what is written alone.                            *)
LEMMA Garbled ==
  ASSUME Configured, NEW s \in Scopes, Garble(s)
  PROVE  Configured' /\ (WordHolds => WordHolds')
<1>1. IsFile(cfg[s]) /\ said' = said /\ cfg' = [cfg EXCEPT ![s].ok = ~cfg[s].ok]
  BY DEF Configured, Garble
<1>2. /\ DOMAIN cfg' = Scopes /\ cfg'[s] = [ok |-> ~cfg[s].ok, set |-> cfg[s].set]
      /\ \A x \in Scopes \ {s} : cfg'[x] = cfg[x]
  BY <1>1 DEF Configured, IsFile
<1>3. IsFile(cfg'[s])
  BY <1>1, <1>2 DEF IsFile
<1>4. \A x \in Scopes : cfg'[x].set = cfg[x].set
  BY <1>2
<1>5. QED
  BY <1>1, <1>2, <1>3, <1>4 DEF Configured, WordHolds, TheUsersWordHolds

---------------------------------------------------------------------------
(* The parts together.                                                     *)

(* A part whose variables stay, stays.                                     *)
LEMMA Untouched ==
  /\ Registered /\ UNCHANGED store => Registered'
  /\ OnDisk /\ UNCHANGED dir => OnDisk'
  /\ Configured /\ UNCHANGED cfg => Configured'
  /\ Configured /\ UNCHANGED <<cfg, said>> => (WordHolds => WordHolds')
  /\ Bounded /\ (UNCHANGED left \/ Edit \/ Rewords) => Bounded'
<1>1. Registered /\ UNCHANGED store => Registered'
  BY DEF store, Registered, Known, Active, Nested
<1>2. Bounded /\ (UNCHANGED left \/ Edit \/ Rewords) => Bounded'
  BY DEF Bounded, Edit, Rewords
<1>3. QED
  BY <1>1, <1>2 DEF OnDisk, Configured, WordHolds, TheUsersWordHolds

(* Where edits are counted, the user's own hand is a step that counts.     *)
LEMMA EditCounts == Bounded /\ Edit => left'.edits # left.edits
BY DEF Bounded, Edit

(* What a step does, given the invariant: it keeps the invariant; it keeps *)
(* the users' files where no edit was counted; it keeps the user's word,   *)
(* where numbers fit.                                                      *)
Kept ==
  /\ Inductive'
  /\ left'.edits = left.edits => KeepsUsersFiles(dir, dir')
  /\ NumbersFit /\ WordHolds => WordHolds'

LEMMA NextKeeps == Inductive /\ [Next]_vars => Kept
<1> SUFFICES ASSUME Inductive, [Next]_vars PROVE Kept
  OBVIOUS
<1> USE DEF Inductive, Kept
<1>0. UNCHANGED dir => KeepsUsersFiles(dir, dir')
  BY DEF KeepsUsersFiles
<1>1. ASSUME NEW p \in Paths, NEW workspace \in BOOLEAN, NEW docs, AddProject(p, workspace, docs)
      PROVE  Kept
  <2>1. Registered'
    <3>1. CASE UNCHANGED store
      BY <3>1, Untouched
    <3>2. CASE ~UNCHANGED store
      <4> DEFINE r == [st |-> "active", id |-> RowId(p), limit |-> LoadedGlobal[<<"loop", "parallel">>],
                       kind |-> IF workspace THEN "workspace" ELSE "repo",
                       docs |-> IF workspace THEN docs ELSE None,
                       members |-> IF workspace THEN Members(Made(p), p) ELSE {},
                       wizard |-> FirstStep]
      <4>1. ~Active(p) /\ ~Nested(p) /\ row' = [row EXCEPT ![p] = r] /\ tasks' = tasks
        BY <1>1, <3>2 DEF AddProject, Acceptable
      <4>2. IsRow(r) /\ r.st = "active" /\ r.id = RowId(p)
        BY DEF IsRow, FirstStep, LastStep, Skipped
      <4> HIDE DEF r
      <4>3. QED
        BY <4>1, <4>2, RowEntered
    <3>3. QED
      BY <3>1, <3>2
  <2>2. OnDisk' /\ KeepsUsersFiles(dir, dir')
    BY <1>1, AddOnDisk
  <2>3. UNCHANGED <<cfg, said, left>>
    BY <1>1 DEF AddProject
  <2>4. QED
    BY <2>1, <2>2, <2>3, Untouched
<1>2. ASSUME NEW p \in Paths, RemoveProject(p) PROVE Kept
  <2>1. UNCHANGED <<dir, cfg, said, left>>
    BY <1>2 DEF RemoveProject
  <2>2. QED
    BY <1>0, <1>2, <2>1, RowLeft, Untouched
<1>3. ASSUME NEW p \in Paths, NEW w \in {Skipped, Advanced(row[p].wizard)}, OnboardingStep(p, w)
      PROVE  Kept
  <2>1. UNCHANGED <<cfg, tasks, said, left>> /\ row' = [row EXCEPT ![p].wizard = w]
    BY <1>3 DEF OnboardingStep
  <2>2. w \in FirstStep..Skipped
    BY DEF Registered, IsRow, Advanced, FirstStep, LastStep, Skipped, Completed
  <2>3. IsRow(row[p]) /\ DOMAIN row = Paths
    BY DEF Registered
  <2>4. /\ DOMAIN row' = Paths /\ \A q \in Paths \ {p} : row'[q] = row[q]
        /\ row'[p] = [row[p] EXCEPT !.wizard = w]
    BY <2>1, <2>3
  <2>5. IsRow(row'[p]) /\ row'[p].st = row[p].st /\ row'[p].id = row[p].id
    BY <2>2, <2>3, <2>4 DEF IsRow
  <2>6. Registered'
    BY <2>1, <2>4, <2>5, RowsKept DEF Registered
  <2>7. QED
    BY <1>3, <2>1, <2>6, StepOnDisk, Untouched
<1>4. ASSUME NEW p \in Paths, OnboardingRun(p) \/ OnboardingSave(p) PROVE Kept
  <2>1. Edit /\ UNCHANGED <<cfg, store, said>> /\ dir[p].st = "dir"
    BY <1>4 DEF OnboardingRun, OnboardingSave
  <2>2. PICK c \in SUBSET Parts : dir' = [dir EXCEPT ![p].files["AGENTS.md"] = c]
    <3>1. dir[p].files["AGENTS.md"] \in SUBSET Parts
      BY DEF OnDisk, Sound, Directories, Files
    <3>2. QED
      BY <1>4, <3>1 DEF OnboardingRun, OnboardingSave, Parts
  <2>3. OnDisk'
    BY <2>1, <2>2, AgentsOnDisk
  <2>4. QED
    BY <2>1, <2>3, Untouched, EditCounts
<1>5. ASSUME NEW p \in Paths, TaskCreate(p) PROVE Kept
  <2>1. UNCHANGED <<dir, cfg, said>> /\ Bounded'
    BY <1>5 DEF TaskCreate, Bounded
  <2>2. QED
    BY <1>0, <1>5, <2>1, TaskCreated, Untouched
<1>6. ASSUME NEW p \in Paths, Meddle(p) PROVE Kept
  <2>1. Edit /\ UNCHANGED <<cfg, store, said>>
    BY <1>6 DEF Meddle
  <2>2. QED
    BY <1>6, <2>1, MeddleOnDisk, Untouched, EditCounts
<1>7. ASSUME NEW i \in DOMAIN tasks, TaskEnds(i) PROVE Kept
  <2>1. UNCHANGED <<dir, cfg, said, left>>
    BY <1>7 DEF TaskEnds
  <2>2. QED
    BY <1>0, <1>7, <2>1, TaskEnded, Untouched
<1>8. ASSUME NEW p \in Paths, NEW r \in Roles, ResetRole(p, r) PROVE Kept
  <2>1. Rewords /\ UNCHANGED <<dir, store>>
    BY <1>8 DEF ResetRole
  <2>2. QED
    BY <1>0, <1>8, <2>1, RoleReset, Untouched
<1>9. ASSUME NEW p \in Paths, NEW r \in Roles, NEW patch \in RolePatches, SetRoleProject(p, r, patch)
      PROVE  Kept
  <2>1. Rewords /\ UNCHANGED <<dir, store>>
    BY <1>9 DEF SetRoleProject
  <2>2. QED
    BY <1>0, <1>9, <2>1, ProjectRoleWritten, Untouched
<1>10. ASSUME NEW p \in Paths, NEW patch \in LoopPatches, SetLoopProject(p, patch) PROVE Kept
  <2>1. Rewords /\ UNCHANGED <<dir, tasks>> /\ \E n : row' = [row EXCEPT ![p].limit = n]
    BY <1>10 DEF SetLoopProject
  <2>2. PICK n : row' = [row EXCEPT ![p].limit = n]
    BY <2>1
  <2>3. IsRow(row[p]) /\ DOMAIN row = Paths
    BY DEF Registered
  <2>4. /\ DOMAIN row' = Paths /\ \A q \in Paths \ {p} : row'[q] = row[q]
        /\ row'[p] = [row[p] EXCEPT !.limit = n]
    BY <2>2, <2>3
  <2>5. IsRow(row'[p]) /\ row'[p].st = row[p].st /\ row'[p].id = row[p].id
    BY <2>3, <2>4 DEF IsRow
  <2>6. Registered'
    BY <2>1, <2>4, <2>5, RowsKept DEF Registered
  <2>7. QED
    BY <1>0, <1>10, <2>1, <2>6, ProjectLoopWritten, Untouched
<1>11. ASSUME NEW v, SetTheme(v) PROVE Kept
  <2>1. Rewords /\ UNCHANGED <<dir, store>>
    BY <1>11 DEF SetTheme
  <2>2. QED
    BY <1>0, <1>11, <2>1, ThemeWritten, Untouched
<1>12. ASSUME NEW r \in Roles, NEW patch \in RolePatches, SetRoleGlobal(r, patch) PROVE Kept
  <2>1. Rewords /\ UNCHANGED <<dir, store>>
    BY <1>12 DEF SetRoleGlobal
  <2>2. QED
    BY <1>0, <1>12, <2>1, RoleWritten, Untouched
<1>13. ASSUME NEW patch \in LoopPatches, SetLoopGlobal(patch) PROVE Kept
  <2>1. Rewords /\ UNCHANGED <<dir, store>>
    BY <1>13 DEF SetLoopGlobal
  <2>2. QED
    BY <1>0, <1>13, <2>1, LoopWritten, Untouched
<1>14. ASSUME NEW s \in Scopes, Garble(s) PROVE Kept
  <2>1. (Rewords \/ UNCHANGED left) /\ UNCHANGED <<dir, store>>
    BY <1>14 DEF Garble
  <2>2. QED
    BY <1>0, <1>14, <2>1, Garbled, Untouched
<1>15. ASSUME NEW s \in Scopes, NEW word \in Scribbled, HandEdit(s, word[1], word[2]) PROVE Kept
  <2>1. Rewords /\ UNCHANGED <<dir, store>>
    BY <1>15 DEF HandEdit
  <2>2. word[1] \in Written
    BY DEF Scribbled, Written, Keys
  <2>3. QED
    BY <1>0, <1>15, <2>1, <2>2, HandWritten, Untouched
<1>16. CASE UNCHANGED vars
  BY <1>0, <1>16, Untouched DEF vars
<1>17. QED
  BY <1>1, <1>2, <1>3, <1>4, <1>5, <1>6, <1>7, <1>8, <1>9, <1>10, <1>11, <1>12, <1>13, <1>14, <1>15,
     <1>16 DEF Next

(* Things begin that way, and the files say what the user is taken to have *)
(* said.                                                                   *)
LEMMA InitIsInductive == Init => Inductive /\ WordHolds
<1> SUFFICES ASSUME Init PROVE Inductive /\ WordHolds
  OBVIOUS
<1>1. PICK s \in Starts :
        /\ dir = s.dir /\ left = [tasks |-> s.tasks, edits |-> s.edits, words |-> s.words]
        /\ cfg = [x \in Scopes |->
                    [ok  |-> TRUE,
                     set |-> IF x = Global THEN Shipped ELSE IF s.dir[x].repo THEN s.over ELSE <<>>]]
  BY DEF Init
<1>2. OnDisk /\ Bounded
  BY <1>1, StartsConstants DEF OnDisk, Sound, Bounded
<1>3. Configured
  <2>1. DOMAIN Shipped = Keys \cup {Theme} /\ DOMAIN s.over \subseteq Keys \cup Unread /\ DOMAIN <<>> = {}
    BY <1>1, ProjectsConstants, StartsConstants
  <2>2. QED
    BY <1>1, <2>1 DEF Configured, IsFile, Written
<1>4. Registered
  <2>1. row = [p \in Paths |-> NoRow] /\ tasks = <<>> /\ DOMAIN tasks = {} /\ tasks \in Seq(Tasks)
    BY DEF Init
  <2>2. IsRow(NoRow) /\ NoRow.st = "none"
    BY DEF IsRow, NoRow, FirstStep, LastStep, Skipped
  <2>3. Known = {} /\ \A p \in Paths : ~Active(p)
    BY <2>1, <2>2 DEF Known, Active
  <2>4. QED
    BY <2>1, <2>2, <2>3 DEF Registered
<1>5. WordHolds
  <2>1. said = [x \in Scopes |-> cfg[x].set] /\ Global \in Scopes
    BY DEF Init, Scopes
  <2>2. DOMAIN said[Global] = Keys \cup {Theme}
    BY <1>1, <2>1, ProjectsConstants
  <2>3. QED
    BY <2>1, <2>2 DEF WordHolds, TheUsersWordHolds
<1>6. QED
  BY <1>2, <1>3, <1>4, <1>5 DEF Inductive

THEOREM AlwaysInductive == Spec => []Inductive
<1>1. Inductive /\ [Next]_vars => Inductive'
  BY NextKeeps DEF Kept
<1>2. QED
  BY <1>1, InitIsInductive, PTL DEF Spec

(* What is registered stays apart from what else is registered, a task's   *)
(* project is a row and the same one whatever was removed and added again, *)
(* and two tasks of one path never share a slug: for any directories, any  *)
(* number of tasks and edits, and whatever fails.                          *)
THEOREM RegistryStaysSound == Spec => []RegistryIsSound
<1>1. Inductive => TypeOK
  <2>1. ASSUME Inductive, NEW p \in Paths
        PROVE  /\ dir[p].st \in {"absent", "dir", "file"}
               /\ \A f \in Files : dir[p].files[f] \subseteq Parts
               /\ row[p].wizard \in FirstStep..Skipped
    BY <2>1 DEF Inductive, OnDisk, Sound, Directories, Registered, IsRow
  <2>2. QED
    BY <2>1 DEF TypeOK, Inductive, Configured, IsFile, Bounded
<1>2. Inductive => RegistryIsSound
  BY <1>1 DEF Inductive, Registered, RegistryIsSound
<1>3. QED
  BY <1>2, AlwaysInductive, PTL

(* A running task's project stays registered, and stays what it is.        *)
THEOREM ShapeIsKept == Spec => ShapeHolds
<1> DEFINE Shape(i) == LET p == tasks[i].at
                       IN /\ row'[p].st = "active"
                          /\ <<row'[p].kind, row'[p].docs, row'[p].members>>
                               = <<row[p].kind, row[p].docs, row[p].members>>
<1>1. ASSUME Inductive, [Next]_vars, NEW i \in DOMAIN tasks, ~tasks[i].over PROVE Shape(i)
  <2> DEFINE q == tasks[i].at
  <2>1. q \in Known /\ q \in Paths /\ Active(q) /\ i \in TasksOf(q)
    BY <1>1 DEF Inductive, Registered, Known, TasksOf
  <2>2. row[q].st = "active" /\ IsRow(row[q]) /\ DOMAIN row = Paths
    BY <1>1, <2>1 DEF Inductive, Registered, Active
  <2> HIDE DEF q
  <2>3. SUFFICES /\ row'[q].st = "active" /\ row'[q].kind = row[q].kind /\ row'[q].docs = row[q].docs
                 /\ row'[q].members = row[q].members
    BY DEF q
  <2>4. CASE row' = row
    BY <2>2, <2>4
  <2>5. ASSUME NEW p \in Paths, NEW r, p # q, row' = [row EXCEPT ![p] = r] PROVE row'[q] = row[q]
    BY <2>1, <2>2, <2>5
  <2>6. ASSUME NEW p \in Paths, NEW workspace, NEW docs, AddProject(p, workspace, docs)
        PROVE  row'[q] = row[q]
    <3>1. CASE UNCHANGED store
      BY <3>1 DEF store
    <3>2. CASE ~UNCHANGED store
      <4>1. ~Active(p) /\ \E r : row' = [row EXCEPT ![p] = r]
        BY <2>6, <3>2 DEF AddProject, Acceptable
      <4>2. QED
        BY <4>1, <2>1, <2>5
    <3>3. QED
      BY <3>1, <3>2
  <2>7. ASSUME NEW p \in Paths, RemoveProject(p) PROVE row'[q] = row[q]
    <3>1. p # q
      BY <1>1, <2>1, <2>7 DEF RemoveProject
    <3>2. \E r : row' = [row EXCEPT ![p] = r]
      BY <2>7 DEF RemoveProject
    <3>3. QED
      BY <3>1, <3>2, <2>5
  <2>8. ASSUME NEW p \in Paths, NEW w, OnboardingStep(p, w) \/ \E patch \in LoopPatches : SetLoopProject(p, patch)
        PROVE  /\ row'[q].st = "active" /\ row'[q].kind = row[q].kind /\ row'[q].docs = row[q].docs
               /\ row'[q].members = row[q].members
    <3>1. \/ row' = [row EXCEPT ![p].wizard = w]
          \/ \E n : row' = [row EXCEPT ![p].limit = n]
      BY <2>8 DEF OnboardingStep, SetLoopProject
    <3>2. QED
      BY <3>1, <2>1, <2>2 DEF IsRow
  <2>9. \/ row' = row
        \/ \E p \in Paths : \/ \E workspace, docs : AddProject(p, workspace, docs)
                            \/ RemoveProject(p)
                            \/ \E w : OnboardingStep(p, w)
                            \/ \E patch \in LoopPatches : SetLoopProject(p, patch)
    BY <1>1 DEF Next, vars, store, OnboardingRun, OnboardingSave, TaskCreate, Meddle, ResetRole,
                SetRoleProject, TaskEnds, SetTheme, SetRoleGlobal, SetLoopGlobal, Garble, HandEdit
  <2>10. QED
    BY <2>2, <2>4, <2>6, <2>7, <2>8, <2>9
<1>2. Inductive /\ [Next]_vars =>
        [\A i \in DOMAIN tasks : ~tasks[i].over => Shape(i)]_vars
  BY <1>1
<1>3. QED
  BY <1>2, AlwaysInductive, PTL DEF Spec, ShapeHolds

(* Only what users do themselves touches what users made.                  *)
THEOREM FilesStayTheUsers == Spec => UsersFilesKept
<1>1. Inductive /\ [Next]_vars =>
        [left'.edits = left.edits =>
           \A p \in Paths, f \in Files :
             /\ "users" \in dir[p].files[f] => "users" \in dir'[p].files[f]
             /\ "link" \in dir[p].files[f] => dir'[p].files[f] = dir[p].files[f]
             /\ f \in {"wrapper", "rules"} /\ dir[p].files[f] = {"users"} => dir'[p].files[f] = {"users"}]_vars
  BY NextKeeps DEF Kept, KeepsUsersFiles
<1>2. QED
  BY <1>1, AlwaysInductive, PTL DEF Spec, UsersFilesKept

(* The files say what the user last said, where no number a user asks for  *)
(* is cut to its width: one that is cut is stored as another number.       *)
THEOREM WordIsWritten ==
  ASSUME NumbersFit
  PROVE  Spec => []TheUsersWordHolds
<1>1. Inductive /\ WordHolds /\ [Next]_vars => WordHolds'
  BY NextKeeps, NumbersFit DEF Kept
<1>2. WordHolds => TheUsersWordHolds
  BY DEF WordHolds
<1>3. QED
  BY <1>1, <1>2, InitIsInductive, AlwaysInductive, PTL DEF Spec
=============================================================================
