--------------------------- MODULE CurationProofs ---------------------------
(***************************************************************************)
(* Versions and curation, for any tasks, builds, lessons, wordings and     *)
(* beginnings: a task is held to one text of the rules and counted under   *)
(* its version; a rule Autome wrote has its row; an answer stands; and     *)
(* what is offered for removal has been quiet and was never tried.  Last,  *)
(* the kernel contract a version has to leave as it is.                    *)
(***************************************************************************)
EXTENDS Curation, Integers, Sequences, FiniteSetTheorems, WellFoundedInduction, TLAPS

---------------------------------------------------------------------------
(* The rules a task is held to.                                            *)

Fields ==
  {"st", "running", "ref", "copy", "closed", "taken", "broken", "metrics", "lessons", "nth",
   "sessions", "edited", "warned"}
IsTask(t) == t = [f \in Fields |-> t[f]]

(* A session's version is a hash of what it read.                          *)
ReadAsHashed(t) == \A s \in t.sessions : s.ref.hash.text = s.text

(* The version is recorded with the first session, and the copy is what it *)
(* was taken over, until somebody edits it.                                *)
RecordedFirst(t) ==
  /\ t.ref = None <=> t.sessions = {}
  /\ t.ref # None => t.ref = [tag |-> t.ref.tag, hash |-> t.ref.hash]
  /\ ~t.edited /\ t.ref # None =>
       /\ t.copy # None /\ t.copy.text = t.ref.hash.text
       /\ \A s \in t.sessions : s.text = t.ref.hash.text

(* What was measured was measured under the version that is recorded.      *)
MeasuredUnder(t) == t.metrics # None /\ t.metrics.ref # None => t.metrics.ref = t.ref

Held(t) == IsTask(t) /\ ReadAsHashed(t) /\ RecordedFirst(t) /\ MeasuredUnder(t)

AllHeld == DOMAIN task = Tasks /\ (\A i \in Tasks : Held(task[i])) /\ build \in DOMAIN Builds

(* One task changes.                                                       *)
LEMMA OneTask ==
  ASSUME AllHeld, NEW i \in Tasks, NEW t, Held(t), Set(i, t), UNCHANGED build
  PROVE  AllHeld'
<1>1. DOMAIN task' = Tasks /\ task'[i] = t /\ \A j \in Tasks \ {i} : task'[j] = task[j]
  BY DEF AllHeld, Set
<1>2. QED
  BY <1>1 DEF AllHeld

(* The current version, and the copy of what is embedded.                  *)
LEMMA OneFile ==
  ASSUME NEW x, NEW y, NEW z
  PROVE  [[text |-> x, evals |-> y] EXCEPT !.evals = z] = [text |-> x, evals |-> z]
OBVIOUS

LEMMA BuildIs ==
  ASSUME build \in DOMAIN Builds
  PROVE  /\ Current # None /\ Current.hash.text = Builds[build].text
         /\ Current = [tag |-> Current.tag, hash |-> Current.hash]
         /\ Embedded.text = Builds[build].text
         /\ Copied(Embedded) # None /\ Copied(Embedded).text = Builds[build].text
<1>1. /\ Embedded = [text |-> Builds[build].text, evals |-> TRUE]
      /\ Copied(Embedded) = [text |-> Builds[build].text, evals |-> FALSE]
      /\ Current = [tag |-> Builds[build].tag, hash |-> [text |-> Builds[build].text, evals |-> TRUE]]
  BY OneFile DEF Embedded, Copied, Current, Hash
<1>2. QED
  BY <1>1, StartsConstants

(* What leaves the version, the copy and the sessions alone.               *)
LEMMA Elsewhere ==
  ASSUME NEW t, Held(t), NEW u, IsTask(u), u.ref = t.ref, u.copy = t.copy, u.sessions = t.sessions,
         u.edited = t.edited, u.metrics = t.metrics \/ u.metrics.ref = t.ref
  PROVE  Held(u)
BY DEF Held, ReadAsHashed, RecordedFirst, MeasuredUnder

LEMMA FirstHolds ==
  ASSUME AllHeld, NEW i \in Tasks, StartFirst(i)
  PROVE  AllHeld'
<1> DEFINE t == task[i]
           f == Frozen(t)
<1>1. Held(t) /\ ~Kept(t) /\ UNCHANGED build /\ build \in DOMAIN Builds
  BY DEF AllHeld, StartFirst
<1>2. t.edited \/ t.ref = None
  BY <1>1 DEF Held, RecordedFirst, Kept
<1>3. /\ IsTask(f) /\ f.copy = Copied(Embedded) /\ f.ref = t.ref /\ f.sessions = t.sessions
      /\ f.edited = t.edited /\ f.metrics = t.metrics
  BY <1>1 DEF Held, IsTask, Fields, Frozen
<1>4. CASE Set(i, Started([f EXCEPT !.ref = IF @ = None THEN Current ELSE @], Current, Embedded))
  <2> DEFINE s == Session(f, Current, Embedded)
             u == Started([f EXCEPT !.ref = IF @ = None THEN Current ELSE @], Current, Embedded)
  <2>1. s.ref = Current /\ s.text = Embedded.text
    BY DEF Session
  <2>2. /\ IsTask(u) /\ u.ref = (IF t.ref = None THEN Current ELSE t.ref) /\ u.copy = Copied(Embedded)
        /\ u.sessions = t.sessions \cup {s} /\ u.edited = t.edited /\ u.metrics = t.metrics
    BY <1>3 DEF IsTask, Fields, Started, Session
  <2> HIDE DEF u, s
  <2>3. s.ref.hash.text = s.text
    BY <2>1, <1>1, BuildIs
  <2>4. ReadAsHashed(u)
    BY <2>2, <2>3, <1>1 DEF Held, ReadAsHashed
  <2>5. u.ref # None /\ u.sessions # {}
    BY <2>2, <1>1, BuildIs
  <2>6. ~u.edited =>
          /\ u.copy # None /\ u.copy.text = u.ref.hash.text
          /\ \A x \in u.sessions : x.text = u.ref.hash.text
    <3>1. SUFFICES ASSUME ~u.edited
                   PROVE  /\ u.copy # None /\ u.copy.text = u.ref.hash.text
                          /\ \A x \in u.sessions : x.text = u.ref.hash.text
      OBVIOUS
    <3>2. t.ref = None /\ t.sessions = {} /\ u.ref = Current
      BY <3>1, <2>2, <1>1, <1>2 DEF Held, RecordedFirst
    <3>3. QED
      BY <3>2, <2>1, <2>2, <1>1, BuildIs
  <2>7. MeasuredUnder(u)
    BY <2>2, <1>1 DEF Held, MeasuredUnder
  <2>10. u.ref = [tag |-> u.ref.tag, hash |-> u.ref.hash]
    BY <2>2, <1>1, BuildIs DEF Held, RecordedFirst
  <2>8. Held(u)
    BY <2>2, <2>4, <2>5, <2>6, <2>7, <2>10 DEF Held, RecordedFirst
  <2>9. QED
    BY <1>1, <1>4, <2>8, OneTask DEF u
<1>5. CASE Set(i, [f EXCEPT !.st = "failed"]) \/ Set(i, [f EXCEPT !.st = "active"])
  <2>1. PICK st : Set(i, [f EXCEPT !.st = st])
    BY <1>5
  <2> DEFINE u == [f EXCEPT !.st = st]
  <2>2. /\ IsTask(u) /\ u.copy = Copied(Embedded) /\ u.ref = t.ref /\ u.sessions = t.sessions
        /\ u.edited = t.edited /\ u.metrics = t.metrics
    BY <1>3 DEF IsTask, Fields
  <2> HIDE DEF u
  <2>3. Held(u)
    BY <2>2, <1>1, <1>2 DEF Held, ReadAsHashed, RecordedFirst, MeasuredUnder
  <2>4. QED
    BY <1>1, <2>1, <2>3, OneTask DEF u
<1>6. QED
  BY <1>4, <1>5 DEF StartFirst

LEMMA AgainHolds ==
  ASSUME AllHeld, NEW i \in Tasks, StartAgain(i)
  PROVE  AllHeld'
<1> DEFINE t == task[i]
           r == [t.ref EXCEPT !.hash = Hash(t.copy)]
           v == Started(t, r, t.copy)
           u == [v EXCEPT !.warned = @ \/ Hash(t.copy) # t.ref.hash]
           s == Session(t, r, t.copy)
<1>1. Held(t) /\ Kept(t) /\ UNCHANGED build /\ Set(i, u)
  BY DEF AllHeld, StartAgain
<1>2. IsTask(v)
  BY <1>1 DEF Held, IsTask, Fields, Started
<1>3. /\ IsTask(u) /\ u.ref = t.ref /\ u.copy = t.copy /\ u.sessions = t.sessions \cup {s}
      /\ u.edited = t.edited /\ u.metrics = t.metrics
  BY <1>1, <1>2 DEF Held, IsTask, Fields, Started, Session
<1>4. s.text = t.copy.text /\ s.ref = r
  BY DEF Session
<1>5. t.ref = [tag |-> t.ref.tag, hash |-> t.ref.hash]
  BY <1>1 DEF Held, RecordedFirst, Kept
<1>6. r.hash = t.copy
  BY <1>5 DEF Hash
<1> HIDE DEF u, v, r, s
<1>7. ReadAsHashed(u)
  BY <1>1, <1>3, <1>4, <1>6 DEF Held, ReadAsHashed
<1>8. RecordedFirst(u)
  BY <1>1, <1>3, <1>4 DEF Held, RecordedFirst, Kept
<1>9. MeasuredUnder(u)
  BY <1>1, <1>3 DEF Held, MeasuredUnder
<1>10. QED
  BY <1>1, <1>3, <1>7, <1>8, <1>9, OneTask DEF Held

LEMMA EditHolds ==
  ASSUME AllHeld, NEW i \in Tasks, EditCopy(i)
  PROVE  AllHeld'
<1>1. PICK c : Set(i, [task[i] EXCEPT !.copy = c, !.edited = TRUE])
  BY DEF EditCopy
<1> DEFINE t == task[i]
           u == [t EXCEPT !.copy = c, !.edited = TRUE]
<1>2. Held(t) /\ UNCHANGED build
  BY DEF AllHeld, EditCopy
<1>3. /\ IsTask(u) /\ u.ref = t.ref /\ u.sessions = t.sessions /\ u.edited = TRUE
      /\ u.metrics = t.metrics
  BY <1>2 DEF Held, IsTask, Fields
<1> HIDE DEF u
<1>4. Held(u)
  BY <1>2, <1>3 DEF Held, ReadAsHashed, RecordedFirst, MeasuredUnder
<1>5. QED
  BY <1>1, <1>2, <1>4, OneTask DEF u

LEMMA RoundHolds ==
  ASSUME AllHeld, NEW i \in Tasks, RoundEnds(i)
  PROVE  AllHeld'
<1>1. Held(task[i]) /\ UNCHANGED build
  BY DEF AllHeld, RoundEnds
<1>2. PICK n, c : Set(i, [task[i] EXCEPT !.running = FALSE, !.taken = n, !.closed = c])
  <2>1. PICK n, b : LET counted == [task[i] EXCEPT !.running = FALSE, !.taken = n]
                    IN  Set(i, [counted EXCEPT !.closed = b]) \/ Set(i, counted)
    BY DEF RoundEnds
  <2>2. /\ [[task[i] EXCEPT !.running = FALSE, !.taken = n] EXCEPT !.closed = b]
             = [task[i] EXCEPT !.running = FALSE, !.taken = n, !.closed = b]
        /\ [task[i] EXCEPT !.running = FALSE, !.taken = n]
             = [task[i] EXCEPT !.running = FALSE, !.taken = n, !.closed = task[i].closed]
    BY <1>1 DEF Held, IsTask, Fields
  <2>3. QED
    BY <2>1, <2>2
<1> DEFINE u == [task[i] EXCEPT !.running = FALSE, !.taken = n, !.closed = c]
<1>3. /\ IsTask(u) /\ u.ref = task[i].ref /\ u.copy = task[i].copy /\ u.sessions = task[i].sessions
      /\ u.edited = task[i].edited /\ u.metrics = task[i].metrics
  BY <1>1 DEF Held, IsTask, Fields
<1> HIDE DEF u
<1>4. QED
  BY <1>1, <1>2, <1>3, Elsewhere, OneTask DEF u

LEMMA RetroHolds ==
  ASSUME AllHeld, NEW i \in Tasks, RetroEnds(i)
  PROVE  AllHeld'
<1>1. Held(task[i]) /\ UNCHANGED build
  BY DEF AllHeld, RetroEnds
<1>2. PICK l : Set(i, [task[i] EXCEPT !.lessons = l, !.running = FALSE])
  BY DEF RetroEnds
<1> DEFINE u == [task[i] EXCEPT !.lessons = l, !.running = FALSE]
<1>3. /\ IsTask(u) /\ u.ref = task[i].ref /\ u.copy = task[i].copy /\ u.sessions = task[i].sessions
      /\ u.edited = task[i].edited /\ u.metrics = task[i].metrics
  BY <1>1 DEF Held, IsTask, Fields
<1> HIDE DEF u
<1>4. QED
  BY <1>1, <1>2, <1>3, Elsewhere, OneTask DEF u

(* A task is measured under the version it has.                            *)
LEMMA MeasureHolds ==
  ASSUME AllHeld, UNCHANGED build, NEW i \in Tasks, NEW t, Held(t), NEW states, Measured(i, t, states)
  PROVE  AllHeld'
<1>1. PICK st, counts :
        Set(i, [t EXCEPT !.st = st, !.running = FALSE, !.metrics = Measure(t, counts)])
  BY DEF Measured
<1> DEFINE u == [t EXCEPT !.st = st, !.running = FALSE, !.metrics = Measure(t, counts)]
<1>2. /\ IsTask(u) /\ u.ref = t.ref /\ u.copy = t.copy /\ u.sessions = t.sessions
      /\ u.edited = t.edited /\ u.metrics.ref = t.ref
  BY DEF Held, IsTask, Fields, Measure
<1> HIDE DEF u
<1>3. QED
  BY <1>1, <1>2, Elsewhere, OneTask DEF u

LEMMA EndHolds ==
  ASSUME AllHeld, NEW i \in Tasks, ProtocolFails(i) \/ Leaves(i) \/ Done(i) \/ Retry(i)
  PROVE  AllHeld'
<1>1. Held(task[i]) /\ UNCHANGED build
  BY DEF AllHeld, ProtocolFails, Leaves, Done, Retry
<1>2. CASE ProtocolFails(i)
  <2> DEFINE t == [task[i] EXCEPT !.broken = @ + 1]
  <2>1. /\ IsTask(t) /\ t.ref = task[i].ref /\ t.copy = task[i].copy
        /\ t.sessions = task[i].sessions /\ t.edited = task[i].edited
        /\ t.metrics = task[i].metrics
    BY <1>1 DEF Held, IsTask, Fields
  <2>2. Measured(i, t, {"failed"})
    BY <1>2 DEF ProtocolFails
  <2> HIDE DEF t
  <2>3. QED
    BY <1>1, <2>1, <2>2, Elsewhere, MeasureHolds
<1>3. CASE Leaves(i)
  BY <1>1, <1>3, MeasureHolds DEF Leaves
<1>4. CASE Done(i) \/ Retry(i)
  <2>1. PICK st, n : Set(i, [task[i] EXCEPT !.st = st, !.nth = n])
    <3>1. [task[i] EXCEPT !.st = "active"] = [task[i] EXCEPT !.st = "active", !.nth = task[i].nth]
      BY <1>1 DEF Held, IsTask, Fields
    <3>2. QED
      BY <1>4, <3>1 DEF Done, Retry
  <2> DEFINE u == [task[i] EXCEPT !.st = st, !.nth = n]
  <2>2. /\ IsTask(u) /\ u.ref = task[i].ref /\ u.copy = task[i].copy
        /\ u.sessions = task[i].sessions /\ u.edited = task[i].edited
        /\ u.metrics = task[i].metrics
    BY <1>1 DEF Held, IsTask, Fields
  <2> HIDE DEF u
  <2>3. QED
    BY <1>1, <2>1, <2>2, Elsewhere, OneTask DEF u
<1>5. QED
  BY <1>2, <1>3, <1>4

LEMMA TasksAlone ==
  ASSUME AllHeld, UNCHANGED taskSide
  PROVE  AllHeld'
BY DEF AllHeld, Held, IsTask, ReadAsHashed, RecordedFirst, MeasuredUnder, taskSide

LEMMA TasksHold ==
  ASSUME AllHeld, TaskStep
  PROVE  AllHeld'
<1>1. CASE Upgrade
  <2>1. build' \in DOMAIN Builds
    BY <1>1, VersionsConstants DEF Upgrade, AllHeld
  <2>2. QED
    BY <1>1, <2>1 DEF Upgrade, AllHeld
<1>2. CASE \E i \in Tasks : \/ StartAgain(i) \/ StartFirst(i) \/ EditCopy(i)
                            \/ RoundEnds(i) \/ RetroEnds(i) \/ ProtocolFails(i)
                            \/ Leaves(i) \/ Done(i) \/ Retry(i)
  BY <1>2, AgainHolds, FirstHolds, EditHolds, RoundHolds, RetroHolds, EndHolds
<1>3. QED
  BY <1>1, <1>2 DEF TaskStep

LEMMA TasksBegin ==
  ASSUME NEW s \in Starts, TaskInit(s)
  PROVE  AllHeld
<1>1. build \in DOMAIN Builds
  BY VersionsConstants DEF TaskInit
<1>2. ASSUME NEW i \in Tasks PROVE Held(task[i])
  <2> DEFINE t == task[i]
  <2>1. Begun(t)
    BY StartsConstants DEF TaskInit
  <2>2. /\ IsTask(t) /\ t.ref = None /\ t.copy = None /\ t.sessions = {} /\ t.edited = FALSE
        /\ t.metrics # None => t.metrics.ref = None
    BY <2>1 DEF Begun, NewTask, IsTask, Fields
  <2>3. QED
    BY <2>2 DEF Held, ReadAsHashed, RecordedFirst, MeasuredUnder
<1>3. QED
  BY <1>1, <1>2, StartsConstants DEF TaskInit, AllHeld

(* The texts of a task nobody touched the copy of.                         *)
LEMMA OneText ==
  ASSUME NEW t, Held(t), ~t.edited, t.ref # None
  PROVE  {s.text : s \in t.sessions} = {t.ref.hash.text}
BY DEF Held, RecordedFirst

LEMMA HeldIsFrozen ==
  ASSUME AllHeld
  PROVE  RulesAreFrozen
<1>1. ASSUME NEW i \in Tasks, ~task[i].edited
      PROVE  Cardinality({s.text : s \in task[i].sessions}) <= 1
  <2>1. Held(task[i])
    BY DEF AllHeld
  <2>2. CASE task[i].ref = None
    <3>1. {s.text : s \in task[i].sessions} = {}
      BY <2>1, <2>2 DEF Held, RecordedFirst
    <3>2. QED
      BY <3>1, FS_EmptySet
  <2>3. CASE task[i].ref # None
    <3>1. {s.text : s \in task[i].sessions} = {task[i].ref.hash.text}
      BY <1>1, <2>1, <2>3, OneText
    <3>2. Cardinality({task[i].ref.hash.text}) = 1
      BY FS_Singleton
    <3>3. QED
      BY <3>1, <3>2
  <2>4. QED
    BY <2>2, <2>3
<1>2. \A i \in Tasks : \A s \in task[i].sessions : s.ref.hash.text = s.text
  BY DEF AllHeld, Held, ReadAsHashed
<1>3. ASSUME NEW r \in Rows, NEW i \in r, NEW j \in r, ~task[i].edited, ~task[j].edited
      PROVE  {s.text : s \in task[i].sessions} = {s.text : s \in task[j].sessions}
  <2>1. /\ i \in Tasks /\ j \in Tasks
        /\ task[i].metrics # None /\ task[i].metrics.ref # None
        /\ task[j].metrics # None /\ task[j].metrics.ref = task[i].metrics.ref
    BY DEF Rows, Attributed, RowOf
  <2>2. Held(task[i]) /\ Held(task[j])
    BY <2>1 DEF AllHeld
  <2>3. task[i].ref # None /\ task[j].ref = task[i].ref
    BY <2>1, <2>2 DEF Held, MeasuredUnder
  <2>4. QED
    BY <1>3, <2>2, <2>3, OneText
<1>4. QED
  BY <1>1, <1>2, <1>3 DEF RulesAreFrozen

---------------------------------------------------------------------------
(* Numbers and sequences.                                                  *)

(* Numbers are well-ordered.                                               *)
LEMMA LeastNumber ==
  ASSUME NEW T, T \subseteq Nat, T # {}
  PROVE  \E x \in T : \A y \in T : x <= y
<1> DEFINE U == {1..n : n \in T}
<1>1. U \subseteq FiniteSubsetsOf(Nat) /\ U # {}
  <2>1. ASSUME NEW n \in T PROVE IsFiniteSet(1..n) /\ 1..n \subseteq Nat
    BY FS_Interval
  <2>2. QED
    BY <2>1 DEF FiniteSubsetsOf
<1>2. PICK u \in U : \A v \in U : <<v, u>> \notin StrictSubsetOrdering(Nat)
  <2> HIDE DEF U
  <2> QED
    BY <1>1, WFMin, FS_StrictSubsetOrderingWellFounded
<1>3. PICK x \in T : u = 1..x
  OBVIOUS
<1>4. ASSUME NEW y \in T, ~(x <= y) PROVE FALSE
  <2>1. 1..y \subseteq 1..x /\ x \notin 1..y /\ x \in 1..x
    BY <1>4
  <2>2. <<1..y, u>> \in StrictSubsetOrdering(Nat)
    BY <1>3, <2>1, 1..y # 1..x DEF StrictSubsetOrdering
  <2>3. QED
    BY <1>2, <2>2
<1>5. QED
  BY <1>4

(* What holds at 0 and is handed on holds up to N.                         *)
LEMMA UpTo ==
  ASSUME NEW N \in Nat, NEW G, 0 \in G, \A n \in 1 .. N : n - 1 \in G => n \in G
  PROVE  0 .. N \subseteq G
<1> DEFINE T == {n \in 0 .. N : n \notin G}
<1>1. SUFFICES ASSUME T # {} PROVE FALSE
  OBVIOUS
<1>2. PICK n \in T : \A m \in T : n <= m
  <2>1. T \subseteq Nat
    OBVIOUS
  <2> HIDE DEF T
  <2>2. QED
    BY <1>1, <2>1, LeastNumber
<1>3. n \in 1 .. N /\ n - 1 \in 0 .. N /\ n - 1 \notin T
  BY <1>2
<1>4. QED
  BY <1>2, <1>3

(* A set of numbers that goes no higher than N has a highest.              *)
LEMMA GreatestNumber ==
  ASSUME NEW N \in Nat, NEW S, S \subseteq 1 .. N, S # {}
  PROVE  Max(S) \in S /\ \A y \in S : Max(S) >= y
<1> DEFINE T == {N - x : x \in S}
<1>1. PICK m \in T : \A y \in T : m <= y
  <2>1. ASSUME NEW x \in S PROVE N - x \in Nat
    <3>1. x \in 1 .. N
      OBVIOUS
    <3>2. QED
      BY <3>1
  <2>2. T \subseteq Nat /\ T # {}
    BY <2>1
  <2> HIDE DEF T
  <2>3. QED
    BY <2>2, LeastNumber
<1>2. PICK x \in S : m = N - x
  OBVIOUS
<1>3. \A y \in S : x >= y
  <2>1. ASSUME NEW y \in S PROVE x >= y
    <3>1. N - y \in T
      OBVIOUS
    <3>2. m <= N - y
      BY <1>1, <3>1
    <3>3. x \in Int /\ y \in Int
      OBVIOUS
    <3>4. QED
      BY <1>2, <3>2, <3>3
  <2>2. QED
    BY <2>1
<1>4. QED
  BY <1>3 DEF Max

(* Of a set of numbers, the last n.                                        *)
LEMMA LastOnes ==
  ASSUME NEW N \in Nat, NEW S, S \subseteq 1 .. N, NEW n \in Nat, n <= Cardinality(S)
  PROVE  \E Q : Q \subseteq S /\ Cardinality(Q) = n /\ \A i \in S \ Q : \A j \in Q : i < j
<1> DEFINE IsLast(Q, k) == Q \subseteq S /\ Cardinality(Q) = k /\ \A i \in S \ Q : \A j \in Q : i < j
           G == {k \in 0 .. n : \E Q \in SUBSET S : IsLast(Q, k)}
<1>1. IsFiniteSet(S) /\ Cardinality(S) \in Nat
  <2>1. IsFiniteSet(1 .. N)
    BY FS_Interval
  <2>2. IsFiniteSet(S)
    BY <2>1, FS_Subset
  <2>3. QED
    BY <2>2, FS_CardinalityType
<1>2. 0 \in G
  BY FS_EmptySet
<1>3. ASSUME NEW k \in 1 .. n, k - 1 \in G PROVE k \in G
  <2>1. PICK Q \in SUBSET S : IsLast(Q, k - 1)
    BY <1>3
  <2>2. IsFiniteSet(Q)
    BY <1>1, FS_Subset
  <2>3. S \ Q # {}
    <3>1. k - 1 # Cardinality(S)
      BY <1>1
    <3>2. Q # S
      BY <2>1, <3>1
    <3>3. QED
      BY <3>2
  <2> DEFINE m == Max(S \ Q)
             P == Q \cup {m}
  <2>4. m \in S \ Q /\ \A y \in S \ Q : m >= y
    BY <2>3, GreatestNumber
  <2> HIDE DEF m
  <2>5. Cardinality(P) = Cardinality(Q) + 1
    BY <2>2, <2>4, FS_AddElement
  <2>6. ASSUME NEW i \in S \ P, NEW j \in P PROVE i < j
    <3>1. i \in S \ Q /\ i # m /\ i \in Int /\ j \in Int /\ m \in Int
      BY <2>4
    <3>2. CASE j = m
      BY <2>4, <3>1, <3>2
    <3>3. CASE j \in Q
      BY <2>1, <3>1, <3>3
    <3>4. QED
      BY <3>2, <3>3
  <2>7. P \in SUBSET S /\ IsLast(P, k)
    BY <2>1, <2>4, <2>5, <2>6
  <2> HIDE DEF P
  <2>8. QED
    BY <2>7
<1> HIDE DEF G
<1>4. 0 .. n \subseteq G
  BY <1>2, <1>3, UpTo
<1>5. n \in G
  BY <1>4
<1>6. QED
  BY <1>5 DEF G

(* A sequence of what it holds.                                            *)
Elements(s) == {s[n] : n \in 1 .. Len(s)}
IsSeq(s) == s \in Seq(Elements(s))

LEMMA SeqHolds ==
  ASSUME NEW S, NEW s \in Seq(S)
  PROVE  IsSeq(s) /\ Elements(s) \subseteq S
BY DEF IsSeq, Elements

LEMMA TailIs ==
  ASSUME NEW S, NEW s \in Seq(S), s # <<>>
  PROVE  Tail(s) \in Seq(S)
OBVIOUS

LEMMA Appended ==
  ASSUME NEW s, IsSeq(s), NEW x
  PROVE  /\ IsSeq(Append(s, x)) /\ Elements(Append(s, x)) \subseteq Elements(s) \cup {x}
         /\ Len(Append(s, x)) = Len(s) + 1
<1>1. s \in Seq(Elements(s) \cup {x}) /\ Len(s) \in Nat
  BY DEF IsSeq
<1>2. Append(s, x) \in Seq(Elements(s) \cup {x}) /\ Len(Append(s, x)) = Len(s) + 1
  BY <1>1
<1>3. QED
  BY <1>2, SeqHolds

(* The lines that are kept are lines of it.                                *)
LEMMA WithoutIs ==
  ASSUME NEW s, IsSeq(s), NEW body
  PROVE  IsSeq(Without(s, body)) /\ Elements(Without(s, body)) \subseteq Elements(s)
<1> DEFINE E == Elements(s)
           N == Len(s)
           Step(F, n) == IF n = 0 THEN <<>>
                         ELSE IF Contains(s[n], body) THEN F[n - 1] ELSE Append(F[n - 1], s[n])
           F == CHOOSE F : F = [n \in 0 .. Len(s) |-> Step(F, n)]
<1>1. Without(s, body) = F[Len(s)]
  BY DEF Without
<1> HIDE DEF F
<1>2. N \in Nat /\ \A n \in 1 .. N : s[n] \in E
  BY DEF IsSeq, Elements
<1> DEFINE G == {n \in 0 .. N : \E f \in [0 .. n -> Seq(E)] : \A i \in 0 .. n : f[i] = Step(f, i)}
<1>3. 0 \in G
  <2> DEFINE f == [i \in 0 .. 0 |-> <<>>]
  <2>1. f \in [0 .. 0 -> Seq(E)] /\ 0 \in 0 .. N
    BY <1>2
  <2>2. \A i \in 0 .. 0 : f[i] = Step(f, i)
    OBVIOUS
  <2> HIDE DEF E, N, f, Step
  <2>3. QED
    BY <2>1, <2>2
<1>4. ASSUME NEW n \in 1 .. N, n - 1 \in G PROVE n \in G
  <2>1. PICK f \in [0 .. (n - 1) -> Seq(E)] : \A i \in 0 .. (n - 1) : f[i] = Step(f, i)
    BY <1>4
  <2> DEFINE h == [i \in 0 .. n |-> IF i = n THEN Step(f, n) ELSE f[i]]
  <2>2. n \in Nat /\ n # 0 /\ n - 1 \in 0 .. (n - 1) /\ n \in 0 .. N
    BY <1>2
  <2>3. f[n - 1] \in Seq(E) /\ s[n] \in E
    BY <1>2, <2>2
  <2>4. Step(f, n) \in Seq(E)
    BY <2>2, <2>3
  <2>5. h \in [0 .. n -> Seq(E)]
    BY <2>2, <2>4
  <2>6. ASSUME NEW i \in 0 .. n PROVE h[i] = Step(h, i)
    <3>1. CASE i = n
      <4>1. h[n - 1] = f[n - 1] /\ h[n] = Step(f, n)
        BY <2>2
      <4> HIDE DEF h
      <4>2. QED
        BY <3>1, <4>1, <2>2
    <3>2. CASE i # n /\ i # 0
      <4>1. i \in 0 .. (n - 1) /\ i - 1 \in 0 .. (n - 1) /\ i - 1 # n
        BY <2>2, <3>2
      <4>2. h[i] = f[i] /\ h[i - 1] = f[i - 1]
        BY <2>2, <4>1, <3>2
      <4>3. f[i] = Step(f, i)
        BY <2>1, <4>1
      <4> HIDE DEF h
      <4>4. QED
        BY <3>2, <4>2, <4>3
    <3>3. CASE i = 0
      <4>1. h[0] = f[0] /\ f[0] = Step(f, 0)
        BY <2>1, <2>2
      <4> HIDE DEF h
      <4>2. QED
        BY <3>3, <4>1
    <3>4. QED
      BY <3>1, <3>2, <3>3
  <2> HIDE DEF h, Step
  <2>7. QED
    BY <2>2, <2>5, <2>6
<1>5. \E f \in [0 .. N -> Seq(E)] : \A i \in 0 .. N : f[i] = Step(f, i)
  <2> HIDE DEF G, N
  <2>1. \A n \in 1 .. N : n - 1 \in G => n \in G
    BY <1>4
  <2>3. 0 .. N \subseteq G /\ N \in 0 .. N
    BY <1>2, <1>3, <2>1, UpTo
  <2>2. QED
    BY <2>3 DEF G
<1>6. PICK f \in [0 .. N -> Seq(E)] : \A i \in 0 .. N : f[i] = Step(f, i)
  BY <1>5
<1>7. f = [n \in 0 .. Len(s) |-> Step(f, n)]
  <2> HIDE DEF Step
  <2>1. QED
    BY <1>6
<1>8. F = [n \in 0 .. Len(s) |-> Step(F, n)]
  <2> HIDE DEF Step
  <2>1. QED
    BY <1>7 DEF F
<1> DEFINE K == {n \in 0 .. N : F[n] \in Seq(E)}
<1>9. 0 \in K
  BY <1>2, <1>8
<1>10. ASSUME NEW n \in 1 .. N, n - 1 \in K PROVE n \in K
  <2>1. n \in 0 .. N /\ n # 0 /\ s[n] \in E /\ F[n - 1] \in Seq(E)
    BY <1>2, <1>10
  <2>2. F[n] = Step(F, n)
    BY <2>1, <1>8
  <2>3. Step(F, n) \in Seq(E)
    BY <2>1
  <2>4. QED
    BY <2>1, <2>2, <2>3
<1>11. F[N] \in Seq(E)
  <2> HIDE DEF K, N
  <2>1. \A n \in 1 .. N : n - 1 \in K => n \in K
    BY <1>10
  <2>2. N \in 0 .. N
    BY <1>2
  <2>3. 0 .. N \subseteq K
    BY <1>2, <1>9, <2>1, UpTo
  <2>4. QED
    BY <2>2, <2>3 DEF K
<1>12. QED
  BY <1>1, <1>11, SeqHolds

---------------------------------------------------------------------------
(* Curation.                                                               *)

IsRow(r)        == r = [f \in {"st", "words", "evidence"} |-> r[f]]
IsExperiment(x) == x = [f \in {"domain", "body", "st", "at", "baseline"} |-> x[f]]

(* Something was proposed for this domain in these words.                  *)
Known(d, w) ==
  \E k \in LessonKeys : DomainOf[k] = d /\ row[k].st # "none" /\ row[k].words = w

Recorded == DOMAIN row = LessonKeys /\ \A k \in LessonKeys : IsRow(row[k])

Written ==
  /\ DOMAIN rules = Domains
  /\ \A d \in Domains : IsSeq(rules[d]) /\ \A l \in Elements(rules[d]) : l.ours => Known(d, l.words)

Tried ==
  /\ IsSeq(exps)
  /\ \A x \in Elements(exps) : IsExperiment(x) /\ Known(x.domain, x.body)

(* What the user last saw names things that are there.                     *)
Pressable ==
  /\ \A p \in panel.ask : p.key \in LessonKeys
  /\ \A t \in panel.try : Known(t.domain, t.body)
  /\ panel.back \subseteq 1 .. Len(exps)

Inductive == AllHeld /\ Recorded /\ Written /\ Tried /\ Pressable

(* A row that is there keeps its words, and stays.                         *)
RowsStand ==
  \A k \in LessonKeys : row[k].st # "none" => row'[k].st # "none" /\ row'[k].words = row[k].words

LEMMA KnownStays ==
  ASSUME RowsStand, NEW d, NEW w, Known(d, w)
  PROVE  \E k \in LessonKeys : DomainOf[k] = d /\ row'[k].st # "none" /\ row'[k].words = w
BY DEF RowsStand, Known

LEMMA WrittenStays ==
  ASSUME Written, RowsStand, UNCHANGED rules
  PROVE  Written'
<1>1. ASSUME NEW d \in Domains, NEW l \in Elements(rules[d]), l.ours
      PROVE  \E k \in LessonKeys : DomainOf[k] = d /\ row'[k].st # "none" /\ row'[k].words = l.words
  BY <1>1, KnownStays DEF Written
<1>2. QED
  BY <1>1 DEF Written, Known, IsSeq, Elements

LEMMA TriedStays ==
  ASSUME Tried, RowsStand, UNCHANGED exps
  PROVE  Tried'
<1>1. ASSUME NEW x \in Elements(exps)
      PROVE  /\ IsExperiment(x)
             /\ \E k \in LessonKeys :
                  DomainOf[k] = x.domain /\ row'[k].st # "none" /\ row'[k].words = x.body
  BY KnownStays DEF Tried
<1>2. QED
  BY <1>1 DEF Tried, Known, IsSeq, Elements, IsExperiment

LEMMA PressableStays ==
  ASSUME Pressable, Tried, RowsStand, Refreshed \/ UNCHANGED panel, Len(exps') \in Nat, Len(exps) <= Len(exps')
  PROVE  Pressable'
<1>1. CASE panel' = NoPanel
  BY <1>1 DEF Pressable, NoPanel
<1>2. CASE UNCHANGED panel
  <2>1. panel.back \subseteq 1 .. Len(exps')
    BY DEF Pressable, Tried, IsSeq
  <2>2. ASSUME NEW t \in panel.try
        PROVE  \E k \in LessonKeys :
                 DomainOf[k] = t.domain /\ row'[k].st # "none" /\ row'[k].words = t.body
    BY KnownStays DEF Pressable
  <2>3. QED
    BY <1>2, <2>1, <2>2 DEF Pressable, Known
<1>3. QED
  BY <1>1, <1>2 DEF Refreshed

(* What is asked is of two tasks.                                          *)
LEMMA OfTwoTasks ==
  ASSUME NEW k, Corroborated(k)
  PROVE  \E i, j \in Tasks : i # j /\ \A n \in {i, j} : \E l \in task[n].lessons : l.key = k
<1>1. IsFiniteSet(Naming(k)) /\ Naming(k) \subseteq Tasks
  BY VersionsConstants, FS_Subset DEF Naming
<1>2. PICK i : i \in Naming(k)
  BY FS_EmptySet DEF Corroborated
<1>3. Cardinality(Naming(k) \ {i}) = Cardinality(Naming(k)) - 1
  BY <1>1, <1>2, FS_RemoveElement
<1>4. PICK j : j \in Naming(k) \ {i}
  <2>1. Cardinality(Naming(k)) \in Nat
    BY <1>1, FS_CardinalityType
  <2>2. Cardinality(Naming(k) \ {i}) # 0
    BY <1>3, <2>1 DEF Corroborated
  <2>3. QED
    BY <2>2, FS_EmptySet
<1>5. QED
  BY <1>2, <1>4 DEF Naming

LEMMA OpenHolds ==
  ASSUME Inductive, OpenPanel
  PROVE  Inductive'
<1>1. UNCHANGED <<build, task, rules, exps>> /\ panel' = Shown
  BY DEF OpenPanel, taskSide
<1>2. ASSUME NEW k \in LessonKeys
      PROVE  /\ IsRow(row'[k])
             /\ row[k].st # "none" => row'[k].st # "none" /\ row'[k].words = row[k].words
  <2>1. IsRow(row[k])
    BY DEF Inductive, Recorded
  <2>2. row'[k] = IF k \in ToAsk THEN Upserted(k) ELSE row[k]
    BY DEF OpenPanel
  <2>3. CASE k \in ToAsk /\ row[k].st = "none"
    <3>1. row'[k] = [st |-> "pending", words |-> FirstOf(k).words, evidence |-> Occurrences(k)]
      BY <2>2, <2>3 DEF Upserted
    <3>2. QED
      BY <2>3, <3>1 DEF IsRow
  <2>4. CASE k \in ToAsk /\ row[k].st # "none"
    <3>1. row'[k] = [row[k] EXCEPT !.evidence = Occurrences(k)]
      BY <2>2, <2>4 DEF Upserted
    <3>2. QED
      BY <2>1, <2>4, <3>1 DEF IsRow
  <2>5. QED
    BY <2>1, <2>2, <2>3, <2>4
<1>3. Recorded' /\ RowsStand
  BY <1>2 DEF Recorded, RowsStand, OpenPanel
<1>4. Pressable'
  <2>1. panel'.ask = {[key |-> k, words |-> FirstOf(k).words] : k \in ToAsk}
    BY <1>1 DEF Shown
  <2>2. \A p \in panel'.ask : p.key \in LessonKeys
    BY <2>1 DEF ToAsk
  <2>3. ASSUME NEW t \in panel'.try
        PROVE  \E k \in LessonKeys : DomainOf[k] = t.domain /\ row'[k].st # "none" /\ row'[k].words = t.body
    <3>1. PICK k \in Retirable : t = [domain |-> DomainOf[k], body |-> row[k].words]
      BY <1>1 DEF Shown
    <3>2. k \in LessonKeys /\ row[k].st = "approved"
      BY DEF Retirable
    <3>3. QED
      BY <1>2, <3>1, <3>2
  <2>4. panel'.back \subseteq 1 .. Len(exps')
    BY <1>1 DEF Shown
  <2>5. QED
    BY <2>2, <2>3, <2>4 DEF Pressable, Known
<1>5. AllHeld'
  BY <1>1, TasksAlone DEF Inductive, taskSide
<1>6. QED
  BY <1>1, <1>3, <1>4, <1>5, WrittenStays, TriedStays DEF Inductive

(* A file of rules changes into lines that have their rows.                *)
LEMMA WrittenAnew ==
  ASSUME Written, RowsStand, NEW d, NEW lines, rules' = [rules EXCEPT ![d] = lines], IsSeq(lines),
         \A l \in Elements(lines) : l.ours => Known(d, l.words)
  PROVE  Written'
<1>1. ASSUME NEW c \in Domains
      PROVE  /\ IsSeq(rules'[c])
             /\ \A l \in Elements(rules'[c]) :
                  l.ours => \E k \in LessonKeys : /\ DomainOf[k] = c /\ row'[k].st # "none"
                                                  /\ row'[k].words = l.words
  <2>1. CASE c = d
    BY <2>1, KnownStays DEF Written
  <2>2. CASE c # d
    BY <2>2, KnownStays DEF Written
  <2>3. QED
    BY <2>1, <2>2
<1>2. QED
  BY <1>1 DEF Written, Known, IsSeq, Elements

(* A line that has its row is written.                                     *)
LEMMA AppliedHolds ==
  ASSUME Written, RowsStand, NEW d, NEW w, Known(d, w), rules' = Applied(d, w)
  PROVE  Written'
<1>1. CASE d \in Domains
  <2> DEFINE lines == Append(rules[d], Line(w))
  <2>1. IsSeq(lines) /\ Elements(lines) \subseteq Elements(rules[d]) \cup {Line(w)}
    BY <1>1, Appended DEF Written
  <2>2. rules' = [rules EXCEPT ![d] = lines]
    BY DEF Applied
  <2>3. \A l \in Elements(lines) : l.ours => Known(d, l.words)
    <3>1. Line(w).words = w
      BY DEF Line
    <3>2. QED
      BY <1>1, <2>1, <3>1 DEF Written
  <2> HIDE DEF lines
  <2>4. QED
    BY <2>1, <2>2, <2>3, WrittenAnew
<1>2. CASE d \notin Domains
  BY <1>2, CurationConstants DEF Known
<1>3. QED
  BY <1>1, <1>2

LEMMA DecideHolds ==
  ASSUME Inductive, NEW k \in LessonKeys, Dismiss(k) \/ Approve(k), UNCHANGED taskSide
  PROVE  Inductive'
<1>1. /\ row[k].st # "none" /\ UNCHANGED exps /\ (Refreshed \/ UNCHANGED panel)
      /\ rules' = rules \/ rules' = Applied(DomainOf[k], row[k].words)
      /\ row' = row \/ \E st \in {"approved", "dismissed"} : row' = [row EXCEPT ![k].st = st]
  BY DEF Dismiss, Approve
<1>2. Recorded' /\ RowsStand
  BY <1>1 DEF Inductive, Recorded, RowsStand, IsRow
<1>3. Known(DomainOf[k], row[k].words)
  BY <1>1 DEF Known
<1>4. Written'
  BY <1>1, <1>2, <1>3, WrittenStays, AppliedHolds DEF Inductive
<1>5. Pressable'
  <2>1. Len(exps') \in Nat /\ Len(exps) <= Len(exps')
    BY <1>1 DEF Inductive, Tried, IsSeq
  <2>2. QED
    BY <1>1, <1>2, <2>1, PressableStays DEF Inductive
<1>6. AllHeld'
  BY TasksAlone DEF Inductive
<1>7. QED
  BY <1>1, <1>2, <1>4, <1>5, <1>6, TriedStays DEF Inductive

LEMMA RetireHolds ==
  ASSUME Inductive, NEW d, NEW w, Known(d, w), Retire(d, w), UNCHANGED taskSide
  PROVE  Inductive'
<1> DEFINE x == Experiment(d, w)
<1>1. /\ UNCHANGED row /\ rules' = Removed(d, w) /\ (Refreshed \/ UNCHANGED panel)
      /\ exps' = exps \/ exps' = Append(exps, x)
  BY DEF Retire
<1>2. Recorded' /\ RowsStand
  BY <1>1 DEF Inductive, Recorded, RowsStand, IsRow
<1>3. Written'
  <2>1. d \in Domains
    BY CurationConstants DEF Known
  <2>2. IsSeq(Without(rules[d], w)) /\ Elements(Without(rules[d], w)) \subseteq Elements(rules[d])
    BY <2>1, WithoutIs DEF Inductive, Written
  <2>3. \A l \in Elements(Without(rules[d], w)) : l.ours => Known(d, l.words)
    BY <2>1, <2>2 DEF Inductive, Written
  <2>4. rules' = [rules EXCEPT ![d] = Without(rules[d], w)]
    BY <1>1 DEF Removed
  <2>5. QED
    BY <1>2, <2>2, <2>3, <2>4, WrittenAnew DEF Inductive
<1>4. Tried' /\ Len(exps') \in Nat /\ Len(exps) <= Len(exps')
  <2>1. IsExperiment(x) /\ x.domain = d /\ x.body = w
    BY DEF IsExperiment, Experiment
  <2> HIDE DEF x
  <2>2. IsSeq(exps') /\ Elements(exps') \subseteq Elements(exps) \cup {x}
    BY <1>1, Appended DEF Inductive, Tried
  <2>3. \A y \in Elements(exps') :
          /\ IsExperiment(y)
          /\ \E k \in LessonKeys : DomainOf[k] = y.domain /\ row'[k].st # "none" /\ row'[k].words = y.body
    BY <1>2, <2>1, <2>2, KnownStays DEF Inductive, Tried
  <2>4. Tried'
    BY <2>2, <2>3 DEF Tried, Known, IsSeq, Elements, IsExperiment
  <2>5. Len(exps) \in Nat /\ (exps' = exps \/ Len(exps') = Len(exps) + 1)
    BY <1>1, Appended DEF Inductive, Tried, IsSeq
  <2>6. QED
    BY <2>4, <2>5
<1>5. Pressable'
  BY <1>1, <1>2, <1>4, PressableStays DEF Inductive
<1>6. AllHeld'
  BY TasksAlone DEF Inductive
<1>7. QED
  BY <1>2, <1>3, <1>4, <1>5, <1>6 DEF Inductive

LEMMA RestoreHolds ==
  ASSUME Inductive, NEW e \in panel.back, Restore(e), UNCHANGED taskSide
  PROVE  Inductive'
<1>1. /\ UNCHANGED row /\ rules' = Applied(exps[e].domain, exps[e].body) /\ (Refreshed \/ UNCHANGED panel)
      /\ exps' = exps \/ exps' = [exps EXCEPT ![e].st = "restored"]
  BY DEF Restore
<1>2. /\ e \in 1 .. Len(exps) /\ exps[e] \in Elements(exps) /\ Known(exps[e].domain, exps[e].body)
      /\ IsExperiment(exps[e])
  BY DEF Inductive, Pressable, Tried, Elements
<1>3. Recorded' /\ RowsStand
  BY <1>1 DEF Inductive, Recorded, RowsStand, IsRow
<1>4. Written'
  BY <1>1, <1>2, <1>3, AppliedHolds DEF Inductive
<1>5. Tried' /\ Len(exps') \in Nat /\ Len(exps) <= Len(exps')
  <2> DEFINE x == [exps[e] EXCEPT !.st = "restored"]
  <2>1. IsExperiment(x) /\ x.domain = exps[e].domain /\ x.body = exps[e].body
    BY <1>2 DEF IsExperiment
  <2> HIDE DEF x
  <2>2. exps' = exps \/ exps' = [exps EXCEPT ![e] = x]
    BY <1>1 DEF x
  <2>3. /\ exps' \in Seq(Elements(exps) \cup {x}) /\ Len(exps') = Len(exps) /\ Len(exps) \in Nat
    BY <1>2, <2>2 DEF Inductive, Tried, IsSeq
  <2>4. IsSeq(exps') /\ Elements(exps') \subseteq Elements(exps) \cup {x}
    BY <2>3, SeqHolds
  <2>5. \A y \in Elements(exps') :
          /\ IsExperiment(y)
          /\ \E k \in LessonKeys : DomainOf[k] = y.domain /\ row'[k].st # "none" /\ row'[k].words = y.body
    BY <1>2, <1>3, <2>1, <2>4, KnownStays DEF Inductive, Tried
  <2>6. Tried'
    BY <2>4, <2>5 DEF Tried, Known, IsSeq, Elements, IsExperiment
  <2>7. QED
    BY <2>3, <2>6
<1>6. Pressable'
  BY <1>1, <1>3, <1>5, PressableStays DEF Inductive
<1>7. AllHeld'
  BY TasksAlone DEF Inductive
<1>8. QED
  BY <1>3, <1>4, <1>5, <1>6, <1>7 DEF Inductive

LEMMA HandHolds ==
  ASSUME Inductive, NEW d \in Domains, HandEdit(d)
  PROVE  Inductive'
<1>1. UNCHANGED <<taskSide, row, exps, panel>>
  BY DEF HandEdit
<1>2. Recorded' /\ RowsStand
  BY <1>1 DEF Inductive, Recorded, RowsStand, IsRow
<1>3. PICK lines : /\ rules' = [rules EXCEPT ![d] = lines] /\ IsSeq(lines)
                   /\ \A l \in Elements(lines) : l.ours => l \in Elements(rules[d])
  <2>1. IsSeq(rules[d])
    BY DEF Inductive, Written
  <2>2. CASE \E w \in ByHand : rules' = [rules EXCEPT ![d] = Append(@, [words |-> w, ours |-> FALSE])]
    <3>1. PICK w \in ByHand : rules' = [rules EXCEPT ![d] = Append(@, [words |-> w, ours |-> FALSE])]
      BY <2>2
    <3> DEFINE l == [words |-> w, ours |-> FALSE]
               lines == Append(rules[d], l)
    <3>2. rules' = [rules EXCEPT ![d] = lines] /\ ~l.ours
      BY <3>1
    <3> HIDE DEF l
    <3>3. IsSeq(lines) /\ Elements(lines) \subseteq Elements(rules[d]) \cup {l}
      BY <2>1, Appended
    <3>4. QED
      BY <3>2, <3>3
  <2>3. CASE rules[d] # <<>> /\ rules' = [rules EXCEPT ![d] = Tail(@)]
    <3>1. Tail(rules[d]) \in Seq(Elements(rules[d]))
      BY <2>1, <2>3, TailIs DEF IsSeq
    <3>2. QED
      BY <2>3, <3>1, SeqHolds
  <2>4. QED
    BY <2>2, <2>3 DEF HandEdit
<1>4. Written'
  <2>1. \A l \in Elements(lines) : l.ours => Known(d, l.words)
    BY <1>3 DEF Inductive, Written
  <2>2. QED
    BY <1>2, <1>3, <2>1, WrittenAnew DEF Inductive
<1>5. Pressable'
  <2>1. Len(exps') \in Nat /\ Len(exps) <= Len(exps')
    BY <1>1 DEF Inductive, Tried, IsSeq
  <2>2. QED
    BY <1>1, <1>2, <2>1, PressableStays DEF Inductive
<1>6. AllHeld'
  BY <1>1, TasksAlone DEF Inductive, taskSide
<1>7. QED
  BY <1>1, <1>2, <1>4, <1>5, <1>6, TriedStays DEF Inductive

LEMMA PressHolds ==
  ASSUME Inductive, Press
  PROVE  Inductive'
<1>1. CASE \E p \in panel.ask : Dismiss(p.key) \/ Approve(p.key)
  BY <1>1, DecideHolds DEF Press, Inductive, Pressable
<1>2. CASE \E t \in panel.try : Retire(t.domain, t.body)
  BY <1>2, RetireHolds DEF Press, Inductive, Pressable
<1>3. CASE \E e \in panel.back : Restore(e)
  BY <1>3, RestoreHolds DEF Press
<1>4. QED
  BY <1>1, <1>2, <1>3 DEF Press

LEMMA SideAlone ==
  ASSUME Inductive, AllHeld', UNCHANGED curationSide
  PROVE  Inductive'
<1>1. UNCHANGED <<rules, row, exps, panel>>
  BY DEF curationSide
<1>2. Recorded' /\ RowsStand
  BY <1>1 DEF Inductive, Recorded, RowsStand, IsRow
<1>3. Pressable'
  <2>1. Len(exps') \in Nat /\ Len(exps) <= Len(exps')
    BY <1>1 DEF Inductive, Tried, IsSeq
  <2>2. QED
    BY <1>1, <1>2, <2>1, PressableStays DEF Inductive
<1>4. QED
  BY <1>1, <1>2, <1>3, WrittenStays, TriedStays DEF Inductive

LEMMA InitIsInductive ==
  ASSUME Init
  PROVE  Inductive
<1>1. AllHeld
  BY TasksBegin DEF Init
<1>2. Recorded
  <2>1. IsRow(NoRow)
    BY DEF IsRow, NoRow
  <2>2. QED
    BY <2>1 DEF Init, Recorded
<1>3. IsSeq(<<>>) /\ Elements(<<>>) = {} /\ Len(<<>>) = 0
  BY DEF IsSeq, Elements
<1>4. Written /\ Tried
  BY <1>3 DEF Init, Written, Tried
<1>5. Pressable
  BY DEF Init, NoPanel, Pressable
<1>6. QED
  BY <1>1, <1>2, <1>4, <1>5 DEF Inductive

LEMMA NextKeeps ==
  ASSUME Inductive, [Next]_vars
  PROVE  Inductive'
<1>1. CASE TaskStep /\ UNCHANGED curationSide
  BY <1>1, TasksHold, SideAlone DEF Inductive
<1>2. CASE OpenPanel
  BY <1>2, OpenHolds
<1>3. CASE Press
  BY <1>3, PressHolds
<1>4. CASE \E d \in Domains : HandEdit(d)
  BY <1>4, HandHolds
<1>5. CASE UNCHANGED vars
  BY <1>5, TasksAlone, SideAlone DEF Inductive, vars
<1>6. QED
  BY <1>1, <1>2, <1>3, <1>4, <1>5 DEF Next

---------------------------------------------------------------------------
(* The theorems.                                                           *)

(* The version recorded with a task's first session is the one of the copy *)
(* it reads until somebody edits that copy; every line Autome wrote, every *)
(* experiment and everything the panel offers to take out has a row in its *)
(* domain and its words (scheduler.rs freeze_protocol, curation.rs,        *)
(* dispatch_curation.rs, store.rs).                                        *)
THEOREM AlwaysInductive == Spec => []Inductive
<1>1. Init => Inductive
  BY InitIsInductive
<1>2. Inductive /\ [Next]_vars => Inductive'
  BY NextKeeps
<1>3. QED
  BY <1>1, <1>2, PTL DEF Spec

(* However many builds are installed while it runs, and wherever freezing  *)
(* it was cut short, a task whose copy nobody touched runs all its         *)
(* sessions under one text, a session's version is a hash of what it read, *)
(* and tasks in one row of the version page read the same                  *)
(* (scheduler.rs freeze_protocol, version_page.rs rows).                   *)
THEOREM TextIsFrozen == Spec => []RulesAreFrozen
<1>1. Inductive => RulesAreFrozen
  BY HeldIsFrozen DEF Inductive
<1>2. QED
  BY <1>1, AlwaysInductive, PTL

(* A rule Autome wrote has its row, whatever is approved, taken out, put   *)
(* back or edited by hand, and wherever a command is cut short             *)
(* (dispatch_curation.rs, curation.rs).                                    *)
THEOREM WrittenRulesHaveRows == Spec => []RuleHasItsRow
<1>1. Inductive => RuleHasItsRow
  <2>1. ASSUME Inductive, NEW d \in Domains, NEW n \in 1 .. Len(rules[d]), rules[d][n].ours
        PROVE  \E k \in LessonKeys : DomainOf[k] = d /\ row[k].words = rules[d][n].words
    <3>1. rules[d][n] \in Elements(rules[d])
      BY DEF Elements
    <3>2. QED
      BY <2>1, <3>1 DEF Inductive, Written, Known
  <2>2. QED
    BY <2>1 DEF RuleHasItsRow
<1>2. QED
  BY <1>1, AlwaysInductive, PTL

(* What a step owes to the row of a lesson.                                *)
Stands(k) ==
  /\ row[k].st = "none" /\ row'[k].st # "none" =>
       \E i, j \in Tasks : i # j /\ \A n \in {i, j} : \E l \in task[n].lessons : l.key = k
  /\ row[k].st # "none" => row'[k].st # "none"
  /\ k \in Answered => /\ row'[k].st \in {"approved", "dismissed"}
                       /\ [key |-> k, words |-> FirstOf(k).words] \in panel'.ask => panel' = panel

LEMMA OpenStands ==
  ASSUME Inductive, OpenPanel, NEW k \in LessonKeys
  PROVE  Stands(k)
<1>1. row'[k] = (IF k \in ToAsk THEN Upserted(k) ELSE row[k]) /\ IsRow(row[k])
  BY DEF OpenPanel, Inductive, Recorded
<1>2. CASE k \in ToAsk
  <2>1. Corroborated(k) /\ k \notin Answered
    BY <1>2 DEF ToAsk
  <2>2. row[k].st # "none" => row'[k].st = row[k].st
    BY <1>1, <1>2 DEF Upserted, IsRow
  <2>3. QED
    BY <2>1, <2>2, OfTwoTasks DEF Stands
<1>3. CASE k \notin ToAsk
  <2>1. row'[k] = row[k]
    BY <1>1, <1>3
  <2>2. [key |-> k, words |-> FirstOf(k).words] \notin panel'.ask
    BY <1>3 DEF OpenPanel, Shown
  <2>3. QED
    BY <2>1, <2>2 DEF Stands, Answered
<1>4. QED
  BY <1>2, <1>3

(* Where a row that is there is answered, or nothing is, and the panel is  *)
(* what it was or empty.                                                   *)
LEMMA DecidedStands ==
  ASSUME Inductive, NEW k \in LessonKeys, panel' = panel \/ panel' = NoPanel,
         \/ row' = row
         \/ \E j \in LessonKeys, st \in {"approved", "dismissed"} :
              row[j].st # "none" /\ row' = [row EXCEPT ![j].st = st]
  PROVE  Stands(k)
<1>1. row'[k].st = row[k].st \/ (row[k].st # "none" /\ row'[k].st \in {"approved", "dismissed"})
  BY DEF Inductive, Recorded, IsRow
<1>2. [key |-> k, words |-> FirstOf(k).words] \in panel'.ask => panel' = panel
  BY DEF NoPanel
<1>3. QED
  BY <1>1, <1>2 DEF Stands, Answered

LEMMA StepStands ==
  ASSUME Inductive, [Next]_vars, NEW k \in LessonKeys
  PROVE  Stands(k)
<1>1. CASE OpenPanel
  BY <1>1, OpenStands
<1>2. CASE Press
  <2>1. CASE \E p \in panel.ask : Dismiss(p.key) \/ Approve(p.key)
    BY <2>1, DecidedStands DEF Dismiss, Approve, Refreshed, Inductive, Pressable
  <2>2. CASE \E t \in panel.try : Retire(t.domain, t.body)
    BY <2>2, DecidedStands DEF Retire, Refreshed
  <2>3. CASE \E e \in panel.back : Restore(e)
    BY <2>3, DecidedStands DEF Restore, Refreshed
  <2>4. QED
    BY <1>2, <2>1, <2>2, <2>3 DEF Press
<1>3. CASE \/ TaskStep /\ UNCHANGED curationSide
           \/ \E d \in Domains : HandEdit(d)
           \/ UNCHANGED vars
  BY <1>3, DecidedStands DEF HandEdit, vars, curationSide
<1>4. QED
  BY <1>1, <1>2, <1>3 DEF Next

(* An answer to a proposal is for good, and a proposal is only made of     *)
(* what two tasks found: whatever order the panel is opened, answered and  *)
(* answered again in (curation.rs proposals, store.rs                      *)
(* upsert_rule_proposal).                                                  *)
THEOREM AnswersAreForGood == Spec => AnswersStand
<1>1. Inductive /\ [Next]_vars =>
        [\A k \in LessonKeys :
           /\ row[k].st = "none" /\ row'[k].st # "none" =>
                \E i, j \in Tasks : i # j /\ \A n \in {i, j} : \E l \in task[n].lessons : l.key = k
           /\ row[k].st # "none" => row'[k].st # "none"
           /\ k \in Answered => /\ row'[k].st \in {"approved", "dismissed"}
                                /\ [key |-> k, words |-> FirstOf(k).words] \in panel'.ask
                                     => panel' = panel]_vars
  BY StepStands DEF Stands
<1>2. QED
  BY <1>1, AlwaysInductive, PTL DEF Spec, AnswersStand

(* As many of the last tasks as it takes found nothing of it.              *)
LEMMA QuietSince ==
  ASSUME NEW k \in Retirable
  PROVE  \E quiet \in SUBSET Wrote :
           /\ Cardinality(quiet) = IdleTasks
           /\ \A i \in quiet : k \notin {l.key : l \in task[i].lessons}
           /\ \A i \in Wrote \ quiet : \A j \in quiet : i < j
<1> DEFINE N == Cardinality(Tasks)
           last == Max(Naming(k))
           S == {i \in Wrote : i > last}
<1>1. N \in Nat /\ Tasks = 1 .. N
  BY VersionsConstants, FS_CardinalityType
<1>2. last \in Naming(k) /\ \A i \in Naming(k) : last >= i
  <2>1. Naming(k) # {} /\ Naming(k) \subseteq 1 .. N
    BY <1>1 DEF Retirable, Naming
  <2>2. QED
    BY <1>1, <2>1, GreatestNumber
<1>3. IdleTasks \in Nat /\ IdleTasks <= Cardinality(S)
  BY CurationConstants DEF Retirable, Idle
<1>4. S \subseteq 1 .. N /\ Wrote \subseteq 1 .. N
  BY <1>1 DEF Wrote
<1>5. last \in 1 .. N
  BY <1>1, <1>2 DEF Naming
<1> HIDE DEF N, last
<1>6. PICK quiet :
        quiet \subseteq S /\ Cardinality(quiet) = IdleTasks /\ \A i \in S \ quiet : \A j \in quiet : i < j
  <2>1. S \subseteq 1 .. N
    BY <1>4
  <2> HIDE DEF S
  <2>2. N \in Nat /\ IdleTasks \in Nat /\ IdleTasks <= Cardinality(S)
    BY <1>1, <1>3
  <2>3. QED
    BY <2>1, <2>2, LastOnes
<1>7. quiet \in SUBSET Wrote
  BY <1>6
<1>8. \A i \in quiet : k \notin {l.key : l \in task[i].lessons}
  <2>1. ASSUME NEW i \in quiet, i \in Naming(k) PROVE FALSE
    <3>1. i > last /\ last >= i /\ i \in Int /\ last \in Int
      BY <1>2, <1>4, <1>5, <1>6, <2>1
    <3>2. QED
      BY <3>1
  <2>2. \A i \in quiet : i \in Tasks
    BY <1>1, <1>4, <1>6
  <2>3. QED
    BY <2>1, <2>2 DEF Naming
<1>9. ASSUME NEW i \in Wrote \ quiet, NEW j \in quiet PROVE i < j
  <2>1. i \in Int /\ j \in Int /\ last \in Int /\ j > last
    BY <1>4, <1>5, <1>6
  <2>2. CASE i > last
    BY <1>6, <2>2
  <2>3. CASE ~(i > last)
    BY <2>1, <2>3
  <2>4. QED
    BY <2>2, <2>3
<1>10. QED
  BY <1>6, <1>7, <1>8, <1>9

LEMMA PanelChanges ==
  ASSUME [Next]_vars, panel' # panel
  PROVE  panel' = Shown \/ panel' = NoPanel
<1>1. CASE OpenPanel
  BY <1>1 DEF OpenPanel
<1>2. CASE Press
  BY <1>2 DEF Press, Dismiss, Approve, Retire, Restore, Refreshed
<1>3. QED
  BY <1>1, <1>2 DEF Next, HandEdit, curationSide, vars

(* A rule that is offered for removal was never taken out before, and of   *)
(* the tasks that wrote lessons the last ones, as many as it takes, did    *)
(* not find it (dispatch_curation.rs retirement_rules,                     *)
(* removal_experiments).                                                   *)
THEOREM OffersAreOfTheQuiet == Spec => OffersAreFair
<1>1. ASSUME [Next]_vars, panel' # panel, NEW t \in panel'.try
      PROVE  /\ \A e \in 1 .. Len(exps) : exps[e].body # t.body
             /\ \E k \in LessonKeys :
                  /\ row[k].words = t.body /\ row[k].st = "approved"
                  /\ \E quiet \in SUBSET Wrote :
                       /\ Cardinality(quiet) = IdleTasks
                       /\ \A i \in quiet : k \notin {l.key : l \in task[i].lessons}
                       /\ \A i \in Wrote \ quiet : \A j \in quiet : i < j
  <2>1. PICK k \in Retirable : t = [domain |-> DomainOf[k], body |-> row[k].words]
    BY <1>1, PanelChanges DEF Shown, NoPanel
  <2>2. t.body = row[k].words
    BY <2>1
  <2>3. k \in LessonKeys /\ row[k].st = "approved" /\ ~TriedBefore(row[k].words)
    BY DEF Retirable
  <2>4. QED
    BY <2>2, <2>3, QuietSince DEF TriedBefore
<1>2. [Next]_vars =>
        [panel' # panel =>
           \A t \in panel'.try :
             /\ \A e \in 1 .. Len(exps) : exps[e].body # t.body
             /\ \E k \in LessonKeys :
                  /\ row[k].words = t.body /\ row[k].st = "approved"
                  /\ \E quiet \in SUBSET Wrote :
                       /\ Cardinality(quiet) = IdleTasks
                       /\ \A i \in quiet : k \notin {l.key : l \in task[i].lessons}
                       /\ \A i \in Wrote \ quiet : \A j \in quiet : i < j]_vars
  BY <1>1
<1>3. QED
  BY <1>2, PTL DEF Spec, OffersAreFair

---------------------------------------------------------------------------
(* The kernel contract of a protocol file: whatever is written to it, a    *)
(* version without a breach has the seed's regions.                        *)

CONSTANTS Scripts, Expected
VARIABLES topic, doc, r

C == INSTANCE Contract

(* Contract counts as this module does.                                    *)
LEMMA SameCount ==
  ASSUME NEW S
  PROVE  C!Cardinality(S) = Cardinality(S)
BY DEF C!Cardinality, Cardinality

Faults  == {"Unnamed", "Unbalanced", "Duplicate"}
Regions == Seq([name : STRING, body : Seq(STRING)])
Readers == [err : Faults \cup {"none"}, open : STRING \cup {C!Closed}, body : Seq(STRING), found : Regions]

Marks(d, k) == {i \in DOMAIN d : d[i].k = k}

(* The lines after o are this text.                                        *)
Follows(d, o, body) ==
  \A m \in 1..Len(body) : o + m \in DOMAIN d /\ d[o + m].k = "text" /\ d[o + m].b = body[m]

Region(d, o, f) ==
  LET end == o + Len(f.body) + 1
  IN  d[o].a = f.name /\ Follows(d, o, f.body) /\ end \in DOMAIN d /\ d[end].k = "close"

(* The region that is open began at line c.                                *)
IsOpen(d, p, c) ==
  /\ c \in Marks(d, "open") /\ d[c].a = p.open /\ p.open # ""
  /\ Len(d) = c + Len(p.body) /\ Follows(d, c, p.body)

(* What was found is what these lines begin, once each.                    *)
Matched(d, found, done) ==
  /\ \A o1, o2 \in done : d[o1].a = d[o2].a => o1 = o2
  /\ \A i \in DOMAIN found : \E o \in done : Region(d, o, found[i])
  /\ \A o \in done : \E i \in DOMAIN found : Region(d, o, found[i])

(* The markers so far are pairs but for the one that is open.              *)
AllButOpen(d, p, done) ==
  \/ p.open = C!Closed /\ done = Marks(d, "open")
  \/ p.open # C!Closed /\ \E c : IsOpen(d, p, c) /\ done = Marks(d, "open") \ {c}

Paired(d, p, done) ==
  /\ AllButOpen(d, p, done) /\ Matched(d, p.found, done)
  /\ Cardinality(Marks(d, "close")) = Cardinality(done)

(* What no line below can mend.                                            *)
OnlyText(d, i, j) == \A m \in (i + 1)..(j - 1) : d[m].k = "text"
Broken(d) ==
  \/ \E i \in Marks(d, "open") : d[i].a = ""
  \/ \E i, j \in Marks(d, "open") : i # j /\ d[i].a = d[j].a
  \/ \E i, j \in Marks(d, "open") : i < j /\ OnlyText(d, i, j)
  \/ \E c \in Marks(d, "close") : \A i \in Marks(d, "open") : i < c => ~OnlyText(d, i, c)

Sound(d, p) ==
  /\ d \in Seq(C!Lines) /\ p \in Readers
  /\ p.err = "none" => \E done : Paired(d, p, done)
  /\ p.err # "none" => Broken(d)

---------------------------------------------------------------------------
(* A line more.                                                            *)
Grown(d, l, n, e) == d \in Seq(C!Lines) /\ l \in C!Lines /\ n = Len(d) /\ e = Append(d, l)

LEMMA LineIsAdded ==
  ASSUME NEW d, NEW l, NEW n, NEW e, Grown(d, l, n, e)
  PROVE  /\ n \in Nat /\ DOMAIN d = 1..n /\ Len(e) = n + 1 /\ DOMAIN e = 1..(n + 1)
         /\ e \in Seq(C!Lines) /\ e[n + 1] = l /\ \A i \in 1..n : e[i] = d[i]
BY DEF Grown

(* The markers of a kind, with one line more.                              *)
LEMMA MarksGrow ==
  ASSUME NEW d, NEW l, NEW n, NEW e, Grown(d, l, n, e), NEW k
  PROVE  /\ Marks(e, k) = IF l.k = k THEN Marks(d, k) \cup {n + 1} ELSE Marks(d, k)
         /\ Marks(d, k) \subseteq 1..n /\ n + 1 \notin Marks(d, k) /\ IsFiniteSet(Marks(d, k))
         /\ \A i \in Marks(d, k) : i \in Marks(e, k) /\ e[i] = d[i] /\ d[i].k = k /\ i \in Nat
<1>1. /\ n \in Nat /\ DOMAIN d = 1..n /\ DOMAIN e = 1..(n + 1)
      /\ e[n + 1] = l /\ \A i \in 1..n : e[i] = d[i]
  BY LineIsAdded
<1>2. 1..(n + 1) = (1..n) \cup {n + 1} /\ n + 1 \notin 1..n /\ \A i \in 1..n : i \in Nat
  BY <1>1
<1>3. Marks(d, k) = {i \in 1..n : d[i].k = k} /\ Marks(e, k) = {i \in 1..(n + 1) : e[i].k = k}
  BY <1>1 DEF Marks
<1>4. IsFiniteSet(1..n)
  BY <1>1, FS_Interval
<1>5. IsFiniteSet(Marks(d, k))
  BY <1>3, <1>4, FS_Subset
<1>6. Marks(e, k) = IF l.k = k THEN Marks(d, k) \cup {n + 1} ELSE Marks(d, k)
  BY <1>1, <1>2, <1>3
<1>7. QED
  BY <1>1, <1>2, <1>3, <1>5, <1>6

(* What stands in the lines so far stands.                                 *)
LEMMA TextStays ==
  ASSUME NEW d, NEW l, NEW n, NEW e, Grown(d, l, n, e), NEW o, NEW body, Follows(d, o, body)
  PROVE  Follows(e, o, body)
<1>1. /\ n \in Nat /\ DOMAIN d = 1..n /\ DOMAIN e = 1..(n + 1) /\ \A i \in 1..n : e[i] = d[i]
  BY LineIsAdded
<1>2. DOMAIN d \subseteq DOMAIN e
  BY <1>1
<1>3. QED
  BY <1>1, <1>2 DEF Follows

LEMMA RegionStays ==
  ASSUME NEW d, NEW l, NEW n, NEW e, Grown(d, l, n, e), NEW o \in DOMAIN d, NEW f, Region(d, o, f)
  PROVE  Region(e, o, f)
<1>1. /\ n \in Nat /\ DOMAIN d = 1..n /\ DOMAIN e = 1..(n + 1) /\ \A i \in 1..n : e[i] = d[i]
  BY LineIsAdded
<1>2. DOMAIN d \subseteq DOMAIN e
  BY <1>1
<1>3. Follows(e, o, f.body)
  BY TextStays DEF Region
<1>4. QED
  BY <1>1, <1>2, <1>3 DEF Region

LEMMA BrokenStays ==
  ASSUME NEW d, NEW l, NEW n, NEW e, Grown(d, l, n, e), Broken(d)
  PROVE  Broken(e)
<1>1. /\ n \in Nat /\ \A i \in 1..n : e[i] = d[i]
  BY LineIsAdded
<1>2. \A k : \A i \in Marks(d, k) : i \in Marks(e, k) /\ e[i] = d[i] /\ i \in 1..n
  BY MarksGrow
<1>3. ASSUME NEW i \in Nat, NEW j \in 1..n PROVE OnlyText(e, i, j) <=> OnlyText(d, i, j)
  <2>1. \A m \in (i + 1)..(j - 1) : m \in 1..n
    BY <1>1
  <2>2. QED
    BY <1>1, <2>1 DEF OnlyText
<1>4. CASE \E i \in Marks(d, "open") : d[i].a = ""
  BY <1>2, <1>4 DEF Broken
<1>5. CASE \E i, j \in Marks(d, "open") : i # j /\ d[i].a = d[j].a
  <2>1. PICK i, j \in Marks(d, "open") : i # j /\ d[i].a = d[j].a
    BY <1>5
  <2>2. i \in Marks(e, "open") /\ j \in Marks(e, "open") /\ e[i] = d[i] /\ e[j] = d[j]
    BY <1>2
  <2>3. e[i].a = e[j].a
    BY <2>1, <2>2
  <2>4. QED
    BY <2>1, <2>2, <2>3 DEF Broken
<1>6. CASE \E i, j \in Marks(d, "open") : i < j /\ OnlyText(d, i, j)
  <2>1. PICK i, j \in Marks(d, "open") : i < j /\ OnlyText(d, i, j)
    BY <1>6
  <2>2. i \in Nat /\ j \in 1..n /\ i \in Marks(e, "open") /\ j \in Marks(e, "open")
    BY <1>1, <1>2
  <2>3. OnlyText(e, i, j)
    BY <1>3, <2>1, <2>2
  <2>4. QED
    BY <2>1, <2>2, <2>3 DEF Broken
<1>7. CASE \E c \in Marks(d, "close") : \A i \in Marks(d, "open") : i < c => ~OnlyText(d, i, c)
  <2>1. PICK c \in Marks(d, "close") : \A i \in Marks(d, "open") : i < c => ~OnlyText(d, i, c)
    BY <1>7
  <2>2. c \in Marks(e, "close") /\ c \in 1..n
    BY <1>2
  <2>3. ASSUME NEW i \in Marks(e, "open"), i < c PROVE ~OnlyText(e, i, c)
    <3>1. i \in Marks(d, "open") /\ i \in Nat
      <4>1. i # n + 1
        BY <1>1, <2>2, <2>3
      <4>2. QED
        BY <4>1, MarksGrow
    <3>2. QED
      BY <1>3, <2>1, <2>2, <2>3, <3>1
  <2>4. QED
    BY <2>2, <2>3 DEF Broken
<1>8. QED
  BY <1>4, <1>5, <1>6, <1>7 DEF Broken

(* What was matched stays matched.                                         *)
LEMMA MatchedStays ==
  ASSUME NEW d, NEW l, NEW n, NEW e, Grown(d, l, n, e), NEW found, NEW done,
         done \subseteq DOMAIN d, Matched(d, found, done)
  PROVE  Matched(e, found, done)
<1>1. \A o \in done : e[o] = d[o]
  <2>1. DOMAIN d = 1..n /\ \A i \in 1..n : e[i] = d[i]
    BY LineIsAdded
  <2>2. QED
    BY <2>1
<1>2. \A o \in done : \A f : Region(d, o, f) => Region(e, o, f)
  BY RegionStays
<1>3. QED
  BY <1>1, <1>2 DEF Matched

(* What is done began in the file.                                         *)
LEMMA DoneAreLines ==
  ASSUME NEW d, NEW p, NEW done, AllButOpen(d, p, done)
  PROVE  done \subseteq Marks(d, "open") /\ done \subseteq DOMAIN d
BY DEF AllButOpen, Marks

(* The names found are those of the lines done.                            *)
LEMMA NamesAreDone ==
  ASSUME NEW d, NEW p, NEW done, Matched(d, p.found, done)
  PROVE  C!Names(p) = {d[o].a : o \in done}
BY DEF Matched, C!Names, Region

---------------------------------------------------------------------------
(* The three kinds of lines.                                               *)
Step(d, p, done, l, n, e, q) ==
  /\ Grown(d, l, n, e) /\ p \in Readers /\ p.err = "none" /\ Paired(d, p, done)
  /\ q = C!Read(p, l)

(* Text goes to the region that is open, if there is one.                  *)
LEMMA TextStep ==
  ASSUME NEW d, NEW p, NEW done, NEW l, NEW n, NEW e, NEW q, Step(d, p, done, l, n, e, q), l.k = "text"
  PROVE  q \in Readers /\ q.err = "none" /\ Paired(e, q, done)
<1>1. Grown(d, l, n, e) /\ p \in Readers /\ p.err = "none" /\ AllButOpen(d, p, done)
      /\ Matched(d, p.found, done) /\ Cardinality(Marks(d, "close")) = Cardinality(done)
  BY DEF Step, Paired
<1>2. Marks(e, "open") = Marks(d, "open") /\ Marks(e, "close") = Marks(d, "close")
  BY <1>1, MarksGrow
<1>3. Matched(e, p.found, done)
  BY <1>1, MatchedStays, DoneAreLines
<1>4. q = IF p.open = C!Closed THEN p ELSE [p EXCEPT !.body = Append(p.body, l.b)]
  BY <1>1 DEF Step, C!Read
<1>5. CASE p.open = C!Closed
  BY <1>1, <1>2, <1>3, <1>4, <1>5 DEF Paired, AllButOpen
<1>6. CASE p.open # C!Closed
  <2>1. PICK body, more : body = p.body /\ more = Append(body, l.b)
    OBVIOUS
  <2>2. body \in Seq(STRING) /\ l.b \in STRING
    BY <1>1, <2>1 DEF Readers, Grown, C!Lines
  <2>3. PICK b \in Nat : b = Len(body)
    BY <2>2
  <2>4. more \in Seq(STRING) /\ Len(more) = b + 1 /\ more[b + 1] = l.b /\ \A m \in 1..b : more[m] = body[m]
    BY <2>1, <2>2, <2>3
  <2>5. /\ q.body = more /\ q.open = p.open /\ q.err = "none" /\ q.found = p.found
        /\ q \in Readers
    BY <1>1, <1>4, <1>6, <2>1, <2>4 DEF Readers
  <2>6. PICK c : IsOpen(d, p, c) /\ done = Marks(d, "open") \ {c}
    BY <1>1, <1>6 DEF AllButOpen
  <2>7. /\ n \in Nat /\ Len(e) = n + 1 /\ e[n + 1] = l /\ DOMAIN e = 1..(n + 1) /\ Len(d) = n
        /\ e[c] = d[c] /\ c \in Nat
    <3>1. n \in Nat /\ Len(e) = n + 1 /\ e[n + 1] = l /\ DOMAIN e = 1..(n + 1) /\ Len(d) = n
      BY <1>1, LineIsAdded DEF Grown
    <3>2. c \in Marks(d, "open")
      BY <2>6 DEF IsOpen
    <3>3. e[c] = d[c] /\ c \in Nat
      BY <1>1, <3>2, MarksGrow
    <3>4. QED
      BY <3>1, <3>3
  <2>8. Follows(e, c, more)
    <3>1. n = c + b
      BY <2>1, <2>3, <2>6, <2>7 DEF IsOpen
    <3>2. Follows(e, c, body)
      BY <1>1, <2>1, <2>6, TextStays DEF IsOpen
    <3>3. \A m \in 1..(b + 1) : m \in 1..b \/ m = b + 1
      BY <2>3
    <3>4. c + (b + 1) = n + 1 /\ n + 1 \in DOMAIN e
      BY <2>3, <2>7, <3>1
    <3>5. QED
      BY <2>3, <2>4, <2>7, <3>2, <3>3, <3>4 DEF Follows
  <2>9. IsOpen(e, q, c)
    <3>1. c \in Marks(d, "open") /\ d[c].a = p.open /\ p.open # "" /\ Len(d) = c + b
      BY <2>1, <2>3, <2>6 DEF IsOpen
    <3>2. Len(e) = c + (b + 1)
      <4>1. n = c + b /\ n \in Nat /\ c \in Nat /\ Len(e) = n + 1
        BY <2>7, <3>1
      <4>2. n + 1 = c + (b + 1)
        BY <2>3, <4>1
      <4>3. QED
        BY <4>1, <4>2
    <3>3. QED
      BY <1>2, <2>4, <2>5, <2>7, <2>8, <3>1, <3>2 DEF IsOpen
  <2>10. AllButOpen(e, q, done)
    BY <1>2, <1>6, <2>5, <2>6, <2>9 DEF AllButOpen
  <2>11. QED
    BY <1>1, <1>2, <1>3, <2>5, <2>10 DEF Paired
<1>7. QED
  BY <1>5, <1>6

(* An opening marker opens a region, or cannot be paired.                  *)
LEMMA OpenStep ==
  ASSUME NEW d, NEW p, NEW done, NEW l, NEW n, NEW e, NEW q, Step(d, p, done, l, n, e, q), l.k = "open"
  PROVE  /\ q \in Readers
         /\ q.err = "none" => Paired(e, q, done)
         /\ q.err # "none" => Broken(e)
<1>1. Grown(d, l, n, e) /\ p \in Readers /\ p.err = "none" /\ AllButOpen(d, p, done)
      /\ Matched(d, p.found, done) /\ Cardinality(Marks(d, "close")) = Cardinality(done)
  BY DEF Step, Paired
<1>2. /\ Marks(e, "open") = Marks(d, "open") \cup {n + 1} /\ Marks(e, "close") = Marks(d, "close")
      /\ n + 1 \notin Marks(d, "open")
  BY <1>1, MarksGrow
<1>3. n \in Nat /\ Len(e) = n + 1 /\ e[n + 1] = l /\ Len(d) = n /\ l.a # C!Closed /\ l.a \in STRING
  BY <1>1, LineIsAdded DEF Grown, C!Lines
<1>4. q = C!Opening(p, l)
  BY <1>1 DEF Step, C!Read
<1>5. CASE p.open # C!Closed
  <2>1. q = [p EXCEPT !.err = "Unbalanced"]
    BY <1>4, <1>5 DEF C!Opening
  <2>2. q \in Readers /\ q.err # "none"
    BY <1>1, <2>1 DEF Readers, Faults
  <2>3. PICK c : IsOpen(d, p, c)
    BY <1>1, <1>5 DEF AllButOpen
  <2>4. PICK body : body = p.body
    OBVIOUS
  <2>5. Follows(e, c, body) /\ n = c + Len(body) /\ Len(body) \in Nat /\ c \in Nat /\ c \in Marks(d, "open")
    <3>1. c \in Marks(d, "open") /\ Follows(d, c, body) /\ n = c + Len(body)
      BY <1>3, <2>3, <2>4 DEF IsOpen
    <3>2. Follows(e, c, body)
      BY <1>1, <3>1, TextStays
    <3>3. c \in Nat
      BY <1>1, <3>1, MarksGrow
    <3>4. body \in Seq(STRING)
      BY <1>1, <2>4 DEF Readers
    <3>5. Len(body) \in Nat
      BY <3>4
    <3>6. QED
      BY <3>1, <3>2, <3>3, <3>5
  <2>6. OnlyText(e, c, n + 1)
    <3>1. ASSUME NEW m \in (c + 1)..((n + 1) - 1) PROVE e[m].k = "text"
      <4>1. m - c \in 1..Len(body) /\ c + (m - c) = m
        BY <1>3, <2>5
      <4>2. e[c + (m - c)].k = "text"
        BY <2>5, <4>1 DEF Follows
      <4>3. QED
        BY <4>1, <4>2
    <3>2. QED
      BY <3>1 DEF OnlyText
  <2>7. c < n + 1 /\ c \in Marks(e, "open") /\ n + 1 \in Marks(e, "open")
    BY <1>2, <1>3, <2>5
  <2>8. QED
    BY <2>2, <2>6, <2>7 DEF Broken
<1>6. CASE p.open = C!Closed /\ l.a = ""
  <2>1. q = [p EXCEPT !.err = "Unnamed"]
    BY <1>4, <1>6 DEF C!Opening
  <2>2. q \in Readers /\ q.err # "none"
    BY <1>1, <2>1 DEF Readers, Faults
  <2>3. Broken(e)
    BY <1>2, <1>3, <1>6 DEF Broken
  <2>4. QED
    BY <2>2, <2>3
<1>7. CASE p.open = C!Closed /\ l.a # ""
  <2>1. q = [p EXCEPT !.open = l.a, !.body = <<>>]
    BY <1>4, <1>7 DEF C!Opening
  <2>2. q \in Readers /\ q.err = "none" /\ q.open = l.a /\ q.body = <<>> /\ q.found = p.found
    <3>1. p = [err |-> p.err, open |-> p.open, body |-> p.body, found |-> p.found]
          /\ p.found \in Regions
      BY <1>1 DEF Readers
    <3>2. q = [err |-> "none", open |-> l.a, body |-> <<>>, found |-> p.found]
      BY <1>1, <2>1, <3>1
    <3>3. <<>> \in Seq(STRING)
      OBVIOUS
    <3>4. q \in Readers
      BY <1>3, <3>1, <3>2, <3>3 DEF Readers
    <3>5. QED
      BY <3>2, <3>4
  <2>3. IsOpen(e, q, n + 1)
    <3>1. Len(q.body) = 0
      BY <2>2
    <3>2. Follows(e, n + 1, q.body)
      BY <3>1 DEF Follows
    <3>3. QED
      <4>1. n + 1 \in Marks(e, "open") /\ e[n + 1].a = q.open /\ q.open # ""
        BY <1>2, <1>3, <1>7, <2>2
      <4>2. Len(e) = (n + 1) + Len(q.body)
        BY <1>3, <3>1
      <4>3. QED
        BY <3>2, <4>1, <4>2 DEF IsOpen
  <2>4. done = Marks(e, "open") \ {n + 1}
    BY <1>1, <1>2, <1>7 DEF AllButOpen
  <2>5. AllButOpen(e, q, done)
    BY <1>3, <2>2, <2>3, <2>4 DEF AllButOpen
  <2>6. Matched(e, q.found, done)
    BY <1>1, <2>2, MatchedStays, DoneAreLines
  <2>7. QED
    BY <1>1, <1>2, <2>2, <2>5, <2>6 DEF Paired
<1>8. QED
  BY <1>5, <1>6, <1>7

(* A closing marker ends the region that is open, or there is none, or its *)
(* name is taken.                                                          *)
LEMMA CloseStep ==
  ASSUME NEW d, NEW p, NEW done, NEW l, NEW n, NEW e, NEW q, Step(d, p, done, l, n, e, q), l.k = "close"
  PROVE  /\ q \in Readers
         /\ q.err = "none" => \E all : Paired(e, q, all)
         /\ q.err # "none" => Broken(e)
<1>1. Grown(d, l, n, e) /\ p \in Readers /\ p.err = "none" /\ AllButOpen(d, p, done)
      /\ Matched(d, p.found, done) /\ Cardinality(Marks(d, "close")) = Cardinality(done)
  BY DEF Step, Paired
<1>2. /\ Marks(e, "open") = Marks(d, "open") /\ Marks(e, "close") = Marks(d, "close") \cup {n + 1}
      /\ n + 1 \notin Marks(d, "close") /\ IsFiniteSet(Marks(d, "close")) /\ IsFiniteSet(Marks(d, "open"))
  BY <1>1, MarksGrow
<1>3. /\ n \in Nat /\ Len(e) = n + 1 /\ e[n + 1] = l /\ Len(d) = n
      /\ DOMAIN d = 1..n /\ DOMAIN e = 1..(n + 1) /\ \A i \in 1..n : e[i] = d[i]
  BY <1>1, LineIsAdded DEF Grown
<1>4. q = C!Closing(p)
  BY <1>1 DEF Step, C!Read
<1>5. Matched(e, p.found, done) /\ done \subseteq DOMAIN d /\ done \subseteq Marks(d, "open")
  BY <1>1, MatchedStays, DoneAreLines
<1>6. CASE p.open = C!Closed
  <2>1. q = [p EXCEPT !.err = "Unbalanced"]
    BY <1>4, <1>6 DEF C!Closing
  <2>2. q \in Readers /\ q.err # "none"
    BY <1>1, <2>1 DEF Readers, Faults
  <2>3. ASSUME NEW i \in Marks(e, "open"), i < n + 1, OnlyText(e, i, n + 1) PROVE FALSE
    <3>1. i \in done
      BY <1>1, <1>2, <1>6, <2>3 DEF AllButOpen
    <3>2. PICK j \in DOMAIN p.found : Region(d, i, p.found[j])
      BY <1>1, <3>1 DEF Matched
    <3>3. PICK b : b = Len(p.found[j].body)
      OBVIOUS
    <3>4. p.found[j].body \in Seq(STRING)
      <4>1. PICK R, found : R = [name : STRING, body : Seq(STRING)] /\ found = p.found
        OBVIOUS
      <4>2. found \in Seq(R) /\ j \in DOMAIN found
        BY <1>1, <4>1 DEF Readers, Regions
      <4>3. found[j] \in R
        BY <4>2
      <4>4. QED
        BY <4>1, <4>3
    <3>5. b \in Nat
      BY <3>3, <3>4
    <3>6. i + b + 1 \in 1..n /\ d[i + b + 1].k = "close"
      BY <1>3, <3>2, <3>3 DEF Region
    <3>7. i \in Nat
      BY <1>3, <1>5, <3>1
    <3>8. PICK m : m = i + b + 1
      OBVIOUS
    <3>9. m \in (i + 1)..((n + 1) - 1)
      BY <1>3, <3>5, <3>6, <3>7, <3>8
    <3>10. e[m].k = "text"
      BY <2>3, <3>9 DEF OnlyText
    <3>11. e[m].k = "close"
      BY <1>3, <3>6, <3>8
    <3>12. QED
      BY <3>10, <3>11
  <2>4. Broken(e)
    <3>1. n + 1 \in Marks(e, "close") /\ \A i \in Marks(e, "open") : i < n + 1 => ~OnlyText(e, i, n + 1)
      BY <1>2, <2>3
    <3>2. QED
      BY <3>1 DEF Broken
  <2>5. QED
    BY <2>2, <2>4
<1>7. ASSUME p.open # C!Closed
      PROVE  \E c : /\ IsOpen(d, p, c) /\ done = Marks(d, "open") \ {c} /\ c \in Marks(d, "open")
                    /\ d[c].a = p.open /\ c \in DOMAIN d
  BY <1>1, <1>7 DEF AllButOpen, IsOpen, Marks
<1>8. CASE p.open # C!Closed /\ p.open \in C!Names(p)
  <2>1. q = [p EXCEPT !.err = "Duplicate"]
    BY <1>4, <1>8 DEF C!Closing
  <2>2. q \in Readers /\ q.err # "none"
    BY <1>1, <2>1 DEF Readers, Faults
  <2>3. PICK c : /\ done = Marks(d, "open") \ {c} /\ c \in Marks(d, "open") /\ d[c].a = p.open
                 /\ c \in DOMAIN d
    BY <1>7, <1>8
  <2>4. PICK o \in done : d[o].a = p.open
    BY <1>1, <1>8, NamesAreDone
  <2>5. o # c /\ o \in Marks(e, "open") /\ c \in Marks(e, "open") /\ d[o].a = d[c].a
    BY <1>2, <2>3, <2>4
  <2>6. e[o].a = e[c].a
    BY <1>3, <1>5, <2>3, <2>4, <2>5
  <2>7. QED
    BY <2>2, <2>5, <2>6 DEF Broken
<1>9. CASE p.open # C!Closed /\ p.open \notin C!Names(p)
  <2>1. PICK f : f = [name |-> p.open, body |-> p.body]
    OBVIOUS
  <2>2. PICK found, more : found = p.found /\ more = Append(found, f)
    OBVIOUS
  <2>3. q = [p EXCEPT !.found = more, !.open = C!Closed]
    BY <1>4, <1>9, <2>1, <2>2 DEF C!Closing
  <2>4. found \in Regions /\ f \in [name : STRING, body : Seq(STRING)]
    BY <1>1, <1>9, <2>1, <2>2 DEF Readers
  <2>5. more \in Regions
    BY <2>2, <2>4 DEF Regions
  <2>6. q \in Readers /\ q.err = "none" /\ q.open = C!Closed /\ q.found = more
    BY <1>1, <2>3, <2>5 DEF Readers
  <2>7. PICK k \in Nat : DOMAIN found = 1..k /\ DOMAIN more = 1..(k + 1) /\ more[k + 1] = f
                         /\ \A i \in 1..k : more[i] = found[i]
    <3>1. PICK R : R = [name : STRING, body : Seq(STRING)]
      OBVIOUS
    <3>2. found \in Seq(R) /\ f \in R
      BY <2>4, <3>1 DEF Regions
    <3>3. Len(found) \in Nat /\ DOMAIN found = 1..Len(found) /\ DOMAIN more = 1..(Len(found) + 1)
          /\ more[Len(found) + 1] = f /\ \A i \in 1..Len(found) : more[i] = found[i]
      BY <2>2, <3>2
    <3>4. QED
      BY <3>3
  <2>8. PICK c : /\ IsOpen(d, p, c) /\ done = Marks(d, "open") \ {c} /\ c \in Marks(d, "open")
                 /\ d[c].a = p.open /\ c \in DOMAIN d
    BY <1>7, <1>9
  <2>9. PICK all : all = Marks(e, "open")
    OBVIOUS
  <2>10. all = done \cup {c} /\ c \notin done
    BY <1>2, <2>8, <2>9
  <2>11. Region(e, c, f)
    <3>1. f.name = p.open /\ f.body = p.body
      BY <2>1
    <3>2. Follows(e, c, f.body)
      BY <1>1, <2>8, <3>1, TextStays DEF IsOpen
    <3>3. c + Len(f.body) = n
      BY <1>3, <2>8, <3>1 DEF IsOpen
    <3>4. e[c].a = f.name
      BY <1>3, <2>8, <3>1
    <3>5. n + 1 \in DOMAIN e /\ e[n + 1].k = "close"
      BY <1>3
    <3>6. QED
      BY <3>2, <3>3, <3>4, <3>5 DEF Region
  <2>12. Matched(e, more, all)
    <3>1. ASSUME NEW o1 \in all, NEW o2 \in all, e[o1].a = e[o2].a PROVE o1 = o2
      <4>1. \A o \in done : e[o].a # e[c].a
        <5>1. \A o \in done : d[o].a # p.open
          <6>1. C!Names(p) = {d[o].a : o \in done}
            BY <1>1, NamesAreDone
          <6>2. QED
            BY <1>9, <6>1
        <5>2. QED
          BY <1>3, <1>5, <2>8, <5>1
      <4>2. QED
        BY <1>5, <2>10, <3>1, <4>1 DEF Matched
    <3>2. ASSUME NEW i \in DOMAIN more PROVE \E o \in all : Region(e, o, more[i])
      <4>1. i \in 1..k \/ i = k + 1
        BY <2>7
      <4>2. i \in 1..k => \E o \in done : Region(e, o, more[i])
        BY <1>5, <2>2, <2>7 DEF Matched
      <4>3. QED
        BY <2>7, <2>10, <2>11, <4>1, <4>2
    <3>3. ASSUME NEW o \in all PROVE \E i \in DOMAIN more : Region(e, o, more[i])
      <4>1. CASE o = c
        <5>1. k + 1 \in DOMAIN more
          BY <2>7
        <5>2. QED
          BY <2>7, <2>11, <4>1, <5>1
      <4>2. CASE o \in done
        <5>1. PICK i \in DOMAIN found : Region(e, o, found[i])
          BY <1>5, <2>2, <4>2 DEF Matched
        <5>2. i \in DOMAIN more /\ more[i] = found[i]
          BY <2>7
        <5>3. QED
          BY <5>1, <5>2
      <4>3. QED
        BY <2>10, <4>1, <4>2
    <3>4. QED
      BY <3>1, <3>2, <3>3 DEF Matched
  <2>13. Cardinality(Marks(e, "close")) = Cardinality(all)
    <3>1. IsFiniteSet(done)
      BY <1>2, <1>5, FS_Subset
    <3>2. Cardinality(all) = Cardinality(done) + 1
      BY <2>10, <3>1, FS_AddElement
    <3>3. Cardinality(Marks(e, "close")) = Cardinality(Marks(d, "close")) + 1
      BY <1>2, FS_AddElement
    <3>4. QED
      BY <1>1, <3>2, <3>3
  <2>14. AllButOpen(e, q, all)
    BY <2>6, <2>9 DEF AllButOpen
  <2>15. QED
    BY <2>6, <2>12, <2>13, <2>14 DEF Paired
<1>10. QED
  BY <1>6, <1>8, <1>9

(* Any line.                                                               *)
LEMMA ReaderStaysSound ==
  ASSUME NEW d, NEW p, NEW l, NEW n, NEW e, NEW q, Sound(d, p), Grown(d, l, n, e), q = C!Read(p, l)
  PROVE  Sound(e, q)
<1>1. d \in Seq(C!Lines) /\ p \in Readers /\ e \in Seq(C!Lines)
  BY LineIsAdded DEF Sound
<1>2. CASE p.err # "none"
  <2>1. q = p
    BY <1>2 DEF C!Read
  <2>2. Broken(e)
    BY <1>2, BrokenStays DEF Sound
  <2>3. QED
    BY <1>1, <1>2, <2>1, <2>2 DEF Sound
<1>3. CASE p.err = "none"
  <2>1. PICK done : Paired(d, p, done)
    BY <1>3 DEF Sound
  <2>2. Step(d, p, done, l, n, e, q)
    BY <1>1, <1>3, <2>1 DEF Step
  <2>3. l.k \in {"open", "close", "text"}
    BY DEF Grown, C!Lines
  <2>4. q \in Readers /\ (q.err = "none" => \E all : Paired(e, q, all)) /\ (q.err # "none" => Broken(e))
    BY <2>2, <2>3, TextStep, OpenStep, CloseStep
  <2>5. QED
    BY <1>1, <2>4 DEF Sound
<1>4. QED
  BY <1>2, <1>3

---------------------------------------------------------------------------
(* What the comparison with the seed amounts to.                           *)
SeedStands(d, name, i) ==
  LET n == Len(Expected[name])
  IN  /\ i + n + 1 \in DOMAIN d
      /\ d[i].k = "open" /\ d[i].a = name /\ d[i + n + 1].k = "close"
      /\ \A m \in 1..n : d[i + m].k = "text" /\ d[i + m].b = Expected[name][m]

IsSeed(d) ==
  /\ \A name \in DOMAIN Expected : Cardinality({i \in Marks(d, "open") : d[i].a = name}) = 1
  /\ \A i \in Marks(d, "open") : d[i].a \in DOMAIN Expected /\ SeedStands(d, d[i].a, i)
  /\ Cardinality(Marks(d, "close")) = Cardinality(Marks(d, "open"))

(* A version has no breach if what was read is what the binary expects.    *)
LEMMA NoBreach ==
  ASSUME NEW p
  PROVE  C!Breaches(p) = {} <=>
           /\ p.err = "none" /\ p.open = C!Closed /\ C!Names(p) = DOMAIN Expected
           /\ \A j \in DOMAIN p.found :
                p.found[j].name \in DOMAIN Expected => p.found[j].body = Expected[p.found[j].name]
<1> DEFINE missing == {<<"Missing", n>> : n \in DOMAIN Expected \ C!Names(p)}
           these   == {j \in DOMAIN p.found : /\ p.found[j].name \in DOMAIN Expected
                                              /\ p.found[j].body # Expected[p.found[j].name]}
           changed == {<<"Changed", p.found[i].name>> : i \in these}
           unknown == {<<"Unknown", n>> : n \in C!Names(p) \ DOMAIN Expected}
<1>1. C!Breaches(p) = IF p.err # "none" \/ p.open # C!Closed THEN {<<"Malformed", "">>}
                       ELSE missing \cup changed \cup unknown
  BY DEF C!Breaches
<1>2. missing = {} <=> DOMAIN Expected \subseteq C!Names(p)
  OBVIOUS
<1>3. unknown = {} <=> C!Names(p) \subseteq DOMAIN Expected
  OBVIOUS
<1>4. changed = {} <=> these = {}
  OBVIOUS
<1>5. these = {} <=> \A j \in DOMAIN p.found :
                    p.found[j].name \in DOMAIN Expected => p.found[j].body = Expected[p.found[j].name]
  OBVIOUS
<1>6. missing \cup changed \cup unknown = {} <=> missing = {} /\ changed = {} /\ unknown = {}
  OBVIOUS
<1> HIDE DEF missing, changed, unknown, these
<1>7. QED
  BY <1>1, <1>2, <1>3, <1>4, <1>5, <1>6

(* No breach: the regions found are the seed's, and they are all there is. *)
LEMMA AcceptedIsSeed ==
  ASSUME NEW d, NEW p, Sound(d, p), C!Breaches(p) = {}
  PROVE  IsSeed(d)
<1>1. /\ p.err = "none" /\ p.open = C!Closed /\ C!Names(p) = DOMAIN Expected
      /\ \A j \in DOMAIN p.found :
           p.found[j].name \in DOMAIN Expected => p.found[j].body = Expected[p.found[j].name]
  BY NoBreach
<1>2. PICK done : Paired(d, p, done)
  BY <1>1 DEF Sound
<1>3. done = Marks(d, "open") /\ Matched(d, p.found, done)
      /\ Cardinality(Marks(d, "close")) = Cardinality(done)
  BY <1>1, <1>2 DEF Paired, AllButOpen
<1>4. DOMAIN Expected = {d[o].a : o \in done}
  BY <1>1, <1>3, NamesAreDone
<1>5. ASSUME NEW name \in DOMAIN Expected
      PROVE  Cardinality({i \in Marks(d, "open") : d[i].a = name}) = 1
  <2>1. PICK o \in done : d[o].a = name
    BY <1>4
  <2>2. {i \in Marks(d, "open") : d[i].a = name} = {o}
    BY <1>3, <2>1 DEF Matched
  <2>3. QED
    BY <2>2, FS_Singleton
<1>6. ASSUME NEW i \in Marks(d, "open")
      PROVE  d[i].a \in DOMAIN Expected /\ SeedStands(d, d[i].a, i)
  <2>1. PICK j \in DOMAIN p.found : Region(d, i, p.found[j])
    BY <1>3 DEF Matched
  <2>2. d[i].a \in DOMAIN Expected
    BY <1>3, <1>4
  <2>3. d[i].a = p.found[j].name
    BY <2>1 DEF Region
  <2>4. p.found[j].body = Expected[d[i].a]
    BY <1>1, <2>2, <2>3
  <2>5. d[i].k = "open"
    BY DEF Marks
  <2>6. QED
    BY <2>1, <2>2, <2>4, <2>5 DEF SeedStands, Region, Follows
<1>7. QED
  BY <1>3, <1>5, <1>6 DEF IsSeed

(* From an opening marker of the seed to its closing one.                  *)
LEMMA SeedRuns ==
  ASSUME NEW d \in Seq(C!Lines), IsSeed(d), C!ContractConstants, NEW i \in Marks(d, "open")
  PROVE  \E j \in Marks(d, "close") :
           /\ j = i + Len(Expected[d[i].a]) + 1 /\ i < j /\ OnlyText(d, i, j) /\ i \in Nat /\ j \in Nat
<1>1. d[i].a \in DOMAIN Expected /\ SeedStands(d, d[i].a, i)
  BY DEF IsSeed
<1>2. PICK n : n = Len(Expected[d[i].a])
  OBVIOUS
<1>3. Expected[d[i].a] \in Seq(STRING)
  BY <1>1 DEF C!ContractConstants
<1>4. n \in Nat
  BY <1>2, <1>3
<1>5. i \in Nat
  BY DEF Marks
<1>6. PICK j : j = i + n + 1
  OBVIOUS
<1>7. j \in Marks(d, "close")
  BY <1>1, <1>2, <1>6 DEF SeedStands, Marks
<1>8. OnlyText(d, i, j)
  <2>1. ASSUME NEW m \in (i + 1)..(j - 1) PROVE d[m].k = "text"
    <3>1. m - i \in 1..n /\ i + (m - i) = m
      BY <1>4, <1>5, <1>6
    <3>2. d[i + (m - i)].k = "text"
      BY <1>1, <1>2, <3>1 DEF SeedStands
    <3>3. QED
      BY <3>1, <3>2
  <2>2. QED
    BY <2>1 DEF OnlyText
<1>9. i < j /\ j \in Nat
  BY <1>4, <1>5, <1>6
<1>10. QED
  BY <1>2, <1>5, <1>6, <1>7, <1>8, <1>9

(* Two runs of text from one opening marker end at one place, and no       *)
(* marker is within.                                                       *)
LEMMA RunsEnd ==
  ASSUME NEW d, NEW i \in Nat, NEW j \in Nat, NEW k \in Nat, i < j, i < k,
         OnlyText(d, i, j), OnlyText(d, i, k),
         d[j].k # "text", d[k].k # "text"
  PROVE  j = k
<1>1. ~(j < k)
  <2>1. j < k => j \in (i + 1)..(k - 1)
    OBVIOUS
  <2>2. QED
    BY <2>1 DEF OnlyText
<1>2. ~(k < j)
  <2>1. k < j => k \in (i + 1)..(j - 1)
    OBVIOUS
  <2>2. QED
    BY <2>1 DEF OnlyText
<1>3. QED
  BY <1>1, <1>2

(* The seed's regions, as many closing markers as opening ones: every      *)
(* marker has its partner, because the map from an opening marker to the   *)
(* end of its region is then onto the closing ones.                        *)
LEMMA SeedIsNotBroken ==
  ASSUME NEW d \in Seq(C!Lines), IsSeed(d), C!ContractConstants
  PROVE  ~Broken(d)
<1> DEFINE End(i) == i + Len(Expected[d[i].a]) + 1
           f == [i \in Marks(d, "open") |-> End(i)]
<1>1. /\ IsFiniteSet(Marks(d, "open")) /\ IsFiniteSet(Marks(d, "close"))
      /\ \A i \in DOMAIN d : i \in Nat
  <2>1. Len(d) \in Nat /\ DOMAIN d = 1..Len(d)
    OBVIOUS
  <2>2. IsFiniteSet(1..Len(d))
    BY <2>1, FS_Interval
  <2>3. \A k : Marks(d, k) \subseteq 1..Len(d)
    BY <2>1 DEF Marks
  <2>4. QED
    BY <2>1, <2>2, <2>3, FS_Subset
<1>2. \A i \in Marks(d, "open") : /\ End(i) \in Marks(d, "close") /\ i < End(i) /\ OnlyText(d, i, End(i))
                                  /\ i \in Nat /\ End(i) \in Nat
  BY SeedRuns
<1>3. \A i \in Marks(d, "open") : d[i].k = "open"
  BY DEF Marks
<1>4. \A i \in Marks(d, "close") : d[i].k = "close"
  BY DEF Marks
<1> HIDE DEF End
<1>5. ASSUME NEW i \in Marks(d, "open"), NEW j \in Marks(d, "open"), i < j, OnlyText(d, i, j) PROVE FALSE
  <2>1. j = End(i)
    BY <1>2, <1>3, <1>4, <1>5, RunsEnd
  <2>2. QED
    BY <1>2, <1>3, <1>4, <2>1
<1>6. f \in [Marks(d, "open") -> Marks(d, "close")]
  BY <1>2
<1>7. ASSUME NEW i \in Marks(d, "open"), NEW j \in Marks(d, "open"), i < j PROVE End(i) # End(j)
  <2>1. SUFFICES ASSUME End(i) = End(j) PROVE FALSE
    OBVIOUS
  <2>2. j \in (i + 1)..(End(i) - 1)
    BY <1>2, <1>7, <2>1
  <2>3. d[j].k = "text"
    BY <1>2, <2>2 DEF OnlyText
  <2>4. QED
    BY <1>3, <2>3
<1>8. \A i, j \in Marks(d, "open") : f[i] = f[j] => i = j
  <2>1. ASSUME NEW i \in Marks(d, "open"), NEW j \in Marks(d, "open"), End(i) = End(j) PROVE i = j
    <3>1. i \in Nat /\ j \in Nat /\ ~(i < j) /\ ~(j < i)
      BY <1>2, <1>7, <2>1
    <3>2. QED
      BY <3>1
  <2>2. QED
    BY <2>1
<1>9. f \in Injection(Marks(d, "open"), Marks(d, "close"))
  <2> HIDE DEF f
  <2> QED
    BY <1>6, <1>8 DEF Injection, IsInjective
<1>10. f \in Surjection(Marks(d, "open"), Marks(d, "close"))
  <2>1. Cardinality(Marks(d, "open")) = Cardinality(Marks(d, "close"))
    BY DEF IsSeed
  <2> HIDE DEF f
  <2>2. QED
    BY <1>1, <1>9, <2>1, FS_Injection
<1>11. ASSUME NEW c \in Marks(d, "close") PROVE \E i \in Marks(d, "open") : i < c /\ OnlyText(d, i, c)
  <2>1. PICK i \in Marks(d, "open") : f[i] = c
    <3> HIDE DEF f
    <3> QED
      BY <1>10 DEF Surjection
  <2>2. c = End(i)
    BY <2>1
  <2>3. QED
    BY <1>2, <2>2
<1>12. ASSUME NEW i \in Marks(d, "open"), NEW j \in Marks(d, "open"), d[i].a = d[j].a PROVE i = j
  <2>1. PICK name : name = d[i].a
    OBVIOUS
  <2>2. PICK S : S = {x \in Marks(d, "open") : d[x].a = name}
    OBVIOUS
  <2>3. IsFiniteSet(S)
    BY <1>1, <2>2, FS_Subset
  <2>4. Cardinality(S) = 1
    BY <2>1, <2>2 DEF IsSeed
  <2>5. PICK x : S = {x}
    BY <2>3, <2>4, FS_Singleton
  <2>6. i \in S /\ j \in S
    BY <1>12, <2>1, <2>2
  <2>7. QED
    BY <2>5, <2>6
<1>13. \A i \in Marks(d, "open") : d[i].a # ""
  BY DEF IsSeed, C!ContractConstants
<1>14. QED
  BY <1>5, <1>11, <1>12, <1>13 DEF Broken

(* So the reader fails nowhere, closes every region and finds the seed's.  *)
LEMMA SeedIsAccepted ==
  ASSUME NEW d, NEW p, Sound(d, p), IsSeed(d), C!ContractConstants
  PROVE  C!Breaches(p) = {}
<1>1. d \in Seq(C!Lines) /\ p \in Readers /\ p.err = "none"
  BY SeedIsNotBroken DEF Sound
<1>2. PICK done : Paired(d, p, done)
  BY <1>1 DEF Sound
<1>3. p.open = C!Closed
  <2>1. SUFFICES ASSUME p.open # C!Closed PROVE FALSE
    OBVIOUS
  <2>2. PICK c : IsOpen(d, p, c)
    BY <1>2, <2>1 DEF Paired, AllButOpen
  <2>3. PICK j \in Marks(d, "close") : c < j /\ OnlyText(d, c, j) /\ c \in Nat /\ j \in Nat
    BY <1>1, <2>2, SeedRuns DEF IsOpen
  <2>4. PICK body : body = p.body
    OBVIOUS
  <2>5. Len(d) = c + Len(body) /\ Follows(d, c, body) /\ body \in Seq(STRING)
    BY <1>1, <2>2, <2>4 DEF IsOpen, Readers
  <2>6. j \in DOMAIN d /\ d[j].k = "close" /\ Len(body) \in Nat /\ DOMAIN d = 1..Len(d)
    BY <1>1, <2>5 DEF Marks
  <2>7. j - c \in 1..Len(body) /\ c + (j - c) = j
    BY <2>3, <2>5, <2>6
  <2>8. d[c + (j - c)].k = "text"
    BY <2>5, <2>7 DEF Follows
  <2>9. QED
    BY <2>6, <2>7, <2>8
<1>4. done = Marks(d, "open") /\ Matched(d, p.found, done)
  BY <1>2, <1>3 DEF Paired, AllButOpen
<1>5. C!Names(p) = {d[o].a : o \in done}
  BY <1>4, NamesAreDone
<1>6. C!Names(p) = DOMAIN Expected
  <2>1. C!Names(p) \subseteq DOMAIN Expected
    BY <1>4, <1>5 DEF IsSeed
  <2>2. ASSUME NEW name \in DOMAIN Expected PROVE name \in C!Names(p)
    <3>1. PICK S : S = {i \in Marks(d, "open") : d[i].a = name}
      OBVIOUS
    <3>2. S # {}
      <4>1. Cardinality(S) = 1
        BY <3>1 DEF IsSeed
      <4>2. Cardinality({}) = 0
        BY FS_EmptySet
      <4>3. QED
        BY <4>1, <4>2
    <3>3. QED
      BY <1>4, <1>5, <3>1, <3>2
  <2>3. QED
    BY <2>1, <2>2
<1>7. ASSUME NEW j \in DOMAIN p.found
      PROVE  p.found[j].body = Expected[p.found[j].name]
  <2>1. PICK o \in Marks(d, "open") : Region(d, o, p.found[j])
    BY <1>4 DEF Matched
  <2>2. PICK name, body, seed : name = d[o].a /\ body = p.found[j].body /\ seed = Expected[name]
    OBVIOUS
  <2>3. p.found[j].name = name
    BY <2>1, <2>2 DEF Region
  <2>4. body \in Seq(STRING)
    <3>1. PICK R, found : R = [name : STRING, body : Seq(STRING)] /\ found = p.found
      OBVIOUS
    <3>2. found \in Seq(R) /\ j \in DOMAIN found
      BY <1>1, <3>1 DEF Readers, Regions
    <3>3. found[j] \in R
      BY <3>2
    <3>4. QED
      BY <2>2, <3>1, <3>3
  <2>5. seed \in Seq(STRING) /\ SeedStands(d, name, o)
    BY <2>2 DEF IsSeed, C!ContractConstants
  <2>6. o \in Nat /\ Len(body) \in Nat /\ Len(seed) \in Nat
    BY <1>1, <2>4, <2>5 DEF Marks
  <2>7. PICK e : e = o + Len(body) + 1
    OBVIOUS
  <2>8. d[e].k = "close" /\ OnlyText(d, o, e) /\ o < e /\ e \in Nat
    <3>1. d[e].k = "close" /\ Follows(d, o, body)
      BY <2>1, <2>2, <2>7 DEF Region
    <3>2. ASSUME NEW m \in (o + 1)..(e - 1) PROVE d[m].k = "text"
      <4>1. m - o \in 1..Len(body) /\ o + (m - o) = m
        BY <2>6, <2>7
      <4>2. d[o + (m - o)].k = "text"
        BY <3>1, <4>1 DEF Follows
      <4>3. QED
        BY <4>1, <4>2
    <3>3. QED
      BY <2>6, <2>7, <3>1, <3>2 DEF OnlyText
  <2>9. PICK k \in Marks(d, "close") :
          k = o + Len(seed) + 1 /\ o < k /\ OnlyText(d, o, k) /\ k \in Nat
    BY <1>1, <2>2, SeedRuns
  <2>10. d[k].k = "close"
    BY DEF Marks
  <2>11. e = k
    BY <2>6, <2>8, <2>9, <2>10, RunsEnd
  <2>12. Len(body) = Len(seed)
    BY <2>6, <2>7, <2>9, <2>11
  <2>13. \A m \in 1..Len(body) : body[m] = seed[m]
    BY <2>1, <2>2, <2>5, <2>12 DEF Region, Follows, SeedStands
  <2>14. body = seed
    BY <2>4, <2>5, <2>12, <2>13
  <2>15. QED
    BY <2>2, <2>3, <2>14
<1>8. QED
  BY <1>1, <1>3, <1>6, <1>7, NoBreach

---------------------------------------------------------------------------
ContractInductive == Sound(doc, r)

(* An empty file.                                                          *)
LEMMA ContractStarts == C!Init => ContractInductive
<1>1. SUFFICES ASSUME C!Init PROVE Sound(doc, r)
  BY DEF ContractInductive
<1>2. doc \in Seq(C!Lines) /\ r.err = "none" /\ r.open = C!Closed /\ r.body = <<>> /\ r.found = <<>>
  BY <1>1 DEF C!Init, C!Fresh
<1>3. r \in Readers
  <2>1. <<>> \in Seq(STRING) /\ <<>> \in Regions
    BY DEF Regions
  <2>2. r = [err |-> "none", open |-> C!Closed, body |-> <<>>, found |-> <<>>]
    BY <1>1 DEF C!Init, C!Fresh
  <2>3. QED
    BY <2>1, <2>2 DEF Readers
<1>4. \A k : Marks(doc, k) = {}
  BY <1>1 DEF Marks, C!Init
<1>5. Paired(doc, r, {})
  <2>1. AllButOpen(doc, r, {})
    BY <1>2, <1>4 DEF AllButOpen
  <2>2. Matched(doc, r.found, {})
    <3>1. DOMAIN r.found = {}
      BY <1>2
    <3>2. QED
      BY <3>1 DEF Matched
  <2>3. Cardinality(Marks(doc, "close")) = Cardinality({})
    BY <1>4
  <2>4. QED
    BY <2>1, <2>2, <2>3 DEF Paired
<1>6. QED
  BY <1>2, <1>3, <1>5 DEF Sound

(* A line more, or none.                                                   *)
LEMMA ContractStands ==
  ASSUME C!ContractConstants, ContractInductive, [C!Next]_C!vars
  PROVE  ContractInductive'
<1>1. CASE UNCHANGED C!vars
  <2>1. doc' = doc /\ r' = r
    BY <1>1 DEF C!vars
  <2>2. QED
    BY <2>1 DEF ContractInductive
<1>2. CASE C!Next
  <2>1. PICK l \in Scripts[topic][Len(doc) + 1] :
          topic \in DOMAIN Scripts /\ Len(doc) < Len(Scripts[topic]) /\ C!Write(l)
    BY <1>2 DEF C!Next
  <2>2. PICK d, p, e, q, n : d = doc /\ p = r /\ e = doc' /\ q = r' /\ n = Len(doc)
    OBVIOUS
  <2>3. Sound(d, p) /\ d \in Seq(C!Lines) /\ n \in Nat
    BY <2>2 DEF ContractInductive, Sound
  <2>4. l \in C!Lines
    <3>1. PICK script : script = Scripts[topic]
      OBVIOUS
    <3>2. script \in Seq(SUBSET C!Lines) /\ n < Len(script) /\ l \in script[n + 1]
      BY <2>1, <2>2, <3>1 DEF C!ContractConstants
    <3>3. n + 1 \in DOMAIN script
      BY <2>3, <3>2
    <3>4. script[n + 1] \in SUBSET C!Lines
      BY <3>2, <3>3
    <3>5. QED
      BY <3>2, <3>4
  <2>5. Grown(d, l, n, e) /\ q = C!Read(p, l)
    BY <2>1, <2>2, <2>3, <2>4 DEF C!Write, Grown
  <2>6. Sound(e, q)
    BY <2>3, <2>5, ReaderStaysSound
  <2>7. QED
    BY <2>2, <2>6 DEF ContractInductive
<1>3. QED
  BY <1>1, <1>2

LEMMA InductiveHolds ==
  ASSUME C!ContractConstants, ContractInductive
  PROVE  C!ContractHolds
<1>1. Sound(doc, r)
  BY DEF ContractInductive
<1>2. C!Breaches(r) = {} <=> IsSeed(doc)
  BY <1>1, AcceptedIsSeed, SeedIsAccepted
<1>3. \A k : C!Markers(k) = Marks(doc, k)
  BY DEF C!Markers, Marks
<1>4. \A i \in DOMAIN doc : \A name : C!Stands(name, i) <=> SeedStands(doc, name, i)
  BY DEF C!Stands, SeedStands
<1>5. QED
  BY <1>2, <1>3, <1>4, SameCount DEF C!ContractHolds, IsSeed, Marks

(* protocol.rs verify_contract, for files of any length and any regions the *)
(* binary knows: a version has no breach exactly when each region stands in *)
(* the file once, whole and in one piece, and there is no other marker. The *)
(* scanner's four failures (Unbalanced twice, Unnamed, Duplicate) never    *)
(* refuse a file that has the seed's regions, since each leaves something  *)
(* no later line can mend (Broken).                                        *)
THEOREM ContractIsTheSeeds ==
  ASSUME C!ContractConstants
  PROVE  C!Spec => []C!ContractHolds
<1>1. C!Init => ContractInductive
  BY ContractStarts
<1>2. ContractInductive /\ [C!Next]_C!vars => ContractInductive'
  BY ContractStands
<1>3. ContractInductive => C!ContractHolds
  BY InductiveHolds
<1>4. QED
  BY <1>1, <1>2, <1>3, PTL DEF C!Spec
=============================================================================
