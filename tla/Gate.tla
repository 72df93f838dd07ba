-------------------------------- MODULE Gate --------------------------------
(***************************************************************************)
(* `automed protocol eval <dir>`: the gate a proposed protocol version has *)
(* to pass (main.rs, protocol/eval.rs, eval_run.rs, case.rs, phrases.rs,   *)
(* changelog.rs check_entry, brief.rs).  It reads a directory somebody may *)
(* still be editing, judges its text, and, when asked to, runs the cases   *)
(* its changes name, in sessions that may fail in every way, and has other *)
(* sessions grade them.                                                    *)
(*                                                                         *)
(* A text is a sequence of words, as in Prompt: phrases, names in braces,  *)
(* headings, examples, contract regions.  A version has its texts by name, *)
(* its brief map, its changelog, its cases by directory and what else lies *)
(* in a case's directory.                                                  *)
(***************************************************************************)
EXTENDS Prompt

CONSTANTS
  Proposals,  \* the versions the directory may hold when it is evaluated
  Revisions,  \* what it may be changed to in the meantime
  Roles,      \* the rounds a version has templates for
  Required,   \* <<file, phrase>> that must be there
  Forbidden,  \* <<file, phrase>> that must not
  Regions,    \* <<file, word>>: the contract compiled into the core
  Level,      \* the level of each heading
  Begins,     \* <<longer, shorter>>: headings and directories
  MaxSize,    \* SIZE_BUDGET_BYTES
  Baselines   \* BASELINE_CASES

Sized == {"loop-protocol", "session-protocol"}

VersionFields == {"readable", "texts", "map", "log", "cases", "beside"}

(* Every round is required to say something (phrases.rs, EVERY_ROLE), and  *)
(* Refused is no text.                                                     *)
ASSUME GateConstants ==
  /\ MaxSize \in Nat /\ {"impl", "audit"} \subseteq Roles
  /\ Baselines \in Seq(ToSet(Baselines)) /\ IsInjective(Baselines)
  /\ \A b \in ToSet(Baselines) : b = [dir |-> b.dir, slash |-> TRUE]
  /\ \A role \in Roles : \E p \in Required : p[1] = role
  /\ \A v \in Proposals \cup Revisions :
       /\ DOMAIN v = VersionFields /\ IsFiniteSet(DOMAIN v.cases)
       /\ \A t \in {v.texts[f] : f \in DOMAIN v.texts} : t \in Seq(ToSet(t)) /\ "refused" \notin ToSet(t)
       /\ \A role \in DOMAIN v.map.roles : v.map.roles[role] \in Seq(ToSet(v.map.roles[role]))
       /\ \A dir \in DOMAIN v.cases : v.cases[dir].graders \in Seq(ToSet(v.cases[dir].graders))
       /\ v.log.sections \in Seq(ToSet(v.log.sections))
       /\ \A s \in ToSet(v.log.sections) : s.entries \in Seq(ToSet(s.entries)) /\ \A e \in ToSet(s.entries) :
            e.eval = <<>> \/ \E dir \in {p.dir : p \in ToSet(e.eval)}, slash \in BOOLEAN :
                               e.eval = << [dir |-> dir, slash |-> slash] >>

VARIABLES
  version,  \* what the directory holds
  edited,   \* it has been changed since the evaluation began
  ev,       \* the evaluation
  hist      \* what the sessions of each case really came to

gateVars == <<version, edited, ev, hist>>

---------------------------------------------------------------------------
(* Texts.                                                                  *)

Text(v, file)     == IF file \in DOMAIN v.texts THEN v.texts[file] ELSE <<>>
SaysIt(v, p)      == p[2] \in ToSet(Text(v, p[1]))
StartsWith(a, b)  == a = b \/ <<a, b>> \in Begins
IsHeading(text, i, h) == text[i] \in DOMAIN Level /\ StartsWith(text[i], h)

(* brief.rs section: a heading and what is under it, up to the next one of *)
(* its level or above.                                                     *)
Section(text, h) ==
  LET tops == {i \in DOMAIN text : IsHeading(text, i, h)}
      top  == CHOOSE i \in tops : \A j \in tops : i <= j
      ends == {i \in DOMAIN text : i > top /\ text[i] \in DOMAIN Level /\ Level[text[i]] <= Level[text[top]]}
      last == IF ends = {} THEN Len(text) ELSE (CHOOSE i \in ends : \A j \in ends : i <= j) - 1
  IN  IF tops = {} THEN <<>> ELSE SubSeq(text, top, last)

(* parse_map: a role nobody knows is an error, and costs every brief its   *)
(* sections.                                                               *)
MapParses(v) == v.map.state = "ok" /\ DOMAIN v.map.roles \subseteq Roles

(* for_role and build: what a round's brief quotes from the protocol.      *)
Wanted(v, role) ==
  IF MapParses(v) /\ role \in DOMAIN v.map.roles THEN v.map.roles[role] ELSE <<>>

Brief(v, role) ==
  FlattenSeq([i \in DOMAIN Wanted(v, role) |->
    Section(Text(v, Wanted(v, role)[i][1]), Wanted(v, role)[i][2])])

---------------------------------------------------------------------------
(* Layer 1, the texts.                                                     *)

ContractBroken(v) ==
  \E p \in Regions : Cardinality({i \in DOMAIN Text(v, p[1]) : Text(v, p[1])[i] = p[2]}) # 1

Size(v) == Len(Text(v, "loop-protocol")) + Len(Text(v, "session-protocol"))

(* A phrase required of a file that is missing is missing.                 *)
BugMissingFileIsFine(v) ==
  \/ \E p \in Required : p[1] \in DOMAIN v.texts /\ ~SaysIt(v, p)
  \/ \E p \in Forbidden : SaysIt(v, p)

PhraseProblem(v) ==
  \/ \E p \in Required : ~SaysIt(v, p)
  \/ \E p \in Forbidden : SaysIt(v, p)

Templates == Roles \cup {"intake", "onboarding"}

(* Every name in braces has to be one the core fills somewhere, and the    *)
(* two rounds with a budget have to have a place for it.                   *)
PlaceholderProblem(v) ==
  \/ \E f \in Templates : (ToSet(Text(v, f)) \cap Braces) \ Filled # {}
  \/ \E f \in {"impl", "audit"} \cap DOMAIN v.texts : "{budget_line}" \notin ToSet(v.texts[f])

(* A map that is none, or a heading that is not there any more.            *)
HeadingGone(v) ==
  \E role \in DOMAIN v.map.roles : \E i \in DOMAIN Wanted(v, role) :
    Section(Text(v, Wanted(v, role)[i][1]), Wanted(v, role)[i][2]) = <<>>

MapProblem(v) == ~MapParses(v) \/ HeadingGone(v)

---------------------------------------------------------------------------
(* The cases (case.rs), as data.  A field counts where it stands first.    *)

CaseFields == {"name", "role", "description", "runs", "max_turns", "timeout_seconds", "scaffold", "graders"}
Num == [s \in {"0", "1", "2", "3"} |-> CASE s = "0" -> 0 [] s = "1" -> 1 [] s = "2" -> 2 [] s = "3" -> 3]

Given(y, key)  == \E i \in DOMAIN y.fields : y.fields[i].k = key
FieldOf(y, key) == y.fields[CHOOSE i \in DOMAIN y.fields : y.fields[i].k = key /\ \A j \in 1..(i - 1) : y.fields[j].k # key].v
Number(y, key, default) == IF Given(y, key) THEN Num[FieldOf(y, key)] ELSE default

Parses(y) ==
  /\ \A i \in DOMAIN y.fields : y.fields[i].k \in CaseFields
  /\ \A key \in {"runs", "max_turns"} : Given(y, key) => FieldOf(y, key) \in DOMAIN Num
  /\ Given(y, "name") /\ Given(y, "role") /\ FieldOf(y, "role") \in Roles
  /\ y.graders # <<>>

Runs(y)     == Number(y, "runs", 3)
MaxTurns(y) == Number(y, "max_turns", 3)

(* A case that could never say anything: no runs or a tie, no turns, a     *)
(* file that is missing, a grader that was never seen to say no.           *)
Lint(v, dir) ==
  LET y == v.cases[dir]
  IN  \/ Runs(y) = 0 \/ Runs(y) % 2 = 0 \/ MaxTurns(y) = 0
      \/ <<dir, "scaffold">> \notin DOMAIN v.beside
      \/ \E g \in ToSet(y.graders) : IF <<dir, g>> \in DOMAIN v.beside THEN v.beside[<<dir, g>>] # "has a control"
                                     ELSE TRUE

CaseProblem(v) == \E dir \in DOMAIN v.cases : ~Parses(v.cases[dir]) \/ Lint(v, dir)

---------------------------------------------------------------------------
(* The changelog: sections in their order, each with its tag and entries.  *)

MinEvidenceTasks == 2

(* An `eval` names a directory, with its slash or without; a version has   *)
(* every path one of its files begins with.                                *)
Dirs(v) == DOMAIN v.cases \cup {p[1] : p \in DOMAIN v.beside}
HasDir(v, path) == \E d \in Dirs(v) : d = path.dir \/ (~path.slash /\ <<d, path.dir>> \in Begins)

EvalProblem(v, e) ==
  \/ e.kind \in {"behavioral", "retire"} /\ e.eval = <<>>
  \/ e.kind = "behavioral" /\ e.eval # <<>> /\ ~HasDir(v, e.eval[1])

EntryProblem(v, e) ==
  \/ ~e.measurable
  \/ Cardinality(ToSet(e.evidence)) < MinEvidenceTasks
  \/ EvalProblem(v, e)
  \/ e.kind = "retire" /\ e.direction # "flat"
  \/ e.clause.file \notin DOMAIN v.texts

Dangling(v, e) ==
  /\ e.clause.file \in DOMAIN v.texts /\ e.clause.leaf # ""
  /\ ~\E i \in DOMAIN Text(v, e.clause.file) : IsHeading(Text(v, e.clause.file), i, e.clause.leaf)

Entries(v) == FlattenSeq([i \in DOMAIN v.log.sections |-> v.log.sections[i].entries])

ChangelogProblem(v) ==
  \/ v.log.state # "ok" \/ Entries(v) = <<>>
  \/ \E i \in DOMAIN Entries(v) : EntryProblem(v, Entries(v)[i]) \/ Dangling(v, Entries(v)[i])

(* Layer 2: an example has to be one the core's parser reads.              *)
Examples(v, kind) == {x \in Sized \X (1..MaxSize) : x[2] <= Len(Text(v, x[1])) /\ Text(v, x[1])[x[2]] = kind}
ExampleProblem(v) == Examples(v, "bad example") # {} \/ Examples(v, "example") = {}

Failed(v) ==
  \/ ContractBroken(v) \/ Size(v) > MaxSize \/ PhraseProblem(v) \/ PlaceholderProblem(v)
  \/ MapProblem(v) \/ CaseProblem(v) \/ ChangelogProblem(v) \/ ExampleProblem(v)

---------------------------------------------------------------------------
(* Layer 3.                                                                *)

VersionOf(v, tag) ==
  LET of == {i \in DOMAIN v.log.sections : v.log.sections[i].tag = tag}
  IN  IF of = {} THEN <<>> ELSE v.log.sections[CHOOSE i \in of : \A j \in of : i <= j].entries

AddCase(cases, e) ==
  IF e.kind = "retire" \/ e.eval = <<>> \/ ToSet(e.eval) \subseteq ToSet(cases) THEN cases
  ELSE Append(cases, e.eval[1])

(* changed_cases: the baselines, and what the changes under the tag name.  *)
Named(entries) ==
  LET named[n \in 0..Len(entries)] == IF n = 0 THEN Baselines ELSE AddCase(named[n - 1], entries[n])
  IN  named[Len(entries)]

ChangedCases(v, tag) == Named(IF v.log.state = "ok" THEN VersionOf(v, tag) ELSE <<>>)

Slashed(dir) == [dir |-> dir, slash |-> TRUE]
AllCases(v)  == SetToSeq({Slashed(dir) : dir \in DOMAIN v.cases})

Cases(v, scope, tag) == IF scope = "changed" THEN ChangedCases(v, tag) ELSE AllCases(v)

(* The last VERDICT line of an answer; none is a no.                       *)
Yes(answer) == answer # <<>> /\ Last(answer) = "1"

Worse(a, b) == IF a > b THEN a ELSE b

Idle == [at |-> "idle", scope |-> "none", tag |-> "", static |-> 0, code |-> 0, read |-> [texts |-> <<>>],
         cases |-> <<>>, run |-> 0, grader |-> 0, yes |-> <<>>, votes |-> <<>>, errors |-> FALSE, over |-> FALSE]

(* main: layers 1 and 2 over the directory as it is.                       *)
Evaluate(scope, tag) ==
  LET code == IF ~version.readable THEN 2 ELSE IF Failed(version) THEN 1 ELSE 0
  IN  /\ ev.at = "idle"
      /\ ev' = [ev EXCEPT !.at = IF scope = "none" THEN "done" ELSE "judged", !.scope = scope, !.tag = tag,
                          !.static = code, !.code = code, !.read = version]
      /\ UNCHANGED <<version, edited, hist>>

(* run_behaviour reads the directory for itself.                           *)
BeginBehaviour ==
  /\ ev.at = "judged"
  /\ ev' = IF ~version.readable THEN [ev EXCEPT !.at = "done", !.code = Worse(@, 2)]
           ELSE [ev EXCEPT !.at = "cases", !.read = version, !.cases = Cases(version, ev.scope, ev.tag)]
  /\ UNCHANGED <<version, edited, hist>>

Yaml == ev.read.cases[ev.cases[1].dir]

Present == ev.cases[1].slash /\ ev.cases[1].dir \in DOMAIN ev.read.cases

(* A case that is not there is passed over; one that cannot be read, or    *)
(* whose round this version has no template for, fails.                    *)
TakeCase ==
  /\ ev.at = "cases" /\ ev.cases # <<>>
  /\ ev' = IF ~Present THEN [ev EXCEPT !.cases = Tail(@)]
           ELSE IF ~Parses(Yaml) \/ FieldOf(Yaml, "role") \notin DOMAIN ev.read.texts \/ Runs(Yaml) = 0
                THEN [ev EXCEPT !.cases = Tail(@), !.code = Worse(@, 1)]
           ELSE [ev EXCEPT !.at = "run", !.run = 1, !.errors = FALSE, !.over = FALSE,
                           !.yes = [g \in DOMAIN Yaml.graders |-> 0], !.votes = [g \in DOMAIN Yaml.graders |-> 0]]
  /\ UNCHANGED <<version, edited, hist>>

BugErrorsAreNoVerdict(e) == ~e.over /\ \A g \in DOMAIN e.votes : 2 * e.yes[g] > e.votes[g]

CasePassed(e) == ~e.errors /\ ~e.over /\ \A g \in DOMAIN e.votes : 2 * e.yes[g] > e.votes[g]

NextRun(e) ==
  IF e.run < Runs(Yaml) THEN [e EXCEPT !.at = "run", !.run = @ + 1]
  ELSE [e EXCEPT !.at = "cases", !.cases = Tail(@), !.code = IF CasePassed(e) THEN @ ELSE Worse(@, 1)]

(* The scaffold, and the round in it: it cannot be set up, does not start  *)
(* or does not end in time; it takes more turns than it may; or it is      *)
(* graded.                                                                 *)
Session ==
  /\ ev.at = "run"
  /\ \/ ev' = NextRun([ev EXCEPT !.errors = TRUE]) /\ UNCHANGED hist
     \/ \E over \in BOOLEAN :
          /\ ev' = [ev EXCEPT !.at = "grade", !.grader = 1, !.over = @ \/ over]
          /\ hist' = [hist EXCEPT ![ev.cases[1].dir].sessions = IF over THEN @ ELSE @ + 1]
  /\ UNCHANGED <<version, edited>>

NextGrader(e) == IF e.grader < Len(Yaml.graders) THEN [e EXCEPT !.grader = @ + 1] ELSE NextRun(e)

Answers == {<<"1">>, <<"1", "0">>, <<>>, <<"0", "1">>}

Grade ==
  /\ ev.at = "grade"
  /\ \/ ev' = NextGrader([ev EXCEPT !.errors = TRUE]) /\ UNCHANGED hist
     \/ \E answer \in Answers :
          /\ ev' = NextGrader([ev EXCEPT !.votes[ev.grader] = @ + 1,
                                         !.yes[ev.grader] = IF Yes(answer) THEN @ + 1 ELSE @])
          /\ hist' = [hist EXCEPT ![ev.cases[1].dir].agreed[ev.grader] =
                        IF answer # <<>> /\ answer[Len(answer)] = "1" THEN @ + 1 ELSE @]
  /\ UNCHANGED <<version, edited>>

Finish ==
  /\ ev.at = "cases" /\ ev.cases = <<>>
  /\ ev' = [ev EXCEPT !.at = "done"]
  /\ UNCHANGED <<version, edited, hist>>

(* Nobody keeps the directory still while it is evaluated.                 *)
Edit ==
  /\ ev.at \notin {"idle", "done"} /\ ~edited
  /\ version' \in Revisions /\ edited' = TRUE
  /\ UNCHANGED <<ev, hist>>

CaseDirs == UNION {DOMAIN v.cases : v \in Proposals \cup Revisions}
Graders  == UNION {UNION {DOMAIN v.cases[dir].graders : dir \in DOMAIN v.cases} : v \in Proposals \cup Revisions}

GateInit ==
  /\ version \in Proposals /\ edited = FALSE /\ ev = Idle
  /\ hist = [dir \in CaseDirs |-> [sessions |-> 0, agreed |-> [g \in Graders |-> 0]]]

GateNext ==
  \/ \E scope \in {"none", "changed", "all"}, tag \in {"unreleased"} : Evaluate(scope, tag)
  \/ BeginBehaviour \/ TakeCase \/ Session \/ Grade \/ Finish \/ Edit

GateSpec == GateInit /\ [][GateNext]_gateVars

---------------------------------------------------------------------------
(* What a version the static layers accept is good for: no round of a task *)
(* that runs under it is refused its prompt, the two rounds with a budget  *)
(* are told N, and every brief quotes each section the map promises, from  *)
(* its own heading on.  A template may still ask for what only the intake  *)
(* is given, which no other round's prompt is filled with; and the intake  *)
(* and onboarding templates themselves need not be there.                  *)
JobUnder(v, role) ==
  [role |-> role, template |-> v.texts[role], docs |-> "docs", slug |-> "t", brief |-> "brief",
   budget |-> <<"35">>, metrics |-> <<>>]

ForIntakeOnly == {"{request}", "{inputs}", "{design_rounds}"}

PassedCanRun ==
  ev.at = "judged" /\ ev.static = 0 =>
    \A role \in Roles :
      /\ role \in DOMAIN ev.read.texts
      /\ ToSet(ev.read.texts[role]) \cap ForIntakeOnly = {} =>
           /\ RolePrompt(JobUnder(ev.read, role)) # Refused
           /\ role \in {"impl", "audit"} => Has(RolePrompt(JobUnder(ev.read, role)), <<"N", "35">>)
      /\ \A i \in DOMAIN Wanted(ev.read, role) :
           \E j \in DOMAIN Brief(ev.read, role) : IsHeading(Brief(ev.read, role), j, Wanted(ev.read, role)[i][2])

(* A version that passes with its cases has earned it: every case a change *)
(* under the tag names, and every baseline that is there, was run to the   *)
(* end of its runs, within its turns and without an error, and each of its *)
(* graders agreed to more than half of them.  It says so of the version as *)
(* it is, unless that was edited meanwhile.  A change whose path lacks the *)
(* slash, or whose directory has no case.yaml, is passed over.             *)
Due ==
  {dir \in DOMAIN version.cases :
     \/ ev.scope = "all" \/ Slashed(dir) \in ToSet(Baselines)
     \/ \E e \in ToSet(VersionOf(version, ev.tag)) : e.kind # "retire" /\ e.eval = <<Slashed(dir)>>}

PassIsEarned ==
  ev.at = "done" /\ ev.scope # "none" /\ ev.code = 0 /\ ~edited =>
    \A dir \in Due :
      LET y == version.cases[dir]
      IN  /\ hist[dir].sessions = Runs(y)
          /\ \A g \in DOMAIN y.graders : 2 * hist[dir].agreed[g] > Runs(y)

(* It does not hold of every change, what the gate promises being that     *)
(* "`behavioral` without a case" does not pass: a case whose name has no   *)
(* slash, or whose directory has no case.yaml, is passed over.             *)
GatedCasesRun ==
  ev.at = "done" /\ ev.scope = "changed" /\ ev.code = 0 /\ ~edited =>
    \A e \in ToSet(VersionOf(version, ev.tag)) :
      e.kind = "behavioral" => e.eval[1].dir \in DOMAIN version.cases /\ hist[e.eval[1].dir].sessions > 0
=============================================================================
