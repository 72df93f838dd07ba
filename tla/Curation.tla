------------------------------ MODULE Curation ------------------------------
(***************************************************************************)
(* From a lesson two tasks learned to a rule the next one is held to, and  *)
(* back: proposals, the user's answers, removal experiments and restoring. *)
(* lesson.rs (aggregate), curation.rs, dispatch_curation.rs, store.rs.     *)
(*                                                                         *)
(* The panel is what the user last saw; a command is pressed on it and may *)
(* find the world moved on.  A command runs to its end or the process ends *)
(* between the file it wrote and the row it was about to write.            *)
(***************************************************************************)
EXTENDS Versions

CONSTANTS
  LessonKeys,  \* what two lessons agree on when they are the same lesson
  DomainOf,    \* the domain in each key
  Inside,      \* pairs of wordings, the first contained in the second
  ByHand,      \* wordings of rules a person writes
  IdleTasks,   \* RETIREMENT_IDLE_TASKS
  Horizon      \* EXPERIMENT_HORIZON

ASSUME CurationConstants ==
  /\ IdleTasks \in Nat /\ Horizon \in Nat \ {0}
  /\ DomainOf \in [LessonKeys -> Domains]
  /\ \A l \in UNION LessonLists : l.key \in LessonKeys /\ <<l.words, l.words>> \in Inside

VARIABLES
  rules,   \* by domain, the lines of its file: wording, and who wrote it
  row,     \* store: rule_proposals
  exps,    \* store: rule_experiments, in the order they were started
  panel    \* what the user last saw

curationSide == <<rules, row, exps, panel>>
vars == <<taskSide, left, curationSide>>

---------------------------------------------------------------------------
(* aggregate: a lesson with the tasks that found it, in the words and at   *)
(* the level of the first.                                                 *)

Naming(k)  == {i \in Tasks : \E l \in task[i].lessons : l.key = k}
FirstOf(k) ==
  LET own == {l \in task[Min(Naming(k))].lessons : l.key = k}
  IN  CHOOSE l \in own : \A m \in own : l.id <= m.id
Occurrences(k) == UNION {{<<i, l.id>> : l \in {m \in task[i].lessons : m.key = k}} : i \in Tasks}

BugCorroborated(k) == Cardinality(Occurrences(k)) >= 2
Corroborated(k)    == Cardinality(Naming(k)) >= 2

NoRow     == [st |-> "none", words |-> None, evidence |-> {}]
Answered  == {k \in LessonKeys : row[k].st \in {"approved", "dismissed"}}

(* proposals: what there is to ask.                                        *)
ToAsk == {k \in LessonKeys : /\ Naming(k) # {} /\ FirstOf(k).level = "rule" /\ Corroborated(k)
                             /\ k \notin Answered}

(* upsert_rule_proposal: a row that is there keeps its words and its       *)
(* answer.                                                                 *)
BugUpserted(k) == [st |-> "pending", words |-> FirstOf(k).words, evidence |-> Occurrences(k)]
Upserted(k) ==
  IF row[k].st = "none" THEN [st |-> "pending", words |-> FirstOf(k).words, evidence |-> Occurrences(k)]
  ELSE [row[k] EXCEPT !.evidence = Occurrences(k)]

---------------------------------------------------------------------------
(* retirement_rules and removal_experiments: an approved rule that the     *)
(* last tasks to write lessons did not mention, and that was never taken   *)
(* out before.                                                             *)

Wrote       == {i \in Tasks : task[i].lessons # {}}
Idle(k)     == Cardinality({i \in Wrote : i > Max(Naming(k))})

BugTriedBefore(words) == \E e \in 1 .. Len(exps) : exps[e].body = words /\ exps[e].st = "running"
TriedBefore(words)    == \E e \in 1 .. Len(exps) : exps[e].body = words

Retirable ==
  {k \in LessonKeys : /\ row[k].st = "approved" /\ ~TriedBefore(row[k].words)
                      /\ Naming(k) # {} /\ Idle(k) >= IdleTasks}

(* metric_for: the number the rules of a domain are supposed to move.      *)
MetricFor(d) == d

(* judge: the mean over the first tasks after the removal, in the order    *)
(* list_tasks gives them, against the mean before it.                      *)
AfterRemoval(e) == {i \in Finished : task[i].nth > exps[e].at}
Window(e)       == {i \in AfterRemoval(e) : Cardinality({j \in AfterRemoval(e) : j < i}) < Horizon}
Total(s, d)     == FoldSet(LAMBDA i, n : n + task[i].metrics.of[MetricFor(d)], 0, s)

Verdict(e) ==
  LET base == exps[e].baseline IN
  IF Cardinality(AfterRemoval(e)) < Horizon THEN "too early"
  ELSE IF Total(Window(e), exps[e].domain) * base.tasks > base.total * Horizon
       THEN "regressed" ELSE "held"

---------------------------------------------------------------------------
(* The commands.                                                           *)

NoPanel == [ask |-> {}, try |-> {}, back |-> {}]

(* rules.proposals; the panel offers to restore what is running.           *)
Shown ==
  [ask  |-> {[key |-> k, words |-> FirstOf(k).words] : k \in ToAsk},
   try  |-> {[domain |-> DomainOf[k], body |-> row[k].words] : k \in Retirable},
   back |-> {e \in 1 .. Len(exps) : exps[e].st = "running"}]

OpenPanel ==
  /\ row' = [k \in LessonKeys |-> IF k \in ToAsk THEN Upserted(k) ELSE row[k]]
  /\ panel' = Shown
  /\ UNCHANGED <<taskSide, left, rules, exps>>

(* What the user sees after a command that was answered, or was not.       *)
Refreshed == \/ panel' = NoPanel /\ UNCHANGED left
             \/ UNCHANGED panel /\ Spend("lost")

Contains(line, body) == <<body, line.words>> \in Inside
Line(words)          == [words |-> words, ours |-> TRUE]
Applied(d, words)    == [rules EXCEPT ![d] = Append(@, Line(words))]

(* The lines that do not contain it.                                       *)
Without(lines, body) ==
  LET kept[n \in 0 .. Len(lines)] ==
        IF n = 0 THEN <<>>
        ELSE IF Contains(lines[n], body) THEN kept[n - 1] ELSE Append(kept[n - 1], lines[n])
  IN  kept[Len(lines)]

Removed(d, body) == [rules EXCEPT ![d] = Without(@, body)]

(* rules.decide: the row is looked up, whatever its state.                 *)
Dismiss(k) ==
  /\ row[k].st # "none" /\ row' = [row EXCEPT ![k].st = "dismissed"]
  /\ UNCHANGED <<rules, exps>> /\ Refreshed

Approve(k) ==
  /\ row[k].st # "none" /\ rules' = Applied(DomainOf[k], row[k].words) /\ UNCHANGED exps
  /\ \/ row' = [row EXCEPT ![k].st = "approved"] /\ Refreshed
     \/ UNCHANGED <<row, panel>> /\ Spend("crashes")

(* rules.retire: there must be a line and something to compare with.       *)
History == {i \in Tasks : task[i].metrics # None}
Experiment(d, body) ==
  [domain |-> d, body |-> body, st |-> "running", at |-> Cardinality(Finished),
   baseline |-> [tasks |-> Cardinality(History), total |-> Total(History, d)]]

Retire(d, body) ==
  /\ \E n \in 1 .. Len(rules[d]) : Contains(rules[d][n], body)
  /\ History # {}
  /\ rules' = Removed(d, body) /\ UNCHANGED row
  /\ \/ exps' = Append(exps, Experiment(d, body)) /\ Refreshed
     \/ UNCHANGED <<exps, panel>> /\ Spend("crashes")

(* rules.restore: the experiment is looked up, whatever its state.         *)
Restore(e) ==
  /\ rules' = Applied(exps[e].domain, exps[e].body) /\ UNCHANGED row
  /\ \/ exps' = [exps EXCEPT ![e].st = "restored"] /\ Refreshed
     \/ UNCHANGED <<exps, panel>> /\ Spend("crashes")

Press ==
  /\ \/ \E p \in panel.ask : Dismiss(p.key) \/ Approve(p.key)
     \/ \E t \in panel.try : Retire(t.domain, t.body)
     \/ \E e \in panel.back : Restore(e)
  /\ UNCHANGED taskSide

(* The rules are files of the repository, and a person edits them.         *)
HandEdit(d) ==
  /\ \/ \E w \in ByHand : rules' = [rules EXCEPT ![d] = Append(@, [words |-> w, ours |-> FALSE])]
     \/ rules[d] # <<>> /\ rules' = [rules EXCEPT ![d] = Tail(@)]
  /\ Spend("hands") /\ UNCHANGED <<taskSide, row, exps, panel>>

---------------------------------------------------------------------------

Init ==
  /\ \E s \in Starts : TaskInit(s)
  /\ rules = [d \in Domains |-> <<>>]
  /\ row = [k \in LessonKeys |-> NoRow]
  /\ exps = <<>> /\ panel = NoPanel

Next ==
  \/ TaskStep /\ UNCHANGED curationSide
  \/ OpenPanel
  \/ Press
  \/ \E d \in Domains : HandEdit(d)

Spec == Init /\ [][Next]_vars

---------------------------------------------------------------------------

(* Two tasks, or nothing: a proposal is first recorded when two different  *)
(* tasks have the lesson, and an answer is for good - an answered one is   *)
(* neither asked again nor back among the open ones (curation.rs, store.rs *)
(* upsert_rule_proposal).                                                  *)
AnswersStand ==
  [][\A k \in LessonKeys :
       /\ row[k].st = "none" /\ row'[k].st # "none" =>
            \E i, j \in Tasks : i # j /\ \A n \in {i, j} : \E l \in task[n].lessons : l.key = k
       /\ row[k].st # "none" => row'[k].st # "none"
       /\ k \in Answered => /\ row'[k].st \in {"approved", "dismissed"}
                            /\ [key |-> k, words |-> FirstOf(k).words] \in panel'.ask => panel' = panel]_vars

(* What is offered for removal has not been tried before, and the last     *)
(* tasks that had the chance to mention it did not (dispatch_curation.rs   *)
(* retirement_rules: a rule that was put back is never offered again).     *)
OffersAreFair ==
  [][panel' # panel =>
       \A t \in panel'.try :
         /\ \A e \in 1 .. Len(exps) : exps[e].body # t.body
         /\ \E k \in LessonKeys :
              /\ row[k].words = t.body /\ row[k].st = "approved"
              /\ \E quiet \in SUBSET Wrote :
                   /\ Cardinality(quiet) = IdleTasks
                   /\ \A i \in quiet : k \notin {l.key : l \in task[i].lessons}
                   /\ \A i \in Wrote \ quiet : \A j \in quiet : i < j]_vars

(* A rule Autome wrote has its row, in the words it was written in: where  *)
(* it came from can be shown, and it can be matched to its lesson when it  *)
(* is checked for retirement (curation.rs proposal_key, rule_text).        *)
RuleHasItsRow ==
  \A d \in Domains : \A n \in 1 .. Len(rules[d]) :
    rules[d][n].ours => \E k \in LessonKeys : DomainOf[k] = d /\ row[k].words = rules[d][n].words

(* A verdict once reached stands: later tasks do not change it             *)
(* (curation.rs judge and its test                                         *)
(* a_later_task_does_not_change_a_verdict_already_reported; store.rs       *)
(* tasks_completed_after, "in order").  The tasks come in the order they   *)
(* were created, so one that was created earlier and finished later moves  *)
(* the window, and the verdict with it: it does not hold.                  *)
VerdictStands ==
  [][\A e \in 1 .. Len(exps) :
       Verdict(e) # "too early" => Verdict(e)' = Verdict(e)]_vars
=============================================================================
