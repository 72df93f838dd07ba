------------------------------- MODULE Prompt -------------------------------
(***************************************************************************)
(* What a session is told and how its CLI is started (launcher.rs): the    *)
(* protocol's template with the core's values in it, what the transition   *)
(* adds, and the arguments of the CLI.                                     *)
(*                                                                         *)
(* A text is a sequence of words.  A word in Braces is `{...}` with a name *)
(* in it; the core fills the ones it knows, one after the other, each over *)
(* the whole text, what it has just put in included.                       *)
(***************************************************************************)
EXTENDS Naturals, Sequences, FiniteSets, SequencesExt

Filled == {"{doc_dir}", "{slug}", "{budget_line}", "{brief_path}", "{task_metrics}",
           "{metric_vocabulary}", "{request}", "{inputs}", "{design_rounds}"}
Braces == Filled \cup {"{unknown}"}

Refused == <<"refused">>

Fill(text, name, value) ==
  FlattenSeq([i \in DOMAIN text |-> IF text[i] = name THEN value ELSE <<text[i]>>])

(* The names with their values, in the order they are replaced in.         *)
FillAll(text, values) ==
  LET filled[n \in 0..Len(values)] ==
        IF n = 0 THEN text ELSE Fill(filled[n - 1], values[n][1], values[n][2])
  IN  filled[Len(values)]

(* check_no_placeholders_left.                                             *)
Checked(text) == IF \E i \in DOMAIN text : text[i] \in Braces THEN Refused ELSE text

---------------------------------------------------------------------------
(* role_prompt: the two rounds of the implementation loop are told N.      *)
BudgetLine(job) ==
  IF job.budget # <<>> /\ job.role \in {"impl", "audit"} THEN <<"N", job.budget[1]>> ELSE <<>>

(* render_task_metrics: the numbers, and the domains sessions have named.  *)
Metrics(job) == IF job.metrics = <<>> THEN <<"no metrics">> ELSE job.metrics[1]

RolePrompt(job) ==
  Checked(FillAll(job.template,
    << <<"{doc_dir}", <<job.docs>> >>, <<"{slug}", <<job.slug>> >>,
       <<"{budget_line}", BudgetLine(job)>>, <<"{brief_path}", <<job.brief>> >>,
       <<"{task_metrics}", Metrics(job)>>, <<"{metric_vocabulary}", <<"metrics">> >> >>))

(* render_decisions: what a word of the user's means for the round; a      *)
(* record of any other combination is passed over.                         *)
Verdict(d) ==
  CASE d.kind = "backlog" /\ d.word = "include" -> <<"include it">>
    [] d.kind = "backlog" /\ d.word = "ignore"  -> <<"ignore it">>
    [] d.kind = "dispute" /\ d.word = "ruled"   -> <<"ruled", d.ruling>>
    [] OTHER -> <<>>

BugOnlyIncluded(ds) ==
  FlattenSeq([i \in DOMAIN ds |-> IF Verdict(ds[i]) # <<"include it">> THEN <<>>
                                  ELSE <<ds[i].item>> \o Verdict(ds[i])])

Decided(ds) ==
  FlattenSeq([i \in DOMAIN ds |-> IF Verdict(ds[i]) = <<>> THEN <<>>
                                  ELSE <<ds[i].item>> \o Verdict(ds[i])])

RenderDecisions(ds) == IF ds = <<>> THEN <<>> ELSE <<"decided:">> \o Decided(ds)

Injected(job) ==
  CASE job.inject = "feedback"  -> <<"rejected:">> \o job.feedback
    [] job.inject = "conflict"  -> <<"conflicts:">> \o job.files
    [] job.inject = "decisions" -> RenderDecisions(job.decisions)
    [] OTHER -> <<>>

Skills(job) == IF job.skills = <<>> THEN <<>> ELSE <<"use:">> \o job.skills

Inputs(job) ==
  (IF job.attachments = <<>> THEN <<>> ELSE <<"attached:">> \o job.attachments)
  \o (IF job.refs = <<>> THEN <<>> ELSE <<"refer to:">> \o job.refs)

IntakePrompt(job) ==
  Checked(FillAll(job.template,
    << <<"{doc_dir}", <<job.docs>> >>, <<"{request}", job.request>>, <<"{inputs}", Inputs(job)>>,
       <<"{slug}", <<job.slug>> >>, <<"{design_rounds}", <<"limit">> >> >>))

OnboardingPrompt(job) == Checked(job.template)

BuildPrompt(job) ==
  CASE job.role = "intake"     -> IntakePrompt(job)
    [] job.role = "onboarding" -> OnboardingPrompt(job)
    [] OTHER -> IF RolePrompt(job) = Refused THEN Refused
                ELSE RolePrompt(job) \o Skills(job) \o Injected(job)

---------------------------------------------------------------------------
(* Where codex may write beside its working directory: the common git      *)
(* directory of each checkout that keeps it elsewhere, each once.          *)
GitDirOutside(c) == IF c.gitdir = "inside" THEN <<>> ELSE <<c.gitdir>>

GitCommonDirs(checkouts) ==
  FoldLeft(LAMBDA out, c : IF ToSet(GitDirOutside(c)) \subseteq ToSet(out) THEN out
                           ELSE out \o GitDirOutside(c), <<>>, checkouts)

Adapter == [claude |-> [repo |-> FALSE, sandbox |-> FALSE], codex |-> [repo |-> TRUE, sandbox |-> TRUE]]

BuildArgs(job) ==
  [skipcheck |-> Adapter[job.runtime].repo /\ ~job.inrepo,
   roots     |-> IF Adapter[job.runtime].sandbox THEN GitCommonDirs(job.checkouts) ELSE <<>>]

---------------------------------------------------------------------------
(* What a round cannot do without.                                         *)

Has(text, words) == \E i \in 0..(Len(text) - Len(words)) : \A j \in DOMAIN words : text[i + j] = words[j]
Said(text, word) == Cardinality({i \in DOMAIN text : text[i] = word})
Literal(words)   == \A i \in DOMAIN words : words[i] \notin Braces

PeoplesWords(job) == ToSet(job.feedback) \cup ToSet(job.files) \cup {d.ruling : d \in ToSet(job.decisions)}

(* A session that starts has been told everything the core has for its     *)
(* round, in full and once, whatever the words of people contain: each     *)
(* decided item with the user's word on it, the rejection word by word,    *)
(* every file in conflict, every skill, attachment and reference; the      *)
(* request as well, unless it has braces of its own; and N whenever its    *)
(* template asks for it, but to no round that has nothing to do with it.   *)
(* Nothing it was to be told is left standing as a name in braces.         *)
SaysItAll(job, text) ==
  /\ job.role = "intake" =>
       /\ \A w \in ToSet(job.attachments) \cup ToSet(job.refs) : Said(text, w) = Said(job.template, "{inputs}")
       /\ Literal(job.request) /\ "{request}" \in ToSet(job.template) => Has(text, job.request)
       /\ Literal(text)
  /\ job.role \notin {"intake", "onboarding"} =>
       /\ \A w \in ToSet(job.skills) : Said(text, w) = 1
       /\ job.inject = "feedback" => Has(text, job.feedback)
       /\ job.inject = "conflict" => Has(text, job.files)
       /\ job.inject = "decisions" =>
            \A d \in ToSet(job.decisions) : Said(text, d.item) = 1 /\ Has(text, <<d.item>> \o Verdict(d))
       /\ \A w \in ToSet(text) \cap Braces : w \in PeoplesWords(job)
       /\ (job.budget # <<>> /\ "{budget_line}" \in ToSet(job.template))
            => (Has(text, <<"N", job.budget[1]>>) <=> job.role \in {"impl", "audit"})

(* Codex can commit in every checkout of the task, and nowhere else.       *)
CanCommit(job, args) ==
  job.runtime = "codex" =>
    /\ ToSet(args.roots) = {c.gitdir : c \in ToSet(job.checkouts)} \ {"inside"}
    /\ Cardinality(ToSet(args.roots)) = Len(args.roots)
=============================================================================
