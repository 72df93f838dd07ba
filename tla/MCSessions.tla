----------------------------- MODULE MCSessions -----------------------------
EXTENDS SessionProcess

Line(k, name, tokens) == [k |-> k, name |-> name, tokens |-> tokens, turns |-> None]
Event(k, name) == Line(k, name, None)
Result == [k |-> "result", name |-> "", tokens |-> Some(9), turns |-> Some(2)]

Blank ==
  [role |-> "impl", template |-> <<"work on", "{doc_dir}", "{slug}", "{budget_line}">>, docs |-> "docs",
   slug |-> "t", brief |-> "brief", budget |-> Some("35"), metrics |-> None, skills |-> <<>>,
   inject |-> "none", feedback |-> <<>>, files |-> <<>>, decisions |-> <<>>, request |-> <<>>,
   attachments |-> <<>>, refs |-> <<>>, inrepo |-> TRUE, checkouts |-> <<>>, runtime |-> "claude",
   installed |-> TRUE, renderer |-> TRUE, lossy |-> FALSE, stream |-> <<>>]

(* A claude session with a message of two blocks, and one whose stream     *)
(* cannot be rendered; a codex session with no renderer to be found; and   *)
(* one whose last files may be lost.                                       *)
Working ==
  { [Blank EXCEPT !.stream = <<Line("assistant", "m1", Some(4)), Line("assistant", "m1", Some(4)),
                               Line("assistant", "m2", Some(1)), Result>>],
    [Blank EXCEPT !.stream = <<Event("user", "ok"), Event("garbled", ""), Result>>, !.lossy = TRUE],
    [Blank EXCEPT !.runtime = "codex", !.renderer = FALSE,
                  !.stream = <<Event("item.started", "reasoning")>>],
    [Blank EXCEPT !.runtime = "codex", !.inrepo = FALSE,
                  !.checkouts = <<[gitdir |-> "a"], [gitdir |-> "inside"], [gitdir |-> "b"], [gitdir |-> "a"]>>,
                  !.stream = <<Event("turn.started", ""), Event("item.completed", "agent_message"),
                               Line("turn.completed", "", Some(5)), Event("turn.completed", "")>>] }

Items ==
  { [kind |-> "backlog", item |-> "B-1", word |-> "include", ruling |-> ""],
    [kind |-> "backlog", item |-> "B-2", word |-> "ignore", ruling |-> ""],
    [kind |-> "dispute", item |-> "D-1", word |-> "ruled", ruling |-> "{slug}"] }

(* What sessions are told; none of these is seen past its start.           *)
RoleJobs ==
  { [Blank EXCEPT !.role = role, !.template = template, !.skills = skills, !.inject = inject,
                  !.feedback = <<"no", "{slug}">>, !.files = <<"a.rs", "b.rs">>, !.decisions = decisions,
                  !.budget = budget, !.metrics = Some(<<"reopened", domain>>)] :
      role \in {"plan", "impl", "audit", "retro"},
      template \in {<<"{budget_line}", "{brief_path}", "read">>, <<"{task_metrics}", "{metric_vocabulary}">>,
                    <<"do", "{unknown}">>},
      skills \in {<<>>, <<"skill">>}, inject \in {"none", "feedback", "conflict", "decisions"},
      decisions \in {<<>>} \cup {s \in [1..2 -> Items] : s[1] # s[2]},
      budget \in {None, Some("35")}, domain \in {"design", "{slug}"} }

IntakeJobs ==
  { [Blank EXCEPT !.role = "intake", !.template = template, !.request = request,
                  !.attachments = attachments, !.refs = refs] :
      template \in {<<"{request}", "{inputs}", "{slug}">>, <<"{inputs}", "{design_rounds}">>},
      request \in {<<"please", "do">>, <<"do", "{slug}">>, <<"do", "{unknown}">>},
      attachments \in {<<>>, <<"a.png", "b.png">>}, refs \in {<<>>, <<"README.md">>} }

SystemJobs ==
  { [Blank EXCEPT !.role = "onboarding", !.template = template] :
      template \in {<<"look around">>, <<"{slug}">>} }

AllJobs ==
  Working \cup {[j EXCEPT !.installed = FALSE] : j \in RoleJobs \cup IntakeJobs \cup SystemJobs}
=============================================================================
