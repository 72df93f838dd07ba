------------------------------- MODULE MCGate -------------------------------
EXTENDS Gate, TLC

MCRoles     == {"plan", "impl", "audit"}
MCRequired  == {<<r, "start no other session">> : r \in MCRoles}
MCForbidden == {<<r, "additional task">> : r \in MCRoles}
MCRegions   == {<<"loop-protocol", "region">>}
MCLevel     == [h \in {"# loop", "## audit", "## audit, in short", "### how"} |->
                  CASE h = "# loop" -> 1 [] h = "### how" -> 3 [] OTHER -> 2]
MCBegins    == {<<"## audit, in short", "## audit">>, <<"evals/a2", "evals/a">>}
MCBaselines == <<Slashed("evals/base")>>

Phrase == "start no other session"
Field(k, v) == [k |-> k, v |-> v]

MCase(runs, role, graders) ==
  [fields |-> <<Field("name", "a"), Field("role", role), Field("runs", runs)>>, graders |-> graders]

Entry(kind, eval, direction, evidence, leaf) ==
  [kind |-> kind, eval |-> eval, direction |-> direction, evidence |-> evidence, measurable |-> TRUE,
   clause |-> [file |-> "loop-protocol", leaf |-> leaf]]

Sound(eval) == Entry("behavioral", eval, "down", <<"t1", "t2">>, "## audit")
Unreleased(entries) == [state |-> "ok", sections |-> << [tag |-> "unreleased", entries |-> entries],
                                                        [tag |-> "v1", entries |-> <<Sound(<<Slashed("evals/a")>>)>>] >>]

Seed ==
  [readable |-> TRUE,
   texts |-> [f \in MCRoles \cup {"onboarding", "intake", "loop-protocol", "session-protocol"} |->
     CASE f = "plan" -> <<"{doc_dir}", Phrase>>
       [] f \in {"impl", "audit"} -> <<"{budget_line}", Phrase>>
       [] f = "loop-protocol" -> <<"# loop", "region", "example", "## audit", "### how", "look">>
       [] f = "session-protocol" -> <<"# loop", "example">>
       [] OTHER -> <<"look around">>],
   map |-> [state |-> "ok", roles |-> "audit" :> << <<"loop-protocol", "## audit">> >>],
   log |-> Unreleased(<<Sound(<<Slashed("evals/a")>>)>>),
   cases |-> "evals/a" :> MCase("3", "audit", <<"g1">>) @@ "evals/base" :> MCase("1", "impl", <<"g1">>),
   beside |-> [p \in {"evals/a", "evals/base"} \X {"scaffold", "g1", "g2"} |-> "has a control"]]

(* One thing changed in one of the texts: a word lost, gained or replaced, *)
(* or the file.                                                            *)
LoseWord(t, i) == [j \in 1..(Len(t) - 1) |-> IF j < i THEN t[j] ELSE t[j + 1]]

NewTexts(t) ==
  {LoseWord(t, i) : i \in DOMAIN t}
  \cup {Append(t, w) : w \in {"{slug}", "{unknown}", "{request}", "additional task", "region", "bad example", Phrase}}
  \cup {[t EXCEPT ![i] = "## audit, in short"] : i \in {j \in DOMAIN t : t[j] = "## audit"}}

Without(f, x) == [y \in DOMAIN f \ {x} |-> f[y]]

TextChanged ==
  UNION {{[Seed EXCEPT !.texts[f] = t] : t \in NewTexts(Seed.texts[f])} : f \in DOMAIN Seed.texts}
  \cup {[Seed EXCEPT !.texts = Without(@, f)] : f \in DOMAIN Seed.texts}

MapChanged ==
  {[Seed EXCEPT !.map.state = "unreadable"], [Seed EXCEPT !.map.roles = "auditor" :> <<>>],
   [Seed EXCEPT !.map.roles = "audit" :> << <<"session-protocol", "## audit">> >>],
   [Seed EXCEPT !.map.roles = "plan" :> << <<"loop-protocol", "### how">>, <<"session-protocol", "# loop">> >>],
   [Seed EXCEPT !.readable = FALSE]}

CasesChanged ==
  {[Seed EXCEPT !.cases["evals/a"] = MCase(runs, role, graders)] :
     runs \in {"0", "1", "2", "many"}, role \in {"audit", "auditor"}, graders \in {<<>>, <<"g2", "g1">>}}
  \cup {[Seed EXCEPT !.cases["evals/a"] = MCase("3", "audit", <<"g2", "g1">>)]}
  \cup {[Seed EXCEPT !.cases["evals/a"].fields = Append(@, Field(k, "1"))] : k \in {"runs", "max_turn", "max_turns"}}
  \cup {[Seed EXCEPT !.cases = Without(@, dir)] : dir \in DOMAIN Seed.cases}
  \cup {[Seed EXCEPT !.beside[p] = "no control"] : p \in DOMAIN Seed.beside}
  \cup {[Seed EXCEPT !.beside = Without(@, p)] : p \in DOMAIN Seed.beside}

Evals == {<<>>, <<Slashed("evals/a")>>, << [dir |-> "evals/a", slash |-> FALSE] >>, <<Slashed("evals/b")>>}

LogChanged ==
  {[Seed EXCEPT !.log = Unreleased(<<Entry(kind, eval, direction, evidence, leaf)>>)] :
     kind \in {"behavioral", "wording", "retire"}, eval \in Evals, direction \in {"down", "flat"},
     evidence \in {<<"t1", "t1">>, <<"t1", "t2">>}, leaf \in {"## audit", "## gone", ""}}
  \cup {[Seed EXCEPT !.log.state = "unreadable"], [Seed EXCEPT !.log.sections = <<>>],
        [Seed EXCEPT !.log.sections[1].entries = <<>>]}

MCProposals == {Seed} \cup TextChanged \cup MapChanged \cup CasesChanged \cup LogChanged
MCRevisions == {[Seed EXCEPT !.texts = Without(@, "audit")], [Seed EXCEPT !.log.sections[1].entries = <<>>],
                [Seed EXCEPT !.readable = FALSE]}
=============================================================================
