----------------------------- MODULE MCProjects -----------------------------
(***************************************************************************)
(* What the core knows of its user's machine: in each behaviour either the *)
(* projects and the configuration files on it (Projects), or the tools it  *)
(* has (Environment).  The other side is at rest: nothing registered, or a *)
(* probe that is over and whose findings the screen has seen.              *)
(***************************************************************************)
EXTENDS Projects, Environment

VARIABLE side

---------------------------------------------------------------------------
(* Values for TLC: projects.                                               *)

MCUnder == {<<"ws/a", "ws">>}

MCRolePatches ==
  {[enabled |-> FALSE], [runtime |-> "codex"], [runtime |-> "claude"], [skills |-> {"s"}],
   [runtime |-> "claude", skills |-> {"s"}]}

MCShipped ==
  [k \in Keys \cup {Theme} |->
     IF k = Theme THEN "system"
     ELSE IF k[1] = "loop" THEN 2
     ELSE [enabled |-> TRUE, skills |-> {},
           runtime |-> IF k[1] = "plan" THEN "claude" ELSE "codex"][k[2]]]

(* The skill is in Claude's directory of the machine.                      *)
MCSeen == [s \in Scopes |-> {<<"s", "claude">>}]

Repo     == [EmptyDir EXCEPT !.repo = TRUE, !.branch = TRUE]
PlainFile == [Absent EXCEPT !.st = "file"]

Start(ws, a, over, n, m, w) ==
  [dir |-> [p \in Paths |-> IF p = "ws" THEN ws ELSE a], over |-> over,
   tasks |-> n, edits |-> m, words |-> w]

(* Overrides from another machine, a key only people read, an old pin, and *)
(* notes beside a role that overrides something and one that does not.     *)
Foreign ==
  [k \in {<<"loop", "parallel">>, <<"review", "runtime">>} \cup Unread |->
     CASE k = <<"loop", "parallel">> -> 1 [] k = <<"review", "runtime">> -> "claude" [] OTHER -> Word]

(* A number, one too small, one too large, and no number.                  *)
MCScribbles == {1, -1, Width, Word}

(* Directories and tasks with an edit, with a word said about the          *)
(* configuration, and one project and its words.                           *)
MCStarts ==
  {Start(ws, a, <<>>, 2, 1, 0) : ws, a \in {EmptyDir, Repo}}
  \cup {Start(Absent, Absent, <<>>, 2, 1, 0), Start(Repo, Repo, <<>>, 1, 0, 1),
        Start(Repo, PlainFile, <<>>, 0, 0, 2), Start(Repo, PlainFile, Foreign, 0, 0, 2)}

---------------------------------------------------------------------------
(* Values for TLC: the tools.                                              *)

(* A CLI that prints JSON, says it is logged in or not, does not know the  *)
(* first way to ask, or never answers; or something is missing.            *)
Text(marks, means) == [is |-> "text", json |-> "none", key |-> FALSE, marks |-> marks, means |-> means]
Json(json, key, means) == [is |-> "json", json |-> json, key |-> key, marks |-> {}, means |-> means]

LoggedIn == Text({"in"}, "in")
NotLoggedIn == Text({"in", "out"}, "out")
Help == Text({"unknown", "in", "out"}, "nothing")
Silence == Text({}, "nothing")
Hangs == [Silence EXCEPT !.is = "hangs"]

There(answers) ==
  [present |-> TRUE, bundle |-> FALSE, env |-> FALSE, version |-> "said", answers |-> answers]

Usual == [c \in {"git", "claude", "iterm2"} |->
            CASE c = "claude" -> There(<<Json("in", FALSE, "in"), LoggedIn>>)
              [] c = "git"    -> There(<<>>)
              [] c = "iterm2" -> [There(<<>>) EXCEPT !.bundle = TRUE]]

MCMachines ==
  {[Usual EXCEPT !["claude"].answers = answers] :
     answers \in {<<Help, LoggedIn>>, <<NotLoggedIn, LoggedIn>>, <<Json("out", TRUE, "key"), Silence>>}}
  \cup {Usual, [Usual EXCEPT !["claude"].env = TRUE, !["claude"].answers = <<Silence, NotLoggedIn>>],
         [Usual EXCEPT !["git"].present = FALSE, !["claude"].env = TRUE, !["claude"].version = "hangs",
                       !["claude"].answers = <<Help, Hangs>>],
         [Usual EXCEPT !["iterm2"].present = FALSE, !["claude"].answers = <<Hangs, Json("out", FALSE, "out")>>],
         [Usual EXCEPT !["claude"].present = FALSE]}

MCForms == [c \in {"git", "claude", "iterm2"} |-> IF c = "claude" THEN 2 ELSE 0]
MCOrder == <<"git", "claude", "iterm2">>

---------------------------------------------------------------------------
(* One side, and the other at rest.                                        *)

ProjectsRest ==
  /\ dir = [p \in Paths |-> Absent] /\ left = [tasks |-> 0, edits |-> 0, words |-> 0]
  /\ cfg = [x \in Scopes |-> [ok |-> TRUE, set |-> IF x = Global THEN Shipped ELSE <<>>]]
  /\ said = [x \in Scopes |-> cfg[x].set]
  /\ row = [p \in Paths |-> NoRow] /\ tasks = <<>>

ToolsRest ==
  /\ machine = Usual /\ changes = 0 /\ probes = {} /\ strays = 0 /\ restarts = 0
  /\ cache = NewCache /\ window = [seen |-> <<0>>, told |-> FALSE] /\ onscreen = Unseen

MCInit ==
  \/ side = "projects" /\ Init /\ ToolsRest
  \/ side = "tools" /\ EnvInit /\ ProjectsRest

MCNext ==
  \/ side = "projects" /\ Next /\ UNCHANGED <<side, envVars>>
  \/ side = "tools" /\ EnvNext /\ UNCHANGED <<side, vars>>

(* Tools at rest owe no step: the fairness asks nothing of them.           *)
MCSpec == MCInit /\ [][MCNext]_<<side, vars, envVars>> /\ EnvFairness
=============================================================================
