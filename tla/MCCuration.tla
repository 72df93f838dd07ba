----------------------------- MODULE MCCuration -----------------------------
(* Values for TLC.                                                         *)
EXTENDS Curation

Build(tag, text) == [tag |-> tag, text |-> text]
(* Two builds that call different text by one tag, and a newer version.    *)
MCBuilds == <<Build("v1", "old"), Build("v1", "new"), Build("v2", "newer")>>

Lesson(id, key, words, level) == [id |-> id, key |-> key, words |-> words, level |-> level]
Plain   == Lesson(1, "k", "short", "rule")
Reworded == Lesson(1, "k", "other words", "rule")
Other   == Lesson(1, "j", "a short one", "rule")
MCLessonLists ==
  {{Plain}, {Reworded}, {Other}, {Other, [Other EXCEPT !.id = 2]},
   {Lesson(1, "k", "short", "protocol")}}

MCDomainOf == [k \in {"k", "j"} |-> "tooling"]
Bodies     == {"short", "other words", "a short one", "hand"}
MCInside   == {<<b, b>> : b \in Bodies} \cup {<<"short", "a short one">>}

Bounds(sessions, crashes, edits, retros, lost, hands) ==
  [sessions |-> sessions, crashes |-> crashes, edits |-> edits, retros |-> retros,
   lost |-> lost, hands |-> hands]

(* A task that went through, with what its retro round wrote.              *)
Ended(n, lessons) ==
  [NewTask EXCEPT !.st = "done", !.nth = n, !.lessons = lessons,
                  !.metrics = [ref |-> None, of |-> [m \in Watched |-> 0]]]
Working == [NewTask EXCEPT !.st = "active", !.running = TRUE]
Gone    == [NewTask EXCEPT !.st = "cancelled"]

(* Two tasks from their start; two that agree on a lesson between one that *)
(* was created before them and one that was created after, with faults or  *)
(* with a person who edits the rules.                                      *)
Between == [i \in Tasks |-> IF i \in {2, 3} THEN Ended(i - 1, {Plain}) ELSE Working]
MCStarts ==
  {[task |-> [i \in Tasks |-> IF i <= 2 THEN NewTask ELSE Gone], left |-> Bounds(3, 1, 1, 0, 0, 0)],
   [task |-> Between, left |-> Bounds(0, 1, 0, 1, 0, 0)],
   [task |-> Between, left |-> Bounds(0, 0, 0, 1, 1, 1)]}
=============================================================================
