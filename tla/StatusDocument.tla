--------------------------- MODULE StatusDocument ---------------------------
(***************************************************************************)
(* The reader of a task's design document (status_block.rs parse), which   *)
(* decides after every session which node runs next, and the milestone a   *)
(* round's brief is about (brief.rs focus).  Sessions write the document   *)
(* line by line; the reader goes through it line by line, and `r` is what  *)
(* it holds after the lines of `doc`.  A line is what the reader tells     *)
(* apart: its kind k, and what it names (a) and says of it (b).            *)
(***************************************************************************)
EXTENDS Naturals, Sequences, FiniteSets

CONSTANTS
  Scripts,  \* by topic: sequences of sets of lines, those that may come first, second...
  Required, \* the fields every status block has, `status` and `current` among them
  Optional  \* the fields it may have

Sections == {"preamble", "milestones", "backlog", "disputes", "manual", "other"}
Lists    == {"backlog", "disputes", "manual"}
Pipes    == {"header", "other table", "separator", "row", "bad row"}
Plain    == {"fence", "blank", "text", "indented", "deeper", "title"}
Keys     == Required \cup Optional
States   == {"open", "pending", "done"}
Unset    == "unset"
Lines    ==
  {l \in [k : Plain \cup Pipes \cup {"section", "bullet", "field"}, a : STRING, b : STRING] :
     /\ l.k = "section" => l.a \in Sections
     /\ l.k = "row" => l.b \in States
     /\ l.k = "field" => l.b # Unset}

(* What the constants have to be (assumed where they are given values).    *)
DocumentConstants ==
  /\ Required \subseteq STRING /\ Optional \subseteq STRING /\ "status" \in Required
  /\ "current" \in Required /\ Required \cap Optional = {}
  /\ \A t \in DOMAIN Scripts : Scripts[t] \in Seq(SUBSET Lines)

VARIABLES
  topic, \* what this document is made of
  doc,   \* the lines written so far
  r      \* the reader after them

vars == <<topic, doc, r>>

---------------------------------------------------------------------------
(* r.err: why parse returned early; section, fence, table, seen: where the *)
(* scanner is; field, rows, items: what it has collected.  An item holds   *)
(* the numbers of the lines its text is made of.                           *)

Fresh == [err |-> "none", section |-> "preamble", fence |-> FALSE, table |-> "outside",
          seen |-> FALSE, field |-> [k \in Keys |-> Unset], rows |-> <<>>,
          items |-> [s \in Lists |-> <<>>]]

Fails(p, why) == [p EXCEPT !.err = why]

(* An indented line that is no bullet and no heading continues the last    *)
(* item of the list it is in.                                              *)
BugContinuesAnything(p, l) == l.k \in {"indented", "text"} /\ p.section \in Lists /\ p.items[p.section] # <<>>
Continues(p, l) == l.k = "indented" /\ p.section \in Lists /\ p.items[p.section] # <<>>

Continued(items, n) ==
  [items EXCEPT ![Len(items)].text = Append(@, n)]

(* `key: value` in the preamble, for the keys there are; once each.        *)
Parses(key, value) == value # "bad"

ReadField(p, l) ==
  IF l.k # "field" \/ l.a \notin Keys THEN p
  ELSE IF p.field[l.a] # Unset THEN Fails(p, "DuplicateField")
  ELSE IF ~Parses(l.a, l.b) THEN Fails(p, "BadValue")
  ELSE [p EXCEPT !.field[l.a] = l.b]

(* The milestone table's header is known by its first two cells, the first *)
(* one of them in the document.                                            *)
IsItsHeader(p, l) == l.k = "header" /\ ~p.seen

(* A separator opens a body only under a header, and the milestone table's *)
(* only under its own, once.                                               *)
Opened(p) ==
  CASE p.table = "milestone header" -> [p EXCEPT !.table = "body", !.seen = TRUE]
    [] p.table = "other header"     -> [p EXCEPT !.table = "other"]
    [] OTHER                        -> [p EXCEPT !.table = "outside"]

Row(p, l, n) ==
  IF l.k # "row" THEN Fails(p, "BadMilestoneRow")
  ELSE IF \E i \in DOMAIN p.rows : p.rows[i].id = l.a THEN Fails(p, "DuplicateMilestoneId")
  ELSE [p EXCEPT !.rows = Append(@, [id |-> l.a, state |-> l.b, line |-> n])]

ReadTable(p, l, n) ==
  IF l.k \notin Pipes THEN [p EXCEPT !.table = "outside"]
  ELSE IF l.k = "separator" THEN Opened(p)
  ELSE IF p.table = "other" THEN p
  ELSE IF p.table = "body" THEN Row(p, l, n)
  ELSE [p EXCEPT !.table = IF IsItsHeader(p, l) THEN "milestone header" ELSE "other header"]

(* One bullet is one item; one without an id of its own is called by its   *)
(* place in the list.                                                      *)
ReadBullet(p, l, n) ==
  IF l.k # "bullet" THEN p
  ELSE [p EXCEPT !.items[p.section] = Append(@, [named |-> l.a # "", ticked |-> l.b = "x",
                                                 text |-> <<n>>])]

Within(p, l, n) ==
  CASE p.section = "preamble"   -> ReadField(p, l)
    [] p.section = "milestones" -> ReadTable(p, l, n)
    [] p.section \in Lists      -> ReadBullet(p, l, n)
    [] p.section = "other"      -> p

(* One line, the n-th.                                                     *)
Read(p, l, n) ==
  IF p.err # "none" THEN p
  ELSE IF l.k = "fence" THEN [p EXCEPT !.fence = ~@]
  ELSE IF p.fence THEN p
  ELSE IF Continues(p, l) THEN [p EXCEPT !.items[p.section] = Continued(@, n)]
  ELSE IF l.k = "section" THEN [p EXCEPT !.section = l.a]
  ELSE IF l.k = "title" THEN [p EXCEPT !.section = "preamble"]
  ELSE Within(p, l, n)

---------------------------------------------------------------------------
(* The end of the document: what parse answers.                            *)

Known(p, id) == \E i \in DOMAIN p.rows : p.rows[i].id = id

Answer(p) ==
  IF p.err # "none" THEN p.err
  ELSE IF \E k \in Required : p.field[k] = Unset THEN "MissingField"
  ELSE IF p.rows = <<>> /\ p.field["status"] \in {"implementing", "done"}
    THEN "NoMilestonesAfterDesign"
  ELSE IF p.field["current"] # "none" /\ p.rows # <<>> /\ ~Known(p, p.field["current"])
    THEN "UnknownCurrentMilestone"
  ELSE "ok"

(* brief.rs focus: the milestone the block names while it is live, else    *)
(* the first open one, else the first pending one; 0 is none.              *)
First(p, states) ==
  LET of == {i \in DOMAIN p.rows : p.rows[i].state \in states}
  IN  IF of = {} THEN 0 ELSE CHOOSE i \in of : \A j \in of : i <= j

Focus(p) ==
  LET named == {i \in DOMAIN p.rows : p.rows[i].id = p.field["current"]
                                      /\ p.rows[i].state # "done"}
  IN  IF named # {} THEN CHOOSE i \in named : TRUE
      ELSE IF First(p, {"open"}) # 0 THEN First(p, {"open"}) ELSE First(p, {"pending"})

---------------------------------------------------------------------------
Init == topic \in DOMAIN Scripts /\ doc = <<>> /\ r = Fresh

Write(l) ==
  /\ doc' = Append(doc, l)
  /\ r' = Read(r, l, Len(doc) + 1)
  /\ UNCHANGED topic

Next ==
  /\ topic \in DOMAIN Scripts /\ Len(doc) < Len(Scripts[topic])
  /\ \E l \in Scripts[topic][Len(doc) + 1] : Write(l)

Spec == Init /\ [][Next]_vars

---------------------------------------------------------------------------
(* What a document says, read off its lines and not off a scanner.         *)

Fences(i)  == {j \in 1..(i - 1) : doc[j].k = "fence"}
Visible(i) == doc[i].k # "fence" /\ Cardinality(Fences(i)) % 2 = 0
Heads      == {i \in DOMAIN doc : Visible(i) /\ doc[i].k \in {"section", "title"}}

SectionAt(i) ==
  LET above == {h \in Heads : h < i}
      last  == CHOOSE h \in above : \A g \in above : g <= h
  IN  IF above = {} \/ doc[last].k = "title" THEN "preamble" ELSE doc[last].a

(* The lines of a section's own text, those of code blocks left out.       *)
Text(s) == {i \in DOMAIN doc : Visible(i) /\ i \notin Heads /\ SectionAt(i) = s}

(* A separator directly under a milestone header, and the lines of the     *)
(* table below it: those up to the first that is no line of a table.       *)
Milestones == Text("milestones")
Between(i, j) == {m \in Milestones : i < m /\ m < j}
Tops ==
  {t \in Milestones : /\ doc[t].k = "separator"
                      /\ \E h \in Milestones : h < t /\ doc[h].k = "header" /\ Between(h, t) = {}}
Under(t) ==
  {i \in Milestones : /\ t < i /\ doc[i].k \in Pipes \ {"separator"}
                      /\ \A m \in Between(t, i) : doc[m].k \in Pipes \ {"separator"}}
OnItsOwn(t) ==
  \A s \in Milestones : s < t /\ doc[s].k = "separator" => \E m \in Between(s, t) : doc[m].k \notin Pipes

RowLines == {r.rows[i].line : i \in DOMAIN r.rows}

(* Everything machine-read is found where it is and nowhere else, whatever *)
(* prose with pipes, other tables and code blocks stand around it: the     *)
(* rows are all lines of one table, the first milestone table, and none of *)
(* its lines is lost; the items of a list are its bullets, in their order, *)
(* and no line is in two of them; a field is what its only line says.      *)
ReadsWhatIsThere ==
  r.err = "none" =>
    /\ RowLines = {} \/ \E t \in Tops : RowLines \subseteq Under(t)
    /\ \A t \in Tops : OnItsOwn(t) /\ (\A u \in Tops : t <= u) => RowLines = Under(t)
    /\ \A s \in Lists :
         /\ {r.items[s][i].text[1] : i \in DOMAIN r.items[s]} = {i \in Text(s) : doc[i].k = "bullet"}
         /\ \A i, j \in DOMAIN r.items[s] :
              LET mine == r.items[s][i].text
                  its  == r.items[s][j].text
              IN  /\ i < j => \A m \in DOMAIN mine, n \in DOMAIN its : mine[m] # its[n]
                  /\ \A m \in DOMAIN mine \ {1} : doc[mine[m]].k = "indented" /\ mine[m] \in Text(s)
    /\ \A k \in Keys :
         LET said == {i \in Text("preamble") : doc[i].k = "field" /\ doc[i].a = k}
         IN  \/ said = {} /\ r.field[k] = Unset
             \/ \E i \in said : said = {i} /\ r.field[k] = doc[i].b

(* What is accepted is whole: every required field is said somewhere, the  *)
(* milestones have ids of their own, a document past its design has work   *)
(* in it, the milestone it names is one of them, and a brief is about work *)
(* that is not done as long as there is any.                               *)
AcceptedIsWhole ==
  Answer(r) = "ok" =>
    /\ \A k \in Required : \E i \in DOMAIN doc : doc[i].k = "field" /\ doc[i].a = k /\ doc[i].b = r.field[k]
    /\ \A i, j \in DOMAIN r.rows : r.rows[i].id = r.rows[j].id => i = j
    /\ r.field["status"] \in {"implementing", "done"} => r.rows # <<>>
    /\ r.rows # <<>> => r.field["current"] = "none" \/ Known(r, r.field["current"])
    /\ Focus(r) = 0 => \A i \in DOMAIN r.rows : r.rows[i].state = "done"
    /\ Focus(r) # 0 => Focus(r) \in DOMAIN r.rows /\ r.rows[Focus(r)].state # "done"

(* Two things the reader's comments say of it do not hold of every         *)
(* document.  "An unindented line still ends the item":                    *)
UnindentedLineEndsTheItem ==
  r.err = "none" =>
    \A s \in Lists : \A i \in DOMAIN r.items[s] :
      LET text == r.items[s][i].text
      IN  \A j \in Text(s) : text[1] < j /\ j < text[Len(text)] => doc[j].k \in {"indented", "blank"}

(* A table is "body lines until the first line that is not one"; a heading *)
(* or a code block is no such line to the reader.                          *)
HeadingEndsTheTable ==
  \A i \in RowLines : \E t \in Tops : t < i /\ \A j \in (t + 1)..i : doc[j].k \in Pipes
=============================================================================
