------------------------- MODULE LearningDocuments -------------------------
(***************************************************************************)
(* The two files the loop learns from: a task's lessons.md (lesson.rs) and *)
(* the protocol's CHANGELOG.md (changelog.rs).  Both are prose with blocks *)
(* in it, which one small scanner finds (yaml_lite.rs blocks).  Sessions   *)
(* write a file line by line; `r` is the scanner after the lines of `doc`. *)
(***************************************************************************)
EXTENDS Naturals, Sequences, FiniteSets, SequencesExt

CONSTANTS
  Scripts,       \* by topic: the sets of lines that may come first, second...
  Lessons,       \* the topics that are a lessons.md; the others are a changelog
  LessonFields,  \* the fields of a lesson, every one required
  EntryFields,   \* the fields of a changelog entry
  EntryOptional, \* of these the ones it may lack
  Closed         \* the fields of either whose values come from a closed vocabulary

Kinds == {"fence", "bullet", "note", "blank", "field", "more", "text", "comment", "version"}
Lines == [k : Kinds, a : STRING, b : STRING]

(* What the constants have to be (assumed where they are given values).    *)
LearningConstants ==
  /\ Lessons \subseteq DOMAIN Scripts
  /\ "id" \in LessonFields /\ "id" \in EntryFields \ EntryOptional
  /\ EntryOptional \subseteq EntryFields /\ Closed \subseteq LessonFields \cup EntryFields
  /\ \A t \in DOMAIN Scripts : \A n \in DOMAIN Scripts[t] : Scripts[t][n] \subseteq Lines

VARIABLES topic, doc, r

vars == <<topic, doc, r>>

---------------------------------------------------------------------------
(* r.open is the block the scanner is in, its fields in their order, none  *)
(* for none; a field keeps the numbers of the lines its value is made of.  *)
(* r.before holds the finished sections of a changelog, r.tag the heading  *)
(* the current one stands under.                                           *)

Unreleased == "unreleased"
Scanner == [fence |-> "none", open |-> <<>>, blocks |-> <<>>]
Fresh == [tag |-> Unreleased, before |-> <<>>] @@ Scanner

Flushed(p) ==
  IF p.open = <<>> THEN p ELSE [p EXCEPT !.open = <<>>, !.blocks = Append(@, p.open)]

AField(l, n) == [key |-> l.a, value |-> l.b, lines |-> <<n>>]

Fence(p, l) ==
  [Flushed(p) EXCEPT !.fence = IF p.fence # "none" THEN "none" ELSE l.a]

(* A bullet ends the block above it and starts one if it is `key: value`.  *)
Bullet(p, l, n) ==
  IF l.k = "bullet" THEN [Flushed(p) EXCEPT !.open = <<AField(l, n)>>] ELSE Flushed(p)

(* A line under a bullet: a field of the block, or the rest of the value   *)
(* above it; the next paragraph ends the block.                            *)
Inside(p, l, n) ==
  CASE l.k = "field"   -> [p EXCEPT !.open = Append(@, AField(l, n))]
    [] l.k = "more"    -> [p EXCEPT !.open[Len(p.open)].lines = Append(@, n)]
    [] l.k = "text"    -> Flushed(p)
    [] l.k \in {"comment", "version"} -> p

Scan(p, l, n) ==
  CASE l.k = "fence" -> Fence(p, l)
    [] l.k # "fence" /\ p.fence = "code" -> p
    [] p.fence # "code" /\ l.k \in {"bullet", "note"} -> Bullet(p, l, n)
    [] p.fence # "code" /\ l.k = "blank" -> IF p.fence = "yaml" THEN p ELSE Flushed(p)
    [] p.fence # "code" /\ l.k \in {"field", "more", "text", "comment", "version"} ->
         IF p.open = <<>> THEN p ELSE Inside(p, l, n)

Section(p) == [tag |-> p.tag, blocks |-> Flushed(p).blocks]

(* A changelog is cut at its `## ` headings before any block is looked     *)
(* for, so each section is scanned from its own start.                     *)
NextSection(p, l) ==
  [tag |-> l.a, before |-> Append(p.before, Section(p))] @@ Scanner

Read(p, l, n) ==
  IF l.k = "version" /\ topic \notin Lessons THEN NextSection(p, l) ELSE Scan(p, l, n)

---------------------------------------------------------------------------
(* What a block says, or why it is refused.                                *)

Keys(b)     == {b[i].key : i \in DOMAIN b}
Get(b, key) == b[CHOOSE i \in DOMAIN b : b[i].key = key /\ \A j \in 1..(i - 1) : b[j].key # key]
IsEntry(b)  == b[1].key = "id"

(* A value out of a vocabulary fits on its line and is one of its words; a *)
(* flow map or sequence is closed in the same way.                         *)
Parses(f) == f.key \in Closed => f.value # "bad" /\ Len(f.lines) = 1

Verdict(b, known, optional) ==
  IF ~(Keys(b) \subseteq known) THEN "unknown field"
  ELSE IF Cardinality(Keys(b)) # Len(b) THEN "repeated field"
  ELSE IF ~(known \ optional \subseteq Keys(b)) THEN "missing field"
  ELSE IF \E key \in Keys(b) : ~Parses(Get(b, key)) THEN "bad value"
  ELSE "ok"

Entries(blocks) == SelectSeq(blocks, IsEntry)

(* One bad block fails the whole file.                                     *)
Accepted(blocks, known, optional) ==
  \A i \in DOMAIN Entries(blocks) : Verdict(Entries(blocks)[i], known, optional) = "ok"

LessonsOf(p) == Entries(Flushed(p).blocks)
LessonsAccepted(p) == Accepted(Flushed(p).blocks, LessonFields, {})

(* The versions of a changelog: an empty section counts only under a new   *)
(* tag of its own.                                                         *)
AddVersion(versions, s) ==
  IF Entries(s.blocks) = <<>> /\ (s.tag = Unreleased \/ \E i \in DOMAIN versions : versions[i].tag = s.tag)
  THEN versions
  ELSE Append(versions, [tag |-> s.tag, entries |-> Entries(s.blocks)])

AllSections(p) == Append(p.before, Section(p))
Versions(p) == FoldLeft(AddVersion, <<>>, AllSections(p))
ChangelogAccepted(p) ==
  \A i \in DOMAIN AllSections(p) : Accepted(AllSections(p)[i].blocks, EntryFields, EntryOptional)

(* What changelog.rs version answers for a tag; the entries of none.       *)
VersionOf(p, tag) ==
  LET named == {i \in DOMAIN Versions(p) : Versions(p)[i].tag = tag}
  IN  IF named = {} THEN <<>> ELSE Versions(p)[CHOOSE i \in named : \A j \in named : i <= j].entries

---------------------------------------------------------------------------
Init == topic \in DOMAIN Scripts /\ doc = <<>> /\ r = Fresh

Write(l) ==
  /\ doc' = Append(doc, l)
  /\ r' = Read(r, l, Len(doc) + 1)
  /\ UNCHANGED topic

Next ==
  /\ topic \in DOMAIN Scripts /\ Len(doc) < Len(Scripts[topic])
  /\ \E l \in Scripts[topic][Len(doc) + 1] : Write(l)

Spec == Init /\ [][Next]_vars

---------------------------------------------------------------------------
(* The same, read off the lines: where a block begins and how far it goes. *)

Cut(i)     == topic \notin Lessons /\ doc[i].k = "version"
From(i)    == {j \in 1..(i - 1) : \A m \in j..(i - 1) : ~Cut(m)}
Fences(i)  == {j \in From(i) : doc[j].k = "fence"}
InFence(i) == Cardinality(Fences(i)) % 2 = 1
FenceAt(i) == IF InFence(i) THEN doc[CHOOSE j \in Fences(i) : \A m \in Fences(i) : m <= j].a ELSE "none"
Starts     == {i \in DOMAIN doc : doc[i].k = "bullet" /\ FenceAt(i) # "code"}

Ends(j) ==
  \/ doc[j].k \in {"fence", "bullet", "note", "text"} \/ Cut(j)
  \/ doc[j].k = "blank" /\ FenceAt(j) = "none"
Extent(i) == {j \in (i + 1)..Len(doc) : \A m \in (i + 1)..j : ~Ends(m)}
FieldLines(i) == {i} \cup {j \in Extent(i) : doc[j].k = "field"}
Wrapped(i, j) == \E m \in Extent(i) : doc[m].k = "more" /\ j < m /\ \A f \in FieldLines(i) : f <= j \/ m < f

Found ==
  IF topic \in Lessons THEN LessonsOf(r)
  ELSE FlattenSeq([i \in DOMAIN AllSections(r) |-> Entries(AllSections(r)[i].blocks)])

(* No lesson and no changelog entry is lost, merged with its neighbour or  *)
(* cut short: every `- id:` bullet outside a code sample is one entry, its *)
(* fields are those written under it, up to the next bullet, paragraph,    *)
(* fence or blank line, and the wrapped rest of a value stays with it.     *)
EntriesAreWhole ==
  /\ {b[1].lines[1] : b \in ToSet(Found)} = {i \in Starts : doc[i].a = "id"}
  /\ \A b \in ToSet(Found) :
       LET i == b[1].lines[1]
       IN  /\ {b[n].lines[1] : n \in DOMAIN b} = FieldLines(i)
           /\ UNION {ToSet(b[n].lines) : n \in DOMAIN b} \ FieldLines(i)
                = {j \in Extent(i) : doc[j].k = "more"}
           /\ \A n \in DOMAIN b : doc[b[n].lines[1]].a = b[n].key /\ doc[b[n].lines[1]].b = b[n].value

(* A file is refused for a fault that is in it and accepted only without   *)
(* one: each accepted entry says every required field, and every field it  *)
(* says once.                                                              *)
Faulty(i, known, optional) ==
  \/ \E j \in FieldLines(i) : doc[j].a \notin known
  \/ \E j, m \in FieldLines(i) : j # m /\ doc[j].a = doc[m].a
  \/ \E key \in known \ optional : \A j \in FieldLines(i) : doc[j].a # key
  \/ \E j \in FieldLines(i) :
       doc[j].a \in Closed /\ (doc[j].b = "bad" \/ Wrapped(i, j))

RefusedForCause ==
  IF topic \in Lessons
  THEN LessonsAccepted(r) <=> ~\E i \in Starts : doc[i].a = "id" /\ Faulty(i, LessonFields, {})
  ELSE ChangelogAccepted(r) <=> ~\E i \in Starts : doc[i].a = "id" /\ Faulty(i, EntryFields, EntryOptional)

(* An entry belongs to the version whose heading it stands under; a tag    *)
(* written once answers with all of its entries, and an empty heading      *)
(* never hides the entries of an earlier one with its tag.                 *)
TagAt(i) ==
  LET heads == {j \in 1..(i - 1) : Cut(j)}
  IN  IF heads = {} THEN Unreleased ELSE doc[CHOOSE j \in heads : \A m \in heads : m <= j].a

SectionsOwnTheirEntries ==
  topic \notin Lessons =>
    /\ \A v \in ToSet(Versions(r)) : \A b \in ToSet(v.entries) : TagAt(b[1].lines[1]) = v.tag
    /\ \A i \in Starts :
         LET tag == TagAt(i)
             heads == {j \in DOMAIN doc : Cut(j) /\ doc[j].a = tag}
         IN  doc[i].a = "id" /\ Cardinality(heads) = (IF tag = Unreleased THEN 0 ELSE 1)
               => \E b \in ToSet(VersionOf(r, tag)) : b[1].lines[1] = i
    /\ \A i, j \in DOMAIN Versions(r) :
         Versions(r)[i].entries = <<>> /\ Versions(r)[j].tag = Versions(r)[i].tag => i <= j
=============================================================================
