---------------------------- MODULE MCDocuments ----------------------------
(***************************************************************************)
(* The texts sessions write and the core reads, one kind in each           *)
(* behaviour: a design document, lessons and a changelog, the contract     *)
(* regions of a protocol file, each written line by line; what rounds      *)
(* leave for the next one's brief; the stream of one; the frames of the    *)
(* pipe; the store's file; or a proposed protocol version on its way       *)
(* through the gate.                                                       *)
(***************************************************************************)
EXTENDS MCGate, Schema

VARIABLES topic, doc, r

document == <<topic, doc, r>>

L(k, a, b) == [k |-> k, a |-> a, b |-> b]
P(k) == L(k, "", "")
Sec(s) == L("section", s, "")
Row(id, state) == L("row", id, state)
Attr(key, value) == L("field", key, value)

Times(n, set) == [i \in 1..n |-> set]

TableLines ==
  {P("fence"), P("text"), Sec("milestones"), Sec("other"), P("header"), P("other table"),
   P("separator"), Row("M-1", "open"), Row("M-2", "done")}
ListLines ==
  {P("fence"), P("blank"), P("text"), P("indented"), Sec("disputes"), Sec("backlog"),
   L("bullet", "B-1", "x"), L("bullet", "", "")}
FieldLines ==
  {P("fence"), P("title"), Sec("milestones"), Attr("status", "designing"),
   Attr("status", "implementing"), Attr("current", "none"), Attr("current", "M-1"),
   Attr("current", "bad"), Attr("round", "1/15"), Attr("remark", "x")}

Opening == <<{Sec("milestones")}, {P("header")}, {P("separator")}>>

Design ==
  [ table  |-> <<{Sec("milestones")}>> \o Times(5, TableLines),
    rows   |-> Opening \o <<{Row("M-1", "open")}>> \o Times(4, TableLines \cup {P("bad row")}),
    lists  |-> <<{Sec("backlog")}>> \o Times(5, ListLines),
    fields |-> Times(4, FieldLines) \o Opening \o <<{Row("M-1", "done"), Row("M-2", "pending")}>> ]

D == INSTANCE StatusDocument
       WITH Scripts <- Design, Required <- {"status", "round", "current"}, Optional <- {"repos"}

BlockLines ==
  {L("fence", "yaml", ""), L("fence", "code", ""), L("bullet", "id", "L-1"), P("note"), P("blank"),
   P("more"), P("text"), P("comment"), Attr("domain", "design"), Attr("domain", "bad"),
   Attr("remark", "x")}
EntryLines ==
  {L("fence", "yaml", ""), L("bullet", "id", "C-1"), Attr("kind", "clarify"), Attr("eval", "x"), P("more"),
   P("blank"), L("version", "v1", ""), L("version", "unreleased", "")}

Learning ==
  [ lessons   |-> <<{L("bullet", "id", "L-1"), L("fence", "yaml", ""), P("note")}>> \o Times(4, BlockLines),
    changelog |-> <<{L("version", "v2", ""), L("fence", "yaml", ""), L("bullet", "id", "C-0")}>>
                  \o Times(5, EntryLines) ]

B == INSTANCE LearningDocuments
       WITH Scripts <- Learning, Lessons <- {"lessons"}, LessonFields <- {"id", "domain"},
            EntryFields <- {"id", "kind", "eval"}, EntryOptional <- {"eval"},
            Closed <- {"domain", "kind"}

ContractLines ==
  {L("open", "status", ""), L("open", "table", ""), L("open", "mine", ""), P("open"), P("close"),
   L("text", "", "old"), L("text", "", "new")}

Protocol == [contract |-> Times(6, ContractLines)]

C == INSTANCE Contract
       WITH Scripts <- Protocol, Expected <- [status |-> <<"old">>, table |-> <<"new">>]

Frames == [frames |-> Times(3, {<<>>, <<1>>, <<0, 1>>, <<1, 0>>, <<1, 1, 1>>})]

F == INSTANCE Framing WITH Scripts <- Frames, Prefix <- 2, Base <- 2, MaxFrame <- 2

(* The store's file: new, of any version of ours, of a newer build; or of  *)
(* another program, without a version or with one of its own, which may be *)
(* like one of ours.                                                       *)
MCStrangers ==
  {[has |-> {<<"projects", "">>}, version |-> 0], [has |-> {<<"notes", "">>}, version |-> 2],
   [has |-> {<<"notes", "">>}, version |-> 7]}

R == INSTANCE Briefing
       WITH Topics <- {"brief"}, Ids <- <<"M-1", "M-10">>, Inside <- {<<"M-10", "M-1">>},
            MaxRounds <- 2, None <- "none"

(* The stream of a session, as usage.rs reads it.                          *)
U == INSTANCE Stream

Line(k, name, tokens) ==
  [k |-> k, name |-> name, tokens |-> tokens, turns |-> IF k = "result" THEN U!Some(2) ELSE U!None]
StreamLines ==
  {Line("assistant", name, tokens) : name \in {"m1", "m2", ""}, tokens \in {U!None, U!Some(4)}}
  \cup {Line("result", "", U!Some(9)), Line("result", "", U!None), Line("user", "", U!None),
         Line("turn.completed", "", U!Some(5)), Line("turn.completed", "", U!None)}

StreamInit == topic = "stream" /\ doc = <<>> /\ r = <<>>
StreamNext ==
  /\ topic = "stream" /\ Len(doc) < 4
  /\ \E l \in StreamLines : doc' = Append(doc, l)
  /\ UNCHANGED <<topic, r>>

ASSUME TextsAreWellFormed ==
  /\ D!DocumentConstants /\ B!LearningConstants /\ C!ContractConstants
  /\ F!FramingConstants /\ R!BriefingConstants

NoVersion == version = <<>> /\ edited = FALSE /\ ev = Idle /\ hist = <<>>
NoStore   == db = AsOf(0) /\ cores = [c \in Cores |-> Off]
NoText    == doc = <<>> /\ r = <<>>

MCInit ==
  \/ (D!Init \/ B!Init \/ C!Init \/ F!Init \/ R!Init \/ StreamInit) /\ NoVersion /\ NoStore
  \/ topic = "version" /\ NoText /\ GateInit /\ NoStore
  \/ topic = "store" /\ NoText /\ NoVersion /\ StoreInit

MCNext ==
  \/ (D!Next \/ B!Next \/ C!Next \/ F!Next \/ R!Next \/ StreamNext) /\ UNCHANGED <<gateVars, storeVars>>
  \/ topic = "version" /\ GateNext /\ UNCHANGED <<document, storeVars>>
  \/ topic = "store" /\ StoreNext /\ UNCHANGED <<document, gateVars>>

(* A design document is read as it is written, and what is accepted of it  *)
(* is whole (status_block.rs parse, brief.rs focus).  Lessons and          *)
(* changelog entries are read whole, refused for a fault that is in them,  *)
(* and belong to their version (yaml_lite.rs, lesson.rs, changelog.rs).    *)
(* No breach is reported of a protocol file exactly when its contract      *)
(* regions stand in it as the binary has them (autome-domain protocol.rs). *)
(* The brief of a round has what is to be read of the earlier rounds       *)
(* (brief.rs, scheduler.rs write_brief).                                   *)
(* What a session is said to have cost is what its lines say (usage.rs).   *)
(* And what goes over the pipe arrives frame by frame as it was written    *)
(* (framing.rs, framing.js).                                               *)
ReadAsWritten ==
  /\ topic \in DOMAIN Design => D!ReadsWhatIsThere /\ D!AcceptedIsWhole
  /\ topic \in DOMAIN Learning => B!EntriesAreWhole /\ B!RefusedForCause /\ B!SectionsOwnTheirEntries
  /\ topic \in DOMAIN Protocol => C!ContractHolds
  /\ topic = "brief" => R!BriefLeadsOn
  /\ topic = "stream" => \A runtime \in U!Runtimes : U!CostsWhatItSays(runtime, doc, U!Usage(runtime, doc))
  /\ topic \in DOMAIN Frames => F!FramesArriveWhole

(* Two things comments of status_block.rs say that do not hold.            *)
UnindentedLineEndsTheItem == topic \in DOMAIN Design => D!UnindentedLineEndsTheItem
HeadingEndsTheTable == topic \in DOMAIN Design => D!HeadingEndsTheTable

(* Nor does this, of an audit's brief.                                     *)
AuditIsLedToThePending == topic = "brief" => R!AuditIsLedToThePending
=============================================================================
