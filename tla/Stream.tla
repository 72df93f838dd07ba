------------------------------- MODULE Stream -------------------------------
(***************************************************************************)
(* A session's output: JSONL events of claude or codex with whatever else  *)
(* the process prints between them.  The renderer (stream_render.rs) turns *)
(* it into the log a person reads while it is written; usage.rs reads from *)
(* it, once the session has ended, what the session cost.                  *)
(*                                                                         *)
(* A line is its kind k; what it is called (an event's message, an item's  *)
(* type); and the tokens it reports, none when it reports none.            *)
(***************************************************************************)
EXTENDS Naturals, Sequences, SequencesExt

Runtimes == {"claude", "codex"}
None     == <<>>
Some(n)  == <<n>>

---------------------------------------------------------------------------
(* stream_render.rs: which lines get one of their own in the log.  What is *)
(* no event is passed through, what is unknown is named, and only what has *)
(* nothing to say to a person is dropped.                                  *)

RendersLine(l) ==
  CASE l.k = "assistant" -> l.name # "empty"
    [] l.k = "user"      -> l.name = "error"
    [] l.k = "system"    -> l.name = "init"
    [] OTHER             -> TRUE

Started == {"reasoning", "command", "failed command", "mcp_tool_call", "web_search"}
Dropped == {"todo_list", "reasoning", "command", "mcp_tool_call", "web_search", "empty"}

RendersCodexLine(l) ==
  CASE l.k = "turn.started"   -> FALSE
    [] l.k = "item.started"   -> l.name \in Started
    [] l.k = "item.completed" -> l.name \notin Dropped
    [] OTHER                  -> TRUE

Renders(runtime, l) == IF runtime = "claude" THEN RendersLine(l) ELSE RendersCodexLine(l)

(* A line that is not UTF-8 ends the renderer, and the reading of usage.   *)
Garbled(l) == l.k = "garbled"

---------------------------------------------------------------------------
(* usage.rs.                                                               *)

Cost == [turns |-> None, input |-> None, mean |-> None]

(* Claude repeats a message's usage with every block of its content; the   *)
(* last result line tells what the whole session took.                     *)
ClaudeLine(p, l) ==
  CASE l.k = "assistant" /\ l.name \in p.seen -> p
    [] l.k = "assistant" /\ l.name \notin p.seen ->
         [p EXCEPT !.seen = IF l.name = "" THEN @ ELSE @ \cup {l.name},
                   !.requests = @ \o l.tokens]
    [] l.k = "result" -> [p EXCEPT !.turns = l.turns, !.input = l.tokens]
    [] OTHER -> p

Sum(s) == FoldLeft(LAMBDA a, b : a + b, 0, s)

ClaudeCost(s) ==
  LET p == FoldLeft(ClaudeLine, [seen |-> {}, requests |-> <<>>, turns |-> None, input |-> None], s)
  IN  [turns |-> p.turns, input |-> p.input,
       mean |-> IF p.requests = <<>> THEN None ELSE Some(Sum(p.requests) \div Len(p.requests))]

(* Codex counts its turns by the line that ends each.                      *)
CodexCost(s) ==
  LET turns == SelectSeq(s, LAMBDA l : l.k = "turn.completed")
      told  == SelectSeq(turns, LAMBDA l : l.tokens # None)
      total == Sum([i \in DOMAIN told |-> told[i].tokens[1]])
  IN  IF turns = <<>> THEN Cost
      ELSE [turns |-> Some(Len(turns)),
            input |-> IF told = <<>> THEN None ELSE Some(total),
            mean  |-> IF told = <<>> THEN None ELSE Some(total \div Len(turns))]

(* parse: of a file that cannot be read as text, nothing.                  *)
Usage(runtime, s) ==
  IF \E i \in DOMAIN s : Garbled(s[i]) THEN Cost
  ELSE IF runtime = "claude" THEN ClaudeCost(s) ELSE CodexCost(s)

---------------------------------------------------------------------------
(* The same without a scan: the requests of a claude session are the first *)
(* lines of its messages.                                                  *)
Requests(s) ==
  {i \in DOMAIN s : /\ s[i].k = "assistant" /\ s[i].tokens # None
                    /\ s[i].name = "" \/ \A j \in 1..(i - 1) : s[j].k # "assistant" \/ s[j].name # s[i].name}

LastOf(s, kind) ==
  LET of == {i \in DOMAIN s : s[i].k = kind}
  IN  IF of = {} THEN None ELSE Some(s[CHOOSE i \in of : \A j \in of : j <= i])

Turns(s) == {i \in DOMAIN s : s[i].k = "turn.completed"}
Told(s)  == {i \in Turns(s) : s[i].tokens # None}

Total(s, lines) == FoldLeft(LAMBDA a, i : IF i \in lines THEN a + s[i].tokens[1] ELSE a,
                            0, [i \in DOMAIN s |-> i])
Count(s, lines) == Len(SelectSeq([i \in DOMAIN s |-> i], LAMBDA i : i \in lines))

(* What the lines of a session say it took.                                *)
CostsWhatItSays(runtime, s, cost) ==
  IF runtime = "claude"
  THEN /\ IF LastOf(s, "result") = None THEN cost.turns = None /\ cost.input = None
          ELSE cost.turns = LastOf(s, "result")[1].turns /\ cost.input = LastOf(s, "result")[1].tokens
       /\ IF Requests(s) = {} THEN cost.mean = None
          ELSE cost.mean = Some(Total(s, Requests(s)) \div Count(s, Requests(s)))
  ELSE /\ cost.turns = IF Turns(s) = {} THEN None ELSE Some(Count(s, Turns(s)))
       /\ cost.input = IF Told(s) = {} THEN None ELSE Some(Total(s, Told(s)))
=============================================================================
