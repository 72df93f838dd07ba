------------------------------ MODULE Contract ------------------------------
(***************************************************************************)
(* The kernel contract of a protocol version (autome-domain protocol.rs):  *)
(* regions of a file between two marker lines, which the core parses and   *)
(* whose text an edited version must leave as the seed in the binary has   *)
(* it.  The file is read line by line, `r` is the reader after `doc`; a    *)
(* line is an opening marker and the name on it, a closing one, or text.   *)
(***************************************************************************)
EXTENDS Naturals, Sequences, FiniteSets

CONSTANTS
  Scripts, \* by topic: the sets of lines that may come first, second...
  Expected \* the regions the binary knows of this file: their text by their name

Closed == "closed"
Lines  == {l \in [k : {"open", "close", "text"}, a : STRING, b : STRING] : l.a # Closed}

(* What the constants have to be (assumed where they are given values).    *)
(* The binary's own regions come from the same parser and have names, and  *)
(* they have text: the code compares a hash of the lines joined, which is  *)
(* the same for no line as for one that is empty, and for nothing else.    *)
ContractConstants ==
  /\ "" \notin DOMAIN Expected
  /\ \A name \in DOMAIN Expected : Expected[name] \in Seq(STRING) \ {<<>>, <<"">>}
  /\ \A t \in DOMAIN Scripts : Scripts[t] \in Seq(SUBSET Lines)

VARIABLES topic, doc, r

vars == <<topic, doc, r>>

---------------------------------------------------------------------------
Fresh == [err |-> "none", open |-> Closed, body |-> <<>>, found |-> <<>>]

Names(p) == {p.found[i].name : i \in DOMAIN p.found}

BugReopens(p, l) ==
  IF l.a = "" THEN [p EXCEPT !.err = "Unnamed"] ELSE [p EXCEPT !.open = l.a, !.body = <<>>]

Opening(p, l) ==
  IF p.open # Closed THEN [p EXCEPT !.err = "Unbalanced"]
  ELSE IF l.a = "" THEN [p EXCEPT !.err = "Unnamed"]
  ELSE [p EXCEPT !.open = l.a, !.body = <<>>]

Closing(p) ==
  IF p.open = Closed THEN [p EXCEPT !.err = "Unbalanced"]
  ELSE IF p.open \in Names(p) THEN [p EXCEPT !.err = "Duplicate"]
  ELSE [p EXCEPT !.found = Append(@, [name |-> p.open, body |-> p.body]), !.open = Closed]

Read(p, l) ==
  CASE p.err # "none" -> p
    [] p.err = "none" /\ l.k = "open"  -> Opening(p, l)
    [] p.err = "none" /\ l.k = "close" -> Closing(p)
    [] p.err = "none" /\ l.k = "text"  ->
         IF p.open = Closed THEN p ELSE [p EXCEPT !.body = Append(@, l.b)]

(* verify_contract: markers that cannot be paired make the whole file one  *)
(* breach; otherwise every region is compared on its own.                  *)
Breaches(p) ==
  IF p.err # "none" \/ p.open # Closed THEN {<<"Malformed", "">>}
  ELSE {<<"Missing", n>> : n \in DOMAIN Expected \ Names(p)}
       \cup {<<"Changed", p.found[i].name>> :
               i \in {j \in DOMAIN p.found : /\ p.found[j].name \in DOMAIN Expected
                                             /\ p.found[j].body # Expected[p.found[j].name]}}
       \cup {<<"Unknown", n>> : n \in Names(p) \ DOMAIN Expected}

---------------------------------------------------------------------------
Init == topic \in DOMAIN Scripts /\ doc = <<>> /\ r = Fresh

Write(l) ==
  /\ doc' = Append(doc, l)
  /\ r' = Read(r, l)
  /\ UNCHANGED topic

Next ==
  /\ topic \in DOMAIN Scripts /\ Len(doc) < Len(Scripts[topic])
  /\ \E l \in Scripts[topic][Len(doc) + 1] : Write(l)

Spec == Init /\ [][Next]_vars

---------------------------------------------------------------------------
(* A version with no breach is one whose markers and everything between    *)
(* them are the seed's: line by line each expected region stands in the    *)
(* file once, whole and in one piece, and there is no other marker.  A     *)
(* version with a breach is not.                                           *)
Stands(name, i) ==
  LET n == Len(Expected[name])
  IN  /\ i + n + 1 \in DOMAIN doc
      /\ doc[i].k = "open" /\ doc[i].a = name /\ doc[i + n + 1].k = "close"
      /\ \A m \in 1..n : doc[i + m].k = "text" /\ doc[i + m].b = Expected[name][m]

Markers(k) == {i \in DOMAIN doc : doc[i].k = k}

ContractHolds ==
  Breaches(r) = {} <=>
    /\ \A name \in DOMAIN Expected :
         Cardinality({i \in Markers("open") : doc[i].a = name}) = 1
    /\ \A i \in Markers("open") : doc[i].a \in DOMAIN Expected /\ Stands(doc[i].a, i)
    /\ Cardinality(Markers("close")) = Cardinality(Markers("open"))
=============================================================================
