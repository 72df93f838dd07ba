------------------------------ MODULE Briefing ------------------------------
(***************************************************************************)
(* The brief a round of the implementation loop is handed (scheduler.rs    *)
(* write_brief, brief.rs): which milestone the round is about and what its *)
(* counterpart concluded on it, looked up in what earlier rounds left in   *)
(* the checkout.  The protocol's own sections of it are Gate's.  `doc` is  *)
(* what the rounds left, `r` the brief of the round under way.             *)
(***************************************************************************)
EXTENDS Naturals, FiniteSetsExt, SequencesExt

CONSTANTS
  Topics,    \* what the behaviours of this module are called
  Ids,       \* the milestones, in the order of the table
  Inside,    \* <<longer, shorter>>: an id that has another one in it
  MaxRounds, \* bound: rounds of each role
  None

(* What the constants have to be (assumed where they are given values).    *)
BriefingConstants ==
  /\ Ids \in Seq(ToSet(Ids)) /\ None \notin ToSet(Ids) \cup {"impl", "audit"}
  /\ MaxRounds \in Nat

VARIABLES topic, doc, r

vars == <<topic, doc, r>>

---------------------------------------------------------------------------
(* What the rounds leave: the design document's table and the milestone it *)
(* calls current, evidence files, and the paragraphs of the audit's        *)
(* document, each with the ids in it.  `audited` holds before there is one.*)

States == {"Open", "Pending", "Done"}

(* The names in the evidence directory that are to the form.               *)
File(id, round, role) == [of |-> id, round |-> round, role |-> role]

---------------------------------------------------------------------------
(* focus: the current milestone while it is live, or the first that is     *)
(* open, or the first that waits for its audit.                            *)
FirstIn(d, state) ==
  LET of == {i \in DOMAIN Ids : d.table[Ids[i]] = state}
  IN  IF of = {} THEN None ELSE Ids[Min(of)]

Focus(d) ==
  IF ~d.readable THEN None
  ELSE IF d.current # None /\ d.table[d.current] # "Done" THEN d.current
  ELSE IF FirstIn(d, "Open") # None THEN FirstIn(d, "Open") ELSE FirstIn(d, "Pending")

(* milestone_paragraphs: those the id is in, as a part of another even.    *)
Paragraphs(d, id) ==
  {i \in DOMAIN d.audit : \E m \in d.audit[i] : m = id \/ <<m, id>> \in Inside}

(* latest_evidence: of the highest round, if there is any.                 *)
LatestEvidence(d, id, role) ==
  LET of == {f \in d.evidence : f.of = id /\ f.role = role}
  IN  {f \in of : \A g \in of : g.round <= f.round}

(* counterpart: an implementation round is given the audit's words, an     *)
(* audit round no more than the name of what it is to verify.              *)
Counterpart(d, role) ==
  LET id == Focus(d)
  IN  [words |-> IF role = "impl" /\ id # None THEN Paragraphs(d, id) ELSE {},
       file  |-> IF role = "audit" /\ id # None THEN LatestEvidence(d, id, "impl") ELSE {}]

---------------------------------------------------------------------------
NoBrief == [role |-> None, about |-> None, words |-> {}, file |-> {}]

Init ==
  /\ topic \in Topics
  /\ doc = [readable |-> TRUE, table |-> [id \in ToSet(Ids) |-> "Open"], current |-> None,
            evidence |-> {}, audit |-> <<>>, rounds |-> [role \in {"impl", "audit"} |-> 0]]
  /\ r = NoBrief

(* next_round: sessions are counted by their role.                         *)
NextRound(role) == doc.rounds[role] + 1

(* write_brief: before the prompt that points at it.  A brief that cannot  *)
(* be written leaves its round with the document alone; it is left out.    *)
WriteBrief(role) ==
  /\ r = NoBrief /\ NextRound(role) <= MaxRounds
  /\ doc' = [doc EXCEPT !.rounds[role] = NextRound(role)]
  /\ r' = [role |-> role, about |-> Focus(doc),
           words |-> Counterpart(doc, role).words, file |-> Counterpart(doc, role).file]

(* A round works on a milestone, its brief's or another, and may leave its *)
(* evidence and, an audit, a paragraph; the table is what it writes in it, *)
(* if it leaves a document that can be read.  It may also just end.        *)
Left(id, cur, st, ok, named, said) ==
  [doc EXCEPT
     !.readable = ok, !.current = cur, !.table[id] = st,
     !.evidence = IF named THEN @ \cup {File(id, doc.rounds[r.role], r.role)} ELSE @,
     !.audit = IF said THEN Append(@, {id}) ELSE @]

RoundEnds ==
  /\ r # NoBrief /\ r' = NoBrief
  /\ \E id \in ToSet(Ids), cur \in ToSet(Ids) \cup {None}, st \in States, ok, named, said \in BOOLEAN :
       (said => r.role = "audit") /\ doc' = Left(id, cur, st, ok, named, said)

Next ==
  /\ topic \in Topics /\ UNCHANGED topic
  /\ (\E role \in {"impl", "audit"} : WriteBrief(role)) \/ RoundEnds

Spec == Init /\ [][Next]_vars

---------------------------------------------------------------------------
(* A brief leads its round on: as long as something is unfinished, and the *)
(* document can be read, it is about something unfinished; it repeats all  *)
(* the audit ever said of that milestone; and what an audit is to verify   *)
(* is the newest an implementation round left on it, whatever the order    *)
(* files and rounds came in (brief.rs focus, counterpart).                 *)
BriefLeadsOn ==
  r # NoBrief =>
    /\ r.about # None <=> doc.readable /\ \E id \in ToSet(Ids) : doc.table[id] # "Done"
    /\ r.about # None => doc.table[r.about] # "Done"
    /\ r.role = "impl" /\ r.about # None =>
         \A i \in DOMAIN doc.audit : r.about \in doc.audit[i] => i \in r.words
    /\ r.role = "audit" /\ r.about # None =>
         \A f \in doc.evidence : f.of = r.about /\ f.role = "impl" =>
           \E g \in r.file : g.of = f.of /\ g.role = f.role /\ g.round >= f.round

(* An audit is led to what waits for it.  It does not hold: with no        *)
(* current milestone named, an open one comes first for either role.       *)
AuditIsLedToThePending ==
  r # NoBrief /\ r.role = "audit" /\ doc.readable /\ (\E id \in ToSet(Ids) : doc.table[id] = "Pending")
    => doc.table[r.about] = "Pending"
=============================================================================
