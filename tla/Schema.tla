------------------------------- MODULE Schema -------------------------------
(***************************************************************************)
(* The store's file (store.rs open, migrate): what a core finds at its     *)
(* path, brings up to its own schema block by block, or refuses.  A block  *)
(* is one transaction of SQLite, its version number included.  A core may  *)
(* die between any two statements, an older or newer build may come next,  *)
(* and nothing keeps two applications, each with its core, from opening    *)
(* one file at the same time.                                              *)
(***************************************************************************)
EXTENDS Naturals, FiniteSets, SequencesExt

CONSTANTS
  FileVersions, \* the versions a file of ours may have; 0 is a new file
  Strangers,    \* files of other programs that may lie at the path
  Builds,       \* the SCHEMA_VERSIONs of the builds that may be started
  Cores,        \* processes that may open it
  MaxStarts     \* bound: how often each is started

VARIABLES
  db,       \* the file: what it has, its user_version, whose it is, who writes
  cores     \* each core on its way into it

storeVars == <<db, cores>>

---------------------------------------------------------------------------
(* A table, and a column added to one later; columns that come together    *)
(* are one here.                                                           *)

Table(t)     == <<t, "">>
Column(t, c) == <<t, c>>

First  == <<Table("projects"), Table("tasks"), Table("sessions"), Table("decisions"), Table("events")>>
Second == <<Column("tasks", "metrics"), Column("sessions", "usage"),
            Table("rule_proposals"), Table("rule_experiments")>>
Third  == <<Column("projects", "members"), Column("tasks", "doc_root")>>
Blocks == <<First, Second, Third>>

Upto(version) == UNION {ToSet(Blocks[n]) : n \in {m \in DOMAIN Blocks : m <= version}}

(* CREATE TABLE and ALTER TABLE ADD COLUMN.                                *)
Fits(s, has) == s \notin has /\ (s[2] # "" => Table(s[1]) \in has)

---------------------------------------------------------------------------
Nobody == "nobody"

(* What makes a file another program's: it has something in it, and no     *)
(* table a block of ours that may come next would just add to.             *)
Strange(f) ==
  /\ f = [has |-> f.has, version |-> f.version] /\ f.has # {} /\ f.version \in Nat
  /\ f.version \in 1..(Len(Blocks) - 1) =>
       LET next == Blocks[f.version + 1]
       IN  \E n \in DOMAIN next : ~Fits(next[n], f.has \cup {next[i] : i \in 1..(n - 1)})

ASSUME SchemaConstants ==
  /\ FileVersions \subseteq Nat /\ Builds \subseteq 1..Len(Blocks) /\ Nobody \notin Cores
  /\ \A f \in Strangers : Strange(f)

Off == [at |-> "off", schema |-> 0, version |-> 0, block |-> 0, done |-> 0, starts |-> 0]
Over == {"off", "refused", "failed"}

AsOf(n) == [has |-> Upto(n), version |-> n, ours |-> TRUE, lock |-> Nobody]

StoreInit ==
  /\ \/ \E n \in FileVersions : db = AsOf(n)
     \/ \E f \in Strangers : db = [has |-> f.has, version |-> f.version, ours |-> FALSE, lock |-> Nobody]
  /\ cores = [c \in Cores |-> Off]

Moves(c, to) == cores' = [cores EXCEPT ![c] = to]
Released(c)  == [db EXCEPT !.lock = IF @ = c THEN Nobody ELSE @]

(* A core that could not open its store ends, and its shell starts it      *)
(* again.                                                                  *)
Start(c) ==
  /\ cores[c].at \in Over /\ cores[c].starts < MaxStarts
  /\ \E b \in Builds : Moves(c, [Off EXCEPT !.at = "looks", !.schema = b, !.starts = cores[c].starts + 1])
  /\ UNCHANGED db

(* migrate: the version is looked up once...                               *)
Looks(c) ==
  /\ cores[c].at = "looks"
  /\ Moves(c, [cores[c] EXCEPT !.at = "asks", !.version = db.version])
  /\ UNCHANGED db

(* ...then the file is asked whose it is.                                  *)
NotOurs(version, schema) == (version = 0 /\ db.has # {}) \/ version > schema

Asks(c) ==
  /\ cores[c].at = "asks"
  /\ Moves(c, IF NotOurs(cores[c].version, cores[c].schema) THEN [cores[c] EXCEPT !.at = "refused"]
              ELSE [cores[c] EXCEPT !.at = "migrates", !.block = cores[c].version + 1])
  /\ UNCHANGED db

(* One statement of a block.  The first takes the lock; one that fails     *)
(* ends the core, and what it did of the block is undone.                  *)
Block(c) == Blocks[cores[c].block]
Sees(c)  == db.has \cup {Block(c)[n] : n \in 1..cores[c].done}
MayWrite(c) ==
  /\ cores[c].at = "migrates" /\ cores[c].block <= cores[c].schema
  /\ db.lock \in {Nobody, c}

BugOnItsOwn(c) ==
  /\ MayWrite(c) /\ cores[c].done < Len(Block(c))
  /\ LET s == Block(c)[cores[c].done + 1] IN
     IF Fits(s, db.has)
     THEN Moves(c, [cores[c] EXCEPT !.done = @ + 1]) /\ db' = [db EXCEPT !.has = @ \cup {s}]
     ELSE Moves(c, [cores[c] EXCEPT !.at = "failed"]) /\ UNCHANGED db

Statement(c) ==
  /\ MayWrite(c) /\ cores[c].done < Len(Block(c))
  /\ IF Fits(Block(c)[cores[c].done + 1], Sees(c))
     THEN Moves(c, [cores[c] EXCEPT !.done = @ + 1]) /\ db' = [db EXCEPT !.lock = c]
     ELSE Moves(c, [cores[c] EXCEPT !.at = "failed"]) /\ db' = Released(c)

Commit(c) ==
  /\ MayWrite(c) /\ cores[c].done = Len(Block(c))
  /\ db' = [Released(c) EXCEPT !.has = Sees(c), !.version = cores[c].block]
  /\ Moves(c, [cores[c] EXCEPT !.block = @ + 1, !.done = 0])

(* busy_timeout: the other core writes on for longer than this one waits.  *)
Locked(c) ==
  /\ cores[c].at = "migrates" /\ cores[c].block <= cores[c].schema
  /\ db.lock \notin {Nobody, c}
  /\ Moves(c, [cores[c] EXCEPT !.at = "failed"])
  /\ UNCHANGED db

Opens(c) ==
  /\ cores[c].at = "migrates" /\ cores[c].block > cores[c].schema
  /\ Moves(c, [cores[c] EXCEPT !.at = "open"])
  /\ UNCHANGED db

(* A core dies, or its user quits.                                         *)
Ends(c) ==
  /\ cores[c].at \notin Over
  /\ Moves(c, [Off EXCEPT !.starts = cores[c].starts])
  /\ db' = Released(c)

StoreNext ==
  \E c \in Cores : \/ Start(c) \/ Looks(c) \/ Asks(c) \/ Statement(c) \/ Commit(c)
                   \/ Locked(c) \/ Opens(c) \/ Ends(c)

StoreSpec == StoreInit /\ [][StoreNext]_storeVars

---------------------------------------------------------------------------
(* Wherever a core dies and whoever else is opening it, a database of ours *)
(* has exactly what its version says, so the next start can tell it from a *)
(* stranger's and go on; a core that is in has everything its build reads  *)
(* and writes, unless the file is a stranger's with a version number like  *)
(* ours; one that was refused met a stranger's file, a newer build's or,   *)
(* once, one that another core was bringing up to date meanwhile; and a    *)
(* stranger's file is left as it is (store.rs migrate,                     *)
(* refuse_a_database_that_is_not_ours).                                    *)
LooksOurs(c) == db.version \in 1..cores[c].schema

StoreIsWhole ==
  /\ db.ours => db.has = Upto(db.version)
  /\ ~db.ours => [has |-> db.has, version |-> db.version] \in Strangers
  /\ \A c \in Cores :
       /\ cores[c].at = "open" =>
            IF db.ours THEN Upto(cores[c].schema) \subseteq db.has ELSE LooksOurs(c)
       /\ cores[c].at = "refused" =>
            \/ ~db.ours \/ db.version > cores[c].schema
            \/ db.version > cores[c].version

(* A stranger's file is never opened.  It does not hold of one that has a  *)
(* version number in our range: migrate goes by the number alone.          *)
NoStrangerIsOpened == \A c \in Cores : cores[c].at = "open" => db.ours

(* A file is refused as a stranger's only when it is one; the message      *)
(* tells the user to move it away (store.rs                                *)
(* refuse_a_database_that_is_not_ours).  It does not hold: the version is  *)
(* looked up before the tables are, and another core may commit the first  *)
(* block in between.                                                       *)
RefusedIsAStrangers ==
  \A c \in Cores : cores[c].at = "refused" => ~db.ours \/ db.version > cores[c].schema
=============================================================================
