---------------------------- MODULE Configuration ----------------------------
(***************************************************************************)
(* The two layers of configuration as functions: config.rs (resolve,       *)
(* validate) and config_io.rs (what loading and saving do to a file).      *)
(*                                                                         *)
(* A layer maps keys to values.  The global one has every key, a project's *)
(* has the keys it overrides: a key that is absent inherits.  A key is a   *)
(* pair, of a role and one of its fields, or of "loop" and a number's name.*)
(* A file also has keys that nobody reads, and values that do not fit.     *)
(***************************************************************************)
EXTENDS Integers, Functions

CONSTANTS
  Roles,       \* roles in use, of Role::ALL
  Fields,      \* fields of a role: "enabled", "skills", "runtime", "model", "effort"
  RolePatches, \* what may be asked for a role: functions over some of the fields
  LoopFields,  \* "parallel", "design_rounds", "budget_factor"
  Numbers,     \* numbers a user may ask for
  MaxParallel, \* PARALLEL_MAX
  Scribbles,   \* what a hand may write where a number belongs
  Width,       \* how many numbers a u32 has
  Word,        \* a value of the wrong type: no number, no theme
  None         \* no value: inherit

Judging == [r \in Roles \cap {"review", "audit", "retro"} |-> IF r = "review" THEN "plan" ELSE "impl"]

ASSUME ConfigurationConstants ==
  /\ {"enabled", "skills", "runtime"} \subseteq Fields
  /\ \A g \in RolePatches : DOMAIN g \in (SUBSET Fields) \ {{}}
  /\ "parallel" \in LoopFields /\ Roles \cap {"loop", "ui", "project"} = {}
  /\ "note" \notin Fields /\ "protocol" \notin LoopFields
  /\ Numbers \subseteq Nat /\ MaxParallel \in Nat /\ Width \in Nat \ {0}
  /\ None \notin Numbers /\ \A v \in Scribbles : v = Word \/ v \in Int
  /\ \A r \in DOMAIN Judging : Judging[r] \in Roles

LoopKeys == {"loop"} \X LoopFields
RoleKeys == Roles \X Fields
Keys     == LoopKeys \cup RoleKeys
Theme    == <<"ui", "theme">>
DocRoot  == <<"project", "doc_root">>

(* Keys nobody reads: of a section of their own, of an earlier version's   *)
(* protocol pin, and a note beside the fields of a role.                   *)
Pin     == <<"loop", "protocol">>
Remarks == Roles \X {"note"}
Unread  == {DocRoot, Pin} \cup Remarks

(* Whatever a file may have.                                               *)
Written == Keys \cup {Theme} \cup Unread

(* f where it says something, else g.                                      *)
Over(f, g) == [k \in DOMAIN f \cup DOMAIN g |-> IF k \in DOMAIN f THEN f[k] ELSE g[k]]

Sets(k, v) == [x \in {k} |-> v]

(* config::resolve.                                                        *)
Resolve(global, over) == [k \in Keys |-> IF k \in DOMAIN over THEN over[k] ELSE global[k]]

---------------------------------------------------------------------------
(* config::validate, against the skills each runtime can see.              *)

Cfg(view, r)      == [f \in Fields |-> view[<<r, f>>]]
Identity(view, r) == [f \in Fields \cap {"runtime", "model"} |-> view[<<r, f>>]]

SkillsAreSeen(view, seen) ==
  \A r \in Roles : \A s \in Cfg(view, r).skills : <<s, Cfg(view, r).runtime>> \in seen

SameModel(view) ==
  \E r \in DOMAIN Judging :
    /\ Cfg(view, r).enabled /\ Cfg(view, Judging[r]).enabled
    /\ Identity(view, r) = Identity(view, Judging[r])

NumbersInRange(view) ==
  /\ view[<<"loop", "parallel">>] \in 1..MaxParallel
  /\ \A n \in LoopFields : view[<<"loop", n>>] > 0

Valid(view, seen) ==
  NumbersInRange(view) /\ SkillsAreSeen(view, seen) /\ ~SameModel(view)

---------------------------------------------------------------------------
(* Loading reads the keys it knows.  A number is cut to what a u32 holds;  *)
(* what is no number is passed over, as if it were not there (of a role a  *)
(* field of the wrong type is an error: the file does not parse).          *)
Clamped(v) == IF v < 0 THEN 0 ELSE IF v >= Width THEN Width - 1 ELSE v

Loaded(file) ==
  [k \in {x \in DOMAIN file \cap Keys : file[x] # Word} |->
     IF k \in LoopKeys THEN Clamped(file[k]) ELSE file[k]]

(* Saving a project's goes through the document that is there: what is     *)
(* overridden is written, what is not is removed.  What nobody knows is    *)
(* left alone, but for the pin, which goes, and the table of a role that   *)
(* overrides nothing, which goes with everything in it.                    *)
Overrides(over, r) == \E f \in Fields : <<r, f>> \in DOMAIN over

LeftAlone(over) == {DocRoot, Theme} \cup {k \in Remarks : Overrides(over, k[1])}

BugSaved(file, over) == Over(over, file)

Saved(file, over) == Over(over, Restrict(file, DOMAIN file \cap LeftAlone(over)))

(* What the setters ask for: fields of one role; numbers, as u32, or to    *)
(* inherit.                                                                *)
LoopPatches == UNION {[S -> Numbers \cup {None}] : S \in (SUBSET LoopFields) \ {{}}}

OfRole(r, patch) == [k \in {r} \X DOMAIN patch |-> patch[k[2]]]

Asked(patch)  == [k \in {"loop"} \X {n \in DOMAIN patch : patch[n] # None} |-> patch[k[2]]]
OfLoop(patch) == [k \in DOMAIN Asked(patch) |-> Asked(patch)[k] % Width]

Cleared(patch) == {"loop"} \X {n \in DOMAIN patch : patch[n] = None}

WithRole(over, r, patch) == Over(OfRole(r, patch), over)
WithLoop(over, patch)    == Over(OfLoop(patch), Restrict(over, DOMAIN over \ Cleared(patch)))
WithoutRole(over, r)     == Restrict(over, DOMAIN over \ ({r} \X Fields))
=============================================================================
