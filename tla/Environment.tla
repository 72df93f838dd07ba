---------------------------- MODULE Environment ----------------------------
(***************************************************************************)
(* What the core knows of the machine it runs on: the probe that looks for *)
(* git, the two CLIs and iTerm2 on a thread of its own and asks the CLIs   *)
(* whether they are logged in (env_probe.rs), the cache it leaves its      *)
(* findings in and the requests that start it (dispatch.rs EnvCache), what *)
(* the findings mean (environment.rs), and how they reach a screen         *)
(* (main.js).  The machine changes while it is looked at.                  *)
(***************************************************************************)
EXTENDS Naturals, Sequences, FiniteSets

CONSTANTS
  Order,      \* the components, in the order they are probed
  Forms,      \* for each of them, how many ways there are to ask for its login
  Required,   \* those without which nothing runs
  Replaced,   \* those there is a substitute for
  Machines,   \* the states the machine may be in
  MaxChanges, \* bound: how often it changes
  MaxStrays,    \* bound: commands that leave a process of theirs behind
  MaxLooks,   \* bound: probes that end, in the life of one core
  MaxRestarts \* bound: cores that die

Components == {Order[i] : i \in DOMAIN Order}

ASSUME EnvironmentConstants ==
  /\ Order \in Seq(Components) /\ Forms \in [Components -> Nat]
  /\ Required \subseteq Components /\ Replaced \subseteq Components
  /\ \A m \in Machines : /\ DOMAIN m = Components
                         /\ \A c \in Components : /\ Len(m[c].answers) = Forms[c]
                                                 /\ m[c].present \in BOOLEAN /\ m[c].bundle \in BOOLEAN
                                                 /\ m[c].env \in BOOLEAN /\ (m[c].bundle => Forms[c] = 0)
  /\ {MaxChanges, MaxStrays, MaxLooks, MaxRestarts} \subseteq Nat

VARIABLES
  machine, \* for each component, whether it is there, has an API key, and what it answers
  changes, \* how often that has changed
  probes,  \* the threads that look at it
  strays,  \* how often a command left a process behind that holds its pipe
  cache,   \* EnvCache
  window,   \* main.js: the generation it saw last, and whether the screen is to read again
  onscreen, \* the findings on the screen
  restarts \* how often the core died

envVars == <<machine, changes, probes, strays, cache, window, onscreen, restarts>>

Unseen == <<>>

---------------------------------------------------------------------------
(* What an answer means.  The words that say so are looked for one kind    *)
(* after the other: "not logged in" holds "logged in", a page of help may  *)
(* hold either.                                                            *)

(* structured_login: a JSON object, if it speaks of a login at all.        *)
Structured(answer) ==
  CASE answer.key /\ answer.json # "in" -> "key"
    [] answer.json = "in"               -> "in"
    [] answer.json = "out" /\ ~answer.key -> "out"
    [] OTHER                            -> "none"

BugInFirst(answer) ==
  IF answer.is = "json" /\ Structured(answer) # "none" THEN Structured(answer)
  ELSE IF "in" \in answer.marks THEN "in"
  ELSE IF "out" \in answer.marks THEN "out" ELSE "none"

ClassifyLogin(answer) ==
  IF answer.is = "json" /\ Structured(answer) # "none" THEN Structured(answer)
  ELSE IF "unknown" \in answer.marks THEN "none"
  ELSE IF "out" \in answer.marks THEN "out"
  ELSE IF "in" \in answer.marks THEN "in" ELSE "none"

Login(verdict) ==
  CASE verdict = "in"  -> "ok"
    [] verdict = "out" -> "expired"
    [] verdict = "key" -> "not applicable"

Missing == [present |-> FALSE, version |-> FALSE, login |-> "not applicable"]
Found(version, login) == [present |-> TRUE, version |-> version, login |-> login]

---------------------------------------------------------------------------
(* What the findings mean.                                                 *)

Ready(status) == status.present /\ status.login # "expired"

Severity(c, status) ==
  CASE Ready(status) -> "ok"
    [] ~status.present /\ c \notin Required /\ c \in Replaced -> "warning"
    [] OTHER -> "blocking"

Problems(found) == {i \in DOMAIN found : Severity(Order[i], found[i]) # "ok"}

CanRunAnything(found) ==
  \A c \in Required : \E i \in DOMAIN found : Order[i] = c /\ Ready(found[i])

---------------------------------------------------------------------------
(* The probe.                                                              *)

(* A thread, the findings it has, and what it is at: the binary, its       *)
(* --version, then one way to ask after the other.                         *)
Look    == 0
Version == 1

Thread ==
  [began |-> changes, found |-> <<>>, at |-> Look, version |-> FALSE, child |-> "none", held |-> FALSE,
   heard |-> <<>>]

At(p) == Order[Len(p.found) + 1]
Now(p) == machine[At(p)]

(* start_probe_inner: one at a time, and one every five minutes unless the *)
(* user asks for it.                                                       *)
BugManyProbes(force) == force \/ ~cache.fresh
StartsProbe(force) == ~cache.probing /\ (force \/ ~cache.fresh)

StartProbe(force) ==
  IF StartsProbe(force)
  THEN cache' = [cache EXCEPT !.probing = TRUE] /\ probes' = probes \cup {Thread}
  ELSE UNCHANGED <<cache, probes>>

Becomes(p, q) == probes' = (probes \ {p}) \cup {q}
Finds(p, status) ==
  [p EXCEPT !.found = Append(@, status), !.at = Look, !.version = FALSE, !.child = "none", !.heard = <<>>]

Probing(p) ==
  /\ Len(p.found) < Len(Order)
  /\ UNCHANGED <<machine, changes, cache, window, onscreen, restarts>>

(* The binary on the PATH, or for iTerm2 the bundle and its plist.         *)
OnPath(p) == Now(p).present
SaysVersion(said) == said = "said"

LookUp(p) ==
  /\ Probing(p) /\ p.at = Look
  /\ Becomes(p, IF ~OnPath(p) THEN Finds(p, Missing)
                ELSE IF Now(p).bundle THEN Finds(p, Found(SaysVersion(Now(p).version), "not applicable"))
                ELSE [p EXCEPT !.at = Version])
  /\ UNCHANGED strays

(* run_capture: what has gone by the time it is run cannot be spawned.     *)
Runs(p) == IF p.at = Version THEN [is |-> Now(p).version] ELSE Now(p).answers[p.at - Version]
Spawned(p) == Now(p).present

(* The walk through the ways to ask: the first that is understood.  What   *)
(* was not understood leaves the key the core was started with, if any.    *)
WalkedOn(p, verdict) ==
  IF verdict # "none" THEN Finds(p, Found(p.version, Login(verdict)))
  ELSE IF p.at - Version < Forms[At(p)] THEN [p EXCEPT !.at = p.at + 1, !.child = "none", !.heard = <<>>]
  ELSE Finds(p, Found(p.version, IF Now(p).env THEN "not applicable" ELSE "unknown"))

Took(p, said, verdict) ==
  IF p.at # Version THEN WalkedOn(p, verdict)
  ELSE IF Forms[At(p)] = 0 THEN Finds(p, Found(said, "not applicable"))
  ELSE [p EXCEPT !.at = @ + 1, !.version = said, !.child = "none", !.heard = <<>>]

Spawn(p) ==
  /\ Probing(p) /\ p.at # Look /\ p.child = "none"
  /\ Becomes(p, IF Spawned(p) THEN [p EXCEPT !.child = "running"] ELSE Took(p, FALSE, "none"))
  /\ UNCHANGED strays

(* It ends in time, and what it wrote is read to the end: for as long as   *)
(* anything holds the pipe.                                                *)
Exits(p) ==
  /\ Probing(p) /\ p.child = "running" /\ Runs(p).is # "hangs"
  /\ \E held \in {FALSE} \cup {strays < MaxStrays} :
       /\ Becomes(p, [p EXCEPT !.child = "ended", !.held = held, !.heard = <<Runs(p)>>])
       /\ strays' = IF held THEN strays + 1 ELSE strays

ReadsOn(p) ==
  /\ Probing(p) /\ p.child = "ended" /\ ~p.held
  /\ Becomes(p, IF p.at = Version THEN Took(p, SaysVersion(p.heard[1].is), "none")
                ELSE Took(p, FALSE, ClassifyLogin(p.heard[1])))
  /\ UNCHANGED strays

(* It has not ended in five seconds, and is killed.                        *)
Overruns(p) ==
  /\ Probing(p) /\ p.child = "running"
  /\ Runs(p).is = "hangs"
  /\ Becomes(p, Took(p, FALSE, "none"))
  /\ UNCHANGED strays

(* The findings land in the cache.                                         *)
Lands(p) ==
  /\ Len(p.found) = Len(Order) /\ cache.generation < MaxLooks
  /\ probes' = probes \ {p}
  /\ cache' = [probing |-> FALSE, generation |-> cache.generation + 1, fresh |-> TRUE,
               found |-> p.found, asof |-> p.began]
  /\ UNCHANGED <<machine, changes, strays, window, onscreen, restarts>>

---------------------------------------------------------------------------
(* Requests.                                                               *)

(* env_get and dashboard_get, as a screen that reads again asks them.      *)
EnvGet ==
  /\ window.told
  /\ IF cache.found = Unseen THEN StartProbe(FALSE) ELSE UNCHANGED <<cache, probes>>
  /\ onscreen' = cache.found
  /\ window' = [window EXCEPT !.told = FALSE]
  /\ UNCHANGED <<machine, changes, strays, restarts>>

(* env_detect: unforced when the window is returned to, forced by the      *)
(* button.  What starts one says so, and the screen reads again.           *)
EnvDetect(force) ==
  /\ cache.generation < MaxLooks
  /\ StartProbe(force)
  /\ window' = [window EXCEPT !.told = @ \/ StartsProbe(force)]
  /\ UNCHANGED <<machine, changes, strays, onscreen, restarts>>

(* The tick's report, which carries the generation of the findings.        *)
Noted == window' = [seen |-> <<cache.generation>>, told |-> TRUE]

Tick ==
  /\ window.seen # <<cache.generation>>
  /\ Noted
  /\ UNCHANGED <<machine, changes, probes, strays, cache, onscreen, restarts>>

---------------------------------------------------------------------------
(* The world.                                                              *)

(* Something is installed, removed, upgraded, logged in or logged out; the *)
(* core keeps the environment it was started with.                         *)
MachineChanges ==
  /\ changes < MaxChanges /\ changes' = changes + 1
  /\ machine' \in {m \in Machines \ {machine} : \A c \in Components : m[c].env = machine[c].env}
  /\ UNCHANGED <<probes, strays, cache, window, onscreen, restarts>>

LeftEnds ==
  /\ \E p \in probes : p.held /\ Becomes(p, [p EXCEPT !.held = FALSE])
  /\ UNCHANGED <<machine, changes, strays, cache, window, onscreen, restarts>>

FiveMinutes ==
  /\ cache.fresh /\ cache' = [cache EXCEPT !.fresh = FALSE]
  /\ UNCHANGED <<machine, changes, probes, strays, window, onscreen, restarts>>

NewCache == [found |-> Unseen, asof |-> 0, probing |-> FALSE, generation |-> 0, fresh |-> FALSE]

(* The core dies and another is started; its window reads again.           *)
Restart ==
  /\ restarts < MaxRestarts /\ restarts' = restarts + 1
  /\ cache' = NewCache /\ probes' = {}
  /\ window' = [window EXCEPT !.told = TRUE]
  /\ UNCHANGED <<machine, changes, strays, onscreen>>

---------------------------------------------------------------------------
EnvInit ==
  /\ machine \in Machines /\ changes = 0
  /\ probes = {} /\ strays = 0
  /\ cache = NewCache
  /\ window = [seen |-> <<>>, told |-> TRUE]
  /\ onscreen = Unseen /\ restarts = 0

Steps(p) == LookUp(p) \/ Spawn(p) \/ Exits(p) \/ ReadsOn(p) \/ Overruns(p) \/ Lands(p)
Probe == \E p \in probes : Steps(p)

World == MachineChanges \/ LeftEnds \/ FiveMinutes \/ Restart
EnvNext == Probe \/ EnvGet \/ (\E force \in BOOLEAN : EnvDetect(force)) \/ Tick \/ World

EnvSpec == EnvInit /\ [][EnvNext]_envVars

(* A thread goes on by itself, ticks come at intervals, and a screen that  *)
(* is told to reads again.                                                 *)
EnvFairness == WF_envVars(Probe) /\ WF_envVars(Tick) /\ WF_envVars(EnvGet)
FairEnvSpec == EnvSpec /\ EnvFairness

---------------------------------------------------------------------------
(* Properties.                                                             *)

(* What a patient person asking the same machine would be told: the first  *)
(* answer that says whether there is a login.                              *)
Understood(c, m) == {k \in 1..Forms[c] : m[c].answers[k].is # "hangs" /\ m[c].answers[k].means # "nothing"}

Answered(c, m) ==
  IF Understood(c, m) = {} THEN IF Forms[c] > 0 /\ ~m[c].env THEN "unknown" ELSE "not applicable"
  ELSE LET k == CHOOSE k \in Understood(c, m) : \A j \in Understood(c, m) : k <= j
       IN  Login(m[c].answers[k].means)

InTrouble(c, m) == ~m[c].present \/ (Forms[c] > 0 /\ Answered(c, m) = "expired")

(* A finding made while the machine stood still is the machine's: of every *)
(* component whether it is there and what it says of its login, so that a  *)
(* CLI that cannot be understood is never called logged out, and what the  *)
(* banner names is what there is to mend (env_probe.rs probe_login,        *)
(* classify_login; environment.rs problems; EnvCache).                     *)
TellsOfTheMachine ==
  cache.found # Unseen /\ cache.asof = changes =>
    /\ \A i \in DOMAIN Order :
         /\ cache.found[i].present = machine[Order[i]].present
         /\ cache.found[i].present =>
              cache.found[i].login = IF machine[Order[i]].bundle THEN "not applicable"
                                     ELSE Answered(Order[i], machine)
    /\ Problems(cache.found) = {i \in DOMAIN Order : InTrouble(Order[i], machine)}
    /\ CanRunAnything(cache.found) <=> \A c \in Required : ~InTrouble(c, machine)

(* The newest findings reach the screen.  None replaces one whose look     *)
(* began later, so that nobody is shown the state before the login they    *)
(* have just been shown (EnvCache).  A command that never ends holds a     *)
(* probe up for five seconds and no more (run_capture); what holds its     *)
(* pipe after it has ended does so for as long as it lives, though "no     *)
(* call here can hang" (env_probe.rs).  And what the first core finds is   *)
(* read by the screen (main.js startTicking).                              *)
NewestReachesTheScreen ==
  /\ [][restarts' = restarts => cache'.asof >= cache.asof]_envVars
  /\ cache.probing ~> (~cache.probing \/ \E p \in probes : p.held)
  /\ (cache.found # Unseen /\ onscreen # cache.found /\ restarts = 0)
       ~> (onscreen = cache.found \/ restarts > 0)

(* The same of every core does not hold: a new core counts from 0 again,   *)
(* and where its first look ends before its first tick, its generation is  *)
(* the one main.js has seen last.  "Bumped on every completed probe, so a  *)
(* poller can tell a fresh result from the same one it already has"        *)
(* (dispatch.rs).                                                          *)
EveryCoresFindingsAreShown ==
  (cache.found # Unseen /\ onscreen # cache.found) ~> (onscreen = cache.found)

(* Nor does what the window says to a user who is sent to log in: "back in *)
(* Autome it is detected again by itself" (env.js).                        *)
ReturnLooksAgain ==
  cache.found # Unseen /\ cache.asof # changes => StartsProbe(FALSE) \/ cache.probing
=============================================================================
