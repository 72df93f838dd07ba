------------------------------- MODULE Shell -------------------------------
(***************************************************************************)
(* The desktop shell and the core it keeps alive: requests and their       *)
(* timeouts, restarts, ticks, and what reaches the screen.  apps/desktop:  *)
(* main.js, src/sidecar.js, src/core-restart.js, renderer/app.js;          *)
(* crates/automed: main.rs, ipc/, and handle_command and scheduler_tick of *)
(* dispatch.rs.                                                            *)
(*                                                                         *)
(* The core answers one command at a time: reply first, then events.  What *)
(* a command does inside is the business of Scheduler; here a command      *)
(* changes what there is to see, or does not.  A tick sends no events: its *)
(* reply is the only word of what it changed.                              *)
(***************************************************************************)
EXTENDS Naturals, Sequences

CONSTANTS
  Slots,    \* places for a core's process, used again once it is over
  Reqs,     \* request ids, used again once nothing of a request is left
  None,     \* no core, no request
  MaxQuick, \* MAX_QUICK_FAILURES
  Changes,  \* what can change what there is to see: "reaped", "unstarted", "written"
  Faults    \* what can go wrong: "dies", "times out"

ASSUME ShellConstants ==
  /\ Slots \subseteq Nat /\ Reqs \subseteq Nat
  /\ None \notin Slots /\ None \notin Reqs
  /\ MaxQuick \in Nat \ {0}

VARIABLES
  proc,    \* processes: "off", "up", or "dead" before Main knows
  stdin,   \* pipes: commands not read yet
  stdout,  \* pipes: frames Main has not read yet; None is an event
  lived,   \* Main: whether its core has run for QUICK_FAILURE_MS
  sidecar, \* Main: the core it talks to
  quick,   \* Main: failed starts in a row
  timers,  \* Main: restart timers running
  pressed, \* Main: the banner's button, not handled yet
  req,     \* Main: the requests
  banner,  \* screen: "none", "lost" or "fatal"
  queued,  \* screen: whether a refresh is due
  latest,  \* screen: the read of the newest refresh, if it is out
  watch,   \* history: "on" from one change until the screen shows it or admits
           \* it could not; "lost" if a report was dropped in between
  answers  \* history: reads answered since that change

core   == <<proc, stdin, stdout>>
main   == <<lived, sidecar, quick, timers, pressed>>
screen == <<banner, queued, latest>>
past   == <<watch, answers>>
vars   == <<core, main, req, screen, past>>

---------------------------------------------------------------------------
(* Requests.                                                               *)

NoReq == [st |-> "free", kind |-> "tick", core |-> None, news |-> FALSE]
Free  == {r \in Reqs : req[r].st = "free"}
NewId == {r \in Free : \A q \in Free : r <= q}

TypeOK ==
  /\ proc \in [Slots -> {"off", "up", "dead"}]
  /\ stdin \in [Slots -> Seq(Reqs)] /\ stdout \in [Slots -> Seq(Reqs \cup {None})]
  /\ lived \in BOOLEAN /\ sidecar \in Slots \cup {None}
  /\ quick \in Nat /\ timers \in Nat /\ pressed \in BOOLEAN
  /\ req \in [Reqs -> [st : {"free", "pending", "late"}, core : Slots \cup {None},
                       kind : {"tick", "restart", "read", "command"}, news : BOOLEAN]]
  /\ banner \in {"none", "lost", "fatal"} /\ queued \in BOOLEAN
  /\ latest \in Reqs \cup {None}
  /\ watch \in {"off", "on", "lost"} /\ answers \subseteq Reqs

Asked(r, kind, c) == [req EXCEPT ![r] = [NoReq EXCEPT !.st = "pending", !.kind = kind, !.core = c]]

(* sidecar.request: the command goes into the pipe of the core Main knows; *)
(* one that has died takes it along.                                       *)
Send(r, kind) ==
  /\ r \in NewId /\ sidecar # None
  /\ req'   = Asked(r, kind, sidecar)
  /\ stdin' = [stdin EXCEPT ![sidecar] = IF proc[sidecar] = "up" THEN Append(@, r) ELSE @]
  /\ UNCHANGED <<proc, stdout>>

(* What can be seen has changed.  Any one change may be the one watched.   *)
Changed ==
  \/ watch = "off" /\ watch' = "on" /\ UNCHANGED answers
  \/ UNCHANGED past

Shown == watch' = "off" /\ answers' = {}

(* The failure of a read is painted unless a newer refresh is out.         *)
Failed(rs) ==
  IF latest \in rs
  THEN latest' = None /\ Shown
  ELSE answers' = answers \ rs /\ UNCHANGED <<latest, watch>>

(* AutomedSidecar.start: a new process, in the first place that is free.   *)
Born(c) ==
  /\ proc[c] = "off" /\ \A d \in Slots : d < c => proc[d] # "off"
  /\ proc' = [proc EXCEPT ![c] = "up"]
  /\ sidecar' = c /\ lived' = FALSE

(* The first core is up and the window is loading.  The tick Main sends    *)
(* first is answered before the window's first read, whatever it changes.  *)
Init ==
  /\ \E c \in Slots : /\ proc = [d \in Slots |-> IF d = c THEN "up" ELSE "off"]
                      /\ sidecar = c /\ \A d \in Slots : c <= d
  /\ stdin  = [c \in Slots |-> <<>>]
  /\ stdout = [c \in Slots |-> <<>>]
  /\ lived = FALSE /\ quick = 0 /\ timers = 0 /\ pressed = FALSE
  /\ req = [r \in Reqs |-> NoReq]
  /\ banner = "none" /\ queued = TRUE /\ latest = None
  /\ watch = "on" /\ answers = {}

---------------------------------------------------------------------------
(* The core's loop: read a command, do it, write the reply and the events. *)

Says(c, frames) == stdout' = [stdout EXCEPT ![c] = @ \o frames]

(* A tick changes something and reports it, or a task that cannot be       *)
(* started is recorded as failed, which is in no list of the report.       *)
DoTick(c, r) ==
  /\ req[r].kind \in {"tick", "restart"}
  /\ \E what \in (Changes \cap {"reaped", "unstarted"}) \cup {"nothing"} :
       /\ IF what = "nothing" THEN UNCHANGED past ELSE Changed
       /\ req' = [req EXCEPT ![r].news = what = "reaped"]
  /\ Says(c, <<r>>)

DoRead(c, r) ==
  /\ req[r].kind = "read"
  /\ answers' = IF watch = "off" THEN {} ELSE answers \cup {r}
  /\ Says(c, <<r>>)
  /\ UNCHANGED <<req, watch>>

(* A command that is refused changes nothing and sends no event.           *)
DoCommand(c, r) ==
  /\ req[r].kind = "command"
  /\ \/ "written" \in Changes /\ Changed /\ Says(c, <<r, None>>)
     \/ Says(c, <<r>>) /\ UNCHANGED past
  /\ UNCHANGED req

Handle(c) ==
  /\ proc[c] = "up" /\ stdin[c] # <<>>
  /\ LET r == Head(stdin[c]) IN DoTick(c, r) \/ DoRead(c, r) \/ DoCommand(c, r)
  /\ stdin' = [stdin EXCEPT ![c] = Tail(@)]
  /\ UNCHANGED <<proc, main, screen>>

(* Whatever was on its way into the process dies with it.  What it wrote   *)
(* can still be read until the exit is noticed; a death between an effect  *)
(* and its reply, or a reply and its event, is one noticed before that     *)
(* frame is read.                                                          *)
Dies(c) ==
  /\ "dies" \in Faults /\ proc[c] = "up"
  /\ proc'  = [proc EXCEPT ![c] = "dead"]
  /\ stdin' = [stdin EXCEPT ![c] = <<>>]
  /\ UNCHANGED <<stdout, main, req, screen, past>>

---------------------------------------------------------------------------
(* Main: replies and events, timeouts, exits.                              *)

ReadEvent ==
  /\ queued' = TRUE
  /\ UNCHANGED <<req, banner, latest, past>>

(* The reply nobody waits for any more is dropped, with what it reports.   *)
DropReply(r) ==
  /\ req[r].st = "late"
  /\ req'  = [req EXCEPT ![r] = NoReq]
  /\ watch' = IF watch = "on" /\ req[r].news THEN "lost" ELSE watch
  /\ UNCHANGED <<screen, answers>>

BugTickReply(r) ==
  /\ req[r].st = "pending" /\ req[r].kind = "tick"
  /\ req'    = [req EXCEPT ![r] = NoReq]
  /\ UNCHANGED <<screen, past>>

TickReply(r) ==
  /\ req[r].st = "pending" /\ req[r].kind = "tick"
  /\ queued' = (queued \/ req[r].news)
  /\ req'    = [req EXCEPT ![r] = NoReq]
  /\ UNCHANGED <<banner, latest, past>>

ReadReply(r) ==
  /\ req[r].st = "pending" /\ req[r].kind = "read"
  /\ latest' = IF r = latest THEN None ELSE latest
  /\ IF r = latest /\ r \in answers
     THEN Shown
     ELSE answers' = answers \ {r} /\ UNCHANGED watch
  /\ req' = [req EXCEPT ![r] = NoReq]
  /\ UNCHANGED <<banner, queued>>

CommandReply(r) ==
  /\ req[r].st = "pending" /\ req[r].kind = "command"
  /\ req' = [req EXCEPT ![r] = NoReq]
  /\ UNCHANGED <<screen, past>>

(* restartCore: the core that was asked for has made one real call.        *)
RestartReply(r) ==
  /\ req[r].st = "pending" /\ req[r].kind = "restart"
  /\ banner' = "none" /\ queued' = TRUE
  /\ req' = [req EXCEPT ![r] = NoReq]
  /\ UNCHANGED <<latest, past>>

Reply(r) == DropReply(r) \/ TickReply(r) \/ ReadReply(r) \/ CommandReply(r) \/ RestartReply(r)

MainReads(c) ==
  /\ stdout[c] # <<>>
  /\ LET f == Head(stdout[c]) IN IF f = None THEN ReadEvent ELSE Reply(f)
  /\ stdout' = [stdout EXCEPT ![c] = Tail(@)]
  /\ UNCHANGED <<proc, stdin, main>>

TimesOut(r) ==
  /\ "times out" \in Faults /\ req[r].st = "pending"
  /\ req' = [req EXCEPT ![r].st = "late"]
  /\ Failed({r})
  /\ UNCHANGED <<core, main, banner, queued>>

(* _finish: everyone who waits is told, the pipes are closed.              *)
OfCore(c) == {r \in Reqs : req[r].core = c}

BugFinish(c) ==
  /\ proc[c] = "dead"
  /\ proc'   = [proc EXCEPT ![c] = "off"]
  /\ stdout' = [stdout EXCEPT ![c] = <<>>]
  /\ UNCHANGED req
  /\ Failed(OfCore(c))

Finish(c) ==
  /\ proc[c] = "dead"
  /\ proc'   = [proc EXCEPT ![c] = "off"]
  /\ stdout' = [stdout EXCEPT ![c] = <<>>]
  /\ req'    = [r \in Reqs |-> IF r \in OfCore(c) THEN NoReq ELSE req[r]]
  /\ Failed(OfCore(c))

(* nextRestart: a core that lived clears the count.                        *)
Failures == IF lived THEN 0 ELSE quick + 1

BugOnExit(c) ==
  /\ Finish(c)
  /\ sidecar' = None /\ quick' = Failures
  /\ banner' = "lost"
  /\ timers' = IF Failures < MaxQuick THEN timers + 1 ELSE timers
  /\ UNCHANGED <<stdin, lived, pressed, queued>>

OnExit(c) ==
  /\ Finish(c)
  /\ sidecar' = None /\ quick' = Failures
  /\ IF Failures < MaxQuick THEN timers' = timers + 1 /\ banner' = "lost"
                            ELSE timers' = timers /\ banner' = "fatal"
  /\ UNCHANGED <<stdin, lived, pressed, queued>>

Lives ==
  /\ sidecar # None /\ ~lived /\ proc[sidecar] = "up"
  /\ lived' = TRUE
  /\ UNCHANGED <<core, sidecar, quick, timers, pressed, req, screen, past>>

---------------------------------------------------------------------------
(* Main: its two timers and the banner's button.                           *)

BugRestartFires ==
  /\ timers > 0 /\ timers' = timers - 1
  /\ (\E c \in Slots : Born(c)) /\ banner' = "none" /\ queued' = TRUE
  /\ UNCHANGED <<stdin, stdout, quick, pressed, req, latest, past>>

RestartFires ==
  /\ timers > 0 /\ timers' = timers - 1
  /\ IF sidecar = None
     THEN (\E c \in Slots : Born(c)) /\ banner' = "none" /\ queued' = TRUE
     ELSE UNCHANGED <<proc, lived, sidecar, banner, queued>>
  /\ UNCHANGED <<stdin, stdout, quick, pressed, req, latest, past>>

TickFires ==
  /\ \E r \in Reqs : Send(r, "tick")
  /\ UNCHANGED <<main, screen, past>>

(* Bound: the button is not pressed while a restart timer runs; one may    *)
(* start before the press is handled.                                      *)
PressRestart ==
  /\ banner = "fatal" /\ ~pressed /\ timers = 0
  /\ pressed' = TRUE
  /\ UNCHANGED <<core, lived, sidecar, quick, timers, req, screen, past>>

RestartCore ==
  /\ pressed /\ pressed' = FALSE
  /\ IF sidecar # None
     THEN /\ banner' = "none" /\ queued' = TRUE
          /\ UNCHANGED <<core, lived, sidecar, quick, req>>
     ELSE /\ quick' = 0
          /\ \E c \in Slots, r \in NewId :
               /\ Born(c)
               /\ req'   = Asked(r, "restart", c)
               /\ stdin' = [stdin EXCEPT ![c] = <<r>>]
          /\ UNCHANGED <<stdout, banner, queued>>
  /\ UNCHANGED <<timers, latest, past>>

---------------------------------------------------------------------------
(* The screen and the user.                                                *)

Refresh ==
  /\ queued /\ queued' = FALSE
  /\ IF sidecar = None
     THEN latest' = None /\ Shown /\ UNCHANGED <<core, req>>
     ELSE \E r \in Reqs : Send(r, "read") /\ latest' = r /\ UNCHANGED past
  /\ UNCHANGED <<main, banner>>

Navigate ==
  /\ ~queued /\ queued' = TRUE
  /\ UNCHANGED <<core, main, req, banner, latest, past>>

Command ==
  /\ "written" \in Changes
  /\ \E r \in Reqs : Send(r, "command")
  /\ UNCHANGED <<main, screen, past>>

Next ==
  \/ Refresh \/ RestartCore \/ TickFires \/ RestartFires \/ Lives
  \/ PressRestart \/ Navigate \/ Command
  \/ \E c \in Slots : Handle(c) \/ Dies(c) \/ MainReads(c) \/ OnExit(c)
  \/ \E r \in Reqs : TimesOut(r)

Spec == Init /\ [][Next]_vars

(* Timers fire, the core goes on, pipes are read, what waits too long is   *)
(* given up; a refresh and a press wait for a request id only because the  *)
(* model has few.  Nobody has to press, navigate or command, no core has   *)
(* to die, and none has to live for long.                                  *)
Fairness ==
  /\ SF_vars(Refresh) /\ SF_vars(RestartCore)
  /\ WF_vars(TickFires) /\ WF_vars(RestartFires)
  /\ \A c \in Slots : WF_vars(Handle(c)) /\ WF_vars(MainReads(c)) /\ WF_vars(OnExit(c))
  /\ \A r \in Reqs : WF_vars(TimesOut(r))

FairSpec == Spec /\ Fairness

---------------------------------------------------------------------------
(* Properties.                                                             *)

(* Never two cores on the same ledger: each would run the scheduler.  The  *)
(* restart timer and the banner's button both start one, and may be due at *)
(* the same time (main.js:436, main.js:456).                               *)
OneCore == \A c, d \in Slots : proc[c] # "off" /\ proc[d] # "off" => c = d

(* Whoever waits for an answer waits for a core that still can give it, or *)
(* whose exit is about to be noticed: nobody waits on a core that is over, *)
(* and the answer of an earlier core is never taken for a later one's      *)
(* (sidecar.js:151, sidecar.js:216).                                       *)
NobodyWaitsOnTheDead ==
  /\ \A r \in Reqs : req[r].st # "free" => req[r].core = sidecar /\ sidecar # None
  /\ \A c \in Slots : \A i \in 1..Len(stdout[c]) :
       stdout[c][i] # None => req[stdout[c][i]].st # "free" /\ req[stdout[c][i]].core = c

(* A core that died comes back, or the user is told it will not; but       *)
(* restarts do not go on by themselves: a core restarted without end lives *)
(* past the quick-failure time without end, or the user keeps pressing     *)
(* (main.js:401-441, core-restart.js:38-49).                               *)
CoreReturnsOrTold ==
  /\ sidecar = None ~> (sidecar # None \/ banner = "fatal")
  /\ []<><<RestartFires>>_timers => []<><<Lives>>_lived \/ []<><<PressRestart>>_pressed

(* Every change is shown: the screen comes to read it, or says that it     *)
(* could not, or that the core is lost (app.js:9, main.js:488-495). The    *)
(* exceptions are the report of a tick that was given up waiting for,      *)
(* which nobody hears, and refreshes that overtake one another for ever.   *)
(* With "unstarted", a task fill_slots could not start, among Changes, it  *)
(* does not hold: its failure is in no list of the report                  *)
(* (scheduler.rs:692).                                                     *)
ChangesAreShown ==
  \/ []<><<latest # None /\ latest' # None>>_latest
  \/ watch = "on" ~> (watch # "on" \/ banner # "none")
=============================================================================
