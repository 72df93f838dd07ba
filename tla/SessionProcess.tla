--------------------------- MODULE SessionProcess ---------------------------
(***************************************************************************)
(* One session as the processes and files it is made of: the core that     *)
(* launches it (launcher.rs) and looks at it again every tick (session.rs, *)
(* scheduler.rs reap_session), the wrapper script (init.rs run_session.sh) *)
(* with its trap and its pipeline, the CLI in that pipeline, and what they *)
(* leave on disk.  Nobody waits on anybody: the files are all there is.    *)
(***************************************************************************)
EXTENDS Stream, Prompt, FiniteSets

CONSTANTS
  Jobs,       \* the sessions to start, what they are told and what they will print
  MaxCrashes  \* how often the core dies

JobFields == {"role", "template", "docs", "slug", "brief", "budget", "metrics", "skills", "inject", "feedback",
              "files", "decisions", "request", "attachments", "refs", "inrepo", "checkouts",
              "runtime", "installed", "renderer", "lossy", "stream"}

ASSUME SessionConstants ==
  /\ MaxCrashes \in Nat
  /\ \A j \in Jobs : DOMAIN j = JobFields /\ j.runtime \in Runtimes
                     /\ j.stream \in Seq(ToSet(j.stream))

VARIABLES
  job,    \* what is to be done
  core,   \* the core process
  row,    \* the session's row in the store
  told,   \* the prompt file, and the arguments the CLI got
  sh,     \* the wrapper script
  cli,    \* the CLI, and a process of its own it may leave behind
  pipe,   \* what is between the CLI and the log
  files,  \* the pid, the exit code and the marker on disk
  quiet   \* the log has not grown for VANISHED_AFTER_SECS, nor is the session younger

vars == <<job, core, row, told, sh, cli, pipe, files, quiet>>

Nothing == "nothing"
Codes   == {"0", "1", "65", "66", "70", "130", "137"}

---------------------------------------------------------------------------
(* The core.                                                               *)

Built == BuildPrompt(job)

(* The prompt is built before a file is written, and written before the    *)
(* wrapper and the CLI are looked for.                                     *)
Launch ==
  /\ core.up /\ row.state = "none" /\ sh.at = "none"
  /\ told' = IF Built = Refused THEN told ELSE [prompt |-> Built, args |-> BuildArgs(job)]
  /\ IF Built = Refused \/ ~job.installed
     THEN row' = [row EXCEPT !.state = "refused"] /\ UNCHANGED sh
     ELSE sh' = [sh EXCEPT !.at = "begun", !.child = TRUE] /\ UNCHANGED row
  /\ UNCHANGED <<job, core, cli, pipe, files, quiet>>

(* read_pid, which gives up after two seconds, and insert_session.         *)
Insert ==
  /\ core.up /\ row.state = "none" /\ sh.child
  /\ row' = [row EXCEPT !.state = "running", !.pid = files.pid]
  /\ quiet' = FALSE
  /\ UNCHANGED <<job, core, told, sh, cli, pipe, files>>

(* ExitMarker::parse: half a marker is none.                               *)
Marker == IF files.exit \in Codes THEN files.exit ELSE Nothing

(* kill(pid, 0) finds a process that has ended as long as its parent has   *)
(* not waited for it, and the core never does; and any process that has    *)
(* been given the number since.                                            *)
PidAlive == row.pid /\ (sh.at # "gone" \/ sh.child \/ files.reused)

BugPidFirst(marker, alive, idle) ==
  IF alive THEN "running" ELSE IF marker # Nothing THEN "exited" ELSE IF idle THEN "vanished" ELSE "running"

Classify(marker, alive, idle) ==
  IF marker # Nothing THEN "exited" ELSE IF alive THEN "running" ELSE IF idle THEN "vanished" ELSE "running"

(* record_usage: what the stream file holds by now.                        *)
Recorded == Usage(job.runtime, SubSeq(job.stream, 1, pipe.raw))

Reap ==
  LET state == Classify(Marker, PidAlive, quiet)
  IN  /\ core.up /\ row.state = "running" /\ state # "running"
      /\ row' = [row EXCEPT !.state = state, !.code = Marker, !.usage = Recorded]
      /\ UNCHANGED <<job, core, told, sh, cli, pipe, files, quiet>>

(* stop_session signals the group the wrapper's pid names; the wrapper was *)
(* spawned into the core's own group and leads none, so no process gets    *)
(* it.  The row is closed either way.                                      *)
Stop ==
  /\ core.up /\ row.state = "running"
  /\ row' = [row EXCEPT !.state = "killed"]
  /\ UNCHANGED <<job, core, told, sh, cli, pipe, files, quiet>>

Crash ==
  /\ core.up /\ core.crashes < MaxCrashes
  /\ core' = [up |-> FALSE, crashes |-> core.crashes + 1]
  /\ sh' = [sh EXCEPT !.child = FALSE]
  /\ UNCHANGED <<job, row, told, cli, pipe, files, quiet>>

Restart ==
  /\ ~core.up
  /\ core' = [core EXCEPT !.up = TRUE]
  /\ UNCHANGED <<job, row, told, sh, cli, pipe, files, quiet>>

---------------------------------------------------------------------------
(* The wrapper.                                                            *)

(* write_marker: to a file beside it first.  Where the project has been    *)
(* moved away or the disk is full by now, either step may fail, or what is *)
(* moved in place be cut short.                                            *)
Written(code) == IF job.lossy THEN {code, "torn", files.exit} ELSE {code}

WriteMarker(code) == \E exit \in Written(code) : files' = [files EXCEPT !.exit = exit]

Sh(from) == sh.at = from /\ UNCHANGED <<job, core, row, told>>
Goto(place) == sh' = [sh EXCEPT !.at = place]

(* The project may have been moved away: no directory, no log, no trace.   *)
OpenLog ==
  /\ Sh("begun")
  /\ \/ Goto("opened") /\ quiet' = FALSE
     \/ Goto("gone") /\ UNCHANGED quiet
  /\ UNCHANGED <<cli, pipe, files>>

(* The trap is set, and the pid written.                                   *)
WritePid ==
  /\ Sh("opened") /\ Goto("armed")
  /\ files' = [files EXCEPT !.pid = TRUE]
  /\ UNCHANGED <<cli, pipe, quiet>>

NoPrompt ==
  /\ Sh("armed") /\ Goto("gone") /\ WriteMarker("66")
  /\ UNCHANGED <<cli, pipe, quiet>>

StartPipeline ==
  /\ Sh("armed") /\ Goto("piping")
  /\ cli' = [cli EXCEPT !.at = "working"]
  /\ UNCHANGED <<pipe, files, quiet>>

Drained ==
  \/ pipe.broken
  \/ pipe.shown = pipe.said /\ (job.renderer => pipe.raw = pipe.said)

(* A pipeline ends when all of its processes have; a process the CLI left  *)
(* behind holds it open.  Only then does sh run a trap that was due.       *)
PipelineOver == cli.at \in {"noted", "cut"} /\ ~cli.stray /\ Drained

BugMissingIsFine == IF files.code = Nothing THEN "0" ELSE files.code
ExitCode == IF files.code = Nothing THEN "70" ELSE files.code

PipelineEnds ==
  /\ Sh("piping") /\ PipelineOver
  /\ IF sh.term THEN Goto("gone") /\ WriteMarker("130") /\ UNCHANGED quiet
     ELSE sh' = [sh EXCEPT !.at = "ended", !.code = ExitCode] /\ quiet' = FALSE /\ UNCHANGED files
  /\ UNCHANGED <<cli, pipe>>

MarkEnd ==
  /\ Sh("ended") /\ Goto("marked") /\ WriteMarker(sh.code)
  /\ UNCHANGED <<cli, pipe, quiet>>

Leave ==
  /\ Sh("marked") /\ Goto("gone")
  /\ files' = [files EXCEPT !.pid = FALSE]
  /\ UNCHANGED <<cli, pipe, quiet>>

Wrapper == OpenLog \/ WritePid \/ NoPrompt \/ StartPipeline \/ PipelineEnds \/ MarkEnd \/ Leave

---------------------------------------------------------------------------
(* The CLI and the pipeline: tee to the stream file, the renderer, tee to  *)
(* the log; without a renderer, tee to the log alone.                      *)

Around == UNCHANGED <<job, core, row, told, sh>>

Says ==
  /\ cli.at = "working" /\ pipe.said < Len(job.stream)
  /\ pipe' = [pipe EXCEPT !.said = @ + 1]
  /\ Around /\ UNCHANGED <<cli, files, quiet>>

(* It ends, or gets nothing more through a broken pipe.                    *)
CliEnds ==
  /\ cli.at = "working"
  /\ \E code \in IF pipe.broken THEN {"1"} ELSE {"0", "1"}, stray \in BOOLEAN :
       cli' = [at |-> "over", code |-> code, stray |-> stray]
  /\ Around /\ UNCHANGED <<pipe, files, quiet>>

BrokenButFine ==
  /\ cli.at = "working" /\ pipe.broken /\ pipe.said = Len(job.stream)
  /\ cli' = [cli EXCEPT !.at = "over", !.code = "0"]
  /\ Around /\ UNCHANGED <<pipe, files, quiet>>

NoteCode ==
  /\ cli.at = "over"
  /\ cli' = [cli EXCEPT !.at = "noted"]
  /\ \E code \in {cli.code} \cup IF job.lossy THEN {Nothing} ELSE {} :
       files' = [files EXCEPT !.code = code]
  /\ Around /\ UNCHANGED <<pipe, quiet>>

Tee ==
  /\ job.renderer /\ ~pipe.broken /\ pipe.raw < pipe.said
  /\ pipe' = [pipe EXCEPT !.raw = @ + 1]
  /\ Around /\ UNCHANGED <<cli, files, quiet>>

(* One line through to the log.                                            *)
Render ==
  LET line == job.stream[pipe.shown + 1]
  IN  /\ ~pipe.broken /\ pipe.shown < IF job.renderer THEN pipe.raw ELSE pipe.said
      /\ IF job.renderer /\ Garbled(line)
         THEN pipe' = [pipe EXCEPT !.broken = TRUE] /\ UNCHANGED quiet
         ELSE LET speaks == ~job.renderer \/ Renders(job.runtime, line)
              IN  /\ pipe' = [pipe EXCEPT !.shown = @ + 1,
                                          !.log = IF speaks THEN Append(@, line) ELSE @]
                  /\ quiet' = (quiet /\ ~speaks)
      /\ Around /\ UNCHANGED <<cli, files>>

StrayEnds ==
  /\ cli.stray
  /\ cli' = [cli EXCEPT !.stray = FALSE]
  /\ Around /\ UNCHANGED <<pipe, files, quiet>>

Pipeline == NoteCode \/ Tee \/ Render

---------------------------------------------------------------------------
(* What happens to them from outside: time, and signals.                   *)

TenMinutes ==
  /\ ~quiet /\ quiet' = TRUE
  /\ UNCHANGED <<job, core, row, told, sh, cli, pipe, files>>

(* SIGTERM to the wrapper: its trap runs at once, or after the pipeline;   *)
(* before the trap is set it just ends.                                    *)
Terminate ==
  /\ sh.at \notin {"none", "gone"} /\ ~sh.term
  /\ CASE sh.at \in {"begun", "opened"}          -> Goto("gone") /\ UNCHANGED files
       [] sh.at \in {"armed", "ended", "marked"} -> Goto("gone") /\ WriteMarker("130")
       [] sh.at = "piping"                       -> sh' = [sh EXCEPT !.term = TRUE] /\ UNCHANGED files
  /\ UNCHANGED <<job, core, row, told, cli, pipe, quiet>>

(* SIGKILL to the wrapper; the pipeline goes on without it.                *)
KillWrapper ==
  /\ sh.at \notin {"none", "gone"} /\ Goto("gone")
  /\ UNCHANGED <<job, core, row, told, cli, pipe, files, quiet>>

KillCli ==
  /\ cli.at = "working"
  /\ cli' = [cli EXCEPT !.at = "over", !.code = "137"]
  /\ Around /\ UNCHANGED <<pipe, files, quiet>>

(* Everything in the pipeline is ended at once, as at a logout.            *)
HangUp ==
  /\ cli.at # "none" /\ sh.at = "piping" /\ ~sh.term
  /\ cli' = [cli EXCEPT !.at = "cut", !.stray = FALSE]
  /\ pipe' = [pipe EXCEPT !.broken = TRUE]
  /\ sh' = [sh EXCEPT !.term = TRUE]
  /\ UNCHANGED <<job, core, row, told, files, quiet>>

(* Another process is given the wrapper's number.                          *)
ReusePid ==
  /\ sh.at = "gone" /\ ~sh.child /\ ~files.reused
  /\ files' = [files EXCEPT !.reused = TRUE]
  /\ Around /\ UNCHANGED <<cli, pipe, quiet>>

World == TenMinutes \/ Terminate \/ KillWrapper \/ KillCli \/ HangUp \/ StrayEnds \/ ReusePid

---------------------------------------------------------------------------
Init ==
  /\ job \in Jobs
  /\ core = [up |-> TRUE, crashes |-> 0]
  /\ row = [state |-> "none", pid |-> FALSE, code |-> Nothing, usage |-> Cost]
  /\ told = [prompt |-> Refused, args |-> [skipcheck |-> FALSE, roots |-> <<>>]]
  /\ sh = [at |-> "none", child |-> FALSE, term |-> FALSE, code |-> Nothing]
  /\ cli = [at |-> "none", code |-> Nothing, stray |-> FALSE]
  /\ pipe = [said |-> 0, raw |-> 0, shown |-> 0, log |-> <<>>, broken |-> FALSE]
  /\ files = [pid |-> FALSE, code |-> Nothing, exit |-> Nothing, reused |-> FALSE]
  /\ quiet = FALSE

Next ==
  \/ Launch \/ Insert \/ Reap \/ Stop \/ Crash \/ Restart
  \/ Wrapper \/ Says \/ CliEnds \/ BrokenButFine \/ Pipeline \/ World

Spec == Init /\ [][Next]_vars

(* The core ticks and is started again when it died; scripts and pipes run *)
(* on; time passes.  That a CLI ends, a process it left ends or anybody    *)
(* presses anything is not assumed.                                        *)
Fairness ==
  /\ WF_vars(Insert) /\ WF_vars(Reap) /\ WF_vars(Restart)
  /\ WF_vars(Wrapper) /\ WF_vars(Pipeline) /\ WF_vars(TenMinutes)

FairSpec == Spec /\ Fairness

---------------------------------------------------------------------------
(* Code 0 reaches the core only from a CLI that ended with 0: it is no     *)
(* longer working, everything it said is in the log as far as it speaks to *)
(* a person, and the usage recorded is that of the whole stream.  Only a   *)
(* line that is not UTF-8 may cost the log its rest and the usage.  The    *)
(* same holds of working at any code: a session recorded as exited is over *)
(* (session.rs classify, run_session.sh, scheduler.rs reap_session).       *)
SaidSoFar == SubSeq(job.stream, 1, pipe.said)
Speaks(l) == ~job.renderer \/ Renders(job.runtime, l)

(* Of the first n lines a log has those that speak, each in its place.     *)
Logged(log, n) ==
  \E line \in [DOMAIN log -> 1..n] :
    /\ \A i, j \in DOMAIN log : i < j => line[i] < line[j]
    /\ {line[i] : i \in DOMAIN log} = {l \in 1..n : Speaks(job.stream[l])}
    /\ \A i \in DOMAIN log : log[i] = job.stream[line[i]]

LogIsWhole ==
  /\ Logged(pipe.log, pipe.said)
  /\ job.renderer => row.usage = Usage(job.runtime, SaidSoFar)

ExitIsTheClis ==
  row.state = "exited" =>
    /\ cli.at # "working"
    /\ row.code = "0" => cli.code = "0" /\ cli.at = "noted"
    /\ row.code = "0" /\ ~(\E i \in DOMAIN job.stream : Garbled(job.stream[i])) => LogIsWhole

(* A session that starts has been told everything (see Prompt): what is in *)
(* the file its CLI reads is whole, or the launch is refused.              *)
StartsFullyTold ==
  told.prompt # Refused => SaysItAll(job, told.prompt) /\ CanCommit(job, told.args)

(* When the work of a running session is over the core notices: by the     *)
(* marker, or, when none was written, by the missing process and the       *)
(* silent log.  It does not while a process the CLI left holds the         *)
(* pipeline open, while another process has the wrapper's number, and, as  *)
(* nobody waits for the wrapper, until the core is started again.          *)
Over ==
  \/ sh.at = "gone" /\ cli.at \in {"none", "noted", "cut"}
  \/ sh.at = "piping" /\ cli.at \in {"noted", "cut"}
Zombie == sh.at = "gone" /\ sh.child /\ row.pid /\ Marker = Nothing

EndIsNoticed ==
  (row.state = "running" /\ Over) ~> (row.state # "running" \/ cli.stray \/ Zombie \/ files.reused)

(* What session.rs says of a session whose window was closed by hand does  *)
(* not hold as long as the core lives: "a pid liveness check and a         *)
(* log-mtime heartbeat as the backstop".                                   *)
BackstopCatches ==
  (row.state = "running" /\ sh.at = "gone" /\ cli.at \in {"none", "noted", "cut"}) ~> row.state # "running"

(* Nor does what launcher.rs says of Stop: "Sends SIGTERM to the session's *)
(* process group, then SIGKILL after a grace period".                      *)
StoppedIsOver == row.state = "killed" => cli.at # "working"
=============================================================================
