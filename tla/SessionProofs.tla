---------------------------- MODULE SessionProofs ----------------------------
(***************************************************************************)
(* What may be believed of sessions.                                       *)
(* 1. An exit code of 0 is the CLI's, whatever becomes of the core, the    *)
(*    wrapper script, the pipeline and the files (SessionProcess).         *)
(* 2. A protocol version that passes the gate with its cases has earned    *)
(*    it, whatever becomes of the sessions that run and grade them (Gate). *)
(* 3. A version the gate's static layers accept can be run: the prompts it *)
(*    makes are filled, and its briefs quote what they promise (Gate and   *)
(*    Prompt).                                                             *)
(* 4. What the core says of all this reaches the shell frame by frame as   *)
(*    it was written, whatever the pipe makes of the bytes (Framing).      *)
(***************************************************************************)
EXTENDS SessionProcess, Gate, Integers, FiniteSetTheorems, WellFoundedInduction, TLAPS

---------------------------------------------------------------------------
Places  == {"none", "begun", "opened", "armed", "piping", "ended", "marked", "gone"}

Records ==
  /\ row   = [state |-> row.state, pid |-> row.pid, code |-> row.code, usage |-> row.usage]
  /\ sh    = [at |-> sh.at, child |-> sh.child, term |-> sh.term, code |-> sh.code]
  /\ cli   = [at |-> cli.at, code |-> cli.code, stray |-> cli.stray]
  /\ pipe  = [said |-> pipe.said, raw |-> pipe.raw, shown |-> pipe.shown, log |-> pipe.log,
              broken |-> pipe.broken]
  /\ files = [pid |-> files.pid, code |-> files.code, exit |-> files.exit, reused |-> files.reused]
  /\ job \in Jobs /\ sh.at \in Places

(* What comes out of the pipeline is what went in, as far as it has come.  *)
Piped ==
  /\ pipe.said \in 0..Len(job.stream) /\ pipe.raw \in Nat /\ pipe.shown \in Nat
  /\ pipe.raw <= pipe.said /\ pipe.shown <= pipe.said /\ (job.renderer => pipe.shown <= pipe.raw)
  /\ pipe.log \in Seq({job.stream[i] : i \in 1..pipe.shown})
  /\ Logged(pipe.log, pipe.shown)

Unreadable == \E i \in DOMAIN job.stream : Garbled(job.stream[i])
Broken == pipe.broken => cli.at = "cut" \/ Unreadable

(* The CLI ran to its end, and all it said went through.                   *)
Ran == cli.at = "noted" /\ ~cli.stray /\ Drained

Ended ==
  /\ sh.at \in {"none", "begun", "opened", "armed"} => cli.at = "none" /\ files.exit = Nothing
  /\ files.code # Nothing => files.code = cli.code /\ cli.at \in {"noted", "cut"}
  /\ cli.at = "cut" => sh.term
  /\ sh.at \in {"ended", "marked"} => Ran
  /\ files.exit # Nothing => sh.at \in {"marked", "gone"} /\ cli.at \in {"none", "noted", "cut"}
  /\ row.state = "exited" => sh.at \in {"marked", "gone"} /\ cli.at \in {"none", "noted", "cut"}

(* Wherever a 0 has come to, it is the CLI's.                              *)
ZeroIsTheClis ==
  "0" \in {sh.code, files.exit, row.code} =>
    sh.at \in {"ended", "marked", "gone"} /\ Ran /\ cli.code = "0"

UsageIsOfAll ==
  row.code = "0" /\ job.renderer /\ ~Unreadable => row.usage = Usage(job.runtime, SaidSoFar)

SessionInductive == Records /\ Piped /\ Broken /\ Ended /\ ZeroIsTheClis /\ UsageIsOfAll

---------------------------------------------------------------------------
LEMMA NextIs ==
  ASSUME Next
  PROVE  \/ Launch \/ Insert \/ Reap \/ Stop \/ Crash \/ Restart
         \/ OpenLog \/ WritePid \/ NoPrompt \/ StartPipeline \/ PipelineEnds \/ MarkEnd \/ Leave
         \/ Says \/ CliEnds \/ BrokenButFine \/ NoteCode \/ Tee \/ Render
         \/ TenMinutes \/ Terminate \/ KillWrapper \/ KillCli \/ HangUp \/ StrayEnds \/ ReusePid
BY DEF Next, Wrapper, Pipeline, World

LEMMA JobStands ==
  ASSUME [Next]_vars
  PROVE  job' = job
<1>1. CASE UNCHANGED vars
  BY <1>1 DEF vars
<1>2. CASE Launch \/ Insert \/ Reap \/ Stop \/ Crash \/ Restart
  BY <1>2 DEF Launch, Insert, Reap, Stop, Crash, Restart
<1>3. CASE OpenLog \/ WritePid \/ NoPrompt \/ StartPipeline \/ PipelineEnds \/ MarkEnd \/ Leave
  BY <1>3 DEF OpenLog, WritePid, NoPrompt, StartPipeline, PipelineEnds, MarkEnd, Leave, Sh
<1>4. CASE Says \/ CliEnds \/ BrokenButFine \/ NoteCode \/ Tee \/ Render
  BY <1>4 DEF Says, CliEnds, BrokenButFine, NoteCode, Tee, Render, Around
<1>5. CASE TenMinutes \/ Terminate \/ KillWrapper \/ KillCli \/ HangUp \/ StrayEnds \/ ReusePid
  BY <1>5 DEF TenMinutes, Terminate, KillWrapper, KillCli, HangUp, StrayEnds, ReusePid, Around
<1>6. QED
  BY <1>1, <1>2, <1>3, <1>4, <1>5, NextIs

LEMMA RecordsStand ==
  ASSUME Records, [Next]_vars
  PROVE  Records'
<1>1. CASE UNCHANGED vars
  BY <1>1 DEF vars, Records
<1>2. CASE Launch
  BY <1>2 DEF Launch, Records, Places
<1>3. CASE Insert
  BY <1>3 DEF Insert, Records
<1>4. CASE Reap
  BY <1>4 DEF Reap, Records
<1>5. CASE Stop \/ Crash \/ Restart
  BY <1>5 DEF Stop, Crash, Restart, Records
<1>6. CASE OpenLog \/ WritePid \/ StartPipeline \/ Leave
  BY <1>6 DEF OpenLog, WritePid, StartPipeline, Leave, Sh, Goto, Records, Places
<1>7. CASE NoPrompt \/ PipelineEnds \/ MarkEnd
  BY <1>7 DEF NoPrompt, PipelineEnds, MarkEnd, WriteMarker, Sh, Goto, Records, Places
<1>8. CASE Says \/ Tee \/ Render
  BY <1>8 DEF Says, Tee, Render, Around, Records
<1>9. CASE CliEnds \/ BrokenButFine \/ NoteCode
  <2>1. cli' = [at |-> cli'.at, code |-> cli'.code, stray |-> cli'.stray]
    <3>1. CASE CliEnds
      <4>1. PICK code, stray : cli' = [at |-> "over", code |-> code, stray |-> stray]
        BY <3>1, Zenon DEF CliEnds
      <4>2. QED
        BY <4>1
    <3>2. CASE BrokenButFine \/ NoteCode
      BY <3>2 DEF BrokenButFine, NoteCode, Records
    <3>3. QED
      BY <1>9, <3>1, <3>2
  <2>2. files' = [pid |-> files'.pid, code |-> files'.code, exit |-> files'.exit, reused |-> files'.reused]
    BY <1>9 DEF CliEnds, BrokenButFine, NoteCode, Records
  <2>3. QED
    BY <1>9, <2>1, <2>2 DEF CliEnds, BrokenButFine, NoteCode, Around, Records
<1>10. CASE TenMinutes \/ KillWrapper \/ KillCli \/ StrayEnds \/ ReusePid
  BY <1>10 DEF TenMinutes, KillWrapper, KillCli, StrayEnds, ReusePid, Around, Goto, Records, Places
<1>11. CASE Terminate
  BY <1>11 DEF Terminate, WriteMarker, Goto, Records, Places
<1>12. CASE HangUp
  BY <1>12 DEF HangUp, Records, Places
<1>13. QED
  BY <1>1, <1>2, <1>3, <1>4, <1>5, <1>6, <1>7, <1>8, <1>9, <1>10, <1>11, <1>12, NextIs

---------------------------------------------------------------------------
(* The lines of the log.                                                   *)

LEMMA LoggedOn ==
  ASSUME Piped, NEW log, NEW l, l = job.stream[pipe.shown + 1],
         log = IF Speaks(l) THEN Append(pipe.log, l) ELSE pipe.log
  PROVE  /\ log \in Seq({job.stream[i] : i \in 1..(pipe.shown + 1)})
         /\ Logged(log, pipe.shown + 1)
<1> DEFINE k == pipe.shown
           N == Len(pipe.log)
           Lines(n) == {job.stream[i] : i \in 1..n}
<1>1. k \in Nat /\ k + 1 \in 1..(k + 1) /\ 1..k \subseteq 1..(k + 1)
  BY DEF Piped
<1>2. pipe.log \in Seq(Lines(k + 1)) /\ l \in Lines(k + 1) /\ N \in Nat /\ DOMAIN pipe.log = 1..N
  BY <1>1 DEF Piped
<1> HIDE DEF N, Lines
<1>3. log \in Seq(Lines(k + 1))
  <2>1. Append(pipe.log, l) \in Seq(Lines(k + 1))
    BY <1>2
  <2>2. QED
    BY <1>2, <2>1
<1> USE DEF Lines
<1>4. PICK line \in [DOMAIN pipe.log -> 1..k] :
        /\ \A i, j \in DOMAIN pipe.log : i < j => line[i] < line[j]
        /\ {line[i] : i \in DOMAIN pipe.log} = {n \in 1..k : Speaks(job.stream[n])}
        /\ \A i \in DOMAIN pipe.log : pipe.log[i] = job.stream[line[i]]
  BY DEF Piped, Logged
<1>5. CASE ~Speaks(l)
  <2>1. line \in [DOMAIN log -> 1..(k + 1)] /\ log = pipe.log
    BY <1>1, <1>4, <1>5
  <2>2. {n \in 1..(k + 1) : Speaks(job.stream[n])} = {n \in 1..k : Speaks(job.stream[n])}
    BY <1>1, <1>5
  <2>3. QED
    BY <1>3, <1>4, <2>1, <2>2 DEF Logged
<1>6. CASE Speaks(l)
  <2> DEFINE m == [i \in 1..(N + 1) |-> IF i = N + 1 THEN k + 1 ELSE line[i]]
  <2>1. log = Append(pipe.log, l) /\ DOMAIN log = 1..(N + 1) /\ log[N + 1] = l
        /\ \A i \in 1..N : log[i] = pipe.log[i]
    BY <1>2, <1>6
  <2>2. \A i \in 1..N : line[i] \in 1..k
    BY <1>2, <1>4
  <2>3. /\ m \in [1..(N + 1) -> 1..(k + 1)] /\ m[N + 1] = k + 1
        /\ \A i \in 1..N : m[i] = line[i] /\ i \in 1..(N + 1)
    BY <1>1, <1>2, <2>2
  <2> HIDE DEF m
  <2>4. ASSUME NEW i \in 1..(N + 1), NEW j \in 1..(N + 1), i < j PROVE m[i] < m[j]
    <3>1. i \in 1..N
      BY <1>2, <2>4
    <3>2. CASE j = N + 1
      BY <1>1, <2>2, <2>3, <3>1, <3>2
    <3>3. CASE j \in 1..N
      BY <1>2, <1>4, <2>3, <2>4, <3>1, <3>3
    <3>4. QED
      BY <1>2, <3>2, <3>3
  <2>5. {m[i] : i \in 1..(N + 1)} = {n \in 1..(k + 1) : Speaks(job.stream[n])}
    <3>1. {m[i] : i \in 1..(N + 1)} = {line[i] : i \in 1..N} \cup {k + 1}
      <4>1. \A i \in 1..(N + 1) : i = N + 1 \/ i \in 1..N
        BY <1>2
      <4>2. N + 1 \in 1..(N + 1)
        BY <1>2
      <4>3. QED
        BY <2>3, <4>1, <4>2
    <3>2. {n \in 1..(k + 1) : Speaks(job.stream[n])} = {n \in 1..k : Speaks(job.stream[n])} \cup {k + 1}
      BY <1>1, <1>6
    <3>3. QED
      BY <1>2, <1>4, <3>1, <3>2
  <2>6. ASSUME NEW i \in 1..(N + 1) PROVE log[i] = job.stream[m[i]]
    <3>1. CASE i = N + 1
      BY <2>1, <2>3, <3>1
    <3>2. CASE i # N + 1
      <4>1. i \in 1..N
        BY <1>2, <3>2
      <4>2. QED
        BY <1>2, <1>4, <2>1, <2>3, <4>1
    <3>3. QED
      BY <3>1, <3>2
  <2>7. QED
    BY <1>3, <2>1, <2>3, <2>4, <2>5, <2>6 DEF Logged
<1>7. QED
  BY <1>3, <1>5, <1>6 DEF Logged

LEMMA PipedStands ==
  ASSUME Records, Piped, [Next]_vars
  PROVE  Piped'
<1>1. /\ job' = job /\ job \in Jobs /\ job.stream \in Seq(ToSet(job.stream)) /\ Len(job.stream) \in Nat
      /\ pipe = [said |-> pipe.said, raw |-> pipe.raw, shown |-> pipe.shown, log |-> pipe.log,
                 broken |-> pipe.broken]
      /\ pipe.said \in 0..Len(job.stream) /\ pipe.raw \in Nat /\ pipe.shown \in Nat
  BY JobStands, SessionConstants DEF Records, Piped
<1>2. CASE UNCHANGED pipe
  <2>1. Logged(pipe.log, pipe.shown)'
    BY <1>1, <1>2 DEF Piped, Logged, Speaks
  <2>2. QED
    BY <1>1, <1>2, <2>1 DEF Piped
<1>3. ASSUME UNCHANGED <<pipe.shown, pipe.log>>, Piped,
             /\ pipe'.said \in 0..Len(job.stream) /\ pipe'.raw \in Nat
             /\ pipe'.raw <= pipe'.said /\ pipe.said <= pipe'.said /\ pipe.raw <= pipe'.raw
      PROVE  Piped'
  <2>1. Logged(pipe.log, pipe.shown)'
    BY <1>1, <1>3 DEF Piped, Logged, Speaks
  <2>2. QED
    BY <1>1, <1>3, <2>1 DEF Piped
<1>4. CASE Says
  <2>1. pipe' = [pipe EXCEPT !.said = pipe.said + 1] /\ pipe.said < Len(job.stream)
    BY <1>4 DEF Says
  <2>2. QED
    BY <1>1, <1>3, <2>1 DEF Piped
<1>5. CASE Tee
  <2>1. pipe' = [pipe EXCEPT !.raw = pipe.raw + 1] /\ pipe.raw < pipe.said
    BY <1>5 DEF Tee
  <2>2. QED
    BY <1>1, <1>3, <2>1 DEF Piped
<1>6. CASE HangUp
  BY <1>1, <1>3, <1>6 DEF HangUp, Piped
<1>7. CASE Render
  <2> DEFINE l == job.stream[pipe.shown + 1]
             log == IF Speaks(l) THEN Append(pipe.log, l) ELSE pipe.log
  <2>1. pipe.shown < IF job.renderer THEN pipe.raw ELSE pipe.said
    BY <1>7 DEF Render
  <2>2. CASE job.renderer /\ Garbled(l)
    <3>1. pipe' = [pipe EXCEPT !.broken = TRUE]
      BY <1>7, <2>2 DEF Render
    <3>2. QED
      BY <1>1, <1>3, <3>1 DEF Piped
  <2>3. CASE ~(job.renderer /\ Garbled(l))
    <3>1. pipe' = [pipe EXCEPT !.shown = pipe.shown + 1, !.log = log]
      BY <1>7, <2>3 DEF Render, Speaks
    <3>2. /\ pipe'.said = pipe.said /\ pipe'.raw = pipe.raw /\ pipe'.shown = pipe.shown + 1
          /\ pipe'.log = log
      BY <1>1, <3>1
    <3> HIDE DEF log
    <3>3. /\ log \in Seq({job.stream[i] : i \in 1..(pipe.shown + 1)})
          /\ Logged(log, pipe.shown + 1)
      <4>1. PICK line, new : line = l /\ new = log
        OBVIOUS
      <4>2. new = IF Speaks(line) THEN Append(pipe.log, line) ELSE pipe.log
        BY <4>1 DEF log
      <4>3. line = job.stream[pipe.shown + 1]
        BY <4>1
      <4> HIDE DEF l
      <4>4. /\ new \in Seq({job.stream[i] : i \in 1..(pipe.shown + 1)})
            /\ Logged(new, pipe.shown + 1)
        BY <4>2, <4>3, LoggedOn
      <4>5. QED
        BY <4>1, <4>4
    <3>4. Logged(pipe.log, pipe.shown)'
      BY <1>1, <3>2, <3>3 DEF Logged, Speaks
    <3>5. QED
      BY <1>1, <2>1, <3>2, <3>3, <3>4 DEF Piped
  <2>4. QED
    BY <2>2, <2>3
<1>8. CASE UNCHANGED vars
  BY <1>2, <1>8 DEF vars
<1>9. CASE Launch \/ Insert \/ Reap \/ Stop \/ Crash \/ Restart
  BY <1>2, <1>9 DEF Launch, Insert, Reap, Stop, Crash, Restart
<1>10. CASE OpenLog \/ WritePid \/ NoPrompt \/ StartPipeline \/ PipelineEnds \/ MarkEnd \/ Leave
  BY <1>2, <1>10 DEF OpenLog, WritePid, NoPrompt, StartPipeline, PipelineEnds, MarkEnd, Leave
<1>11. CASE CliEnds \/ BrokenButFine \/ NoteCode
  BY <1>2, <1>11 DEF CliEnds, BrokenButFine, NoteCode
<1>12. CASE TenMinutes \/ Terminate \/ KillWrapper \/ KillCli \/ StrayEnds \/ ReusePid
  BY <1>2, <1>12 DEF TenMinutes, Terminate, KillWrapper, KillCli, StrayEnds, ReusePid
<1>13. QED
  BY <1>4, <1>5, <1>6, <1>7, <1>8, <1>9, <1>10, <1>11, <1>12, NextIs

---------------------------------------------------------------------------
(* The end of the CLI, and of what it says.                                *)

LEMMA BrokenStands ==
  ASSUME Records, Piped, Ended, Broken, [Next]_vars
  PROVE  Broken'
<1>1. job' = job
  BY JobStands
<1>2. Unreadable' = Unreadable
  BY <1>1 DEF Unreadable, Garbled
<1>3. CASE UNCHANGED vars
  BY <1>2, <1>3 DEF Broken, vars
<1>4. CASE Launch \/ Insert \/ Reap \/ Stop \/ Crash \/ Restart
  BY <1>2, <1>4 DEF Broken, Launch, Insert, Reap, Stop, Crash, Restart
<1>5. CASE OpenLog \/ WritePid \/ NoPrompt \/ PipelineEnds \/ MarkEnd \/ Leave
  BY <1>2, <1>5 DEF Broken, OpenLog, WritePid, NoPrompt, PipelineEnds, MarkEnd, Leave
<1>6. CASE StartPipeline
  BY <1>2, <1>6 DEF Broken, Ended, StartPipeline, Sh
<1>7. CASE Says \/ Tee
  BY <1>2, <1>7 DEF Broken, Says, Tee, Around, Records
<1>8. CASE CliEnds \/ BrokenButFine \/ KillCli
  BY <1>2, <1>8 DEF Broken, CliEnds, BrokenButFine, KillCli
<1>9. CASE NoteCode \/ StrayEnds
  BY <1>2, <1>9 DEF Broken, NoteCode, StrayEnds, Records
<1>10. CASE Render
  <2> DEFINE line == job.stream[pipe.shown + 1]
  <2>1. cli' = cli
    BY <1>10 DEF Render
  <2>2. CASE job.renderer /\ Garbled(line)
    <3>1. pipe.shown < pipe.raw
      BY <1>10, <2>2 DEF Render
    <3>2. pipe.shown + 1 \in DOMAIN job.stream
      BY <3>1, SessionConstants DEF Records, Piped
    <3> HIDE DEF line
    <3>3. Unreadable
      BY <2>2, <3>2 DEF line, Unreadable
    <3>4. QED
      BY <1>2, <3>3 DEF Broken
  <2>3. CASE ~(job.renderer /\ Garbled(line))
    <3>1. pipe'.broken = pipe.broken
      BY <1>10, <2>3 DEF Render, Records
    <3>2. QED
      BY <1>2, <2>1, <3>1 DEF Broken
  <2>4. QED
    BY <2>2, <2>3
<1>11. CASE HangUp
  BY <1>11 DEF Broken, HangUp, Records
<1>12. CASE TenMinutes \/ Terminate \/ KillWrapper \/ ReusePid
  BY <1>2, <1>12 DEF Broken, TenMinutes, Terminate, KillWrapper, ReusePid, Around
<1>13. QED
  BY <1>3, <1>4, <1>5, <1>6, <1>7, <1>8, <1>9, <1>10, <1>11, <1>12, NextIs

(* Once the pipeline is over, and the wrapper not waiting for it any more, *)
(* nothing is said, written or ended.                                      *)
LEMMA RanStands ==
  ASSUME Records, Piped, [Next]_vars, Ran, sh.at \in {"ended", "marked", "gone"}
  PROVE  Ran' /\ cli' = cli /\ pipe'.said = pipe.said /\ sh'.at \in {"ended", "marked", "gone"}
         /\ (sh.at = "gone" => sh'.at = "gone") /\ (sh.at = "marked" => sh'.at # "ended")
<1>1. job' = job /\ cli.at = "noted" /\ ~cli.stray /\ Drained
  BY JobStands DEF Ran
<1>2. ASSUME UNCHANGED <<cli, pipe>> PROVE Ran' /\ pipe'.said = pipe.said
  BY <1>1, <1>2 DEF Ran, Drained
<1>3. CASE UNCHANGED vars
  BY <1>1, <1>2, <1>3 DEF vars
<1>4. CASE Launch \/ Insert \/ Reap \/ Stop \/ Crash \/ Restart
  BY <1>1, <1>2, <1>4 DEF Launch, Insert, Reap, Stop, Crash, Restart, Records
<1>5. CASE OpenLog \/ WritePid \/ NoPrompt \/ StartPipeline \/ PipelineEnds
  BY <1>5 DEF OpenLog, WritePid, NoPrompt, StartPipeline, PipelineEnds, Sh
<1>6. CASE MarkEnd \/ Leave
  BY <1>1, <1>2, <1>6 DEF MarkEnd, Leave, Sh, Goto, Records
<1>7. CASE Says \/ CliEnds \/ BrokenButFine \/ NoteCode \/ StrayEnds \/ KillCli
  BY <1>1, <1>7 DEF Says, CliEnds, BrokenButFine, NoteCode, StrayEnds, KillCli
<1>8. CASE Tee \/ Render
  BY <1>1, <1>8 DEF Tee, Render, Drained, Piped, Records
<1>9. CASE TenMinutes \/ Terminate \/ KillWrapper \/ ReusePid
  BY <1>1, <1>2, <1>9 DEF TenMinutes, Terminate, KillWrapper, ReusePid, Around, Goto, Records
<1>10. CASE HangUp
  BY <1>10 DEF HangUp
<1>11. QED
  BY <1>3, <1>4, <1>5, <1>6, <1>7, <1>8, <1>9, <1>10, NextIs

LEMMA EndedStands ==
  ASSUME Records, Piped, Ended, [Next]_vars
  PROVE  Ended'
<1>1. job' = job
  BY JobStands
<1>2. CASE UNCHANGED vars
  BY <1>1, <1>2 DEF Ended, Ran, Drained, vars
<1>3. CASE Launch
  BY <1>1, <1>3 DEF Ended, Ran, Launch, Records
<1>4. CASE Reap
  <2>1. row' = [row EXCEPT !.state = Classify(Marker, PidAlive, quiet), !.code = Marker, !.usage = Recorded]
    BY <1>4 DEF Reap
  <2>2. row'.state = Classify(Marker, PidAlive, quiet)
    BY <2>1 DEF Records
  <2>3. row'.state = "exited" => files.exit # Nothing
    BY <2>2 DEF Classify, Marker
  <2>4. UNCHANGED <<sh, cli, pipe, files>>
    BY <1>4 DEF Reap
  <2>5. QED
    BY <1>1, <2>3, <2>4 DEF Ended, Ran, Drained
<1>5. CASE Insert \/ Stop
  BY <1>1, <1>5 DEF Ended, Ran, Drained, Insert, Stop, Records
<1>6. CASE Crash \/ Restart
  BY <1>1, <1>6 DEF Ended, Ran, Drained, Crash, Restart, Records
<1>7. CASE OpenLog \/ WritePid
  BY <1>1, <1>7 DEF Ended, Ran, OpenLog, WritePid, Sh, Goto, Records
<1>8. CASE NoPrompt
  BY <1>1, <1>8 DEF Ended, Ran, NoPrompt, WriteMarker, Sh, Goto, Records
<1>9. CASE StartPipeline
  BY <1>1, <1>9 DEF Ended, Ran, StartPipeline, Sh, Goto, Records, Nothing
<1>10. CASE PipelineEnds
  BY <1>1, <1>10 DEF Ended, Ran, Drained, PipelineEnds, PipelineOver, WriteMarker, Sh, Goto, Records
<1>11. CASE MarkEnd \/ Leave
  BY <1>1, <1>11 DEF Ended, Ran, Drained, MarkEnd, Leave, WriteMarker, Sh, Goto, Records
<1>12. CASE Says \/ Tee \/ Render
  <2>1. UNCHANGED <<row, sh, cli, files>>
    BY <1>12 DEF Says, Tee, Render, Around
  <2>2. sh.at \in {"ended", "marked"} => Ran'
    BY RanStands DEF Ended
  <2>3. QED
    BY <2>1, <2>2 DEF Ended
<1>13. CASE CliEnds \/ BrokenButFine \/ KillCli
  <2>1. UNCHANGED <<row, sh, files>> /\ cli.at = "working"
    BY <1>13 DEF CliEnds, BrokenButFine, KillCli, Around
  <2>2. cli'.at = "over"
    <3>1. CASE CliEnds
      <4>1. PICK code, stray : cli' = [at |-> "over", code |-> code, stray |-> stray]
        BY <3>1, Zenon DEF CliEnds
      <4>2. QED
        BY <4>1
    <3>2. QED
      BY <1>13, <3>1 DEF BrokenButFine, KillCli, Records
  <2>3. QED
    BY <2>1, <2>2 DEF Ended, Ran
<1>14. CASE NoteCode
  <2>1. /\ UNCHANGED <<row, sh>> /\ cli.at = "over" /\ cli'.at = "noted" /\ cli'.code = cli.code
        /\ files'.exit = files.exit /\ files'.code \in {cli.code, Nothing}
    BY <1>14 DEF NoteCode, Around, Records
  <2>2. sh.at \notin {"ended", "marked", "none", "begun", "opened", "armed"} /\ files.exit = Nothing
        /\ row.state # "exited"
    BY <2>1 DEF Ended, Ran
  <2>3. QED
    BY <2>1, <2>2 DEF Ended
<1>15. CASE StrayEnds
  BY <1>1, <1>15 DEF Ended, Ran, Drained, StrayEnds, Around, Records
<1>16. CASE Terminate
  <2>1. /\ UNCHANGED <<row, cli, pipe>> /\ sh.at # "gone" /\ files'.code = files.code
        /\ (sh.term => sh'.term)
    <3>1. sh.at \in {"begun", "opened"} \/ sh.at \in {"armed", "ended", "marked"} \/ sh.at = "piping"
      BY <1>16 DEF Terminate, Records, Places
    <3>2. CASE sh.at \in {"begun", "opened"}
      BY <1>16, <3>2 DEF Terminate, Goto, Records
    <3>3. CASE sh.at \in {"armed", "ended", "marked"}
      BY <1>16, <3>3 DEF Terminate, WriteMarker, Goto, Records
    <3>4. CASE sh.at = "piping"
      BY <1>16, <3>4 DEF Terminate, Records
    <3>5. QED
      BY <3>1, <3>2, <3>3, <3>4
  <2>2. CASE sh.at = "piping"
    BY <1>16, <2>1, <2>2 DEF Terminate, Ended, Ran, Records
  <2>3. CASE sh.at # "piping"
    BY <1>16, <2>1, <2>3 DEF Terminate, WriteMarker, Goto, Ended, Ran, Records, Places
  <2>4. QED
    BY <2>2, <2>3
<1>17. CASE HangUp
  BY <1>17 DEF Ended, Ran, HangUp, Records
<1>18. CASE TenMinutes \/ KillWrapper \/ ReusePid
  BY <1>1, <1>18 DEF Ended, Ran, Drained, TenMinutes, KillWrapper, ReusePid, Around, Goto, Records
<1>19. QED
  BY <1>2, <1>3, <1>4, <1>5, <1>6, <1>7, <1>8, <1>9, <1>10, <1>11, <1>12, <1>13, <1>14, <1>15,
     <1>16, <1>17, <1>18, NextIs

---------------------------------------------------------------------------
(* Who writes a 0.                                                         *)

LEMMA ZeroIsWritten ==
  ASSUME Records, Ended, [Next]_vars
  PROVE  /\ "0" \in {sh'.code, files'.exit, row'.code} =>
              \/ "0" \in {sh.code, files.exit, row.code}
              \/ PipelineEnds /\ sh'.at = "ended" /\ files.code = "0"
         /\ row'.code = "0" /\ row'.code # row.code =>
              files.exit = "0" /\ row'.usage = Recorded /\ UNCHANGED <<sh, cli, pipe>>
         /\ row'.code = row.code => row'.usage = row.usage \/ Reap
<1>1. CASE UNCHANGED vars
  BY <1>1 DEF vars
<1>2. CASE Launch \/ Insert \/ Stop
  BY <1>2 DEF Launch, Insert, Stop, Records
<1>3. CASE Crash \/ Restart
  BY <1>3 DEF Crash, Restart, Records
<1>4. CASE Reap
  <2>1. /\ row' = [row EXCEPT !.state = Classify(Marker, PidAlive, quiet), !.code = Marker, !.usage = Recorded]
        /\ UNCHANGED <<sh, cli, pipe, files>>
    BY <1>4 DEF Reap
  <2>2. row'.code = Marker /\ row'.usage = Recorded
    BY <2>1 DEF Records
  <2>3. row'.code = "0" => files.exit = "0"
    BY <2>2 DEF Marker, Nothing
  <2>4. QED
    BY <1>4, <2>1, <2>2, <2>3
<1>5. CASE OpenLog \/ WritePid \/ StartPipeline \/ Leave
  BY <1>5 DEF OpenLog, WritePid, StartPipeline, Leave, Sh, Goto, Records
<1>6. CASE NoPrompt
  BY <1>6 DEF NoPrompt, WriteMarker, Written, Sh, Goto, Records
<1>7. CASE PipelineEnds
  <2>1. row' = row
    BY <1>7 DEF PipelineEnds, Sh
  <2>2. CASE sh.term
    BY <1>7, <2>1, <2>2 DEF PipelineEnds, WriteMarker, Written, Goto, Records
  <2>3. CASE ~sh.term
    BY <1>7, <2>1, <2>3 DEF PipelineEnds, ExitCode, Records
  <2>4. QED
    BY <2>2, <2>3
<1>8. CASE MarkEnd
  BY <1>8 DEF MarkEnd, WriteMarker, Written, Sh, Goto, Records
<1>9. CASE Says \/ CliEnds \/ BrokenButFine \/ Tee \/ Render \/ StrayEnds \/ KillCli
  BY <1>9 DEF Says, CliEnds, BrokenButFine, Tee, Render, StrayEnds, KillCli, Around
<1>10. CASE NoteCode
  BY <1>10 DEF NoteCode, Around, Records
<1>11. CASE Terminate
  <2>1. sh.at \in {"begun", "opened"} \/ sh.at \in {"armed", "ended", "marked"} \/ sh.at = "piping"
    BY <1>11 DEF Terminate, Records, Places
  <2>2. row' = row
    BY <1>11 DEF Terminate
  <2>3. CASE sh.at \in {"begun", "opened"}
    BY <1>11, <2>2, <2>3 DEF Terminate, Goto, Records
  <2>4. CASE sh.at \in {"armed", "ended", "marked"}
    BY <1>11, <2>2, <2>4 DEF Terminate, WriteMarker, Written, Goto, Records
  <2>5. CASE sh.at = "piping"
    BY <1>11, <2>2, <2>5 DEF Terminate, Records
  <2>6. QED
    BY <2>1, <2>3, <2>4, <2>5
<1>12. CASE TenMinutes \/ KillWrapper \/ HangUp \/ ReusePid
  BY <1>12 DEF TenMinutes, KillWrapper, HangUp, ReusePid, Around, Goto, Records
<1>13. QED
  BY <1>1, <1>2, <1>3, <1>4, <1>5, <1>6, <1>7, <1>8, <1>9, <1>10, <1>11, <1>12, NextIs

LEMMA ZeroStands ==
  ASSUME Records, Piped, Ended, ZeroIsTheClis, [Next]_vars
  PROVE  ZeroIsTheClis'
<1>1. CASE "0" \in {sh.code, files.exit, row.code}
  BY <1>1, RanStands DEF ZeroIsTheClis
<1>2. CASE PipelineEnds /\ sh'.at = "ended" /\ files.code = "0"
  <2>1. job' = job /\ cli' = cli /\ pipe' = pipe /\ PipelineOver
    BY <1>2, JobStands DEF PipelineEnds
  <2>2. ~sh.term
    BY <1>2 DEF PipelineEnds, Goto, Records
  <2>3. cli.at = "noted" /\ cli.code = "0"
    BY <1>2, <2>1, <2>2 DEF Ended, PipelineOver, Nothing
  <2>4. QED
    BY <1>2, <2>1, <2>3 DEF ZeroIsTheClis, Ran, Drained, PipelineOver
<1>3. QED
  BY <1>1, <1>2, ZeroIsWritten DEF ZeroIsTheClis

LEMMA UsageStands ==
  ASSUME Records, Piped, Broken, Ended, ZeroIsTheClis, UsageIsOfAll, [Next]_vars
  PROVE  UsageIsOfAll'
<1>1. job' = job
  BY JobStands
<1> SUFFICES ASSUME row'.code = "0", job.renderer, ~Unreadable
             PROVE  row'.usage = Usage(job.runtime, SubSeq(job.stream, 1, pipe'.said))
  BY <1>1 DEF UsageIsOfAll, Unreadable, Garbled, SaidSoFar
<1>2. ASSUME files.exit = "0", row'.usage = Recorded, UNCHANGED pipe
      PROVE  row'.usage = Usage(job.runtime, SubSeq(job.stream, 1, pipe'.said))
  <2>1. Ran
    BY <1>2 DEF ZeroIsTheClis
  <2>2. pipe.raw = pipe.said
    BY <2>1 DEF Ran, Drained, Broken
  <2>3. QED
    BY <1>2, <2>2 DEF Recorded
<1>3. CASE row.code # "0"
  BY <1>2, <1>3, ZeroIsWritten
<1>4. CASE row.code = "0" /\ row'.usage = row.usage
  <2>1. pipe'.said = pipe.said
    BY <1>4, RanStands DEF ZeroIsTheClis
  <2>2. QED
    BY <1>4, <2>1 DEF UsageIsOfAll, SaidSoFar
<1>5. CASE Reap
  <2>1. /\ row' = [row EXCEPT !.state = Classify(Marker, PidAlive, quiet), !.code = Marker, !.usage = Recorded]
        /\ UNCHANGED pipe
    BY <1>5 DEF Reap
  <2>2. row'.code = Marker /\ row'.usage = Recorded
    BY <2>1 DEF Records
  <2>3. files.exit = "0"
    BY <2>2 DEF Marker, Nothing
  <2>4. QED
    BY <1>2, <2>1, <2>2, <2>3
<1>6. QED
  BY <1>3, <1>4, <1>5, ZeroIsWritten

---------------------------------------------------------------------------
LEMMA SessionStarts == Init => SessionInductive
<1> SUFFICES ASSUME Init PROVE SessionInductive
  OBVIOUS
<1>1. job \in Jobs /\ job.stream \in Seq(ToSet(job.stream)) /\ Len(job.stream) \in Nat
  BY SessionConstants DEF Init
<1>2. Records
  BY <1>1 DEF Init, Records, Places
<1>3. Piped
  <2>1. pipe.log = <<>> /\ pipe.said = 0 /\ pipe.raw = 0 /\ pipe.shown = 0
    BY DEF Init
  <2>2. Logged(<<>>, 0)
    <3>1. DOMAIN <<>> = {}
      OBVIOUS
    <3> DEFINE line == [i \in {} |-> 0]
    <3>2. line \in [{} -> 1..0] /\ {line[i] : i \in {}} = {}
      OBVIOUS
    <3>3. {l \in 1..0 : Speaks(job.stream[l])} = {}
      OBVIOUS
    <3> HIDE DEF line
    <3>4. QED
      BY <3>1, <3>2, <3>3 DEF Logged
  <2>3. QED
    BY <1>1, <2>1, <2>2 DEF Piped
<1>4. Broken /\ Ended /\ ZeroIsTheClis /\ UsageIsOfAll
  BY DEF Init, Broken, Ended, ZeroIsTheClis, UsageIsOfAll, Nothing
<1>5. QED
  BY <1>2, <1>3, <1>4 DEF SessionInductive

LEMMA SessionStands ==
  ASSUME SessionInductive, [Next]_vars
  PROVE  SessionInductive'
<1>1. Records /\ Piped /\ Broken /\ Ended /\ ZeroIsTheClis /\ UsageIsOfAll
  BY DEF SessionInductive
<1>2. Records' /\ Piped' /\ Broken' /\ Ended' /\ ZeroIsTheClis' /\ UsageIsOfAll'
  BY <1>1, RecordsStand, PipedStands, BrokenStands, EndedStands, ZeroStands, UsageStands
<1>3. QED
  BY <1>2 DEF SessionInductive

LEMMA InductiveSaysExit == SessionInductive => ExitIsTheClis
<1> SUFFICES ASSUME SessionInductive, row.state = "exited" PROVE ExitIsTheClis
  BY DEF ExitIsTheClis
<1>1. Piped /\ Broken /\ Ended /\ ZeroIsTheClis /\ UsageIsOfAll
  BY DEF SessionInductive
<1>2. cli.at # "working"
  BY <1>1 DEF Ended
<1>3. row.code = "0" => Ran /\ cli.code = "0"
  BY <1>1 DEF ZeroIsTheClis
<1>4. ASSUME row.code = "0", ~Unreadable PROVE LogIsWhole
  <2>1. pipe.shown = pipe.said
    BY <1>1, <1>3, <1>4 DEF Ran, Drained, Broken
  <2>2. QED
    BY <1>1, <1>4, <2>1 DEF Piped, UsageIsOfAll, LogIsWhole
<1>5. QED
  BY <1>2, <1>3, <1>4 DEF ExitIsTheClis, Ran, Unreadable

(* What a session leaves is what its CLI left: whatever ends, dies or is   *)
(* cut between the CLI and the core, a 0 in the row is the CLI's own, with *)
(* the log and the usage of all it said (run_session.sh, session.rs        *)
(* classify, scheduler.rs reap_session).                                   *)
THEOREM ExitCodesAreTheClis == Spec => []ExitIsTheClis
<1>1. SessionInductive /\ [Next]_vars => SessionInductive'
  BY SessionStands
<1>2. QED
  BY <1>1, SessionStarts, InductiveSaysExit, PTL DEF Spec

---------------------------------------------------------------------------
(* The gate.                                                               *)

Path(p)   == p = [dir |-> p.dir, slash |-> p.slash] /\ p.slash \in BOOLEAN
Listed(s) == s \in Seq(ToSet(s)) /\ IsInjective(s) /\ \A p \in ToSet(s) : Path(p)

Fresh == [sessions |-> 0, agreed |-> [g \in Graders |-> 0]]

Earned(dir) ==
  /\ hist[dir].sessions = Runs(version.cases[dir])
  /\ \A g \in DOMAIN version.cases[dir].graders : 2 * hist[dir].agreed[g] > Runs(version.cases[dir])

Fields(e) ==
  e = [at |-> e.at, scope |-> e.scope, tag |-> e.tag, static |-> e.static, code |-> e.code, read |-> e.read,
       cases |-> e.cases, run |-> e.run, grader |-> e.grader, yes |-> e.yes, votes |-> e.votes,
       errors |-> e.errors, over |-> e.over]

Evaluations ==
  /\ version \in Proposals \cup Revisions
  /\ edited \in BOOLEAN
  /\ Fields(ev)
  /\ ev.at \in {"idle", "judged", "cases", "run", "grade", "done"}
  /\ ev.code \in {0, 1, 2}
  /\ hist \in [CaseDirs -> [sessions : Nat, agreed : [Graders -> Nat]]]

(* What is not edited is what was read and judged.                         *)
Unedited ==
  /\ ev.at # "idle" => ev.read = version
  /\ ev.at = "idle" => ev.code = 0
  /\ ev.at \in {"idle", "judged"} => hist = [dir \in CaseDirs |-> Fresh]
  /\ ev.at # "idle" /\ ev.code = 0 => version.log.state = "ok"

(* The case that is being run has been graded as often as it has been run. *)
Current ==
  ev.at \in {"run", "grade"} =>
    LET dir == ev.cases[1].dir
        y   == version.cases[dir]
    IN  /\ ev.cases # <<>> /\ ev.cases[1] = Slashed(dir) /\ dir \in DOMAIN version.cases
        /\ Parses(y) /\ ev.run \in 1..Runs(y)
        /\ ev.votes \in [DOMAIN y.graders -> Nat] /\ ev.yes = [g \in DOMAIN y.graders |-> hist[dir].agreed[g]]
        /\ ev.at = "grade" => ev.grader \in DOMAIN y.graders
        /\ ~ev.errors /\ ~ev.over =>
             /\ hist[dir].sessions = IF ev.at = "run" THEN ev.run - 1 ELSE ev.run
             /\ \A g \in DOMAIN y.graders :
                  ev.votes[g] = IF ev.at = "grade" /\ g < ev.grader THEN ev.run ELSE ev.run - 1

Waiting ==
  /\ ev.at \in {"cases", "run", "grade"} => Listed(ev.cases)
  /\ ev.at \in {"cases", "run", "grade"} => \A i \in DOMAIN ev.cases : \A dir \in CaseDirs :
       ev.cases[i] = Slashed(dir) => hist[dir] = Fresh \/ (ev.at # "cases" /\ i = 1)

(* What is due is waiting, or done and earned.                             *)
DueIsEarned ==
  ev.code = 0 /\ ev.scope # "none" =>
    /\ ev.at \in {"cases", "run", "grade"} =>
         \A dir \in Due : Slashed(dir) \in ToSet(ev.cases) \/ Earned(dir)
    /\ ev.at = "done" => \A dir \in Due : Earned(dir)

GateInductive == Evaluations /\ (~edited => Unedited /\ Current /\ Waiting /\ DueIsEarned)

---------------------------------------------------------------------------
(* Numbers, and functions on them.                                         *)

(* Numbers are well-ordered.                                               *)
LEMMA LeastNumber ==
  ASSUME NEW T, T \subseteq Nat, T # {}
  PROVE  \E x \in T : \A y \in T : x <= y
<1> DEFINE U == {1..n : n \in T}
<1>1. U \subseteq FiniteSubsetsOf(Nat) /\ U # {}
  <2>1. ASSUME NEW n \in T PROVE IsFiniteSet(1..n) /\ 1..n \subseteq Nat
    BY FS_Interval
  <2>2. QED
    BY <2>1 DEF FiniteSubsetsOf
<1>2. PICK u \in U : \A v \in U : <<v, u>> \notin StrictSubsetOrdering(Nat)
  <2> HIDE DEF U
  <2> QED
    BY <1>1, WFMin, FS_StrictSubsetOrderingWellFounded
<1>3. PICK x \in T : u = 1..x
  OBVIOUS
<1>4. ASSUME NEW y \in T, ~(x <= y) PROVE FALSE
  <2>1. 1..y \subseteq 1..x /\ x \notin 1..y /\ x \in 1..x
    BY <1>4
  <2>2. <<1..y, u>> \in StrictSubsetOrdering(Nat)
    BY <1>3, <2>1, 1..y # 1..x DEF StrictSubsetOrdering
  <2>3. QED
    BY <1>2, <2>2
<1>5. QED
  BY <1>4

(* What holds at 0 and is handed on holds up to N.                         *)
LEMMA UpTo ==
  ASSUME NEW N \in Nat, NEW G, 0 \in G, \A n \in 1 .. N : n - 1 \in G => n \in G
  PROVE  0 .. N \subseteq G
<1> DEFINE T == {n \in 0 .. N : n \notin G}
<1>1. SUFFICES ASSUME T # {} PROVE FALSE
  OBVIOUS
<1>2. PICK n \in T : \A m \in T : n <= m
  <2>1. T \subseteq Nat
    OBVIOUS
  <2> HIDE DEF T
  <2>2. QED
    BY <1>1, <2>1, LeastNumber
<1>3. n \in 1 .. N /\ n - 1 \in 0 .. N /\ n - 1 \notin T
  BY <1>2
<1>4. QED
  BY <1>2, <1>3

(* A function is there that starts at b and goes on by g.                  *)
GoesOn(f, N, S, b, g) == f \in [0..N -> S] /\ f[0] = b /\ \A n \in 1..N : f[n] = g[n][f[n - 1]]

LEMMA Recursion ==
  ASSUME NEW N \in Nat, NEW S, NEW b \in S, NEW g \in [1..N -> [S -> S]]
  PROVE  \E f : GoesOn(f, N, S, b, g)
<1> DEFINE Reaches(n) == \E f \in [0..n -> S] : f[0] = b /\ \A i \in 1..n : f[i] = g[i][f[i - 1]]
           G == {n \in 0..N : Reaches(n)}
<1>1. 0 \in G
  <2> DEFINE f == [i \in 0..0 |-> b]
  <2>1. f \in [0..0 -> S] /\ f[0] = b /\ 0 \in 0..N /\ 1..0 = {}
    OBVIOUS
  <2> HIDE DEF f
  <2>2. QED
    BY <2>1
<1>2. ASSUME NEW n \in 1..N, n - 1 \in G PROVE n \in G
  <2>1. PICK f \in [0..(n - 1) -> S] : f[0] = b /\ \A i \in 1..(n - 1) : f[i] = g[i][f[i - 1]]
    BY <1>2
  <2> DEFINE h == [i \in 0..n |-> IF i = n THEN g[n][f[n - 1]] ELSE f[i]]
  <2>2. n \in Nat /\ n # 0 /\ n - 1 \in 0..(n - 1) /\ n \in 0..N /\ g[n][f[n - 1]] \in S
    OBVIOUS
  <2>3. \A i \in 0..(n - 1) : f[i] \in S /\ i \in 0..n /\ i # n
    BY <2>2
  <2>4. h \in [0..n -> S] /\ h[0] = b /\ h[n] = g[n][f[n - 1]] /\ \A i \in 0..(n - 1) : h[i] = f[i]
    BY <2>1, <2>2, <2>3
  <2> HIDE DEF h
  <2>5. ASSUME NEW i \in 1..n PROVE h[i] = g[i][h[i - 1]]
    <3>1. i - 1 \in 0..(n - 1)
      BY <2>2
    <3>2. i = n \/ i \in 1..(n - 1)
      BY <2>2
    <3>3. QED
      BY <2>1, <2>2, <2>4, <3>1, <3>2
  <2>6. QED
    BY <2>2, <2>4, <2>5
<1> HIDE DEF G
<1>3. \A n \in 1..N : n - 1 \in G => n \in G
  BY <1>2
<1>4. 0..N \subseteq G
  BY <1>1, <1>3, UpTo
<1>5. N \in G
  BY <1>4
<1>6. QED
  BY <1>5 DEF G, GoesOn

---------------------------------------------------------------------------
(* The cases of a version.                                                 *)

(* What a change may name.                                                 *)
Names(e) == e.eval = <<>> \/ \E p : Path(p) /\ e.eval = <<p>>

LEMMA CaseIsAdded ==
  ASSUME NEW s, Listed(s), NEW e, Names(e)
  PROVE  /\ Listed(AddCase(s, e)) /\ ToSet(s) \subseteq ToSet(AddCase(s, e))
         /\ ToSet(AddCase(s, e)) \subseteq ToSet(s) \cup ToSet(e.eval)
         /\ e.kind # "retire" => ToSet(e.eval) \subseteq ToSet(AddCase(s, e))
<1>1. CASE AddCase(s, e) = s /\ (e.kind # "retire" => ToSet(e.eval) \subseteq ToSet(s))
  BY <1>1
<1>2. CASE e.eval = <<>>
  <2>1. ToSet(e.eval) = {}
    BY <1>2 DEF ToSet
  <2>2. QED
    BY <1>1, <1>2, <2>1 DEF AddCase
<1>3. CASE ToSet(e.eval) \subseteq ToSet(s) \/ e.kind = "retire"
  BY <1>1, <1>3 DEF AddCase
<1>4. ASSUME NEW p, Path(p), e.eval = <<p>>, p \notin ToSet(s), e.kind # "retire"
      PROVE  /\ Listed(AddCase(s, e)) /\ ToSet(AddCase(s, e)) = ToSet(s) \cup {p} /\ ToSet(e.eval) = {p}
  <2>1. ToSet(e.eval) = {p} /\ e.eval[1] = p /\ e.eval # <<>>
    BY <1>4 DEF ToSet
  <2>2. AddCase(s, e) = Append(s, p)
    BY <1>4, <2>1 DEF AddCase
  <2>3. Len(s) \in Nat /\ DOMAIN s = 1..Len(s) /\ \A i \in DOMAIN s : s[i] \in ToSet(s)
    BY DEF Listed, ToSet
  <2>4. /\ DOMAIN Append(s, p) = 1..(Len(s) + 1) /\ Append(s, p)[Len(s) + 1] = p
        /\ \A i \in 1..Len(s) : Append(s, p)[i] = s[i]
    BY <2>3 DEF Listed
  <2>5. \A i \in 1..(Len(s) + 1) : i = Len(s) + 1 \/ i \in 1..Len(s)
    BY <2>3
  <2>6. Len(s) + 1 \in 1..(Len(s) + 1) /\ \A i \in 1..Len(s) : i \in 1..(Len(s) + 1)
    BY <2>3
  <2>7. ToSet(Append(s, p)) = ToSet(s) \cup {p}
    BY <2>3, <2>4, <2>5, <2>6 DEF ToSet
  <2>8. Append(s, p) \in Seq(ToSet(s) \cup {p})
    BY DEF Listed
  <2>9. IsInjective(Append(s, p))
    BY <1>4, <2>3, <2>4, <2>5 DEF IsInjective, Listed
  <2>10. QED
    BY <1>4, <2>1, <2>2, <2>7, <2>8, <2>9 DEF Listed
<1>5. QED
  <2>1. CASE \E p : Path(p) /\ e.eval = <<p>> /\ p \notin ToSet(s) /\ e.kind # "retire"
    BY <1>4, <2>1
  <2>2. CASE \E p : e.eval = <<p>> /\ p \in ToSet(s)
    <3>1. PICK p : e.eval = <<p>> /\ p \in ToSet(s)
      BY <2>2
    <3>2. ToSet(e.eval) = {p}
      BY <3>1 DEF ToSet
    <3>3. QED
      BY <1>3, <3>1, <3>2
  <2>3. QED
    BY <1>2, <1>3, <2>1, <2>2 DEF Names

LEMMA NamedIsListed ==
  ASSUME NEW entries, entries \in Seq(ToSet(entries)), \A e \in ToSet(entries) : Names(e),
         Listed(Baselines)
  PROVE  /\ Listed(Named(entries)) /\ ToSet(Baselines) \subseteq ToSet(Named(entries))
         /\ \A e \in ToSet(entries) : e.kind # "retire" => ToSet(e.eval) \subseteq ToSet(Named(entries))
<1> DEFINE N == Len(entries)
           W == ToSet(Baselines) \cup UNION {ToSet(entries[n].eval) : n \in 1..N}
           S == {s \in Seq(W) : Listed(s)}
           Step(F, n) == IF n = 0 THEN Baselines ELSE AddCase(F[n - 1], entries[n])
           F == CHOOSE F : F = [n \in 0..Len(entries) |-> Step(F, n)]
           g == [n \in 1..N |-> [s \in S |-> AddCase(s, entries[n])]]
<1>1. N \in Nat /\ \A n \in 1..N : entries[n] \in ToSet(entries) /\ Names(entries[n])
  BY DEF ToSet
<1>2. Baselines \in S
  <2>1. Baselines \in Seq(ToSet(Baselines)) /\ ToSet(Baselines) \subseteq W
    BY DEF Listed
  <2> HIDE DEF W
  <2>2. QED
    BY <2>1
<1>3. ASSUME NEW n \in 1..N, NEW s \in S PROVE AddCase(s, entries[n]) \in S
  <2>1. Listed(s) /\ Names(entries[n]) /\ s \in Seq(W) /\ ToSet(entries[n].eval) \subseteq W
    BY <1>1
  <2> HIDE DEF W
  <2>2. ToSet(s) \subseteq W
    BY <2>1 DEF ToSet
  <2>3. Listed(AddCase(s, entries[n])) /\ ToSet(AddCase(s, entries[n])) \subseteq W
    BY <2>1, <2>2, CaseIsAdded
  <2>4. AddCase(s, entries[n]) \in Seq(W)
    BY <2>3 DEF Listed
  <2>5. QED
    BY <2>3, <2>4
<1> HIDE DEF S
<1>4. g \in [1..N -> [S -> S]] /\ \A n \in 1..N : \A s \in S : g[n][s] = AddCase(s, entries[n])
  BY <1>3
<1> HIDE DEF g
<1>5. PICK f : GoesOn(f, N, S, Baselines, g)
  <2>1. N \in Nat /\ g \in [1..N -> [S -> S]]
    BY <1>1, <1>4
  <2> HIDE DEF N
  <2>2. QED
    BY <1>2, <2>1, Recursion
<1>6. \A n \in 0..N : n = 0 \/ (n \in 1..N /\ n - 1 \in 0..N /\ n # 0)
  BY <1>1
<1>7. f = [n \in 0..Len(entries) |-> Step(f, n)]
  <2>1. \A n \in 0..N : f[n] = Step(f, n)
    BY <1>4, <1>5, <1>6 DEF GoesOn
  <2> HIDE DEF Step
  <2>2. QED
    BY <1>5, <2>1 DEF GoesOn
<1>8. F = [n \in 0..Len(entries) |-> Step(F, n)]
  <2> HIDE DEF Step
  <2>1. QED
    BY <1>7
<1> HIDE DEF F
<1>9. Named(entries) = F[N]
  BY DEF Named, F
<1> DEFINE K == {n \in 0..N : /\ Listed(F[n]) /\ ToSet(Baselines) \subseteq ToSet(F[n])
                             /\ \A i \in 1..n : entries[i].kind # "retire" => ToSet(entries[i].eval) \subseteq ToSet(F[n])}
<1>10. 0 \in K
  <2>1. F[0] = Baselines /\ 0 \in 0..N /\ 1..0 = {}
    BY <1>1, <1>8
  <2>2. QED
    BY <2>1
<1>11. ASSUME NEW n \in 1..N, n - 1 \in K PROVE n \in K
  <2>1. F[n] = AddCase(F[n - 1], entries[n])
    BY <1>1, <1>6, <1>8
  <2>2. Listed(F[n - 1]) /\ Names(entries[n])
    BY <1>1, <1>11
  <2>3. /\ Listed(F[n]) /\ ToSet(F[n - 1]) \subseteq ToSet(F[n])
        /\ entries[n].kind # "retire" => ToSet(entries[n].eval) \subseteq ToSet(F[n])
    BY <2>1, <2>2, CaseIsAdded
  <2>4. \A i \in 1..n : i = n \/ i \in 1..(n - 1)
    BY <1>1
  <2>5. n \in 0..N
    BY <1>1
  <2>6. QED
    BY <1>11, <2>3, <2>4, <2>5
<1> HIDE DEF K
<1>12. N \in K
  <2>1. \A n \in 1..N : n - 1 \in K => n \in K
    BY <1>11
  <2> HIDE DEF N
  <2>2. 0..N \subseteq K
    BY <1>1, <1>10, <2>1, UpTo
  <2>3. QED
    BY <1>1, <2>2
<1>13. \A e \in ToSet(entries) : \E n \in 1..N : e = entries[n]
  BY DEF ToSet
<1>14. QED
  BY <1>9, <1>12, <1>13 DEF K

LEMMA ListedTail ==
  ASSUME NEW s, Listed(s), s # <<>>
  PROVE  /\ Listed(Tail(s)) /\ ToSet(s) = ToSet(Tail(s)) \cup {s[1]} /\ s[1] \notin ToSet(Tail(s))
         /\ DOMAIN Tail(s) = 1..(Len(s) - 1) /\ \A i \in DOMAIN Tail(s) : Tail(s)[i] = s[i + 1] /\ i + 1 \in DOMAIN s
         /\ Path(s[1])
<1>1. Len(s) \in Nat \ {0} /\ DOMAIN s = 1..Len(s) /\ \A i \in DOMAIN s : s[i] \in ToSet(s)
  BY DEF Listed, ToSet
<1>2. DOMAIN Tail(s) = 1..(Len(s) - 1) /\ \A i \in 1..(Len(s) - 1) : Tail(s)[i] = s[i + 1]
  BY DEF Listed
<1>3. \A i \in 1..(Len(s) - 1) : i + 1 \in 1..Len(s) /\ i + 1 # 1
  BY <1>1
<1>4. \A i \in 1..Len(s) : i = 1 \/ (i - 1 \in 1..(Len(s) - 1) /\ i = (i - 1) + 1)
  BY <1>1
<1>5. ToSet(s) = ToSet(Tail(s)) \cup {s[1]}
  <2>1. ASSUME NEW x \in ToSet(s) PROVE x \in ToSet(Tail(s)) \cup {s[1]}
    <3>1. PICK i \in 1..Len(s) : x = s[i]
      BY <1>1 DEF ToSet
    <3>2. CASE i # 1
      <4>1. PICK j \in 1..(Len(s) - 1) : i = j + 1
        BY <1>4, <3>2
      <4>2. Tail(s)[j] = x
        BY <1>2, <3>1, <4>1
      <4>3. QED
        BY <1>2, <4>2 DEF ToSet
    <3>3. QED
      BY <3>1, <3>2
  <2>2. ASSUME NEW x \in ToSet(Tail(s)) PROVE x \in ToSet(s)
    BY <1>1, <1>2, <1>3 DEF ToSet
  <2>3. s[1] \in ToSet(s)
    BY <1>1
  <2>4. QED
    BY <2>1, <2>2, <2>3
<1>6. s[1] \notin ToSet(Tail(s))
  BY <1>1, <1>2, <1>3 DEF ToSet, Listed, IsInjective
<1>7. IsInjective(Tail(s))
  <2>1. ASSUME NEW i \in 1..(Len(s) - 1), NEW j \in 1..(Len(s) - 1), Tail(s)[i] = Tail(s)[j] PROVE i = j
    <3>1. i + 1 = j + 1
      BY <1>1, <1>2, <1>3, <2>1 DEF Listed, IsInjective
    <3>2. QED
      BY <3>1
  <2>2. QED
    BY <1>2, <2>1 DEF IsInjective
<1>8. Tail(s) \in Seq(ToSet(Tail(s)))
  <2>1. Tail(s) \in Seq(ToSet(s)) /\ Len(Tail(s)) = Len(s) - 1
    BY DEF Listed
  <2>2. \A i \in 1..(Len(s) - 1) : Tail(s)[i] \in ToSet(Tail(s))
    BY <1>2 DEF ToSet
  <2>3. Len(s) - 1 \in Nat /\ Tail(s) = [i \in 1..(Len(s) - 1) |-> Tail(s)[i]]
    <3>1. \A u \in Seq(ToSet(s)) : u = [i \in 1..Len(u) |-> u[i]]
      OBVIOUS
    <3>2. Tail(s) = [i \in 1..Len(Tail(s)) |-> Tail(s)[i]]
      BY <2>1, <3>1
    <3>3. QED
      BY <1>1, <2>1, <3>2
  <2> DEFINE n == Len(s) - 1
             t == Tail(s)
             T == ToSet(t)
  <2>4. n \in Nat /\ t = [i \in 1..n |-> t[i]] /\ \A i \in 1..n : t[i] \in T
    BY <2>2, <2>3
  <2> HIDE DEF n, t, T
  <2>5. t \in Seq(T)
    BY <2>4
  <2>6. QED
    BY <2>5 DEF t, T
<1>9. QED
  BY <1>1, <1>2, <1>3, <1>5, <1>6, <1>7, <1>8 DEF Listed

LEMMA VersionIs ==
  ASSUME NEW v \in Proposals \cup Revisions, NEW tag
  PROVE  VersionOf(v, tag) \in Seq(ToSet(VersionOf(v, tag))) /\ \A e \in ToSet(VersionOf(v, tag)) : Names(e)
<1> DEFINE sections == v.log.sections
           of == {i \in DOMAIN sections : sections[i].tag = tag}
<1>1. /\ sections \in Seq(ToSet(sections))
      /\ \A x \in ToSet(sections) : x.entries \in Seq(ToSet(x.entries)) /\ \A e \in ToSet(x.entries) : Names(e)
  <2>1. ASSUME NEW x \in ToSet(sections), NEW e \in ToSet(x.entries), e.eval # <<>> PROVE Names(e)
    <3>1. PICK dir, slash : slash \in BOOLEAN /\ e.eval = << [dir |-> dir, slash |-> slash] >>
      BY <2>1, GateConstants
    <3>2. PICK p : p = [dir |-> dir, slash |-> slash]
      OBVIOUS
    <3>3. Path(p)
      BY <3>1, <3>2 DEF Path
    <3>4. QED
      BY <3>1, <3>2, <3>3 DEF Names
  <2>2. QED
    BY <2>1, GateConstants DEF Names
<1>2. CASE of = {}
  <2>1. VersionOf(v, tag) = <<>> /\ ToSet(<<>>) = {}
    BY <1>2 DEF VersionOf, ToSet
  <2>2. QED
    BY <2>1
<1>3. CASE of # {}
  <2>1. of \subseteq Nat
    BY <1>1
  <2>2. \E i \in of : \A j \in of : i <= j
    <3> HIDE DEF of
    <3>1. QED
      BY <1>3, <2>1, LeastNumber
  <2> DEFINE i == CHOOSE i \in of : \A j \in of : i <= j
  <2>3. i \in of
    <3> HIDE DEF of
    <3>1. QED
      BY <2>2
  <2>4. VersionOf(v, tag) = sections[i].entries
    BY <1>3 DEF VersionOf
  <2> HIDE DEF i
  <2>5. sections[i] \in ToSet(sections)
    BY <2>3 DEF ToSet
  <2>6. QED
    BY <1>1, <2>4, <2>5
<1>4. QED
  BY <1>2, <1>3

LEMMA BaselinesAreListed == Listed(Baselines)
<1>1. \A b \in ToSet(Baselines) : Path(b)
  <2>1. ASSUME NEW b \in ToSet(Baselines) PROVE Path(b)
    <3>1. b = [dir |-> b.dir, slash |-> TRUE]
      BY GateConstants
    <3>2. b.slash = TRUE
      BY <3>1
    <3>3. QED
      BY <3>1, <3>2 DEF Path
  <2>2. QED
    BY <2>1
<1>2. QED
  BY <1>1, GateConstants DEF Listed

LEMMA CasesAreListed ==
  ASSUME NEW v \in Proposals \cup Revisions, NEW scope, NEW tag
  PROVE  /\ Listed(Cases(v, scope, tag))
         /\ scope # "changed" => \A dir \in DOMAIN v.cases : Slashed(dir) \in ToSet(Cases(v, scope, tag))
         /\ scope = "changed" =>
              /\ ToSet(Baselines) \subseteq ToSet(Cases(v, scope, tag))
              /\ v.log.state = "ok" => \A e \in ToSet(VersionOf(v, tag)) :
                   e.kind # "retire" => ToSet(e.eval) \subseteq ToSet(Cases(v, scope, tag))
<1>1. CASE scope = "changed"
  <2>1. PICK entries : entries = IF v.log.state = "ok" THEN VersionOf(v, tag) ELSE <<>>
    OBVIOUS
  <2>2. Cases(v, scope, tag) = Named(entries)
    BY <1>1, <2>1 DEF Cases, ChangedCases
  <2>3. entries \in Seq(ToSet(entries)) /\ \A e \in ToSet(entries) : Names(e)
    <3>1. <<>> \in Seq(ToSet(<<>>)) /\ ToSet(<<>>) = {}
      BY DEF ToSet
    <3>2. QED
      BY <2>1, <3>1, VersionIs
  <2>4. QED
    BY <1>1, <2>1, <2>2, <2>3, NamedIsListed, BaselinesAreListed
<1>2. CASE scope # "changed"
  <2> DEFINE S == {Slashed(dir) : dir \in DOMAIN v.cases}
             m == [dir \in DOMAIN v.cases |-> Slashed(dir)]
  <2>1. m \in Surjection(DOMAIN v.cases, S)
    BY DEF Surjection
  <2>2. IsFiniteSet(DOMAIN v.cases)
    BY GateConstants
  <2>3. Cases(v, scope, tag) = SetToSeq(S)
    BY <1>2 DEF Cases, AllCases
  <2>4. \A p \in S : Path(p)
    <3>1. ASSUME NEW dir PROVE Path(Slashed(dir))
      <4>1. Slashed(dir).dir = dir /\ Slashed(dir).slash = TRUE
        BY DEF Slashed
      <4>2. QED
        BY <4>1 DEF Slashed, Path
    <3>2. QED
      BY <3>1
  <2>5. \A dir \in DOMAIN v.cases : Slashed(dir) \in S
    OBVIOUS
  <2> HIDE DEF m, S
  <2>6. IsFiniteSet(S)
    BY <2>1, <2>2, FS_Surjection
  <2>7. Cardinality(S) \in Nat /\ ExistsBijection(1..Cardinality(S), S)
    BY <2>6, FS_CardinalityType
  <2>8. PICK b : b \in Bijection(1..Cardinality(S), S)
    BY <2>7 DEF ExistsBijection
  <2>9. b \in [1..Cardinality(S) -> S] /\ IsInjective(b)
    BY <2>8 DEF Bijection, Injection
  <2> DEFINE f == SetToSeq(S)
  <2>10. f \in [1..Cardinality(S) -> S] /\ IsInjective(f)
    BY <2>9 DEF SetToSeq
  <2> HIDE DEF f
  <2>11. IsFiniteSet(1..Cardinality(S)) /\ Cardinality(1..Cardinality(S)) = Cardinality(S)
    <3>1. 1 \in Int /\ Cardinality(S) \in Int /\ (1 > Cardinality(S) => Cardinality(S) = 0)
      BY <2>7
    <3>2. QED
      BY <2>7, <3>1, FS_Interval
  <2>12. f \in Surjection(1..Cardinality(S), S)
    <3>1. f \in Injection(1..Cardinality(S), S)
      BY <2>10 DEF Injection
    <3>2. QED
      BY <2>6, <2>11, <3>1, FS_Injection
  <2>13. ToSet(f) = S
    BY <2>10, <2>12 DEF ToSet, Surjection
  <2>14. f \in Seq(S)
    BY <2>7, <2>10
  <2>15. QED
    BY <1>2, <2>3, <2>4, <2>5, <2>10, <2>13, <2>14 DEF Listed, f
<1>3. QED
  BY <1>1, <1>2

---------------------------------------------------------------------------
(* What a step does to an evaluation.                                      *)

Same(e, n) == n.scope = e.scope /\ n.tag = e.tag /\ n.read = e.read /\ n.cases = e.cases /\ n.code = e.code

LEMMA RunIsNext ==
  ASSUME NEW e, Fields(e)
  PROVE  /\ Fields(NextRun(e))
         /\ NextRun(e).scope = e.scope /\ NextRun(e).tag = e.tag /\ NextRun(e).read = e.read
         /\ e.run < Runs(Yaml) =>
              /\ NextRun(e).at = "run" /\ NextRun(e).run = e.run + 1 /\ Same(e, NextRun(e))
              /\ NextRun(e).yes = e.yes /\ NextRun(e).votes = e.votes
              /\ NextRun(e).errors = e.errors /\ NextRun(e).over = e.over
         /\ ~(e.run < Runs(Yaml)) =>
              /\ NextRun(e).at = "cases" /\ NextRun(e).cases = Tail(e.cases)
              /\ NextRun(e).code = IF CasePassed(e) THEN e.code ELSE Worse(e.code, 1)
<1>1. CASE e.run < Runs(Yaml)
  <2>1. NextRun(e) = [e EXCEPT !.at = "run", !.run = e.run + 1]
    BY <1>1 DEF NextRun
  <2>2. QED
    BY <1>1, <2>1 DEF Fields, Same
<1>2. CASE ~(e.run < Runs(Yaml))
  <2> DEFINE code == IF CasePassed(e) THEN e.code ELSE Worse(e.code, 1)
  <2>1. NextRun(e) = [e EXCEPT !.at = "cases", !.cases = Tail(e.cases), !.code = code]
    BY <1>2 DEF NextRun
  <2> HIDE DEF code
  <2>2. QED
    BY <1>2, <2>1 DEF Fields, code
<1>3. QED
  BY <1>1, <1>2

LEMMA GraderIsNext ==
  ASSUME NEW e, Fields(e)
  PROVE  /\ e.grader < Len(Yaml.graders) =>
              /\ NextGrader(e) = [e EXCEPT !.grader = e.grader + 1] /\ Fields(NextGrader(e))
              /\ NextGrader(e).at = e.at /\ NextGrader(e).grader = e.grader + 1 /\ Same(e, NextGrader(e))
              /\ NextGrader(e).run = e.run /\ NextGrader(e).yes = e.yes /\ NextGrader(e).votes = e.votes
              /\ NextGrader(e).errors = e.errors /\ NextGrader(e).over = e.over
         /\ ~(e.grader < Len(Yaml.graders)) => NextGrader(e) = NextRun(e)
BY DEF NextGrader, Fields, Same

LEMMA GateNextIs ==
  ASSUME GateNext
  PROVE  \/ \E scope, tag : Evaluate(scope, tag)
         \/ BeginBehaviour \/ TakeCase \/ Session \/ Grade \/ Finish \/ Edit
BY DEF GateNext

(* What a run of a case comes to; what the steps of it do.                 *)
Ungraded(e) == Fields(e) /\ Same(ev, e) /\ e.run = ev.run /\ e.grader = ev.grader

LEMMA SessionIs ==
  ASSUME Fields(ev), Session
  PROVE  /\ UNCHANGED <<version, edited>> /\ ev.at = "run"
         /\ \/ /\ hist' = hist
               /\ \E e : /\ Ungraded(e) /\ e.errors /\ e.yes = ev.yes /\ e.votes = ev.votes
                        /\ ev' = NextRun(e)
            \/ \E over \in BOOLEAN :
                 /\ hist' = [hist EXCEPT ![ev.cases[1].dir].sessions = IF over THEN @ ELSE @ + 1]
                 /\ Fields(ev') /\ Same(ev, ev') /\ ev'.at = "grade" /\ ev'.grader = 1 /\ ev'.run = ev.run
                 /\ ev'.yes = ev.yes /\ ev'.votes = ev.votes /\ ev'.errors = ev.errors
                 /\ ev'.over = (ev.over \/ over)
<1>1. UNCHANGED <<version, edited>> /\ ev.at = "run"
  BY DEF Session
<1>2. CASE ev' = NextRun([ev EXCEPT !.errors = TRUE]) /\ UNCHANGED hist
  <2>1. PICK e : e = [ev EXCEPT !.errors = TRUE]
    OBVIOUS
  <2>2. Ungraded(e) /\ e.errors /\ e.yes = ev.yes /\ e.votes = ev.votes
    BY <2>1 DEF Fields, Ungraded, Same
  <2>3. QED
    BY <1>1, <1>2, <2>1, <2>2
<1>3. CASE \E over \in BOOLEAN :
             /\ ev' = [ev EXCEPT !.at = "grade", !.grader = 1, !.over = @ \/ over]
             /\ hist' = [hist EXCEPT ![ev.cases[1].dir].sessions = IF over THEN @ ELSE @ + 1]
  <2>1. PICK over \in BOOLEAN :
             /\ ev' = [ev EXCEPT !.at = "grade", !.grader = 1, !.over = @ \/ over]
             /\ hist' = [hist EXCEPT ![ev.cases[1].dir].sessions = IF over THEN @ ELSE @ + 1]
    BY <1>3
  <2>2. /\ Fields(ev') /\ Same(ev, ev') /\ ev'.at = "grade" /\ ev'.grader = 1 /\ ev'.run = ev.run
        /\ ev'.yes = ev.yes /\ ev'.votes = ev.votes /\ ev'.errors = ev.errors
        /\ ev'.over = (ev.over \/ over)
    BY <2>1 DEF Fields, Same
  <2>3. QED
    BY <1>1, <2>1, <2>2
<1>4. QED
  BY <1>2, <1>3 DEF Session

LEMMA GradeIs ==
  ASSUME Fields(ev), Grade
  PROVE  /\ UNCHANGED <<version, edited>> /\ ev.at = "grade"
         /\ \E e : /\ Ungraded(e) /\ e.at = "grade" /\ e.over = ev.over /\ ev' = NextGrader(e)
                  /\ \/ hist' = hist /\ e.errors /\ e.yes = ev.yes /\ e.votes = ev.votes
                     \/ \E yes \in BOOLEAN :
                          /\ e.votes = [ev.votes EXCEPT ![ev.grader] = @ + 1] /\ e.errors = ev.errors
                          /\ e.yes = [ev.yes EXCEPT ![ev.grader] = IF yes THEN @ + 1 ELSE @]
                          /\ hist' = [hist EXCEPT ![ev.cases[1].dir].agreed[ev.grader] = IF yes THEN @ + 1 ELSE @]
<1>1. UNCHANGED <<version, edited>> /\ ev.at = "grade"
  BY DEF Grade
<1>2. CASE ev' = NextGrader([ev EXCEPT !.errors = TRUE]) /\ UNCHANGED hist
  <2>1. PICK e : e = [ev EXCEPT !.errors = TRUE]
    OBVIOUS
  <2>2. Ungraded(e) /\ e.errors /\ e.yes = ev.yes /\ e.votes = ev.votes /\ e.at = "grade" /\ e.over = ev.over
    BY <1>1, <2>1 DEF Fields, Ungraded, Same
  <2>3. QED
    BY <1>1, <1>2, <2>1, <2>2
<1>3. CASE \E answer \in Answers :
             /\ ev' = NextGrader([ev EXCEPT !.votes[ev.grader] = @ + 1,
                                            !.yes[ev.grader] = IF Yes(answer) THEN @ + 1 ELSE @])
             /\ hist' = [hist EXCEPT ![ev.cases[1].dir].agreed[ev.grader] =
                           IF answer # <<>> /\ answer[Len(answer)] = "1" THEN @ + 1 ELSE @]
  <2>1. PICK answer \in Answers :
             /\ ev' = NextGrader([ev EXCEPT !.votes[ev.grader] = @ + 1,
                                            !.yes[ev.grader] = IF Yes(answer) THEN @ + 1 ELSE @])
             /\ hist' = [hist EXCEPT ![ev.cases[1].dir].agreed[ev.grader] =
                           IF answer # <<>> /\ answer[Len(answer)] = "1" THEN @ + 1 ELSE @]
    BY <1>3
  <2>2. Yes(answer) <=> answer # <<>> /\ answer[Len(answer)] = "1"
    BY DEF Yes, Last
  <2>3. PICK yes \in BOOLEAN : yes = Yes(answer)
    BY DEF Yes
  <2>4. PICK e : e = [ev EXCEPT !.votes[ev.grader] = @ + 1, !.yes[ev.grader] = IF yes THEN @ + 1 ELSE @]
    OBVIOUS
  <2>5. ev' = NextGrader(e)
    BY <2>1, <2>3, <2>4
  <2>6. hist' = [hist EXCEPT ![ev.cases[1].dir].agreed[ev.grader] = IF yes THEN @ + 1 ELSE @]
    BY <2>1, <2>2, <2>3
  <2>7. /\ Ungraded(e) /\ e.at = "grade" /\ e.over = ev.over /\ e.errors = ev.errors
        /\ e.votes = [ev.votes EXCEPT ![ev.grader] = @ + 1]
        /\ e.yes = [ev.yes EXCEPT ![ev.grader] = IF yes THEN @ + 1 ELSE @]
    BY <1>1, <2>4 DEF Fields, Ungraded, Same
  <2>8. QED
    BY <1>1, <2>5, <2>6, <2>7
<1>4. QED
  BY <1>2, <1>3 DEF Grade

LEMMA RunsIs ==
  ASSUME NEW y, Parses(y)
  PROVE  Runs(y) \in Nat
<1>1. CASE Given(y, "runs")
  <2>1. FieldOf(y, "runs") \in {"0", "1", "2", "3"}
    BY <1>1 DEF Parses, Num
  <2>2. Num[FieldOf(y, "runs")] \in Nat
    BY <2>1 DEF Num
  <2>3. QED
    BY <1>1, <2>2 DEF Runs, Number
<1>2. CASE ~Given(y, "runs")
  BY <1>2 DEF Runs, Number
<1>3. QED
  BY <1>1, <1>2

Histories == [CaseDirs -> [sessions : Nat, agreed : [Graders -> Nat]]]

LEMMA HistoryIs ==
  ASSUME NEW h \in Histories, NEW dir, NEW g, NEW some \in BOOLEAN, NEW n,
         \/ n = [h EXCEPT ![dir].sessions = IF some THEN @ ELSE @ + 1]
         \/ n = [h EXCEPT ![dir].agreed[g] = IF some THEN @ + 1 ELSE @]
  PROVE  n \in Histories
<1>1. CASE dir \in CaseDirs
  <2>1. h[dir].sessions \in Nat /\ h[dir].agreed \in [Graders -> Nat]
    BY <1>1 DEF Histories
  <2>2. [h[dir] EXCEPT !.sessions = IF some THEN @ ELSE @ + 1] \in [sessions : Nat, agreed : [Graders -> Nat]]
    BY <1>1, <2>1 DEF Histories
  <2>3. [h[dir].agreed EXCEPT ![g] = IF some THEN @ + 1 ELSE @] \in [Graders -> Nat]
    <3>1. CASE g \in Graders
      BY <2>1, <3>1
    <3>2. CASE g \notin Graders
      BY <2>1, <3>2
    <3>3. QED
      BY <3>1, <3>2
  <2>4. [h[dir] EXCEPT !.agreed[g] = IF some THEN @ + 1 ELSE @] \in [sessions : Nat, agreed : [Graders -> Nat]]
    BY <1>1, <2>1, <2>3 DEF Histories
  <2>5. QED
    BY <1>1, <2>2, <2>4 DEF Histories
<1>2. CASE dir \notin CaseDirs
  BY <1>2 DEF Histories
<1>3. QED
  BY <1>1, <1>2

LEMMA EvaluationsStand ==
  ASSUME Evaluations, [GateNext]_gateVars
  PROVE  Evaluations'
<1>1. Fields(ev) /\ hist \in Histories
  BY DEF Evaluations, Histories
<1>2. ASSUME hist' \in Histories, Fields(ev'), ev'.at \in {"idle", "judged", "cases", "run", "grade", "done"},
             ev'.code \in {0, 1, 2}, UNCHANGED <<version, edited>>
      PROVE  Evaluations'
  <2>1. Fields(ev)' /\ UNCHANGED <<CaseDirs, Graders>>
    BY <1>2 DEF Fields, CaseDirs, Graders
  <2>2. QED
    BY <1>2, <2>1 DEF Evaluations, Histories
<1>3. ASSUME NEW e, Ungraded(e), ev' = NextRun(e) PROVE Fields(ev') /\ ev'.at \in {"run", "cases"} /\ ev'.code \in {0, 1, 2}
  <2>1. Fields(e) /\ e.code \in {0, 1, 2}
    BY <1>3 DEF Ungraded, Same, Evaluations
  <2>2. QED
    BY <1>3, <2>1, RunIsNext DEF Same, Worse
<1>4. CASE UNCHANGED gateVars
  BY <1>1, <1>2, <1>4 DEF gateVars, Evaluations
<1>5. ASSUME NEW scope, NEW tag, Evaluate(scope, tag) PROVE Evaluations'
  <2> DEFINE code == IF ~version.readable THEN 2 ELSE IF Failed(version) THEN 1 ELSE 0
             at == IF scope = "none" THEN "done" ELSE "judged"
  <2>1. /\ ev' = [ev EXCEPT !.at = at, !.scope = scope, !.tag = tag, !.static = code, !.code = code, !.read = version]
        /\ UNCHANGED <<version, edited, hist>>
    BY <1>5 DEF Evaluate
  <2>2. code \in {0, 1, 2} /\ at \in {"done", "judged"}
    OBVIOUS
  <2> HIDE DEF code, at
  <2>3. Fields(ev') /\ ev'.at = at /\ ev'.code = code
    BY <1>1, <2>1 DEF Fields
  <2>4. QED
    BY <1>1, <1>2, <2>1, <2>2, <2>3
<1>6. CASE BeginBehaviour
  BY <1>1, <1>2, <1>6 DEF BeginBehaviour, Worse, Fields, Evaluations
<1>7. CASE TakeCase
  <2>1. UNCHANGED <<version, edited, hist>>
    BY <1>7 DEF TakeCase
  <2>2. \/ ev' = [ev EXCEPT !.cases = Tail(@)]
        \/ ev' = [ev EXCEPT !.cases = Tail(@), !.code = Worse(@, 1)]
        \/ \E yes, votes : ev' = [ev EXCEPT !.at = "run", !.run = 1, !.errors = FALSE, !.over = FALSE,
                                         !.yes = yes, !.votes = votes]
    BY <1>7 DEF TakeCase
  <2>3. Fields(ev') /\ ev'.at \in {ev.at, "run"} /\ ev'.code \in {0, 1, 2}
    BY <1>1, <2>2 DEF Fields, Worse, Evaluations
  <2>4. QED
    BY <1>1, <1>2, <2>1, <2>3 DEF Evaluations
<1>8. CASE Session
  <2>1. UNCHANGED <<version, edited>>
    BY <1>1, <1>8, SessionIs
  <2>2. hist' \in Histories
    <3>1. CASE hist' = hist
      BY <1>1, <3>1
    <3>2. CASE \E over \in BOOLEAN : hist' = [hist EXCEPT ![ev.cases[1].dir].sessions = IF over THEN @ ELSE @ + 1]
      <4>1. PICK over \in BOOLEAN : hist' = [hist EXCEPT ![ev.cases[1].dir].sessions = IF over THEN @ ELSE @ + 1]
        BY <3>2
      <4>2. PICK n, dir : n = hist' /\ dir = ev.cases[1].dir
        OBVIOUS
      <4>3. n = [hist EXCEPT ![dir].sessions = IF over THEN @ ELSE @ + 1]
        BY <4>1, <4>2
      <4>4. n \in Histories
        BY <1>1, <4>3, HistoryIs
      <4>5. QED
        BY <4>2, <4>4
    <3>3. QED
      BY <1>1, <1>8, <3>1, <3>2, SessionIs
  <2>3. Fields(ev') /\ ev'.at \in {"run", "cases", "grade"} /\ ev'.code \in {0, 1, 2}
    BY <1>1, <1>3, <1>8, SessionIs DEF Same, Evaluations
  <2>4. QED
    BY <1>2, <2>1, <2>2, <2>3
<1>9. CASE Grade
  <2>1. UNCHANGED <<version, edited>>
    BY <1>1, <1>9, GradeIs
  <2>2. hist' \in Histories
    <3>1. CASE hist' = hist
      BY <1>1, <3>1
    <3>2. CASE \E yes \in BOOLEAN :
                 hist' = [hist EXCEPT ![ev.cases[1].dir].agreed[ev.grader] = IF yes THEN @ + 1 ELSE @]
      <4>1. PICK yes \in BOOLEAN :
              hist' = [hist EXCEPT ![ev.cases[1].dir].agreed[ev.grader] = IF yes THEN @ + 1 ELSE @]
        BY <3>2
      <4>2. PICK n, dir, g : n = hist' /\ dir = ev.cases[1].dir /\ g = ev.grader
        OBVIOUS
      <4>3. n = [hist EXCEPT ![dir].agreed[g] = IF yes THEN @ + 1 ELSE @]
        BY <4>1, <4>2
      <4>4. n \in Histories
        BY <1>1, <4>3, HistoryIs
      <4>5. QED
        BY <4>2, <4>4
    <3>3. QED
      BY <1>1, <1>9, <3>1, <3>2, GradeIs
  <2>3. PICK e : Ungraded(e) /\ e.at = "grade" /\ ev' = NextGrader(e)
    BY <1>1, <1>9, GradeIs
  <2>4. Fields(ev') /\ ev'.at \in {"run", "cases", "grade"} /\ ev'.code \in {0, 1, 2}
    <3>1. CASE e.grader < Len(Yaml.graders)
      BY <2>3, <3>1, GraderIsNext DEF Ungraded, Same, Evaluations
    <3>2. CASE ~(e.grader < Len(Yaml.graders))
      BY <1>3, <2>3, <3>2, GraderIsNext DEF Ungraded
    <3>3. QED
      BY <3>1, <3>2
  <2>5. QED
    BY <1>2, <2>1, <2>2, <2>4
<1>10. CASE Finish
  BY <1>1, <1>2, <1>10 DEF Finish, Fields, Evaluations
<1>11. CASE Edit
  BY <1>1, <1>11 DEF Edit, Fields, Evaluations
<1>12. QED
  BY <1>4, <1>5, <1>6, <1>7, <1>8, <1>9, <1>10, <1>11, GateNextIs

---------------------------------------------------------------------------
(* The case that is run.                                                   *)

Open == ev.at \in {"run", "grade"}

LEMMA HeadIs ==
  ASSUME Evaluations, Unedited, Current, Waiting, Open
  PROVE  LET dir == ev.cases[1].dir
             y   == version.cases[dir]
         IN  /\ ev.cases # <<>> /\ Listed(ev.cases) /\ ev.cases[1] = Slashed(dir) /\ ev.cases[1] \in ToSet(ev.cases)
             /\ dir \in CaseDirs /\ Yaml = y /\ Runs(y) \in Nat
             /\ DOMAIN y.graders = 1..Len(y.graders) /\ Len(y.graders) \in Nat \ {0} /\ DOMAIN y.graders \subseteq Graders
<1> DEFINE dir == ev.cases[1].dir
           y   == version.cases[dir]
<1>1. /\ ev.cases # <<>> /\ ev.cases[1] = Slashed(dir) /\ dir \in DOMAIN version.cases /\ Parses(y)
      /\ Listed(ev.cases) /\ ev.read = version /\ version \in Proposals \cup Revisions
  BY DEF Evaluations, Unedited, Current, Waiting, Open
<1>2. ev.cases[1] \in ToSet(ev.cases)
  BY <1>1, ListedTail
<1>3. dir \in CaseDirs /\ DOMAIN y.graders \subseteq Graders
  BY <1>1 DEF CaseDirs, Graders
<1>4. y.graders \in Seq(ToSet(y.graders)) /\ y.graders # <<>>
  BY <1>1, GateConstants DEF Parses
<1>5. QED
  BY <1>1, <1>2, <1>3, <1>4, RunsIs DEF Yaml

Elsewhere == \A d \in CaseDirs : d # ev.cases[1].dir => hist'[d] = hist[d]
Judged == Unedited /\ Current /\ Waiting /\ DueIsEarned

LEMMA DueIs ==
  ASSUME Evaluations, version' = version, ev'.scope = ev.scope, ev'.tag = ev.tag
  PROVE  Due' = Due /\ Due \subseteq DOMAIN version.cases /\ DOMAIN version.cases \subseteq CaseDirs
         /\ UNCHANGED <<CaseDirs, Graders, Fresh>>
<1>1. Due' = Due /\ Due \subseteq DOMAIN version.cases
  BY DEF Due, VersionOf, Slashed
<1>2. DOMAIN version.cases \subseteq CaseDirs
  BY DEF Evaluations, CaseDirs
<1>3. QED
  BY <1>1, <1>2 DEF CaseDirs, Graders, Fresh

(* While a case is open, the others are left alone.                        *)
LEMMA OthersStay ==
  ASSUME Evaluations, Judged, Open, Open', Same(ev, ev'), version' = version, Elsewhere
  PROVE  Unedited' /\ Waiting' /\ DueIsEarned'
<1>1. /\ ev.cases # <<>> /\ Listed(ev.cases) /\ ev.cases[1] = Slashed(ev.cases[1].dir)
      /\ ev.cases[1] \in ToSet(ev.cases) /\ ev.cases[1].dir \in CaseDirs
  BY HeadIs DEF Judged
<1>2. /\ Due' = Due /\ Due \subseteq DOMAIN version.cases /\ DOMAIN version.cases \subseteq CaseDirs
      /\ UNCHANGED <<CaseDirs, Graders, Fresh>>
  BY DueIs DEF Same
<1>3. Unedited'
  BY DEF Unedited, Judged, Open, Same
<1>4. Waiting'
  <2>1. Listed(ev.cases)'
    BY <1>1 DEF Listed, Same, Path
  <2>2. ASSUME NEW i \in DOMAIN ev.cases, NEW dir \in CaseDirs, ev.cases[i] = Slashed(dir), i # 1
        PROVE  hist'[dir] = Fresh
    <3>1. hist[dir] = Fresh
      BY <2>2 DEF Judged, Waiting, Open
    <3>2. 1 \in DOMAIN ev.cases
      BY <1>1 DEF Listed
    <3>3. dir # ev.cases[1].dir
      BY <1>1, <2>2, <3>2 DEF Listed, IsInjective
    <3>4. QED
      BY <3>1, <3>3 DEF Elsewhere
  <2>3. QED
    BY <1>2, <2>1, <2>2 DEF Waiting, Open, Same, Slashed
<1>5. DueIsEarned'
  <2>1. ASSUME ev'.code = 0, ev'.scope # "none", NEW dir \in Due, Slashed(dir) \notin ToSet(ev.cases)
        PROVE  Earned(dir)'
    <3>1. Earned(dir)
      BY <2>1 DEF Judged, DueIsEarned, Open, Same
    <3>2. hist'[dir] = hist[dir]
      BY <1>1, <1>2, <2>1 DEF Elsewhere
    <3>3. QED
      BY <3>1, <3>2 DEF Earned, Runs, Number, Given, FieldOf
  <2>2. QED
    BY <1>2, <2>1 DEF DueIsEarned, Open, Same, Slashed, ToSet
<1>6. QED
  BY <1>3, <1>4, <1>5

(* A case when one more run of it is over.                                 *)
RunOver(e, dir, y) ==
  /\ Ungraded(e) /\ dir = ev.cases[1].dir /\ y = version.cases[dir]
  /\ e.votes \in [DOMAIN y.graders -> Nat]
  /\ e.yes = [g \in DOMAIN y.graders |-> hist'[dir].agreed[g]]
  /\ ~e.errors /\ ~e.over =>
       hist'[dir].sessions = ev.run /\ \A g \in DOMAIN y.graders : e.votes[g] = ev.run

(* After a run, the next; or the case has passed or not, and the others    *)
(* wait on.                                                                *)
LEMMA RunEnds ==
  ASSUME Evaluations, Evaluations', Judged, Open, version' = version, Elsewhere,
         NEW e, NEW dir, NEW y, RunOver(e, dir, y), ev' = NextRun(e)
  PROVE  Judged'
<1>1. /\ ev.cases # <<>> /\ Listed(ev.cases) /\ ev.cases[1] = Slashed(dir)
      /\ ev.cases[1] \in ToSet(ev.cases) /\ dir \in CaseDirs /\ Yaml = y /\ Runs(y) \in Nat
      /\ DOMAIN y.graders \subseteq Graders
  BY HeadIs DEF Judged, RunOver
<1>2. /\ dir \in DOMAIN version.cases /\ Parses(y) /\ ev.run \in 1..Runs(y) /\ dir = ev.cases[1].dir
  BY DEF Judged, Current, Open, RunOver
<1>3. /\ ev'.scope = ev.scope /\ ev'.tag = ev.tag /\ ev'.read = ev.read
      /\ Fields(e) /\ e.run = ev.run /\ Same(ev, e)
  BY RunIsNext DEF Ungraded, Same, RunOver
<1>4. /\ Due' = Due /\ Due \subseteq DOMAIN version.cases /\ DOMAIN version.cases \subseteq CaseDirs
      /\ UNCHANGED <<CaseDirs, Graders, Fresh>>
  BY <1>3, DueIs
<1>5. CASE ev.run < Runs(y)
  <2>1. /\ ev'.at = "run" /\ ev'.run = ev.run + 1 /\ Same(ev, ev')
        /\ ev'.yes = e.yes /\ ev'.votes = e.votes /\ ev'.errors = e.errors /\ ev'.over = e.over
    <3>1. e.run < Runs(Yaml)
      BY <1>1, <1>3, <1>5
    <3>2. QED
      BY <1>3, <3>1, RunIsNext DEF Same
  <2>2. Unedited' /\ Waiting' /\ DueIsEarned'
    BY <2>1, OthersStay DEF Open
  <2>3. Current'
    <3>1. /\ ev'.cases = ev.cases /\ ev'.run \in 1..Runs(y) /\ (ev'.run) - 1 = ev.run
      BY <1>1, <1>2, <1>5, <2>1 DEF Same
    <3>2. Parses(y)' /\ Runs(y)' = Runs(y) /\ Slashed(dir)' = Slashed(dir)
      BY <1>2 DEF Parses, Runs, Number, Given, FieldOf, Slashed
    <3>3. QED
      BY <1>1, <1>2, <2>1, <3>1, <3>2 DEF Current, RunOver
  <2>4. QED
    BY <2>2, <2>3 DEF Judged
<1>6. CASE ~(ev.run < Runs(y))
  <2>1. /\ ev'.at = "cases" /\ ev'.cases = Tail(ev.cases)
        /\ ev'.code = IF CasePassed(e) THEN ev.code ELSE Worse(ev.code, 1)
    <3>1. ~(e.run < Runs(Yaml))
      BY <1>1, <1>3, <1>6
    <3>2. QED
      BY <1>3, <3>1, RunIsNext DEF Same
  <2>2. ev'.code = 0 => CasePassed(e) /\ ev.code = 0
    BY <2>1 DEF Worse, Evaluations
  <2> DEFINE rest == Tail(ev.cases)
  <2>3. /\ Listed(rest) /\ ToSet(ev.cases) = ToSet(rest) \cup {ev.cases[1]} /\ ev.cases[1] \notin ToSet(rest)
        /\ \A i \in DOMAIN rest : rest[i] = ev.cases[i + 1] /\ i + 1 \in DOMAIN ev.cases /\ i \in Nat \ {0}
    BY <1>1, ListedTail
  <2>4. \A i \in DOMAIN rest : rest[i] \in ToSet(rest)
    BY DEF ToSet
  <2> HIDE DEF rest
  <2>5. Unedited'
    BY <1>3, <2>1, <2>2 DEF Unedited, Judged, Open
  <2>6. Current'
    BY <2>1 DEF Current
  <2>7. Waiting'
    <3>1. ASSUME NEW i \in DOMAIN rest, NEW d \in CaseDirs, rest[i] = Slashed(d) PROVE hist'[d] = Fresh
      <4>1. i + 1 \in DOMAIN ev.cases /\ ev.cases[i + 1] = Slashed(d) /\ i + 1 # 1
        BY <2>3, <3>1
      <4>2. hist[d] = Fresh
        BY <4>1 DEF Judged, Waiting, Open
      <4>3. d # dir
        BY <1>1, <2>3, <2>4, <3>1
      <4>4. QED
        BY <1>2, <4>2, <4>3 DEF Elsewhere
    <3>2. QED
      BY <1>4, <2>1, <2>3, <3>1 DEF Waiting, Listed, Path, Slashed, rest
  <2>8. DueIsEarned'
    <3>1. ASSUME ev'.code = 0, ev'.scope # "none", NEW d \in Due, Slashed(d) \notin ToSet(rest)
          PROVE  Earned(d)'
      <4>1. CASE d = dir
        <5>1. ~e.errors /\ ~e.over /\ \A g \in DOMAIN y.graders : 2 * e.yes[g] > e.votes[g]
          BY <2>2, <3>1 DEF CasePassed, RunOver
        <5>2. ev.run = Runs(y)
          BY <1>1, <1>2, <1>6
        <5>3. hist'[dir].sessions = Runs(y) /\ \A g \in DOMAIN y.graders : 2 * hist'[dir].agreed[g] > Runs(y)
          BY <5>1, <5>2 DEF RunOver
        <5>4. QED
          BY <4>1, <5>3 DEF RunOver, Earned, Runs, Number, Given, FieldOf
      <4>2. CASE d # dir
        <5>1. Slashed(d) # ev.cases[1]
          BY <1>1, <4>2 DEF Slashed
        <5>2. Earned(d)
          BY <1>3, <2>2, <2>3, <3>1, <5>1 DEF Judged, DueIsEarned, Open
        <5>3. hist'[d] = hist[d]
          BY <1>2, <1>4, <3>1, <4>2 DEF Elsewhere
        <5>4. QED
          BY <5>2, <5>3 DEF Earned, Runs, Number, Given, FieldOf
      <4>3. QED
        BY <4>1, <4>2
    <3>2. QED
      BY <1>4, <2>1, <3>1 DEF DueIsEarned, Slashed, ToSet, rest
  <2>9. QED
    BY <2>5, <2>6, <2>7, <2>8 DEF Judged
<1>7. QED
  BY <1>5, <1>6

LEMMA JudgedByNothing ==
  ASSUME Judged, UNCHANGED gateVars
  PROVE  Judged'
<1>1. UNCHANGED <<version, ev, hist, CaseDirs, Graders, Fresh>>
  BY DEF gateVars, CaseDirs, Graders, Fresh
<1>2. Unedited'
  BY <1>1 DEF Judged, Unedited
<1>3. Current'
  BY <1>1 DEF Judged, Current
<1>4. Waiting'
  BY <1>1 DEF Judged, Waiting
<1>5. Due' = Due
  BY <1>1 DEF Due
<1>6. \A dir \in Due : Earned(dir)' = Earned(dir)
  BY <1>1 DEF Earned
<1>7. DueIsEarned'
  BY <1>1, <1>5, <1>6 DEF Judged, DueIsEarned
<1>8. QED
  BY <1>2, <1>3, <1>4, <1>7 DEF Judged

LEMMA JudgedByEvaluate ==
  ASSUME Evaluations, Judged, NEW scope, NEW tag, Evaluate(scope, tag)
  PROVE  Judged'
<1> DEFINE code == IF ~version.readable THEN 2 ELSE IF Failed(version) THEN 1 ELSE 0
           at == IF scope = "none" THEN "done" ELSE "judged"
<1>1. /\ ev' = [ev EXCEPT !.at = at, !.scope = scope, !.tag = tag, !.static = code, !.code = code, !.read = version]
      /\ ev.at = "idle" /\ UNCHANGED <<version, edited, hist>>
  BY DEF Evaluate
<1>2. code = 0 => version.log.state = "ok"
  BY DEF Failed, ChangelogProblem
<1>3. at \in {"done", "judged"} /\ (at = "done" => scope = "none")
  OBVIOUS
<1> HIDE DEF code, at
<1>4. ev'.at = at /\ ev'.code = code /\ ev'.read = version /\ ev'.scope = scope
  BY <1>1 DEF Evaluations, Fields
<1>5. hist' = [dir \in CaseDirs |-> Fresh]
  BY <1>1 DEF Judged, Unedited
<1>6. Unedited'
  BY <1>1, <1>2, <1>3, <1>4, <1>5 DEF Unedited, CaseDirs, Fresh, Graders
<1>7. Current' /\ Waiting' /\ DueIsEarned'
  BY <1>3, <1>4 DEF Current, Waiting, DueIsEarned
<1>8. QED
  BY <1>6, <1>7 DEF Judged

LEMMA JudgedByBegin ==
  ASSUME Evaluations, Judged, BeginBehaviour
  PROVE  Judged'
<1>1. ev.at = "judged" /\ UNCHANGED <<version, edited, hist>> /\ Fields(ev) /\ version \in Proposals \cup Revisions
      /\ ev.code \in {0, 1, 2} /\ ev.read = version
  BY DEF BeginBehaviour, Evaluations, Judged, Unedited
<1>2. hist' = [dir \in CaseDirs |-> Fresh] /\ UNCHANGED <<CaseDirs, Graders, Fresh>>
  BY <1>1 DEF Judged, Unedited, CaseDirs, Graders, Fresh
<1>3. CASE ~version.readable
  <2>1. ev' = [ev EXCEPT !.at = "done", !.code = Worse(ev.code, 2)]
    BY <1>3 DEF BeginBehaviour
  <2>2. ev'.at = "done" /\ ev'.code # 0 /\ ev'.read = ev.read
    BY <1>1, <2>1 DEF Fields, Worse
  <2>3. QED
    BY <1>1, <2>2 DEF Judged, Unedited, Current, Waiting, DueIsEarned
<1>4. CASE version.readable
  <2>1. ev' = [ev EXCEPT !.at = "cases", !.read = version, !.cases = Cases(version, ev.scope, ev.tag)]
    BY <1>4 DEF BeginBehaviour
  <2>2. PICK cases : cases = Cases(version, ev.scope, ev.tag)
    OBVIOUS
  <2>3. /\ ev'.at = "cases" /\ ev'.code = ev.code /\ ev'.read = version /\ ev'.cases = cases
        /\ ev'.scope = ev.scope /\ ev'.tag = ev.tag
    BY <1>1, <2>1, <2>2 DEF Fields
  <2>4. Unedited'
    BY <1>1, <2>3 DEF Judged, Unedited
  <2>5. Current'
    BY <2>3 DEF Current
  <2>6. Listed(cases)
    BY <1>1, <2>2, CasesAreListed
  <2>7. Waiting'
    BY <1>2, <2>3, <2>6 DEF Waiting, Listed, Path
  <2>8. ASSUME ev'.code = 0, NEW dir \in Due' PROVE Slashed(dir) \in ToSet(cases)
    <3>1. version.log.state = "ok"
      BY <1>1, <2>3, <2>8 DEF Judged, Unedited
    <3>2. /\ dir \in DOMAIN version.cases
          /\ \/ ev.scope = "all" \/ Slashed(dir) \in ToSet(Baselines)
             \/ \E e \in ToSet(VersionOf(version, ev.tag)) : e.kind # "retire" /\ e.eval = <<Slashed(dir)>>
      <4>1. Due' = Due
        BY <1>1, <2>3, DueIs
      <4>2. QED
        BY <2>8, <4>1 DEF Due
    <3>3. CASE ev.scope # "changed"
      BY <1>1, <2>2, <3>2, <3>3, CasesAreListed
    <3>4. CASE ev.scope = "changed"
      <4>1. \A p : p \in ToSet(<<p>>)
        BY DEF ToSet
      <4>2. \A e \in ToSet(VersionOf(version, ev.tag)) : e.kind # "retire" => ToSet(e.eval) \subseteq ToSet(cases)
        BY <1>1, <2>2, <3>1, <3>4, CasesAreListed
      <4>3. ToSet(Baselines) \subseteq ToSet(cases)
        BY <1>1, <2>2, <3>4, CasesAreListed
      <4>4. QED
        BY <3>2, <3>4, <4>1, <4>2, <4>3
    <3>5. QED
      BY <3>3, <3>4
  <2>9. DueIsEarned'
    BY <2>3, <2>8 DEF DueIsEarned, Slashed, ToSet
  <2>10. QED
    BY <2>4, <2>5, <2>7, <2>9 DEF Judged
<1>5. QED
  BY <1>3, <1>4

LEMMA JudgedByTake ==
  ASSUME Evaluations, Judged, TakeCase
  PROVE  Judged'
<1> DEFINE p == ev.cases[1]
           rest == Tail(ev.cases)
<1>1. /\ ev.at = "cases" /\ ev.cases # <<>> /\ UNCHANGED <<version, edited, hist>> /\ Fields(ev)
      /\ version \in Proposals \cup Revisions /\ ev.code \in {0, 1, 2} /\ ev.read = version /\ Listed(ev.cases)
  BY DEF TakeCase, Evaluations, Judged, Unedited, Waiting
<1>2. UNCHANGED <<CaseDirs, Graders, Fresh>> /\ DOMAIN version.cases \subseteq CaseDirs
  BY <1>1 DEF CaseDirs, Graders, Fresh
<1>3. /\ Listed(rest) /\ ToSet(ev.cases) = ToSet(rest) \cup {p} /\ p \notin ToSet(rest) /\ Path(p)
      /\ \A i \in DOMAIN rest : rest[i] = ev.cases[i + 1] /\ i + 1 \in DOMAIN ev.cases
  BY <1>1, ListedTail
<1>4. Present <=> p = Slashed(p.dir) /\ p.dir \in DOMAIN version.cases
  <2>1. p.slash \in BOOLEAN /\ p = [dir |-> p.dir, slash |-> p.slash]
    BY <1>3 DEF Path
  <2>2. p.slash <=> p = [dir |-> p.dir, slash |-> TRUE]
    <3>1. CASE p.slash = TRUE
      BY <2>1, <3>1
    <3>2. CASE p.slash = FALSE
      <4>1. [dir |-> p.dir, slash |-> TRUE].slash = TRUE
        OBVIOUS
      <4>2. QED
        BY <3>2, <4>1
    <3>3. QED
      BY <2>1, <3>1, <3>2
  <2>3. QED
    BY <1>1, <2>2 DEF Present, Slashed
<1>5. Due \subseteq DOMAIN version.cases
  BY DEF Due
<1> HIDE DEF p, rest
<1>6. ASSUME ev' = [ev EXCEPT !.cases = rest, !.code = ev'.code], ev'.code \in {0, 1, 2}, ev'.code = 0 => ev.code = 0 /\ ~Present
      PROVE  Judged'
  <2>1. /\ ev'.at = "cases" /\ ev'.cases = rest /\ ev'.read = ev.read /\ ev'.scope = ev.scope /\ ev'.tag = ev.tag
    BY <1>1, <1>6 DEF Fields
  <2>2. Due' = Due
    BY <1>1, <2>1 DEF Due, VersionOf, Slashed
  <2>3. Unedited'
    BY <1>1, <1>6, <2>1 DEF Judged, Unedited
  <2>4. Current'
    BY <2>1 DEF Current
  <2>5. \A i \in DOMAIN rest : \A dir \in CaseDirs : rest[i] = Slashed(dir) => hist[dir] = Fresh
    BY <1>1, <1>3 DEF Judged, Waiting
  <2>6. Waiting'
    BY <1>1, <1>2, <1>3, <2>1, <2>5 DEF Waiting, Listed, Path, Slashed
  <2>7. ASSUME ev'.code = 0, ev'.scope # "none", NEW dir \in Due, Slashed(dir) \notin ToSet(rest) PROVE Earned(dir)'
    <3>1. Slashed(dir) # p
      BY <1>4, <1>5, <1>6, <2>7 DEF Slashed
    <3>2. Earned(dir)
      BY <1>1, <1>3, <1>6, <2>1, <2>7, <3>1 DEF Judged, DueIsEarned
    <3>3. QED
      BY <1>1, <3>2 DEF Earned, Runs, Number, Given, FieldOf
  <2>8. DueIsEarned'
    BY <2>1, <2>2, <2>7 DEF DueIsEarned, Slashed, ToSet
  <2>9. QED
    BY <2>3, <2>4, <2>6, <2>8 DEF Judged
<1>7. CASE ~Present
  <2>1. ev' = [ev EXCEPT !.cases = rest]
    BY <1>7 DEF TakeCase, rest
  <2>2. ev'.code = ev.code /\ ev' = [ev EXCEPT !.cases = rest, !.code = ev.code]
    BY <1>1, <2>1 DEF Fields
  <2>3. QED
    BY <1>1, <1>6, <1>7, <2>2
<1>8. CASE Present /\ (~Parses(Yaml) \/ FieldOf(Yaml, "role") \notin DOMAIN ev.read.texts \/ Runs(Yaml) = 0)
  <2>1. ev' = [ev EXCEPT !.cases = rest, !.code = Worse(ev.code, 1)]
    BY <1>8 DEF TakeCase, rest
  <2>2. ev'.code = Worse(ev.code, 1)
    BY <1>1, <2>1 DEF Fields
  <2>3. ev'.code \in {1, 2}
    BY <1>1, <2>2 DEF Worse
  <2>4. QED
    BY <1>6, <2>1, <2>2, <2>3
<1>9. CASE Present /\ ~(~Parses(Yaml) \/ FieldOf(Yaml, "role") \notin DOMAIN ev.read.texts \/ Runs(Yaml) = 0)
  <2> DEFINE y == version.cases[p.dir]
             zero == [g \in DOMAIN y.graders |-> 0]
  <2>1. Yaml = y /\ p = Slashed(p.dir) /\ p.dir \in DOMAIN version.cases /\ Parses(y) /\ Runs(y) # 0
    BY <1>1, <1>4, <1>9 DEF Yaml, p
  <2>2. ev' = [ev EXCEPT !.at = "run", !.run = 1, !.errors = FALSE, !.over = FALSE, !.yes = zero, !.votes = zero]
    BY <1>9, <2>1 DEF TakeCase
  <2>3. /\ ev'.at = "run" /\ ev'.run = 1 /\ ev'.errors = FALSE /\ ev'.over = FALSE
        /\ ev'.yes = zero /\ ev'.votes = zero /\ Same(ev, ev')
    <3> HIDE DEF zero
    <3>1. QED
      BY <1>1, <2>2 DEF Fields, Same
  <2>4. Due' = Due
    BY <1>1, <2>3 DEF Due, VersionOf, Slashed, Same
  <2>5. Unedited'
    BY <1>1, <2>3 DEF Judged, Unedited, Same
  <2>6. Waiting'
    BY <1>1, <1>2, <2>3 DEF Judged, Waiting, Same, Listed, Path, Slashed
  <2>7. DueIsEarned'
    <3>1. \A dir \in Due : Earned(dir)' = Earned(dir)
      BY <1>1 DEF Earned, Runs, Number, Given, FieldOf
    <3>2. QED
      BY <1>1, <2>3, <2>4, <3>1 DEF Judged, DueIsEarned, Same, Slashed, ToSet
  <2>8. Current'
    <3>1. hist[p.dir] = Fresh
      <4>1. 1 \in DOMAIN ev.cases /\ ev.cases[1] = Slashed(p.dir) /\ p.dir \in CaseDirs
        BY <1>1, <1>2, <2>1 DEF Listed, p
      <4>2. QED
        BY <1>1, <4>1 DEF Judged, Waiting
    <3>2. hist[p.dir].sessions = 0 /\ \A g \in Graders : hist[p.dir].agreed[g] = 0
      BY <3>1 DEF Fresh
    <3>3. DOMAIN y.graders \subseteq Graders
      BY <1>1, <2>1 DEF Graders
    <3>4. zero \in [DOMAIN y.graders -> Nat] /\ zero = [g \in DOMAIN y.graders |-> hist[p.dir].agreed[g]]
          /\ \A g \in DOMAIN y.graders : zero[g] = 0
      BY <3>2, <3>3
    <3>5. Runs(y) \in Nat /\ 1 \in 1..Runs(y)
      BY <2>1, RunsIs
    <3> HIDE DEF zero
    <3>6. ev'.cases[1].dir = p.dir /\ version'.cases[p.dir] = y /\ ev'.cases[1] = p /\ ev'.cases # <<>>
      BY <1>1, <2>3 DEF Same, p
    <3> HIDE DEF y
    <3>7. QED
      BY <1>1, <2>1, <2>3, <3>2, <3>3, <3>4, <3>5, <3>6 DEF Current
  <2>9. QED
    BY <2>5, <2>6, <2>7, <2>8 DEF Judged
<1>10. QED
  BY <1>7, <1>8, <1>9

LEMMA JudgedBySession ==
  ASSUME Evaluations, Evaluations', Judged, Session
  PROVE  Judged'
<1> DEFINE dir == ev.cases[1].dir
           y   == version.cases[dir]
<1>1. Fields(ev) /\ version' = version /\ ev.at = "run" /\ Open /\ hist \in Histories
  BY SessionIs DEF Evaluations, Open, Histories
<1>2. /\ ev.cases # <<>> /\ dir \in CaseDirs /\ Yaml = y /\ DOMAIN y.graders = 1..Len(y.graders)
      /\ Len(y.graders) \in Nat \ {0} /\ ev.cases[1] = Slashed(dir) /\ Runs(y) \in Nat
  BY <1>1, HeadIs DEF Judged
<1>3. /\ dir \in DOMAIN version.cases /\ Parses(y) /\ ev.run \in 1..Runs(y)
      /\ ev.votes \in [DOMAIN y.graders -> Nat] /\ ev.yes = [g \in DOMAIN y.graders |-> hist[dir].agreed[g]]
      /\ ~ev.errors /\ ~ev.over =>
           hist[dir].sessions = ev.run - 1 /\ \A g \in DOMAIN y.graders : ev.votes[g] = ev.run - 1
  BY <1>1 DEF Judged, Current
<1> HIDE DEF dir, y
<1>4. ASSUME hist' = hist, NEW e, Ungraded(e), e.errors, e.yes = ev.yes, e.votes = ev.votes, ev' = NextRun(e)
      PROVE  Judged'
  <2>1. Elsewhere
    BY <1>4 DEF Elsewhere
  <2>2. RunOver(e, dir, y)
    BY <1>3, <1>4 DEF RunOver, dir, y
  <2>3. QED
    BY <1>1, <1>4, <2>1, <2>2, RunEnds
<1>5. ASSUME NEW over \in BOOLEAN, hist' = [hist EXCEPT ![dir].sessions = IF over THEN @ ELSE @ + 1],
             Fields(ev'), Same(ev, ev'), ev'.at = "grade", ev'.grader = 1, ev'.run = ev.run,
             ev'.yes = ev.yes, ev'.votes = ev.votes, ev'.errors = ev.errors, ev'.over = (ev.over \/ over)
      PROVE  Judged'
  <2>1. hist[dir] = [sessions |-> hist[dir].sessions, agreed |-> hist[dir].agreed] /\ hist[dir].sessions \in Nat
    BY <1>1, <1>2 DEF Histories
  <2>2. /\ hist'[dir].agreed = hist[dir].agreed /\ (~over => hist'[dir].sessions = hist[dir].sessions + 1)
        /\ \A d \in CaseDirs : d # dir => hist'[d] = hist[d]
    BY <1>1, <1>2, <1>5, <2>1 DEF Histories
  <2>3. Elsewhere
    BY <2>2 DEF Elsewhere, dir
  <2>4. Unedited' /\ Waiting' /\ DueIsEarned'
    BY <1>1, <1>5, <2>3, OthersStay DEF Open
  <2>5. ev'.cases = ev.cases /\ version'.cases[dir] = y /\ ev.cases[1].dir = dir
    BY <1>1, <1>5 DEF Same, dir, y
  <2>6. ~ev'.errors /\ ~ev'.over => hist'[dir].sessions = ev.run /\ \A g \in DOMAIN y.graders : ev'.votes[g] = ev.run - 1
    <3>1. ev.run \in Nat /\ (ev.run - 1) + 1 = ev.run
      BY <1>2, <1>3
    <3>2. ~ev'.errors /\ ~ev'.over => ~ev.errors /\ ~ev.over /\ ~over
      BY <1>5
    <3>3. QED
      BY <1>3, <1>5, <2>2, <3>1, <3>2
  <2>7. 1 \in DOMAIN y.graders /\ \A g \in DOMAIN y.graders : ~(g < 1)
    BY <1>2
  <2>8. ev'.yes = [g \in DOMAIN y.graders |-> hist'[dir].agreed[g]] /\ ev'.votes \in [DOMAIN y.graders -> Nat]
    BY <1>3, <1>5, <2>2
  <2>9. Current'
    <3>1. \A g \in DOMAIN y.graders : (IF ev'.at = "grade" /\ g < ev'.grader THEN ev'.run ELSE ev'.run - 1) = ev.run - 1
      BY <1>5, <2>7
    <3>2. ev'.cases # <<>> /\ ev'.cases[1].dir = dir /\ ev'.cases[1] = Slashed(dir)
      BY <1>2, <2>5
    <3>3. QED
      BY <1>1, <1>3, <1>5, <2>5, <2>6, <2>7, <2>8, <3>1, <3>2 DEF Current
  <2>10. QED
    BY <2>4, <2>9 DEF Judged
<1>6. QED
  BY <1>1, <1>4, <1>5, SessionIs DEF dir

(* A case when one more grader of it has answered.                         *)
Voted(e, dir, y) ==
  /\ Elsewhere /\ hist'[dir].sessions = hist[dir].sessions
  /\ e.votes \in [DOMAIN y.graders -> Nat] /\ e.yes = [g \in DOMAIN y.graders |-> hist'[dir].agreed[g]]
  /\ ~e.errors /\ ~e.over =>
       /\ hist'[dir].sessions = ev.run
       /\ \A g \in DOMAIN y.graders : e.votes[g] = IF g <= ev.grader THEN ev.run ELSE ev.run - 1

LEMMA JudgedByGrade ==
  ASSUME Evaluations, Evaluations', Judged, Grade
  PROVE  Judged'
<1> DEFINE dir == ev.cases[1].dir
           y   == version.cases[dir]
<1>1. Fields(ev) /\ version' = version /\ ev.at = "grade" /\ Open /\ hist \in Histories
  BY GradeIs DEF Evaluations, Open, Histories
<1>2. /\ ev.cases # <<>> /\ dir \in CaseDirs /\ Yaml = y /\ DOMAIN y.graders = 1..Len(y.graders)
      /\ Len(y.graders) \in Nat \ {0} /\ ev.cases[1] = Slashed(dir) /\ DOMAIN y.graders \subseteq Graders
      /\ Runs(y) \in Nat
  BY <1>1, HeadIs DEF Judged
<1>3. /\ dir \in DOMAIN version.cases /\ Parses(y) /\ ev.run \in 1..Runs(y) /\ ev.grader \in DOMAIN y.graders
      /\ ev.votes \in [DOMAIN y.graders -> Nat] /\ ev.yes = [g \in DOMAIN y.graders |-> hist[dir].agreed[g]]
      /\ ~ev.errors /\ ~ev.over =>
           /\ hist[dir].sessions = ev.run
           /\ \A g \in DOMAIN y.graders : ev.votes[g] = IF g < ev.grader THEN ev.run ELSE ev.run - 1
  BY <1>1 DEF Judged, Current
<1> HIDE DEF dir, y
<1>4. PICK e : /\ Ungraded(e) /\ e.at = "grade" /\ e.over = ev.over /\ ev' = NextGrader(e)
               /\ \/ hist' = hist /\ e.errors /\ e.yes = ev.yes /\ e.votes = ev.votes
                  \/ \E yes \in BOOLEAN :
                       /\ e.votes = [ev.votes EXCEPT ![ev.grader] = @ + 1] /\ e.errors = ev.errors
                       /\ e.yes = [ev.yes EXCEPT ![ev.grader] = IF yes THEN @ + 1 ELSE @]
                       /\ hist' = [hist EXCEPT ![dir].agreed[ev.grader] = IF yes THEN @ + 1 ELSE @]
  BY <1>1, GradeIs DEF dir
<1>5. Voted(e, dir, y)
  <2>1. CASE hist' = hist /\ e.errors /\ e.yes = ev.yes /\ e.votes = ev.votes
    BY <1>3, <2>1 DEF Voted, Elsewhere
  <2>2. ASSUME NEW yes \in BOOLEAN,
               e.votes = [ev.votes EXCEPT ![ev.grader] = @ + 1], e.errors = ev.errors,
               e.yes = [ev.yes EXCEPT ![ev.grader] = IF yes THEN @ + 1 ELSE @],
               hist' = [hist EXCEPT ![dir].agreed[ev.grader] = IF yes THEN @ + 1 ELSE @]
        PROVE  Voted(e, dir, y)
    <3> DEFINE now == IF yes THEN hist[dir].agreed[ev.grader] + 1 ELSE hist[dir].agreed[ev.grader]
    <3>1. /\ hist[dir] = [sessions |-> hist[dir].sessions, agreed |-> hist[dir].agreed]
          /\ hist[dir].agreed \in [Graders -> Nat] /\ hist \in [CaseDirs -> [sessions : Nat, agreed : [Graders -> Nat]]]
      BY <1>1, <1>2 DEF Histories
    <3>2. /\ hist'[dir].sessions = hist[dir].sessions /\ hist'[dir].agreed = [hist[dir].agreed EXCEPT ![ev.grader] = now]
          /\ \A d \in CaseDirs : d # dir => hist'[d] = hist[d]
      BY <1>2, <2>2, <3>1
    <3>3. /\ hist'[dir].agreed[ev.grader] = now
          /\ \A g \in DOMAIN y.graders : g # ev.grader => hist'[dir].agreed[g] = hist[dir].agreed[g]
      BY <1>2, <1>3, <3>1, <3>2
    <3>4. e.yes = [g \in DOMAIN y.graders |-> hist'[dir].agreed[g]]
      BY <1>3, <2>2, <3>3
    <3>5. /\ e.votes \in [DOMAIN y.graders -> Nat] /\ e.votes[ev.grader] = ev.votes[ev.grader] + 1
          /\ \A g \in DOMAIN y.graders : g # ev.grader => e.votes[g] = ev.votes[g]
      BY <1>3, <2>2
    <3>6. ASSUME ~e.errors, ~e.over, NEW g \in DOMAIN y.graders
          PROVE  e.votes[g] = IF g <= ev.grader THEN ev.run ELSE ev.run - 1
      <4>1. ev.votes[g] = IF g < ev.grader THEN ev.run ELSE ev.run - 1
        BY <1>3, <1>4, <2>2, <3>6
      <4>2. g \in Nat /\ ev.grader \in Nat /\ ev.run \in Nat
        BY <1>2, <1>3
      <4>3. CASE g = ev.grader
        BY <3>5, <4>1, <4>2, <4>3
      <4>4. CASE g # ev.grader
        BY <3>5, <3>6, <4>1, <4>2, <4>4
      <4>5. QED
        BY <4>3, <4>4
    <3>7. Elsewhere
      BY <3>2 DEF Elsewhere, dir
    <3>8. QED
      BY <1>3, <1>4, <2>2, <3>2, <3>4, <3>5, <3>6, <3>7 DEF Voted
  <2>3. QED
    BY <1>4, <2>1, <2>2
<1>6. CASE e.grader < Len(Yaml.graders)
  <2>1. /\ Fields(e) /\ Same(ev, e) /\ e.run = ev.run /\ e.grader = ev.grader /\ e.at = "grade"
    BY <1>4 DEF Ungraded
  <2>2. /\ ev'.at = "grade" /\ ev'.grader = ev.grader + 1 /\ Same(ev, ev') /\ ev'.run = ev.run
        /\ ev'.yes = e.yes /\ ev'.votes = e.votes /\ ev'.errors = e.errors /\ ev'.over = e.over
    BY <1>4, <1>6, <2>1, GraderIsNext DEF Same
  <2>3. Unedited' /\ Waiting' /\ DueIsEarned'
    BY <1>1, <1>5, <2>2, OthersStay DEF Open, Voted
  <2>4. ev'.cases = ev.cases /\ version'.cases[dir] = y /\ ev.cases[1].dir = dir
    BY <1>1, <2>2 DEF Same, dir, y
  <2>5. ev'.grader \in DOMAIN y.graders /\ \A g \in DOMAIN y.graders : g <= ev.grader <=> g < ev'.grader
    BY <1>2, <1>3, <1>6, <2>1, <2>2
  <2>6. Current'
    BY <1>1, <1>2, <1>3, <1>5, <2>2, <2>4, <2>5 DEF Current, Voted
  <2>7. QED
    BY <2>3, <2>6 DEF Judged
<1>7. CASE ~(e.grader < Len(Yaml.graders))
  <2>1. Fields(e) /\ Ungraded(e) /\ e.grader = ev.grader
    BY <1>4 DEF Ungraded
  <2>2. ev' = NextRun(e)
    BY <1>4, <1>7, <2>1, GraderIsNext
  <2>3. \A g \in DOMAIN y.graders : g <= ev.grader
    BY <1>2, <1>3, <1>7, <2>1
  <2>4. RunOver(e, dir, y)
    BY <1>5, <2>1, <2>3 DEF RunOver, Voted, dir, y
  <2>5. QED
    BY <1>1, <1>5, <2>2, <2>4, RunEnds DEF Voted
<1>8. QED
  BY <1>6, <1>7

LEMMA JudgedByFinish ==
  ASSUME Evaluations, Judged, Finish
  PROVE  Judged'
<1>1. /\ ev.at = "cases" /\ ev.cases = <<>> /\ UNCHANGED <<version, edited, hist>>
      /\ ev'.at = "done" /\ Same(ev, ev')
  BY DEF Finish, Evaluations, Fields, Same
<1>2. Unedited' /\ Current' /\ Waiting'
  BY <1>1 DEF Judged, Unedited, Current, Waiting, Same
<1>3. DueIsEarned'
  <2>1. Due' = Due
    BY <1>1, DueIs DEF Same
  <2>2. ToSet(ev.cases) = {}
    BY <1>1 DEF ToSet
  <2>3. ASSUME ev'.code = 0, ev'.scope # "none", NEW dir \in Due PROVE Earned(dir)'
    <3>1. Earned(dir)
      BY <1>1, <2>2, <2>3 DEF Judged, DueIsEarned, Same
    <3>2. QED
      BY <1>1, <3>1 DEF Earned
  <2>4. QED
    BY <1>1, <2>1, <2>3 DEF DueIsEarned
<1>4. QED
  BY <1>2, <1>3 DEF Judged

---------------------------------------------------------------------------
LEMMA GateStarts == GateInit => GateInductive
<1> SUFFICES ASSUME GateInit PROVE GateInductive
  OBVIOUS
<1>1. hist = [dir \in CaseDirs |-> Fresh] /\ ev = Idle /\ ev.at = "idle" /\ ev.code = 0
  BY DEF GateInit, Fresh, Idle
<1>2. Evaluations
  <2>1. Fresh \in [sessions : Nat, agreed : [Graders -> Nat]]
    BY DEF Fresh
  <2>2. Fields(ev)
    BY <1>1 DEF Fields, Idle
  <2>3. QED
    BY <1>1, <2>1, <2>2 DEF GateInit, Evaluations
<1>3. Judged
  BY <1>1 DEF Judged, Unedited, Current, Waiting, DueIsEarned
<1>4. QED
  BY <1>2, <1>3 DEF GateInductive, Judged

LEMMA GateStands ==
  ASSUME GateInductive, [GateNext]_gateVars
  PROVE  GateInductive'
<1>1. Evaluations /\ Evaluations'
  BY EvaluationsStand DEF GateInductive
<1>2. ASSUME ~edited' PROVE Judged'
  <2>1. CASE UNCHANGED gateVars
    BY <1>2, <2>1, JudgedByNothing DEF GateInductive, Judged, gateVars
  <2>2. CASE Edit
    BY <1>2, <2>2 DEF Edit
  <2>3. CASE (\E scope, tag : Evaluate(scope, tag)) \/ BeginBehaviour \/ TakeCase \/ Session \/ Grade \/ Finish
    <3>1. ~edited
      BY <1>2, <2>3 DEF Evaluate, BeginBehaviour, TakeCase, Session, Grade, Finish
    <3>2. Judged
      BY <3>1 DEF GateInductive, Judged
    <3>3. QED
      BY <1>1, <2>3, <3>2, JudgedByEvaluate, JudgedByBegin, JudgedByTake, JudgedBySession, JudgedByGrade, JudgedByFinish
  <2>4. QED
    BY <2>1, <2>2, <2>3, GateNextIs
<1>3. QED
  BY <1>1, <1>2 DEF GateInductive, Judged

(* A version that passes with its cases has earned it: each case that was  *)
(* due (eval.rs changed_cases) has been run to the end of its runs and     *)
(* graded in its favour (eval_run.rs run_case), unless the version was     *)
(* edited meanwhile.                                                       *)
THEOREM PassesAreEarned == GateSpec => []PassIsEarned
<1>1. GateInductive /\ [GateNext]_gateVars => GateInductive'
  BY GateStands
<1>2. GateInductive => PassIsEarned
  BY DEF GateInductive, PassIsEarned, DueIsEarned, Earned
<1>3. QED
  BY <1>1, <1>2, GateStarts, PTL DEF GateSpec

---------------------------------------------------------------------------
(* What a passed version is good for.                                      *)

(* One sequence made of others: where each of them begins in it.           *)
Joined(F, ss, off, W) ==
  /\ F \in Seq(W) /\ off \in [DOMAIN ss -> Nat]
  /\ \A i \in DOMAIN ss : \A j \in DOMAIN ss[i] :
       off[i] + j \in DOMAIN F /\ F[off[i] + j] = ss[i][j]
  /\ \A i \in DOMAIN ss : i + 1 \in DOMAIN ss => off[i + 1] = off[i] + Len(ss[i])
  /\ \A k \in DOMAIN F : \E i \in DOMAIN ss : \E j \in DOMAIN ss[i] : F[k] = ss[i][j]

(* c is a, and after it b.                                                 *)
Followed(c, a, b, W) ==
  /\ c \in Seq(W) /\ Len(c) = Len(a) + Len(b)
  /\ \A k \in DOMAIN a : k \in DOMAIN c /\ c[k] = a[k]
  /\ \A j \in DOMAIN b : Len(a) + j \in DOMAIN c /\ c[Len(a) + j] = b[j]
  /\ \A k \in DOMAIN c : k \in DOMAIN a \/ \E j \in DOMAIN b : k = Len(a) + j

LEMMA ConcatIs ==
  ASSUME NEW W, NEW a \in Seq(W), NEW b \in Seq(W), NEW c, c = a \o b
  PROVE  Followed(c, a, b, W)
<1>1. /\ c \in Seq(W) /\ Len(c) = Len(a) + Len(b) /\ Len(a) \in Nat /\ Len(b) \in Nat
      /\ DOMAIN a = 1..Len(a) /\ DOMAIN b = 1..Len(b) /\ DOMAIN c = 1..(Len(a) + Len(b))
  OBVIOUS
<1>2. \A k \in 1..(Len(a) + Len(b)) : c[k] = IF k <= Len(a) THEN a[k] ELSE b[k - Len(a)]
  OBVIOUS
<1>3. \A k \in DOMAIN a : k \in DOMAIN c /\ c[k] = a[k]
  BY <1>1, <1>2
<1>4. ASSUME NEW j \in DOMAIN b PROVE Len(a) + j \in DOMAIN c /\ c[Len(a) + j] = b[j]
  <2>1. Len(a) + j \in 1..(Len(a) + Len(b)) /\ ~(Len(a) + j <= Len(a)) /\ (Len(a) + j) - Len(a) = j
    BY <1>1
  <2>2. QED
    BY <1>1, <1>2, <2>1
<1>5. ASSUME NEW k \in DOMAIN c, k \notin DOMAIN a PROVE \E j \in DOMAIN b : k = Len(a) + j
  <2>1. k - Len(a) \in DOMAIN b /\ k = Len(a) + (k - Len(a))
    BY <1>1, <1>5
  <2>2. QED
    BY <2>1
<1>6. QED
  BY <1>1, <1>3, <1>4, <1>5 DEF Followed

LEMMA FlattenIs ==
  ASSUME NEW W, NEW ss, ss \in Seq(Seq(W))
  PROVE  \E off : Joined(FlattenSeq(ss), ss, off, W)
<1> DEFINE N == Len(ss)
           Step(F, n) == IF n = 1 THEN ss[n] ELSE F[n - 1] \o ss[n]
           F == CHOOSE F : F = [n \in 1..Len(ss) |-> Step(F, n)]
           g == [n \in 1..N |-> [s \in Seq(W) |-> s \o ss[n]]]
<1>1. N \in Nat /\ DOMAIN ss = 1..N /\ \A n \in 1..N : ss[n] \in Seq(W)
  OBVIOUS
<1>2. g \in [1..N -> [Seq(W) -> Seq(W)]] /\ \A n \in 1..N : \A s \in Seq(W) : g[n][s] = s \o ss[n]
  BY <1>1
<1> HIDE DEF g
<1>3. PICK f : GoesOn(f, N, Seq(W), <<>>, g)
  <2>1. N \in Nat /\ <<>> \in Seq(W)
    BY <1>1
  <2> HIDE DEF N
  <2>2. QED
    BY <1>2, <2>1, Recursion
<1>4. /\ \A n \in 0..N : f[n] \in Seq(W)
      /\ f[0] = <<>> /\ \A n \in 1..N : n - 1 \in 0..N /\ n \in 0..N /\ f[n] = f[n - 1] \o ss[n]
  <2>1. f \in [0..N -> Seq(W)] /\ f[0] = <<>> /\ \A n \in 1..N : f[n] = g[n][f[n - 1]]
    BY <1>3 DEF GoesOn
  <2>2. \A n \in 1..N : n - 1 \in 0..N /\ n \in 0..N
    BY <1>1
  <2> HIDE DEF N
  <2>3. \A n \in 0..N : f[n] \in Seq(W)
    BY <2>1
  <2>4. ASSUME NEW n \in 1..N PROVE f[n] = f[n - 1] \o ss[n]
    BY <1>2, <2>1, <2>2, <2>3
  <2>5. QED
    BY <2>1, <2>2, <2>3, <2>4
<1>5. ASSUME NEW n \in 1..N
      PROVE  Followed(f[n], f[n - 1], ss[n], W) /\ (n = 1 => f[n] = ss[n])
  <2>1. PICK a \in Seq(W) : a = f[n - 1]
    BY <1>4
  <2>2. PICK b \in Seq(W) : b = ss[n]
    BY <1>1
  <2>3. PICK c : c = a \o b
    OBVIOUS
  <2>4. c = f[n]
    BY <1>4, <2>1, <2>2, <2>3
  <2>5. n = 1 => c = b
    <3>1. n = 1 => a = <<>>
      BY <1>1, <1>4, <2>1
    <3>2. QED
      BY <2>2, <2>3, <3>1
  <2> HIDE DEF N
  <2>6. Followed(c, a, b, W)
    BY <2>3, ConcatIs
  <2>7. QED
    BY <2>1, <2>2, <2>4, <2>5, <2>6
<1> DEFINE h == [n \in 1..N |-> f[n]]
<1>6. h = [n \in 1..Len(ss) |-> Step(h, n)]
  <2>1. ASSUME NEW n \in 1..N PROVE h[n] = Step(h, n)
    <3>1. CASE n = 1
      <4>1. h[n] = f[n]
        OBVIOUS
      <4>2. QED
        BY <1>5, <3>1, <4>1
    <3>2. CASE n # 1
      <4>1. n - 1 \in 1..N
        BY <1>1, <3>2
      <4>2. QED
        BY <1>4, <3>2, <4>1
    <3>3. QED
      BY <3>1, <3>2
  <2> HIDE DEF Step
  <2>2. QED
    BY <2>1
<1>7. F = [n \in 1..Len(ss) |-> Step(F, n)]
  <2> HIDE DEF Step, h
  <2>1. QED
    BY <1>6
<1> HIDE DEF F, h
<1>8. FlattenSeq(ss) = IF N = 0 THEN ss ELSE F[N]
  BY DEF FlattenSeq, F
<1>9. \A n \in 1..N : F[n] = f[n]
  <2> DEFINE K == {n \in 0..N : n = 0 \/ F[n] = f[n]}
  <2>1. 0 \in K
    BY <1>1
  <2>2. ASSUME NEW n \in 1..N, n - 1 \in K PROVE n \in K
    <3>1. F[n] = Step(F, n) /\ n \in 0..N
      <4>1. n \in 1..Len(ss) /\ n \in 0..N
        BY <1>1
      <4> HIDE DEF Step
      <4>2. QED
        BY <1>7, <4>1
    <3>2. CASE n = 1
      BY <1>5, <3>1, <3>2
    <3>3. CASE n # 1
      <4>1. n - 1 # 0 /\ F[n - 1] = f[n - 1]
        BY <1>1, <2>2, <3>3
      <4>2. QED
        BY <1>4, <3>1, <3>3, <4>1
    <3>4. QED
      BY <3>2, <3>3
  <2> HIDE DEF K
  <2>3. \A n \in 1..N : n - 1 \in K => n \in K
    BY <2>2
  <2>4. 0..N \subseteq K
    <3> HIDE DEF N
    <3> QED
      BY <1>1, <2>1, <2>3, UpTo
  <2>5. QED
    BY <1>1, <2>4 DEF K
<1>10. FlattenSeq(ss) = f[N]
  <2>1. CASE N = 0
    BY <1>4, <1>8, <2>1
  <2>2. CASE N # 0
    <3>1. N \in 1..N
      BY <1>1, <2>2
    <3>2. QED
      BY <1>8, <1>9, <2>2, <3>1
  <2>3. QED
    BY <2>1, <2>2
<1> DEFINE off == [i \in 1..N |-> Len(f[i - 1])]
           Begun(n) ==
             /\ \A i \in 1..n : \A j \in DOMAIN ss[i] :
                  off[i] + j \in DOMAIN f[n] /\ f[n][off[i] + j] = ss[i][j]
             /\ \A k \in DOMAIN f[n] : \E i \in 1..n : \E j \in DOMAIN ss[i] : f[n][k] = ss[i][j]
           K == {n \in 0..N : Begun(n)}
<1>11. off \in [1..N -> Nat] /\ \A i \in 1..N : off[i] = Len(f[i - 1])
  BY <1>4
<1> HIDE DEF off
<1>12. 0 \in K
  <2>1. 0 \in 0..N /\ f[0] = <<>> /\ 1..0 = {}
    BY <1>1, <1>4
  <2>2. QED
    BY <2>1
<1>13. ASSUME NEW n \in 1..N, n - 1 \in K PROVE n \in K
  <2>1. Begun(n - 1) /\ off[n] = Len(f[n - 1])
    BY <1>11, <1>13
  <2>2. n \in 0..N /\ n \in 1..n /\ \A i \in 1..n : i = n \/ i \in 1..(n - 1)
    BY <1>1
  <2>3. PICK before, after, mine : before = f[n - 1] /\ after = f[n] /\ mine = ss[n]
    OBVIOUS
  <2>4. /\ \A k \in DOMAIN before : k \in DOMAIN after /\ after[k] = before[k]
        /\ \A j \in DOMAIN mine : off[n] + j \in DOMAIN after /\ after[off[n] + j] = mine[j]
        /\ \A k \in DOMAIN after : k \in DOMAIN before \/ \E j \in DOMAIN mine : k = off[n] + j
    <3>1. Followed(after, before, mine, W) /\ off[n] = Len(before)
      BY <1>5, <2>1, <2>3
    <3>2. QED
      BY <3>1 DEF Followed
  <2>5. /\ \A k \in DOMAIN before : \E i \in 1..(n - 1) : \E j \in DOMAIN ss[i] : before[k] = ss[i][j]
        /\ \A i \in 1..(n - 1) : \A j \in DOMAIN ss[i] : off[i] + j \in DOMAIN before /\ before[off[i] + j] = ss[i][j]
    BY <2>1, <2>3
  <2>6. ASSUME NEW i \in 1..n, NEW j \in DOMAIN ss[i]
        PROVE  off[i] + j \in DOMAIN after /\ after[off[i] + j] = ss[i][j]
    BY <2>2, <2>3, <2>4, <2>5
  <2>7. ASSUME NEW k \in DOMAIN after
        PROVE  \E i \in 1..n : \E j \in DOMAIN ss[i] : after[k] = ss[i][j]
    <3>1. CASE k \in DOMAIN before
      <4>1. PICK i \in 1..(n - 1) : \E j \in DOMAIN ss[i] : before[k] = ss[i][j]
        BY <2>5, <3>1
      <4>2. i \in 1..n
        BY <1>1
      <4>3. QED
        BY <2>4, <3>1, <4>1, <4>2
    <3>2. CASE k \notin DOMAIN before
      <4>1. PICK j \in DOMAIN mine : k = off[n] + j
        BY <2>4, <3>2
      <4>2. after[k] = ss[n][j] /\ j \in DOMAIN ss[n]
        BY <2>3, <2>4, <4>1
      <4>3. QED
        BY <2>2, <4>2
    <3>3. QED
      BY <3>1, <3>2
  <2>8. QED
    BY <2>2, <2>3, <2>6, <2>7
<1> HIDE DEF K
<1>14. N \in K
  <2>1. \A n \in 1..N : n - 1 \in K => n \in K
    BY <1>13
  <2> HIDE DEF N
  <2>2. 0..N \subseteq K
    BY <1>1, <1>12, <2>1, UpTo
  <2>3. QED
    BY <1>1, <2>2
<1>15. ASSUME NEW i \in 1..N, i + 1 \in 1..N PROVE off[i + 1] = off[i] + Len(ss[i])
  <2>1. (i + 1) - 1 = i /\ Len(f[i]) = Len(f[i - 1]) + Len(ss[i])
    BY <1>1, <1>5 DEF Followed
  <2>2. off[i] = Len(f[i - 1]) /\ off[i + 1] = Len(f[(i + 1) - 1])
    BY <1>11, <1>15
  <2>3. QED
    BY <2>1, <2>2
<1>16. Joined(f[N], ss, off, W)
  <2>1. Begun(N) /\ f[N] \in Seq(W)
    BY <1>1, <1>4, <1>14 DEF K
  <2>2. QED
    BY <1>1, <1>11, <1>15, <2>1 DEF Joined
<1>17. QED
  BY <1>10, <1>16

Beside(text, a, b) == \E i \in DOMAIN text : i + 1 \in DOMAIN text /\ text[i] = a /\ text[i + 1] = b

(* Filling a name in takes the name away, puts the value there, and leaves *)
(* the rest as it stands.                                                  *)
FilledIn(new, text, name, value, W) ==
  /\ new \in Seq(W)
  /\ ToSet(new) \subseteq (ToSet(text) \ {name}) \cup ToSet(value)
  /\ ToSet(text) \ {name} \subseteq ToSet(new)
  /\ \A a, b : a # name /\ b # name /\ Beside(text, a, b) => Beside(new, a, b)
  /\ \A a, b : name \in ToSet(text) /\ value = <<a, b>> => Beside(new, a, b)

LEMMA FillIs ==
  ASSUME NEW W, NEW text \in Seq(W), NEW name, NEW value \in Seq(W)
  PROVE  FilledIn(Fill(text, name, value), text, name, value, W)
<1> DEFINE ss == [i \in DOMAIN text |-> IF text[i] = name THEN value ELSE <<text[i]>>]
<1>1. /\ ss \in Seq(Seq(W)) /\ DOMAIN ss = DOMAIN text
      /\ \A i \in DOMAIN text : ss[i] = IF text[i] = name THEN value ELSE <<text[i]>>
  <2>1. \A i \in DOMAIN text : (IF text[i] = name THEN value ELSE <<text[i]>>) \in Seq(W)
    OBVIOUS
  <2>2. DOMAIN text = 1..Len(text) /\ Len(text) \in Nat
    OBVIOUS
  <2>3. ss \in [1..Len(text) -> Seq(W)]
    BY <2>1, <2>2
  <2>4. \A f \in [1..Len(text) -> Seq(W)] : f \in Seq(Seq(W))
    BY <2>2
  <2>5. QED
    BY <2>2, <2>3, <2>4
<1>2. Fill(text, name, value) = FlattenSeq(ss)
  BY DEF Fill
<1> HIDE DEF ss
<1>3. PICK off : Joined(FlattenSeq(ss), ss, off, W)
  BY <1>1, FlattenIs
<1>4. PICK new : new = FlattenSeq(ss)
  OBVIOUS
<1>5. /\ new \in Seq(W)
      /\ \A i \in DOMAIN text : \A j \in DOMAIN ss[i] :
           off[i] + j \in DOMAIN new /\ new[off[i] + j] = ss[i][j]
      /\ \A i \in DOMAIN text : i + 1 \in DOMAIN text => off[i + 1] = off[i] + Len(ss[i])
      /\ \A k \in DOMAIN new : \E i \in DOMAIN text : \E j \in DOMAIN ss[i] : new[k] = ss[i][j]
      /\ \A i \in DOMAIN text : off[i] \in Nat
  BY <1>1, <1>3, <1>4 DEF Joined
<1>6. ToSet(new) \subseteq (ToSet(text) \ {name}) \cup ToSet(value)
  <2>1. ASSUME NEW k \in DOMAIN new PROVE new[k] \in (ToSet(text) \ {name}) \cup ToSet(value)
    <3>1. PICK i \in DOMAIN text : \E j \in DOMAIN ss[i] : new[k] = ss[i][j]
      BY <1>5
    <3>2. CASE text[i] = name
      BY <1>1, <3>1, <3>2 DEF ToSet
    <3>3. CASE text[i] # name
      <4>1. new[k] = text[i]
        BY <1>1, <3>1, <3>3
      <4>2. QED
        BY <3>3, <4>1 DEF ToSet
    <3>4. QED
      BY <3>2, <3>3
  <2>2. QED
    BY <2>1 DEF ToSet
<1>7. \A i \in DOMAIN text : text[i] # name => off[i] + 1 \in DOMAIN new /\ new[off[i] + 1] = text[i]
  <2>1. TAKE i \in DOMAIN text
  <2>2. HAVE text[i] # name
  <2>3. ss[i] = <<text[i]>> /\ 1 \in DOMAIN ss[i] /\ ss[i][1] = text[i]
    BY <1>1, <2>2
  <2>4. QED
    BY <1>5, <2>3
<1>8. ToSet(text) \ {name} \subseteq ToSet(new)
  BY <1>7 DEF ToSet
<1>9. ASSUME NEW a, NEW b, a # name, b # name, Beside(text, a, b) PROVE Beside(new, a, b)
  <2>1. PICK i \in DOMAIN text : i + 1 \in DOMAIN text /\ text[i] = a /\ text[i + 1] = b
    BY <1>9 DEF Beside
  <2>2. Len(ss[i]) = 1 /\ off[i + 1] = off[i] + 1 /\ off[i] \in Nat
    <3>1. ss[i] = <<text[i]>>
      BY <1>1, <1>9, <2>1
    <3>2. Len(ss[i]) = 1
      BY <3>1
    <3>3. off[i + 1] = off[i] + Len(ss[i]) /\ off[i] \in Nat
      BY <1>5, <2>1
    <3>4. QED
      BY <3>2, <3>3
  <2>3. off[i] + 1 \in DOMAIN new /\ new[off[i] + 1] = a
    BY <1>7, <1>9, <2>1
  <2>4. off[i + 1] + 1 \in DOMAIN new /\ new[off[i + 1] + 1] = b
    BY <1>7, <1>9, <2>1
  <2>5. QED
    BY <2>2, <2>3, <2>4 DEF Beside
<1>10. ASSUME NEW a, NEW b, name \in ToSet(text), value = <<a, b>> PROVE Beside(new, a, b)
  <2>1. PICK i \in DOMAIN text : text[i] = name
    BY <1>10 DEF ToSet
  <2>2. ss[i] = <<a, b>> /\ 1 \in DOMAIN ss[i] /\ 2 \in DOMAIN ss[i] /\ ss[i][1] = a /\ ss[i][2] = b
    BY <1>1, <1>10, <2>1
  <2>3. off[i] + 1 \in DOMAIN new /\ new[off[i] + 1] = a /\ off[i] + 2 \in DOMAIN new /\ new[off[i] + 2] = b
    BY <1>5, <2>2
  <2>4. (off[i] + 1) + 1 = off[i] + 2
    BY <1>5
  <2>5. QED
    BY <2>3, <2>4 DEF Beside
<1>11. FilledIn(new, text, name, value, W)
  BY <1>5, <1>6, <1>8, <1>9, <1>10 DEF FilledIn
<1>12. QED
  BY <1>2, <1>4, <1>11

Filling(f, text, values, W) ==
  /\ f \in [0..Len(values) -> Seq(W)] /\ f[0] = text
  /\ \A n \in 1..Len(values) : f[n] = Fill(f[n - 1], values[n][1], values[n][2])

LEMMA FillAllIs ==
  ASSUME NEW W, NEW text \in Seq(W), NEW values, Len(values) \in Nat,
         \A n \in 1..Len(values) : values[n][2] \in Seq(W)
  PROVE  \E f : Filling(f, text, values, W) /\ FillAll(text, values) = f[Len(values)]
<1> DEFINE N == Len(values)
           Step(F, n) == IF n = 0 THEN text ELSE Fill(F[n - 1], values[n][1], values[n][2])
           F == CHOOSE F : F = [n \in 0..Len(values) |-> Step(F, n)]
           g == [n \in 1..N |-> [s \in Seq(W) |-> Fill(s, values[n][1], values[n][2])]]
<1>1. N \in Nat
  OBVIOUS
<1>2. ASSUME NEW n \in 1..N, NEW s \in Seq(W) PROVE Fill(s, values[n][1], values[n][2]) \in Seq(W)
  BY FillIs DEF FilledIn
<1>3. g \in [1..N -> [Seq(W) -> Seq(W)]] /\ \A n \in 1..N : \A s \in Seq(W) : g[n][s] = Fill(s, values[n][1], values[n][2])
  BY <1>2
<1> HIDE DEF g
<1>4. PICK f : GoesOn(f, N, Seq(W), text, g)
  <2> HIDE DEF N
  <2>1. QED
    BY <1>1, <1>3, Recursion
<1>5. f \in [0..N -> Seq(W)] /\ f[0] = text /\ \A n \in 1..N : f[n] = Fill(f[n - 1], values[n][1], values[n][2])
  <2>1. \A n \in 1..N : n - 1 \in 0..N
    BY <1>1
  <2>2. f \in [0..N -> Seq(W)] /\ f[0] = text /\ \A n \in 1..N : f[n] = g[n][f[n - 1]]
    BY <1>4 DEF GoesOn
  <2> HIDE DEF N
  <2>3. \A n \in 0..N : f[n] \in Seq(W)
    BY <2>2
  <2>4. ASSUME NEW n \in 1..N PROVE f[n] = Fill(f[n - 1], values[n][1], values[n][2])
    BY <1>3, <2>1, <2>2, <2>3
  <2>5. QED
    BY <2>2, <2>4
<1>6. f = [n \in 0..Len(values) |-> Step(f, n)]
  <2>1. \A n \in 0..N : n = 0 \/ (n \in 1..N /\ n # 0)
    BY <1>1
  <2>2. \A n \in 0..N : f[n] = Step(f, n)
    BY <1>5, <2>1
  <2> HIDE DEF Step
  <2>3. QED
    BY <1>5, <2>2
<1>7. F = [n \in 0..Len(values) |-> Step(F, n)]
  <2> HIDE DEF Step
  <2>1. QED
    BY <1>6
<1> HIDE DEF F
<1>8. FillAll(text, values) = F[N]
  BY DEF FillAll, F
<1>9. /\ F[0] = text
      /\ \A n \in 1..N : F[n] = Fill(F[n - 1], values[n][1], values[n][2])
  <2>1. 0 \in 0..N /\ \A n \in 1..N : n \in 0..N /\ n # 0
    BY <1>1
  <2>2. \A n \in 0..N : F[n] = Step(F, n)
    <3> HIDE DEF Step
    <3> QED
      BY <1>7
  <2>3. QED
    BY <2>1, <2>2
<1> DEFINE K == {n \in 0..N : F[n] = f[n]}
<1>10. 0 \in K
  BY <1>1, <1>5, <1>9
<1>11. ASSUME NEW n \in 1..N, n - 1 \in K PROVE n \in K
  <2>1. n \in 0..N /\ F[n - 1] = f[n - 1]
    BY <1>1, <1>11
  <2>2. QED
    BY <1>5, <1>9, <2>1
<1> HIDE DEF K
<1>12. N \in K
  <2>1. \A n \in 1..N : n - 1 \in K => n \in K
    BY <1>11
  <2> HIDE DEF N
  <2>2. 0..N \subseteq K
    BY <1>1, <1>10, <2>1, UpTo
  <2>3. QED
    BY <1>1, <2>2
<1>13. Filling(f, text, values, W) /\ F[N] = f[Len(values)]
  BY <1>5, <1>12 DEF K, Filling
<1>14. QED
  BY <1>8, <1>13

(* Words the core has for a name: none is itself a name.                   *)
Plain(words) == ToSet(words) \cap (Braces \cup {"refused"}) = {}
Left(text)   == ToSet(text) \cap Braces

LEMMA FillLeaves ==
  ASSUME NEW W, NEW new, NEW text, NEW name, NEW value, FilledIn(new, text, name, value, W),
         Plain(value), "refused" \notin ToSet(text)
  PROVE  Left(new) \subseteq Left(text) \ {name} /\ "refused" \notin ToSet(new)
BY DEF FilledIn, Plain, Left

LEMMA BesideHas ==
  ASSUME NEW W, NEW text \in Seq(W), NEW a, NEW b, Beside(text, a, b)
  PROVE  Has(text, <<a, b>>)
<1>1. PICK i \in DOMAIN text : i + 1 \in DOMAIN text /\ text[i] = a /\ text[i + 1] = b
  BY DEF Beside
<1>2. i - 1 \in 0..(Len(text) - 2) /\ (i - 1) + 1 = i /\ (i - 1) + 2 = i + 1
  BY <1>1
<1>3. Len(<<a, b>>) = 2 /\ DOMAIN <<a, b>> = {1, 2} /\ <<a, b>>[1] = a /\ <<a, b>>[2] = b
  OBVIOUS
<1>4. \A j \in DOMAIN <<a, b>> : text[(i - 1) + j] = <<a, b>>[j]
  BY <1>1, <1>2, <1>3
<1>5. QED
  BY <1>2, <1>3, <1>4 DEF Has

LEMMA PlainWords ==
  ASSUME NEW W, NEW a \in W, NEW b \in W, {a, b} \cap (Braces \cup {"refused"}) = {}
  PROVE  /\ <<a>> \in Seq(W) /\ Plain(<<a>>) /\ <<a, b>> \in Seq(W) /\ Plain(<<a, b>>)
         /\ <<>> \in Seq(W) /\ Plain(<<>>)
<1>1. ToSet(<<a>>) = {a} /\ ToSet(<<a, b>>) = {a, b} /\ ToSet(<<>>) = {}
  <2>1. DOMAIN <<a>> = {1} /\ DOMAIN <<a, b>> = {1, 2} /\ DOMAIN <<>> = {} /\ <<a>>[1] = a
        /\ <<a, b>>[1] = a /\ <<a, b>>[2] = b
    OBVIOUS
  <2>2. QED
    BY <2>1 DEF ToSet
<1>2. QED
  BY <1>1 DEF Plain

LEMMA OneToSix ==
  /\ \A n \in 1..6 : n \in {1, 2, 3, 4, 5, 6} /\ n - 1 \in 0..6 /\ n \in 0..6
  /\ 1..6 = {1, 2, 3, 4, 5, 6} /\ 0 \in 0..6 /\ 6 \in 0..6
  /\ 1 - 1 = 0 /\ 2 - 1 = 1 /\ 3 - 1 = 2 /\ 4 - 1 = 3 /\ 5 - 1 = 4 /\ 6 - 1 = 5
OBVIOUS

RoleNames == {"{doc_dir}", "{slug}", "{budget_line}", "{brief_path}", "{task_metrics}", "{metric_vocabulary}"}

LEMMA PromptIs ==
  ASSUME NEW v, NEW role, NEW text, text = v.texts[role], text \in Seq(ToSet(text)),
         "refused" \notin ToSet(text), Left(text) \subseteq RoleNames
  PROVE  /\ RolePrompt(JobUnder(v, role)) # Refused
         /\ role \in {"impl", "audit"} /\ "{budget_line}" \in ToSet(text) =>
              Has(RolePrompt(JobUnder(v, role)), <<"N", "35">>)
<1> DEFINE W == ToSet(text) \cup {"docs", "t", "N", "35", "brief", "no metrics", "metrics"}
           budget == IF role \in {"impl", "audit"} THEN <<"N", "35">> ELSE <<>>
<1>1. PICK values : values = << <<"{doc_dir}", <<"docs">> >>, <<"{slug}", <<"t">> >>, <<"{budget_line}", budget>>,
                                <<"{brief_path}", <<"brief">> >>, <<"{task_metrics}", <<"no metrics">> >>,
                                <<"{metric_vocabulary}", <<"metrics">> >> >>
  OBVIOUS
<1>2. RolePrompt(JobUnder(v, role)) = Checked(FillAll(text, values))
  <2>1. PICK given : given = JobUnder(v, role)
    OBVIOUS
  <2>2. /\ given.template = text /\ given.docs = "docs" /\ given.slug = "t" /\ given.brief = "brief"
        /\ BudgetLine(given) = budget /\ Metrics(given) = <<"no metrics">>
    BY <2>1 DEF JobUnder, BudgetLine, Metrics
  <2> HIDE DEF budget
  <2>3. RolePrompt(given) = Checked(FillAll(text, values))
    BY <1>1, <2>2 DEF RolePrompt
  <2>4. QED
    BY <2>1, <2>3
<1>3. text \in Seq(W) /\ budget \in Seq(W) /\ Plain(budget)
  <2>1. text \in Seq(W)
    <3> HIDE DEF W
    <3>1. ToSet(text) \subseteq W
      BY DEF W
    <3>2. QED
      BY <3>1
  <2>2. budget = <<>> \/ budget = <<"N", "35">>
    OBVIOUS
  <2>3. "N" \in W /\ "35" \in W
    OBVIOUS
  <2> HIDE DEF W, budget
  <2>4. {"N", "35"} \cap (Braces \cup {"refused"}) = {}
    BY DEF Braces, Filled
  <2>5. budget \in Seq(W) /\ Plain(budget)
    BY <2>2, <2>3, <2>4, PlainWords
  <2>6. QED
    BY <2>1, <2>5
<1>4. \A w \in {"docs", "t", "brief", "no metrics", "metrics"} : <<w>> \in Seq(W) /\ Plain(<<w>>)
  <2>1. TAKE w \in {"docs", "t", "brief", "no metrics", "metrics"}
  <2>2. w \in W
    OBVIOUS
  <2> HIDE DEF W
  <2>3. {w, w} \cap (Braces \cup {"refused"}) = {}
    BY DEF Braces, Filled
  <2>4. QED
    BY <2>2, <2>3, PlainWords
<1> HIDE DEF W, budget
<1>5. /\ Len(values) = 6
      /\ values[1][1] = "{doc_dir}" /\ values[2][1] = "{slug}" /\ values[3][1] = "{budget_line}"
      /\ values[4][1] = "{brief_path}" /\ values[5][1] = "{task_metrics}" /\ values[6][1] = "{metric_vocabulary}"
      /\ values[1][2] = <<"docs">> /\ values[2][2] = <<"t">> /\ values[3][2] = budget
      /\ values[4][2] = <<"brief">> /\ values[5][2] = <<"no metrics">> /\ values[6][2] = <<"metrics">>
  BY <1>1
<1>6. \A n \in 1..6 : values[n][2] \in Seq(W) /\ Plain(values[n][2])
  <2>1. \A n \in {1, 2, 3, 4, 5, 6} : values[n][2] \in {budget} \cup {<<w>> : w \in {"docs", "t", "brief", "no metrics", "metrics"}}
    BY <1>5
  <2>2. QED
    BY <1>3, <1>4, <2>1, OneToSix
<1>7. PICK t : Filling(t, text, values, W) /\ FillAll(text, values) = t[6]
  <2>1. Len(values) \in Nat /\ \A n \in 1..Len(values) : values[n][2] \in Seq(W)
    <3>1. Len(values) = 6 /\ 6 \in Nat
      BY <1>5
    <3>2. QED
      BY <1>6, <3>1, Zenon
  <2>2. PICK t : Filling(t, text, values, W) /\ FillAll(text, values) = t[Len(values)]
    BY <1>3, <2>1, FillAllIs
  <2>3. QED
    BY <1>5, <2>2
<1>8. \A n \in 1..6 : FilledIn(t[n], t[n - 1], values[n][1], values[n][2], W)
  <2>1. TAKE n \in 1..6
  <2>2. t \in [0..6 -> Seq(W)] /\ t[n] = Fill(t[n - 1], values[n][1], values[n][2]) /\ n - 1 \in 0..6
    BY <1>5, <1>7, OneToSix DEF Filling
  <2>3. t[n - 1] \in Seq(W) /\ values[n][2] \in Seq(W)
    BY <1>6, <2>2
  <2>4. QED
    BY <2>2, <2>3, FillIs
<1>9. t[0] = text /\ t[6] \in Seq(W)
  BY <1>5, <1>7, OneToSix DEF Filling
<1>10. \A n \in 1..6 : "refused" \notin ToSet(t[n - 1]) =>
         Left(t[n]) \subseteq Left(t[n - 1]) \ {values[n][1]} /\ "refused" \notin ToSet(t[n])
  BY <1>6, <1>8, FillLeaves
<1>11. Left(t[6]) = {} /\ "refused" \notin ToSet(t[6])
  <2>1. Left(t[1]) \subseteq Left(t[0]) \ {"{doc_dir}"} /\ "refused" \notin ToSet(t[1])
    <3>1. "refused" \notin ToSet(t[0])
      BY <1>9
    <3>2. QED
      BY <1>5, <1>10, <3>1, OneToSix
  <2>2. Left(t[2]) \subseteq Left(t[1]) \ {"{slug}"} /\ "refused" \notin ToSet(t[2])
    BY <1>5, <1>10, OneToSix, <2>1
  <2>3. Left(t[3]) \subseteq Left(t[2]) \ {"{budget_line}"} /\ "refused" \notin ToSet(t[3])
    BY <1>5, <1>10, OneToSix, <2>2
  <2>4. Left(t[4]) \subseteq Left(t[3]) \ {"{brief_path}"} /\ "refused" \notin ToSet(t[4])
    BY <1>5, <1>10, OneToSix, <2>3
  <2>5. Left(t[5]) \subseteq Left(t[4]) \ {"{task_metrics}"} /\ "refused" \notin ToSet(t[5])
    BY <1>5, <1>10, OneToSix, <2>4
  <2>6. Left(t[6]) \subseteq Left(t[5]) \ {"{metric_vocabulary}"} /\ "refused" \notin ToSet(t[6])
    BY <1>5, <1>10, OneToSix, <2>5
  <2>7. QED
    BY <1>9, <2>1, <2>2, <2>3, <2>4, <2>5, <2>6 DEF RoleNames
<1>12. RolePrompt(JobUnder(v, role)) = t[6]
  BY <1>2, <1>7, <1>11 DEF Checked, Left, ToSet
<1>13. t[6] # Refused
  BY <1>11 DEF Refused, ToSet
<1>14. ASSUME role \in {"impl", "audit"}, "{budget_line}" \in ToSet(text) PROVE Has(t[6], <<"N", "35">>)
  <2>1. budget = <<"N", "35">>
    BY <1>14 DEF budget
  <2>2. \A n \in 1..6 : values[n][1] # "{budget_line}" /\ "{budget_line}" \in ToSet(t[n - 1]) => "{budget_line}" \in ToSet(t[n])
    BY <1>8 DEF FilledIn
  <2>3. "{budget_line}" \in ToSet(t[2])
    <3>1. "{budget_line}" \in ToSet(t[1])
      BY <1>5, <1>9, <1>14, <2>2, OneToSix
    <3>2. QED
      BY <1>5, <2>2, <3>1, OneToSix
  <2>4. Beside(t[3], "N", "35")
    BY <1>5, <1>8, <2>1, <2>3, OneToSix DEF FilledIn
  <2>5. \A n \in {4, 5, 6} : Beside(t[n - 1], "N", "35") => Beside(t[n], "N", "35")
    <3>1. TAKE n \in {4, 5, 6}
    <3>2. values[n][1] # "N" /\ values[n][1] # "35" /\ n \in 1..6
      BY <1>5, OneToSix
    <3>3. QED
      BY <1>8, <3>2 DEF FilledIn
  <2>6. Beside(t[6], "N", "35")
    BY <2>4, <2>5
  <2>7. QED
    BY <1>9, <2>6, BesideHas
<1>15. QED
  BY <1>12, <1>13, <1>14

LEMMA SectionIs ==
  ASSUME NEW text, text \in Seq(ToSet(text)), NEW h, Section(text, h) # <<>>
  PROVE  /\ Section(text, h) \in Seq(ToSet(text)) /\ 1 \in DOMAIN Section(text, h)
         /\ \E i \in DOMAIN text : IsHeading(text, i, h) /\ Section(text, h)[1] = text[i]
<1> DEFINE tops == {i \in DOMAIN text : IsHeading(text, i, h)}
           top  == CHOOSE i \in tops : \A j \in tops : i <= j
           ends == {i \in DOMAIN text : i > top /\ text[i] \in DOMAIN Level /\ Level[text[i]] <= Level[text[top]]}
           last == IF ends = {} THEN Len(text) ELSE (CHOOSE i \in ends : \A j \in ends : i <= j) - 1
<1>1. /\ Section(text, h) = IF tops = {} THEN <<>> ELSE SubSeq(text, top, last)
      /\ tops \subseteq 1..Len(text) /\ ends \subseteq 1..Len(text) /\ Len(text) \in Nat
  <2>1. Section(text, h) = IF tops = {} THEN <<>> ELSE SubSeq(text, top, last)
    BY DEF Section
  <2>2. DOMAIN text = 1..Len(text) /\ Len(text) \in Nat
    OBVIOUS
  <2> HIDE DEF top, last
  <2>3. QED
    BY <2>1, <2>2
<1>2. tops # {}
  BY <1>1
<1>3. top \in tops
  <2>1. \E i \in tops : \A j \in tops : i <= j
    <3> HIDE DEF tops
    <3>1. tops \subseteq Nat
      BY <1>1
    <3>2. QED
      BY <1>2, <3>1, LeastNumber
  <2> HIDE DEF tops
  <2>2. QED
    BY <2>1
<1>4. top \in 1..Len(text) /\ IsHeading(text, top, h)
  BY <1>1, <1>3
<1>5. \A i \in ends : i \in 1..Len(text) /\ i > top
  BY <1>1
<1>6. last \in top..Len(text)
  <2>1. CASE ends = {}
    <3>1. last = Len(text)
      BY <2>1
    <3> HIDE DEF last, top, tops, ends
    <3>2. QED
      BY <1>1, <1>4, <3>1
  <2>2. CASE ends # {}
    <3> HIDE DEF ends
    <3>1. ends \subseteq Nat
      BY <1>1
    <3>2. \E i \in ends : \A j \in ends : i <= j
      BY <2>2, <3>1, LeastNumber
    <3>3. PICK e : e = CHOOSE i \in ends : \A j \in ends : i <= j
      OBVIOUS
    <3>4. e \in ends
      BY <3>2, <3>3
    <3>5. last = e - 1
      BY <2>2, <3>3
    <3> HIDE DEF last, top
    <3>6. QED
      BY <1>1, <1>4, <1>5, <3>4, <3>5
  <2>3. QED
    BY <2>1, <2>2
<1> HIDE DEF top, ends, last, tops
<1>7. PICK S : S = ToSet(text)
  OBVIOUS
<1>8. PICK s : s = SubSeq(text, top, last)
  OBVIOUS
<1>9. s \in Seq(S) /\ 1 \in DOMAIN s /\ s[1] = text[top]
  <2>1. text \in Seq(S) /\ top \in 1..Len(text) /\ last \in top..Len(text)
    BY <1>4, <1>6, <1>7
  <2>2. Len(s) = last - top + 1 /\ s \in Seq(S)
    BY <1>8, <2>1
  <2>3. last - top + 1 \in Nat /\ last - top + 1 >= 1
    BY <1>1, <2>1
  <2>4. s[1] = text[top]
    BY <1>8, <2>1, <2>3
  <2>5. QED
    BY <2>2, <2>3, <2>4
<1>10. Section(text, h) = s
  BY <1>1, <1>2, <1>8
<1>11. top \in DOMAIN text
  BY <1>4
<1>12. QED
  BY <1>4, <1>7, <1>9, <1>10, <1>11

LEMMA BriefIs ==
  ASSUME NEW v \in Proposals \cup Revisions, NEW role, ~MapProblem(v), NEW i \in DOMAIN Wanted(v, role)
  PROVE  \E j \in DOMAIN Brief(v, role) : IsHeading(Brief(v, role), j, Wanted(v, role)[i][2])
<1> DEFINE want == Wanted(v, role)
           part(n) == Section(Text(v, want[n][1]), want[n][2])
           ss == [n \in DOMAIN want |-> part(n)]
           W == UNION {ToSet(part(n)) : n \in DOMAIN want}
<1>1. /\ MapParses(v) /\ role \in DOMAIN v.map.roles /\ want = v.map.roles[role]
      /\ \A n \in DOMAIN want : part(n) # <<>>
  <2>1. MapParses(v) /\ ~HeadingGone(v)
    BY DEF MapProblem
  <2>2. role \in DOMAIN v.map.roles /\ want = v.map.roles[role]
    BY <2>1 DEF Wanted
  <2>3. QED
    BY <2>1, <2>2 DEF HeadingGone
<1>2. want \in Seq(ToSet(want))
  BY <1>1, GateConstants
<1> HIDE DEF want
<1>3. ASSUME NEW n \in DOMAIN want
      PROVE  /\ part(n) \in Seq(W) /\ 1 \in DOMAIN part(n)
             /\ \E k \in DOMAIN Text(v, want[n][1]) :
                  IsHeading(Text(v, want[n][1]), k, want[n][2]) /\ part(n)[1] = Text(v, want[n][1])[k]
  <2>1. PICK text : text = Text(v, want[n][1])
    OBVIOUS
  <2>2. text \in Seq(ToSet(text))
    <3>1. CASE want[n][1] \in DOMAIN v.texts
      BY <2>1, <3>1, GateConstants DEF Text
    <3>2. CASE want[n][1] \notin DOMAIN v.texts
      BY <2>1, <3>2 DEF Text
    <3>3. QED
      BY <3>1, <3>2
  <2>3. PICK h, s : h = want[n][2] /\ s = Section(text, h)
    OBVIOUS
  <2>4. s = part(n) /\ s # <<>>
    BY <1>1, <2>1, <2>3
  <2>5. /\ s \in Seq(ToSet(text)) /\ 1 \in DOMAIN s
        /\ \E k \in DOMAIN text : IsHeading(text, k, want[n][2]) /\ s[1] = text[k]
    <3>1. /\ s \in Seq(ToSet(text)) /\ 1 \in DOMAIN s
          /\ \E k \in DOMAIN text : IsHeading(text, k, h) /\ s[1] = text[k]
      <4>1. Section(text, h) # <<>>
        BY <2>3, <2>4
      <4>2. /\ Section(text, h) \in Seq(ToSet(text)) /\ 1 \in DOMAIN Section(text, h)
            /\ \E k \in DOMAIN text : IsHeading(text, k, h) /\ Section(text, h)[1] = text[k]
        BY <2>2, <4>1, SectionIs
      <4>3. QED
        BY <2>3, <4>2
    <3>2. QED
      BY <2>3, <3>1
  <2>6. ToSet(s) \subseteq W
    BY <2>4
  <2> HIDE DEF W
  <2>7. s \in Seq(W)
    BY <2>5, <2>6 DEF ToSet
  <2>8. QED
    BY <2>1, <2>4, <2>5, <2>7
<1> HIDE DEF W
<1>4. ss \in Seq(Seq(W)) /\ DOMAIN ss = DOMAIN want /\ \A n \in DOMAIN want : ss[n] = part(n)
  <2>1. DOMAIN want = 1..Len(want) /\ Len(want) \in Nat
    BY <1>2
  <2> HIDE DEF part
  <2>2. ss \in [1..Len(want) -> Seq(W)]
    BY <1>3, <2>1
  <2>3. \A f \in [1..Len(want) -> Seq(W)] : f \in Seq(Seq(W))
    BY <2>1
  <2>4. QED
    BY <2>2, <2>3
<1>5. Brief(v, role) = FlattenSeq(ss)
  BY DEF Brief, want
<1> HIDE DEF ss, part
<1>6. PICK off : Joined(FlattenSeq(ss), ss, off, W)
  BY <1>4, FlattenIs
<1>7. PICK brief : brief = FlattenSeq(ss)
  OBVIOUS
<1>8. i \in DOMAIN want
  BY DEF want
<1>9. off[i] + 1 \in DOMAIN brief /\ brief[off[i] + 1] = part(i)[1]
  BY <1>3, <1>4, <1>6, <1>7, <1>8 DEF Joined
<1>10. IsHeading(brief, off[i] + 1, want[i][2])
  BY <1>3, <1>8, <1>9 DEF IsHeading
<1>11. QED
  BY <1>5, <1>7, <1>9, <1>10 DEF want

LEMMA PassedIsFit ==
  ASSUME NEW v \in Proposals \cup Revisions, ~Failed(v), NEW role \in Roles
  PROVE  /\ role \in DOMAIN v.texts
         /\ ToSet(v.texts[role]) \cap ForIntakeOnly = {} =>
              /\ RolePrompt(JobUnder(v, role)) # Refused
              /\ role \in {"impl", "audit"} => Has(RolePrompt(JobUnder(v, role)), <<"N", "35">>)
         /\ \A i \in DOMAIN Wanted(v, role) :
              \E j \in DOMAIN Brief(v, role) : IsHeading(Brief(v, role), j, Wanted(v, role)[i][2])
<1>1. ~PhraseProblem(v) /\ ~PlaceholderProblem(v) /\ ~MapProblem(v)
  BY DEF Failed
<1>2. role \in DOMAIN v.texts
  <2>1. PICK p \in Required : p[1] = role
    BY GateConstants
  <2>2. p[2] \in ToSet(Text(v, role))
    BY <1>1, <2>1 DEF PhraseProblem, SaysIt
  <2>3. Text(v, role) # <<>>
    BY <2>2 DEF ToSet
  <2>4. QED
    BY <2>3 DEF Text
<1>3. PICK text : text = v.texts[role]
  OBVIOUS
<1>4. text \in Seq(ToSet(text)) /\ "refused" \notin ToSet(text)
  BY <1>2, <1>3, GateConstants
<1>5. ToSet(text) \cap Braces \subseteq Filled
  <2>1. role \in Templates /\ Text(v, role) = text
    BY <1>2, <1>3 DEF Templates, Text
  <2>2. QED
    BY <1>1, <2>1 DEF PlaceholderProblem
<1>6. role \in {"impl", "audit"} => "{budget_line}" \in ToSet(text)
  BY <1>1, <1>2, <1>3 DEF PlaceholderProblem
<1>7. ASSUME ToSet(text) \cap ForIntakeOnly = {}
      PROVE  /\ RolePrompt(JobUnder(v, role)) # Refused
             /\ role \in {"impl", "audit"} => Has(RolePrompt(JobUnder(v, role)), <<"N", "35">>)
  <2>1. Left(text) \subseteq RoleNames
    BY <1>5, <1>7 DEF Left, RoleNames, ForIntakeOnly, Filled
  <2>2. QED
    BY <1>3, <1>4, <1>6, <2>1, PromptIs
<1>8. \A i \in DOMAIN Wanted(v, role) :
        \E j \in DOMAIN Brief(v, role) : IsHeading(Brief(v, role), j, Wanted(v, role)[i][2])
  BY <1>1, BriefIs
<1>9. QED
  BY <1>2, <1>3, <1>7, <1>8

(* The versions the static layers accept; one of them is what has been     *)
(* judged and not failed.                                                  *)
Accepted   == {v \in Proposals \cup Revisions : ~Failed(v)}
ReadJudged == ev.at = "judged" /\ ev.static = 0 => ev.read \in Accepted

LEMMA ReadStands ==
  ASSUME Evaluations, ReadJudged, [GateNext]_gateVars
  PROVE  ReadJudged'
<1>1. Fields(ev) /\ version \in Proposals \cup Revisions
  BY DEF Evaluations
<1>2. Accepted' = Accepted
  BY DEF Accepted
<1>3. ASSUME ev'.at # "judged" PROVE ReadJudged'
  BY <1>3 DEF ReadJudged
<1>4. ASSUME ev' = ev PROVE ReadJudged'
  BY <1>2, <1>4 DEF ReadJudged
<1>5. ASSUME NEW e, Ungraded(e), ev' = NextRun(e) PROVE ReadJudged'
  BY <1>3, <1>5, RunIsNext DEF Ungraded
<1>6. ASSUME NEW scope, NEW tag, Evaluate(scope, tag) PROVE ReadJudged'
  <2> DEFINE code == IF ~version.readable THEN 2 ELSE IF Failed(version) THEN 1 ELSE 0
             at == IF scope = "none" THEN "done" ELSE "judged"
  <2>1. ev' = [ev EXCEPT !.at = at, !.scope = scope, !.tag = tag, !.static = code, !.code = code, !.read = version]
    BY <1>6 DEF Evaluate
  <2>2. code = 0 => version \in Accepted
    BY <1>1 DEF Accepted
  <2> HIDE DEF code, at
  <2>3. ev'.static = code /\ ev'.read = version
    BY <1>1, <2>1 DEF Fields
  <2>4. QED
    BY <1>2, <2>2, <2>3 DEF ReadJudged
<1>7. CASE BeginBehaviour
  BY <1>1, <1>3, <1>7 DEF BeginBehaviour, Fields
<1>8. CASE TakeCase
  <2>1. ev.at = "cases"
    BY <1>8 DEF TakeCase
  <2>2. \/ ev' = [ev EXCEPT !.cases = Tail(@)]
        \/ ev' = [ev EXCEPT !.cases = Tail(@), !.code = Worse(@, 1)]
        \/ \E yes, votes : ev' = [ev EXCEPT !.at = "run", !.run = 1, !.errors = FALSE, !.over = FALSE,
                                         !.yes = yes, !.votes = votes]
    BY <1>8 DEF TakeCase
  <2>3. QED
    BY <1>1, <1>3, <2>1, <2>2 DEF Fields
<1>9. CASE Session
  BY <1>1, <1>3, <1>5, <1>9, SessionIs
<1>10. CASE Grade
  <2>1. PICK e : Ungraded(e) /\ e.at = "grade" /\ ev' = NextGrader(e)
    BY <1>1, <1>10, GradeIs
  <2>2. CASE ev' = NextRun(e)
    BY <1>5, <2>1, <2>2
  <2>3. CASE ev' = [e EXCEPT !.grader = @ + 1]
    BY <1>3, <2>1, <2>3 DEF Ungraded, Fields
  <2>4. QED
    BY <2>1, <2>2, <2>3 DEF NextGrader
<1>11. CASE Finish
  BY <1>1, <1>3, <1>11 DEF Finish, Fields
<1>12. CASE Edit
  BY <1>4, <1>12 DEF Edit
<1>13. CASE UNCHANGED gateVars
  BY <1>4, <1>13 DEF gateVars
<1>14. QED
  BY <1>6, <1>7, <1>8, <1>9, <1>10, <1>11, <1>12, <1>13, GateNextIs

(* A version the static layers accept (eval.rs check) can be run: no round *)
(* is refused its prompt, the two rounds with a budget are told it         *)
(* (launcher.rs role_prompt), and every brief quotes each section the      *)
(* version's map promises (brief.rs build).                                *)
THEOREM PassedVersionsRun == GateSpec => []PassedCanRun
<1>1. GateInit => Evaluations /\ ReadJudged
  <2>1. GateInit => ev.at = "idle"
    <3>1. GateInit => ev = Idle
      BY DEF GateInit
    <3>2. Idle.at = "idle"
      BY DEF Idle
    <3>3. QED
      BY <3>1, <3>2
  <2>2. GateInit => Evaluations
    BY GateStarts DEF GateInductive
  <2>3. QED
    BY <2>1, <2>2 DEF ReadJudged
<1>2. Evaluations /\ ReadJudged /\ [GateNext]_gateVars => (Evaluations /\ ReadJudged)'
  BY EvaluationsStand, ReadStands
<1>3. ReadJudged => PassedCanRun
  BY PassedIsFit DEF ReadJudged, Accepted, PassedCanRun
<1>4. QED
  BY <1>1, <1>2, <1>3, PTL DEF GateSpec

---------------------------------------------------------------------------
(* The pipe: whatever pieces it makes of the bytes, frames arrive whole.   *)

CONSTANTS Scripts, Prefix, Base, MaxFrame
VARIABLES topic, doc, r

F == INSTANCE Framing

(* What was written: frame after frame, each from where the one before it  *)
(* ends.  `w` is the bytes and at[i] the place the i-th frame ends.        *)
FramedWritten(d, w, at) ==
  /\ d \in Seq(F!Payloads) /\ w \in Seq(F!Bytes) /\ at \in [0..Len(d) -> 0..Len(w)]
  /\ at[0] = 0 /\ at[Len(d)] = Len(w)
  /\ \A i \in 1..Len(d) :
       /\ at[i] = at[i - 1] + Prefix + Len(d[i])
       /\ \A m \in 1..Prefix : w[at[i - 1] + m] = F!Header(Len(d[i]))[m]
       /\ \A m \in 1..Len(d[i]) : w[at[i - 1] + Prefix + m] = d[i][m]

(* From n on, s is of w.                                                   *)
Piece(s, w, n) == s \in Seq(F!Bytes) /\ n + Len(s) <= Len(w) /\ \A m \in 1..Len(s) : s[m] = w[n + m]

Stops == {"none", "too large", "end"}
Pipes ==
  [pipe : Seq(F!Bytes), over : BOOLEAN, buffer : Seq(F!Bytes), frames : Seq(F!Payloads), err : Stops]

(* The reader is at the end of a frame: it has handed on those before it,  *)
(* and holds what has come of those after it.                              *)
Aligned(d, w, at, p) ==
  /\ p \in Pipes /\ Len(p.frames) <= Len(d)
  /\ \A i \in 1..Len(p.frames) : p.frames[i] = d[i] /\ Len(d[i]) <= MaxFrame
  /\ Piece(p.buffer, w, at[Len(p.frames)])
  /\ Piece(p.pipe, w, at[Len(p.frames)] + Len(p.buffer))
  /\ ~p.over => at[Len(p.frames)] + Len(p.buffer) + Len(p.pipe) = Len(w)

(* Nothing can be taken out of what it holds.                              *)
AtRest(p) ==
  /\ p.err = "none" => ~F!Whole(p) /\ ~F!TooLong(p)
  /\ p.err = "too large" => F!TooLong(p)

FramingInductive == \E w, at : FramedWritten(doc, w, at) /\ Aligned(doc, w, at, r) /\ AtRest(r)

---------------------------------------------------------------------------
(* A length is what its bytes say, whatever stands behind them.            *)
LEMMA SameLength ==
  ASSUME NEW a, NEW b, \A m \in 1..Prefix : a[m] = b[m], Prefix \in Nat
  PROVE  F!LengthOf(a) = F!LengthOf(b)
<1> DEFINE Up(s, f) == [n \in 0..Prefix |-> IF n = 0 THEN 0 ELSE f[n - 1] * Base + s[n]]
<1>1. \A f : Up(a, f) = Up(b, f)
  <2>1. ASSUME NEW f, NEW n \in 0..Prefix
        PROVE  (IF n = 0 THEN 0 ELSE f[n - 1] * Base + a[n]) = (IF n = 0 THEN 0 ELSE f[n - 1] * Base + b[n])
    <3>1. CASE n = 0
      BY <3>1
    <3>2. CASE n # 0
      <4>1. n \in 1..Prefix
        BY <3>2
      <4>2. a[n] = b[n]
        BY <4>1
      <4>3. QED
        BY <3>2, <4>2
    <3>3. QED
      BY <3>1, <3>2
  <2>2. QED
    BY <2>1, Zenon
<1> DEFINE A == CHOOSE f : f = Up(a, f)
           B == CHOOSE f : f = Up(b, f)
<1>2. A = B
  <2>1. \A f : f = Up(a, f) <=> f = Up(b, f)
    BY <1>1
  <2> HIDE DEF Up
  <2>2. QED
    BY <2>1, Zenon
<1>3. F!LengthOf(a) = A[Prefix] /\ F!LengthOf(b) = B[Prefix]
  BY DEF F!LengthOf
<1>4. QED
  BY <1>2, <1>3

(* A payload's header says its length.                                     *)
LEMMA HeaderIs ==
  ASSUME NEW payload \in F!Payloads, F!FramingConstants
  PROVE  /\ F!Header(Len(payload)) \in [1..Prefix -> F!Bytes]
         /\ F!LengthOf(F!Header(Len(payload))) = Len(payload)
         /\ payload \in Seq(F!Bytes) /\ Len(payload) \in Nat
<1>1. payload \in Seq(F!Bytes) /\ \E bytes \in [1..Prefix -> F!Bytes] : F!LengthOf(bytes) = Len(payload)
  BY DEF F!Payloads
<1>2. Len(payload) \in Nat
  BY <1>1
<1>3. PICK n : n = Len(payload)
  OBVIOUS
<1>4. \E bytes \in [1..Prefix -> F!Bytes] : F!LengthOf(bytes) = n
  BY <1>1, <1>3
<1>5. F!Header(n) \in [1..Prefix -> F!Bytes] /\ F!LengthOf(F!Header(n)) = n
  BY <1>4, Zenon DEF F!Header
<1>6. QED
  BY <1>1, <1>2, <1>3, <1>5

(* What it takes to be a length is that of the next frame.                 *)
LEMMA ClaimIs ==
  ASSUME F!FramingConstants, NEW d, NEW w, NEW at, NEW p, FramedWritten(d, w, at), Aligned(d, w, at, p),
         F!Headed(p)
  PROVE  LET i == Len(p.frames) + 1
         IN  /\ i \in 1..Len(d) /\ F!Claims(p) = Len(d[i]) /\ F!Claims(p) \in Nat
             /\ d[i] \in F!Payloads /\ d[i] \in Seq(F!Bytes)
             /\ at[i] = at[i - 1] + Prefix + F!Claims(p)
             /\ \A m \in 1..F!Claims(p) : w[at[i - 1] + Prefix + m] = d[i][m]
<1> DEFINE k == Len(p.frames)
<1>1. k \in Nat /\ k <= Len(d) /\ Len(d) \in Nat /\ Prefix \in Nat /\ Prefix # 0
  BY DEF FramedWritten, Aligned, Pipes, F!FramingConstants
<1>2. at[k] \in Nat /\ Len(p.buffer) \in Nat /\ Len(w) \in Nat
  <2>1. k \in 0..Len(d)
    BY <1>1
  <2>2. QED
    BY <2>1 DEF FramedWritten, Aligned, Pipes
<1>3. at[k] + Len(p.buffer) <= Len(w) /\ Len(p.buffer) >= Prefix
  BY DEF Aligned, Piece, F!Headed
<1>4. k # Len(d)
  <2>1. at[Len(d)] = Len(w)
    BY DEF FramedWritten
  <2>2. QED
    BY <1>1, <1>2, <1>3, <2>1
<1>5. k + 1 \in 1..Len(d) /\ (k + 1) - 1 = k
  BY <1>1, <1>4
<1>6. PICK i \in 1..Len(d) : i = k + 1 /\ i - 1 = k
  BY <1>5
<1>7. d[i] \in F!Payloads
  BY <1>6 DEF FramedWritten
<1>8. /\ at[i] = at[k] + Prefix + Len(d[i])
      /\ \A m \in 1..Prefix : w[at[k] + m] = F!Header(Len(d[i]))[m]
      /\ \A m \in 1..Len(d[i]) : w[at[k] + Prefix + m] = d[i][m]
  BY <1>6 DEF FramedWritten
<1>9. \A m \in 1..Prefix : p.buffer[m] = F!Header(Len(d[i]))[m]
  <2>1. \A m \in 1..Len(p.buffer) : p.buffer[m] = w[at[k] + m]
    BY DEF Aligned, Piece
  <2>2. 1..Prefix \subseteq 1..Len(p.buffer)
    BY <1>1, <1>2, <1>3
  <2>3. QED
    BY <1>8, <2>1, <2>2
<1>10. F!LengthOf(p.buffer) = F!LengthOf(F!Header(Len(d[i])))
  <2>1. PICK a, b : a = p.buffer /\ b = F!Header(Len(d[i]))
    OBVIOUS
  <2>2. F!LengthOf(a) = F!LengthOf(b)
    BY <1>1, <1>9, <2>1, SameLength
  <2>3. QED
    BY <2>1, <2>2
<1>11. F!Claims(p) = Len(d[i]) /\ Len(d[i]) \in Nat /\ d[i] \in Seq(F!Bytes)
  <2>1. PICK payload \in F!Payloads : payload = d[i]
    BY <1>7
  <2>2. F!LengthOf(F!Header(Len(payload))) = Len(payload) /\ payload \in Seq(F!Bytes) /\ Len(payload) \in Nat
    BY <2>1, HeaderIs
  <2>3. QED
    BY <1>10, <2>1, <2>2 DEF F!Claims
<1>12. QED
  BY <1>6, <1>7, <1>8, <1>11

---------------------------------------------------------------------------
(* A turn of the loop keeps to the frames, and takes something out.        *)
LEMMA CutIs ==
  ASSUME NEW s \in Seq(F!Bytes), NEW m \in 1..(Len(s) + 1), NEW n \in 0..Len(s), m <= n + 1,
         NEW t, t = SubSeq(s, m, n)
  PROVE  t \in Seq(F!Bytes) /\ Len(t) = (n + 1) - m /\ \A j \in 1..Len(t) : t[j] = s[(m - 1) + j]
<1>1. Len(s) \in Nat /\ m \in Nat /\ n \in Nat
  OBVIOUS
<1>2. t \in Seq(F!Bytes) /\ Len(t) = (n + 1) - m
  BY <1>1
<1>3. ASSUME NEW j \in 1..Len(t) PROVE t[j] = s[(m - 1) + j]
  <2>1. j \in 1..(n - m + 1) /\ m + j - 1 = (m - 1) + j
    BY <1>1, <1>2
  <2>2. t[j] = s[m + j - 1]
    BY <1>1, <2>1
  <2>3. QED
    BY <2>1, <2>2
<1>4. QED
  BY <1>2, <1>3

LEMMA OneIsTaken ==
  ASSUME F!FramingConstants, NEW d, NEW w, NEW at, NEW p, FramedWritten(d, w, at), Aligned(d, w, at, p),
         F!Whole(p)
  PROVE  /\ Aligned(d, w, at, F!TakeOne(p))
         /\ F!TakeOne(p).err = p.err /\ Len(F!TakeOne(p).buffer) < Len(p.buffer)
<1>1. F!Headed(p) /\ ~F!TooLong(p) /\ Len(p.buffer) >= Prefix + F!Claims(p)
  BY DEF F!Whole
<1>2. PICK c, k, i, n : c = F!Claims(p) /\ k = Len(p.frames) /\ i = k + 1 /\ n = Prefix + c
  OBVIOUS
<1>3. /\ i \in 1..Len(d) /\ c = Len(d[i]) /\ c \in Nat /\ d[i] \in F!Payloads /\ d[i] \in Seq(F!Bytes)
      /\ at[i] = at[k] + Prefix + c /\ k \in Nat /\ i - 1 = k
      /\ \A m \in 1..c : w[at[k] + Prefix + m] = d[i][m]
  <2>1. k \in Nat /\ i - 1 = k
    BY <1>2 DEF Aligned, Pipes
  <2>2. /\ i \in 1..Len(d) /\ c = Len(d[i]) /\ c \in Nat /\ d[i] \in F!Payloads /\ d[i] \in Seq(F!Bytes)
        /\ at[i] = at[i - 1] + Prefix + c
        /\ \A m \in 1..c : w[at[i - 1] + Prefix + m] = d[i][m]
    BY <1>1, <1>2, ClaimIs
  <2>3. QED
    BY <2>1, <2>2
<1>4. /\ p \in Pipes /\ Prefix \in Nat /\ Prefix # 0 /\ n \in Nat /\ n # 0
      /\ Len(p.buffer) \in Nat /\ n <= Len(p.buffer) /\ Len(d) \in Nat /\ MaxFrame \in Nat
      /\ p.buffer \in Seq(F!Bytes) /\ p.pipe \in Seq(F!Bytes) /\ Len(p.pipe) \in Nat /\ Len(w) \in Nat
  BY <1>1, <1>2, <1>3 DEF Aligned, Pipes, F!FramingConstants, FramedWritten
<1>5. c \in Nat /\ n = Prefix + c /\ Prefix \in Nat /\ k \in Nat /\ i = k + 1 /\ n \in Nat
  BY <1>2, <1>3, <1>4
<1>6. at[k] \in Nat /\ at[i] \in Nat /\ at[i] = at[k] + n
  <2>1. k \in 0..Len(d) /\ i \in 0..Len(d)
    BY <1>3, <1>4
  <2>2. at[k] \in 0..Len(w) /\ at[i] \in 0..Len(w)
    BY <2>1 DEF FramedWritten
  <2>3. at[i] = at[k] + Prefix + c /\ Len(w) \in Nat
    BY <1>3, <1>4
  <2>4. at[k] \in Nat /\ at[i] \in Nat
    BY <2>2, <2>3
  <2>5. QED
    BY <1>5, <2>3, <2>4
<1>7. PICK body, rest : body = SubSeq(p.buffer, Prefix + 1, n) /\ rest = SubSeq(p.buffer, n + 1, Len(p.buffer))
  OBVIOUS
<1>8. body \in Seq(F!Bytes) /\ Len(body) = c /\ \A j \in 1..c : body[j] = p.buffer[Prefix + j]
  <2>1. PICK m, b : m = Prefix + 1 /\ b = p.buffer
    OBVIOUS
  <2>2. m \in 1..(Len(b) + 1) /\ n \in 0..Len(b) /\ m <= n + 1 /\ (n + 1) - m = c /\ m - 1 = Prefix
    <3>1. Len(b) \in Nat /\ n <= Len(b)
      BY <1>4, <2>1
    <3>2. QED
      BY <1>5, <2>1, <3>1
  <2>3. body \in Seq(F!Bytes) /\ Len(body) = (n + 1) - m /\ \A j \in 1..Len(body) : body[j] = b[(m - 1) + j]
    <3>1. b \in Seq(F!Bytes) /\ body = SubSeq(b, m, n)
      BY <1>4, <1>7, <2>1
    <3>2. QED
      BY <2>2, <3>1, CutIs
  <2>4. QED
    BY <2>2, <2>1, <2>3
<1>9. rest \in Seq(F!Bytes) /\ Len(rest) = Len(p.buffer) - n /\ \A j \in 1..Len(rest) : rest[j] = p.buffer[n + j]
  <2>1. PICK m, e, b : m = n + 1 /\ e = Len(b) /\ b = p.buffer
    OBVIOUS
  <2>2. m \in 1..(Len(b) + 1) /\ e \in 0..Len(b) /\ m <= e + 1 /\ (e + 1) - m = e - n /\ m - 1 = n
    <3>1. Len(b) \in Nat /\ n <= Len(b)
      BY <1>4, <2>1
    <3>2. QED
      BY <1>4, <2>1, <3>1
  <2>3. rest \in Seq(F!Bytes) /\ Len(rest) = (e + 1) - m /\ \A j \in 1..Len(rest) : rest[j] = b[(m - 1) + j]
    <3>1. b \in Seq(F!Bytes) /\ rest = SubSeq(b, m, e)
      BY <1>4, <1>7, <2>1
    <3>2. QED
      BY <2>2, <3>1, CutIs
  <2>4. QED
    BY <2>2, <2>1, <2>3
<1>10. Piece(p.buffer, w, at[k])
  BY <1>2 DEF Aligned
<1>11. body = d[i]
  <2>1. ASSUME NEW j \in 1..c PROVE body[j] = d[i][j]
    <3>1. Prefix + j \in 1..Len(p.buffer)
      BY <1>2, <1>3, <1>4
    <3>2. p.buffer[Prefix + j] = w[at[k] + (Prefix + j)]
      BY <1>10, <3>1 DEF Piece
    <3>3. at[k] + (Prefix + j) = at[k] + Prefix + j
      BY <1>3, <1>4, <1>6
    <3>4. QED
      BY <1>3, <1>8, <3>2, <3>3
  <2>2. QED
    BY <1>3, <1>8, <2>1
<1>12. PICK q : q = F!TakeOne(p)
  OBVIOUS
<1>13. PICK frames : frames = Append(p.frames, body)
  OBVIOUS
<1>14. q = [p EXCEPT !.frames = frames, !.buffer = rest]
  BY <1>2, <1>7, <1>12, <1>13 DEF F!TakeOne
<1>15. /\ frames \in Seq(F!Payloads) /\ Len(frames) = i /\ frames[i] = d[i]
       /\ \A j \in 1..k : frames[j] = p.frames[j]
  <2>1. p.frames \in Seq(F!Payloads) /\ body \in F!Payloads
    BY <1>3, <1>4, <1>11 DEF Pipes
  <2>2. QED
    BY <1>2, <1>11, <1>13, <2>1
<1>16. /\ q \in Pipes /\ q.frames = frames /\ q.buffer = rest /\ q.pipe = p.pipe /\ q.over = p.over
       /\ q.err = p.err
  BY <1>4, <1>9, <1>14, <1>15 DEF Pipes
<1>17. Len(d[i]) <= MaxFrame
  BY <1>1, <1>2, <1>3, <1>4 DEF F!TooLong
<1>18. \A j \in 1..i : frames[j] = d[j] /\ Len(d[j]) <= MaxFrame
  <2>1. \A j \in 1..i : j = i \/ j \in 1..k
    BY <1>2, <1>4
  <2>2. \A j \in 1..k : p.frames[j] = d[j] /\ Len(d[j]) <= MaxFrame
    BY <1>2 DEF Aligned
  <2>3. QED
    BY <1>15, <1>17, <2>1, <2>2
<1>19. Piece(rest, w, at[i])
  <2>1. at[k] + Len(p.buffer) <= Len(w) /\ \A m \in 1..Len(p.buffer) : p.buffer[m] = w[at[k] + m]
    BY <1>10 DEF Piece
  <2>2. at[i] + Len(rest) <= Len(w)
    BY <1>4, <1>6, <1>9, <2>1
  <2>3. ASSUME NEW j \in 1..Len(rest) PROVE rest[j] = w[at[i] + j]
    <3>1. n + j \in 1..Len(p.buffer) /\ at[k] + (n + j) = at[i] + j
      BY <1>4, <1>6, <1>9
    <3>2. QED
      BY <1>9, <2>1, <3>1
  <2>4. QED
    BY <1>9, <2>2, <2>3 DEF Piece
<1>20. at[i] + Len(rest) = at[k] + Len(p.buffer)
  BY <1>4, <1>6, <1>9
<1>21. Piece(q.pipe, w, at[i] + Len(rest))
  BY <1>2, <1>16, <1>20 DEF Aligned
<1>22. ~q.over => at[i] + Len(rest) + Len(q.pipe) = Len(w)
  <2>1. ~p.over => at[k] + Len(p.buffer) + Len(p.pipe) = Len(w)
    BY <1>2 DEF Aligned
  <2>2. QED
    BY <1>16, <1>20, <2>1
<1>23. Aligned(d, w, at, q)
  BY <1>3, <1>15, <1>16, <1>18, <1>19, <1>21, <1>22 DEF Aligned
<1>24. Len(q.buffer) < Len(p.buffer)
  BY <1>4, <1>9, <1>16
<1>25. QED
  BY <1>12, <1>16, <1>23, <1>24

(* The loop ends where nothing more can be taken.                          *)
LEMMA DrainedHolds ==
  ASSUME F!FramingConstants, NEW d, NEW w, NEW at, NEW p, FramedWritten(d, w, at), Aligned(d, w, at, p),
         p.err = "none"
  PROVE  Aligned(d, w, at, F!Drained(p)) /\ AtRest(F!Drained(p))
<1> DEFINE N == Len(p.buffer)
           S == {q \in Pipes : Aligned(d, w, at, q) /\ q.err = "none"}
           g == [n \in 1..N |-> [q \in S |-> F!Turn(q)]]
           Up(f) == [k \in 0..Len(p.buffer) |-> IF k = 0 THEN p ELSE F!Turn(f[k - 1])]
           after == CHOOSE f : f = Up(f)
<1>1. N \in Nat /\ p \in S
  BY DEF Aligned, Pipes
<1>2. ASSUME NEW q \in S PROVE F!Turn(q) \in S /\ (~F!Whole(q) => F!Turn(q) = q) /\ (F!Whole(q) => Len(F!Turn(q).buffer) < Len(q.buffer))
  <2>1. CASE F!Whole(q)
    <3>1. Aligned(d, w, at, F!TakeOne(q)) /\ F!TakeOne(q).err = "none" /\ Len(F!TakeOne(q).buffer) < Len(q.buffer)
      BY <1>2, <2>1, OneIsTaken
    <3>2. F!TakeOne(q) \in Pipes
      BY <3>1 DEF Aligned
    <3>3. QED
      BY <2>1, <3>1, <3>2 DEF F!Turn
  <2>2. CASE ~F!Whole(q)
    BY <1>2, <2>2 DEF F!Turn
  <2>3. QED
    BY <2>1, <2>2
<1>3. g \in [1..N -> [S -> S]] /\ \A n \in 1..N : \A q \in S : g[n][q] = F!Turn(q)
  <2> HIDE DEF S, N
  <2>1. QED
    BY <1>2
<1> HIDE DEF g
<1>4. PICK f : GoesOn(f, N, S, p, g)
  <2> HIDE DEF N, S
  <2>1. QED
    BY <1>1, <1>3, Recursion
<1>5. f \in [0..N -> S] /\ f[0] = p /\ \A n \in 1..N : n - 1 \in 0..N /\ f[n] = F!Turn(f[n - 1])
  <2>1. f \in [0..N -> S] /\ f[0] = p /\ \A n \in 1..N : f[n] = g[n][f[n - 1]]
    BY <1>4 DEF GoesOn
  <2>2. \A n \in 1..N : n - 1 \in 0..N
    BY <1>1
  <2> HIDE DEF N, S
  <2>3. QED
    BY <1>3, <2>1, <2>2
<1>6. f = Up(f)
  <2>1. ASSUME NEW n \in 0..N PROVE f[n] = IF n = 0 THEN p ELSE F!Turn(f[n - 1])
    <3>1. n = 0 \/ n \in 1..N
      BY <1>1
    <3>2. QED
      BY <1>1, <1>5, <3>1
  <2>2. f = [n \in 0..N |-> f[n]]
    BY <1>5
  <2>3. QED
    BY <2>1, <2>2
<1>7. after = Up(after)
  <2> HIDE DEF Up
  <2>1. QED
    BY <1>6
<1> HIDE DEF after
<1>8. \A n \in 0..N : after[n] = IF n = 0 THEN p ELSE F!Turn(after[n - 1])
  BY <1>7
<1> DEFINE Got(n) == after[n] \in S /\ (F!Whole(after[n]) => Len(after[n].buffer) <= N - n)
           K == {n \in 0..N : Got(n)}
<1>9. 0 \in K
  <2>1. 0 \in 0..N /\ after[0] = p /\ Len(after[0].buffer) <= N - 0
    BY <1>1, <1>8
  <2> HIDE DEF N, S
  <2>2. QED
    BY <1>1, <2>1
<1>10. ASSUME NEW n \in 1..N, n - 1 \in K PROVE n \in K
  <2>1. n \in 0..N /\ n # 0 /\ n \in Nat
    BY <1>1
  <2>2. PICK a, b : a = after[n - 1] /\ b = after[n]
    OBVIOUS
  <2>3. b = F!Turn(a) /\ a \in S /\ (F!Whole(a) => Len(a.buffer) <= N - (n - 1))
    BY <1>8, <1>10, <2>1, <2>2
  <2>4. b \in S /\ (~F!Whole(a) => b = a) /\ (F!Whole(a) => Len(b.buffer) < Len(a.buffer))
    BY <1>2, <2>3
  <2>5. Len(a.buffer) \in Nat /\ Len(b.buffer) \in Nat
    BY <2>3, <2>4 DEF Pipes
  <2>6. F!Whole(b) => Len(b.buffer) <= N - n
    <3> HIDE DEF S
    <3>1. SUFFICES ASSUME F!Whole(b) PROVE Len(b.buffer) <= N - n
      OBVIOUS
    <3>2. F!Whole(a)
      BY <2>4, <3>1
    <3>3. QED
      BY <1>1, <2>1, <2>3, <2>4, <2>5, <3>2
  <2>7. QED
    BY <2>1, <2>2, <2>4, <2>6
<1> HIDE DEF K
<1>11. N \in K
  <2>1. \A n \in 1..N : n - 1 \in K => n \in K
    BY <1>10
  <2> HIDE DEF N
  <2>2. 0..N \subseteq K
    BY <1>1, <1>9, <2>1, UpTo
  <2>3. QED
    BY <1>1, <2>2
<1>12. PICK q : q = after[N]
  OBVIOUS
<1>13. Aligned(d, w, at, q) /\ q.err = "none" /\ q \in Pipes /\ (F!Whole(q) => Len(q.buffer) <= 0)
  BY <1>1, <1>11, <1>12 DEF K
<1>14. ~F!Whole(q)
  <2>1. SUFFICES ASSUME F!Whole(q) PROVE FALSE
    OBVIOUS
  <2>2. Len(q.buffer) \in Nat /\ Prefix \in Nat /\ Prefix # 0
    BY <1>13 DEF Pipes, F!FramingConstants
  <2>3. Len(q.buffer) >= Prefix
    BY <2>1 DEF F!Whole, F!Headed
  <2>4. QED
    BY <1>13, <2>1, <2>2, <2>3
<1>15. F!Drained(p) = IF F!TooLong(q) THEN [q EXCEPT !.err = "too large"] ELSE q
  BY <1>12 DEF F!Drained, after
<1>16. CASE F!TooLong(q)
  <2>1. PICK e : e = [q EXCEPT !.err = "too large"]
    OBVIOUS
  <2>2. /\ e \in Pipes /\ e.err = "too large" /\ e.buffer = q.buffer /\ e.pipe = q.pipe /\ e.over = q.over
        /\ e.frames = q.frames
    BY <1>13, <2>1 DEF Pipes, Stops
  <2>3. Aligned(d, w, at, e)
    BY <1>13, <2>2 DEF Aligned
  <2>4. F!TooLong(e)
    BY <1>16, <2>2 DEF F!TooLong, F!Headed, F!Claims
  <2>5. QED
    BY <1>15, <1>16, <2>1, <2>2, <2>3, <2>4 DEF AtRest
<1>17. CASE ~F!TooLong(q)
  BY <1>13, <1>14, <1>15, <1>17 DEF AtRest
<1>18. QED
  BY <1>16, <1>17
---------------------------------------------------------------------------
(* One sequence after another.                                             *)
LEMMA JoinIs ==
  ASSUME NEW a \in Seq(F!Bytes), NEW b \in Seq(F!Bytes), NEW c, c = a \o b
  PROVE  /\ c \in Seq(F!Bytes) /\ Len(c) = Len(a) + Len(b) /\ Len(a) \in Nat /\ Len(b) \in Nat
         /\ \A j \in 1..Len(a) : c[j] = a[j]
         /\ \A j \in 1..Len(b) : c[Len(a) + j] = b[j]
<1>1. c \in Seq(F!Bytes) /\ Len(c) = Len(a) + Len(b) /\ Len(a) \in Nat /\ Len(b) \in Nat
  OBVIOUS
<1>2. \A j \in 1..(Len(a) + Len(b)) : c[j] = IF j <= Len(a) THEN a[j] ELSE b[j - Len(a)]
  OBVIOUS
<1>3. \A j \in 1..Len(a) : c[j] = a[j]
  BY <1>1, <1>2
<1>4. ASSUME NEW j \in 1..Len(b) PROVE c[Len(a) + j] = b[j]
  <2>1. Len(a) + j \in 1..(Len(a) + Len(b)) /\ ~(Len(a) + j <= Len(a)) /\ (Len(a) + j) - Len(a) = j
    BY <1>1
  <2>2. QED
    BY <1>2, <2>1
<1>5. QED
  BY <1>1, <1>3, <1>4

(* A frame is its header, then its payload.                                *)
LEMMA EncodedIs ==
  ASSUME F!FramingConstants, NEW payload \in F!Payloads, NEW f, f = F!Encoded(payload)
  PROVE  /\ f \in Seq(F!Bytes) /\ Len(f) = Prefix + Len(payload)
         /\ \A m \in 1..Prefix : f[m] = F!Header(Len(payload))[m]
         /\ \A m \in 1..Len(payload) : f[Prefix + m] = payload[m]
<1>1. PICK h : h = F!Header(Len(payload))
  OBVIOUS
<1>2. h \in [1..Prefix -> F!Bytes] /\ payload \in Seq(F!Bytes) /\ Prefix \in Nat
  BY <1>1, HeaderIs DEF F!FramingConstants
<1>3. h \in Seq(F!Bytes) /\ Len(h) = Prefix
  BY <1>2
<1>4. f = h \o payload
  BY <1>1 DEF F!Encoded
<1>5. /\ f \in Seq(F!Bytes) /\ Len(f) = Len(h) + Len(payload)
      /\ \A j \in 1..Len(h) : f[j] = h[j]
      /\ \A j \in 1..Len(payload) : f[Len(h) + j] = payload[j]
  <2>1. payload \in Seq(F!Bytes)
    BY <1>2
  <2>2. QED
    <3>1. PICK b : b = payload
      OBVIOUS
    <3>2. b \in Seq(F!Bytes) /\ h \in Seq(F!Bytes) /\ f = h \o b
      BY <1>3, <1>4, <2>1, <3>1
    <3>3. /\ f \in Seq(F!Bytes) /\ Len(f) = Len(h) + Len(b)
          /\ \A j \in 1..Len(h) : f[j] = h[j]
          /\ \A j \in 1..Len(b) : f[Len(h) + j] = b[j]
      BY <3>2, JoinIs
    <3>4. QED
      BY <3>1, <3>3
<1>6. QED
  BY <1>1, <1>3, <1>5

(* One more is written.                                                    *)
Goes(d, w, payload, e, x) == e = Append(d, payload) /\ x = w \o F!Encoded(payload)

(* A frame more: the ends of the others stay where they are.               *)
LEMMA FrameIsWritten ==
  ASSUME F!FramingConstants, NEW d, NEW w, NEW at, FramedWritten(d, w, at), NEW payload \in F!Payloads,
         NEW e, NEW x, Goes(d, w, payload, e, x)
  PROVE  \E up : FramedWritten(e, x, up) /\ \A i \in 0..Len(d) : up[i] = at[i]
<1>1. PICK n, f, c : n = Len(d) /\ f = F!Encoded(payload) /\ c = Len(payload)
  OBVIOUS
<1>2. /\ f \in Seq(F!Bytes) /\ Len(f) = Prefix + c
      /\ \A m \in 1..Prefix : f[m] = F!Header(c)[m]
      /\ \A m \in 1..c : f[Prefix + m] = payload[m]
  BY <1>1, EncodedIs
<1>3. c \in Nat /\ Prefix \in Nat
  BY <1>1, HeaderIs DEF F!FramingConstants
<1>4. d \in Seq(F!Payloads) /\ w \in Seq(F!Bytes) /\ n \in Nat /\ Len(w) \in Nat
      /\ at \in [0..n -> 0..Len(w)] /\ at[0] = 0 /\ at[n] = Len(w)
  BY <1>1 DEF FramedWritten
<1>5. /\ x \in Seq(F!Bytes) /\ Len(x) = Len(w) + Len(f)
      /\ \A j \in 1..Len(w) : x[j] = w[j]
      /\ \A j \in 1..Len(f) : x[Len(w) + j] = f[j]
  <2>1. x = w \o f /\ w \in Seq(F!Bytes) /\ f \in Seq(F!Bytes)
    BY <1>1, <1>2, <1>4 DEF Goes
  <2>2. QED
    BY <2>1, JoinIs
<1>6. Len(x) = Len(w) + Prefix + c /\ Len(x) \in Nat
  BY <1>2, <1>3, <1>4, <1>5
<1>7. e \in Seq(F!Payloads) /\ Len(e) = n + 1 /\ e[n + 1] = payload /\ \A i \in 1..n : e[i] = d[i]
  BY <1>1, <1>4 DEF Goes
<1> DEFINE up == [i \in 0..(n + 1) |-> IF i = n + 1 THEN Len(x) ELSE at[i]]
<1>8. /\ up \in [0..(n + 1) -> 0..Len(x)] /\ up[n + 1] = Len(x)
      /\ \A i \in 0..n : up[i] = at[i]
  <2>1. \A i \in 0..(n + 1) : i = n + 1 \/ i \in 0..n
    BY <1>4
  <2>2. \A i \in 0..n : at[i] \in 0..Len(x) /\ i # n + 1 /\ i \in 0..(n + 1)
    BY <1>3, <1>4, <1>6
  <2>3. n + 1 \in 0..(n + 1) /\ Len(x) \in 0..Len(x)
    BY <1>4, <1>6
  <2>4. QED
    BY <2>1, <2>2, <2>3
<1> HIDE DEF up
<1>9. ASSUME NEW i \in 1..n
      PROVE  /\ up[i] = up[i - 1] + Prefix + Len(e[i])
             /\ \A m \in 1..Prefix : x[up[i - 1] + m] = F!Header(Len(e[i]))[m]
             /\ \A m \in 1..Len(e[i]) : x[up[i - 1] + Prefix + m] = e[i][m]
  <2>1. i \in 0..n /\ i - 1 \in 0..n
    BY <1>4
  <2>2. PICK a, b, k : a = at[i - 1] /\ b = at[i] /\ k = Len(d[i])
    OBVIOUS
  <2>3. up[i - 1] = a /\ up[i] = b /\ e[i] = d[i]
    BY <1>7, <1>8, <2>1, <2>2
  <2>4. /\ b = a + Prefix + k
        /\ \A m \in 1..Prefix : w[a + m] = F!Header(k)[m]
        /\ \A m \in 1..k : w[a + Prefix + m] = d[i][m]
    BY <1>1, <2>2 DEF FramedWritten
  <2>5. a \in 0..Len(w) /\ b \in 0..Len(w)
    BY <1>4, <2>1, <2>2
  <2>6. k \in Nat
    <3>1. d[i] \in F!Payloads
      BY <1>1, <1>4
    <3>2. QED
      BY <2>2, <3>1 DEF F!Payloads
  <2>7. ASSUME NEW m \in 1..Prefix PROVE x[a + m] = F!Header(k)[m]
    <3>1. a + m \in 1..Len(w)
      BY <1>3, <1>4, <2>4, <2>5, <2>6
    <3>2. QED
      BY <1>5, <2>4, <3>1
  <2>8. ASSUME NEW m \in 1..k PROVE x[a + Prefix + m] = d[i][m]
    <3>1. a + Prefix + m \in 1..Len(w)
      BY <1>3, <1>4, <2>4, <2>5, <2>6
    <3>2. QED
      BY <1>5, <2>4, <3>1
  <2>9. QED
    BY <2>2, <2>3, <2>4, <2>7, <2>8
<1>10. /\ up[n + 1] = up[(n + 1) - 1] + Prefix + Len(e[n + 1])
       /\ \A m \in 1..Prefix : x[up[(n + 1) - 1] + m] = F!Header(Len(e[n + 1]))[m]
       /\ \A m \in 1..Len(e[n + 1]) : x[up[(n + 1) - 1] + Prefix + m] = e[n + 1][m]
  <2>1. (n + 1) - 1 = n /\ n \in 0..n
    BY <1>4
  <2>2. up[(n + 1) - 1] = Len(w) /\ up[n + 1] = Len(w) + Prefix + c
    BY <1>4, <1>6, <1>8, <2>1
  <2>3. Len(e[n + 1]) = c
    BY <1>1, <1>7
  <2>4. ASSUME NEW m \in 1..Prefix PROVE x[Len(w) + m] = F!Header(c)[m]
    <3>1. m \in 1..Len(f)
      BY <1>2, <1>3
    <3>2. QED
      BY <1>2, <1>5, <3>1
  <2>5. ASSUME NEW m \in 1..c PROVE x[Len(w) + Prefix + m] = payload[m]
    <3>1. Prefix + m \in 1..Len(f) /\ Len(w) + (Prefix + m) = Len(w) + Prefix + m
      BY <1>2, <1>3, <1>4
    <3>2. QED
      BY <1>2, <1>5, <3>1
  <2>6. QED
    BY <1>7, <2>2, <2>3, <2>4, <2>5
<1>11. FramedWritten(e, x, up)
  <2>1. \A i \in 1..(n + 1) : i \in 1..n \/ i = n + 1
    BY <1>4
  <2>2. 0 \in 0..n
    BY <1>4
  <2>3. up[0] = 0
    BY <1>4, <1>8, <2>2
  <2>4. \A i \in 1..(n + 1) :
          /\ up[i] = up[i - 1] + Prefix + Len(e[i])
          /\ \A m \in 1..Prefix : x[up[i - 1] + m] = F!Header(Len(e[i]))[m]
          /\ \A m \in 1..Len(e[i]) : x[up[i - 1] + Prefix + m] = e[i][m]
    BY <1>9, <1>10, <2>1
  <2>5. PICK l : l = Len(e)
    OBVIOUS
  <2>6. l = n + 1
    BY <1>7, <2>5
  <2>7. up \in [0..l -> 0..Len(x)] /\ up[l] = Len(x)
    BY <1>8, <2>6
  <2>8. \A i \in 1..l :
          /\ up[i] = up[i - 1] + Prefix + Len(e[i])
          /\ \A m \in 1..Prefix : x[up[i - 1] + m] = F!Header(Len(e[i]))[m]
          /\ \A m \in 1..Len(e[i]) : x[up[i - 1] + Prefix + m] = e[i][m]
    BY <2>4, <2>6
  <2>9. QED
    BY <1>5, <1>7, <2>3, <2>5, <2>7, <2>8 DEF FramedWritten
<1>12. QED
  BY <1>1, <1>8, <1>11

(* What was a piece stays one when more is written.                        *)
LEMMA PieceStays ==
  ASSUME NEW w \in Seq(F!Bytes), NEW f \in Seq(F!Bytes), NEW x, x = w \o f, NEW s, NEW n \in Nat, Piece(s, w, n)
  PROVE  Piece(s, x, n)
<1>1. /\ s \in Seq(F!Bytes) /\ n + Len(s) <= Len(w) /\ Len(s) \in Nat
      /\ \A m \in 1..Len(s) : s[m] = w[n + m]
  BY DEF Piece
<1>2. Len(x) = Len(w) + Len(f) /\ Len(w) \in Nat /\ Len(f) \in Nat /\ \A j \in 1..Len(w) : x[j] = w[j]
  BY JoinIs
<1>3. \A m \in 1..Len(s) : n + m \in 1..Len(w)
  BY <1>1, <1>2
<1>4. n + Len(s) <= Len(x)
  BY <1>1, <1>2
<1>5. QED
  BY <1>1, <1>2, <1>3, <1>4 DEF Piece

---------------------------------------------------------------------------
(* The actions.                                                            *)
LEMMA PipeBegins ==
  ASSUME F!FramingConstants, F!Init
  PROVE  FramingInductive
<1> DEFINE at == [i \in 0..0 |-> 0]
<1>1. doc = <<>> /\ r = F!Fresh
  BY DEF F!Init
<1>2. FramedWritten(<<>>, <<>>, at)
  BY DEF FramedWritten
<1>3. Aligned(<<>>, <<>>, at, F!Fresh)
  BY DEF Aligned, Piece, Pipes, F!Fresh, Stops
<1>4. AtRest(F!Fresh)
  BY DEF AtRest, F!Fresh, F!Whole, F!TooLong, F!Headed, F!FramingConstants
<1>5. QED
  BY <1>1, <1>2, <1>3, <1>4 DEF FramingInductive

(* What the reader's bytes are and what it is stands apart from the pipe.  *)
LEMMA RestIs ==
  ASSUME NEW p, NEW q, q.buffer = p.buffer, q.err = p.err, AtRest(p)
  PROVE  AtRest(q)
BY DEF AtRest, F!Whole, F!TooLong, F!Headed, F!Claims

LEMMA AlignedHas ==
  ASSUME F!FramingConstants, NEW d, NEW w, NEW at, NEW p, FramedWritten(d, w, at), Aligned(d, w, at, p)
  PROVE  /\ Len(p.frames) \in 0..Len(d) /\ at[Len(p.frames)] \in Nat /\ Len(d) \in Nat /\ Len(w) \in Nat
         /\ Len(p.buffer) \in Nat /\ Len(p.pipe) \in Nat /\ Len(p.frames) \in Nat
<1>1. Len(d) \in Nat /\ Len(w) \in Nat /\ at \in [0..Len(d) -> 0..Len(w)]
  BY DEF FramedWritten
<1>2. Len(p.frames) \in Nat /\ Len(p.buffer) \in Nat /\ Len(p.pipe) \in Nat /\ Len(p.frames) <= Len(d)
  BY DEF Aligned, Pipes
<1>3. QED
  BY <1>1, <1>2

LEMMA PipeTakes ==
  ASSUME F!FramingConstants, FramingInductive, NEW payload \in F!Payloads, F!WriteFrame(payload)
  PROVE  FramingInductive'
<1>1. PICK w, at : FramedWritten(doc, w, at) /\ Aligned(doc, w, at, r) /\ AtRest(r)
  BY DEF FramingInductive
<1>2. ~r.over /\ doc' = Append(doc, payload) /\ r' = [r EXCEPT !.pipe = @ \o F!Encoded(payload)]
  BY DEF F!WriteFrame
<1>3. PICK k, f, x, e, q : k = Len(r.frames) /\ f = F!Encoded(payload) /\ x = w \o f /\ e = doc' /\ q = r'
  OBVIOUS
<1>4. PICK up : FramedWritten(e, x, up) /\ \A i \in 0..Len(doc) : up[i] = at[i]
  <2>1. Goes(doc, w, payload, e, x)
    BY <1>2, <1>3 DEF Goes
  <2>2. QED
    BY <1>1, <2>1, FrameIsWritten
<1>5. /\ k \in 0..Len(doc) /\ at[k] \in Nat /\ Len(doc) \in Nat /\ Len(w) \in Nat
      /\ Len(r.buffer) \in Nat /\ Len(r.pipe) \in Nat /\ k \in Nat
  BY <1>1, <1>3, AlignedHas
<1>6. w \in Seq(F!Bytes) /\ doc \in Seq(F!Payloads)
  BY <1>1 DEF FramedWritten
<1>7. f \in Seq(F!Bytes) /\ Len(f) \in Nat
  BY <1>3, EncodedIs
<1>8. /\ Len(x) = Len(w) + Len(f)
      /\ \A j \in 1..Len(f) : x[Len(w) + j] = f[j]
  BY <1>3, <1>6, <1>7, JoinIs
<1>9. r \in Pipes
  BY <1>1 DEF Aligned
<1>10. PICK s : s = r.pipe \o f
  OBVIOUS
<1>11. /\ s \in Seq(F!Bytes) /\ Len(s) = Len(r.pipe) + Len(f)
       /\ \A j \in 1..Len(r.pipe) : s[j] = r.pipe[j]
       /\ \A j \in 1..Len(f) : s[Len(r.pipe) + j] = f[j]
  <2>1. r.pipe \in Seq(F!Bytes)
    BY <1>9 DEF Pipes
  <2>2. QED
    BY <1>7, <1>10, <2>1, JoinIs
<1>12. q = [r EXCEPT !.pipe = s]
  BY <1>2, <1>3, <1>10
<1>13. /\ q \in Pipes /\ q.pipe = s /\ q.over = r.over /\ q.buffer = r.buffer /\ q.frames = r.frames
       /\ q.err = r.err
  BY <1>9, <1>11, <1>12 DEF Pipes
<1>14. up[k] = at[k]
  BY <1>4, <1>5
<1>15. Piece(q.buffer, x, up[k])
  <2>1. Piece(r.buffer, w, at[k])
    BY <1>1, <1>3 DEF Aligned
  <2>2. QED
    BY <1>3, <1>5, <1>6, <1>7, <1>13, <1>14, <2>1, PieceStays
<1>16. at[k] + Len(r.buffer) + Len(r.pipe) = Len(w)
  BY <1>1, <1>2, <1>3 DEF Aligned
<1>17. Piece(s, x, at[k] + Len(r.buffer))
  <2>1. PICK n : n = at[k] + Len(r.buffer)
    OBVIOUS
  <2>2. n \in Nat /\ n + Len(r.pipe) = Len(w)
    BY <1>5, <1>16, <2>1
  <2>3. Piece(r.pipe, w, n)
    BY <1>1, <1>3, <2>1 DEF Aligned
  <2>4. Piece(r.pipe, x, n)
    BY <1>3, <1>6, <1>7, <2>2, <2>3, PieceStays
  <2>5. n + Len(s) <= Len(x)
    BY <1>5, <1>7, <1>8, <1>11, <2>2
  <2>6. ASSUME NEW m \in 1..Len(s) PROVE s[m] = x[n + m]
    <3>1. CASE m \in 1..Len(r.pipe)
      BY <1>11, <2>4, <3>1 DEF Piece
    <3>2. CASE m \notin 1..Len(r.pipe)
      <4>1. PICK j : j = m - Len(r.pipe)
        OBVIOUS
      <4>2. j \in 1..Len(f) /\ m = Len(r.pipe) + j /\ n + m = Len(w) + j
        <5>1. PICK lp, lf, ls, lw : lp = Len(r.pipe) /\ lf = Len(f) /\ ls = Len(s) /\ lw = Len(w)
          OBVIOUS
        <5>2. lp \in Nat /\ lf \in Nat /\ lw \in Nat /\ ls = lp + lf /\ n + lp = lw /\ n \in Nat
          BY <1>5, <1>7, <1>11, <2>2, <5>1
        <5>3. m \in 1..ls /\ m \notin 1..lp /\ j = m - lp
          BY <3>2, <4>1, <5>1
        <5>4. j \in 1..lf /\ m = lp + j /\ n + m = lw + j
          BY <5>2, <5>3
        <5>5. QED
          BY <5>1, <5>4
      <4>3. QED
        BY <1>8, <1>11, <4>2
    <3>3. QED
      BY <3>1, <3>2
  <2>7. QED
    BY <1>11, <2>1, <2>5, <2>6 DEF Piece
<1>18. at[k] + Len(r.buffer) + Len(s) = Len(x)
  <2>1. PICK a, lb, lp, lf, ls, lw, lx :
          /\ a = at[k] /\ lb = Len(r.buffer) /\ lp = Len(r.pipe) /\ lf = Len(f) /\ ls = Len(s)
          /\ lw = Len(w) /\ lx = Len(x)
    OBVIOUS
  <2>2. /\ a \in Nat /\ lb \in Nat /\ lp \in Nat /\ lf \in Nat /\ lw \in Nat
        /\ a + lb + lp = lw /\ ls = lp + lf /\ lx = lw + lf
    BY <1>5, <1>7, <1>8, <1>11, <1>16, <2>1
  <2>3. a + lb + ls = lx
    BY <2>2
  <2>4. QED
    BY <2>1, <2>3
<1>19. Len(e) = Len(doc) + 1 /\ \A i \in 1..Len(doc) : e[i] = doc[i]
  BY <1>2, <1>3, <1>6
<1>20. k <= Len(e) /\ \A i \in 1..k : r.frames[i] = e[i] /\ Len(e[i]) <= MaxFrame
  <2>1. \A i \in 1..k : r.frames[i] = doc[i] /\ Len(doc[i]) <= MaxFrame
    BY <1>1, <1>3 DEF Aligned
  <2>2. \A i \in 1..k : i \in 1..Len(doc)
    BY <1>5
  <2>3. k <= Len(e)
    BY <1>5, <1>19
  <2>4. QED
    BY <1>19, <2>1, <2>2, <2>3
<1>21. Aligned(e, x, up, q)
  BY <1>3, <1>13, <1>14, <1>15, <1>17, <1>18, <1>20 DEF Aligned
<1>22. AtRest(q)
  BY <1>1, <1>13, RestIs
<1>23. QED
  BY <1>3, <1>4, <1>21, <1>22 DEF FramingInductive

(* n bytes go from the pipe to the buffer.                                 *)
Moved(p, n, q) ==
  q = [p EXCEPT !.buffer = @ \o SubSeq(p.pipe, 1, n), !.pipe = SubSeq(@, n + 1, Len(@))]

(* A piece of the pipe joins the buffer, before anything is taken out.     *)
LEMMA PieceArrives ==
  ASSUME F!FramingConstants, NEW d, NEW w, NEW at, NEW p, FramedWritten(d, w, at), Aligned(d, w, at, p),
         NEW n \in 1..Len(p.pipe), NEW q, Moved(p, n, q)
  PROVE  Aligned(d, w, at, q) /\ q.err = p.err
<1>1. PICK k, g, b, c : k = Len(p.frames) /\ g = p.pipe /\ b = SubSeq(g, 1, n) /\ c = SubSeq(g, n + 1, Len(g))
  OBVIOUS
<1>2. /\ at[k] \in Nat /\ Len(p.buffer) \in Nat /\ Len(g) \in Nat /\ n \in Nat /\ n <= Len(g) /\ n # 0
  BY <1>1, AlignedHas
<1>3. p \in Pipes /\ g \in Seq(F!Bytes) /\ p.buffer \in Seq(F!Bytes)
  BY <1>1 DEF Aligned, Pipes
<1>4. b \in Seq(F!Bytes) /\ Len(b) = n /\ \A j \in 1..n : b[j] = g[j]
  <2>1. PICK m : m = 1
    OBVIOUS
  <2>2. m \in 1..(Len(g) + 1) /\ n \in 0..Len(g) /\ m <= n + 1 /\ (n + 1) - m = n /\ \A j \in Nat : (m - 1) + j = j
    BY <1>2, <2>1
  <2>3. b \in Seq(F!Bytes) /\ Len(b) = (n + 1) - m /\ \A j \in 1..Len(b) : b[j] = g[(m - 1) + j]
    BY <1>1, <1>3, <2>1, <2>2, CutIs
  <2>4. QED
    BY <2>2, <2>3
<1>5. c \in Seq(F!Bytes) /\ Len(c) = Len(g) - n /\ \A j \in 1..Len(c) : c[j] = g[n + j]
  <2>1. PICK m, e : m = n + 1 /\ e = Len(g)
    OBVIOUS
  <2>2. m \in 1..(Len(g) + 1) /\ e \in 0..Len(g) /\ m <= e + 1 /\ (e + 1) - m = e - n /\ m - 1 = n
    BY <1>2, <2>1
  <2>3. c \in Seq(F!Bytes) /\ Len(c) = (e + 1) - m /\ \A j \in 1..Len(c) : c[j] = g[(m - 1) + j]
    BY <1>1, <1>3, <2>1, <2>2, CutIs
  <2>4. QED
    BY <2>1, <2>2, <2>3
<1>6. PICK s : s = p.buffer \o b
  OBVIOUS
<1>7. /\ s \in Seq(F!Bytes) /\ Len(s) = Len(p.buffer) + n
      /\ \A j \in 1..Len(p.buffer) : s[j] = p.buffer[j]
      /\ \A j \in 1..n : s[Len(p.buffer) + j] = b[j]
  <2>1. /\ s \in Seq(F!Bytes) /\ Len(s) = Len(p.buffer) + Len(b)
        /\ \A j \in 1..Len(p.buffer) : s[j] = p.buffer[j]
        /\ \A j \in 1..Len(b) : s[Len(p.buffer) + j] = b[j]
    <3>1. PICK e : e = p.buffer
      OBVIOUS
    <3>2. e \in Seq(F!Bytes) /\ b \in Seq(F!Bytes) /\ s = e \o b
      BY <1>3, <1>4, <1>6, <3>1
    <3>3. /\ s \in Seq(F!Bytes) /\ Len(s) = Len(e) + Len(b)
          /\ \A j \in 1..Len(e) : s[j] = e[j]
          /\ \A j \in 1..Len(b) : s[Len(e) + j] = b[j]
      BY <3>2, JoinIs
    <3>4. QED
      BY <3>1, <3>3
  <2>2. QED
    BY <1>4, <2>1
<1>8. q = [p EXCEPT !.buffer = s, !.pipe = c]
  BY <1>1, <1>6 DEF Moved
<1>9. q \in Pipes /\ q.buffer = s /\ q.pipe = c /\ q.over = p.over /\ q.frames = p.frames /\ q.err = p.err
  BY <1>3, <1>5, <1>7, <1>8 DEF Pipes
<1>10. PICK a, l : a = at[k] /\ l = Len(p.buffer)
  OBVIOUS
<1>11. Piece(p.buffer, w, a) /\ Piece(g, w, a + l)
  BY <1>1, <1>10 DEF Aligned
<1>12. /\ a + l + Len(g) <= Len(w) /\ Len(w) \in Nat /\ a \in Nat /\ l \in Nat
       /\ \A m \in 1..l : p.buffer[m] = w[a + m]
       /\ \A m \in 1..Len(g) : g[m] = w[(a + l) + m]
  BY <1>2, <1>10, <1>11, AlignedHas DEF Piece
<1>13. Piece(s, w, a)
  <2>1. a + Len(s) <= Len(w)
    <3>1. PICK ls, lg, lw : ls = Len(s) /\ lg = Len(g) /\ lw = Len(w)
      OBVIOUS
    <3>2. /\ ls = l + n /\ n \in Nat /\ lg \in Nat /\ n <= lg /\ l \in Nat /\ a \in Nat /\ lw \in Nat
          /\ a + l + lg <= lw
      BY <1>2, <1>7, <1>10, <1>12, <3>1
    <3>3. a + ls <= lw
      BY <3>2
    <3>4. QED
      BY <3>1, <3>3
  <2>2. ASSUME NEW m \in 1..Len(s) PROVE s[m] = w[a + m]
    <3>1. CASE m \in 1..l
      BY <1>7, <1>10, <1>12, <3>1
    <3>2. CASE m \notin 1..l
      <4>1. PICK j : j = m - l
        OBVIOUS
      <4>2. j \in 1..n /\ j \in 1..Len(g) /\ m = l + j /\ (a + l) + j = a + m
        <5>1. PICK ls, lg : ls = Len(s) /\ lg = Len(g)
          OBVIOUS
        <5>2. /\ ls = l + n /\ n \in Nat /\ lg \in Nat /\ n <= lg /\ l \in Nat /\ a \in Nat
              /\ m \in 1..ls /\ m \notin 1..l /\ j = m - l
          BY <1>2, <1>7, <1>10, <1>12, <3>2, <4>1, <5>1
        <5>3. j \in 1..n /\ j \in 1..lg /\ m = l + j /\ (a + l) + j = a + m
          BY <5>2
        <5>4. QED
          BY <5>1, <5>3
      <4>3. s[m] = g[j]
        BY <1>4, <1>7, <1>10, <4>2
      <4>4. QED
        BY <1>12, <4>2, <4>3
    <3>3. QED
      BY <3>1, <3>2
  <2>3. QED
    BY <1>7, <2>1, <2>2 DEF Piece
<1>14. Len(s) = l + n /\ Len(s) + Len(c) = l + Len(g)
  BY <1>2, <1>5, <1>7, <1>10
<1>15. Piece(c, w, a + Len(s))
  <2>1. (a + Len(s)) + Len(c) <= Len(w)
    BY <1>2, <1>5, <1>12, <1>14
  <2>2. ASSUME NEW m \in 1..Len(c) PROVE c[m] = w[(a + Len(s)) + m]
    <3>1. n + m \in 1..Len(g) /\ (a + l) + (n + m) = (a + Len(s)) + m
      <4>1. PICK lc, lg, ls : lc = Len(c) /\ lg = Len(g) /\ ls = Len(s)
        OBVIOUS
      <4>2. /\ lc = lg - n /\ ls = l + n /\ n \in Nat /\ lg \in Nat /\ l \in Nat /\ a \in Nat
            /\ m \in 1..lc
        BY <1>2, <1>5, <1>12, <1>14, <4>1
      <4>3. n + m \in 1..lg /\ (a + l) + (n + m) = (a + ls) + m
        BY <4>2
      <4>4. QED
        BY <4>1, <4>3
    <3>2. QED
      BY <1>5, <1>12, <3>1
  <2>3. QED
    BY <1>5, <2>1, <2>2 DEF Piece
<1>16. ~q.over => a + Len(s) + Len(c) = Len(w)
  <2>1. ~p.over => a + l + Len(g) = Len(w)
    BY <1>1, <1>10 DEF Aligned
  <2>2. a + Len(s) + Len(c) = a + l + Len(g)
    BY <1>2, <1>5, <1>12, <1>14
  <2>3. QED
    BY <1>9, <2>1, <2>2
<1>17. Aligned(d, w, at, q)
  BY <1>1, <1>9, <1>10, <1>13, <1>15, <1>16 DEF Aligned
<1>18. QED
  BY <1>9, <1>17

LEMMA PipeArrives ==
  ASSUME F!FramingConstants, FramingInductive, F!Arrives
  PROVE  FramingInductive'
<1>1. PICK w, at : FramedWritten(doc, w, at) /\ Aligned(doc, w, at, r) /\ AtRest(r)
  BY DEF FramingInductive
<1>2. PICK n \in 1..Len(r.pipe) : r' = F!Pushed(r, n)
  BY DEF F!Arrives
<1>3. r.err = "none" /\ doc' = doc
  BY DEF F!Arrives
<1>4. PICK q : Moved(r, n, q)
  BY DEF Moved
<1>5. r' = F!Drained(q)
  BY <1>2, <1>4 DEF F!Pushed, Moved
<1>6. Aligned(doc, w, at, q) /\ q.err = "none"
  BY <1>1, <1>3, <1>4, PieceArrives
<1>7. Aligned(doc, w, at, F!Drained(q)) /\ AtRest(F!Drained(q))
  BY <1>1, <1>6, DrainedHolds
<1>8. PICK u : u = r'
  OBVIOUS
<1>9. Aligned(doc, w, at, u) /\ AtRest(u)
  BY <1>5, <1>7, <1>8
<1>10. QED
  BY <1>1, <1>3, <1>8, <1>9 DEF FramingInductive

LEMMA PipeIsCut ==
  ASSUME F!FramingConstants, FramingInductive, F!WriterDies
  PROVE  FramingInductive'
<1>1. PICK w, at : FramedWritten(doc, w, at) /\ Aligned(doc, w, at, r) /\ AtRest(r)
  BY DEF FramingInductive
<1>2. PICK n \in 0..Len(r.pipe) : r' = [r EXCEPT !.over = TRUE, !.pipe = SubSeq(@, 1, n)]
  BY DEF F!WriterDies
<1>3. doc' = doc
  BY DEF F!WriterDies
<1>4. PICK g, b, q, x : g = r.pipe /\ b = SubSeq(g, 1, n) /\ q = r' /\ x = at[Len(r.frames)] + Len(r.buffer)
  OBVIOUS
<1>5. Len(g) \in Nat /\ n \in Nat /\ n <= Len(g) /\ x \in Nat /\ Len(w) \in Nat
  BY <1>1, <1>4, AlignedHas
<1>6. r \in Pipes /\ g \in Seq(F!Bytes)
  BY <1>1, <1>4 DEF Aligned, Pipes
<1>7. b \in Seq(F!Bytes) /\ Len(b) = n /\ \A j \in 1..n : b[j] = g[j]
  <2>1. PICK m : m = 1
    OBVIOUS
  <2>2. m \in 1..(Len(g) + 1) /\ n \in 0..Len(g) /\ m <= n + 1 /\ (n + 1) - m = n /\ \A j \in Nat : (m - 1) + j = j
    BY <1>5, <2>1
  <2>3. b \in Seq(F!Bytes) /\ Len(b) = (n + 1) - m /\ \A j \in 1..Len(b) : b[j] = g[(m - 1) + j]
    BY <1>4, <1>6, <2>1, <2>2, CutIs
  <2>4. QED
    BY <2>2, <2>3
<1>8. q = [r EXCEPT !.over = TRUE, !.pipe = b]
  BY <1>2, <1>4
<1>9. /\ q \in Pipes /\ q.pipe = b /\ q.over /\ q.buffer = r.buffer /\ q.frames = r.frames
      /\ q.err = r.err
  BY <1>6, <1>7, <1>8 DEF Pipes
<1>10. Piece(b, w, x)
  <2>1. Piece(g, w, x)
    BY <1>1, <1>4 DEF Aligned
  <2>2. x + Len(g) <= Len(w) /\ \A m \in 1..Len(g) : g[m] = w[x + m]
    BY <2>1 DEF Piece
  <2>3. x + Len(b) <= Len(w) /\ 1..n \subseteq 1..Len(g)
    BY <1>5, <1>7, <2>2
  <2>4. QED
    BY <1>7, <2>2, <2>3 DEF Piece
<1>11. Aligned(doc, w, at, q)
  BY <1>1, <1>4, <1>9, <1>10 DEF Aligned
<1>12. AtRest(q)
  BY <1>1, <1>9, RestIs
<1>13. QED
  BY <1>1, <1>3, <1>4, <1>11, <1>12 DEF FramingInductive

LEMMA PipeEnds ==
  ASSUME F!FramingConstants, FramingInductive, F!Ends
  PROVE  FramingInductive'
<1>1. PICK w, at : FramedWritten(doc, w, at) /\ Aligned(doc, w, at, r) /\ AtRest(r)
  BY DEF FramingInductive
<1>2. PICK q : q = r'
  OBVIOUS
<1>3. doc' = doc /\ q = [r EXCEPT !.err = "end"] /\ r \in Pipes
  BY <1>1, <1>2 DEF F!Ends, Aligned
<1>4. /\ q \in Pipes /\ q.pipe = r.pipe /\ q.over = r.over /\ q.buffer = r.buffer /\ q.frames = r.frames
      /\ q.err = "end"
  BY <1>3 DEF Pipes, Stops
<1>5. Aligned(doc, w, at, q)
  BY <1>1, <1>4 DEF Aligned
<1>6. AtRest(q)
  BY <1>4 DEF AtRest
<1>7. QED
  BY <1>1, <1>2, <1>3, <1>5, <1>6 DEF FramingInductive

LEMMA PipeStands ==
  ASSUME F!FramingConstants, FramingInductive, [F!Next]_F!vars
  PROVE  FramingInductive'
<1>1. CASE UNCHANGED F!vars
  BY <1>1 DEF F!vars, FramingInductive
<1>2. ASSUME topic \in DOMAIN Scripts, Len(doc) < Len(Scripts[topic]),
             NEW payload \in Scripts[topic][Len(doc) + 1], F!WriteFrame(payload)
      PROVE  FramingInductive'
  <2>1. PICK s : s = Scripts[topic]
    OBVIOUS
  <2>2. s \in Seq(SUBSET F!Payloads)
    BY <1>2, <2>1 DEF F!FramingConstants
  <2>3. Len(doc) \in Nat
    BY DEF FramingInductive, FramedWritten
  <2>4. Len(doc) + 1 \in 1..Len(s)
    BY <1>2, <2>1, <2>2, <2>3
  <2>5. payload \in F!Payloads
    BY <1>2, <2>1, <2>2, <2>4
  <2>6. QED
    BY <1>2, <2>5, PipeTakes
<1>3. QED
  BY <1>1, <1>2, PipeArrives, PipeIsCut, PipeEnds DEF F!Next

LEMMA PipeSays ==
  ASSUME F!FramingConstants, FramingInductive
  PROVE  F!FramesArriveWhole
<1>1. PICK w, at : FramedWritten(doc, w, at) /\ Aligned(doc, w, at, r) /\ AtRest(r)
  BY DEF FramingInductive
<1>2. PICK k : k = Len(r.frames)
  OBVIOUS
<1>3. /\ k \in 0..Len(doc) /\ at[k] \in Nat /\ Len(doc) \in Nat /\ Len(w) \in Nat
      /\ Len(r.buffer) \in Nat /\ Len(r.pipe) \in Nat /\ k \in Nat
  BY <1>1, <1>2, AlignedHas
<1>4. /\ r \in Pipes /\ k <= Len(doc) /\ \A i \in 1..k : r.frames[i] = doc[i] /\ Len(doc[i]) <= MaxFrame
      /\ Piece(r.buffer, w, at[k])
  BY <1>1, <1>2 DEF Aligned
<1>5. doc \in Seq(F!Payloads) /\ r.frames \in Seq(F!Payloads)
  BY <1>1, <1>4 DEF FramedWritten, Pipes
<1>6. r.frames = SubSeq(doc, 1, k)
  BY <1>2, <1>3, <1>4, <1>5
<1>7. ASSUME r.pipe = <<>>, ~r.over, r.err = "none" PROVE r.frames = doc
  <2>1. at[k] + Len(r.buffer) = Len(w)
    <3>1. at[k] + Len(r.buffer) + Len(r.pipe) = Len(w)
      BY <1>1, <1>2, <1>7 DEF Aligned
    <3>2. Len(r.pipe) = 0
      BY <1>7
    <3>3. QED
      BY <1>3, <3>1, <3>2
  <2>2. ~F!Whole(r) /\ ~F!TooLong(r)
    BY <1>1, <1>7 DEF AtRest
  <2>3. k = Len(doc)
    <3>1. SUFFICES ASSUME k # Len(doc) PROVE FALSE
      OBVIOUS
    <3>2. PICK i : i = k + 1
      OBVIOUS
    <3>3. i \in 1..Len(doc) /\ i - 1 = k /\ i \in 0..Len(doc)
      BY <1>3, <3>1, <3>2
    <3>4. at[i] = at[k] + Prefix + Len(doc[i]) /\ at[i] \in 0..Len(w)
      BY <1>1, <3>3 DEF FramedWritten
    <3>5. Len(doc[i]) \in Nat /\ Prefix \in Nat
      <4>1. doc[i] \in F!Payloads
        BY <1>5, <3>3
      <4>2. QED
        BY <4>1 DEF F!Payloads, F!FramingConstants
    <3>6. Len(r.buffer) >= Prefix + Len(doc[i]) /\ Len(r.buffer) >= Prefix
      <4>1. PICK a, c, lb, lw : a = at[k] /\ c = Len(doc[i]) /\ lb = Len(r.buffer) /\ lw = Len(w)
        OBVIOUS
      <4>2. /\ a \in Nat /\ c \in Nat /\ lb \in Nat /\ lw \in Nat /\ Prefix \in Nat
            /\ a + lb = lw /\ a + Prefix + c <= lw
        BY <1>3, <2>1, <3>4, <3>5, <4>1
      <4>3. lb >= Prefix + c /\ lb >= Prefix
        BY <4>2
      <4>4. QED
        BY <4>1, <4>3
    <3>7. F!Headed(r)
      BY <3>6 DEF F!Headed
    <3>8. F!Claims(r) = Len(doc[i])
      BY <1>1, <1>2, <3>2, <3>7, ClaimIs
    <3>9. QED
      BY <2>2, <3>6, <3>7, <3>8 DEF F!Whole
  <2>4. \A i \in 1..k : r.frames[i] = doc[i]
    BY <1>4
  <2>5. Len(r.frames) = Len(doc)
    BY <1>2, <2>3
  <2>6. QED
    BY <1>2, <1>5, <2>4, <2>5
<1>8. ASSUME r.err = "too large" PROVE k < Len(doc) /\ Len(doc[k + 1]) > MaxFrame
  <2>1. F!TooLong(r)
    BY <1>1, <1>8 DEF AtRest
  <2>2. F!Headed(r) /\ F!Claims(r) > MaxFrame
    BY <2>1 DEF F!TooLong
  <2>3. k + 1 \in 1..Len(doc) /\ F!Claims(r) = Len(doc[k + 1])
    BY <1>1, <1>2, <2>2, ClaimIs
  <2>4. QED
    BY <1>3, <2>2, <2>3
<1>9. QED
  BY <1>2, <1>4, <1>6, <1>7, <1>8 DEF F!FramesArriveWhole

(* framing.js push and framing.rs, for payloads of any length, headers of  *)
(* any size and every way the pipe can cut the bytes, between a length and *)
(* its payload as well as within either: what is handed on is what was     *)
(* written, in its order and whole, up to a frame that is too long.  While *)
(* the writer lives nothing stays behind once the pipe is empty.           *)
THEOREM FramesArrive ==
  ASSUME F!FramingConstants
  PROVE  F!Spec => []F!FramesArriveWhole
<1>1. F!Init => FramingInductive
  BY PipeBegins
<1>2. FramingInductive /\ [F!Next]_F!vars => FramingInductive'
  BY PipeStands
<1>3. FramingInductive => F!FramesArriveWhole
  BY PipeSays
<1>4. QED
  BY <1>1, <1>2, <1>3, PTL DEF F!Spec
=============================================================================
