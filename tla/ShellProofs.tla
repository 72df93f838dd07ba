----------------------------- MODULE ShellProofs -----------------------------
(***************************************************************************)
(* What surrounds a core, for any number of cores, requests, deaths,       *)
(* timeouts and changes of the machine.                                    *)
(* 1. Its shell: there is one core at a time, and nobody waits for one     *)
(*    that is over (Shell).                                                *)
(* 2. The store's file: it is taken for what it is, whoever opens it       *)
(*    (Schema).                                                            *)
(* 3. The machine it runs on: the findings are the machine's, and the      *)
(*    newest stand (Environment).                                          *)
(***************************************************************************)
EXTENDS Shell, Environment, Schema, Integers, TLAPS

---------------------------------------------------------------------------
(* What the two pipes of a core hold: requests of its own that somebody    *)
(* still knows of, each of them once, on its way in or on its way out.     *)

Known(r, rq, c) == rq[r].st # "free" /\ rq[r].core = c

Held(s, rq, c) == \A i \in 1..Len(s) : s[i] # None => Known(s[i], rq, c)
OnceIn(s)      == \A i, j \in 1..Len(s) : s[i] # None /\ s[i] = s[j] => i = j
Disjoint(s, t) == \A i \in 1..Len(s), j \in 1..Len(t) : s[i] # None => s[i] # t[j]

Piped(si, so, rq, c) ==
  Held(si, rq, c) /\ Held(so, rq, c) /\ OnceIn(si) /\ OnceIn(so) /\ Disjoint(si, so)

(* The same to every request in the pipes as before.                       *)
LEMMA SameForThem ==
  ASSUME NEW si \in Seq(Reqs), NEW so \in Seq(Reqs \cup {None}), NEW rq, NEW rp, NEW c,
         Piped(si, so, rq, c),
         \A r \in Reqs : Known(r, rq, c) => Known(r, rp, c)
  PROVE  Piped(si, so, rp, c)
<1>1. \A i \in 1..Len(si) : si[i] \in Reqs
  OBVIOUS
<1>2. \A i \in 1..Len(so) : so[i] # None => so[i] \in Reqs
  OBVIOUS
<1>3. QED
  BY <1>1, <1>2 DEF Piped, Held

(* A request nobody knew of goes in.                                       *)
LEMMA GoesIn ==
  ASSUME NEW si \in Seq(Reqs), NEW so \in Seq(Reqs \cup {None}), NEW rq, NEW c,
         NEW r \in Reqs, Piped(si, so, rq, c), Known(r, rq, c),
         \A i \in 1..Len(si) : si[i] # r, \A i \in 1..Len(so) : so[i] # r
  PROVE  Piped(Append(si, r), so, rq, c)
<1> DEFINE s == Append(si, r)
<1>1. /\ s \in Seq(Reqs) /\ Len(s) = Len(si) + 1 /\ s[Len(si) + 1] = r
      /\ \A i \in 1..Len(si) : s[i] = si[i]
  OBVIOUS
<1>2. \A i \in 1..Len(s) : i \in 1..Len(si) \/ i = Len(si) + 1
  BY <1>1
<1> HIDE DEF s
<1>3. Held(s, rq, c)
  BY <1>1, <1>2 DEF Piped, Held
<1>4. OnceIn(s)
  BY <1>1, <1>2 DEF Piped, OnceIn
<1>5. Disjoint(s, so)
  BY <1>1, <1>2 DEF Piped, Disjoint
<1>6. QED
  BY <1>3, <1>4, <1>5 DEF Piped, s

(* The first command comes out as an answer, with or without an event.     *)
LEMMA GoesThrough ==
  ASSUME NEW si \in Seq(Reqs), NEW so \in Seq(Reqs \cup {None}), NEW rq, NEW c,
         si # <<>>, Piped(si, so, rq, c),
         NEW frames \in {<<Head(si)>>, <<Head(si), None>>}
  PROVE  Piped(Tail(si), so \o frames, rq, c)
<1> DEFINE t == Tail(si)
           u == so \o frames
<1>1. /\ Head(si) = si[1] /\ Head(si) \in Reqs /\ 1 \in 1..Len(si)
      /\ t \in Seq(Reqs) /\ Len(t) = Len(si) - 1
      /\ \A i \in 1..Len(t) : t[i] = si[i + 1] /\ i + 1 \in 1..Len(si)
  OBVIOUS
<1>2. /\ frames \in Seq(Reqs \cup {None}) /\ Len(frames) \in {1, 2} /\ frames[1] = Head(si)
      /\ Len(frames) = 2 => frames[2] = None
  <2>1. CASE frames = <<Head(si)>>
    BY <1>1, <2>1
  <2>2. CASE frames = <<Head(si), None>>
    BY <1>1, <2>2
  <2>3. QED
    BY <2>1, <2>2
<1>3. /\ u \in Seq(Reqs \cup {None}) /\ Len(u) = Len(so) + Len(frames)
      /\ \A i \in 1..Len(so) : u[i] = so[i]
      /\ u[Len(so) + 1] = Head(si)
      /\ Len(u) = Len(so) + 2 => u[Len(so) + 2] = None
  BY <1>2
<1>4. \A i \in 1..Len(u) : \/ i \in 1..Len(so)
                           \/ i = Len(so) + 1
                           \/ i = Len(so) + 2 /\ u[i] = None
  BY <1>2, <1>3
<1> HIDE DEF t, u
<1>5. Held(t, rq, c) /\ Held(u, rq, c)
  BY <1>1, <1>3, <1>4 DEF Piped, Held
<1>6. OnceIn(t)
  BY <1>1 DEF Piped, OnceIn
<1>7. OnceIn(u)
  <2>1. \A i \in 1..Len(so) : so[i] # Head(si)
    BY <1>1, ShellConstants DEF Piped, Disjoint
  <2>2. QED
    BY <1>3, <1>4, <2>1 DEF Piped, OnceIn
<1>8. Disjoint(t, u)
  <2>1. \A i \in 1..Len(t) : t[i] # Head(si)
    BY <1>1, ShellConstants DEF Piped, OnceIn
  <2>2. ASSUME NEW i \in 1..Len(t), NEW j \in 1..Len(u)
        PROVE  t[i] # u[j]
    <3>1. t[i] \in Reqs /\ t[i] # None /\ t[i] = si[i + 1] /\ i + 1 \in 1..Len(si)
      BY <1>1, ShellConstants
    <3>2. j \in 1..Len(so) => t[i] # so[j]
      BY <3>1 DEF Piped, Disjoint
    <3>3. QED
      BY <1>3, <1>4, <2>1, <3>1, <3>2
  <2>3. QED
    BY <2>2 DEF Disjoint
<1>9. QED
  BY <1>5, <1>6, <1>7, <1>8 DEF Piped, t, u

(* A frame is read, and what it answers is nobody's any more.              *)
LEMMA ComesOut ==
  ASSUME NEW si \in Seq(Reqs), NEW so \in Seq(Reqs \cup {None}), NEW rq, NEW rp, NEW c,
         so # <<>>, Piped(si, so, rq, c),
         \A r \in Reqs : r # Head(so) /\ Known(r, rq, c) => Known(r, rp, c),
         Head(so) = None => rp = rq
  PROVE  Piped(si, Tail(so), rp, c)
<1> DEFINE t == Tail(so)
<1>1. /\ Head(so) = so[1] /\ 1 \in 1..Len(so)
      /\ t \in Seq(Reqs \cup {None}) /\ Len(t) = Len(so) - 1
      /\ \A i \in 1..Len(t) : t[i] = so[i + 1] /\ i + 1 \in 1..Len(so)
  OBVIOUS
<1>2. \A i \in 1..Len(si) : si[i] \in Reqs
  OBVIOUS
<1>3. \A i \in 1..Len(so) : so[i] # None => so[i] \in Reqs
  OBVIOUS
<1> HIDE DEF t
<1>4. Disjoint(si, t) /\ OnceIn(t)
  <2>1. Disjoint(si, t)
    BY <1>1 DEF Piped, Disjoint
  <2>2. OnceIn(t)
    BY <1>1 DEF Piped, OnceIn
  <2>3. QED
    BY <2>1, <2>2
<1>5. Held(si, rp, c)
  <2>1. \A i \in 1..Len(si) : si[i] # Head(so)
    BY <1>1, <1>2, ShellConstants DEF Piped, Disjoint
  <2>2. QED
    BY <1>2, <2>1 DEF Piped, Held
<1>6. Held(t, rp, c)
  <2>1. \A i \in 1..Len(t) : t[i] # None => t[i] # Head(so)
    BY <1>1 DEF Piped, OnceIn
  <2>2. QED
    BY <1>1, <1>3, <2>1 DEF Piped, Held
<1>7. QED
  BY <1>4, <1>5, <1>6 DEF Piped, t

(* An empty pipe holds nothing wrong.                                      *)
LEMMA EmptyPipe ==
  ASSUME NEW s, NEW rq, NEW c
  PROVE  /\ Held(<<>>, rq, c) /\ OnceIn(<<>>) /\ Disjoint(<<>>, s) /\ Disjoint(s, <<>>)
BY DEF Held, OnceIn, Disjoint

---------------------------------------------------------------------------
(* The invariant: whoever is waited for is the core Main talks to, and no  *)
(* other process is left.                                                  *)

Alone == \A c \in Slots : proc[c] # "off" => sidecar = c
Waits == \A r \in Reqs : req[r].st # "free" => req[r].core = sidecar /\ sidecar # None
Pipes == \A c \in Slots : Piped(stdin[c], stdout[c], req, c)
Unread == \A c \in Slots : proc[c] # "up" => stdin[c] = <<>>

Inductive == TypeOK /\ Alone /\ Waits /\ Pipes /\ Unread

Requests == [st : {"free", "pending", "late"}, core : Slots \cup {None},
             kind : {"tick", "restart", "read", "command"}, news : BOOLEAN]

(* The types by their place: the processes, Main, and the screen.          *)
CoreTyped ==
  /\ proc \in [Slots -> {"off", "up", "dead"}]
  /\ stdin \in [Slots -> Seq(Reqs)] /\ stdout \in [Slots -> Seq(Reqs \cup {None})]
  /\ req \in [Reqs -> Requests]

MainTyped ==
  /\ lived \in BOOLEAN /\ sidecar \in Slots \cup {None}
  /\ quick \in Nat /\ timers \in Nat /\ pressed \in BOOLEAN

ScreenTyped ==
  /\ banner \in {"none", "lost", "fatal"} /\ queued \in BOOLEAN
  /\ latest \in Reqs \cup {None}
  /\ watch \in {"off", "on", "lost"} /\ answers \subseteq Reqs

(* The type invariant by its parts, in this state and the next.            *)
LEMMA TypeParts ==
  /\ TypeOK <=> CoreTyped /\ MainTyped /\ ScreenTyped
  /\ TypeOK' <=> CoreTyped' /\ MainTyped' /\ ScreenTyped'
BY DEF TypeOK, CoreTyped, MainTyped, ScreenTyped, Requests

(* What changed is watched, what was read is shown, what failed is told.   *)
LEMMA HistoryIsTyped ==
  ASSUME ScreenTyped
  PROVE  /\ Changed => watch' \in {"off", "on", "lost"} /\ answers' \subseteq Reqs
         /\ Shown => watch' \in {"off", "on", "lost"} /\ answers' \subseteq Reqs
         /\ \A rs : Failed(rs) => /\ watch' \in {"off", "on", "lost"} /\ answers' \subseteq Reqs
                                  /\ latest' \in Reqs \cup {None}
BY DEF ScreenTyped, Changed, Shown, Failed, past

(* What has to be shown of a step that moves no process and leaves the     *)
(* pipes alone.                                                            *)
LEMMA PipesUnmoved ==
  ASSUME Inductive, UNCHANGED <<core, sidecar>>, MainTyped', ScreenTyped',
         req' \in [Reqs -> Requests],
         \A r \in Reqs : req'[r].core = req[r].core /\ (req'[r].st = "free" <=> req[r].st = "free")
  PROVE  Inductive'
<1>1. CoreTyped /\ CoreTyped'
  BY TypeParts DEF Inductive, CoreTyped, core
<1>2. TypeOK'
  BY <1>1, TypeParts
<1>3. Alone' /\ Waits' /\ Unread'
  BY DEF Inductive, Alone, Waits, Unread, core
<1>4. Pipes'
  <2>1. \A c \in Slots, r \in Reqs : Known(r, req, c) => Known(r, req', c)
    BY DEF Known
  <2>2. \A c \in Slots : stdin[c] \in Seq(Reqs) /\ stdout[c] \in Seq(Reqs \cup {None})
    BY <1>1 DEF CoreTyped
  <2>3. \A c \in Slots : Piped(stdin[c], stdout[c], req', c)
    BY <2>1, <2>2, SameForThem DEF Inductive, Pipes
  <2>4. QED
    BY <2>3 DEF Pipes, core
<1>5. QED
  BY <1>2, <1>3, <1>4 DEF Inductive

(* A request that is asked: it is known from now on.                       *)
LEMMA AskedIs ==
  ASSUME CoreTyped, NEW r \in Reqs, NEW c \in Slots,
         NEW kind \in {"tick", "restart", "read", "command"}
  PROVE  /\ Asked(r, kind, c) \in [Reqs -> Requests]
         /\ Known(r, Asked(r, kind, c), c)
         /\ \A q \in Reqs : q # r => Asked(r, kind, c)[q] = req[q]
BY DEF CoreTyped, Requests, Asked, NoReq, Known

(* A new request goes into the pipe of the core there is.                  *)
LEMMA SendMoves ==
  ASSUME Inductive, NEW r \in Reqs, NEW kind \in {"tick", "restart", "read", "command"},
         Send(r, kind), UNCHANGED main, ScreenTyped'
  PROVE  Inductive'
<1>1. /\ CoreTyped /\ MainTyped /\ sidecar \in Slots /\ req[r].st = "free"
      /\ req' = Asked(r, kind, sidecar) /\ UNCHANGED <<proc, stdout>>
  BY TypeParts DEF Inductive, Send, NewId, Free, MainTyped
<1>2. /\ req' \in [Reqs -> Requests] /\ Known(r, req', sidecar)
      /\ \A q \in Reqs : q # r => req'[q] = req[q]
  BY <1>1, AskedIs
<1>3. \A c \in Slots : /\ stdin[c] \in Seq(Reqs) /\ stdout[c] \in Seq(Reqs \cup {None})
                        /\ Piped(stdin[c], stdout[c], req, c)
  BY <1>1 DEF Inductive, Pipes, CoreTyped
<1>4. \A c \in Slots : Piped(stdin[c], stdout[c], req', c)
  <2>1. \A c \in Slots, q \in Reqs : Known(q, req, c) => Known(q, req', c)
    BY <1>1, <1>2 DEF Known
  <2>2. QED
    BY <1>3, <2>1, SameForThem
<1>5. /\ \A i \in 1..Len(stdin[sidecar]) : stdin[sidecar][i] # r
      /\ \A i \in 1..Len(stdout[sidecar]) : stdout[sidecar][i] # r
  <2>1. r # None /\ ~Known(r, req, sidecar)
    BY <1>1, ShellConstants DEF Known
  <2>2. Held(stdin[sidecar], req, sidecar) /\ Held(stdout[sidecar], req, sidecar)
    BY <1>1, <1>3 DEF Piped
  <2>3. QED
    BY <2>1, <2>2 DEF Held
<1>6. Piped(Append(stdin[sidecar], r), stdout[sidecar], req', sidecar)
  BY <1>1, <1>2, <1>3, <1>4, <1>5, GoesIn
<1>7. \A c \in Slots : stdin'[c] = stdin[c] \/ (c = sidecar /\ stdin'[c] = Append(stdin[c], r))
  BY <1>1 DEF Send, CoreTyped
<1>8. CoreTyped' /\ MainTyped'
  <2>1. stdin' \in [Slots -> Seq(Reqs)]
    BY <1>1 DEF Send, CoreTyped
  <2>2. QED
    BY <1>1, <1>2, <2>1 DEF CoreTyped, MainTyped, main
<1>9. Pipes'
  BY <1>1, <1>4, <1>6, <1>7 DEF Pipes
<1>10. Alone' /\ Waits'
  BY <1>1, <1>2, ShellConstants DEF Inductive, Alone, Waits, Known, main
<1>11. Unread'
  BY <1>1 DEF Send, Inductive, Unread, CoreTyped
<1>12. QED
  BY <1>8, <1>9, <1>10, <1>11, TypeParts DEF Inductive

---------------------------------------------------------------------------
(* The core.                                                               *)

(* The core answers the request it takes.                                  *)
LEMMA HandleMoves ==
  ASSUME Inductive, NEW c \in Slots, Handle(c)
  PROVE  Inductive'
<1> DEFINE r == Head(stdin[c])
<1>1. /\ CoreTyped /\ MainTyped /\ ScreenTyped /\ proc[c] = "up" /\ stdin[c] # <<>>
      /\ stdin' = [stdin EXCEPT ![c] = Tail(@)] /\ UNCHANGED <<proc, main, screen>>
      /\ DoTick(c, r) \/ DoRead(c, r) \/ DoCommand(c, r)
  BY TypeParts DEF Inductive, Handle
<1>2. /\ stdin[c] \in Seq(Reqs) /\ stdout[c] \in Seq(Reqs \cup {None})
      /\ r \in Reqs /\ Tail(stdin[c]) \in Seq(Reqs)
  BY <1>1 DEF CoreTyped
<1>3. /\ req' \in [Reqs -> Requests]
      /\ \A q \in Reqs : req'[q].st = req[q].st /\ req'[q].core = req[q].core
  <2>1. \/ UNCHANGED req
        \/ \E news \in BOOLEAN : req' = [req EXCEPT ![r].news = news]
    BY <1>1 DEF DoTick, DoRead, DoCommand
  <2>2. CASE UNCHANGED req
    BY <1>1, <2>2 DEF CoreTyped
  <2>3. ASSUME NEW news \in BOOLEAN, req' = [req EXCEPT ![r].news = news]
        PROVE  /\ req' \in [Reqs -> Requests]
               /\ \A q \in Reqs : req'[q].st = req[q].st /\ req'[q].core = req[q].core
    BY <1>1, <1>2, <2>3 DEF CoreTyped, Requests
  <2>4. QED
    BY <2>1, <2>2, <2>3
<1>4. PICK frames \in {<<r>>, <<r, None>>} : stdout' = [stdout EXCEPT ![c] = @ \o frames]
  BY <1>1 DEF DoTick, DoRead, DoCommand, Says
<1>5. ScreenTyped'
  <2>1. watch' \in {"off", "on", "lost"} /\ answers' \subseteq Reqs
    BY <1>1, <1>2, HistoryIsTyped DEF DoTick, DoRead, DoCommand, ScreenTyped, past
  <2>2. QED
    BY <1>1, <2>1 DEF ScreenTyped, screen
<1>6. CoreTyped' /\ MainTyped'
  <2>1. stdin' \in [Slots -> Seq(Reqs)]
    BY <1>1, <1>2 DEF CoreTyped
  <2>2. frames \in Seq(Reqs \cup {None})
    <3>1. CASE frames = <<r>>
      BY <1>2, <3>1
    <3>2. CASE frames = <<r, None>>
      BY <1>2, <3>2
    <3>3. QED
      BY <3>1, <3>2
  <2>3. stdout[c] \o frames \in Seq(Reqs \cup {None})
    BY <1>2, <2>2
  <2>4. stdout' \in [Slots -> Seq(Reqs \cup {None})]
    BY <1>1, <1>4, <2>3 DEF CoreTyped
  <2>5. QED
    BY <1>1, <1>3, <2>1, <2>4 DEF CoreTyped, MainTyped, main
<1>7. Alone' /\ Waits'
  BY <1>1, <1>3 DEF Inductive, Alone, Waits, main
<1>8. Pipes'
  <2>1. Piped(stdin[c], stdout[c], req, c)
    BY DEF Inductive, Pipes
  <2>2. \A d \in Slots, q \in Reqs : Known(q, req, d) => Known(q, req', d)
    BY <1>3 DEF Known
  <2>3. \A d \in Slots : Piped(stdin[d], stdout[d], req', d)
    BY <1>1, <2>2, SameForThem DEF Inductive, Pipes, CoreTyped
  <2>4. Piped(Tail(stdin[c]), stdout[c] \o frames, req', c)
    BY <1>1, <1>2, <1>4, <2>3, GoesThrough
  <2>5. \A d \in Slots : d # c => stdin'[d] = stdin[d] /\ stdout'[d] = stdout[d]
    BY <1>1, <1>4 DEF CoreTyped
  <2>6. stdin'[c] = Tail(stdin[c]) /\ stdout'[c] = stdout[c] \o frames
    BY <1>1, <1>4 DEF CoreTyped
  <2>7. \A d \in Slots : Piped(stdin'[d], stdout'[d], req', d)
    BY <2>3, <2>4, <2>5, <2>6
  <2>8. QED
    BY <2>7 DEF Pipes
<1>9. Unread'
  BY <1>1 DEF Inductive, Unread, CoreTyped
<1>10. QED
  BY <1>5, <1>6, <1>7, <1>8, <1>9, TypeParts DEF Inductive

(* A core that dies leaves what it has written to be read.                 *)
LEMMA DiesMoves ==
  ASSUME Inductive, NEW c \in Slots, Dies(c)
  PROVE  Inductive'
<1>1. /\ CoreTyped /\ MainTyped /\ ScreenTyped /\ proc[c] = "up"
      /\ proc'  = [proc EXCEPT ![c] = "dead"] /\ stdin' = [stdin EXCEPT ![c] = <<>>]
      /\ UNCHANGED <<stdout, main, req, screen, past>>
  BY TypeParts DEF Inductive, Dies
<1>2. CoreTyped' /\ MainTyped' /\ ScreenTyped'
  BY <1>1 DEF CoreTyped, MainTyped, ScreenTyped, main, screen, past
<1>3. Alone' /\ Waits'
  BY <1>1 DEF Inductive, Alone, Waits, CoreTyped, main
<1>4. Pipes'
  <2>1. \A d \in Slots : stdin'[d] = stdin[d] \/ stdin'[d] = <<>>
    BY <1>1 DEF CoreTyped
  <2>2. \A d \in Slots : Piped(stdin'[d], stdout[d], req, d)
    BY <2>1, EmptyPipe DEF Inductive, Pipes, Piped
  <2>3. QED
    BY <1>1, <2>2 DEF Pipes
<1>5. Unread'
  BY <1>1 DEF Inductive, Unread, CoreTyped
<1>6. QED
  BY <1>2, <1>3, <1>4, <1>5, TypeParts DEF Inductive

---------------------------------------------------------------------------
(* Main: replies, timeouts and exits.                                      *)

(* A reply frees its request and no other; an event frees none.            *)
LEMMA ReplyFrees ==
  ASSUME CoreTyped, ScreenTyped, NEW r \in Reqs, Reply(r)
  PROVE  req' = [req EXCEPT ![r] = NoReq] /\ ScreenTyped'
<1>1. req' = [req EXCEPT ![r] = NoReq]
  BY DEF Reply, DropReply, TickReply, ReadReply, CommandReply, RestartReply
<1>2. CASE DropReply(r)
  BY <1>2 DEF DropReply, ScreenTyped, screen
<1>3. CASE TickReply(r)
  BY <1>3 DEF TickReply, ScreenTyped, past, CoreTyped, Requests
<1>4. CASE ReadReply(r)
  BY <1>4, HistoryIsTyped DEF ReadReply, ScreenTyped
<1>5. CASE CommandReply(r) \/ RestartReply(r)
  BY <1>5 DEF CommandReply, RestartReply, ScreenTyped, screen, past
<1>6. QED
  BY <1>1, <1>2, <1>3, <1>4, <1>5 DEF Reply

(* A request that is over is free.                                         *)
LEMMA NoReqIsFree == NoReq \in Requests /\ NoReq.st = "free"
BY DEF NoReq, Requests

(* The shell reads one frame.                                              *)
LEMMA MainReadsMoves ==
  ASSUME Inductive, NEW c \in Slots, MainReads(c)
  PROVE  Inductive'
<1> DEFINE f == Head(stdout[c])
<1>1. /\ CoreTyped /\ MainTyped /\ ScreenTyped /\ stdout[c] # <<>>
      /\ IF f = None THEN ReadEvent ELSE Reply(f)
      /\ stdout' = [stdout EXCEPT ![c] = Tail(@)] /\ UNCHANGED <<proc, stdin, main>>
  BY TypeParts DEF Inductive, MainReads
<1>2. /\ stdout[c] \in Seq(Reqs \cup {None}) /\ Tail(stdout[c]) \in Seq(Reqs \cup {None})
      /\ f = stdout[c][1] /\ 1 \in 1..Len(stdout[c]) /\ f \in Reqs \cup {None}
  BY <1>1 DEF CoreTyped
<1>3. /\ f = None => req' = req
      /\ f # None => req' = [req EXCEPT ![f] = NoReq]
      /\ ScreenTyped'
  <2>1. CASE f = None
    BY <1>1, <2>1 DEF ReadEvent, ScreenTyped, past
  <2>2. CASE f # None
    BY <1>1, <1>2, <2>2, ReplyFrees
  <2>3. QED
    BY <2>1, <2>2
<1>4. /\ req' \in [Reqs -> Requests]
      /\ \A q \in Reqs : req'[q].st # "free" => req'[q] = req[q]
      /\ \A q \in Reqs : q # f => req'[q] = req[q]
  BY <1>1, <1>2, <1>3, NoReqIsFree DEF CoreTyped
<1>5. CoreTyped' /\ MainTyped'
  <2>1. stdout' \in [Slots -> Seq(Reqs \cup {None})]
    BY <1>1, <1>2 DEF CoreTyped
  <2>2. QED
    BY <1>1, <1>4, <2>1 DEF CoreTyped, MainTyped, main
<1>6. Alone' /\ Waits'
  BY <1>1, <1>4 DEF Inductive, Alone, Waits, main
<1>7. Pipes'
  <2>1. \A d \in Slots : stdin[d] \in Seq(Reqs) /\ stdout[d] \in Seq(Reqs \cup {None})
    BY <1>1 DEF CoreTyped
  <2>2. Piped(stdin[c], Tail(stdout[c]), req', c)
    <3>1. \A q \in Reqs : q # f /\ Known(q, req, c) => Known(q, req', c)
      BY <1>4 DEF Known
    <3>2. Piped(stdin[c], stdout[c], req, c)
      BY DEF Inductive, Pipes
    <3>3. QED
      BY <1>1, <1>3, <2>1, <3>1, <3>2, ComesOut
  <2>3. \A d \in Slots : d # c => Piped(stdin[d], stdout[d], req', d)
    <3>1. \A d \in Slots, q \in Reqs : d # c /\ Known(q, req, d) => Known(q, req', d)
      <4>1. f # None => Known(f, req, c)
        BY <1>2 DEF Inductive, Pipes, Piped, Held
      <4>2. QED
        BY <1>2, <1>4, <4>1, ShellConstants DEF Known
    <3>2. QED
      BY <2>1, <3>1, SameForThem DEF Inductive, Pipes
  <2>4. \A d \in Slots : stdout'[d] = IF d = c THEN Tail(stdout[c]) ELSE stdout[d]
    BY <1>1 DEF CoreTyped
  <2>5. \A d \in Slots : Piped(stdin[d], stdout'[d], req', d)
    BY <2>2, <2>3, <2>4
  <2>6. QED
    BY <1>1, <2>5 DEF Pipes
<1>8. Unread'
  BY <1>1 DEF Inductive, Unread
<1>9. QED
  BY <1>3, <1>5, <1>6, <1>7, <1>8, TypeParts DEF Inductive

(* A request that is given up stays known until its answer comes.          *)
LEMMA TimesOutMoves ==
  ASSUME Inductive, NEW r \in Reqs, TimesOut(r)
  PROVE  Inductive'
<1>1. /\ CoreTyped /\ MainTyped /\ ScreenTyped /\ req[r].st = "pending"
      /\ req' = [req EXCEPT ![r].st = "late"] /\ Failed({r})
      /\ UNCHANGED <<core, main, banner, queued>>
  BY TypeParts DEF Inductive, TimesOut
<1>2. ScreenTyped' /\ MainTyped'
  BY <1>1, HistoryIsTyped DEF ScreenTyped, MainTyped, main
<1>3. /\ req' \in [Reqs -> Requests]
      /\ \A q \in Reqs : req'[q].core = req[q].core /\ (req'[q].st = "free" <=> req[q].st = "free")
  BY <1>1 DEF CoreTyped, Requests
<1>4. QED
  BY <1>1, <1>2, <1>3, PipesUnmoved DEF main

(* The exit of a core ends every request to it.                            *)
LEMMA OnExitMoves ==
  ASSUME Inductive, NEW c \in Slots, OnExit(c)
  PROVE  Inductive'
<1>1. /\ CoreTyped /\ MainTyped /\ ScreenTyped /\ proc[c] = "dead" /\ sidecar = c
      /\ proc'   = [proc EXCEPT ![c] = "off"]
      /\ stdout' = [stdout EXCEPT ![c] = <<>>]
      /\ req'    = [r \in Reqs |-> IF r \in OfCore(c) THEN NoReq ELSE req[r]]
      /\ Failed(OfCore(c)) /\ sidecar' = None
      /\ UNCHANGED <<stdin, lived, pressed, queued>>
  BY TypeParts DEF Inductive, Alone, OnExit, Finish
<1>2. MainTyped'
  BY <1>1 DEF OnExit, Failures, MainTyped
<1>3. ScreenTyped'
  BY <1>1, HistoryIsTyped DEF OnExit, ScreenTyped
<1>4. \A r \in Reqs : req[r].st # "free" => r \in OfCore(c)
  BY <1>1 DEF Inductive, Waits, OfCore
<1>5. /\ \A r \in Reqs : req'[r].st = "free"
      /\ req' \in [Reqs -> Requests]
  BY <1>1, <1>4, NoReqIsFree DEF CoreTyped
<1>6. CoreTyped'
  <2>1. stdout' \in [Slots -> Seq(Reqs \cup {None})]
    BY <1>1 DEF CoreTyped
  <2>2. QED
    BY <1>1, <1>5, <2>1 DEF CoreTyped
<1>7. Alone' /\ Waits'
  BY <1>1, <1>5 DEF Inductive, Alone, Waits, CoreTyped
<1>8. Pipes'
  <2>1. \A d \in Slots, r \in Reqs : Known(r, req, d) => d = c
    BY <1>1 DEF Inductive, Waits, Known
  <2>2. ASSUME NEW d \in Slots
        PROVE  Piped(stdin[d], stdout'[d], req', d)
    <3>1. Piped(stdin[d], stdout[d], req, d) /\ stdin[d] \in Seq(Reqs)
          /\ stdout[d] \in Seq(Reqs \cup {None})
      BY <1>1 DEF Inductive, Pipes, CoreTyped
    <3>2. CASE d # c
      <4>1. stdout'[d] = stdout[d] /\ \A r \in Reqs : Known(r, req, d) => Known(r, req', d)
        BY <1>1, <2>1, <3>2 DEF CoreTyped
      <4>2. QED
        BY <3>1, <4>1, SameForThem
    <3>3. CASE d = c
      <4>1. stdout'[d] = <<>>
        BY <1>1, <3>3 DEF CoreTyped
      <4>2. stdin[d] = <<>>
        BY <1>1, <3>3 DEF Inductive, Unread
      <4>3. QED
        BY <4>1, <4>2, EmptyPipe DEF Piped
    <3>4. QED
      BY <3>2, <3>3
  <2>3. QED
    BY <1>1, <2>2 DEF Pipes
<1>9. Unread'
  BY <1>1 DEF Inductive, Unread, CoreTyped
<1>10. QED
  BY <1>2, <1>3, <1>6, <1>7, <1>8, <1>9, TypeParts DEF Inductive

---------------------------------------------------------------------------
(* Main: restarts.                                                         *)

(* A core is born when Main has none, so that there is none.               *)
LEMMA BornMoves ==
  ASSUME Inductive, NEW c \in Slots, Born(c), sidecar = None, stdout' = stdout,
         ScreenTyped', quick' \in Nat, timers' \in Nat, pressed' \in BOOLEAN,
         \/ UNCHANGED <<stdin, req>>
         \/ \E r \in Reqs : req[r].st = "free" /\ req' = Asked(r, "restart", c)
                          /\ stdin' = [stdin EXCEPT ![c] = <<r>>]
  PROVE  Inductive'
<1>1. /\ CoreTyped /\ proc' = [proc EXCEPT ![c] = "up"] /\ sidecar' = c /\ lived' = FALSE
      /\ \A d \in Slots : proc[d] = "off"
  BY TypeParts, ShellConstants DEF Born, Inductive, Alone
<1>2. \A r \in Reqs : req[r].st = "free"
  BY DEF Inductive, Waits
<1>3. \A d \in Slots : /\ stdin[d] \in Seq(Reqs) /\ stdout[d] \in Seq(Reqs \cup {None})
                        /\ Piped(stdin[d], stdout[d], req, d) /\ stdin[d] = <<>>
  BY <1>1 DEF CoreTyped, Inductive, Pipes, Unread
<1>4. Alone' /\ MainTyped'
  BY <1>1 DEF Alone, MainTyped, CoreTyped
<1>5. CASE UNCHANGED <<stdin, req>>
  <2>1. CoreTyped' /\ Waits' /\ Pipes' /\ Unread'
    BY <1>1, <1>2, <1>3, <1>5 DEF CoreTyped, Waits, Pipes, Unread
  <2>2. QED
    BY <1>4, <2>1, TypeParts DEF Inductive
<1>6. ASSUME NEW r \in Reqs, req' = Asked(r, "restart", c), stdin' = [stdin EXCEPT ![c] = <<r>>]
      PROVE  Inductive'
  <2>1. /\ req' \in [Reqs -> Requests] /\ Known(r, req', c)
        /\ \A q \in Reqs : q # r => req'[q] = req[q]
    BY <1>1, <1>6, AskedIs
  <2>2. CoreTyped'
    <3>1. <<r>> \in Seq(Reqs)
      OBVIOUS
    <3>2. QED
      BY <1>1, <1>6, <2>1, <3>1 DEF CoreTyped
  <2>3. Waits' /\ Unread'
    BY <1>1, <1>2, <1>3, <1>6, <2>1, ShellConstants DEF Waits, Unread, Known, CoreTyped
  <2>4. \A d \in Slots : Piped(stdin[d], stdout[d], req', d)
    BY <1>2, <1>3, SameForThem DEF Known
  <2>5. Piped(<<r>>, stdout[c], req', c)
    <3>1. \A i \in 1..Len(stdout[c]) : stdout[c][i] # r
      BY <1>2, <1>3, ShellConstants DEF Piped, Held, Known
    <3>2. <<r>> = Append(stdin[c], r) /\ \A i \in 1..Len(stdin[c]) : stdin[c][i] # r
      BY <1>3
    <3>3. Piped(Append(stdin[c], r), stdout[c], req', c)
      BY <1>3, <2>1, <2>4, <3>1, <3>2, GoesIn
    <3>4. QED
      BY <3>2, <3>3
  <2>6. \A d \in Slots : Piped(stdin'[d], stdout[d], req', d)
    BY <1>1, <1>6, <2>4, <2>5 DEF CoreTyped
  <2>7. Pipes'
    BY <2>6 DEF Pipes
  <2>8. QED
    BY <1>4, <2>2, <2>3, <2>7, TypeParts DEF Inductive
<1>7. QED
  BY <1>5, <1>6

(* A timer and the button start a core only where there is none.           *)
LEMMA RestartMoves ==
  ASSUME Inductive, RestartFires \/ RestartCore
  PROVE  Inductive'
<1>1. CoreTyped /\ MainTyped /\ ScreenTyped
  BY TypeParts DEF Inductive
<1>2. CASE RestartFires
  <2>1. /\ timers' \in Nat /\ quick' \in Nat /\ pressed' \in BOOLEAN /\ ScreenTyped'
        /\ UNCHANGED <<stdin, stdout, req>>
    <3>1. timers' \in Nat
      BY <1>1, <1>2 DEF RestartFires, MainTyped
    <3>2. ScreenTyped'
      BY <1>1, <1>2 DEF RestartFires, ScreenTyped, past
    <3>3. QED
      BY <1>1, <1>2, <3>1, <3>2 DEF RestartFires, MainTyped
  <2>2. CASE sidecar = None
    BY <1>2, <2>1, <2>2, BornMoves DEF RestartFires
  <2>3. CASE sidecar # None
    <3>1. UNCHANGED <<core, sidecar>> /\ MainTyped'
      BY <1>1, <1>2, <2>1, <2>3 DEF RestartFires, MainTyped, core
    <3>2. QED
      BY <1>1, <2>1, <3>1, PipesUnmoved DEF CoreTyped
  <2>4. QED
    BY <2>2, <2>3
<1>3. CASE RestartCore
  <2>1. /\ timers' \in Nat /\ pressed' \in BOOLEAN /\ pressed' = FALSE
        /\ UNCHANGED <<timers, latest, past>>
    BY <1>1, <1>3 DEF RestartCore, MainTyped
  <2>2. CASE sidecar = None
    <3>1. PICK c \in Slots, r \in NewId :
            Born(c) /\ req' = Asked(r, "restart", c) /\ stdin' = [stdin EXCEPT ![c] = <<r>>]
      BY <1>3, <2>2 DEF RestartCore
    <3>2. quick' = 0 /\ UNCHANGED <<stdout, banner, queued>> /\ r \in Reqs /\ req[r].st = "free"
      BY <1>3, <2>2, <3>1 DEF RestartCore, NewId, Free
    <3>3. ScreenTyped' /\ quick' \in Nat
      BY <1>1, <2>1, <3>2 DEF ScreenTyped, past
    <3>4. QED
      BY <2>1, <2>2, <3>1, <3>2, <3>3, BornMoves
  <2>3. CASE sidecar # None
    <3>1. /\ banner' = "none" /\ queued' = TRUE
          /\ UNCHANGED <<core, lived, sidecar, quick, req>>
      BY <1>3, <2>3 DEF RestartCore
    <3>2. MainTyped' /\ ScreenTyped'
      BY <1>1, <2>1, <3>1 DEF MainTyped, ScreenTyped, past
    <3>3. QED
      BY <1>1, <3>1, <3>2, PipesUnmoved DEF CoreTyped
  <2>4. QED
    BY <2>2, <2>3
<1>4. QED
  BY <1>2, <1>3

---------------------------------------------------------------------------
(* Everything else: ticks, the screen, the user.                           *)

(* What the screen does sends at most one request.                         *)
LEMMA ScreenMoves ==
  ASSUME Inductive, TickFires \/ Refresh \/ Command \/ Navigate \/ Lives \/ PressRestart
  PROVE  Inductive'
<1>1. CoreTyped /\ MainTyped /\ ScreenTyped
  BY TypeParts DEF Inductive
<1>2. CASE TickFires \/ Command
  <2>1. ScreenTyped' /\ UNCHANGED main
    BY <1>1, <1>2 DEF TickFires, Command, ScreenTyped, screen, past
  <2>2. PICK r \in Reqs, kind \in {"tick", "command"} : Send(r, kind)
    BY <1>2 DEF TickFires, Command
  <2>3. QED
    BY <2>1, <2>2, SendMoves
<1>3. CASE Refresh
  <2>1. CASE sidecar = None
    <3>1. ScreenTyped' /\ MainTyped' /\ UNCHANGED <<core, req, sidecar>>
      BY <1>1, <1>3, <2>1, HistoryIsTyped DEF Refresh, ScreenTyped, MainTyped, main
    <3>2. QED
      BY <1>1, <3>1, PipesUnmoved DEF CoreTyped
  <2>2. CASE sidecar # None
    <3>1. PICK r \in Reqs : Send(r, "read") /\ latest' = r /\ UNCHANGED past
      BY <1>3, <2>2 DEF Refresh
    <3>2. ScreenTyped' /\ UNCHANGED main
      BY <1>1, <1>3, <3>1 DEF Refresh, ScreenTyped, past
    <3>3. QED
      BY <3>1, <3>2, SendMoves
  <2>3. QED
    BY <2>1, <2>2
<1>4. CASE Navigate \/ Lives \/ PressRestart
  <2>1. ScreenTyped' /\ MainTyped' /\ UNCHANGED <<core, req, sidecar>>
    BY <1>1, <1>4 DEF Navigate, Lives, PressRestart, ScreenTyped, MainTyped, main, screen, past
  <2>2. QED
    BY <1>1, <2>1, PipesUnmoved DEF CoreTyped
<1>5. QED
  BY <1>2, <1>3, <1>4

(* The invariant holds when the shell starts.                              *)
LEMMA StartsInductive == Init => Inductive
<1> SUFFICES ASSUME Init PROVE Inductive
  OBVIOUS
<1>1. PICK c \in Slots : proc = [d \in Slots |-> IF d = c THEN "up" ELSE "off"] /\ sidecar = c
  BY DEF Init
<1>2. CoreTyped /\ MainTyped /\ ScreenTyped
  <2>1. <<>> \in Seq(Reqs) /\ <<>> \in Seq(Reqs \cup {None})
    OBVIOUS
  <2>2. CoreTyped
    BY <1>1, <2>1, NoReqIsFree DEF Init, CoreTyped
  <2>3. MainTyped /\ ScreenTyped
    BY <1>1 DEF Init, MainTyped, ScreenTyped
  <2>4. QED
    BY <2>2, <2>3
<1>3. Alone /\ Waits /\ Unread
  BY <1>1, NoReqIsFree DEF Init, Alone, Waits, Unread
<1>4. Pipes
  BY EmptyPipe DEF Init, Pipes, Piped
<1>5. QED
  BY <1>2, <1>3, <1>4, TypeParts DEF Inductive

(* Every step keeps it.                                                    *)
LEMMA StepsStayInductive == Inductive /\ [Next]_vars => Inductive'
<1> SUFFICES ASSUME Inductive, [Next]_vars PROVE Inductive'
  OBVIOUS
<1>1. CASE \E c \in Slots : Handle(c) \/ Dies(c) \/ MainReads(c) \/ OnExit(c)
  BY <1>1, HandleMoves, DiesMoves, MainReadsMoves, OnExitMoves
<1>2. CASE \E r \in Reqs : TimesOut(r)
  BY <1>2, TimesOutMoves
<1>3. CASE UNCHANGED vars
  <2>1. CoreTyped /\ MainTyped /\ ScreenTyped
    BY TypeParts DEF Inductive
  <2>2. UNCHANGED <<core, lived, sidecar, quick, timers, pressed, req, banner, queued, latest,
                    watch, answers>>
    BY <1>3 DEF vars, main, screen, past
  <2>3. MainTyped' /\ ScreenTyped'
    BY <2>1, <2>2 DEF MainTyped, ScreenTyped
  <2>4. QED
    BY <2>1, <2>2, <2>3, PipesUnmoved DEF CoreTyped
<1>4. QED
  BY <1>1, <1>2, <1>3, RestartMoves, ScreenMoves DEF Next

(* At every moment the processes, Main's requests and the two pipes belong *)
(* together.                                                               *)
THEOREM AlwaysInductive == Spec => []Inductive
BY StartsInductive, StepsStayInductive, PTL DEF Spec

(* There is one core at a time, however timers and the banner's button     *)
(* race (main.js:436, main.js:456).                                        *)
THEOREM OneAtATime == Spec => []OneCore
<1>1. Inductive => OneCore
  BY DEF Inductive, Alone, OneCore
<1>2. QED
  BY <1>1, AlwaysInductive, PTL

(* Nobody waits for a core that is over, and no answer is taken for that   *)
(* of another core (sidecar.js:151, sidecar.js:216).                       *)
THEOREM NobodyLeftWaiting == Spec => []NobodyWaitsOnTheDead
<1>1. Inductive => NobodyWaitsOnTheDead
  BY DEF Inductive, Waits, Pipes, Piped, Held, Known, NobodyWaitsOnTheDead
<1>2. QED
  BY <1>1, AlwaysInductive, PTL

---------------------------------------------------------------------------
(***************************************************************************)
(* 2. The file of the store a core opens (Schema).                         *)
(***************************************************************************)

---------------------------------------------------------------------------

(* What a version stands for.                                              *)
LEMMA BlocksAre ==
  /\ Blocks = <<First, Second, Third>> /\ DOMAIN Blocks = 1..3 /\ Len(Blocks) = 3
  /\ Blocks[1] = First /\ Blocks[2] = Second /\ Blocks[3] = Third
  /\ Len(First) = 5 /\ Len(Second) = 4 /\ Len(Third) = 2
  /\ DOMAIN First = 1..5 /\ DOMAIN Second = 1..4 /\ DOMAIN Third = 1..2
BY DEF Blocks, First, Second, Third

LEMMA BlocksHaveStatements ==
  ASSUME NEW b \in 1..3
  PROVE  Len(Blocks[b]) \in Nat \ {0} /\ DOMAIN Blocks[b] = 1..Len(Blocks[b])
<1>1. b = 1 \/ b = 2 \/ b = 3
  OBVIOUS
<1>2. QED
  BY <1>1, BlocksAre

LEMMA UptoIs ==
  ASSUME NEW v
  PROVE  \A s : s \in Upto(v) <=> \E n \in 1..3 : n <= v /\ s \in ToSet(Blocks[n])
<1>1. DOMAIN Blocks = 1..3
  BY BlocksAre
<1>2. ASSUME NEW s PROVE s \in Upto(v) <=> \E n \in DOMAIN Blocks : n <= v /\ s \in ToSet(Blocks[n])
  BY DEF Upto
<1>3. QED
  BY <1>1, <1>2

LEMMA UptoGrows ==
  ASSUME NEW v \in Nat
  PROVE  /\ Upto(0) = {}
         /\ \A w \in Nat : v <= w => Upto(v) \subseteq Upto(w)
         /\ v + 1 \in 1..3 => Upto(v + 1) = Upto(v) \cup ToSet(Blocks[v + 1])
<1>1. Upto(0) = {}
  BY UptoIs
<1>2. ASSUME NEW w \in Nat, v <= w PROVE Upto(v) \subseteq Upto(w)
  BY <1>2, UptoIs
<1>3. ASSUME v + 1 \in 1..3 PROVE Upto(v + 1) = Upto(v) \cup ToSet(Blocks[v + 1])
  <2>1. \A n \in 1..3 : n <= v + 1 <=> n <= v \/ n = v + 1
    BY <1>3
  <2>2. QED
    BY <1>3, <2>1, UptoIs
<1>4. QED
  BY <1>1, <1>2, <1>3

(* The first statement of a block goes through on no other version than    *)
(* the one before, once the file has come that far.                        *)
LEMMA FirstFits ==
  ASSUME NEW b \in 1..3, NEW v \in Nat, b <= v + 1, Fits(Blocks[b][1], Upto(v))
  PROVE  v = b - 1
<1>1. Blocks[b][1] \in ToSet(Blocks[b])
  BY BlocksAre DEF ToSet
<1>2. ASSUME b <= v PROVE Blocks[b][1] \in Upto(v)
  BY <1>1, <1>2, UptoIs
<1>3. b <= v => FALSE
  BY <1>2 DEF Fits
<1>4. QED
  BY <1>3

---------------------------------------------------------------------------
(* A core on its way into the file.                                        *)

CoreStates == {"looks", "asks", "migrates", "open", "refused", "failed", "off"}

IsCore(k) ==
  /\ k = [at |-> k.at, schema |-> k.schema, version |-> k.version, block |-> k.block, done |-> k.done,
          starts |-> k.starts]
  /\ k.at \in CoreStates /\ k.version \in Nat /\ k.block \in Nat /\ k.done \in Nat
  /\ k.at \in {"looks", "asks", "migrates", "open", "refused"} => k.schema \in 1..3

(* The first n statements of a block go through on a file.                 *)
GoThrough(b, n, has) ==
  \A i \in 1..n : Fits(Blocks[b][i], has \cup {Blocks[b][j] : j \in 1..(i - 1)})

(* What it has done of its block went through, and nobody else may write.  *)
Writing(c, k) ==
  /\ k.block \in 1..4
  /\ k.done > 0 => db.lock = c /\ k.block \in 1..3
  /\ k.block \in 1..3 =>
       /\ k.done <= Len(Blocks[k.block])
       /\ GoThrough(k.block, k.done, db.has)
  /\ IF db.ours THEN k.block <= db.version + 1
     ELSE k.block = db.version + 1 /\ db.version \in 1..k.schema

OnItsWay(c, k) ==
  /\ k.at \in {"looks", "asks"} => k.done = 0
  /\ k.at \in {"asks", "refused"} => k.version <= db.version
  /\ k.at \in {"asks", "refused"} /\ ~db.ours => k.version = db.version
  /\ k.at = "migrates" => Writing(c, k)
  /\ k.at = "open" => IF db.ours THEN k.schema <= db.version ELSE db.version \in 1..k.schema
  /\ k.at = "refused" => ~db.ours \/ db.version > k.schema \/ db.version > k.version

FileIsWhole ==
  /\ db = [has |-> db.has, version |-> db.version, ours |-> db.ours, lock |-> db.lock]
  /\ db.version \in Nat /\ db.ours \in BOOLEAN
  /\ db.ours => db.has = Upto(db.version)
  /\ ~db.ours => [has |-> db.has, version |-> db.version] \in Strangers

StoreInductive ==
  /\ FileIsWhole
  /\ cores = [c \in Cores |-> cores[c]]
  /\ \A c \in Cores : IsCore(cores[c]) /\ OnItsWay(c, cores[c])

(* Nothing of the file has changed but who writes, and one core.           *)
SameFile == db' = [db EXCEPT !.lock = db'.lock]

LEMMA SameFileIs ==
  ASSUME FileIsWhole, SameFile
  PROVE  /\ FileIsWhole' /\ db'.has = db.has /\ db'.version = db.version /\ db'.ours = db.ours
         /\ Upto(db.version)' = Upto(db.version)
<1>1. db'.has = db.has /\ db'.version = db.version /\ db'.ours = db.ours
  BY DEF SameFile, FileIsWhole
<1>2. db' = [has |-> db'.has, version |-> db'.version, ours |-> db'.ours, lock |-> db'.lock]
  BY DEF SameFile, FileIsWhole
<1>3. Upto(db.version)' = Upto(db.version)
  BY <1>1
<1>4. QED
  BY <1>1, <1>2, <1>3 DEF FileIsWhole

LEMMA OneMoves ==
  ASSUME StoreInductive, NEW c \in Cores, NEW k, IsCore(k), Moves(c, k), SameFile,
         \A d \in Cores \ {c} : db.lock = d => db'.lock = d,
         OnItsWay(c, k)'
  PROVE  StoreInductive'
<1>1. /\ FileIsWhole' /\ db'.has = db.has /\ db'.version = db.version /\ db'.ours = db.ours
  BY SameFileIs DEF StoreInductive
<1>2. cores' = [cores EXCEPT ![c] = k]
  BY DEF Moves
<1>3. /\ cores' = [d \in Cores |-> cores'[d]] /\ cores'[c] = k
      /\ \A d \in Cores \ {c} : cores'[d] = cores[d]
  BY <1>2 DEF StoreInductive
<1>4. ASSUME NEW d \in Cores \ {c} PROVE OnItsWay(d, cores[d])'
  <2>1. cores'[d] = cores[d] /\ OnItsWay(d, cores[d]) /\ (db.lock = d => db'.lock = d)
    BY <1>3 DEF StoreInductive
  <2>2. Writing(d, cores[d]) => Writing(d, cores[d])'
    BY <1>1, <2>1 DEF Writing
  <2>3. QED
    BY <1>1, <2>1, <2>2 DEF OnItsWay
<1>5. OnItsWay(c, cores[c])' /\ IsCore(cores[c])'
  BY <1>3 DEF OnItsWay, Writing, IsCore
<1>6. ASSUME NEW d \in Cores \ {c} PROVE IsCore(cores[d])'
  BY <1>3 DEF StoreInductive, IsCore
<1>7. QED
  BY <1>1, <1>3, <1>4, <1>5, <1>6 DEF StoreInductive

LEMMA StandsStill ==
  ASSUME StoreInductive, UNCHANGED db
  PROVE  SameFile /\ \A d \in Cores : db.lock = d => db'.lock = d
BY DEF StoreInductive, FileIsWhole, SameFile

LEMMA ReleasedIs ==
  ASSUME StoreInductive, NEW c \in Cores, db' = Released(c)
  PROVE  SameFile /\ \A d \in Cores \ {c} : db.lock = d => db'.lock = d
BY DEF StoreInductive, FileIsWhole, SameFile, Released

LEMMA LooksAround ==
  ASSUME StoreInductive, NEW c \in Cores,
         Start(c) \/ Looks(c) \/ Asks(c) \/ Locked(c) \/ Opens(c)
  PROVE  StoreInductive'
<1>1. /\ FileIsWhole /\ IsCore(cores[c]) /\ OnItsWay(c, cores[c]) /\ UNCHANGED db
      /\ SameFile /\ (\A d \in Cores \ {c} : db.lock = d => db'.lock = d)
  BY StandsStill DEF StoreInductive, Start, Looks, Asks, Locked, Opens
<1>2. ASSUME NEW k, IsCore(k), Moves(c, k), OnItsWay(c, k)' PROVE StoreInductive'
  BY <1>1, <1>2, OneMoves
<1>3. CASE Start(c)
  <2>1. PICK b \in Builds : Moves(c, [Off EXCEPT !.at = "looks", !.schema = b, !.starts = cores[c].starts + 1])
    BY <1>3 DEF Start
  <2>2. PICK k : k = [Off EXCEPT !.at = "looks", !.schema = b, !.starts = cores[c].starts + 1]
    OBVIOUS
  <2>3. b \in 1..3
    BY BlocksAre, SchemaConstants
  <2>4. IsCore(k) /\ OnItsWay(c, k)'
    BY <2>2, <2>3 DEF IsCore, OnItsWay, Off, CoreStates
  <2>5. QED
    BY <1>2, <2>1, <2>2, <2>4
<1>4. CASE Looks(c)
  <2>1. PICK k : k = [cores[c] EXCEPT !.at = "asks", !.version = db.version]
    OBVIOUS
  <2>2. Moves(c, k) /\ cores[c].at = "looks"
    BY <1>4, <2>1 DEF Looks
  <2>3. IsCore(k) /\ k.at = "asks" /\ k.version = db.version /\ k.done = 0
    BY <1>1, <2>1, <2>2 DEF IsCore, OnItsWay, CoreStates, FileIsWhole
  <2>5. OnItsWay(c, k)'
    BY <1>1, <2>3 DEF OnItsWay, FileIsWhole
  <2>4. QED
    BY <1>2, <2>2, <2>3, <2>5
<1>5. CASE Asks(c) /\ NotOurs(cores[c].version, cores[c].schema)
  <2>1. PICK k : k = [cores[c] EXCEPT !.at = "refused"]
    OBVIOUS
  <2>2. Moves(c, k) /\ cores[c].at = "asks"
    BY <1>5, <2>1 DEF Asks
  <2>3. IsCore(k) /\ k.schema = cores[c].schema /\ k.version = cores[c].version /\ k.at = "refused"
    BY <1>1, <2>1, <2>2 DEF IsCore, CoreStates
  <2>4. db.ours => db.version > k.schema \/ db.version > k.version
    BY <1>1, <1>5, <2>2, <2>3, UptoGrows DEF NotOurs, FileIsWhole, OnItsWay, IsCore
  <2>5. OnItsWay(c, k)'
    BY <1>1, <2>2, <2>3, <2>4 DEF OnItsWay
  <2>6. QED
    BY <1>2, <2>2, <2>3, <2>5
<1>6. CASE Asks(c) /\ ~NotOurs(cores[c].version, cores[c].schema)
  <2>1. PICK k : k = [cores[c] EXCEPT !.at = "migrates", !.block = cores[c].version + 1]
    OBVIOUS
  <2>2. Moves(c, k) /\ cores[c].at = "asks"
    BY <1>6, <2>1 DEF Asks
  <2>3. /\ IsCore(k) /\ k.at = "migrates" /\ k.done = 0 /\ k.block = cores[c].version + 1
        /\ k.schema \in 1..3 /\ k.schema = cores[c].schema
    <3>1. /\ k.at = "migrates" /\ k.block = cores[c].version + 1 /\ k.done = cores[c].done
          /\ k.schema = cores[c].schema /\ k.version = cores[c].version /\ k.starts = cores[c].starts
          /\ k = [at |-> k.at, schema |-> k.schema, version |-> k.version, block |-> k.block, done |-> k.done,
                  starts |-> k.starts]
      BY <1>1, <2>1 DEF IsCore
    <3>2. cores[c].done = 0 /\ cores[c].version \in Nat /\ cores[c].schema \in 1..3
      BY <1>1, <2>2 DEF IsCore, OnItsWay
    <3>3. QED
      BY <3>1, <3>2 DEF IsCore, CoreStates
  <2>5. /\ cores[c].version \in Nat /\ cores[c].version <= k.schema /\ cores[c].version <= db.version
        /\ db.version \in Nat
        /\ ~db.ours => cores[c].version = db.version /\ db.has # {}
    BY <1>1, <1>6, <2>2, <2>3, SchemaConstants DEF IsCore, OnItsWay, NotOurs, FileIsWhole, Strange
  <2>6. ~db.ours => db.version # 0
    BY <1>6, <2>5 DEF NotOurs
  <2>7. OnItsWay(c, k)'
    <3>1. k.block \in 1..4 /\ k.done = 0
      BY <2>3, <2>5
    <3>2. GoThrough(k.block, k.done, db.has)
      BY <3>1 DEF GoThrough
    <3>3. k.block \in 1..3 => k.done <= Len(Blocks[k.block])
      BY <3>1, BlocksHaveStatements
    <3>4. IF db.ours THEN k.block <= db.version + 1
          ELSE k.block = db.version + 1 /\ db.version \in 1..k.schema
      BY <1>1, <2>3, <2>5, <2>6 DEF FileIsWhole
    <3>5. Writing(c, k)
      BY <3>1, <3>2, <3>3, <3>4 DEF Writing
    <3>6. Writing(c, k)'
      BY <1>6, <3>5 DEF Writing, Asks
    <3>7. QED
      BY <2>3, <3>6 DEF OnItsWay
  <2>4. QED
    BY <1>2, <2>2, <2>3, <2>7
<1>7. CASE Locked(c)
  <2>1. PICK k : k = [cores[c] EXCEPT !.at = "failed"]
    OBVIOUS
  <2>2. Moves(c, k)
    BY <1>7, <2>1 DEF Locked
  <2>3. IsCore(k) /\ OnItsWay(c, k)'
    BY <1>1, <2>1 DEF IsCore, OnItsWay, CoreStates
  <2>4. QED
    BY <1>2, <2>2, <2>3
<1>8. CASE Opens(c)
  <2>1. PICK k : k = [cores[c] EXCEPT !.at = "open"]
    OBVIOUS
  <2>2. Moves(c, k) /\ cores[c].at = "migrates" /\ cores[c].block > cores[c].schema
    BY <1>8, <2>1 DEF Opens
  <2>3. IsCore(k) /\ OnItsWay(c, k)'
    BY <1>1, <2>1, <2>2 DEF IsCore, OnItsWay, CoreStates, Writing, FileIsWhole
  <2>4. QED
    BY <1>2, <2>2, <2>3
<1>9. QED
  BY <1>3, <1>4, <1>5, <1>6, <1>7, <1>8 DEF Asks

LEMMA StatementHolds ==
  ASSUME StoreInductive, NEW c \in Cores, Statement(c)
  PROVE  StoreInductive'
<1> DEFINE b == cores[c].block
           n == cores[c].done + 1
<1>1. /\ FileIsWhole /\ IsCore(cores[c]) /\ Writing(c, cores[c]) /\ cores[c].at = "migrates"
      /\ b <= cores[c].schema /\ db.lock \in {Nobody, c} /\ cores[c].done < Len(Blocks[b])
  BY DEF StoreInductive, Statement, MayWrite, Block, OnItsWay
<1>2. b \in 1..3 /\ n \in Nat /\ n # 0 /\ n <= Len(Blocks[b]) /\ cores[c].done = n - 1
  BY <1>1, BlocksAre DEF Writing, IsCore
<1>3. CASE Fits(Blocks[b][n], Sees(c))
  <2>1. PICK k : k = [cores[c] EXCEPT !.done = n]
    OBVIOUS
  <2>2. Moves(c, k) /\ db' = [db EXCEPT !.lock = c]
    BY <1>3, <2>1 DEF Statement, Block
  <2>3. SameFile /\ db'.lock = c /\ (\A d \in Cores \ {c} : db.lock = d => db'.lock = d)
    <3>1. \A d \in Cores \ {c} : db.lock # d
      BY <1>1, SchemaConstants
    <3>2. QED
      BY <1>1, <2>2, <3>1 DEF SameFile, FileIsWhole
  <2>4. /\ k.at = "migrates" /\ k.block = b /\ k.done = n /\ k.schema = cores[c].schema /\ IsCore(k)
    BY <1>1, <1>2, <2>1 DEF IsCore
  <2>5. GoThrough(b, n, db.has)
    <3>1. GoThrough(b, n - 1, db.has)
      BY <1>1, <1>2 DEF Writing
    <3>2. Sees(c) = db.has \cup {Blocks[b][j] : j \in 1..(n - 1)}
      BY <1>2 DEF Sees, Block
    <3>3. ASSUME NEW i \in 1..n
          PROVE  Fits(Blocks[b][i], db.has \cup {Blocks[b][j] : j \in 1..(i - 1)})
      <4>1. CASE i = n
        BY <1>3, <3>2, <4>1
      <4>2. CASE i # n
        <5>1. i \in 1..(n - 1)
          BY <1>2, <4>2
        <5>2. QED
          BY <3>1, <5>1 DEF GoThrough
      <4>3. QED
        BY <4>1, <4>2
    <3>4. QED
      BY <3>3 DEF GoThrough
  <2>6. OnItsWay(c, k)'
    <3>1. db'.has = db.has /\ db'.version = db.version /\ db'.ours = db.ours
      BY <1>1, <2>3, SameFileIs
    <3>2. Writing(c, k)'
      BY <1>1, <1>2, <2>3, <2>4, <2>5, <3>1 DEF Writing
    <3>3. QED
      BY <2>4, <3>2 DEF OnItsWay
  <2>7. QED
    BY <2>2, <2>3, <2>4, <2>6, OneMoves
<1>4. CASE ~Fits(Blocks[b][n], Sees(c))
  <2>1. PICK k : k = [cores[c] EXCEPT !.at = "failed"]
    OBVIOUS
  <2>2. Moves(c, k) /\ db' = Released(c)
    BY <1>4, <2>1 DEF Statement, Block
  <2>3. IsCore(k) /\ OnItsWay(c, k)'
    BY <1>1, <2>1 DEF IsCore, OnItsWay, CoreStates
  <2>4. QED
    BY <2>2, <2>3, OneMoves, ReleasedIs
<1>5. QED
  BY <1>3, <1>4

LEMMA EndsHolds ==
  ASSUME StoreInductive, NEW c \in Cores, Ends(c)
  PROVE  StoreInductive'
<1>1. PICK k : k = [Off EXCEPT !.starts = cores[c].starts]
  OBVIOUS
<1>2. Moves(c, k) /\ db' = Released(c)
  BY <1>1 DEF Ends
<1>3. IsCore(k) /\ OnItsWay(c, k)'
  BY <1>1 DEF IsCore, OnItsWay, CoreStates, Off
<1>4. QED
  BY <1>2, <1>3, OneMoves, ReleasedIs

(* A block that is committed was the next one: the file is what its new    *)
(* version says, and a stranger's never comes so far.                      *)
LEMMA CommitHolds ==
  ASSUME StoreInductive, NEW c \in Cores, Commit(c)
  PROVE  StoreInductive'
<1> DEFINE b == cores[c].block
           n == cores[c].done
<1>1. /\ FileIsWhole /\ IsCore(cores[c]) /\ Writing(c, cores[c]) /\ cores[c].at = "migrates"
      /\ b <= cores[c].schema /\ db.lock \in {Nobody, c} /\ n = Len(Blocks[b])
  BY DEF StoreInductive, Commit, MayWrite, Block, OnItsWay
<1>2. b \in 1..3 /\ n \in Nat /\ n > 0 /\ db.lock = c /\ GoThrough(b, n, db.has) /\ db.version \in Nat
  <2>1. b \in 1..3 /\ n \in Nat /\ db.version \in Nat
    BY <1>1 DEF Writing, IsCore, FileIsWhole
  <2>2. n > 0
    BY <1>1, <2>1, BlocksHaveStatements
  <2>3. QED
    BY <1>1, <2>1, <2>2 DEF Writing
<1>3. Sees(c) = db.has \cup ToSet(Blocks[b])
  BY <1>1, <1>2, BlocksAre DEF Sees, Block, ToSet
<1>4. db.ours
  <2>1. SUFFICES ASSUME ~db.ours PROVE FALSE
    BY <1>1 DEF FileIsWhole
  <2>2. /\ b = db.version + 1 /\ db.version \in 1..2
        /\ Strange([has |-> db.has, version |-> db.version]) /\ db.version \in 1..(Len(Blocks) - 1)
    BY BlocksAre, <1>1, <1>2, <2>1, SchemaConstants DEF Writing, FileIsWhole
  <2>3. PICK i \in DOMAIN Blocks[b] :
          ~Fits(Blocks[b][i], db.has \cup {Blocks[b][j] : j \in 1..(i - 1)})
    <3>1. PICK f : f = [has |-> db.has, version |-> db.version]
      OBVIOUS
    <3>2. f.has = db.has /\ f.version + 1 = b /\ f.version \in 1..(Len(Blocks) - 1) /\ Strange(f)
      BY <2>2, <3>1
    <3>3. \E i \in DOMAIN Blocks[b] :
            ~Fits(Blocks[b][i], f.has \cup {Blocks[b][j] : j \in 1..(i - 1)})
      <4>1. \E i \in DOMAIN Blocks[f.version + 1] :
              ~Fits(Blocks[f.version + 1][i], f.has \cup {Blocks[f.version + 1][j] : j \in 1..(i - 1)})
        BY <3>2, Zenon DEF Strange
      <4>2. QED
        BY <3>2, <4>1
    <3>4. QED
      BY <3>2, <3>3
  <2>4. i \in 1..n
    BY <1>1, <1>2, BlocksAre
  <2>5. QED
    BY <1>2, <2>3, <2>4 DEF GoThrough
<1>5. db.version = b - 1
  <2>1. Fits(Blocks[b][1], db.has)
    <3>1. 1 \in 1..n /\ db.has \cup {Blocks[b][j] : j \in 1..(1 - 1)} = db.has
      BY <1>2
    <3>2. Fits(Blocks[b][1], db.has \cup {Blocks[b][j] : j \in 1..(1 - 1)})
      BY <1>2, <3>1 DEF GoThrough
    <3>3. QED
      BY <3>1, <3>2
  <2>2. db.has = Upto(db.version) /\ b <= db.version + 1
    BY <1>1, <1>4 DEF Writing, FileIsWhole
  <2>3. QED
    BY <1>2, <2>1, <2>2, FirstFits
<1>6. Sees(c) = Upto(b)
  <2>1. db.has = Upto(db.version)
    BY <1>1, <1>4 DEF FileIsWhole
  <2>2. db.version + 1 = b /\ Upto(db.version + 1) = Upto(db.version) \cup ToSet(Blocks[db.version + 1])
    BY <1>2, <1>5, UptoGrows
  <2>3. QED
    BY <1>3, <2>1, <2>2
<1>7. /\ db' = [has |-> Upto(b), version |-> b, ours |-> TRUE, lock |-> Nobody]
  BY <1>1, <1>2, <1>4, <1>6 DEF Commit, Released, FileIsWhole
<1>8. FileIsWhole'
  BY <1>2, <1>7 DEF FileIsWhole
<1>9. PICK k : k = [cores[c] EXCEPT !.block = b + 1, !.done = 0]
  OBVIOUS
<1>10. Moves(c, k)
  BY <1>9 DEF Commit
<1>11. /\ cores' = [d \in Cores |-> cores'[d]] /\ cores'[c] = k
       /\ \A d \in Cores \ {c} : cores'[d] = cores[d]
  BY <1>10 DEF StoreInductive, Moves
<1>12. IsCore(k) /\ k.block = b + 1 /\ k.done = 0 /\ k.at = "migrates" /\ k.schema = cores[c].schema
  <2>1. /\ k.block = b + 1 /\ k.done = 0 /\ k.at = cores[c].at /\ k.schema = cores[c].schema
        /\ k.version = cores[c].version
        /\ k = [at |-> k.at, schema |-> k.schema, version |-> k.version, block |-> k.block, done |-> k.done,
                starts |-> k.starts]
    BY <1>1, <1>9 DEF IsCore
  <2>2. QED
    BY <1>1, <1>2, <2>1 DEF IsCore
<1>13. OnItsWay(c, k)'
  <2>1. Writing(c, k)'
    BY <1>2, <1>7, <1>12, BlocksAre DEF Writing, GoThrough
  <2>2. QED
    BY <1>12, <2>1 DEF OnItsWay
<1>14. ASSUME NEW d \in Cores \ {c} PROVE IsCore(cores[d])' /\ OnItsWay(d, cores[d])'
  <2>1. /\ cores'[d] = cores[d] /\ IsCore(cores[d]) /\ OnItsWay(d, cores[d])
        /\ db'.version = db.version + 1 /\ db'.ours
    BY <1>2, <1>5, <1>7, <1>11 DEF StoreInductive
  <2>2. cores[d].at = "migrates" => Writing(d, cores[d])'
    <3>1. ASSUME cores[d].at = "migrates" PROVE cores[d].done = 0
      BY <1>2, <2>1, <3>1 DEF OnItsWay, Writing, IsCore
    <3>2. QED
      BY <1>2, <1>4, <2>1, <3>1, BlocksAre DEF OnItsWay, Writing, GoThrough
  <2>3. QED
    BY <1>2, <1>4, <2>1, <2>2 DEF OnItsWay, IsCore
<1>15. QED
  BY <1>8, <1>11, <1>12, <1>13, <1>14 DEF StoreInductive

LEMMA StoreStarts ==
  ASSUME StoreInit
  PROVE  StoreInductive
<1>1. FileIsWhole
  <2>1. CASE \E n \in FileVersions : db = AsOf(n)
    BY <2>1, SchemaConstants DEF FileIsWhole, AsOf
  <2>2. CASE \E f \in Strangers : db = [has |-> f.has, version |-> f.version, ours |-> FALSE, lock |-> Nobody]
    <3>1. PICK f \in Strangers : db = [has |-> f.has, version |-> f.version, ours |-> FALSE, lock |-> Nobody]
      BY <2>2
    <3>2. f = [has |-> f.has, version |-> f.version] /\ f.version \in Nat
      BY SchemaConstants DEF Strange
    <3>3. QED
      BY <3>1, <3>2 DEF FileIsWhole
  <2>3. QED
    BY <2>1, <2>2 DEF StoreInit
<1>2. cores = [c \in Cores |-> Off]
  BY DEF StoreInit
<1>3. ASSUME NEW c \in Cores PROVE IsCore(cores[c]) /\ OnItsWay(c, cores[c])
  BY <1>2 DEF IsCore, OnItsWay, Off, CoreStates
<1>4. QED
  BY <1>1, <1>2, <1>3 DEF StoreInductive

LEMMA StoreSteps ==
  ASSUME StoreInductive, [StoreNext]_storeVars
  PROVE  StoreInductive'
<1>1. CASE UNCHANGED <<db, cores>>
  <2>1. FileIsWhole'
    BY <1>1, SameFileIs, StandsStill DEF StoreInductive
  <2>2. ASSUME NEW c \in Cores PROVE IsCore(cores[c])' /\ OnItsWay(c, cores[c])'
    BY <1>1 DEF StoreInductive, IsCore, OnItsWay, Writing
  <2>3. QED
    BY <1>1, <2>1, <2>2 DEF StoreInductive
<1>2. CASE StoreNext
  <2>1. PICK c \in Cores : \/ Start(c) \/ Looks(c) \/ Asks(c) \/ Statement(c) \/ Commit(c)
                          \/ Locked(c) \/ Opens(c) \/ Ends(c)
    BY <1>2 DEF StoreNext
  <2>2. QED
    BY <2>1, LooksAround, StatementHolds, CommitHolds, EndsHolds
<1>3. QED
  BY <1>1, <1>2 DEF storeVars

LEMMA StoreInductiveIsWhole ==
  ASSUME StoreInductive
  PROVE  StoreIsWhole
<1>1. ASSUME NEW c \in Cores
      PROVE  /\ cores[c].at = "open" =>
                  IF db.ours THEN Upto(cores[c].schema) \subseteq db.has ELSE LooksOurs(c)
             /\ cores[c].at = "refused" =>
                  ~db.ours \/ db.version > cores[c].schema \/ db.version > cores[c].version
  <2>1. IsCore(cores[c]) /\ OnItsWay(c, cores[c]) /\ FileIsWhole
    BY DEF StoreInductive
  <2>2. cores[c].at = "open" /\ db.ours => Upto(cores[c].schema) \subseteq db.has
    <3>1. SUFFICES ASSUME cores[c].at = "open", db.ours PROVE Upto(cores[c].schema) \subseteq db.has
      OBVIOUS
    <3>2. cores[c].schema \in Nat /\ db.version \in Nat /\ cores[c].schema <= db.version
      BY <2>1, <3>1 DEF IsCore, OnItsWay, FileIsWhole
    <3>3. QED
      BY <2>1, <3>1, <3>2, UptoGrows DEF FileIsWhole
  <2>3. cores[c].at = "open" /\ ~db.ours => LooksOurs(c)
    BY <2>1 DEF OnItsWay, LooksOurs
  <2>4. QED
    BY <2>1, <2>2, <2>3 DEF OnItsWay
<1>2. QED
  BY <1>1 DEF StoreInductive, FileIsWhole, StoreIsWhole

(* However many cores of whatever builds open one file, and wherever each  *)
(* of them dies: a store of ours has what its version says and no more, a  *)
(* core that is in finds all its build reads, and a stranger's file is     *)
(* left as it is (store.rs migrate, refuse_a_database_that_is_not_ours).   *)
THEOREM StoreStaysWhole == StoreSpec => []StoreIsWhole
<1>1. StoreInit => StoreInductive
  BY StoreStarts
<1>2. StoreInductive /\ [StoreNext]_storeVars => StoreInductive'
  BY StoreSteps
<1>3. StoreInductive => StoreIsWhole
  BY StoreInductiveIsWhole
<1>4. QED
  BY <1>1, <1>2, <1>3, PTL DEF StoreSpec

---------------------------------------------------------------------------
(***************************************************************************)
(* 3. The machine a core runs on (Environment).                            *)
(***************************************************************************)

(* An answer's words say what the answer means.                            *)
WordsAreMeant ==
  \A m \in Machines, c \in Components : \A k \in 1..Forms[c] :
    LET a == m[c].answers[k] IN
    a.is # "hangs" => IF a.means = "nothing" THEN ClassifyLogin(a) = "none"
                      ELSE ClassifyLogin(a) = a.means /\ a.means # "none"

---------------------------------------------------------------------------
(* The inductive invariant.                                                *)

Status == [present : BOOLEAN, version : BOOLEAN, login : {"ok", "expired", "not applicable", "unknown"}]
Fields == {"began", "found", "at", "version", "child", "held", "heard"}

IsThread(p) ==
  /\ p = [f \in Fields |-> p[f]]
  /\ p.found \in Seq(Status) /\ Len(p.found) <= Len(Order)
  /\ p.version \in BOOLEAN /\ p.began \in Nat /\ p.at \in Nat
  /\ p.at = Look => p.child = "none"

(* A finding is the machine's.                                             *)
Tells(i, status) ==
  /\ status.present = machine[Order[i]].present
  /\ status.present => status.login = IF machine[Order[i]].bundle THEN "not applicable"
                                      ELSE Answered(Order[i], machine)

(* What a thread has found so far, what it is at, and what it has heard.   *)
Asking(p) ==
  /\ Len(p.found) < Len(Order) /\ Now(p).present /\ ~Now(p).bundle
  /\ p.at - Version <= Forms[At(p)]
  /\ \A k \in Understood(At(p), machine) : p.at - Version <= k

Heard(p) == p.heard = <<Runs(p)>> /\ Runs(p).is # "hangs"

(* The machine has not changed since it began.                             *)
FoundSince(p) ==
  /\ \A i \in 1..Len(p.found) : Tells(i, p.found[i])
  /\ p.at # Look => Asking(p)
  /\ p.at # Look /\ p.child = "ended" => Heard(p)

Threads ==
  \A p \in probes : /\ IsThread(p) /\ cache.asof <= p.began /\ p.began <= changes
                    /\ WordsAreMeant /\ p.began = changes => FoundSince(p)

OneThread == (probes # {} => cache.probing) /\ \A p, q \in probes : p = q

Landed ==
  /\ DOMAIN cache = {"found", "asof", "probing", "generation", "fresh"}
  /\ cache.asof \in Nat /\ cache.asof <= changes
  /\ WordsAreMeant /\ cache.found # Unseen /\ cache.asof = changes =>
       DOMAIN cache.found = DOMAIN Order /\ \A i \in DOMAIN Order : Tells(i, cache.found[i])

Seen == machine \in Machines /\ changes \in Nat /\ Threads /\ OneThread /\ Landed

ProbeInductive == Seen /\ restarts \in Nat

---------------------------------------------------------------------------
(* What the walk through the ways to ask comes to.                         *)

LEMMA LoginIs ==
  ASSUME NEW a
  PROVE  ClassifyLogin(a) \in {"none", "in", "out", "key"}
BY DEF ClassifyLogin, Structured

(* The first that is understood.                                           *)
LEMMA FirstAnswer ==
  ASSUME NEW c \in Components, NEW m, NEW k \in Understood(c, m), \A j \in Understood(c, m) : k <= j
  PROVE  Answered(c, m) = Login(m[c].answers[k].means)
<1> DEFINE f == CHOOSE j \in Understood(c, m) : \A l \in Understood(c, m) : j <= l
<1>1. f \in Understood(c, m) /\ \A l \in Understood(c, m) : f <= l
  OBVIOUS
<1>2. f = k
  <2>1. Understood(c, m) \subseteq Int
    BY EnvironmentConstants DEF Understood
  <2> HIDE DEF f
  <2>2. f <= k /\ k <= f /\ f \in Int /\ k \in Int
    BY <1>1, <2>1
  <2>3. QED
    BY <2>2
<1>3. QED
  BY <1>2 DEF Answered

(* A thread goes on to the next component.                                 *)
LEMMA FindsHolds ==
  ASSUME NEW p, IsThread(p), Len(p.found) < Len(Order), NEW s \in Status
  PROVE  LET q == Finds(p, s) IN
         /\ IsThread(q) /\ q.began = p.began
         /\ FoundSince(p) /\ Tells(Len(p.found) + 1, s) => FoundSince(q)
<1> DEFINE q == Finds(p, s)
<1>1. /\ q.found = Append(p.found, s) /\ q.at = Look /\ q.began = p.began /\ q.version = FALSE
      /\ q.child = "none"
  BY DEF Finds, IsThread, Fields
<1>2. q = [f \in Fields |-> q[f]]
  BY DEF Finds, IsThread, Fields
<1>3. q.found \in Seq(Status) /\ Len(q.found) = Len(p.found) + 1 /\ Len(q.found) <= Len(Order)
  <2>1. Len(Order) \in Nat
    BY EnvironmentConstants
  <2>2. p.found \in Seq(Status) /\ Len(p.found) \in Nat
    BY DEF IsThread
  <2>3. q.found \in Seq(Status) /\ Len(q.found) = Len(p.found) + 1
    BY <1>1, <2>2
  <2>4. QED
    BY <2>1, <2>2, <2>3
<1>4. IsThread(q)
  <2>1. p.began \in Nat
    BY DEF IsThread
  <2> HIDE DEF q
  <2>2. q.version \in BOOLEAN
    BY <1>1
  <2>3. q.began \in Nat /\ q.at \in Nat
    BY <1>1, <2>1 DEF Look
  <2>4. QED
    BY <1>1, <1>2, <1>3, <2>2, <2>3 DEF IsThread
<1>5. ASSUME FoundSince(p), Tells(Len(p.found) + 1, s), NEW i \in 1..Len(q.found)
      PROVE  Tells(i, q.found[i])
  <2>1. CASE i = Len(p.found) + 1
    <3>1. q.found[i] = s
      BY <1>1, <2>1 DEF IsThread
    <3>2. QED
      BY <1>5, <2>1, <3>1
  <2>2. CASE i # Len(p.found) + 1
    <3>1. i \in 1..Len(p.found) /\ q.found[i] = p.found[i]
      BY <1>1, <1>3, <2>2 DEF IsThread
    <3>2. QED
      BY <1>5, <3>1 DEF FoundSince
  <2>3. QED
    BY <2>1, <2>2
<1>6. QED
  BY <1>1, <1>4, <1>5 DEF FoundSince

(* What is at hand is a component of the machine.                          *)
LEMMA AtHand ==
  ASSUME machine \in Machines, NEW p, IsThread(p), Len(p.found) < Len(Order)
  PROVE  /\ Len(p.found) + 1 \in DOMAIN Order /\ At(p) = Order[Len(p.found) + 1] /\ At(p) \in Components
         /\ Now(p) = machine[Order[Len(p.found) + 1]] /\ Forms[At(p)] \in Nat
         /\ Now(p).present \in BOOLEAN /\ Now(p).bundle \in BOOLEAN /\ Now(p).env \in BOOLEAN
<1>1. Len(p.found) + 1 \in DOMAIN Order
  BY EnvironmentConstants DEF IsThread
<1>2. At(p) = Order[Len(p.found) + 1] /\ At(p) \in Components
  BY <1>1 DEF At, Components
<1>3. Now(p) = machine[At(p)] /\ Forms[At(p)] \in Nat
  BY <1>2, EnvironmentConstants DEF Now
<1>4. machine[At(p)].present \in BOOLEAN /\ machine[At(p)].bundle \in BOOLEAN /\ machine[At(p)].env \in BOOLEAN
  <2>1. ASSUME NEW m \in Machines, NEW c \in Components
        PROVE  m[c].present \in BOOLEAN /\ m[c].bundle \in BOOLEAN /\ m[c].env \in BOOLEAN
    BY EnvironmentConstants
  <2>2. QED
    BY <1>2, <2>1
<1>5. QED
  BY <1>1, <1>2, <1>3, <1>4

(* A way to ask has been tried: what it said is what the machine says, or  *)
(* it said nothing.                                                        *)
AnswerSays(p, v) ==
  LET k == p.at - Version IN
  IF v = "none" THEN k \notin Understood(At(p), machine)
  ELSE k \in Understood(At(p), machine) /\ Login(v) = Login(machine[At(p)].answers[k].means)

LEMMA AskedHolds ==
  ASSUME machine \in Machines, NEW p, IsThread(p), Len(p.found) < Len(Order),
         p.at # Look, p.at # Version, NEW v \in {"none", "in", "out", "key"}
  PROVE  LET q == WalkedOn(p, v) IN
         /\ IsThread(q) /\ q.began = p.began
         /\ FoundSince(p) /\ AnswerSays(p, v) => FoundSince(q)
<1> DEFINE q == WalkedOn(p, v)
           k == p.at - Version
           c == At(p)
<1>1. /\ c = Order[Len(p.found) + 1] /\ c \in Components /\ Now(p) = machine[c] /\ Forms[c] \in Nat
      /\ Now(p).present \in BOOLEAN /\ Now(p).bundle \in BOOLEAN /\ Now(p).env \in BOOLEAN
  BY AtHand
<1>2. p.at \in Nat /\ k \in Nat /\ k >= 1 /\ p.at = k + 1
  BY DEF IsThread, Look, Version
<1>3. CASE v # "none"
  <2> DEFINE s == Found(p.version, Login(v))
  <2>1. s \in Status /\ s.present = TRUE /\ s.login = Login(v)
    BY <1>3 DEF Found, Login, Status, IsThread
  <2>2. q = Finds(p, s)
    BY <1>3 DEF WalkedOn
  <2>3. ASSUME FoundSince(p), k \in Understood(c, machine),
               Login(v) = Login(machine[c].answers[k].means)
        PROVE  Tells(Len(p.found) + 1, s)
    <3>1. Now(p).present /\ ~Now(p).bundle /\ \A j \in Understood(c, machine) : k <= j
      BY <2>3 DEF FoundSince, Asking
    <3>2. Answered(c, machine) = Login(machine[c].answers[k].means)
      BY <1>1, <2>3, <3>1, FirstAnswer
    <3> HIDE DEF s
    <3>3. QED
      BY <1>1, <2>1, <2>3, <3>1, <3>2 DEF Tells
  <2> HIDE DEF s, k
  <2>4. QED
    BY <1>3, <2>1, <2>2, <2>3, FindsHolds DEF k, AnswerSays
<1>4. CASE v = "none" /\ k < Forms[c]
  <2>1. q = [p EXCEPT !.at = p.at + 1, !.child = "none", !.heard = <<>>]
    BY <1>4 DEF WalkedOn
  <2>2. q = [f \in Fields |-> q[f]] /\ q.found = p.found /\ q.at = p.at + 1 /\ q.child = "none"
        /\ q.began = p.began /\ q.version = p.version
    BY <2>1 DEF IsThread, Fields
  <2> HIDE DEF q
  <2>3. IsThread(q)
    BY <2>2 DEF IsThread
  <2>4. ASSUME FoundSince(p), k \notin Understood(c, machine)
        PROVE  FoundSince(q)
    <3>1. At(q) = c /\ Now(q) = Now(p)
      BY <2>2 DEF At, Now
    <3>2. Asking(p)
      BY <2>4 DEF FoundSince
    <3>3. \A j \in Understood(c, machine) : k + 1 <= j
      <4>1. ASSUME NEW j \in Understood(c, machine) PROVE k + 1 <= j
        <5>1. k <= j /\ j # k /\ j \in Int
          BY <3>2, <2>4, <1>1 DEF Asking, Understood
        <5>2. QED
          BY <5>1, <1>2
      <4>2. QED
        BY <4>1
    <3>4. q.at - Version = k + 1
      BY <2>2, <1>2 DEF Version
    <3>5. Asking(q)
      BY <3>1, <3>2, <3>3, <3>4, <2>2, <1>4, <1>1, <1>2 DEF Asking
    <3>6. QED
      BY <2>2, <2>4, <3>5 DEF FoundSince
  <2>5. QED
    BY <1>4, <2>2, <2>3, <2>4 DEF q, AnswerSays
<1>5. CASE v = "none" /\ ~(k < Forms[c])
  <2> DEFINE s == Found(p.version, IF Now(p).env THEN "not applicable" ELSE "unknown")
  <2>1. s \in Status /\ s.present = TRUE /\ s.login = (IF Now(p).env THEN "not applicable" ELSE "unknown")
    BY DEF Found, Status, IsThread
  <2>2. q = Finds(p, s)
    BY <1>5 DEF WalkedOn
  <2>3. ASSUME FoundSince(p), k \notin Understood(c, machine)
        PROVE  Tells(Len(p.found) + 1, s)
    <3>1. Asking(p)
      BY <2>3 DEF FoundSince
    <3>2. k = Forms[c]
      BY <3>1, <1>5, <1>2, <1>1 DEF Asking
    <3>3. Understood(c, machine) = {}
      <4>1. ASSUME NEW j \in Understood(c, machine) PROVE FALSE
        <5>1. k <= j /\ j # k /\ j \in Int /\ j <= Forms[c]
          BY <3>1, <2>3, <1>1 DEF Asking, Understood
        <5>2. QED
          BY <5>1, <1>2, <3>2
      <4>2. QED
        BY <4>1
    <3>4. Answered(c, machine) = IF Now(p).env THEN "not applicable" ELSE "unknown"
      <4>1. Forms[c] > 0
        BY <3>2, <1>1, <1>2
      <4>2. Answered(c, machine) = IF ~machine[c].env THEN "unknown" ELSE "not applicable"
        BY <3>3, <4>1 DEF Answered
      <4>3. machine[c].env \in BOOLEAN /\ Now(p).env = machine[c].env
        BY <1>1
      <4>4. QED
        BY <4>2, <4>3
    <3> HIDE DEF s
    <3>5. QED
      BY <1>1, <2>1, <3>1, <3>4 DEF Tells, Asking
  <2> HIDE DEF s, k
  <2>4. QED
    BY <1>5, <2>1, <2>2, <2>3, FindsHolds DEF k, AnswerSays
<1>6. QED
  BY <1>3, <1>4, <1>5

(* The same after the version.                                             *)
LEMMA TookHolds ==
  ASSUME machine \in Machines, NEW p, IsThread(p), Len(p.found) < Len(Order), p.at # Look,
         NEW said \in BOOLEAN, NEW v \in {"none", "in", "out", "key"}
  PROVE  LET q == Took(p, said, v) IN
         /\ IsThread(q) /\ q.began = p.began
         /\ FoundSince(p) /\ (p.at # Version => AnswerSays(p, v)) => FoundSince(q)
<1> DEFINE q == Took(p, said, v)
           c == At(p)
<1>1. /\ c = Order[Len(p.found) + 1] /\ c \in Components /\ Now(p) = machine[c] /\ Forms[c] \in Nat
      /\ Now(p).present \in BOOLEAN /\ Now(p).bundle \in BOOLEAN /\ Now(p).env \in BOOLEAN
  BY AtHand
<1>2. CASE p.at # Version
  BY <1>2, AskedHolds DEF Took
<1>3. CASE p.at = Version /\ Forms[c] = 0
  <2> DEFINE s == Found(said, "not applicable")
  <2>1. s \in Status /\ s.present = TRUE /\ s.login = "not applicable"
    BY DEF Found, Status
  <2>2. q = Finds(p, s)
    BY <1>3 DEF Took
  <2>3. ASSUME FoundSince(p) PROVE Tells(Len(p.found) + 1, s)
    <3>1. Now(p).present
      BY <2>3 DEF FoundSince, Asking
    <3>2. Understood(c, machine) = {}
      BY <1>3 DEF Understood
    <3>3. Answered(c, machine) = "not applicable"
      BY <3>2, <1>3 DEF Answered
    <3> HIDE DEF s
    <3>4. QED
      BY <1>1, <2>1, <3>1, <3>3 DEF Tells
  <2> HIDE DEF s
  <2>4. QED
    BY <2>1, <2>2, <2>3, FindsHolds
<1>4. CASE p.at = Version /\ Forms[c] # 0
  <2>1. q = [p EXCEPT !.at = @ + 1, !.version = said, !.child = "none", !.heard = <<>>]
    BY <1>4 DEF Took
  <2>2. q = [f \in Fields |-> q[f]] /\ q.found = p.found /\ q.at = p.at + 1 /\ q.child = "none"
        /\ q.began = p.began /\ q.version = said
    BY <2>1 DEF IsThread, Fields
  <2> HIDE DEF q
  <2>3. IsThread(q)
    BY <2>2 DEF IsThread
  <2>4. ASSUME FoundSince(p) PROVE FoundSince(q)
    <3>1. At(q) = c /\ Now(q) = Now(p)
      BY <2>2 DEF At, Now
    <3>2. Asking(p)
      BY <2>4 DEF FoundSince
    <3>3. q.at - Version = 1
      BY <2>2, <1>4 DEF Version
    <3>4. Asking(q)
      BY <3>1, <3>2, <3>3, <2>2, <1>4, <1>1 DEF Asking, Understood
    <3>5. QED
      BY <2>2, <2>4, <3>4 DEF FoundSince
  <2>5. QED
    BY <2>2, <2>3, <2>4 DEF q
<1>5. QED
  BY <1>2, <1>3, <1>4

---------------------------------------------------------------------------
(* The steps of a thread.                                                  *)

LEMMA MeantStays == WordsAreMeant' <=> WordsAreMeant
BY DEF WordsAreMeant, ClassifyLogin, Structured, Components

LEMMA TellsTheSame ==
  ASSUME UNCHANGED machine, NEW i, NEW s
  PROVE  Tells(i, s)' <=> Tells(i, s)
BY DEF Tells, Answered, Understood

LEMMA StillTheSame ==
  ASSUME UNCHANGED machine, NEW p
  PROVE  FoundSince(p)' <=> FoundSince(p)
BY DEF FoundSince, Tells, Asking, Heard, Runs, Now, At, Answered, Understood

LEMMA BecomesHolds ==
  ASSUME Seen, NEW p \in probes, NEW q, IsThread(q), q.began = p.began,
         WordsAreMeant /\ p.began = changes => FoundSince(q), Becomes(p, q),
         UNCHANGED <<machine, changes, cache>>
  PROVE  Seen'
<1>1. Threads'
  <2>1. ASSUME NEW x \in probes'
        PROVE  /\ IsThread(x) /\ cache'.asof <= x.began /\ x.began <= changes'
               /\ WordsAreMeant /\ x.began = changes' => FoundSince(x)
    <3>1. x = q \/ x \in probes
      BY DEF Becomes
    <3>2. QED
      BY <3>1 DEF Seen, Threads
  <2>2. \A x \in probes' : FoundSince(x)' <=> FoundSince(x)
    BY StillTheSame
  <2>3. QED
    BY <2>1, <2>2, MeantStays DEF Threads, IsThread
<1>2. OneThread'
  BY DEF Seen, OneThread, Becomes
<1>3. Landed'
  BY MeantStays, TellsTheSame DEF Seen, Landed
<1>4. QED
  BY <1>1, <1>2, <1>3 DEF Seen

(* What is known of the thread that takes a step.                          *)
LEMMA Stepping ==
  ASSUME Seen, NEW p \in probes, Probing(p)
  PROVE  /\ IsThread(p) /\ Len(p.found) < Len(Order) /\ machine \in Machines
         /\ WordsAreMeant /\ p.began = changes => FoundSince(p)
         /\ UNCHANGED <<machine, changes, cache>>
BY DEF Seen, Threads, Probing

LEMMA LookUpHolds ==
  ASSUME Seen, NEW p \in probes, LookUp(p)
  PROVE  Seen'
<1>1. /\ IsThread(p) /\ Len(p.found) < Len(Order) /\ machine \in Machines /\ p.at = Look
      /\ WordsAreMeant /\ p.began = changes => FoundSince(p)
      /\ UNCHANGED <<machine, changes, cache>>
  BY Stepping DEF LookUp
<1>2. /\ At(p) = Order[Len(p.found) + 1] /\ At(p) \in Components /\ Now(p) = machine[At(p)]
      /\ Forms[At(p)] \in Nat
      /\ Now(p).present \in BOOLEAN /\ Now(p).bundle \in BOOLEAN /\ Now(p).env \in BOOLEAN
  BY <1>1, AtHand
<1>3. CASE ~OnPath(p)
  <2>1. Missing \in Status /\ Missing.present = FALSE
    BY DEF Missing, Status
  <2>2. Tells(Len(p.found) + 1, Missing)
    BY <1>2, <1>3, <2>1 DEF Tells, OnPath
  <2>3. Becomes(p, Finds(p, Missing))
    BY <1>3 DEF LookUp
  <2>4. QED
    BY <1>1, <2>1, <2>2, <2>3, FindsHolds, BecomesHolds
<1>4. CASE OnPath(p) /\ Now(p).bundle
  <2> DEFINE s == Found(SaysVersion(Now(p).version), "not applicable")
  <2>1. s \in Status /\ s.present = TRUE /\ s.login = "not applicable"
    BY DEF Found, Status, SaysVersion
  <2>2. Becomes(p, Finds(p, s))
    BY <1>4 DEF LookUp
  <2> HIDE DEF s
  <2>3. Tells(Len(p.found) + 1, s)
    BY <1>2, <1>4, <2>1 DEF Tells, OnPath
  <2>4. QED
    BY <1>1, <2>1, <2>2, <2>3, FindsHolds, BecomesHolds
<1>5. CASE OnPath(p) /\ ~Now(p).bundle
  <2> DEFINE q == [p EXCEPT !.at = Version]
  <2>1. Becomes(p, q)
    BY <1>5 DEF LookUp
  <2>2. /\ q = [f \in Fields |-> q[f]] /\ q.found = p.found /\ q.at = Version /\ q.child = p.child
        /\ q.began = p.began /\ q.version = p.version /\ q.heard = p.heard
    BY <1>1 DEF IsThread, Fields
  <2> HIDE DEF q
  <2>3. IsThread(q)
    BY <1>1, <2>2 DEF IsThread, Version, Look
  <2>4. ASSUME FoundSince(p) PROVE FoundSince(q)
    <3>1. At(q) = At(p) /\ Now(q) = Now(p)
      BY <2>2 DEF At, Now
    <3>2. q.at - Version = 0
      BY <2>2 DEF Version
    <3>3. Asking(q)
      BY <1>1, <1>2, <1>5, <2>2, <3>1, <3>2 DEF Asking, Understood, OnPath
    <3>4. q.child # "ended"
      BY <1>1, <2>2 DEF IsThread
    <3>5. QED
      BY <2>2, <2>4, <3>3, <3>4 DEF FoundSince
  <2>5. QED
    BY <1>1, <2>1, <2>2, <2>3, <2>4, BecomesHolds
<1>6. QED
  BY <1>3, <1>4, <1>5

LEMMA SpawnHolds ==
  ASSUME Seen, NEW p \in probes, Spawn(p)
  PROVE  Seen'
<1>1. /\ IsThread(p) /\ Len(p.found) < Len(Order) /\ machine \in Machines
      /\ WordsAreMeant /\ p.began = changes => FoundSince(p)
      /\ UNCHANGED <<machine, changes, cache>> /\ p.at # Look
  BY Stepping DEF Spawn
<1>2. CASE Spawned(p)
  <2> DEFINE q == [p EXCEPT !.child = "running"]
  <2>1. Becomes(p, q)
    BY <1>2 DEF Spawn
  <2>2. /\ q = [f \in Fields |-> q[f]] /\ q.found = p.found /\ q.at = p.at /\ q.child = "running"
        /\ q.began = p.began /\ q.version = p.version
    BY <1>1 DEF IsThread, Fields
  <2> HIDE DEF q
  <2>3. IsThread(q)
    BY <1>1, <2>2 DEF IsThread
  <2>4. FoundSince(p) => FoundSince(q)
    BY <2>2 DEF FoundSince, Asking, Now, At
  <2>5. QED
    BY <1>1, <2>1, <2>2, <2>3, <2>4, BecomesHolds
<1>3. CASE ~Spawned(p)
  <2>1. Becomes(p, Took(p, FALSE, "none"))
    BY <1>3 DEF Spawn
  <2>2. ~FoundSince(p)
    BY <1>1, <1>3 DEF FoundSince, Asking, Spawned
  <2>3. IsThread(Took(p, FALSE, "none")) /\ Took(p, FALSE, "none").began = p.began
    BY <1>1, TookHolds
  <2>4. QED
    BY <1>1, <2>1, <2>2, <2>3, BecomesHolds
<1>4. QED
  BY <1>2, <1>3

LEMMA ExitsHolds ==
  ASSUME Seen, NEW p \in probes, Exits(p)
  PROVE  Seen'
<1>1. /\ IsThread(p) /\ Len(p.found) < Len(Order) /\ machine \in Machines
      /\ WordsAreMeant /\ p.began = changes => FoundSince(p)
      /\ UNCHANGED <<machine, changes, cache>> /\ p.at # Look
  BY Stepping DEF Exits, IsThread
<1>2. PICK held : Becomes(p, [p EXCEPT !.child = "ended", !.held = held, !.heard = <<Runs(p)>>])
  BY DEF Exits
<1> DEFINE q == [p EXCEPT !.child = "ended", !.held = held, !.heard = <<Runs(p)>>]
<1>3. /\ q = [f \in Fields |-> q[f]] /\ q.found = p.found /\ q.at = p.at /\ q.child = "ended"
      /\ q.began = p.began /\ q.version = p.version /\ q.heard = <<Runs(p)>>
  BY <1>1 DEF IsThread, Fields
<1> HIDE DEF q
<1>4. IsThread(q)
  BY <1>1, <1>3 DEF IsThread
<1>5. FoundSince(p) => FoundSince(q)
  <2>1. Now(q) = Now(p) /\ At(q) = At(p) /\ Runs(q) = Runs(p) /\ Runs(p).is # "hangs"
    BY <1>3 DEF Runs, Now, At, Exits
  <2>2. QED
    BY <1>3, <2>1 DEF FoundSince, Asking, Heard
<1>6. QED
  BY <1>1, <1>2, <1>3, <1>4, <1>5, BecomesHolds DEF q

(* What a way to ask says to one who understands it, and to one who does   *)
(* not wait for it.                                                        *)
LEMMA ReadsRight ==
  ASSUME WordsAreMeant, machine \in Machines, NEW p, IsThread(p), Len(p.found) < Len(Order),
         p.at # Look, p.at # Version, FoundSince(p), Runs(p).is # "hangs"
  PROVE  AnswerSays(p, ClassifyLogin(Runs(p)))
<1> DEFINE c == At(p)
           k == p.at - Version
           a == machine[c].answers[k]
<1>1. c \in Components /\ Now(p) = machine[c] /\ Forms[c] \in Nat
  BY AtHand
<1>2. k \in 1..Forms[c]
  <2>1. p.at \in Nat /\ p.at # 0 /\ p.at # 1 /\ k <= Forms[c]
    BY DEF IsThread, Look, Version, FoundSince, Asking
  <2>2. QED
    BY <1>1, <2>1 DEF Version
<1>3. Runs(p) = a
  BY <1>1 DEF Runs
<1> HIDE DEF c, k
<1>4. a.is # "hangs" => IF a.means = "nothing" THEN ClassifyLogin(a) = "none"
                        ELSE ClassifyLogin(a) = a.means /\ a.means # "none"
  BY <1>1, <1>2 DEF WordsAreMeant
<1>5. k \in Understood(c, machine) <=> a.means # "nothing"
  BY <1>2, <1>3 DEF Understood
<1>6. QED
  BY <1>3, <1>4, <1>5 DEF AnswerSays, c, k

LEMMA NotWaitedFor ==
  ASSUME NEW p, Runs(p).is = "hangs", p.at # Version
  PROVE  AnswerSays(p, "none")
BY DEF AnswerSays, Runs, Now, Understood

LEMMA ReadsOnHolds ==
  ASSUME Seen, NEW p \in probes, ReadsOn(p)
  PROVE  Seen'
<1>1. /\ IsThread(p) /\ Len(p.found) < Len(Order) /\ machine \in Machines
      /\ WordsAreMeant /\ p.began = changes => FoundSince(p)
      /\ UNCHANGED <<machine, changes, cache>> /\ p.at # Look /\ p.child = "ended"
  BY Stepping DEF ReadsOn, IsThread
<1>2. CASE p.at = Version
  <2> DEFINE said == SaysVersion(p.heard[1].is)
  <2>1. Becomes(p, Took(p, said, "none"))
    BY <1>2 DEF ReadsOn
  <2>2. said \in BOOLEAN
    BY DEF SaysVersion
  <2> HIDE DEF said
  <2>3. QED
    BY <1>1, <1>2, <2>1, <2>2, TookHolds, BecomesHolds
<1>3. CASE p.at # Version
  <2> DEFINE v == ClassifyLogin(p.heard[1])
  <2>1. Becomes(p, Took(p, FALSE, v))
    BY <1>3 DEF ReadsOn
  <2>2. v \in {"none", "in", "out", "key"}
    BY LoginIs
  <2>3. WordsAreMeant /\ FoundSince(p) => AnswerSays(p, v)
    <3>1. SUFFICES ASSUME WordsAreMeant, FoundSince(p) PROVE AnswerSays(p, v)
      OBVIOUS
    <3>2. p.heard[1] = Runs(p) /\ Runs(p).is # "hangs"
      BY <1>1, <3>1 DEF FoundSince, Heard
    <3>3. QED
      BY <1>1, <1>3, <3>1, <3>2, ReadsRight
  <2> HIDE DEF v
  <2>4. QED
    BY <1>1, <1>3, <2>1, <2>2, <2>3, TookHolds, BecomesHolds
<1>4. QED
  BY <1>2, <1>3

LEMMA OverrunsHolds ==
  ASSUME Seen, NEW p \in probes, Overruns(p)
  PROVE  Seen'
<1>1. /\ IsThread(p) /\ Len(p.found) < Len(Order) /\ machine \in Machines
      /\ WordsAreMeant /\ p.began = changes => FoundSince(p)
      /\ UNCHANGED <<machine, changes, cache>> /\ p.at # Look
      /\ Runs(p).is = "hangs" /\ Becomes(p, Took(p, FALSE, "none"))
  BY Stepping DEF Overruns, IsThread
<1>2. /\ IsThread(Took(p, FALSE, "none")) /\ Took(p, FALSE, "none").began = p.began
      /\ FoundSince(p) => FoundSince(Took(p, FALSE, "none"))
  BY <1>1, TookHolds, NotWaitedFor
<1>3. QED
  BY <1>1, <1>2, BecomesHolds

(* The findings of the one thread there is take the place of others.       *)
LEMMA LandsHolds ==
  ASSUME Seen, NEW p \in probes, Lands(p)
  PROVE  Seen' /\ cache'.asof >= cache.asof
<1>1. /\ IsThread(p) /\ Len(p.found) = Len(Order) /\ cache.asof <= p.began /\ p.began <= changes
      /\ WordsAreMeant /\ p.began = changes => FoundSince(p)
      /\ UNCHANGED <<machine, changes>> /\ probes' = probes \ {p}
      /\ cache' = [probing |-> FALSE, generation |-> cache.generation + 1, fresh |-> TRUE,
                   found |-> p.found, asof |-> p.began]
  BY DEF Seen, Threads, Lands
<1>2. probes' = {}
  BY <1>1 DEF Seen, OneThread
<1>3. Landed'
  <2>1. DOMAIN p.found = DOMAIN Order /\ DOMAIN Order = 1..Len(p.found)
    BY <1>1, EnvironmentConstants DEF IsThread
  <2>2. WordsAreMeant /\ p.began = changes => \A i \in DOMAIN Order : Tells(i, p.found[i])
    BY <1>1, <2>1 DEF FoundSince
  <2>3. p.began \in Nat
    BY <1>1 DEF IsThread
  <2>4. /\ DOMAIN cache' = {"found", "asof", "probing", "generation", "fresh"}
        /\ cache'.found = p.found /\ cache'.asof = p.began
    BY <1>1
  <2>5. QED
    BY <1>1, <2>1, <2>2, <2>3, <2>4, MeantStays, TellsTheSame DEF Landed
<1>4. cache'.asof >= cache.asof
  BY <1>1 DEF Seen, Landed, IsThread
<1>5. QED
  BY <1>1, <1>2, <1>3, <1>4 DEF Seen, Threads, OneThread

---------------------------------------------------------------------------
(* Requests and the world.                                                 *)

LEMMA StartHolds ==
  ASSUME Seen, NEW force, StartProbe(force), UNCHANGED <<machine, changes>>
  PROVE  Seen' /\ cache'.asof = cache.asof
<1>1. CASE StartsProbe(force)
  <2>1. cache' = [cache EXCEPT !.probing = TRUE] /\ probes' = probes \cup {Thread} /\ ~cache.probing
    BY <1>1 DEF StartProbe, StartsProbe
  <2>2. probes' = {Thread}
    BY <2>1 DEF Seen, OneThread
  <2>3. /\ cache'.asof = cache.asof /\ cache'.found = cache.found /\ cache'.probing = TRUE
        /\ DOMAIN cache' = DOMAIN cache
    BY <2>1 DEF Seen, Landed
  <2>4. IsThread(Thread) /\ Thread.began = changes /\ FoundSince(Thread)
    <3>1. /\ Thread = [f \in Fields |-> Thread[f]] /\ Thread.found = <<>> /\ Thread.at = Look
          /\ Thread.began = changes /\ Thread.version = FALSE /\ Thread.child = "none"
      BY DEF Thread, Fields
    <3>2. /\ Thread.found \in Seq(Status) /\ Len(Thread.found) = 0 /\ 1..0 = {}
          /\ Len(Thread.found) <= Len(Order)
      <4>1. Len(Order) \in Nat
        BY EnvironmentConstants
      <4>2. <<>> \in Seq(Status) /\ Len(<<>>) = 0
        OBVIOUS
      <4>3. Thread.found \in Seq(Status) /\ Len(Thread.found) = 0
        BY <3>1, <4>2
      <4>4. 1..0 = {} /\ 0 <= Len(Order)
        BY <4>1
      <4>5. QED
        BY <4>3, <4>4
    <3>3. Thread.version \in BOOLEAN
      BY <3>1
    <3>4. changes \in Nat
      BY DEF Seen
    <3>5. QED
      BY <3>1, <3>2, <3>3, <3>4 DEF IsThread, FoundSince, Look
  <2>5. Threads'
    <3>1. ASSUME NEW x \in probes'
          PROVE  /\ IsThread(x) /\ cache'.asof <= x.began /\ x.began <= changes'
                 /\ WordsAreMeant /\ x.began = changes' => FoundSince(x)
      BY <2>2, <2>3, <2>4 DEF Seen, Landed
    <3>2. \A x \in probes' : FoundSince(x)' <=> FoundSince(x)
      BY StillTheSame
    <3>3. QED
      BY <3>1, <3>2, MeantStays DEF Threads, IsThread
  <2>6. Landed'
    BY <2>3, MeantStays, TellsTheSame DEF Seen, Landed
  <2>7. QED
    BY <2>2, <2>3, <2>5, <2>6 DEF Seen, OneThread
<1>2. CASE ~StartsProbe(force)
  <2>1. UNCHANGED <<machine, changes, cache, probes>>
    BY <1>2 DEF StartProbe
  <2>2. QED
    BY <2>1, MeantStays, StillTheSame, TellsTheSame DEF Seen, Threads, OneThread, Landed, IsThread
<1>3. QED
  BY <1>1, <1>2

LEMMA NothingMoves ==
  ASSUME Seen, UNCHANGED <<machine, changes, cache, probes>>
  PROVE  Seen'
BY MeantStays, StillTheSame, TellsTheSame DEF Seen, Threads, OneThread, Landed, IsThread

(* What was found before the machine changed is no longer of it.           *)
LEMMA ChangesHolds ==
  ASSUME Seen, MachineChanges
  PROVE  Seen'
<1>1. changes' = changes + 1 /\ machine' \in Machines /\ UNCHANGED <<probes, cache>>
  BY DEF MachineChanges
<1>2. changes \in Nat /\ \A p \in probes : IsThread(p) /\ p.began \in Nat /\ p.began <= changes
                                           /\ cache.asof <= p.began
  BY DEF Seen, Threads, IsThread
<1>3. Threads'
  BY <1>1, <1>2 DEF Threads, IsThread
<1>4. OneThread' /\ Landed'
  BY <1>1, <1>2 DEF Seen, OneThread, Landed
<1>5. QED
  BY <1>1, <1>2, <1>3, <1>4 DEF Seen

LEMMA LeftEndsHolds ==
  ASSUME Seen, LeftEnds
  PROVE  Seen'
<1>1. PICK p \in probes : Becomes(p, [p EXCEPT !.held = FALSE])
  BY DEF LeftEnds
<1> DEFINE q == [p EXCEPT !.held = FALSE]
<1>2. /\ IsThread(p) /\ UNCHANGED <<machine, changes, cache>>
      /\ WordsAreMeant /\ p.began = changes => FoundSince(p)
  BY DEF Seen, Threads, LeftEnds
<1>3. /\ q = [f \in Fields |-> q[f]] /\ q.found = p.found /\ q.at = p.at /\ q.child = p.child
      /\ q.began = p.began /\ q.version = p.version /\ q.heard = p.heard
  BY <1>2 DEF IsThread, Fields
<1> HIDE DEF q
<1>4. IsThread(q)
  BY <1>2, <1>3 DEF IsThread
<1>5. FoundSince(p) => FoundSince(q)
  BY <1>3 DEF FoundSince, Asking, Heard, Runs, Now, At
<1>6. QED
  BY <1>1, <1>2, <1>3, <1>4, <1>5, BecomesHolds DEF q

LEMMA AgesHolds ==
  ASSUME Seen, FiveMinutes
  PROVE  Seen' /\ cache'.asof = cache.asof
<1>1. /\ UNCHANGED <<machine, changes, probes>>
      /\ cache'.asof = cache.asof /\ cache'.found = cache.found /\ cache'.probing = cache.probing
      /\ DOMAIN cache' = DOMAIN cache
  BY DEF Seen, Landed, FiveMinutes
<1>2. Landed'
  BY <1>1, MeantStays, TellsTheSame DEF Seen, Landed
<1>3. Threads'
  BY <1>1, MeantStays, StillTheSame DEF Seen, Threads, IsThread
<1>4. QED
  BY <1>1, <1>2, <1>3 DEF Seen, OneThread

LEMMA RestartHolds ==
  ASSUME Seen, Restart
  PROVE  Seen'
<1>1. UNCHANGED <<machine, changes>> /\ probes' = {} /\ cache' = NewCache
  BY DEF Restart
<1>2. /\ NewCache.found = Unseen /\ NewCache.asof = 0
      /\ DOMAIN NewCache = {"found", "asof", "probing", "generation", "fresh"}
  BY DEF NewCache
<1>3. Landed'
  BY <1>1, <1>2 DEF Seen, Landed
<1>4. QED
  BY <1>1, <1>3 DEF Seen, Threads, OneThread

LEMMA InitIsInductive ==
  ASSUME EnvInit
  PROVE  ProbeInductive
<1>1. machine \in Machines /\ changes = 0 /\ probes = {} /\ cache = NewCache /\ restarts = 0
  BY DEF EnvInit
<1>2. /\ NewCache.found = Unseen /\ NewCache.asof = 0
      /\ DOMAIN NewCache = {"found", "asof", "probing", "generation", "fresh"}
  BY DEF NewCache
<1>3. QED
  BY <1>1, <1>2 DEF ProbeInductive, Seen, Threads, OneThread, Landed

LEMMA ProbeKeeps ==
  ASSUME Seen, Probe
  PROVE  Seen' /\ UNCHANGED restarts /\ cache'.asof >= cache.asof
<1>1. PICK p \in probes : Steps(p)
  BY DEF Probe
<1>2. CASE Lands(p)
  BY <1>2, LandsHolds DEF Lands
<1>3. CASE ~Lands(p)
  <2>1. UNCHANGED <<cache, restarts>>
    BY <1>1, <1>3 DEF Steps, LookUp, Spawn, Exits, ReadsOn, Overruns, Probing
  <2>2. cache'.asof >= cache.asof
    BY <2>1 DEF Seen, Landed
  <2>3. Seen'
    BY <1>1, <1>3, LookUpHolds, SpawnHolds, ExitsHolds, ReadsOnHolds, OverrunsHolds DEF Steps
  <2>4. QED
    BY <2>1, <2>2, <2>3
<1>4. QED
  BY <1>2, <1>3

LEMMA NextKeeps ==
  ASSUME ProbeInductive, [EnvNext]_envVars
  PROVE  ProbeInductive' /\ (restarts' = restarts => cache'.asof >= cache.asof)
<1>1. Seen /\ restarts \in Nat /\ (cache'.asof = cache.asof => cache'.asof >= cache.asof)
  BY DEF ProbeInductive, Seen, Landed
<1>2. CASE Probe
  BY <1>1, <1>2, ProbeKeeps DEF ProbeInductive
<1>3. CASE EnvGet \/ \E force \in BOOLEAN : EnvDetect(force)
  <2>1. UNCHANGED <<machine, changes, restarts>>
    BY <1>3 DEF EnvGet, EnvDetect
  <2>2. UNCHANGED <<cache, probes>> \/ \E force \in BOOLEAN : StartProbe(force)
    BY <1>3 DEF EnvGet, EnvDetect
  <2>3. Seen' /\ cache'.asof = cache.asof
    BY <1>1, <2>1, <2>2, StartHolds, NothingMoves
  <2>4. QED
    BY <1>1, <2>1, <2>3 DEF ProbeInductive
<1>4. CASE Tick \/ UNCHANGED envVars
  <2>1. UNCHANGED <<machine, changes, cache, probes, restarts>>
    BY <1>4 DEF Tick, envVars
  <2>2. QED
    BY <1>1, <2>1, NothingMoves DEF ProbeInductive
<1>5. CASE MachineChanges \/ LeftEnds \/ FiveMinutes
  <2>1. Seen' /\ cache'.asof = cache.asof /\ UNCHANGED restarts
    BY <1>1, <1>5, ChangesHolds, LeftEndsHolds, AgesHolds DEF MachineChanges, LeftEnds, FiveMinutes
  <2>2. QED
    BY <1>1, <2>1 DEF ProbeInductive
<1>6. CASE Restart
  <2>1. restarts' = restarts + 1 /\ Seen'
    BY <1>1, <1>6, RestartHolds DEF Restart
  <2>2. QED
    BY <1>1, <2>1 DEF ProbeInductive
<1>7. QED
  BY <1>2, <1>3, <1>4, <1>5, <1>6 DEF EnvNext, World

---------------------------------------------------------------------------
(* The theorems.                                                           *)

(* What is in trouble is what a finding says is in trouble.                *)
LEMMA TroubleIsTold ==
  ASSUME machine \in Machines, NEW i \in DOMAIN Order, NEW s, Tells(i, s)
  PROVE  /\ Severity(Order[i], s) # "ok" <=> InTrouble(Order[i], machine)
         /\ Ready(s) <=> ~InTrouble(Order[i], machine)
<1> DEFINE c == Order[i]
           m == machine[c]
<1>1. c \in Components /\ Forms[c] \in Nat
  BY EnvironmentConstants DEF Components
<1>2. m.present \in BOOLEAN /\ m.bundle \in BOOLEAN /\ (m.bundle => Forms[c] = 0)
  <2>1. ASSUME NEW x \in Machines, NEW d \in Components
        PROVE  x[d].present \in BOOLEAN /\ x[d].bundle \in BOOLEAN /\ (x[d].bundle => Forms[d] = 0)
    BY EnvironmentConstants
  <2>2. QED
    BY <1>1, <2>1
<1>3. ASSUME Forms[c] = 0 PROVE Answered(c, machine) = "not applicable"
  <2>1. Understood(c, machine) = {}
    BY <1>3 DEF Understood
  <2>2. QED
    BY <1>3, <2>1 DEF Answered
<1>4. /\ s.present = m.present
      /\ s.present => s.login = IF m.bundle THEN "not applicable" ELSE Answered(c, machine)
  BY DEF Tells
<1> HIDE DEF c
<1>5. Ready(s) <=> ~InTrouble(c, machine)
  <2>1. CASE ~m.present
    BY <1>4, <2>1 DEF Ready, InTrouble
  <2>2. CASE m.present /\ Forms[c] = 0
    <3>1. s.login = "not applicable"
      BY <1>2, <1>3, <1>4, <2>2
    <3>2. ~InTrouble(c, machine)
      BY <2>2 DEF InTrouble
    <3>3. QED
      BY <1>4, <2>2, <3>1, <3>2 DEF Ready
  <2>3. CASE m.present /\ Forms[c] # 0
    <3>1. Forms[c] > 0
      BY <1>1, <2>3
    <3>2. ~m.bundle
      BY <1>2, <2>3
    <3>3. s.login = Answered(c, machine)
      BY <1>4, <2>3, <3>2
    <3>4. QED
      BY <1>4, <2>3, <3>1, <3>3 DEF Ready, InTrouble
  <2>4. QED
    BY <1>2, <2>1, <2>2, <2>3
<1>6. Severity(c, s) # "ok" <=> ~Ready(s)
  BY DEF Severity, Ready
<1>7. QED
  BY <1>5, <1>6 DEF c

LEMMA SeenTells ==
  ASSUME WordsAreMeant, Seen
  PROVE  TellsOfTheMachine
<1>1. SUFFICES ASSUME cache.found # Unseen, cache.asof = changes
               PROVE  /\ \A i \in DOMAIN Order : Tells(i, cache.found[i])
                      /\ Problems(cache.found) = {i \in DOMAIN Order : InTrouble(Order[i], machine)}
                      /\ CanRunAnything(cache.found) <=> \A c \in Required : ~InTrouble(c, machine)
  BY DEF TellsOfTheMachine, Tells
<1>2. machine \in Machines /\ DOMAIN cache.found = DOMAIN Order
      /\ \A i \in DOMAIN Order : Tells(i, cache.found[i])
  BY <1>1 DEF Seen, Landed
<1>3. Problems(cache.found) = {i \in DOMAIN Order : InTrouble(Order[i], machine)}
  BY <1>2, TroubleIsTold DEF Problems
<1>4. \A i \in DOMAIN Order : Ready(cache.found[i]) <=> ~InTrouble(Order[i], machine)
  BY <1>2, TroubleIsTold
<1>5. \A c \in Required : \E i \in DOMAIN Order : Order[i] = c
  BY EnvironmentConstants DEF Components
<1>6. CanRunAnything(cache.found) <=> \A c \in Required : ~InTrouble(c, machine)
  BY <1>2, <1>4, <1>5 DEF CanRunAnything
<1>7. QED
  BY <1>2, <1>3, <1>6

(* There is never more than one thread that looks, what landed last is no  *)
(* older than what it is at, and where words mean what they say every      *)
(* finding of one that began after the last change is the machine's        *)
(* (env_probe.rs; dispatch.rs EnvCache, start_probe_inner).                *)
THEOREM ProbesStayInductive == EnvSpec => []ProbeInductive
<1>1. EnvInit => ProbeInductive
  BY InitIsInductive
<1>2. ProbeInductive /\ [EnvNext]_envVars => ProbeInductive'
  BY NextKeeps
<1>3. QED
  BY <1>1, <1>2, PTL DEF EnvSpec

(* Wherever each component is found and however it is asked, and whatever  *)
(* changes, hangs or holds a pipe meanwhile: what was found while the      *)
(* machine stood still says of it what it is, of its logins what the first *)
(* answer that can be understood says, and of what there is to mend        *)
(* neither more nor less (env_probe.rs probe_login, classify_login;        *)
(* environment.rs problems).                                               *)
THEOREM FindingsAreTheMachines ==
  ASSUME WordsAreMeant
  PROVE  EnvSpec => []TellsOfTheMachine
<1>1. ProbeInductive => TellsOfTheMachine
  BY SeenTells DEF ProbeInductive
<1>2. QED
  BY <1>1, ProbesStayInductive, PTL

(* The part of NewestReachesTheScreen that is not about what happens       *)
(* eventually: while a core lives, no finding replaces one whose look      *)
(* began later (dispatch.rs start_probe_inner).                            *)
THEOREM NewestStands ==
  EnvSpec => [][restarts' = restarts => cache'.asof >= cache.asof]_envVars
<1>1. ProbeInductive /\ [EnvNext]_envVars => [restarts' = restarts => cache'.asof >= cache.asof]_envVars
  BY NextKeeps
<1>2. QED
  BY <1>1, ProbesStayInductive, PTL DEF EnvSpec
=============================================================================
