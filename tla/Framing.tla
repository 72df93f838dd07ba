------------------------------ MODULE Framing ------------------------------
(***************************************************************************)
(* The pipe between the desktop shell and the core (ipc/framing.rs and     *)
(* framing.js, which mirror each other): a frame is its length in a fixed  *)
(* number of bytes, then its payload.  The bytes arrive in whatever pieces *)
(* the pipe makes of them, and the writer may die in the middle of one.    *)
(* `doc` is what was written, `r` the pipe and the reader.                 *)
(***************************************************************************)
EXTENDS Naturals, Sequences

CONSTANTS
  Scripts,  \* by topic: the sets of payloads that may be written first, second...
  Prefix,   \* the bytes of a length
  Base,     \* the values of a byte
  MaxFrame  \* MAX_FRAME_LEN

Bytes == 0..(Base - 1)

LengthOf(bytes) ==
  LET upTo[n \in 0..Prefix] == IF n = 0 THEN 0 ELSE upTo[n - 1] * Base + bytes[n]
  IN  upTo[Prefix]

(* A payload whose length a header can say.                                *)
Payloads ==
  {payload \in Seq(Bytes) : \E bytes \in [1..Prefix -> Bytes] : LengthOf(bytes) = Len(payload)}

(* What the constants have to be (assumed where they are given values).    *)
FramingConstants ==
  /\ Prefix \in Nat \ {0} /\ Base \in Nat \ {0} /\ MaxFrame \in Nat
  /\ \A t \in DOMAIN Scripts : Scripts[t] \in Seq(SUBSET Payloads)

VARIABLES topic, doc, r

vars == <<topic, doc, r>>

---------------------------------------------------------------------------
Header(n) == CHOOSE bytes \in [1..Prefix -> Bytes] : LengthOf(bytes) = n

Encoded(payload) == Header(Len(payload)) \o payload

Fresh == [pipe |-> <<>>, over |-> FALSE, buffer |-> <<>>, frames |-> <<>>, err |-> "none"]

(* One turn of the reader: a length that is not there yet or a payload     *)
(* that is not whole has to wait, one that is too long is refused at once  *)
(* and stays where it is, and what is whole is taken out before it is      *)
(* handed on.                                                              *)
Claims(p) == LengthOf(p.buffer)
Headed(p) == Len(p.buffer) >= Prefix
TooLong(p) == Headed(p) /\ Claims(p) > MaxFrame
Whole(p)  == Headed(p) /\ ~TooLong(p) /\ Len(p.buffer) >= Prefix + Claims(p)

TakeOne(p) ==
  [p EXCEPT !.frames = Append(@, SubSeq(p.buffer, Prefix + 1, Prefix + Claims(p))),
            !.buffer = SubSeq(@, Prefix + Claims(p) + 1, Len(@))]

Turn(p) == IF Whole(p) THEN TakeOne(p) ELSE p

(* The loop of push: each turn that takes a frame takes a length at least, *)
(* so there are fewer of them than bytes.                                  *)
Drained(p) ==
  LET after[k \in 0..Len(p.buffer)] == IF k = 0 THEN p ELSE Turn(after[k - 1])
      rest == after[Len(p.buffer)]
  IN  IF TooLong(rest) THEN [rest EXCEPT !.err = "too large"] ELSE rest

Pushed(p, n) ==
  Drained([p EXCEPT !.buffer = @ \o SubSeq(p.pipe, 1, n), !.pipe = SubSeq(@, n + 1, Len(@))])

---------------------------------------------------------------------------
Init == topic \in DOMAIN Scripts /\ doc = <<>> /\ r = Fresh

WriteFrame(payload) ==
  /\ ~r.over
  /\ doc' = Append(doc, payload)
  /\ r' = [r EXCEPT !.pipe = @ \o Encoded(payload)]
  /\ UNCHANGED topic

(* A piece of what is in the pipe arrives; a reader that refused a frame   *)
(* reads no more.                                                          *)
Arrives ==
  /\ r.err = "none"
  /\ \E n \in 1..Len(r.pipe) : r' = Pushed(r, n)
  /\ UNCHANGED <<topic, doc>>

(* The writer dies, and only part of what it wrote last was on its way.    *)
WriterDies ==
  /\ ~r.over
  /\ \E n \in 0..Len(r.pipe) : r' = [r EXCEPT !.over = TRUE, !.pipe = SubSeq(@, 1, n)]
  /\ UNCHANGED <<topic, doc>>

(* The end of the stream ends the reader, in a frame or between two.       *)
Ends ==
  /\ r.over /\ r.pipe = <<>> /\ r.err = "none"
  /\ r' = [r EXCEPT !.err = "end"]
  /\ UNCHANGED <<topic, doc>>

Next ==
  /\ topic \in DOMAIN Scripts
  /\ \/ Len(doc) < Len(Scripts[topic]) /\ \E payload \in Scripts[topic][Len(doc) + 1] : WriteFrame(payload)
     \/ Arrives \/ WriterDies \/ Ends

Spec == Init /\ [][Next]_vars

---------------------------------------------------------------------------
(* However the pipe cuts it, what is read is what was written, in its      *)
(* order and whole: no payload is taken for a length, none is lost or read *)
(* twice while the stream lasts, a frame is refused only if it is too      *)
(* long, and then nothing after it is read (framing.js push, framing.rs    *)
(* drain_frames and read_frame).                                           *)
FramesArriveWhole ==
  /\ Len(r.frames) <= Len(doc) /\ r.frames = SubSeq(doc, 1, Len(r.frames))
  /\ r.pipe = <<>> /\ ~r.over /\ r.err = "none" => r.frames = doc
  /\ r.err = "too large" => /\ Len(r.frames) < Len(doc)
                            /\ Len(doc[Len(r.frames) + 1]) > MaxFrame
  /\ \A i \in 1..Len(r.frames) : Len(doc[i]) <= MaxFrame
=============================================================================
