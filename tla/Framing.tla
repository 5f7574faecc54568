------------------------------ MODULE Framing ------------------------------
(***************************************************************************)
(* How the bytes of an event stream become payloads: the SseParser of the  *)
(* OpenAI handlers, and the line reader of the native handlers.            *)
(*                                                                         *)
(* A byte here is <<tag, frame, half, intact>>.  "data" stands for a field *)
(* name at the start of a line, "name" for the line `event: ...` and the   *)
(* line of a comment, both without their end; "lf" and "cr" end lines; a   *)
(* payload is its two "half" bytes, and its frame says which one it is.    *)
(* A payload may be `wide`: the cut between its halves splits a character. *)
(***************************************************************************)
EXTENDS Integers, Sequences, SequencesExt, FiniteSetsExt

LF == <<"lf", 0, 0, TRUE>>
CR == <<"cr", 0, 0, TRUE>>
DATA == <<"data", 0, 0, TRUE>>
NAME == <<"name", 0, 0, TRUE>>
Half(f, h) == <<"half", f, h, TRUE>>

IsHalf(b) == b[1] = "half"

(* Loops are written out: TLAPS knows nothing of SelectSeq and RECURSIVE.   *)
Halves(raw) ==
  LET kept[i \in 0..Len(raw)] ==
        IF i = 0 THEN <<>>
        ELSE IF IsHalf(raw[i]) THEN Append(kept[i - 1], raw[i]) ELSE kept[i - 1]
  IN  kept[Len(raw)]

(* JSON parses what has both halves of one payload and nothing else.       *)
IsPayload(halves) ==
  Len(halves) = 2 /\ halves[1][2] = halves[2][2] /\ halves[1][3] = 1 /\ halves[2][3] = 2

Payload(halves) == [frame |-> halves[1][2], intact |-> halves[1][4] /\ halves[2][4]]

(* A reader's loop over its buffer: what each turn takes off the front, till *)
(* none takes anything.  Each takes the end of a line.                      *)
Drain(Take(_), bytes) ==
  LET turns == Cardinality({i \in DOMAIN bytes : bytes[i] = LF})
      taken[n \in 0..turns] ==
        IF n = 0 THEN [frames |-> <<>>, buf |-> bytes] ELSE Take(taken[n - 1])
  IN  taken[turns]

-----------------------------------------------------------------------------
(* SseParser *)

(* Fault: only the blank line of LF is looked for.                          *)
FrameEndLF(buf) ==
  LET at == {i \in DOMAIN buf : i < Len(buf) /\ buf[i] = LF /\ buf[i + 1] = LF}
  IN  IF at = {} THEN 0 ELSE Min(at)

(* The length of the first complete frame, its last line end included; its  *)
(* terminator is one byte more.  0: there is none yet.                      *)
FrameEnd(buf) ==
  LET plain == {i \in DOMAIN buf : i < Len(buf) /\ buf[i] = LF /\ buf[i + 1] = LF}
      dos   == {i \in DOMAIN buf : i + 1 < Len(buf) /\ buf[i] = LF /\ buf[i + 1] = CR /\ buf[i + 2] = LF}
      first == Min(plain \cup dos)
  IN  IF plain \cup dos = {} THEN 0 ELSE IF first \in plain THEN first ELSE first + 1

(* The data of a raw frame: nothing without a data line.                    *)
ParseFrame(raw) == IF DATA \in Range(raw) THEN <<Halves(raw)>> ELSE <<>>

TakeFrame(s) ==
  LET end == FrameEnd(s.buf)
  IN  IF end = 0 THEN s
      ELSE [frames |-> s.frames \o ParseFrame(SubSeq(s.buf, 1, end)),
            buf    |-> SubSeq(s.buf, end + 2, Len(s.buf))]

(* The frames a buffer holds, and what it keeps.                            *)
Feed(bytes) == Drain(TakeFrame, bytes)

(* Whatever is left when the stream ends is a frame.                        *)
Flush(buf) == ParseFrame(buf)

-----------------------------------------------------------------------------
(* native.rs *)

(* Each chunk is decoded by itself: a character cut by its end is two       *)
(* replacement characters.                                                  *)
Lossy(chunk, wide) ==
  LET cut(i) == /\ IsHalf(chunk[i]) /\ chunk[i][2] \in wide
                /\ \/ i = 1 /\ chunk[i][3] = 2
                   \/ i = Len(chunk) /\ chunk[i][3] = 1
  IN  [i \in DOMAIN chunk |-> IF cut(i) THEN [chunk[i] EXCEPT ![4] = FALSE] ELSE chunk[i]]

(* decode_line, up to the payload.                                          *)
ParseLine(line) == ParseFrame(line)

LineEnd(buf) ==
  LET ends == {i \in DOMAIN buf : buf[i] = LF} IN IF ends = {} THEN 0 ELSE Min(ends)

TakeLine(s) ==
  LET end == LineEnd(s.buf)
  IN  IF end = 0 THEN s
      ELSE [frames |-> s.frames \o ParseLine(SubSeq(s.buf, 1, end)),
            buf    |-> SubSeq(s.buf, end + 1, Len(s.buf))]

(* The payloads of the whole lines of a buffer, and what it keeps.          *)
Lines(bytes) == Drain(TakeLine, bytes)
=============================================================================
