---------------------------- MODULE StreamRelay ----------------------------
(***************************************************************************)
(* One SSE attempt whose upstream answered 2xx: the probe that decides     *)
(* whether to commit, the pump that takes over from it, the bounded channel *)
(* to the response body, and the client.                                   *)
(*                                                                         *)
(* A frame of the upstream is its number (its place in `said`) and kind:   *)
(*   "text"   content, or a finish reason that does not end the stream;    *)
(*   "start"  an event without content (message_start, bare usage);        *)
(*   "ping"   a payload the decoder of a translated stream ignores;        *)
(*   "stop"   the event that ends a translated stream (message_stop);      *)
(*   "error"  an in-band {"error": ...};                                   *)
(*   "done"   [DONE];                                                      *)
(*   "cut"    what is left of a frame when the stream ends inside it.      *)
(* A chunk of the network is any number of frames, and may start and end   *)
(* inside a frame: `half` says that the parser holds the start of one.     *)
(* Operators named as faults are the plausible bugs each property is shown *)
(* to catch; nothing else uses them.                                       *)
(***************************************************************************)
EXTENDS Integers, Sequences, SequencesExt

CONSTANTS
    Modes,          \* "openai" (passed through), "translated" (Anthropic, Google)
    Kinds,          \* the kinds of whole frames upstreams send
    MaxFrames,      \* bound on the frames of one stream
    Capacity        \* of the channel to the response body (16 or 64)

AllModes == {"openai", "translated"}
AllKinds == {"text", "start", "ping", "stop", "error", "done"}

ASSUME ModesAssumption     == Modes \subseteq AllModes
ASSUME KindsAssumption     == Kinds \subseteq AllKinds
ASSUME MaxFramesAssumption == MaxFrames \in Nat
ASSUME CapacityAssumption  == Capacity \in Nat \ {0}

VARIABLES
    mode,       \* of the target's provider
    said,       \* the kinds of the frames decoded so far
    half,       \* the parser's buffer is not empty
    ended,      \* the upstream has closed the stream
    phase,      \* of the attempt
    pending,    \* numbers of the frames decoded and not yet handled
    spoke,      \* the role-bearing chunk is out (not first_chunk)
    failure,    \* what broke the stream, or "none"
    row,        \* the usage row of the attempt
    channel,    \* items sent and not yet read
    read,       \* items the client has read
    client      \* "reading" or "gone"

upstreamVars == <<mode, said, half, ended>>
clientVars   == <<channel, read, client>>
vars == <<upstreamVars, phase, pending, spoke, failure, row, clientVars>>

Phases == {"probing", "pumping", "sentinel", "closing", "failed", "done", "gone"}

-----------------------------------------------------------------------------
(* Rendering.  An item is <<frame number, part>>; part 2 is the [DONE] that *)
(* follows a "stop".  The error a broken connection is reported with is    *)
(* <<0, 0>>.                                                               *)

Broken == <<0, 0>>

\* An event with nothing to show still renders while the role is to be sent.
Renders(m, k, first) ==
    \/ m = "openai"
    \/ k \in {"text", "stop"}
    \/ k = "start" /\ first

Terminal(m, k) == k \in {"done", "error"} \/ (m = "translated" /\ k = "stop")

\* What a client of mode m gets to see of the frames s: nothing after the
\* terminal frame.
Shown(m, s) ==
    LET reached == {i \in DOMAIN s : \A j \in 1..(i - 1) : ~Terminal(m, s[j])}
        loud(i) == s[i] \in {"text", "stop", "start"}
        visible == {i \in reached :
                       \/ Terminal(m, s[i])
                       \/ Renders(m, s[i], \A j \in 1..(i - 1) : ~loud(j))}
    IN  {<<i, 1>> : i \in visible}
            \cup {<<i, 2>> : i \in {j \in visible : m = "translated" /\ s[j] = "stop"}}

-----------------------------------------------------------------------------
Init ==
    /\ mode \in Modes
    /\ said = <<>> /\ half = FALSE /\ ended = FALSE
    /\ phase = "probing" /\ pending = <<>> /\ spoke = FALSE
    /\ failure = "none" /\ row = "none"
    /\ channel = <<>> /\ read = <<>> /\ client = "reading"

Awaiting == phase \in {"probing", "pumping"} /\ pending = <<>>

\* Fault: sending does not wait for room.
RoomAlways == TRUE

Room == client = "gone" \/ Len(channel) < Capacity

\* A send to a client that is gone is lost.
Send(item) ==
    /\ Room
    /\ channel' = IF client = "gone" THEN channel ELSE Append(channel, item)
    /\ UNCHANGED <<read, client>>

\* Fault: a stall ends the stream as if it were over.
BreakQuietly(why) ==
    phase' = "closing" /\ failure' = IF why = "idle" THEN "none" ELSE why

\* break 'read
Break(why) == phase' = "closing" /\ failure' = why

\* NextChunk::Chunk: the frames it completes, and whether it ends inside one.
Chunk(new, cutsFrame) ==
    /\ Awaiting /\ ~ended
    /\ Len(said) + Len(new) <= MaxFrames
    /\ said' = said \o new
    /\ half' = cutsFrame
    /\ pending' = [i \in 1..Len(new) |-> Len(said) + i]
    /\ UNCHANGED <<mode, ended, phase, spoke, failure, row, clientVars>>

\* NextChunk::End: the parser is flushed; the rest of a frame may be whole but
\* for its blank line, cut, or carry no data at all.
EndWithFrame(k) ==
    /\ Awaiting /\ half
    /\ said' = Append(said, k)
    /\ pending' = <<Len(said) + 1>>
    /\ half' = FALSE /\ ended' = TRUE
    /\ UNCHANGED <<mode, phase, spoke, failure, row, clientVars>>

\* Fault: the pump goes on reading a stream that has ended.
EndAgain ==
    /\ Awaiting
    /\ half' = FALSE /\ ended' = TRUE
    /\ phase' = IF phase = "probing" THEN "failed" ELSE phase
    /\ UNCHANGED <<mode, said, pending, spoke, failure, row, clientVars>>

End ==
    /\ Awaiting
    /\ half' = FALSE /\ ended' = TRUE
    /\ \/ phase = "probing" /\ phase' = "failed" /\ UNCHANGED failure
       \/ phase = "pumping" /\ Break("none")
    /\ UNCHANGED <<mode, said, pending, spoke, row, clientVars>>

\* NextChunk::Idle: nothing within the idle window.
Idle ==
    /\ Awaiting /\ ~ended
    /\ \/ phase = "probing" /\ phase' = "failed" /\ UNCHANGED failure
       \/ phase = "pumping" /\ Break("idle")
    /\ UNCHANGED <<upstreamVars, pending, spoke, row, clientVars>>

\* NextChunk::Transport: the connection broke, or the HTTP client's total time
\* for a request is over.
Transport ==
    /\ Awaiting /\ ~ended
    /\ ended' = TRUE
    /\ \/ phase = "probing" /\ phase' = "failed" /\ UNCHANGED <<failure, clientVars>>
       \/ phase = "pumping" /\ Send(Broken) /\ Break("transport")
    /\ UNCHANGED <<mode, said, half, pending, spoke, row>>

-----------------------------------------------------------------------------
(* probe_stream: the first frame decides.                                  *)

\* Fault: only a [DONE] is looked for.
RefusedUnlessDone(k, alone) == k = "done" /\ alone

\* An error, or a [DONE] with nothing after it.
Refused(k, alone) == k = "error" \/ (k = "done" /\ alone)

\* Fault: the frame the decision was made on is not put back.
HandOverTail == pending' = Tail(pending)

\* push_front: the pump gets every frame the probe has decoded.
HandOver == UNCHANGED pending

Probe ==
    /\ phase = "probing" /\ pending # <<>>
    /\ IF Refused(said[Head(pending)], Len(pending) = 1 /\ ~half)
       THEN phase' = "failed" /\ pending' = <<>>
       ELSE phase' = "pumping" /\ HandOver
    /\ UNCHANGED <<upstreamVars, spoke, failure, row, clientVars>>

-----------------------------------------------------------------------------
(* pump_stream.                                                            *)

Next1 == Head(pending)

\* A terminal frame is sent whether or not anybody reads it.
PumpTerminal ==
    /\ phase = "pumping" /\ pending # <<>>
    /\ said[Next1] \in {"done", "error"}
    /\ Send(<<Next1, 1>>)
    /\ Break(IF said[Next1] = "error" THEN "error" ELSE "none")
    /\ pending' = Tail(pending)
    /\ UNCHANGED <<upstreamVars, spoke, row>>

\* Any other frame: rendered and sent, or dropped.
PumpOther ==
    /\ phase = "pumping" /\ pending # <<>>
    /\ said[Next1] \notin {"done", "error"}
    /\ IF Renders(mode, said[Next1], ~spoke)
       THEN /\ client = "reading" /\ Send(<<Next1, 1>>)
            /\ spoke' = TRUE
            /\ phase' = IF Terminal(mode, said[Next1]) THEN "sentinel" ELSE phase
       ELSE UNCHANGED <<spoke, phase, clientVars>>
    /\ pending' = Tail(pending)
    /\ UNCHANGED <<upstreamVars, failure, row>>

\* `return`: the client is gone, and so is the usage row.
PumpReturns ==
    /\ phase = "pumping" /\ pending # <<>> /\ client = "gone"
    /\ said[Next1] \notin {"done", "error"}
    /\ Renders(mode, said[Next1], ~spoke)
    /\ phase' = "gone" /\ pending' = <<>>
    /\ UNCHANGED <<upstreamVars, spoke, failure, row, clientVars>>

\* The [DONE] the proxy itself adds to a translated stream.
PumpSentinel ==
    /\ phase = "sentinel"
    /\ Send(<<Len(said) - Len(pending), 2>>)
    /\ Break("none")
    /\ UNCHANGED <<upstreamVars, pending, spoke, row>>

\* The one usage row, and the end of the response body.
PumpLogs ==
    /\ phase = "closing"
    /\ row' = IF failure = "none" THEN "ok" ELSE "failed"
    /\ phase' = "done"
    /\ UNCHANGED <<upstreamVars, pending, spoke, failure, clientVars>>

-----------------------------------------------------------------------------
(* The client.                                                             *)

Receive ==
    /\ client = "reading" /\ channel # <<>>
    /\ read' = Append(read, Head(channel))
    /\ channel' = Tail(channel)
    /\ UNCHANGED <<upstreamVars, phase, pending, spoke, failure, row, client>>

\* Hanging up drops the handler while it probes; the pump is a task of its own.
Leave ==
    /\ client = "reading" /\ phase # "failed"
    /\ client' = "gone" /\ channel' = <<>>
    /\ IF phase = "probing" THEN phase' = "gone" /\ pending' = <<>>
       ELSE UNCHANGED <<phase, pending>>
    /\ UNCHANGED <<upstreamVars, spoke, failure, row, read>>

-----------------------------------------------------------------------------
Chunks == UNION {[1..n -> Kinds] : n \in 0..MaxFrames}

Upstream ==
    \/ \E new \in Chunks, cutsFrame \in BOOLEAN : Chunk(new, cutsFrame)
    \/ \E k \in Kinds \cup {"cut"} : EndWithFrame(k)

Attempt ==
    \/ End \/ Idle \/ Transport \/ Probe
    \/ PumpTerminal \/ PumpOther \/ PumpReturns \/ PumpSentinel \/ PumpLogs

Next == Upstream \/ Attempt \/ Receive \/ Leave

Spec == Init /\ [][Next]_vars

(* A client reads as long as it stays, and the attempt goes on: an await on  *)
(* the upstream ends by a chunk, by the idle window or by the HTTP client's *)
(* total time.  The upstream is under no obligation to say anything.        *)
Fairness == WF_vars(Attempt) /\ WF_vars(Receive)

FairSpec == Spec /\ Fairness

-----------------------------------------------------------------------------
(* Properties.                                                             *)

\* Every variable has its type, and the channel never holds more than it can.
TypeOK ==
    /\ mode \in AllModes
    /\ said \in Seq(AllKinds \cup {"cut"})
    /\ half \in BOOLEAN /\ ended \in BOOLEAN /\ spoke \in BOOLEAN
    /\ phase \in Phases
    /\ pending \in Seq(Nat \ {0})
    /\ failure \in {"none", "idle", "transport", "error"}
    /\ row \in {"none", "ok", "failed"}
    /\ channel \in Seq(Nat \X Nat) /\ Len(channel) <= Capacity
    /\ read \in Seq(Nat \X Nat)
    /\ client \in {"reading", "gone"}

Sent == read \o channel

\* What the client has read, but for the report of a broken connection, which
\* can only be the last thing it reads.
Delivered == IF read # <<>> /\ Last(read) = Broken THEN Front(read) ELSE read

\* What is delivered is what the upstream said, in order: nothing is lost or
\* repeated between the probe and the pump, between a frame and the next chunk,
\* or in the channel.
Promise == INSTANCE Relay WITH
    Shown <- Shown,
    read  <- Delivered

RelaysFaithfully == Promise!Spec

\* A stream whose first frame is an in-band error, or which breaks before its
\* first frame, leaves no trace at the client and no row of this task: the
\* handler tries the next target (probe_stream, handlers.rs).
FirstErrorFailsOver ==
    \/ said # <<>> /\ said[1] = "error"
    \/ phase = "failed"
    => Sent = <<>> /\ row = "none"

\* The usage row tells the truth (pump_stream).  A success is logged only of a
\* stream that ended by itself, by its last frame or by closing; and the client,
\* if it stayed, has been sent everything it should see, and no error among it.
SuccessIsComplete ==
    row = "ok" =>
        /\ ended \/ \E i \in DOMAIN said : Terminal(mode, said[i])
        /\ client = "reading" =>
              /\ Range(Sent) = Shown(mode, said)
              /\ \A i \in DOMAIN Sent : said[Sent[i][1]] # "error"

\* Every attempt ends, whatever the upstream does, as long as the client reads
\* or leaves: no frame, stall or full channel keeps the pump for ever.
StreamEnds == <>(phase \in {"failed", "done", "gone"})
=============================================================================
