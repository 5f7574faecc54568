-------------------------------- MODULE Wire --------------------------------
(***************************************************************************)
(* One attempt at one upstream from the client's request to the last item  *)
(* of its answer: the request is brought into the upstream's dialect, the  *)
(* answer comes back whole, or as a stream of bytes the network cuts       *)
(* anywhere, and is brought into the client's.  "compat" is the OpenAI     *)
(* surface of handlers.rs, the others are those of native.rs.  When to     *)
(* fail over is Failover's matter, how the pump waits and logs is          *)
(* StreamRelay's; here is what the two readers and the renderers make of   *)
(* the bytes.                                                              *)
(***************************************************************************)
EXTENDS Requests, Answers, Framing

CONSTANTS
  ClientRequests(_),  \* what clients of a surface ask
  Streams(_),   \* the streams upstreams of a kind send, as frames
  Bodies,       \* the bodies they answer with
  Wide,         \* the pieces of text that are not ASCII
  Layouts       \* how streams are laid out: <<end of line, lead of a frame>>

Fragments == [index : Nat, id : STRING, name : STRING, arguments : Seq(STRING)]
Frames ==
  [type : STRING, text : Seq(STRING), finish : STRING, prompt : Nat, completion : Nat,
   calls : Seq(Fragments)]

(* The sentinel is no JSON: it holds nothing.                               *)
ASSUME StreamAssumption ==
  \A kind \in Kinds : \A frames \in Streams(kind) :
    /\ frames \in Seq(Frames)
    /\ \A f \in Range(frames) : f.type = "[DONE]" => f.finish = "" /\ f.calls = <<>>

(* A provider says its text in the frames its dialect has for it, and       *)
(* nothing after the end; a Responses upstream sends no stream.             *)
EndsStream(f) == f.finish # "" \/ f.type \in {"[DONE]", "message_stop"}

ASSUME SpeechAssumption ==
  \A kind \in Kinds \ {"responses"} : \A frames \in Streams(kind) :
    /\ \A f \in Range(frames) : f.text # <<>> =>
         f.type # "[DONE]" /\ (kind = "anthropic" => f.type = "content_block_delta")
    /\ \A i, j \in DOMAIN frames : i < j /\ EndsStream(frames[i]) => frames[j].text = <<>>

ASSUME BodiesAssumption ==
  \A b \in Bodies :
    /\ b.parts \in Seq([type : STRING, text : Seq(STRING)])
    /\ b.calls \in Seq([id : STRING, name : STRING, arguments : Seq(STRING)])

VARIABLES
  deal,     \* surface, kind and stream flag of the attempt
  phase,
  request,  \* in the client's dialect
  chat,     \* the canonical request
  body,     \* in the upstream's dialect
  answer,   \* frames, their layout, and how many bytes have come
  buf,      \* the reader's buffer
  got,      \* numbers of the payloads it has read
  r,        \* the renderer
  read,     \* what the client has been sent
  ended     \* saw_terminal, or the read loop has been left

asking  == <<request, chat, body>>
reading == <<answer, buf, got, r, read, ended>>
vars    == <<deal, phase, asking, reading>>

AllSurfaces == Surfaces \cup {"compat"}
Dialect(surface) == IF surface = "compat" THEN "openai" ELSE surface

Silent == [frames |-> <<>>, layout |-> <<>>, at |-> 0]

Init ==
  /\ \E s \in AllSurfaces, k \in Kinds, b \in BOOLEAN :
       /\ deal = [surface |-> s, kind |-> k, stream |-> b]
       /\ request \in ClientRequests(Dialect(s))
  /\ phase = "asked" /\ chat = <<>> /\ body = <<>>
  /\ answer = Silent /\ buf = <<>> /\ got = <<>> /\ r = Renderer /\ read = <<>>
  /\ ended = FALSE

Native == deal.surface # "compat"

Parse ==
  /\ phase = "asked" /\ phase' = "parsed"
  /\ chat' = ParseRequest(Dialect(deal.surface), request)
  /\ UNCHANGED <<deal, request, body, reading>>

(* A capability the adapter has not is a failure of the attempt.            *)
Build ==
  /\ phase = "parsed"
  /\ IF Refuses(deal.kind, chat) THEN phase' = "refused" /\ UNCHANGED body
     ELSE phase' = "sent" /\ body' = BuildNativeRequest(deal.kind, chat)
  /\ UNCHANGED <<deal, request, chat, reading>>

-----------------------------------------------------------------------------
(* A whole answer: also what a Responses upstream gives a stream of compat. *)

Buffered == ~deal.stream \/ (deal.kind = "responses" /\ ~Native)

Deliver(b) ==
  LET c == TranslateResponse(deal.kind, b)
  IN  IF c = <<>> THEN phase' = "failed" /\ UNCHANGED read
      ELSE /\ phase' = "done"
           /\ read' = IF ~b.shaped THEN <<Item("raw")>>
                      ELSE IF deal.stream THEN StreamOfCompletion(c[1])
                      ELSE IF Native THEN RenderResponse(deal.surface, c[1])
                      ELSE <<[Item("chat.completion") EXCEPT !.text = c[1].text, !.finish = c[1].finish,
                                                    !.calls = c[1].calls]>>

AnswerWhole ==
  /\ phase = "sent" /\ Buffered
  /\ \E b \in Bodies :
       /\ Deliver(b)
       /\ answer' = [Silent EXCEPT !.frames = <<b>>]
  /\ UNCHANGED <<deal, buf, got, r, ended>>
  /\ request' = <<>> /\ chat' = <<>> /\ body' = <<>>

-----------------------------------------------------------------------------
(* A stream.                                                                *)

Eol(layout) == IF layout[1] = "crlf" THEN <<CR, LF>> ELSE <<LF>>

Lead(layout) ==
  CASE layout[2] = "event"   -> <<NAME>> \o Eol(layout)
    [] layout[2] = "comment" -> <<NAME>> \o Eol(layout) \o Eol(layout)
    [] OTHER                 -> <<>>

Framed(f, layout) ==
  Lead(layout) \o <<DATA, Half(f, 1), Half(f, 2)>> \o Eol(layout) \o Eol(layout)

(* A Responses upstream is not asked to stream: it sends a body.            *)
Bytes(frames, layout) ==
  IF deal.kind = "responses" THEN <<Half(1, 1), Half(1, 2)>>
  ELSE FlattenSeq([f \in DOMAIN frames |-> Framed(f, layout)])

Sending == Bytes(answer.frames, answer.layout)
WideFrames == {f \in DOMAIN answer.frames : Range(answer.frames[f].text) \cap Wide # {}}

(* 2xx: from here on nothing reads the request again.  What compat makes of *)
(* errors in the band is StreamRelay's matter.                              *)
AnswerStream ==
  /\ phase = "sent" /\ ~Buffered
  /\ phase' = "reading"
  /\ \E frames \in Streams(deal.kind), layout \in Layouts :
       /\ Native \/ \A i \in DOMAIN frames : frames[i].type # "error"
       /\ answer' = [frames |-> frames, layout |-> layout, at |-> 0]
  /\ request' = <<>> /\ chat' = <<>> /\ body' = <<>>
  /\ UNCHANGED <<deal, buf, got, r, read, ended>>

(* The frame of a payload; its text may have been damaged on the way.       *)
FrameOf(payload) ==
  LET frame == answer.frames[payload.frame]
  IN  IF payload.intact THEN frame
      ELSE [frame EXCEPT !.text = [i \in DOMAIN @ |-> IF @[i] \in Wide THEN "?" ELSE @[i]]]

(* decode_line: a frame ends the stream if its event says so and renders.   *)
ReadLine(state, halves) ==
  LET evs == IF IsPayload(halves) THEN Decode(deal.kind, FrameOf(Payload(halves))) ELSE <<>>
      out == IF evs = <<>> THEN <<>> ELSE Render(deal.surface, state.r, evs[1])
  IN  [got   |-> IF IsPayload(halves) THEN Append(state.got, halves[1][2]) ELSE state.got,
       r     |-> IF evs = <<>> THEN state.r ELSE Accumulate(state.r, evs[1]),
       read  |-> state.read \o out,
       ended |-> state.ended \/ (out # <<>> /\ (evs[1].done \/ evs[1].finish # ""))]

(* pump_stream: OpenAI's frames pass through, others are translated.        *)
ReadFrame(state, halves) ==
  LET frame == FrameOf(Payload(halves))
      evs   == Decode(deal.kind, frame)
      out   == CASE frame.type = "[DONE]" -> <<Item("[DONE]")>>
                 [] deal.kind = "openai" /\ frame.type # "[DONE]" ->
                      <<[Item("chunk") EXCEPT !.text = frame.text, !.finish = frame.finish,
                                              !.calls = frame.calls]>>
                 [] OTHER -> IF evs = <<>> THEN <<>>
                             ELSE RenderOpenAIChunk(evs[1], state.read = <<>>)
                                    \o IF evs[1].done THEN <<Item("[DONE]")>> ELSE <<>>
  IN  IF state.ended THEN state
      ELSE IF ~IsPayload(halves)
      THEN [state EXCEPT !.read = IF deal.kind = "openai" THEN Append(@, Item("raw")) ELSE @]
      ELSE [state EXCEPT !.got   = Append(@, halves[1][2]),
                         !.read  = @ \o out,
                         !.ended = \E i \in DOMAIN out : out[i].type = "[DONE]"]

ReadPayload(state, halves) ==
  IF Native THEN ReadLine(state, halves) ELSE ReadFrame(state, halves)

(* The reader after some payloads.                                          *)
Reading(payloads) ==
  LET after[i \in 0..Len(payloads)] ==
        IF i = 0 THEN [got |-> got, r |-> r, read |-> read, ended |-> ended]
        ELSE ReadPayload(after[i - 1], payloads[i])
  IN  after[Len(payloads)]

Takes(payloads) ==
  LET after == Reading(payloads)
  IN  got' = after.got /\ r' = after.r /\ read' = after.read /\ ended' = after.ended

(* The network delivers some bytes.                                         *)
Chunk ==
  /\ phase = "reading" /\ (Native \/ ~ended)
  /\ \E end \in (answer.at + 1)..Len(Sending) :
       LET chunk  == SubSeq(Sending, answer.at + 1, end)
           taken  == IF Native THEN Lines(buf \o Lossy(chunk, WideFrames)) ELSE Feed(buf \o chunk)
       IN  /\ answer' = [answer EXCEPT !.at = end]
           /\ buf' = taken.buf
           /\ Takes(taken.frames)
  /\ UNCHANGED <<deal, phase, asking>>

(* The upstream closes, wherever it is; the rest of the buffer is read, and *)
(* a native surface that has seen no end gets its closing frames.           *)
End ==
  /\ phase = "reading" /\ (Native \/ ~ended)
  /\ LET rest  == IF Native /\ ended THEN <<>> ELSE Flush(buf)
         after == Reading(rest)
     IN  /\ got' = after.got /\ r' = after.r
         /\ read' = after.read \o IF Native /\ ~after.ended THEN FinishStream(deal.surface, after.r)
                                  ELSE <<>>
         /\ ended' = after.ended
  /\ phase' = "done" /\ buf' = <<>>
  /\ UNCHANGED <<deal, asking, answer>>

(* [DONE] leaves the read loop of compat at once.                           *)
Leave ==
  /\ phase = "reading" /\ ~Native /\ ended
  /\ phase' = "done" /\ buf' = <<>>
  /\ UNCHANGED <<deal, asking, answer, got, r, read, ended>>

(* The connection breaks: the client's body ends in an error.               *)
Break ==
  /\ phase = "reading" /\ (Native \/ ~ended)
  /\ phase' = "broken"
  /\ UNCHANGED <<deal, asking, reading>>

Next == Parse \/ Build \/ AnswerWhole \/ AnswerStream \/ Chunk \/ End \/ Leave \/ Break

Spec == Init /\ [][Next]_vars

-----------------------------------------------------------------------------
(* Properties                                                               *)

(* The upstream's word for a role.                                          *)
Heard(kind, role) ==
  CASE kind = "google" -> (IF role \in {"assistant", "model"} THEN "model"
                           ELSE IF role = "system" THEN role ELSE "user")
    [] OTHER -> role

RoleOf(surface, turn) ==
  IF turn.type \in Outputs THEN "tool"
  ELSE IF surface # "google" THEN turn.role
  ELSE IF turn.role = "model" THEN "assistant" ELSE "user"

Spoken ==
  LET surface == Dialect(deal.surface)
      said(turn) == [i \in DOMAIN Content(turn.parts) |->
                       <<Heard(deal.kind, RoleOf(surface, turn)), Content(turn.parts)[i]>>]
      turns == SelectSeq(request.turns, LAMBDA t : t.type \in {"message"} \cup Outputs)
  IN  [i \in DOMAIN request.system |-> <<"system", request.system[i]>>] \o FlatMap(said, turns)

Arrived ==
  [i \in DOMAIN body.system |-> <<"system", body.system[i]>>] \o Utterances(body.turns)

(* Images of system prompts have no place but at OpenAI.                    *)
Fits(kind, u) == u[1] # "system" \/ kind = "openai" \/ u[2].type = "text"

(* The tools of a Responses request: where each stands in the tree of       *)
(* namespaces, and what its name is in full.                                *)
Inside(node) ==
  {[at |-> Append(node.at, i), name |-> Append(node.name, node.tools[i].name),
    type |-> node.tools[i].type, tools |-> node.tools[i].tools] : i \in DOMAIN node.tools}

Declared ==
  LET level[n \in 0..MaxNamespaces] ==
        IF n = 0 THEN Inside([at |-> <<>>, name |-> <<>>, tools |-> request.tools])
        ELSE UNION {Inside(node) : node \in {d \in level[n - 1] : d.type = "namespace"}}
  IN  UNION {level[n] : n \in 0..MaxNamespaces}

Servable == {d \in Declared : d.type \in {"function", "custom"}}

(* What the upstream may call: of a Responses client every function and     *)
(* custom tool it declared, wherever in its namespaces, as often as it did, *)
(* in the shape of chat completions, and nothing else; of another client    *)
(* what it sent, as it sent it, with its choice of tools and format.        *)
ToolsAreThose ==
  IF deal.surface = "responses"
  THEN /\ Len(body.tools) = Cardinality(Servable)
       /\ \A d \in Servable :
            Cardinality({i \in DOMAIN body.tools : body.tools[i] = ChatTool(d.name)})
              = Cardinality({e \in Servable : e.name = d.name})
       /\ "tool_choice" \in body.extra <=> "tool_choice" \in request.extra
  ELSE body.tools = request.tools /\ body.extra = request.extra

(* The upstream is asked what the client asked: every text and every image  *)
(* that can be expressed, once, in order and in its role, system prompts    *)
(* apart from the rest.  An OpenAI upstream is given the client's calls     *)
(* under one id each with their answers right behind them, and its tools.   *)
RequestIsWhole ==
  phase = "sent" =>
    /\ \A system \in BOOLEAN :
         LET side(us) == SelectSeq(us, LAMBDA u : (u[1] = "system") = system)
         IN  side(Arrived) = side(SelectSeq(Spoken, LAMBDA u : Fits(deal.kind, u)))
    /\ deal.kind = "openai" =>
         /\ Paired(body.turns)
         /\ \A t \in Range(request.turns) : t.type \in Calls =>
              \E m \in Range(body.turns) : t.call \in Range(m.calls)
         /\ ToolsAreThose

(* translator/mod.rs: a tool call is not dropped between the caller and the *)
(* upstream; docs/providers.md, of Anthropic: tool calling is supported     *)
(* through the translator.  An upstream that has tools is then given those  *)
(* of an OpenAI client, and the calls made so far.                          *)
ToolsReachProvider ==
  phase = "sent" /\ deal.kind # "responses" /\ Dialect(deal.surface) = "openai" =>
    /\ Len(body.tools) = Len(request.tools)
    /\ \A t \in Range(request.turns) : \E m \in Range(body.turns) : Range(t.calls) \subseteq Range(m.calls)

(* ---- *)
DeltaTypes == {"chunk", "content_block_delta", "candidates", "response.output_text.delta", "chat.completion"}
TextRead ==
  FlattenSeq([i \in DOMAIN read |->
    IF read[i].type \in DeltaTypes \/ (~deal.stream /\ read[i].type = "message")
    THEN read[i].text ELSE <<>>])

(* Anthropic's surface shows nothing of an event that ends the stream.      *)
Hidden(frame) == deal.surface = "anthropic" /\ deal.kind # "anthropic" /\ frame.finish # ""

TextSaid ==
  IF Buffered THEN TextOf(answer.frames[1], "text")
  ELSE FlattenSeq([i \in DOMAIN answer.frames |->
                     IF Hidden(answer.frames[i]) THEN <<>> ELSE answer.frames[i].text])

(* A piece as it was said; on a native surface one that is not ASCII may    *)
(* have been cut.                                                           *)
Same(piece, said) == piece = said \/ (Native /\ piece = "?" /\ said \in Wide)

(* However the network cuts a stream, a client reads the text the upstream  *)
(* said, in order, nothing twice, and all of it when the stream came to its *)
(* end.  Responses upstreams of native streams are apart: they send none.   *)
TextIsCarried ==
  phase \in {"reading", "done", "broken"} /\ (Buffered \/ deal.kind # "responses")
    /\ ~(\E i \in DOMAIN read : read[i].type = "raw") =>
    /\ Len(TextRead) <= Len(TextSaid)
    /\ \A i \in DOMAIN TextRead : Same(TextRead[i], TextSaid[i])
    /\ phase = "done" /\ (Buffered \/ answer.at = Len(Sending)) => Len(TextRead) = Len(TextSaid)

(* How many frames have arrived, counted by what the upstream has written:  *)
(* SseParser needs the blank line, the line reader the line of the data.    *)
Whole(k) ==
  LET length == Len(Bytes(SubSeq(answer.frames, 1, k), answer.layout))
  IN  k = 0 \/ answer.at >= length - (IF Native THEN Len(Eol(answer.layout)) ELSE 0)

(* Both readers have read, of what has arrived, every payload once and in   *)
(* order, whichever bytes came together.                                    *)
FramesAreWhole ==
  phase = "reading" /\ deal.kind # "responses" /\ ~(ended /\ ~Native) =>
    \E k \in 0..Len(answer.frames) :
      /\ Whole(k) /\ (k < Len(answer.frames) => ~Whole(k + 1))
      /\ got = [i \in 1..k |-> i]

(* ---- *)
Types(type) == {i \in DOMAIN read : read[i].type = type}

(* The fragments of calls, up to the frame with the finish; those of one.   *)
Said ==
  LET finishes == {i \in DOMAIN got : answer.frames[got[i]].finish # ""}
      last     == IF finishes = {} THEN Len(got) ELSE Min(finishes)
  IN  FlattenSeq([i \in 1..last |-> answer.frames[got[i]].calls])

CallSaid(index) ==
  FlattenSeq([i \in DOMAIN Said |-> IF Said[i].index = index THEN <<Said[i]>> ELSE <<>>])

ArgumentsOf(fragments) == FlattenSeq([i \in DOMAIN fragments |-> fragments[i].arguments])

(* What Codex needs of a stream: response.created first; response.completed *)
(* last and once, whatever the upstream did short of breaking; before it    *)
(* the whole text, and every call with its own arguments in their order.    *)
TurnIsClosed ==
  deal.surface = "responses" /\ deal.stream =>
    /\ read # <<>> => Types("response.created") = {1}
    /\ Types("response.completed") \subseteq {Len(read)}
    /\ phase = "done" => Types("response.completed") # {}
    /\ \A i \in Types("message") : read[i].text = TextRead
    /\ Types("response.completed") # {} /\ TextRead # <<>> => Types("message") # {}
    /\ Types("response.completed") # {} /\ deal.kind = "openai" =>
         \A index \in {f.index : f \in Range(Said)} :
           LET said == CallSaid(index)
           IN  (\E f \in Range(said) : f.name # "") =>
                 \E i \in Types("function_call") :
                   /\ read[i].calls[1].arguments = ArgumentsOf(said)
                   /\ read[i].calls[1].id \in {f.id : f \in Range(said)}

(* docs/providers.md: a streamed request to a Responses upstream is served  *)
(* from its answer.                                                         *)
ResponsesStreamCarriesAnswer ==
  phase = "done" /\ deal.stream /\ deal.kind = "responses" => TextRead = TextSaid
=============================================================================
