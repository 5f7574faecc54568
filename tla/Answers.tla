------------------------------ MODULE Answers ------------------------------
(***************************************************************************)
(* An upstream's answer on its way through the canonical StreamEvent or    *)
(* CanonicalResponse to the client's dialect: the decoders of the kinds of *)
(* providers, and the renderers of the surfaces.  Texts and the arguments  *)
(* of calls are sequences of pieces; "" and 0 are what is not there.       *)
(*                                                                         *)
(* A frame of a stream has the type its provider gives it ("chunk" for     *)
(* OpenAI and Google), a text, a finish reason, usage, and fragments of    *)
(* calls: the index of the call, and its id, name and arguments in part.   *)
(***************************************************************************)
EXTENDS Integers, Sequences, SequencesExt

Event == [delta |-> <<>>, finish |-> "", prompt |-> 0, completion |-> 0, done |-> FALSE, calls |-> <<>>]

(* What a client reads: one item per event or object of its dialect.        *)
Item(type) ==
  [type |-> type, text |-> <<>>, finish |-> "", prompt |-> 0, completion |-> 0, calls |-> <<>>]

-----------------------------------------------------------------------------
(* Decoders: no event, or one.                                              *)

DecodeOpenAI(frame) ==
  <<[delta |-> frame.text, finish |-> frame.finish, prompt |-> frame.prompt,
     completion |-> frame.completion, done |-> frame.finish # "", calls |-> frame.calls]>>

AnthropicFinish(reason) ==
  CASE reason = "" -> "" [] reason = "max_tokens" -> "length"
    [] reason = "tool_use" -> "tool_calls" [] OTHER -> "stop"

DecodeAnthropic(frame) ==
  CASE frame.type = "content_block_delta" -> <<[Event EXCEPT !.delta = frame.text]>>
    [] frame.type = "message_start" -> <<[Event EXCEPT !.prompt = frame.prompt]>>
    [] frame.type = "message_delta" ->
         <<[Event EXCEPT !.finish = AnthropicFinish(frame.finish), !.completion = frame.completion]>>
    [] frame.type = "message_stop" -> <<[Event EXCEPT !.finish = "stop", !.done = TRUE]>>
    [] OTHER -> <<>>

(* Other reasons are kept, in lower case.                                   *)
GoogleFinish(reason) ==
  CASE reason = "MAX_TOKENS" -> "length" [] reason = "STOP" -> "stop" [] OTHER -> reason

(* Fault: the chunk with the finish reason is taken for the end alone.      *)
DecodeGoogleStop(frame) ==
  <<[Event EXCEPT !.delta = IF frame.finish = "" THEN frame.text ELSE <<>>,
                  !.finish = GoogleFinish(frame.finish), !.done = frame.finish # ""]>>

DecodeGoogle(frame) ==
  IF frame.text = <<>> /\ frame.finish = "" /\ frame.prompt = 0 /\ frame.completion = 0 THEN <<>>
  ELSE <<[delta |-> frame.text, finish |-> GoogleFinish(frame.finish), prompt |-> frame.prompt,
          completion |-> frame.completion, done |-> frame.finish # "", calls |-> <<>>]>>

(* decode_line: the sentinel is no event.                                   *)
Decode(kind, frame) ==
  IF frame.type = "[DONE]" THEN <<>>
  ELSE CASE kind = "anthropic" -> DecodeAnthropic(frame)
         [] kind = "google" -> DecodeGoogle(frame)
         [] OTHER -> DecodeOpenAI(frame)

-----------------------------------------------------------------------------
(* The stateless renderers: no item, or one.                                *)

AnthropicStop(reason) ==
  CASE reason = "length" -> "max_tokens" [] reason = "tool_calls" -> "tool_use" [] OTHER -> "end_turn"

GoogleStop(reason) == IF reason = "length" THEN "MAX_TOKENS" ELSE "STOP"

RenderAnthropic(ev) ==
  IF ev.done THEN <<Item("message_stop")>>
  ELSE IF ev.delta # <<>> THEN <<[Item("content_block_delta") EXCEPT !.text = ev.delta]>>
  ELSE IF ev.finish # ""
  THEN <<[Item("message_delta") EXCEPT !.finish = AnthropicStop(ev.finish), !.completion = ev.completion]>>
  ELSE <<>>

RenderGoogle(ev) ==
  <<[Item("candidates") EXCEPT !.text = ev.delta,
                               !.finish = IF ev.finish = "" THEN "" ELSE GoogleStop(ev.finish)]>>

RenderOpenAI(ev) == <<[Item("chunk") EXCEPT !.text = ev.delta, !.finish = ev.finish]>>

(* render_openai_chunk, of the OpenAI handlers; `first` brings the role.    *)
RenderOpenAIChunk(ev, first) ==
  IF ~first /\ ev.delta = <<>> /\ ev.calls = <<>> /\ ev.finish = "" THEN <<>>
  ELSE <<[Item("chunk") EXCEPT !.text = ev.delta, !.finish = ev.finish, !.calls = ev.calls]>>

EndMarker(surface) == IF surface = "openai" THEN <<Item("[DONE]")>> ELSE <<>>

-----------------------------------------------------------------------------
(* ResponsesRenderer *)

Renderer ==
  [created |-> FALSE, text |-> <<>>, calls |-> <<>>, prompt |-> 0, completion |-> 0, finished |-> FALSE]

NoCall == [id |-> "", name |-> "", arguments |-> <<>>]

(* Fault: the fragments of a call are taken to follow each other.           *)
AbsorbLast(calls, fragment) ==
  IF fragment.id # "" \/ calls = <<>>
  THEN Append(calls, [id |-> fragment.id, name |-> fragment.name, arguments |-> fragment.arguments])
  ELSE [calls EXCEPT ![Len(calls)].arguments = @ \o fragment.arguments]

(* absorb: the fragment goes to the call of its index.                      *)
Absorb(calls, fragment) ==
  LET at   == fragment.index + 1
      room == calls \o [i \in 1..(IF at > Len(calls) THEN at - Len(calls) ELSE 0) |-> NoCall]
  IN  [room EXCEPT ![at] =
         [id        |-> IF fragment.id # "" THEN fragment.id ELSE @.id,
          name      |-> IF fragment.name # "" THEN fragment.name ELSE @.name,
          arguments |-> @.arguments \o fragment.arguments]]

(* The calls after some fragments.                                          *)
Absorbed(calls, fragments) ==
  LET after[i \in 0..Len(fragments)] ==
        IF i = 0 THEN calls ELSE Absorb(after[i - 1], fragments[i])
  IN  after[Len(fragments)]

(* A call without a name cannot be dispatched.                              *)
FunctionCallItem(call) ==
  IF call.name = "" THEN <<>> ELSE <<[Item("function_call") EXCEPT !.calls = <<call>>]>>

FunctionCallItems(calls) == FlattenSeq([i \in DOMAIN calls |-> FunctionCallItem(calls[i])])

MessageItems(text) == IF text = <<>> THEN <<>> ELSE <<[Item("message") EXCEPT !.text = text]>>

UsageItem(type, prompt, completion) ==
  <<[Item(type) EXCEPT !.prompt = prompt, !.completion = completion]>>

TerminalFrames(r) ==
  MessageItems(r.text) \o FunctionCallItems(r.calls)
    \o UsageItem("response.completed", r.prompt, r.completion)

CreatedFrame(r) == IF r.created THEN <<>> ELSE <<Item("response.created")>>

(* The renderer after an event.                                             *)
Accumulate(r, ev) ==
  IF r.finished THEN r
  ELSE [created    |-> TRUE,
        text       |-> r.text \o ev.delta,
        calls      |-> Absorbed(r.calls, ev.calls),
        prompt     |-> IF ev.prompt # 0 THEN ev.prompt ELSE r.prompt,
        completion |-> IF ev.completion # 0 THEN ev.completion ELSE r.completion,
        finished   |-> ev.finish # "" \/ ev.done]

(* Nothing follows the end.                                                 *)
RenderResponses(r, ev) ==
  IF r.finished THEN <<>>
  ELSE CreatedFrame(r)
         \o (IF ev.delta = <<>> THEN <<>>
             ELSE <<[Item("response.output_text.delta") EXCEPT !.text = ev.delta]>>)
         \o (IF ev.finish # "" \/ ev.done THEN TerminalFrames(Accumulate(r, ev)) ELSE <<>>)

FinishResponses(r) == IF r.finished THEN <<>> ELSE CreatedFrame(r) \o TerminalFrames(r)

-----------------------------------------------------------------------------
(* Registry::stream_renderer: one renderer per stream.                      *)

Render(surface, r, ev) ==
  CASE surface = "anthropic" -> RenderAnthropic(ev)
    [] surface = "google"    -> RenderGoogle(ev)
    [] surface = "responses" -> RenderResponses(r, ev)
    [] OTHER                 -> RenderOpenAI(ev)

FinishStream(surface, r) ==
  IF surface = "responses" THEN FinishResponses(r) ELSE EndMarker(surface)

-----------------------------------------------------------------------------
(* Whole answers: a body has parts with a type and a text, a finish reason, *)
(* usage and calls.  A completion is the OpenAI shape every body is brought *)
(* to; none when the body has not the shape of its provider (of OpenAI's    *)
(* nothing is asked: a body that is not JSON goes through as it is).        *)

TextOf(body, type) ==
  FlattenSeq([i \in DOMAIN body.parts |->
                IF body.parts[i].type = type THEN body.parts[i].text ELSE <<>>])

Completion(body, text, finish) ==
  [text |-> text, finish |-> finish, prompt |-> body.prompt, completion |-> body.completion, calls |-> <<>>]

CompletionOfAnthropic(body) ==
  <<Completion(body, TextOf(body, "text"),
               IF body.finish = "" THEN "stop" ELSE AnthropicFinish(body.finish))>>

CompletionOfGoogle(body) ==
  <<Completion(body, TextOf(body, "text"),
               CASE body.finish = "MAX_TOKENS" -> "length"
                 [] body.finish \in {"SAFETY", "RECITATION"} -> "content_filter" [] OTHER -> "stop")>>

(* No text is an error; the counts keep names parse_canonical does not read. *)
CompletionOfResponses(body) ==
  IF TextOf(body, "text") = <<>> THEN <<>>
  ELSE <<[Completion(body, TextOf(body, "text"), "stop") EXCEPT !.prompt = 0, !.completion = 0]>>

TranslateResponse(kind, body) ==
  CASE kind = "openai" ->
         <<[Completion(body, TextOf(body, "text"), body.finish) EXCEPT !.calls = body.calls]>>
    [] kind # "openai" /\ ~body.shaped       -> <<>>
    [] kind = "anthropic" /\ body.shaped     -> CompletionOfAnthropic(body)
    [] kind = "google" /\ body.shaped        -> CompletionOfGoogle(body)
    [] kind = "responses" /\ body.shaped     -> CompletionOfResponses(body)

AnswerOn(type, c, finish) ==
  <<[Item(type) EXCEPT !.text = c.text, !.finish = finish, !.prompt = c.prompt, !.completion = c.completion]>>

AnswerAnthropic(c) == AnswerOn("message", c, AnthropicStop(c.finish))
AnswerGoogle(c)    == AnswerOn("candidates", c, GoogleStop(c.finish))
AnswerOpenAI(c)    == AnswerOn("chat.completion", c, c.finish)

AnswerResponses(c) ==
  MessageItems(c.text) \o FunctionCallItems(c.calls) \o UsageItem("response", c.prompt, c.completion)

RenderResponse(surface, c) ==
  CASE surface = "anthropic" -> AnswerAnthropic(c)
    [] surface = "google"    -> AnswerGoogle(c)
    [] surface = "responses" -> AnswerResponses(c)
    [] OTHER                 -> AnswerOpenAI(c)

(* sse_response_from_completion *)
StreamOfCompletion(c) ==
  <<[Item("chunk") EXCEPT !.text = c.text], [Item("chunk") EXCEPT !.finish = "stop"], Item("[DONE]")>>
=============================================================================
