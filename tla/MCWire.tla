------------------------------- MODULE MCWire -------------------------------
(***************************************************************************)
(* A small instance of Wire.  Requests: system prompts apart and inside    *)
(* the turns; images by URL, by data and by a reference no dialect can     *)
(* express; two calls of one turn with a thought between them, their       *)
(* answers; tools in the shape of each dialect, in namespaces inside       *)
(* namespaces, an empty list of tools, tools nobody can serve, a choice    *)
(* of tools, a format of the answer.  Streams: text in pieces, the end     *)
(* apart from and with the last text, fragments of two calls in turns,     *)
(* usage after the end, a stream without an end, an error in the band.     *)
(***************************************************************************)
EXTENDS Wire

Text(atom) == [type |-> "text", form |-> "", atom |-> atom]
Image(form, atom) == [type |-> "image", form |-> form, atom |-> atom]
Other == [type |-> "other", form |-> "", atom |-> "other"]

Turn(role, parts) ==
  [type |-> "message", role |-> role, parts |-> parts, id |-> "", call |-> "", calls |-> <<>>]
Calling(type, id, call) == [Turn("", <<>>) EXCEPT !.type = type, !.id = id, !.call = call]
Output(type, call) == [Turn("", <<Text(call)>>) EXCEPT !.type = type, !.call = call]
Thought == [Turn("", <<Text("thought")>>) EXCEPT !.type = "reasoning"]

Tool(type, name, tools) == [type |-> type, name |-> name, tools |-> tools]
Function(name) == Tool("function", name, <<>>)

Raw(dialect, name) == [shape |-> dialect, name |-> <<name>>]

Ask(system, turns, tools) ==
  [system |-> system, turns |-> turns, tools |-> tools,
   extra |-> IF tools = <<>> THEN {} ELSE {"tools"}]

With(fields, ask) == [ask EXCEPT !.extra = @ \cup fields]

Short(role) == <<Turn(role, <<Text("one")>>)>>

Images(dialect) ==
  <<Text("see"), Image(FormIn(dialect, WebForm), "web"), Other, Image(FormIn(dialect, DataForm), "data"),
    Text("end")>>

Talk(dialect, answerer) ==
  Ask(<<Text("rules"), Text("more")>>,
      <<Turn("user", <<Text("one"), Text("two")>>), Turn(answerer, <<Text("yes")>>),
        Turn("user", Images(dialect))>>, <<>>)

OpenAIAsks ==
  {Ask(<<>>, <<Turn("system", <<Text("rules")>>), Turn("user", <<Text("one")>>),
               Turn("assistant", <<Text("yes")>>), Turn("system", <<Text("more")>>),
               Turn("developer", <<Text("note")>>), Turn("user", Images("openai"))>>, <<>>),
   Ask(<<>>, <<Turn("user", <<Text("one")>>),
               [Turn("assistant", <<Text("look")>>) EXCEPT !.calls = <<"c1", "c2">>],
               [Turn("tool", <<Text("c1")>>) EXCEPT !.call = "c1"],
               [Turn("tool", <<Text("c2")>>) EXCEPT !.call = "c2"]>>,
       <<Raw("openai", "f"), Raw("openai", "g")>>),
   With({"tools"}, Ask(<<>>, Short("user"), <<>>)),
   With({"response_format"}, Ask(<<>>, Short("user"), <<>>))}

AnthropicAsks ==
  {Talk("anthropic", "assistant"),
   Ask(<<>>, <<Turn("user", <<Image("file", "mine"), Text("one")>>)>>, <<>>),
   With({"tool_choice"}, Ask(<<Text("rules")>>, Short("user"), <<Raw("anthropic", "f")>>))}

GoogleAsks ==
  {Talk("google", "model"), Ask(<<>>, <<Turn("user", <<Text("one"), Other>>)>>, <<>>),
   Ask(<<>>, Short("user"), <<Raw("google", "f")>>)}

ResponsesAsks ==
  {Talk("openai", "assistant"),
   Ask(<<Text("rules")>>,
       <<Turn("user", <<Text("one")>>), Calling("function_call", "c1", "c1"), Thought,
         Calling("custom_tool_call", "", "c2"), Output("custom_tool_call_output", "c2"),
         Output("function_call_output", "c1"), Turn("assistant", <<Text("yes")>>),
         Turn("user", <<Text("again")>>), Calling("function_call", "", "c3"),
         Output("function_call_output", "c3")>>,
       <<Function("f"), Tool("namespace", "n", <<Function("f"), Tool("custom", "g", <<>>)>>),
         Tool("web_search", "", <<>>),
         Tool("namespace", "m", <<Tool("namespace", "n", <<Function("f"), Tool("web_search", "", <<>>)>>),
                                  Function("f")>>)>>),
   Ask(<<>>, Short("user"), <<Tool("web_search", "", <<>>), Tool("namespace", "n", <<>>)>>),
   With({"tool_choice"}, Ask(<<>>, Short("user"), <<>>))}

MCClientRequests(surface) ==
  CASE surface = "openai" -> OpenAIAsks [] surface = "anthropic" -> AnthropicAsks
    [] surface = "google" -> GoogleAsks [] surface = "responses" -> ResponsesAsks

-----------------------------------------------------------------------------
Chunk0(type) ==
  [type |-> type, text |-> <<>>, finish |-> "", prompt |-> 0, completion |-> 0, calls |-> <<>>]
Says(type, text) == [Chunk0(type) EXCEPT !.text = text]
Ends(type, finish) == [Chunk0(type) EXCEPT !.finish = finish]
Uses(type, prompt, completion) == [Chunk0(type) EXCEPT !.prompt = prompt, !.completion = completion]
Fragment(index, id, name, arguments) ==
  [Chunk0("chunk") EXCEPT !.calls = <<[index |-> index, id |-> id, name |-> name, arguments |-> arguments]>>]

OpenAIStreams ==
  {<<Says("chunk", <<"a">>), Says("chunk", <<"é">>), Ends("chunk", "stop"), Uses("chunk", 7, 2),
     Chunk0("[DONE]")>>,
   <<Says("chunk", <<"a">>), Fragment(0, "c0", "f", <<>>), Fragment(1, "c1", "g", <<>>),
     Fragment(0, "", "", <<"x">>), Fragment(1, "", "", <<"y">>), Ends("chunk", "tool_calls")>>,
   <<Says("chunk", <<"é">>), [Says("chunk", <<"a", "é">>) EXCEPT !.finish = "length"], Chunk0("[DONE]")>>,
   <<Says("chunk", <<"a">>), Chunk0("error")>>}

AnthropicStreams ==
  {<<Uses("message_start", 7, 0), Says("content_block_delta", <<"a">>), Chunk0("ping"),
     Says("content_block_delta", <<"é">>), [Ends("message_delta", "max_tokens") EXCEPT !.completion = 2],
     Chunk0("message_stop")>>,
   <<Uses("message_start", 7, 0), Says("content_block_delta", <<"a">>)>>}

GoogleStreams ==
  {<<Says("chunk", <<"a">>), Says("chunk", <<"é">>), [Says("chunk", <<"b">>) EXCEPT !.finish = "STOP"]>>,
   <<Says("chunk", <<"a">>), Uses("chunk", 7, 2)>>}

MCStreams(kind) ==
  CASE kind = "openai" -> OpenAIStreams [] kind = "anthropic" -> AnthropicStreams
    [] kind = "google" -> GoogleStreams [] kind = "responses" -> {<<Says("body", <<"a">>)>>}

(* Bodies: two texts around a thought, no text, calls, another shape.       *)
Body(parts, finish, calls) ==
  [shaped |-> TRUE, parts |-> parts, finish |-> finish, prompt |-> 7, completion |-> 2, calls |-> calls]
Piece(type, text) == [type |-> type, text |-> text]

MCBodies ==
  {Body(<<Piece("text", <<"a">>), Piece("thinking", <<"t">>), Piece("text", <<"b">>)>>, "max_tokens", <<>>),
   Body(<<Piece("text", <<"a">>)>>, "stop", <<[id |-> "c0", name |-> "f", arguments |-> <<"x">>]>>),
   Body(<<>>, "SAFETY", <<>>), Body(<<Piece("text", <<"b">>)>>, "RECITATION", <<>>),
   [Body(<<>>, "", <<>>) EXCEPT !.shaped = FALSE]}

MCWide == {"é"}
MCLayouts == {"lf", "crlf"} \X {"none", "event", "comment"}
=============================================================================
