------------------------------ MODULE Requests ------------------------------
(***************************************************************************)
(* A chat request on its way from a client's dialect through the canonical *)
(* ChatRequest to the upstream's: parse_request of the four surfaces, and  *)
(* the body built for the four kinds of providers (Custom is OpenAI).      *)
(*                                                                         *)
(* A request has texts of `system`, `turns`, `tools` and, in `extra`, the  *)
(* names of those of its other fields an adapter looks at.  A turn has a   *)
(* role and parts; of tools, the `calls` it makes (their ids) or the       *)
(* `call` it answers.  Items of the Responses surface have a type, and a   *)
(* call has an `id` besides the `call` it is answered by.  A part is a     *)
(* text, an image in one of the forms of its dialect, or something else.   *)
(* A tool has the shape of its dialect and a name; one of the Responses    *)
(* surface a type, a name and the tools inside it.                         *)
(***************************************************************************)
EXTENDS Integers, Sequences, SequencesExt

CONSTANT MaxNamespaces  \* how deep namespaces nest in what serde_json parses: half its limit of 128

ASSUME NamespaceAssumption == MaxNamespaces \in Nat

Surfaces == {"openai", "anthropic", "google", "responses"}
Kinds    == {"openai", "anthropic", "google", "responses"}

FlatMap(f(_), s) == FlattenSeq([i \in DOMAIN s |-> f(s[i])])
TextsOf(parts) == SelectSeq(parts, LAMBDA p : p.type = "text")

-----------------------------------------------------------------------------
(* Images: canonically a URL, of the web or holding the data.              *)

WebForm  == [url |-> "anthropic", fileData |-> "google", http |-> "openai"]
DataForm == [base64 |-> "anthropic", inlineData |-> "google", data |-> "openai"]

ToUrl(part) ==
  IF part.type # "image" THEN part
  ELSE [part EXCEPT !.form = IF @ \in DOMAIN WebForm THEN "http" ELSE "data"]

FormIn(dialect, forms) == CHOOSE f \in DOMAIN forms : forms[f] = dialect

FromUrl(dialect, part) ==
  IF part.type # "image" THEN part
  ELSE [part EXCEPT !.form = FormIn(dialect, IF @ = "http" THEN WebForm ELSE DataForm)]

(* What a canonical content can hold.  A reference to a file of the         *)
(* provider, a tool's block, a thought cannot be expressed.                 *)
Expressible(part) ==
  \/ part.type = "text"
  \/ part.type = "image" /\ part.form \in DOMAIN WebForm \cup DOMAIN DataForm

Content(parts) ==
  LET kept == SelectSeq(parts, Expressible) IN [i \in DOMAIN kept |-> ToUrl(kept[i])]

-----------------------------------------------------------------------------
(* In *)

Message(role, parts) == [role |-> role, parts |-> parts, calls |-> <<>>, call |-> ""]

SystemFirst(texts, messages) ==
  IF texts = <<>> THEN messages ELSE <<Message("system", texts)>> \o messages

AnthropicMessages(request) ==
  SystemFirst(TextsOf(request.system),
              [i \in DOMAIN request.turns |->
                 Message(request.turns[i].role, Content(request.turns[i].parts))])

GoogleMessages(request) ==
  SystemFirst(TextsOf(request.system),
              [i \in DOMAIN request.turns |->
                 Message(IF request.turns[i].role = "model" THEN "assistant" ELSE "user",
                         Content(request.turns[i].parts))])

(* The OpenAI shape is the canonical one.                                   *)
OpenAIMessages(request) ==
  [i \in DOMAIN request.turns |->
     [role |-> request.turns[i].role, parts |-> request.turns[i].parts,
      calls |-> request.turns[i].calls, call |-> request.turns[i].call]]

Calls   == {"function_call", "custom_tool_call"}
Outputs == {"function_call_output", "custom_tool_call_output"}

ToolCallId(item) == IF item.id # "" THEN item.id ELSE item.call

(* Fault: a call opens a message of its own.                                *)
PushAlone(messages, item) ==
  CASE item.type \in Calls ->
         Append(messages, [Message("assistant", <<>>) EXCEPT !.calls = <<ToolCallId(item)>>])
    [] item.type \in Outputs ->
         Append(messages, [Message("tool", TextsOf(item.parts)) EXCEPT !.call = item.call])
    [] item.type = "message" -> Append(messages, Message(item.role, Content(item.parts)))
    [] OTHER -> messages

(* push_input_item: the calls of one turn belong in one message.            *)
PushInputItem(messages, item) ==
  LET joins == messages # <<>> /\ Last(messages).role = "assistant" /\ Last(messages).calls # <<>>
  IN  CASE item.type \in Calls /\ joins ->
             [messages EXCEPT ![Len(messages)].calls = Append(@, ToolCallId(item))]
        [] item.type \in Calls /\ ~joins ->
             Append(messages, [Message("assistant", <<>>) EXCEPT !.calls = <<ToolCallId(item)>>])
        [] item.type \in Outputs ->
             Append(messages, [Message("tool", TextsOf(item.parts)) EXCEPT !.call = item.call])
        [] item.type = "message" -> Append(messages, Message(item.role, Content(item.parts)))
        [] OTHER -> messages

ResponsesMessages(request) ==
  SystemFirst(TextsOf(request.system), FoldLeft(PushInputItem, <<>>, request.turns))

(* convert_tool: a namespace gives way to its tools, each under its name;   *)
(* what a function is left with is its name in full.                        *)
Open(named) ==
  IF named.tool.type # "namespace" THEN <<named>>
  ELSE [i \in DOMAIN named.tool.tools |->
          [under |-> Append(named.under, named.tool.name), tool |-> named.tool.tools[i]]]

ChatTool(name) == [shape |-> "openai", name |-> name]

FunctionTool(named) ==
  IF named.tool.type \in {"function", "custom"}
  THEN <<ChatTool(Append(named.under, named.tool.name))>> ELSE <<>>

(* Fault: what is in a namespace is taken for something nobody can serve.   *)
ConvertFlat(tools) ==
  FlatMap(FunctionTool, [i \in DOMAIN tools |-> [under |-> <<>>, tool |-> tools[i]]])

ConvertTools(tools) ==
  LET opened[n \in 0..MaxNamespaces] ==
        IF n = 0 THEN [i \in DOMAIN tools |-> [under |-> <<>>, tool |-> tools[i]]]
        ELSE FlatMap(Open, opened[n - 1])
  IN  FlatMap(FunctionTool, opened[MaxNamespaces])

(* `extra` is gathered anew by the Responses surface; the others leave it,  *)
(* and the tools in it, as the client sent them.                            *)
ResponsesExtra(request) ==
  (request.extra \cap {"tool_choice"})
    \cup IF ConvertTools(request.tools) # <<>> THEN {"tools"} ELSE {}

Messages(surface, request) ==
  CASE surface = "openai"    -> OpenAIMessages(request)
    [] surface = "anthropic" -> AnthropicMessages(request)
    [] surface = "google"    -> GoogleMessages(request)
    [] surface = "responses" -> ResponsesMessages(request)

ParseRequest(surface, request) ==
  IF surface = "responses"
  THEN [messages |-> Messages(surface, request), tools |-> ConvertTools(request.tools),
        extra |-> ResponsesExtra(request)]
  ELSE [messages |-> Messages(surface, request), tools |-> request.tools, extra |-> request.extra]

-----------------------------------------------------------------------------
(* Out *)

IsSystem(message) == message.role = "system"
SystemTexts(chat) ==
  FlatMap(LAMBDA m : TextsOf(m.parts), SelectSeq(chat.messages, IsSystem))
Conversation(chat) == SelectSeq(chat.messages, LAMBDA m : ~IsSystem(m))

NativeParts(kind, message) ==
  LET parts == Content(message.parts) IN [i \in DOMAIN parts |-> FromUrl(kind, parts[i])]

(* Anthropic: roles as they are; no tools, no calls.                        *)
AnthropicBody(chat) ==
  LET turns == Conversation(chat)
  IN  [system |-> SystemTexts(chat), tools |-> <<>>, extra |-> {},
       turns  |-> [i \in DOMAIN turns |->
                     Message(turns[i].role, NativeParts("anthropic", turns[i]))]]

GoogleBody(chat) ==
  LET turns == Conversation(chat)
  IN  [system |-> SystemTexts(chat), tools |-> <<>>, extra |-> {},
       turns  |-> [i \in DOMAIN turns |->
                     Message(IF turns[i].role = "assistant" THEN "model" ELSE "user",
                             NativeParts("google", turns[i]))]]

HasImage(message) == \E i \in DOMAIN message.parts : message.parts[i].type = "image"

(* ADAPTER_CAPABILITY_SKIP: a field that is there, be it an empty list.     *)
Refuses(kind, chat) ==
  /\ kind = "responses"
  /\ \/ chat.extra \cap {"tools", "tool_choice", "response_format"} # {}
     \/ \E i \in DOMAIN chat.messages : HasImage(chat.messages[i])

(* One text, a line for each message under its role.                        *)
ResponsesBody(chat) ==
  LET turns == Conversation(chat)
  IN  [system |-> SystemTexts(chat), tools |-> <<>>, extra |-> {},
       turns  |-> [i \in DOMAIN turns |-> Message(turns[i].role, TextsOf(turns[i].parts))]]

OpenAIBody(chat) ==
  [system |-> <<>>, turns |-> chat.messages, tools |-> chat.tools, extra |-> chat.extra]

BuildNativeRequest(kind, chat) ==
  CASE kind = "openai"    -> OpenAIBody(chat)
    [] kind = "anthropic" -> AnthropicBody(chat)
    [] kind = "google"    -> GoogleBody(chat)
    [] kind = "responses" -> ResponsesBody(chat)

-----------------------------------------------------------------------------
(* What is said in a request, whatever its dialect.                         *)

Utterances(turns) ==
  FlatMap(LAMBDA t : [i \in DOMAIN Content(t.parts) |-> <<t.role, Content(t.parts)[i]>>], turns)

(* Every tool message follows the message that made its call.               *)
Paired(turns) ==
  \A i \in DOMAIN turns : turns[i].role = "tool" =>
    \E j \in 1..(i - 1) :
      /\ turns[i].call \in Range(turns[j].calls)
      /\ \A k \in (j + 1)..(i - 1) : turns[k].role = "tool"
=============================================================================
