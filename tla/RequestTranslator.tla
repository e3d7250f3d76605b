-------------------------- MODULE RequestTranslator --------------------------
(* A Messages request made into a Responses request                        *)
(* (core/src/translate/request.rs): one message becomes several items, in  *)
(* order; what has no counterpart is dropped; everything that is not input *)
(* depends only on what stays the same for the life of a conversation.     *)
(*                                                                         *)
(* Texts, tools and sources are values; a JSON document is the value it    *)
(* stands for.  The shape of a tool's schema and the name given to a file  *)
(* are left out.                                                           *)
EXTENDS Efforts, SequencesExt

NoText    == << >>         \* an absent text, or an empty one
NoSource  == "no source"   \* a source of a kind the proxy does not know

(* The content of a tool's result: absent, or blocks.                      *)
NoContent     == [given |-> FALSE, blocks |-> << >>]
Given(blocks) == [given |-> TRUE, blocks |-> blocks]

(* The blocks a client sends.                                              *)
TextBlock(x)            == [is |-> "text", text |-> x]
ToolUseBlock(c, input)  == [is |-> "tool_use", id |-> c, input |-> input]
ToolResultBlock(c, what) == [is |-> "tool_result", id |-> c, content |-> what]
ImageBlock(source)      == [is |-> "image", source |-> source]
DocumentBlock(source)   == [is |-> "document", source |-> source]
ToolReference(tool)     == [is |-> "tool_reference", name |-> tool]
ThinkingBlock           == [is |-> "thinking"]
UnknownBlock            == [is |-> "unknown"]

(* The items the backend takes.                                            *)
Message(role, parts)      == [kind |-> "message", role |-> role, parts |-> parts]
FunctionCall(c, input)    == [kind |-> "function_call", id |-> c, arguments |-> input]
FunctionCallOutput(c, out) == [kind |-> "function_call_output", id |-> c, output |-> out]
Reasoning                 == [kind |-> "reasoning"]

(* Those of a sequence's elements that are wanted, in their order.  As a   *)
(* function of the prefix, and not SelectSeq, to be reasoned about.        *)
Only(elements, wanted) ==
  LET only[n \in 0..Len(elements)] ==
        IF n = 0 THEN << >>
        ELSE IF elements[n] \in wanted THEN Append(only[n - 1], elements[n])
        ELSE only[n - 1]
  IN  only[Len(elements)]

-----------------------------------------------------------------------------
(* Messages to items.                                                      *)

(* Only user and assistant are roles of an item; any other message is the  *)
(* user's, and none is folded into the instructions.                       *)
ItemRole(from) == IF from = "assistant" THEN "assistant" ELSE "user"

TextPart(role, x) ==
  [part |-> IF role = "assistant" THEN "output_text" ELSE "input_text", text |-> x]

Attachment(part, source) ==
  IF source = NoSource THEN << >> ELSE <<[part |-> part, source |-> source]>>

ImagePart(source)    == Attachment("input_image", source)
DocumentPart(source) == Attachment("input_file", source)

(* CallOutput::from_parts: a single text is the text itself.               *)
FromParts(parts) ==
  IF Len(parts) = 1 /\ parts[1].part = "input_text"
  THEN [output |-> "text", text |-> parts[1].text]
  ELSE [output |-> "parts", parts |-> parts]

PartsOf(blocks, Part(_)) == FlattenSeq([i \in 1..Len(blocks) |-> Part(blocks[i])])

References(blocks) == Only(blocks, {b \in ToSet(blocks) : b.is = "tool_reference"})

(* What of a result has a place in an output, and its documents.           *)
OutputParts(blocks) ==
  LET inside(b) == CASE b.is = "text"  -> <<TextPart("user", b.text)>>
                     [] b.is = "image" -> ImagePart(b.source)
                     [] OTHER          -> << >>
  IN  PartsOf(blocks, inside)

Documents(blocks) ==
  LET after(b) == IF b.is = "document" THEN DocumentPart(b.source) ELSE << >>
  IN  PartsOf(blocks, after)

(* The output of a call, and the items that must follow it: a document has *)
(* no place in an output and is a user message right after.                *)
ToolResultOutput(content) ==
  IF ~content.given
  THEN [output |-> [output |-> "text", text |-> NoText], trailing |-> << >>]
  ELSE IF References(content.blocks) # << >>
  THEN [output |-> [output |-> "available_tools", tools |-> References(content.blocks)],
        trailing |-> << >>]
  ELSE [output |-> FromParts(OutputParts(content.blocks)),
        trailing |-> IF Documents(content.blocks) = << >> THEN << >>
                     ELSE <<Message("user", Documents(content.blocks))>>]

(* The parts so far become a message item; none when there are none.       *)
Flush(role, acc) ==
  IF acc.parts = << >> THEN acc
  ELSE [items |-> Append(acc.items, Message(role, acc.parts)), parts |-> << >>]

AddParts(acc, parts) == [acc EXCEPT !.parts = @ \o parts]

(* As AddItems, were the parts before it kept for the end of the message.  *)
AddItemsFirst(role, acc, items) == [acc EXCEPT !.items = @ \o items]

AddItems(role, acc, items) == LET flushed == Flush(role, acc)
                              IN  [flushed EXCEPT !.items = @ \o items]

(* Attachments are the user's only: an assistant's content is text.        *)
TranslateBlock(from, acc, block) ==
  LET role == ItemRole(from)
  IN  CASE block.is = "text" -> AddParts(acc, <<TextPart(role, block.text)>>)
        [] block.is = "tool_use" ->
             AddItems(role, acc, <<FunctionCall(block.id, block.input)>>)
        [] block.is = "tool_result" ->
             LET result == ToolResultOutput(block.content)
             IN  AddItems(role, acc,
                          <<FunctionCallOutput(block.id, result.output)>> \o result.trailing)
        [] block.is = "image" /\ from = "user" ->
             AddParts(acc, ImagePart(block.source))
        [] block.is = "document" /\ from = "user" ->
             AddParts(acc, DocumentPart(block.source))
        [] OTHER -> acc

(* The loop over a message's blocks.                                       *)
TranslateBlocks(from, blocks) ==
  LET after[n \in 0..Len(blocks)] ==
        IF n = 0 THEN [items |-> << >>, parts |-> << >>]
        ELSE TranslateBlock(from, after[n - 1], blocks[n])
  IN  after[Len(blocks)]

TranslateMessage(message) ==
  Flush(ItemRole(message.role), TranslateBlocks(message.role, message.content)).items

TranslateMessages(messages) ==
  FlattenSeq([i \in 1..Len(messages) |-> TranslateMessage(messages[i])])

-----------------------------------------------------------------------------
(* Everything that is not input.                                           *)

(* Lead, the client's own prompt, the working budget, trailer: in that     *)
(* order, without the empty ones.                                          *)
BuildInstructions(system, options) ==
  LET texts == <<options.lead, system, options.budget, options.trailer>>
  IN  Only(texts, ToSet(texts) \ {NoText})

(* A search is observable once: in the results of its tool.                *)
DiscoveredToolNames(request) ==
  LET results == UNION {{b \in ToSet(m.content) : b.is = "tool_result"}
                          : m \in ToSet(request.messages)}
  IN  UNION {{reference.name : reference \in ToSet(References(b.content.blocks))}
               : b \in results}

(* A tool the client defers goes up once it has been discovered.           *)
ForwardTool(tool, discovered) == tool.deferred => tool.name \in discovered

TranslateTools(tools, discovered) ==
  Only(tools, {tool \in ToSet(tools) : ForwardTool(tool, discovered)})

(* `none` too: the list of tools stays visible.                            *)
TranslateToolChoice(choice) ==
  CASE choice = "absent" -> "absent"
    [] choice = "any"    -> "required"
    [] choice = "tool"   -> "function"
    [] OTHER             -> "auto"

TranslateRequest(request, options) ==
  [model        |-> IF options.model = "none" THEN request.model ELSE options.model,
   instructions |-> BuildInstructions(request.system, options),
   input        |-> TranslateMessages(request.messages),
   tools        |-> TranslateTools(request.tools, options.discovered),
   tool_choice  |-> TranslateToolChoice(request.tool_choice),
   effort       |-> EffortFor(request.effort, options.ceiling, options.supported),
   cache_key    |-> options.cache_key]

(* websocket.rs `non_input_fields_match`: everything but the input.        *)
NonInputFieldsMatch(before, now) ==
  [before EXCEPT !.input = << >>] = [now EXCEPT !.input = << >>]
=============================================================================
