-------------------------------- MODULE Echo --------------------------------
(* The turn after: the client hands back what it read of a response, with  *)
(* the results of the calls it was asked to make, and the proxy makes a    *)
(* request of it.  Composes ResponseTranslator (what was read, and what    *)
(* the turn retained), RequestTranslator (what becomes of it on the way    *)
(* back up) and Items (the comparison that lets the next turn go up as a   *)
(* delta).                                                                 *)
EXTENDS ResponseTranslator, RequestTranslator, Items

CONSTANTS
  Tool,       \* a tool the client declares, and one it defers
  Deferred,
  Source      \* where an attachment's bytes come from

(* What the turn retained, as the backend would take it back.              *)
AsItem(item) ==
  CASE item.kind = "message"       -> Message("assistant", <<TextPart("assistant", item.text)>>)
    [] item.kind = "function_call" -> FunctionCall(item.id, item.arguments)
    [] OTHER                       -> Reasoning

(* The client: an assistant message of the blocks it read.                 *)
AsBlock(piece) ==
  CASE piece.block.is = "text"     -> TextBlock(piece.content)
    [] piece.block.is = "thinking" -> ThinkingBlock
    [] piece.block.is = "tool_use" -> ToolUseBlock(piece.block.id, piece.content)
    [] OTHER                       -> UnknownBlock

Blocks(read) == [i \in 1..Len(read) |-> AsBlock(read[i])]

Says(role, content) == [role |-> role, content |-> content]

(* Texts are sequences, as what deltas spell is; these the client writes.  *)
Written(n) == <<-n>>

Asked    == Says("user", <<TextBlock(Written(1))>>)
Reminder == Says("system", <<TextBlock(Written(2))>>)

(* What a call may come back with.                                         *)
Result     == TextBlock(Written(3))
Discovery  == Given(<<ToolReference(Deferred)>>)
Results == {NoContent, Given(<<Result>>), Given(<<Result, ImageBlock(Source)>>),
            Given(<<DocumentBlock(Source), Result, ImageBlock(NoSource)>>), Discovery}

CallsRead(read) == Only(read, {piece \in ToSet(read) : piece.block.is = "tool_use"})

(* The client answers every call it read with one result, and adds what it *)
(* has to say.                                                             *)
Answered(read, result) ==
  LET calls == CallsRead(read)
  IN  Says("user", [i \in 1..Len(calls) |-> ToolResultBlock(calls[i].block.id, result)]
                   \o <<TextBlock(Written(4))>>)

Request(messages) ==
  [model |-> "tier", system |-> Written(5), messages |-> messages,
   tools |-> <<[name |-> Tool, deferred |-> FALSE], [name |-> Deferred, deferred |-> TRUE]>>,
   tool_choice |-> "none", effort |-> 0]

Options(discovered) ==
  [model |-> "upstream", lead |-> Written(6), budget |-> NoText, trailer |-> Written(7),
   discovered |-> discovered, ceiling |-> 4, supported |-> {2, 4}, cache_key |-> "key"]

First == TranslateRequest(Request(<<Asked>>), Options({}))

NextMessages(result) ==
  <<Asked, Says("assistant", Blocks(reader.blocks)), Answered(reader.blocks, result), Reminder>>

(* ingress.rs records what the request discovers before it translates.     *)
NextRequest(result) ==
  LET request == Request(NextMessages(result))
  IN  TranslateRequest(request, Options(DiscoveredToolNames(request)))

Retained == [i \in 1..Len(returned) |-> AsItem(returned[i])]
Baseline == First.input \o Retained

OfKind(items, kind) == Only(items, {item \in ToSet(items) : item.kind = kind})

(* Between two messages of one response there was a call.                  *)
MessagesApart ==
  \A i, j \in 1..Len(returned) :
    /\ i < j /\ returned[i].kind = "message" /\ returned[j].kind = "message"
    => \E k \in i + 1..j - 1 : returned[k].kind = "function_call"

(* session.rs, `is_server_only` and `strip_ids`; proxy-behavior.md 3.3:    *)
(* of a response whose items came one after another, what the client hands *)
(* back lines up with what the turn retained, reasoning and searches       *)
(* included, so that the next turn goes up as what the client added --     *)
(* each call's output, once and in order, then the rest -- unless the      *)
(* results made a deferred tool known, and only then.  A message of        *)
(* another role, which the client adds anew each turn, is no reason.       *)
NextTurnIsADelta ==
  stream = "closed" /\ outcome = "completed" /\ ~mixed /\ ~split /\ MessagesApart =>
    \A result \in Results :
      LET next  == NextRequest(result)
          whole == Reconcile(Baseline, next.input)
          added == Delta(Baseline, whole)
          outputs == OfKind(added, "function_call_output")
          called  == OfKind(returned, "function_call")
          found   == called # << >> /\ result = Discovery
      IN  /\ Reconciles(Baseline, next.input)
          /\ PlansDelta(Baseline, whole)
          /\ [i \in 1..Len(outputs) |-> outputs[i].id] = [i \in 1..Len(called) |-> called[i].id]
          /\ ClientView(whole) = next.input
          /\ NonInputFieldsMatch(First, next) = ~found
=============================================================================
