------------------------- MODULE ResponseTranslator -------------------------
(***************************************************************************)
(* One turn's translator (core/src/translate/response.rs): the backend's   *)
(* events come in, the frames of one message go out.  The backend may mix  *)
(* the events of several calls, leave a call unnamed until it is done, not *)
(* stream its arguments, fail at any point, or just stop.                  *)
(*                                                                         *)
(* Abstractions.  A delta spells a sequence of fragments; those of a call  *)
(* are numbered, and text and thinking are all alike.  A search is its id. *)
(* Nothing follows the terminal event, as pump has it; over HTTP the body  *)
(* could still break.  Every call done is named.                           *)
(* Usage and sources are left out.                                         *)
(***************************************************************************)
EXTENDS MessageBody, FiniteSets

CONSTANTS
  Calls,      \* the ids of the calls the response may make
  Searches,   \* the ids of the searches it may run
  Fragments,  \* how many fragments a call's arguments are
  MaxDeltas,  \* how many text and thinking deltas it streams; bounds the model
  None        \* no call

ASSUME FragmentsAssumption == Fragments \in Nat \ {0} /\ MaxDeltas \in Nat
ASSUME NoneAssumption == None \notin Calls \cup Searches
ASSUME IdAssumption == Calls \cap Searches = {}

VARIABLES
  t,        \* the translator, and what comes of the frames it sends
  call,     \* of each call, upstream: absent, named or unnamed while open, done
  streamed, \* of each call: how many fragments were streamed
  ran,      \* the searches done
  deltas,   \* how many text and thinking deltas were streamed
  said,     \* how many of them are of the message item still open
  returned, \* the items done, as the turn retains them
  stream,   \* the backend's stream: open, or how it ended, then closed
  outcome,  \* how it ended
  mixed,    \* history: did an event of one item come while a call was open?
  split     \* history: did one of another item come while a message was?

upstream == <<call, streamed, ran, deltas, said, returned, mixed, split>>
vars == <<t, upstream, stream, outcome>>

-----------------------------------------------------------------------------
(* The translator: what each handler makes of it, with the client's reader *)
(* of the frames it pushes, and the same frames folded for a client that   *)
(* asked for one body.                                                     *)

NoBlock  == [is |-> "none"]
Text     == [is |-> "text"]
Thinking == [is |-> "thinking"]
ToolUse(c)          == [is |-> "tool_use", id |-> c]
ServerToolUse(s)    == [is |-> "server_tool_use", id |-> s]
SearchResult(s)     == [is |-> "web_search_tool_result", id |-> s]

New == [started |-> FALSE, finished |-> FALSE, open |-> NoBlock, streamed_arguments |-> FALSE,
        next_index |-> 0, saw_tool_call |-> FALSE, stop_reason |-> "end_turn",
        searches |-> << >>, reader |-> Unread, folded |-> Unfolded]

reader == t.reader

WholeArguments == [i \in 1..Fragments |-> i]

(* A frame goes out after those before it, and is read as it comes.        *)
Push(tr, frame) ==
  [tr EXCEPT !.reader = Reads(@, frame), !.folded = Fold(@, frame, WholeArguments)]

StartMessage(tr) ==
  IF tr.started THEN tr ELSE Push([tr EXCEPT !.started = TRUE], MessageStart)

(* As CloseBlock, were the next block given the index of this one.         *)
CloseBlockInPlace(tr) ==
  IF tr.open = NoBlock THEN tr
  ELSE Push([tr EXCEPT !.open = NoBlock], BlockStop(tr.next_index))

CloseBlock(tr) ==
  IF tr.open = NoBlock THEN tr
  ELSE Push([tr EXCEPT !.open = NoBlock, !.next_index = @ + 1], BlockStop(tr.next_index))

PushDelta(tr, delta) == Push(tr, BlockDelta(tr.next_index, delta))

Opened(tr, block) ==
  Push([tr EXCEPT !.open = block], BlockStart(tr.next_index, block))

OpenBlock(tr, kind) ==
  IF tr.open = kind THEN tr ELSE Opened(CloseBlock(StartMessage(tr)), kind)

(* As OpenToolUse, were the open block left open.                          *)
OpenOverOpen(tr, c) ==
  [Opened(tr, ToolUse(c)) EXCEPT !.streamed_arguments = FALSE, !.saw_tool_call = TRUE]

OpenToolUse(tr, c) ==
  [Opened(CloseBlock(tr), ToolUse(c)) EXCEPT
     !.streamed_arguments = FALSE, !.saw_tool_call = TRUE]

(* item_added: a call not named yet waits for the completed item.          *)
ItemAdded(tr, c, named) == IF named THEN OpenToolUse(StartMessage(tr), c) ELSE tr

(* Only fragments of the call whose block is open; one that names no call  *)
(* is taken for it.                                                        *)
ArgumentsDelta(tr, target, fragment) ==
  IF tr.open.is = "tool_use" /\ target \in {None, tr.open.id}
  THEN PushDelta([tr EXCEPT !.streamed_arguments = TRUE], <<fragment>>) ELSE tr

Words == <<0>>

(* As CallDone, were the arguments forwarded with the completed item too.  *)
CallDoneAgain(tr, c) ==
  LET begun == StartMessage(tr)
      open  == IF begun.open = ToolUse(c) THEN begun ELSE OpenToolUse(begun, c)
  IN  CloseBlock(PushDelta(open, WholeArguments))

(* item_done of a call: its arguments go out with it if none was streamed  *)
(* into its block.                                                         *)
CallDone(tr, c) ==
  LET begun == StartMessage(tr)
      open  == IF begun.open = ToolUse(c) THEN begun ELSE OpenToolUse(begun, c)
  IN  CloseBlock(IF open.streamed_arguments THEN open ELSE PushDelta(open, WholeArguments))

SearchDone(tr, s) == [tr EXCEPT !.searches = Append(@, s)]

(* A block that goes out whole: it is opened and closed.                   *)
WholeBlock(tr, block) ==
  [Push(Push(tr, BlockStart(tr.next_index, block)), BlockStop(tr.next_index)) EXCEPT
     !.next_index = @ + 1]

EmitSearch(tr, s) == WholeBlock(WholeBlock(tr, ServerToolUse(s)), SearchResult(s))

EmitSearches(tr) ==
  LET after[n \in 0..Len(tr.searches)] ==
        IF n = 0 THEN [tr EXCEPT !.searches = << >>] ELSE EmitSearch(after[n - 1], tr.searches[n])
  IN  after[Len(tr.searches)]

StopMessage(tr, why) ==
  Push(Push([tr EXCEPT !.stop_reason = why], MessageDelta(why)), MessageStop)

StopReason(tr) ==
  IF tr.saw_tool_call /\ tr.stop_reason = "end_turn" THEN "tool_use" ELSE tr.stop_reason

(* As CloseMessage, were searches left where they ran.                     *)
CloseWithoutSearches(tr) ==
  IF tr.finished THEN tr
  ELSE StopMessage(CloseBlock([tr EXCEPT !.finished = TRUE]), StopReason(tr))

CloseMessage(tr) ==
  IF tr.finished THEN tr
  ELSE StopMessage(EmitSearches(CloseBlock([tr EXCEPT !.finished = TRUE])), StopReason(tr))

EmitError(tr) == Push([tr EXCEPT !.finished = TRUE], ErrorFrame)

(* finish: the stream ended; a message that did not is closed.             *)
FinishMessage(tr) == IF tr.started THEN CloseMessage(tr) ELSE tr

-----------------------------------------------------------------------------
(* The backend's events.                                                   *)

Open == {c \in Calls : call[c] \in {"named", "unnamed"}}

(* An event of this item, while a call is open that is not it, mixes.      *)
Mixes(item, ofMessage) == /\ mixed' = (mixed \/ Open \ {item} # {})
                          /\ split' = (split \/ (said > 0 /\ ~ofMessage))

Created ==
  /\ stream = "open" /\ ~t.started
  /\ t' = StartMessage(t)
  /\ UNCHANGED <<upstream, stream, outcome>>

Streams(kind) ==
  /\ stream = "open" /\ deltas < MaxDeltas
  /\ deltas' = deltas + 1
  /\ said' = IF kind = Text THEN said + 1 ELSE said
  /\ t' = PushDelta(OpenBlock(t, kind), Words)
  /\ Mixes(None, kind = Text)
  /\ UNCHANGED <<call, streamed, ran, returned, stream, outcome>>

(* item_done of a message or of reasoning sends nothing; close_turn finds  *)
(* the item among the events seen.                                         *)
DoneMessage ==
  /\ stream = "open" /\ said > 0
  /\ returned' = Append(returned, [kind |-> "message", text |-> [i \in 1..said |-> 0]])
  /\ said' = 0
  /\ UNCHANGED <<t, call, streamed, ran, deltas, mixed, split, stream, outcome>>

DoneReasoning ==
  /\ stream = "open" /\ \A i \in 1..Len(returned) : returned[i].kind # "reasoning"
  /\ returned' = Append(returned, [kind |-> "reasoning"])
  /\ UNCHANGED <<t, call, streamed, ran, deltas, said, mixed, split, stream, outcome>>

AddCall(c, named) ==
  /\ stream = "open" /\ call[c] = "absent"
  /\ call' = [call EXCEPT ![c] = IF named THEN "named" ELSE "unnamed"]
  /\ t' = ItemAdded(t, c, named)
  /\ Mixes(c, FALSE)
  /\ UNCHANGED <<streamed, ran, deltas, said, returned, stream, outcome>>

(* A fragment names its call, or -- the only one open -- nothing.          *)
StreamFragment(c) ==
  /\ stream = "open" /\ c \in Open /\ streamed[c] < Fragments
  /\ streamed' = [streamed EXCEPT ![c] = @ + 1]
  /\ \E target \in {c, None} :
       (target = None => Open = {c}) /\ t' = ArgumentsDelta(t, target, streamed'[c])
  /\ Mixes(c, FALSE)
  /\ UNCHANGED <<call, ran, deltas, said, returned, stream, outcome>>

(* A call is done with its arguments streamed whole, or not at all.        *)
DoneCall(c) ==
  /\ stream = "open" /\ call[c] # "done" /\ streamed[c] \in {0, Fragments}
  /\ call' = [call EXCEPT ![c] = "done"]
  /\ returned' = Append(returned, [kind |-> "function_call", id |-> c, arguments |-> WholeArguments])
  /\ t' = CallDone(t, c)
  /\ Mixes(c, FALSE)
  /\ UNCHANGED <<streamed, ran, deltas, said, stream, outcome>>

DoneSearch(s) ==
  /\ stream = "open" /\ s \notin ran
  /\ ran' = ran \cup {s}
  /\ t' = SearchDone(t, s)
  /\ UNCHANGED <<call, streamed, deltas, said, returned, mixed, split, stream, outcome>>

Ends(how, tr) ==
  /\ stream = "open"
  /\ stream' = "over" /\ outcome' = how
  /\ t' = tr
  /\ UNCHANGED upstream

(* response.completed, once every item is.                                 *)
Completed  == Open = {} /\ said = 0 /\ Ends("completed", CloseMessage(StartMessage(t)))
Incomplete == Ends("incomplete", CloseMessage([StartMessage(t) EXCEPT !.stop_reason = "max_tokens"]))
Failed     == Ends("failed", EmitError(t))
Truncated  == Ends("truncated", t)

(* frame_stream: the end of the stream finishes the message.               *)
CloseStream ==
  /\ stream = "over"
  /\ stream' = "closed" /\ t' = FinishMessage(t)
  /\ UNCHANGED <<upstream, outcome>>

(* frame_stream: a transport error is an error frame, and nothing after.   *)
Break ==
  /\ stream = "open"
  /\ stream' = "closed" /\ outcome' = "failed"
  /\ t' = Push(t, ErrorFrame)
  /\ UNCHANGED upstream

Init ==
  /\ t = New
  /\ call = [c \in Calls |-> "absent"] /\ streamed = [c \in Calls |-> 0]
  /\ ran = {} /\ deltas = 0 /\ said = 0 /\ returned = << >> /\ mixed = FALSE /\ split = FALSE
  /\ stream = "open" /\ outcome = "none"

Next ==
  \/ Created \/ Streams(Text) \/ Streams(Thinking) \/ DoneMessage \/ DoneReasoning
  \/ \E c \in Calls : (\E named \in BOOLEAN : AddCall(c, named)) \/ StreamFragment(c) \/ DoneCall(c)
  \/ \E s \in Searches : DoneSearch(s)
  \/ Completed \/ Incomplete \/ Failed \/ Truncated \/ CloseStream \/ Break

Spec == Init /\ [][Next]_vars

-----------------------------------------------------------------------------
(* Properties.                                                             *)

(* Every variable has its type, and the translator's own idea of the open  *)
(* block and its index is the reader's, until the message has ended.       *)
TypeOK ==
  /\ t.open \in {NoBlock, Text, Thinking} \cup {ToolUse(c) : c \in Calls}
  /\ t.stop_reason \in {"end_turn", "tool_use", "max_tokens"}
  /\ call \in [Calls -> {"absent", "named", "unnamed", "done"}]
  /\ streamed \in [Calls -> 0..Fragments]
  /\ t.next_index = reader.index
  /\ ~t.finished /\ stream # "closed"
     => (reader.phase = "inside") = (t.open # NoBlock)

(* proxy-behavior.md 5.1, "a single open content block at a time":         *)
(* whatever the backend mixes, every frame is one the client can take, and *)
(* a message that was begun has ended when the stream is closed.           *)
ClientCanRead ==
  /\ reader.phase # "spoilt"
  /\ stream = "closed" => reader.phase \in {"none", "stopped", "failed"}

BlocksOf(c) == {i \in 1..Len(reader.blocks) : reader.blocks[i].block = ToolUse(c)}

(* response.rs, `item_done`: "Forward them only if nothing was streamed,   *)
(* otherwise the client parses the same JSON twice".  Of a backend that    *)
(* finishes an item before it goes on, every call done is one block, with  *)
(* its arguments whole and once; of one that mixes, the last block of a    *)
(* call is whole.                                                          *)
CallsAreWhole ==
  \A c \in Calls : call[c] = "done" =>
    \E i \in BlocksOf(c) :
      /\ reader.blocks[i].content = WholeArguments
      /\ \A j \in BlocksOf(c) : j = i \/ (mixed /\ j < i)

(* proxy-behavior.md 5.1: the stop reason "is `tool_use` when the turn     *)
(* produced any function call, `max_tokens` on an incomplete response,     *)
(* `end_turn` otherwise"; 5.2: searches "are emitted as the message        *)
(* closes", every one that ran, its result right after it, after the rest. *)
ClosesProperly ==
  reader.phase = "stopped" =>
    LET blocks == reader.blocks
        ended  == Len(blocks) - 2 * Cardinality(ran)
        called == {i \in ended + 1..Len(blocks) : (i - ended) % 2 = 1}
    IN  /\ reader.stop_reason = IF outcome = "incomplete" THEN "max_tokens"
                                ELSE IF \E b \in ToSet(blocks) : b.block.is = "tool_use"
                                     THEN "tool_use" ELSE "end_turn"
        /\ ended >= 0
        /\ {blocks[i].block : i \in called} = {ServerToolUse(s) : s \in ran}
        /\ \A i \in called : blocks[i + 1].block = SearchResult(blocks[i].block.id)

(* aggregate.rs: "It invents nothing".  A client that asked for one body   *)
(* gets the blocks and the stop reason a client of the stream reads, and   *)
(* an error where that one reads an error or nothing -- or where a call's  *)
(* arguments were cut short, which only the stream lets through.           *)
BodyIsWhatAStreamShows ==
  stream = "closed" =>
    LET body == Body(t.folded, WholeArguments)
        read == \A b \in ToSet(reader.blocks) : Parses(b, WholeArguments)
    IN  /\ body.ok = (reader.phase = "stopped" /\ read)
        /\ body.ok => /\ body.content = reader.blocks
                      /\ body.stop_reason = reader.stop_reason
=============================================================================
