----------------------------- MODULE MessageBody -----------------------------
(* The one body a caller that did not ask for a stream is answered with    *)
(* (core/src/anthropic/aggregate.rs): the frames of the turn folded shut.  *)
(* The fold takes frames a reader of the stream would not, and fails where *)
(* a reader could go on: on arguments that do not parse.                   *)
EXTENDS ClientStream

(* What of the fold there is so far.                                       *)
Unfolded == [failed |-> FALSE, begun |-> FALSE, open |-> << >>, content |-> << >>,
             stop_reason |-> "none"]

TakesArguments(block) == block.is \in {"tool_use", "server_tool_use"}

(* A fragment of arguments is numbered, one of text or thinking is not;    *)
(* each goes only into a block of its own kind.                            *)
Belongs(block, delta) ==
  CASE TakesArguments(block)               -> 0 \notin ToSet(delta)
    [] block.is \in {"text", "thinking"}   -> ToSet(delta) \subseteq {0}
    [] OTHER                               -> FALSE

(* No fragment: the block carried its input whole.                         *)
Parses(piece, whole) ==
  TakesArguments(piece.block) => piece.content \in {<< >>, whole}

(* At most one block is open: a sequence of none or one.                   *)
Close(acc, whole) ==
  IF acc.open = << >> THEN acc
  ELSE IF Parses(acc.open[1], whole) THEN [acc EXCEPT !.content = @ \o acc.open, !.open = << >>]
  ELSE [acc EXCEPT !.failed = TRUE]

(* As Ended, were the stop reason left as the message began.               *)
EndedAsBegun(acc, frame) == acc

(* The end of the message states why; the body begun takes it over.        *)
Ended(acc, frame) ==
  IF acc.begun THEN [acc EXCEPT !.stop_reason = frame.stop_reason] ELSE acc

(* One frame.  A start over an open block closes it; a delta with no open  *)
(* block of its kind is not content.                                       *)
Fold(acc, frame, whole) ==
  IF acc.failed THEN acc
  ELSE CASE frame.is = "error"         -> [acc EXCEPT !.failed = TRUE]
         [] frame.is = "message_start" -> [acc EXCEPT !.begun = TRUE, !.stop_reason = "none"]
         [] frame.is = "block_start"   ->
              [Close(acc, whole) EXCEPT !.open = <<[block |-> frame.block, content |-> << >>]>>]
         [] frame.is = "block_stop"    -> Close(acc, whole)
         [] frame.is = "block_delta" /\ acc.open # << >> /\ Belongs(acc.open[1].block, frame.delta) ->
              [acc EXCEPT !.open[1].content = @ \o frame.delta]
         [] frame.is = "message_delta" -> Ended(acc, frame)
         [] OTHER                      -> acc

(* The end of the frames: what is still open is kept, a message that never *)
(* began is an error.                                                      *)
Body(acc, whole) ==
  LET last == Close(acc, whole)
  IN  [ok          |-> last.begun /\ ~last.failed,
       content     |-> last.content,
       stop_reason |-> last.stop_reason]
=============================================================================
