---------------------------- MODULE ClientStream ----------------------------
(***************************************************************************)
(* The stream a Messages client reads (core/src/anthropic/stream.rs): its  *)
(* frames, and the reader that accepts them.  A message starts, carries    *)
(* blocks one at a time, and ends -- with a stop, or with an error in      *)
(* whatever state it is.                                                   *)
(***************************************************************************)
EXTENDS Naturals, SequencesExt

MessageStart        == [is |-> "message_start"]
BlockStart(i, b)    == [is |-> "block_start", index |-> i, block |-> b]
BlockDelta(i, d)    == [is |-> "block_delta", index |-> i, delta |-> d]
BlockStop(i)        == [is |-> "block_stop", index |-> i]
MessageDelta(why)   == [is |-> "message_delta", stop_reason |-> why]
MessageStop         == [is |-> "message_stop"]
ErrorFrame          == [is |-> "error"]

-----------------------------------------------------------------------------
(* The reader: the phase of the message, the index of the open block or of *)
(* the next one, the blocks read, each with what its deltas spell, and why *)
(* the message stopped.                                                    *)

Unread == [phase |-> "none", index |-> 0, blocks |-> << >>, stop_reason |-> "none"]

Spoilt(reader) == [reader EXCEPT !.phase = "spoilt"]

(* What a reader makes of one frame; "spoilt" when it is not acceptable.   *)
Reads(reader, frame) ==
  LET moves(from, to) == IF reader.phase = from THEN [reader EXCEPT !.phase = to]
                         ELSE Spoilt(reader)
      here == frame.index = reader.index
  IN  CASE frame.is = "message_start" -> moves("none", "between")
        [] frame.is = "block_start" /\ here ->
             [moves("between", "inside") EXCEPT
                !.blocks = Append(@, [block |-> frame.block, content |-> << >>])]
        [] frame.is = "block_delta" /\ here /\ reader.phase = "inside" ->
             [reader EXCEPT !.blocks[Len(reader.blocks)].content = @ \o frame.delta]
        [] frame.is = "block_stop" /\ here ->
             [moves("inside", "between") EXCEPT !.index = @ + 1]
        [] frame.is = "message_delta" ->
             [moves("between", "closing") EXCEPT !.stop_reason = frame.stop_reason]
        [] frame.is = "message_stop"  -> moves("closing", "stopped")
        [] frame.is = "error" /\ reader.phase \notin {"stopped", "failed"} ->
             [reader EXCEPT !.phase = "failed"]
        [] OTHER -> Spoilt(reader)
=============================================================================
