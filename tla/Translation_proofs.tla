-------------------------- MODULE Translation_proofs --------------------------
(***************************************************************************)
(* Proofs about what is translated: the response of a turn, the effort of  *)
(* its request, and the request the client makes of that response.         *)
(*                                                                         *)
(* About ResponseTranslator, for any number of calls, searches and         *)
(* fragments, in whatever order the backend's events come.  What a frame   *)
(* makes of the reader and of the fold is proved first, frame by frame;    *)
(* then what each handler pushes; then what holds of every stream.         *)
(*                                                                         *)
(* About Efforts, for every request, ceiling and list of levels a model    *)
(* may state.                                                              *)
(*                                                                         *)
(* About Echo, in the second half: the blocks read so far and the items    *)
(* retained so far line up after every event, as long as no event came     *)
(* between those of another item; so what is handed back reconciles with   *)
(* what was retained, and the next turn goes up as a delta.                *)
(***************************************************************************)
EXTENDS Echo, Items_proofs, FiniteSetTheorems

-----------------------------------------------------------------------------
(* The reader and the fold.                                                *)

BlockType == {Text, Thinking} \cup {ToolUse(c) : c \in Calls}
             \cup {ServerToolUse(s) : s \in Searches} \cup {SearchResult(s) : s \in Searches}

Piece == [block : BlockType, content : Seq(Nat)]

Reasons == {"none", "end_turn", "tool_use", "max_tokens"}

ReaderType ==
  [phase : {"none", "between", "inside", "closing", "stopped", "failed"},
   index : Nat, blocks : Seq(Piece), stop_reason : Reasons]

FoldedType ==
  [failed : BOOLEAN, begun : BOOLEAN, open : Seq(Piece), content : Seq(Piece),
   stop_reason : Reasons]

(* The arguments of every one of these pieces parse.                       *)
AllParse(pieces) == \A i \in 1..Len(pieces) : Parses(pieces[i], WholeArguments)

(* The fold has gone as far as the reader: it failed where the reader did, *)
(* and for arguments that do not parse, and otherwise has the same blocks. *)
Alike(rd, acc) ==
  /\ rd.phase = "none" => rd = Unread /\ acc = Unfolded
  /\ rd.phase = "failed" => acc.failed
  /\ rd.phase \in {"between", "closing", "stopped"} =>
       /\ acc.begun /\ (acc.failed <=> ~AllParse(rd.blocks))
       /\ ~acc.failed => /\ acc.open = << >> /\ acc.content = rd.blocks
                         /\ acc.stop_reason = rd.stop_reason
  /\ rd.phase = "inside" =>
       \E done \in Seq(Piece), now \in Piece :
         /\ rd.blocks = Append(done, now) /\ acc.begun
         /\ acc.failed <=> ~AllParse(done)
         /\ ~acc.failed => /\ acc.open = <<now>> /\ acc.content = done
                           /\ acc.stop_reason = rd.stop_reason

(* The message begins.                                                     *)
LEMMA StartIsRead ==
  ASSUME NEW rd \in ReaderType, NEW acc \in FoldedType, Alike(rd, acc), rd.phase = "none"
  PROVE  LET next == Reads(rd, MessageStart)
             shut == Fold(acc, MessageStart, WholeArguments)
         IN  /\ next = [rd EXCEPT !.phase = "between"]
             /\ next \in ReaderType /\ shut \in FoldedType /\ Alike(next, shut)
<1> DEFINE frame == MessageStart
<1>1. frame.is = "message_start"
  BY DEF MessageStart
<1>2. rd = Unread /\ acc = Unfolded
  BY DEF Alike
<1> HIDE DEF frame
<1>3. Reads(rd, frame) = [rd EXCEPT !.phase = "between"]
  BY <1>1 DEF Reads
<1>4. ~acc.failed
  BY <1>2 DEF Unfolded
<1>5. Fold(acc, frame, WholeArguments) = [acc EXCEPT !.begun = TRUE, !.stop_reason = "none"]
  BY <1>1, <1>4 DEF Fold
<1>6. << >> \in Seq(Piece) /\ AllParse(<< >>)
  BY EmptySeq DEF AllParse
<1>7. [rd EXCEPT !.phase = "between"] \in ReaderType
  BY DEF ReaderType
<1>8. [acc EXCEPT !.begun = TRUE, !.stop_reason = "none"] \in FoldedType
  BY DEF FoldedType, Reasons
<1>9. Alike([rd EXCEPT !.phase = "between"], [acc EXCEPT !.begun = TRUE, !.stop_reason = "none"])
  BY <1>2, <1>6 DEF Alike, Unread, Unfolded
<1> QED
  BY <1>3, <1>5, <1>7, <1>8, <1>9 DEF frame

(* A block begins.                                                         *)
LEMMA BlockStartIsRead ==
  ASSUME NEW rd \in ReaderType, NEW acc \in FoldedType, Alike(rd, acc),
         rd.phase = "between", NEW block \in BlockType
  PROVE  LET next == Reads(rd, BlockStart(rd.index, block))
             shut == Fold(acc, BlockStart(rd.index, block), WholeArguments)
         IN  /\ next = [rd EXCEPT !.phase = "inside",
                         !.blocks = Append(@, [block |-> block, content |-> << >>])]
             /\ next \in ReaderType /\ shut \in FoldedType /\ Alike(next, shut)
<1> DEFINE frame == BlockStart(rd.index, block)
           now == [block |-> block, content |-> << >>]
           next == [rd EXCEPT !.phase = "inside", !.blocks = Append(@, now)]
           shut == IF acc.failed THEN acc ELSE [acc EXCEPT !.open = <<now>>]
<1>1. frame.is = "block_start" /\ frame.index = rd.index /\ frame.block = block
  BY DEF BlockStart
<1>2. now \in Piece
  BY EmptySeq DEF Piece
<1> HIDE DEF frame, now
<1>3. Reads(rd, frame) = next
  <2>1. Reads(rd, frame) = [[rd EXCEPT !.phase = "inside"] EXCEPT
                              !.blocks = Append(@, [block |-> frame.block, content |-> << >>])]
    BY <1>1 DEF Reads
  <2> QED
    BY <1>1, <2>1 DEF now, ReaderType
<1>4. Fold(acc, frame, WholeArguments) = shut
  <2>1. CASE acc.failed
    BY <2>1 DEF Fold
  <2>2. CASE ~acc.failed
    <3>1. acc.open = << >>
      BY <2>2 DEF Alike
    <3>2. Close(acc, WholeArguments) = acc
      BY <3>1 DEF Close
    <3> QED
      BY <1>1, <2>2, <3>2 DEF Fold, now
  <2> QED
    BY <2>1, <2>2
<1>5. rd.blocks \in Seq(Piece) /\ Append(rd.blocks, now) \in Seq(Piece) /\ <<now>> \in Seq(Piece)
  BY <1>2, AppendProperties DEF ReaderType
<1>6. next \in ReaderType
  BY <1>5 DEF ReaderType
<1>7. shut \in FoldedType
  BY <1>5 DEF FoldedType
<1>8. Alike(next, shut)
  <2>1. next.phase = "inside" /\ next.blocks = Append(rd.blocks, now)
        /\ next.stop_reason = rd.stop_reason
    BY DEF ReaderType
  <2>2. shut.begun /\ (shut.failed <=> ~AllParse(rd.blocks))
    BY DEF Alike, FoldedType
  <2>3. ~shut.failed => /\ shut.open = <<now>> /\ shut.content = rd.blocks
                        /\ shut.stop_reason = rd.stop_reason
    BY DEF Alike, FoldedType
  <2> HIDE DEF next, shut
  <2> QED
    BY <1>2, <1>5, <2>1, <2>2, <2>3 DEF Alike
<1> QED
  BY <1>3, <1>4, <1>6, <1>7, <1>8 DEF frame, now

(* Changing the last of some pieces.                                       *)
LEMMA LastPiece ==
  ASSUME NEW done \in Seq(Piece), NEW now \in Piece, NEW grown \in Piece
  PROVE  LET pieces == Append(done, now)
         IN  /\ pieces \in Seq(Piece) /\ Len(pieces) = Len(done) + 1 /\ Len(done) \in Nat
             /\ pieces[Len(pieces)] = now
             /\ \A i \in 1..Len(done) : pieces[i] = done[i]
             /\ [pieces EXCEPT ![Len(pieces)] = grown] = Append(done, grown)
<1> DEFINE pieces == Append(done, now)
           n == Len(done)
           other == Append(done, grown)
<1>1. /\ n \in Nat /\ pieces \in Seq(Piece) /\ Len(pieces) = n + 1 /\ pieces[n + 1] = now
      /\ other \in Seq(Piece) /\ Len(other) = n + 1 /\ other[n + 1] = grown
      /\ \A i \in 1..n : pieces[i] = done[i] /\ other[i] = done[i]
  BY AppendProperties, LenProperties
<1> HIDE DEF pieces, other
<1>2. LET changed == [pieces EXCEPT ![n + 1] = grown]
      IN  /\ changed \in Seq(Piece) /\ Len(changed) = n + 1
          /\ changed[n + 1] = grown /\ \A i \in 1..n : changed[i] = done[i]
  <2>1. n + 1 \in 1..Len(pieces) /\ \A i \in 1..n : i # n + 1 /\ i \in 1..Len(pieces)
    BY <1>1
  <2> QED
    BY <1>1, <2>1, ExceptSeq
<1>3. [pieces EXCEPT ![n + 1] = grown] = other
  <2> DEFINE changed == [pieces EXCEPT ![n + 1] = grown]
  <2> HIDE DEF changed
  <2>1. /\ changed \in Seq(Piece) /\ Len(changed) = n + 1
        /\ changed[n + 1] = grown /\ \A i \in 1..n : changed[i] = done[i]
    BY <1>2 DEF changed
  <2>2. \A i \in 1..(n + 1) : changed[i] = other[i]
    BY <1>1, <2>1
  <2> QED
    BY <1>1, <2>1, <2>2, SeqEqual DEF changed
<1> QED
  BY <1>1, <1>3 DEF pieces, other

(* Changing the only one.                                                  *)
LEMMA OnePiece ==
  ASSUME NEW now \in Piece, NEW grown \in Piece
  PROVE  [<<now>> EXCEPT ![1] = grown] = <<grown>>
<1> DEFINE changed == [<<now>> EXCEPT ![1] = grown]
<1>1. <<now>> \in Seq(Piece) /\ <<grown>> \in Seq(Piece)
  OBVIOUS
<1>2. changed \in Seq(Piece) /\ Len(changed) = 1 /\ changed[1] = grown
  BY <1>1, ExceptSeq
<1> HIDE DEF changed
<1>3. \A i \in 1..1 : changed[i] = <<grown>>[i]
  BY <1>2
<1> QED
  BY <1>1, <1>2, <1>3, SeqEqual DEF changed

(* A delta of the kind of the open block.                                  *)
LEMMA DeltaIsRead ==
  ASSUME NEW rd \in ReaderType, NEW acc \in FoldedType, Alike(rd, acc),
         rd.phase = "inside", NEW delta \in Seq(Nat),
         Belongs(rd.blocks[Len(rd.blocks)].block, delta)
  PROVE  LET next == Reads(rd, BlockDelta(rd.index, delta))
             shut == Fold(acc, BlockDelta(rd.index, delta), WholeArguments)
         IN  /\ next = [rd EXCEPT !.blocks[Len(rd.blocks)].content = @ \o delta]
             /\ next \in ReaderType /\ shut \in FoldedType /\ Alike(next, shut)
<1> DEFINE frame == BlockDelta(rd.index, delta)
           next == [rd EXCEPT !.blocks[Len(rd.blocks)].content = @ \o delta]
<1>1. frame.is = "block_delta" /\ frame.index = rd.index /\ frame.delta = delta
  BY DEF BlockDelta
<1>2. PICK done \in Seq(Piece), now \in Piece :
        /\ rd.blocks = Append(done, now) /\ acc.begun
        /\ acc.failed <=> ~AllParse(done)
        /\ ~acc.failed => /\ acc.open = <<now>> /\ acc.content = done
                          /\ acc.stop_reason = rd.stop_reason
  BY DEF Alike
<1> DEFINE grown == [now EXCEPT !.content = @ \o delta]
           shut == IF acc.failed THEN acc ELSE [acc EXCEPT !.open = <<grown>>]
<1>3. grown \in Piece /\ <<grown>> \in Seq(Piece)
  <2>1. now.content \in Seq(Nat)
    BY DEF Piece
  <2>2. now.content \o delta \in Seq(Nat)
    BY <2>1, ConcatProperties
  <2>3. grown \in Piece
    BY <2>2 DEF Piece
  <2> HIDE DEF grown
  <2> QED
    BY <2>3
<1>4. /\ rd.blocks \in Seq(Piece) /\ Len(rd.blocks) \in Nat
      /\ rd.blocks[Len(rd.blocks)] = now
      /\ [rd.blocks EXCEPT ![Len(rd.blocks)] = grown] = Append(done, grown)
      /\ Append(done, grown) \in Seq(Piece)
  <2> HIDE DEF grown
  <2>1. Append(done, grown) \in Seq(Piece)
    BY <1>3, AppendProperties
  <2> QED
    BY <1>2, <1>3, <2>1, LastPiece
<1> HIDE DEF frame
<1>5. Reads(rd, frame) = next
  BY <1>1 DEF Reads
<1>6. next = [rd EXCEPT !.blocks = Append(done, grown)]
  BY <1>4 DEF ReaderType
<1>7. Fold(acc, frame, WholeArguments) = shut
  <2>1. CASE acc.failed
    BY <2>1 DEF Fold
  <2>2. CASE ~acc.failed
    <3>1. acc.open = <<now>>
      BY <1>2, <2>2
    <3>2. acc.open # << >> /\ acc.open[1] = now
      BY <3>1
    <3>3. Belongs(now.block, frame.delta)
      BY <1>1, <1>4
    <3>4. Fold(acc, frame, WholeArguments) = [acc EXCEPT !.open[1].content = @ \o frame.delta]
      BY <1>1, <2>2, <3>2, <3>3 DEF Fold
    <3>5. [acc.open EXCEPT ![1].content = @ \o delta] = <<grown>>
      <4>1. [<<now>> EXCEPT ![1] = grown] = <<grown>>
        <5> HIDE DEF grown
        <5> QED
          BY <1>3, OnePiece
      <4>2. [acc.open EXCEPT ![1].content = @ \o delta] = [<<now>> EXCEPT ![1] = grown]
        BY <3>1, <3>2
      <4> QED
        BY <4>1, <4>2
    <3> QED
      BY <1>1, <2>2, <3>1, <3>4, <3>5 DEF FoldedType
  <2> QED
    BY <2>1, <2>2
<1> HIDE DEF grown
<1>8. next \in ReaderType
  BY <1>4, <1>6 DEF ReaderType
<1>9. shut \in FoldedType
  BY <1>3 DEF FoldedType
<1>10. Alike(next, shut)
  <2>1. /\ next.phase = "inside" /\ next.blocks = Append(done, grown)
        /\ next.stop_reason = rd.stop_reason
    BY <1>6 DEF ReaderType
  <2>2. shut.begun /\ (shut.failed <=> ~AllParse(done))
    BY <1>2 DEF FoldedType
  <2>3. ~shut.failed => /\ shut.open = <<grown>> /\ shut.content = done
                        /\ shut.stop_reason = rd.stop_reason
    BY <1>2 DEF FoldedType
  <2> HIDE DEF next, shut
  <2> QED
    BY <1>3, <2>1, <2>2, <2>3 DEF Alike
<1> QED
  BY <1>5, <1>7, <1>8, <1>9, <1>10 DEF frame

(* Nothing that is done is left out when what is open is appended to it.   *)
LEMMA AllParseAppended ==
  ASSUME NEW done \in Seq(Piece), NEW now \in Piece
  PROVE  AllParse(Append(done, now)) <=> AllParse(done) /\ Parses(now, WholeArguments)
<1> DEFINE pieces == Append(done, now)
<1>1. /\ Len(done) \in Nat /\ Len(pieces) = Len(done) + 1 /\ pieces[Len(done) + 1] = now
      /\ \A i \in 1..Len(done) : pieces[i] = done[i]
  BY AppendProperties, LenProperties
<1>2. 1..Len(pieces) = (1..Len(done)) \cup {Len(done) + 1}
  BY <1>1
<1> HIDE DEF pieces
<1>3. AllParse(pieces) <=> AllParse(done) /\ Parses(now, WholeArguments)
  BY <1>1, <1>2 DEF AllParse
<1> QED
  BY <1>3 DEF pieces

(* A block ends.                                                           *)
LEMMA BlockStopIsRead ==
  ASSUME NEW rd \in ReaderType, NEW acc \in FoldedType, Alike(rd, acc), rd.phase = "inside"
  PROVE  LET next == Reads(rd, BlockStop(rd.index))
             shut == Fold(acc, BlockStop(rd.index), WholeArguments)
         IN  /\ next = [rd EXCEPT !.phase = "between", !.index = @ + 1]
             /\ next \in ReaderType /\ shut \in FoldedType /\ Alike(next, shut)
<1> DEFINE frame == BlockStop(rd.index)
           next == [rd EXCEPT !.phase = "between", !.index = @ + 1]
           shut == Fold(acc, frame, WholeArguments)
<1>1. frame.is = "block_stop" /\ frame.index = rd.index
  BY DEF BlockStop
<1>2. PICK done \in Seq(Piece), now \in Piece :
        /\ rd.blocks = Append(done, now) /\ acc.begun
        /\ acc.failed <=> ~AllParse(done)
        /\ ~acc.failed => /\ acc.open = <<now>> /\ acc.content = done
                          /\ acc.stop_reason = rd.stop_reason
  BY DEF Alike
<1> HIDE DEF frame
<1>3. Reads(rd, frame) = next
  <2>1. Reads(rd, frame) = [[rd EXCEPT !.phase = "between"] EXCEPT !.index = @ + 1]
    BY <1>1 DEF Reads
  <2> QED
    BY <2>1 DEF ReaderType
<1>4. next \in ReaderType
  <2>1. rd.index + 1 \in Nat
    BY DEF ReaderType
  <2> QED
    BY <2>1 DEF ReaderType
<1>5. /\ next.phase = "between" /\ next.blocks = rd.blocks
      /\ next.stop_reason = rd.stop_reason
  BY DEF ReaderType
<1>6. AllParse(rd.blocks) <=> AllParse(done) /\ Parses(now, WholeArguments)
  BY <1>2, AllParseAppended
<1> HIDE DEF next
<1>7. CASE acc.failed
  <2>1. shut = acc
    BY <1>7 DEF Fold
  <2> QED
    BY <1>2, <1>3, <1>4, <1>5, <1>6, <1>7, <2>1 DEF Alike, next, frame
<1>8. CASE ~acc.failed
  <2>1. acc.open = <<now>> /\ acc.content = done /\ acc.stop_reason = rd.stop_reason
    BY <1>2, <1>8
  <2>2. acc.open # << >> /\ acc.open[1] = now
    BY <2>1
  <2>3. shut = Close(acc, WholeArguments)
    BY <1>1, <1>8 DEF Fold
  <2>4. CASE Parses(now, WholeArguments)
    <3>1. shut = [acc EXCEPT !.content = @ \o acc.open, !.open = << >>]
      BY <2>2, <2>3, <2>4 DEF Close
    <3>2. acc.content \o acc.open = Append(done, now) /\ Append(done, now) \in Seq(Piece)
      BY <2>1, AppendIsConcat, AppendProperties
    <3>3. shut = [acc EXCEPT !.content = Append(done, now), !.open = << >>]
      BY <3>1, <3>2 DEF FoldedType
    <3> HIDE DEF shut
    <3>4. shut \in FoldedType
      <4>1. << >> \in Seq(Piece)
        BY EmptySeq
      <4> HIDE DEF frame
      <4> QED
        BY <3>2, <3>3, <4>1 DEF FoldedType
    <3>5. /\ shut.content = Append(done, now) /\ shut.open = << >>
          /\ shut.begun = acc.begun /\ shut.failed = acc.failed
          /\ shut.stop_reason = acc.stop_reason
      BY <3>3 DEF FoldedType
    <3>6. Alike(next, shut)
      BY <1>2, <1>5, <1>6, <1>8, <2>1, <2>4, <3>5 DEF Alike
    <3> QED
      BY <1>3, <1>4, <3>4, <3>6 DEF next, frame, shut
  <2>5. CASE ~Parses(now, WholeArguments)
    <3>1. shut = [acc EXCEPT !.failed = TRUE]
      BY <2>2, <2>3, <2>5 DEF Close
    <3> HIDE DEF shut
    <3>2. shut \in FoldedType /\ shut.begun = acc.begun /\ shut.failed = TRUE
      BY <3>1 DEF FoldedType
    <3>3. Alike(next, shut)
      BY <1>2, <1>5, <1>6, <2>5, <3>2 DEF Alike
    <3> QED
      BY <1>3, <1>4, <3>2, <3>3 DEF next, frame, shut
  <2> QED
    BY <2>4, <2>5
<1> QED
  BY <1>7, <1>8

(* The message ends, and says why.                                         *)
LEMMA EndIsRead ==
  ASSUME NEW rd \in ReaderType, NEW acc \in FoldedType, Alike(rd, acc), rd.phase = "between",
         NEW why \in Reasons
  PROVE  LET next == Reads(Reads(rd, MessageDelta(why)), MessageStop)
             shut == Fold(Fold(acc, MessageDelta(why), WholeArguments), MessageStop,
                          WholeArguments)
         IN  /\ next = [rd EXCEPT !.phase = "stopped", !.stop_reason = why]
             /\ next \in ReaderType /\ shut \in FoldedType /\ Alike(next, shut)
<1> DEFINE frame == MessageDelta(why)
           closing == Reads(rd, frame)
           ended == Fold(acc, frame, WholeArguments)
           last == MessageStop
           next == [rd EXCEPT !.phase = "stopped", !.stop_reason = why]
           shut == IF acc.failed THEN acc ELSE [acc EXCEPT !.stop_reason = why]
<1>1. frame.is = "message_delta" /\ frame.stop_reason = why /\ last.is = "message_stop"
  BY DEF MessageDelta, MessageStop
<1> HIDE DEF frame, last
<1>2. closing = [rd EXCEPT !.phase = "closing", !.stop_reason = why]
  <2>1. closing = [[rd EXCEPT !.phase = "closing"] EXCEPT !.stop_reason = frame.stop_reason]
    BY <1>1 DEF Reads
  <2> QED
    BY <1>1, <2>1 DEF ReaderType
<1> HIDE DEF closing
<1>3. closing.phase = "closing"
  BY <1>2 DEF ReaderType
<1>4. Reads(closing, last) = [closing EXCEPT !.phase = "stopped"]
  BY <1>1, <1>3 DEF Reads
<1>5. Reads(closing, last) = next
  BY <1>2, <1>4 DEF ReaderType
<1>6. acc.begun
  BY DEF Alike
<1>7. ended = shut
  <2>1. CASE acc.failed
    BY <2>1 DEF Fold
  <2>2. CASE ~acc.failed
    BY <1>1, <1>6, <2>2 DEF Fold, Ended
  <2> QED
    BY <2>1, <2>2
<1>8. Fold(shut, last, WholeArguments) = shut
  <2> HIDE DEF shut
  <2>1. CASE shut.failed
    BY <2>1 DEF Fold
  <2>2. CASE ~shut.failed
    BY <1>1, <2>2 DEF Fold
  <2> QED
    BY <2>1, <2>2
<1>9. next \in ReaderType
  BY DEF ReaderType
<1>10. /\ shut \in FoldedType /\ shut.begun /\ (shut.failed <=> acc.failed)
       /\ ~shut.failed => /\ shut.open = acc.open /\ shut.content = acc.content
                          /\ shut.stop_reason = why
  BY <1>6 DEF FoldedType
<1>11. next.phase = "stopped" /\ next.blocks = rd.blocks /\ next.stop_reason = why
  BY DEF ReaderType
<1>12. Alike(next, shut)
  <2> HIDE DEF next, shut
  <2> QED
    BY <1>10, <1>11 DEF Alike
<1> QED
  BY <1>5, <1>7, <1>8, <1>9, <1>10, <1>12 DEF closing, frame, last

(* The message ends in an error, wherever it is.                           *)
LEMMA ErrorIsRead ==
  ASSUME NEW rd \in ReaderType, NEW acc \in FoldedType, Alike(rd, acc),
         rd.phase \notin {"stopped", "failed"}
  PROVE  LET next == Reads(rd, ErrorFrame)
             shut == Fold(acc, ErrorFrame, WholeArguments)
         IN  /\ next = [rd EXCEPT !.phase = "failed"]
             /\ next \in ReaderType /\ shut \in FoldedType /\ Alike(next, shut)
<1> DEFINE frame == ErrorFrame
           next == [rd EXCEPT !.phase = "failed"]
           shut == IF acc.failed THEN acc ELSE [acc EXCEPT !.failed = TRUE]
<1>1. frame.is = "error"
  BY DEF ErrorFrame
<1> HIDE DEF frame
<1>2. Reads(rd, frame) = next
  BY <1>1 DEF Reads
<1>3. Fold(acc, frame, WholeArguments) = shut
  BY <1>1 DEF Fold
<1>4. next \in ReaderType /\ next.phase = "failed"
  BY DEF ReaderType
<1>5. shut \in FoldedType /\ shut.failed
  BY DEF FoldedType
<1>6. Alike(next, shut)
  <2> HIDE DEF next, shut
  <2> QED
    BY <1>4, <1>5 DEF Alike
<1> QED
  BY <1>2, <1>3, <1>4, <1>5, <1>6 DEF frame

-----------------------------------------------------------------------------
(* The translator's handlers.                                              *)

OpenType == {NoBlock, Text, Thinking} \cup {ToolUse(c) : c \in Calls}

TranslatorType ==
  [started : BOOLEAN, finished : BOOLEAN, open : OpenType, streamed_arguments : BOOLEAN,
   next_index : Nat, saw_tool_call : BOOLEAN,
   stop_reason : {"end_turn", "tool_use", "max_tokens"}, searches : Seq(Searches),
   reader : ReaderType, folded : FoldedType]

(* What the translator takes for the index is the reader's, and the fold   *)
(* has gone as far as the reader.                                          *)
Sound(tr) ==
  tr \in TranslatorType /\ tr.next_index = tr.reader.index /\ Alike(tr.reader, tr.folded)

(* Besides, what it takes for open is the reader's open block, the last.   *)
Live(tr) ==
  /\ Sound(tr)
  /\ ~tr.started => tr.reader.phase = "none" /\ tr.open = NoBlock
  /\ tr.started => tr.reader.phase = IF tr.open = NoBlock THEN "between" ELSE "inside"
  /\ tr.open # NoBlock => /\ tr.reader.blocks # << >>
                          /\ tr.reader.blocks[Len(tr.reader.blocks)].block = tr.open

(* Nothing but the block that is open, and the reader, differs.            *)
Otherwise(tr, next) ==
  /\ next.finished = tr.finished /\ next.streamed_arguments = tr.streamed_arguments
  /\ next.saw_tool_call = tr.saw_tool_call /\ next.stop_reason = tr.stop_reason
  /\ next.searches = tr.searches

(* No kind of block is another.                                            *)
LEMMA BlocksAreApart ==
  /\ NoBlock.is = "none" /\ Text.is = "text" /\ Thinking.is = "thinking"
  /\ \A c : ToolUse(c).is = "tool_use" /\ ToolUse(c).id = c
  /\ \A s : ServerToolUse(s).is = "server_tool_use" /\ ServerToolUse(s).id = s
  /\ \A s : SearchResult(s).is = "web_search_tool_result"
BY DEF NoBlock, Text, Thinking, ToolUse, ServerToolUse, SearchResult

(* What is pushed is read and folded, and nothing else.                    *)
LEMMA PushIsRead ==
  ASSUME NEW tr \in TranslatorType, NEW frame,
         Reads(tr.reader, frame) \in ReaderType,
         Fold(tr.folded, frame, WholeArguments) \in FoldedType
  PROVE  LET next == Push(tr, frame)
         IN  /\ next \in TranslatorType /\ Otherwise(tr, next)
             /\ next.reader = Reads(tr.reader, frame)
             /\ next.folded = Fold(tr.folded, frame, WholeArguments)
             /\ next.started = tr.started /\ next.open = tr.open
             /\ next.next_index = tr.next_index
BY DEF Push, TranslatorType, Otherwise

(* A message is started once.                                              *)
LEMMA MessageIsStarted ==
  ASSUME NEW tr, Live(tr)
  PROVE  LET next == StartMessage(tr)
         IN  /\ Live(next) /\ next.started /\ next.open = tr.open /\ Otherwise(tr, next)
             /\ next.reader.blocks = tr.reader.blocks
<1>1. CASE tr.started
  BY <1>1 DEF StartMessage, Otherwise
<1>2. CASE ~tr.started
  <2> DEFINE begun == [tr EXCEPT !.started = TRUE]
             next == Push(begun, MessageStart)
  <2>1. tr \in TranslatorType /\ tr.reader \in ReaderType /\ tr.folded \in FoldedType
    BY DEF Live, Sound, TranslatorType
  <2>2. /\ begun \in TranslatorType /\ Otherwise(tr, begun) /\ begun.started
        /\ begun.open = tr.open /\ begun.next_index = tr.next_index
        /\ begun.reader = tr.reader /\ begun.folded = tr.folded
    BY <2>1 DEF TranslatorType, Otherwise
  <2>3. tr.reader.phase = "none" /\ tr.open = NoBlock /\ Alike(tr.reader, tr.folded)
        /\ tr.next_index = tr.reader.index
    BY <1>2 DEF Live, Sound
  <2> HIDE DEF begun
  <2>4. LET rd == Reads(begun.reader, MessageStart)
            acc == Fold(begun.folded, MessageStart, WholeArguments)
        IN  /\ rd = [tr.reader EXCEPT !.phase = "between"]
            /\ rd \in ReaderType /\ acc \in FoldedType /\ Alike(rd, acc)
    BY <2>1, <2>2, <2>3, StartIsRead
  <2>5. /\ next \in TranslatorType /\ Otherwise(begun, next) /\ Alike(next.reader, next.folded)
        /\ next.reader = [tr.reader EXCEPT !.phase = "between"]
        /\ next.started /\ next.open = tr.open /\ next.next_index = tr.next_index
    BY <2>2, <2>4, PushIsRead
  <2>6. /\ next.reader.phase = "between" /\ next.reader.blocks = tr.reader.blocks
        /\ next.reader.index = tr.reader.index
    BY <2>1, <2>5 DEF ReaderType
  <2>7. StartMessage(tr) = next
    BY <1>2 DEF StartMessage, begun
  <2> HIDE DEF next
  <2>8. Live(next) /\ Otherwise(tr, next)
    BY <2>2, <2>3, <2>5, <2>6 DEF Live, Sound, Otherwise
  <2> QED
    BY <2>5, <2>6, <2>7, <2>8
<1> QED
  BY <1>1, <1>2

(* A block is closed; what it holds is what the reader has of it.          *)
LEMMA BlockIsClosed ==
  ASSUME NEW tr, Live(tr)
  PROVE  LET next == CloseBlock(tr)
         IN  /\ Live(next) /\ next.started = tr.started /\ next.open = NoBlock
             /\ Otherwise(tr, next) /\ next.reader.blocks = tr.reader.blocks
<1>1. CASE tr.open = NoBlock
  BY <1>1 DEF CloseBlock, Otherwise
<1>2. CASE tr.open # NoBlock
  <2> DEFINE frame == BlockStop(tr.next_index)
             shut == [tr EXCEPT !.open = NoBlock, !.next_index = @ + 1]
             next == Push(shut, frame)
  <2>1. tr \in TranslatorType /\ tr.reader \in ReaderType /\ tr.folded \in FoldedType
        /\ tr.next_index \in Nat
    BY DEF Live, Sound, TranslatorType
  <2>2. /\ shut \in TranslatorType /\ Otherwise(tr, shut) /\ shut.started = tr.started
        /\ shut.open = NoBlock /\ shut.next_index = tr.next_index + 1
        /\ shut.reader = tr.reader /\ shut.folded = tr.folded
    <3>1. NoBlock \in OpenType /\ tr.next_index + 1 \in Nat
      BY <2>1 DEF OpenType
    <3> QED
      BY <2>1, <3>1 DEF TranslatorType, Otherwise
  <2>3. /\ tr.started /\ tr.reader.phase = "inside" /\ Alike(tr.reader, tr.folded)
        /\ tr.next_index = tr.reader.index
    BY <1>2 DEF Live, Sound
  <2> HIDE DEF shut
  <2>4. LET rd == Reads(shut.reader, frame)
            acc == Fold(shut.folded, frame, WholeArguments)
        IN  /\ rd = [tr.reader EXCEPT !.phase = "between", !.index = @ + 1]
            /\ rd \in ReaderType /\ acc \in FoldedType /\ Alike(rd, acc)
    BY <2>1, <2>2, <2>3, BlockStopIsRead
  <2>5. /\ next \in TranslatorType /\ Otherwise(shut, next) /\ Alike(next.reader, next.folded)
        /\ next.reader = [tr.reader EXCEPT !.phase = "between", !.index = @ + 1]
        /\ next.started = tr.started /\ next.open = NoBlock
        /\ next.next_index = tr.next_index + 1
    BY <2>2, <2>4, PushIsRead
  <2>6. /\ next.reader.phase = "between" /\ next.reader.blocks = tr.reader.blocks
        /\ next.reader.index = tr.reader.index + 1
    BY <2>1, <2>5 DEF ReaderType
  <2>7. CloseBlock(tr) = next
    BY <1>2 DEF CloseBlock, shut
  <2> HIDE DEF next
  <2>8. Live(next) /\ Otherwise(tr, next)
    BY <2>2, <2>3, <2>5, <2>6 DEF Live, Sound, Otherwise
  <2> QED
    BY <2>5, <2>6, <2>7, <2>8
<1> QED
  BY <1>1, <1>2

(* A block is opened between two others.                                   *)
LEMMA BlockIsOpened ==
  ASSUME NEW tr, Live(tr), tr.started, tr.open = NoBlock,
         NEW block \in OpenType, block # NoBlock
  PROVE  LET next == Opened(tr, block)
         IN  /\ Live(next) /\ next.started /\ next.open = block /\ Otherwise(tr, next)
             /\ next.reader.blocks
                  = Append(tr.reader.blocks, [block |-> block, content |-> << >>])
<1> DEFINE frame == BlockStart(tr.next_index, block)
           now == [block |-> block, content |-> << >>]
           opened == [tr EXCEPT !.open = block]
           next == Push(opened, frame)
<1>1. tr \in TranslatorType /\ tr.reader \in ReaderType /\ tr.folded \in FoldedType
  BY DEF Live, Sound, TranslatorType
<1>2. /\ opened \in TranslatorType /\ Otherwise(tr, opened) /\ opened.started
      /\ opened.open = block /\ opened.next_index = tr.next_index
      /\ opened.reader = tr.reader /\ opened.folded = tr.folded
  BY <1>1 DEF TranslatorType, Otherwise
<1>3. /\ tr.reader.phase = "between" /\ Alike(tr.reader, tr.folded)
      /\ tr.next_index = tr.reader.index /\ block \in BlockType
  BY DEF Live, Sound, BlockType, OpenType
<1> HIDE DEF opened
<1>4. LET rd == Reads(opened.reader, frame)
          acc == Fold(opened.folded, frame, WholeArguments)
      IN  /\ rd = [tr.reader EXCEPT !.phase = "inside", !.blocks = Append(@, now)]
          /\ rd \in ReaderType /\ acc \in FoldedType /\ Alike(rd, acc)
  <2>1. LET rd == Reads(tr.reader, BlockStart(tr.reader.index, block))
            acc == Fold(tr.folded, BlockStart(tr.reader.index, block), WholeArguments)
        IN  /\ rd = [tr.reader EXCEPT !.phase = "inside", !.blocks = Append(@, now)]
            /\ rd \in ReaderType /\ acc \in FoldedType /\ Alike(rd, acc)
    BY <1>1, <1>3, BlockStartIsRead
  <2> HIDE DEF now
  <2> QED
    BY <1>2, <1>3, <2>1
<1>5. /\ next \in TranslatorType /\ Otherwise(opened, next) /\ Alike(next.reader, next.folded)
      /\ next.reader = [tr.reader EXCEPT !.phase = "inside", !.blocks = Append(@, now)]
      /\ next.started /\ next.open = block /\ next.next_index = tr.next_index
  BY <1>2, <1>4, PushIsRead
<1>6. now \in Piece /\ now.block = block
  BY <1>3, EmptySeq DEF Piece
<1> HIDE DEF now
<1>7. /\ next.reader.phase = "inside" /\ next.reader.blocks = Append(tr.reader.blocks, now)
      /\ next.reader.index = tr.reader.index
  BY <1>1, <1>5 DEF ReaderType
<1>8. /\ next.reader.blocks # << >>
      /\ next.reader.blocks[Len(next.reader.blocks)].block = block
  <2>1. tr.reader.blocks \in Seq(Piece)
    BY <1>1 DEF ReaderType
  <2>2. /\ Len(Append(tr.reader.blocks, now)) = Len(tr.reader.blocks) + 1
        /\ Append(tr.reader.blocks, now)[Len(tr.reader.blocks) + 1] = now
        /\ Append(tr.reader.blocks, now) # << >>
    BY <1>6, <2>1, AppendProperties
  <2> QED
    BY <1>6, <1>7, <2>2
<1>9. Opened(tr, block) = next
  BY DEF Opened, opened
<1> HIDE DEF next
<1>10. Live(next) /\ Otherwise(tr, next)
  BY <1>2, <1>3, <1>5, <1>7, <1>8 DEF Live, Sound, Otherwise
<1> QED
  BY <1>5, <1>7, <1>9, <1>10 DEF now

(* What a delta of some fragments makes of the last of some pieces.        *)
LastGrown(pieces, delta, grown) ==
  /\ Len(grown) = Len(pieces)
  /\ \A i \in 1..Len(pieces) - 1 : grown[i] = pieces[i]
  /\ grown[Len(pieces)].block = pieces[Len(pieces)].block
  /\ grown[Len(pieces)].content = pieces[Len(pieces)].content \o delta

(* A delta of its kind grows the open block.                               *)
LEMMA DeltaIsPushed ==
  ASSUME NEW tr, Live(tr), tr.open # NoBlock, NEW delta \in Seq(Nat), Belongs(tr.open, delta)
  PROVE  LET next == PushDelta(tr, delta)
         IN  /\ Live(next) /\ next.started /\ next.open = tr.open /\ Otherwise(tr, next)
             /\ LastGrown(tr.reader.blocks, delta, next.reader.blocks)
<1> DEFINE frame == BlockDelta(tr.next_index, delta)
           next == Push(tr, frame)
           blocks == tr.reader.blocks
           last == Len(blocks)
<1>1. tr \in TranslatorType /\ tr.reader \in ReaderType /\ tr.folded \in FoldedType
  BY DEF Live, Sound, TranslatorType
<1>2. /\ tr.started /\ tr.reader.phase = "inside" /\ Alike(tr.reader, tr.folded)
      /\ tr.next_index = tr.reader.index /\ blocks # << >> /\ blocks[last].block = tr.open
  BY <1>1 DEF Live, Sound, TranslatorType
<1>3. LET rd == Reads(tr.reader, frame)
          acc == Fold(tr.folded, frame, WholeArguments)
      IN  /\ rd = [tr.reader EXCEPT !.blocks[last].content = @ \o delta]
          /\ rd \in ReaderType /\ acc \in FoldedType /\ Alike(rd, acc)
  BY <1>1, <1>2, DeltaIsRead
<1>4. /\ next \in TranslatorType /\ Otherwise(tr, next) /\ Alike(next.reader, next.folded)
      /\ next.reader = [tr.reader EXCEPT !.blocks[last].content = @ \o delta]
      /\ next.started /\ next.open = tr.open /\ next.next_index = tr.next_index
  BY <1>1, <1>2, <1>3, PushIsRead
<1>5. /\ next.reader.phase = "inside" /\ next.reader.index = tr.reader.index
      /\ next.reader.blocks = [blocks EXCEPT ![last].content = @ \o delta]
  BY <1>1, <1>2, <1>4 DEF ReaderType
<1>6. blocks \in Seq(Piece) /\ last \in Nat /\ last \in 1..last /\ DOMAIN blocks = 1..last
  <2>1. blocks \in Seq(Piece)
    BY <1>1 DEF ReaderType
  <2> QED
    BY <1>2, <2>1, LenProperties, EmptySeq
<1>7. LastGrown(blocks, delta, next.reader.blocks)
  <2> DEFINE grown == [blocks[last] EXCEPT !.content = @ \o delta]
  <2>1. blocks[last] \in Piece
    BY <1>6
  <2>2. grown.block = blocks[last].block /\ grown.content = blocks[last].content \o delta
    BY <2>1 DEF Piece
  <2>3. next.reader.blocks = [blocks EXCEPT ![last] = grown]
    BY <1>5
  <2> HIDE DEF grown
  <2>4. grown \in Piece
    <3>1. blocks[last].content \in Seq(Nat)
      BY <2>1 DEF Piece
    <3>2. blocks[last].content \o delta \in Seq(Nat)
      BY <3>1, ConcatProperties
    <3> QED
      BY <2>1, <3>2 DEF Piece, grown
  <2>5. LET changed == [blocks EXCEPT ![last] = grown]
        IN  /\ changed \in Seq(Piece) /\ Len(changed) = last /\ changed[last] = grown
            /\ \A i \in 1..last : i # last => changed[i] = blocks[i]
    BY <1>6, <2>4, ExceptSeq
  <2> HIDE DEF next
  <2> QED
    BY <1>6, <2>2, <2>3, <2>5 DEF LastGrown
<1>8. /\ next.reader.blocks # << >>
      /\ next.reader.blocks[Len(next.reader.blocks)].block = tr.open
  <2>1. Len(next.reader.blocks) = last /\ last # 0
    <3>1. Len(next.reader.blocks) = last
      BY <1>7 DEF LastGrown
    <3>2. last # 0
      BY <1>6
    <3> QED
      BY <3>1, <3>2
  <2> QED
    BY <1>2, <1>7, <2>1, EmptySeq DEF LastGrown
<1>9. PushDelta(tr, delta) = next
  BY DEF PushDelta
<1> HIDE DEF next
<1>10. Live(next)
  BY <1>2, <1>4, <1>5, <1>8 DEF Live, Sound
<1> QED
  BY <1>2, <1>4, <1>7, <1>9, <1>10

(* A block that goes out whole is one more, empty.                         *)
LEMMA BlockIsWhole ==
  ASSUME NEW tr, Live(tr), tr.started, tr.open = NoBlock, NEW block \in BlockType
  PROVE  LET next == WholeBlock(tr, block)
         IN  /\ Live(next) /\ next.started /\ next.open = NoBlock /\ Otherwise(tr, next)
             /\ next.reader.blocks
                  = Append(tr.reader.blocks, [block |-> block, content |-> << >>])
<1> DEFINE first == BlockStart(tr.next_index, block)
           second == BlockStop(tr.next_index)
           now == [block |-> block, content |-> << >>]
           opened == Push(tr, first)
           closed == Push(opened, second)
           next == [closed EXCEPT !.next_index = @ + 1]
<1>1. tr \in TranslatorType /\ tr.reader \in ReaderType /\ tr.folded \in FoldedType
  BY DEF Live, Sound, TranslatorType
<1>2. /\ tr.reader.phase = "between" /\ Alike(tr.reader, tr.folded)
      /\ tr.next_index = tr.reader.index /\ tr.next_index \in Nat
  BY <1>1 DEF Live, Sound, TranslatorType
<1>3. LET rd == Reads(tr.reader, first)
          acc == Fold(tr.folded, first, WholeArguments)
      IN  /\ rd = [tr.reader EXCEPT !.phase = "inside", !.blocks = Append(@, now)]
          /\ rd \in ReaderType /\ acc \in FoldedType /\ Alike(rd, acc)
  <2>1. LET rd == Reads(tr.reader, BlockStart(tr.reader.index, block))
            acc == Fold(tr.folded, BlockStart(tr.reader.index, block), WholeArguments)
        IN  /\ rd = [tr.reader EXCEPT !.phase = "inside", !.blocks = Append(@, now)]
            /\ rd \in ReaderType /\ acc \in FoldedType /\ Alike(rd, acc)
    BY <1>1, <1>2, BlockStartIsRead
  <2> HIDE DEF now
  <2> QED
    BY <1>2, <2>1
<1> HIDE DEF now
<1>4. /\ opened \in TranslatorType /\ Otherwise(tr, opened)
      /\ Alike(opened.reader, opened.folded)
      /\ opened.reader = [tr.reader EXCEPT !.phase = "inside", !.blocks = Append(@, now)]
      /\ opened.started /\ opened.open = NoBlock /\ opened.next_index = tr.next_index
  BY <1>1, <1>3, PushIsRead
<1>5. /\ opened.reader.phase = "inside" /\ opened.reader.index = tr.reader.index
      /\ opened.reader.blocks = Append(tr.reader.blocks, now)
      /\ opened.reader \in ReaderType /\ opened.folded \in FoldedType
  BY <1>1, <1>3, <1>4 DEF ReaderType, TranslatorType
<1> HIDE DEF opened
<1>6. LET rd == Reads(opened.reader, second)
          acc == Fold(opened.folded, second, WholeArguments)
      IN  /\ rd = [opened.reader EXCEPT !.phase = "between", !.index = @ + 1]
          /\ rd \in ReaderType /\ acc \in FoldedType /\ Alike(rd, acc)
  <2>1. LET rd == Reads(opened.reader, BlockStop(opened.reader.index))
            acc == Fold(opened.folded, BlockStop(opened.reader.index), WholeArguments)
        IN  /\ rd = [opened.reader EXCEPT !.phase = "between", !.index = @ + 1]
            /\ rd \in ReaderType /\ acc \in FoldedType /\ Alike(rd, acc)
    BY <1>4, <1>5, BlockStopIsRead
  <2> QED
    BY <1>2, <1>5, <2>1
<1>7. /\ closed \in TranslatorType /\ Otherwise(opened, closed)
      /\ Alike(closed.reader, closed.folded)
      /\ closed.reader = [opened.reader EXCEPT !.phase = "between", !.index = @ + 1]
      /\ closed.started /\ closed.open = NoBlock /\ closed.next_index = tr.next_index
  BY <1>4, <1>6, PushIsRead
<1>8. /\ closed.reader.phase = "between" /\ closed.reader.index = tr.reader.index + 1
      /\ closed.reader.blocks = Append(tr.reader.blocks, now)
  BY <1>5, <1>7 DEF ReaderType
<1> HIDE DEF closed
<1>9. /\ next \in TranslatorType /\ Otherwise(closed, next) /\ next.reader = closed.reader
      /\ next.folded = closed.folded /\ next.started /\ next.open = NoBlock
      /\ next.next_index = tr.next_index + 1
  <2>1. tr.next_index + 1 \in Nat
    BY <1>2
  <2> QED
    BY <1>7, <2>1 DEF TranslatorType, Otherwise
<1>10. WholeBlock(tr, block) = next
  BY DEF WholeBlock, closed, opened
<1> HIDE DEF next
<1>11. Live(next) /\ Otherwise(tr, next)
  BY <1>2, <1>4, <1>7, <1>8, <1>9 DEF Live, Sound, Otherwise
<1> QED
  BY <1>8, <1>9, <1>10, <1>11 DEF now

-----------------------------------------------------------------------------
(* The searches, as the message closes.                                    *)

(* The translator after each of the first n searches.                      *)
Emitting(tr, n, after) ==
  after = [k \in 0..n |-> IF k = 0 THEN [tr EXCEPT !.searches = << >>]
                          ELSE EmitSearch(after[k - 1], tr.searches[k])]

(* There is one, however many searches.                                    *)
LEMMA EmittingExists ==
  ASSUME NEW tr, NEW n \in Nat
  PROVE  \E after : Emitting(tr, n, after)
<1> DEFINE Defined == {m \in Nat : \E after : Emitting(tr, m, after)}
           first == [tr EXCEPT !.searches = << >>]
<1>1. 0 \in Defined
  <2>1. Emitting(tr, 0, [k \in 0..0 |-> first])
    BY DEF Emitting
  <2> QED
    BY <2>1
<1>2. ASSUME NEW m \in Nat, m \in Defined PROVE m + 1 \in Defined
  <2>1. PICK after : Emitting(tr, m, after)
    BY <1>2
  <2> DEFINE final == EmitSearch(after[m], tr.searches[m + 1])
             longer == [k \in 0..(m + 1) |-> IF k = m + 1 THEN final ELSE after[k]]
             value(k) == IF k = 0 THEN first ELSE EmitSearch(longer[k - 1], tr.searches[k])
  <2>2. \A k \in 0..m : after[k] = IF k = 0 THEN first
                                   ELSE EmitSearch(after[k - 1], tr.searches[k])
    BY <2>1 DEF Emitting
  <2> HIDE DEF first, final
  <2>3. \A k \in 0..(m + 1) : longer[k] = value(k)
    <3> SUFFICES ASSUME NEW k \in 0..(m + 1) PROVE longer[k] = value(k)
      OBVIOUS
    <3>1. CASE k = 0
      <4>1. k \in 0..m /\ k # m + 1 /\ longer[k] = after[k]
        BY <3>1
      <4> QED
        BY <2>2, <3>1, <4>1
    <3>2. CASE k # 0 /\ k # m + 1
      <4>1. k \in 0..m /\ longer[k] = after[k] /\ longer[k - 1] = after[k - 1]
        BY <3>2
      <4> QED
        BY <2>2, <3>2, <4>1
    <3>3. CASE k = m + 1
      <4>1. k # 0 /\ longer[k] = final /\ longer[k - 1] = after[k - 1] /\ k - 1 = m
        BY <3>3
      <4> QED
        BY <3>3, <4>1 DEF final
    <3> QED
      BY <3>1, <3>2, <3>3
  <2>4. longer = [k \in 0..(m + 1) |-> longer[k]]
    OBVIOUS
  <2> HIDE DEF longer
  <2>5. [k \in 0..(m + 1) |-> longer[k]] = [k \in 0..(m + 1) |-> value(k)]
    <3> HIDE DEF value
    <3> QED
      BY <2>3
  <2>6. Emitting(tr, m + 1, longer)
    BY <2>4, <2>5, Zenon DEF Emitting, first
  <2> QED
    BY <2>6
<1>3. Nat \subseteq Defined
  <2> HIDE DEF Defined
  <2> QED
    BY <1>1, <1>2, NumberInduction
<1> QED
  BY <1>3

(* What n searches have added.                                             *)
Emitted(tr, n, next) ==
  LET base   == Len(tr.reader.blocks)
      blocks == next.reader.blocks
  IN  /\ Live(next) /\ next.started /\ next.open = NoBlock
      /\ next.finished = tr.finished /\ next.saw_tool_call = tr.saw_tool_call
      /\ next.stop_reason = tr.stop_reason
      /\ Len(blocks) = base + 2 * n
      /\ \A i \in 1..base : blocks[i] = tr.reader.blocks[i]
      /\ \A k \in 1..n : /\ blocks[base + 2 * k - 1].block = ServerToolUse(tr.searches[k])
                         /\ blocks[base + 2 * k].block = SearchResult(tr.searches[k])

(* One search more: its call, and right after it its result.               *)
LEMMA SearchIsEmitted ==
  ASSUME NEW tr, tr \in TranslatorType, NEW n \in Nat, n < Len(tr.searches),
         NEW next, Emitted(tr, n, next)
  PROVE  Emitted(tr, n + 1, EmitSearch(next, tr.searches[n + 1]))
<1> DEFINE base == Len(tr.reader.blocks)
           s == tr.searches[n + 1]
           asked == [block |-> ServerToolUse(s), content |-> << >>]
           answered == [block |-> SearchResult(s), content |-> << >>]
           middle == WholeBlock(next, ServerToolUse(s))
           final == WholeBlock(middle, SearchResult(s))
           blocks == next.reader.blocks
           wider == final.reader.blocks
<1>1. /\ tr.reader.blocks \in Seq(Piece) /\ base \in Nat /\ tr.searches \in Seq(Searches)
      /\ s \in Searches
  <2>1. tr.reader.blocks \in Seq(Piece) /\ tr.searches \in Seq(Searches)
    BY DEF TranslatorType, ReaderType
  <2>2. n + 1 \in 1..Len(tr.searches)
    BY <2>1, LenProperties
  <2> QED
    BY <2>1, <2>2, LenProperties
<1>2. Live(next) /\ next.started /\ next.open = NoBlock /\ Len(blocks) = base + 2 * n
  BY DEF Emitted
<1>3. ServerToolUse(s) \in BlockType /\ SearchResult(s) \in BlockType
  BY <1>1 DEF BlockType
<1>4. asked \in Piece /\ answered \in Piece
  BY <1>3, EmptySeq DEF Piece
<1>5. blocks \in Seq(Piece)
  BY <1>2 DEF Live, Sound, TranslatorType, ReaderType
<1> HIDE DEF s
<1>6. /\ Live(middle) /\ middle.started /\ middle.open = NoBlock /\ Otherwise(next, middle)
      /\ middle.reader.blocks = Append(blocks, asked)
  BY <1>2, <1>3, BlockIsWhole
<1> HIDE DEF middle
<1>7. /\ Live(final) /\ final.started /\ final.open = NoBlock /\ Otherwise(middle, final)
      /\ wider = Append(middle.reader.blocks, answered)
  BY <1>3, <1>6, BlockIsWhole
<1> HIDE DEF final
<1> HIDE DEF asked, answered
<1>8. /\ Len(wider) = base + 2 * n + 2
      /\ wider[base + 2 * n + 1] = asked /\ wider[base + 2 * n + 2] = answered
      /\ \A i \in 1..(base + 2 * n) : wider[i] = blocks[i]
  <2> DEFINE longer == Append(blocks, asked)
             m == Len(blocks)
  <2>1. /\ longer \in Seq(Piece) /\ m \in Nat /\ Len(longer) = m + 1 /\ longer[m + 1] = asked
        /\ \A i \in 1..m : longer[i] = blocks[i]
    BY <1>4, <1>5, AppendProperties, LenProperties
  <2> HIDE DEF longer
  <2>2. /\ Len(Append(longer, answered)) = m + 2 /\ Append(longer, answered)[m + 2] = answered
        /\ \A i \in 1..(m + 1) : Append(longer, answered)[i] = longer[i]
    BY <1>4, <2>1, AppendProperties
  <2>3. wider = Append(longer, answered)
    BY <1>6, <1>7 DEF longer
  <2> HIDE DEF wider
  <2> QED
    BY <1>1, <1>2, <2>1, <2>2, <2>3
<1>9. asked.block = ServerToolUse(s) /\ answered.block = SearchResult(s)
  BY DEF asked, answered
<1>10. EmitSearch(next, s) = final
  BY DEF EmitSearch, final, middle
<1> HIDE DEF blocks, wider
<1>11. Len(wider) = base + 2 * (n + 1) /\ \A i \in 1..base : wider[i] = tr.reader.blocks[i]
  <2>1. \A i \in 1..base : blocks[i] = tr.reader.blocks[i]
    BY DEF Emitted, blocks
  <2> HIDE DEF base
  <2>2. \A i \in 1..base : i \in 1..(base + 2 * n)
    BY <1>1
  <2>3. Len(wider) = base + 2 * (n + 1)
    BY <1>1, <1>8
  <2> QED
    BY <1>8, <2>1, <2>2, <2>3
<1>12. \A k \in 1..(n + 1) :
         /\ wider[base + 2 * k - 1].block = ServerToolUse(tr.searches[k])
         /\ wider[base + 2 * k].block = SearchResult(tr.searches[k])
  <2> SUFFICES ASSUME NEW k \in 1..(n + 1)
               PROVE  /\ wider[base + 2 * k - 1].block = ServerToolUse(tr.searches[k])
                      /\ wider[base + 2 * k].block = SearchResult(tr.searches[k])
    OBVIOUS
  <2>1. CASE k = n + 1
    <3>1. base + 2 * k - 1 = base + 2 * n + 1 /\ base + 2 * k = base + 2 * n + 2
      <4> HIDE DEF base
      <4> QED
        BY <1>1, <2>1
    <3> QED
      BY <1>8, <1>9, <2>1, <3>1 DEF s
  <2>2. CASE k # n + 1
    <3>1. /\ k \in 1..n /\ base + 2 * k - 1 \in 1..(base + 2 * n)
          /\ base + 2 * k \in 1..(base + 2 * n)
      <4> HIDE DEF base
      <4> QED
        BY <1>1, <2>2
    <3>2. /\ blocks[base + 2 * k - 1].block = ServerToolUse(tr.searches[k])
          /\ blocks[base + 2 * k].block = SearchResult(tr.searches[k])
      BY <3>1 DEF Emitted, blocks
    <3> QED
      BY <1>8, <3>1, <3>2
  <2> QED
    BY <2>1, <2>2
<1>13. /\ final.finished = tr.finished /\ final.saw_tool_call = tr.saw_tool_call
       /\ final.stop_reason = tr.stop_reason
  BY <1>6, <1>7 DEF Emitted, Otherwise
<1>14. Emitted(tr, n + 1, final)
  BY <1>7, <1>11, <1>12, <1>13 DEF Emitted, wider
<1> QED
  BY <1>10, <1>14 DEF s

(* All of them, in the order they ran.                                     *)
LEMMA SearchesAreEmitted ==
  ASSUME NEW tr, Live(tr), tr.started, tr.open = NoBlock
  PROVE  Emitted(tr, Len(tr.searches), EmitSearches(tr)) /\ Len(tr.searches) \in Nat
<1> DEFINE n == Len(tr.searches)
           first == [tr EXCEPT !.searches = << >>]
           chosen == CHOOSE after : Emitting(tr, n, after)
<1>1. tr \in TranslatorType /\ n \in Nat
  BY LenProperties DEF Live, Sound, TranslatorType
<1>2. \E after : Emitting(tr, n, after)
  <2> HIDE DEF n
  <2> QED
    BY <1>1, EmittingExists
<1>3. Emitting(tr, n, chosen)
  BY <1>2, Zenon
<1>4. EmitSearches(tr) = chosen[n]
  BY Zenon DEF EmitSearches, Emitting
<1> HIDE DEF chosen
<1> DEFINE Reached == {k \in Nat : k <= n => Emitted(tr, k, chosen[k])}
<1>5. 0 \in Reached
  <2>1. chosen[0] = first
    BY <1>1, <1>3 DEF Emitting
  <2>2. /\ first \in TranslatorType /\ first.reader = tr.reader /\ first.folded = tr.folded
        /\ first.started = tr.started /\ first.open = tr.open
        /\ first.next_index = tr.next_index /\ first.finished = tr.finished
        /\ first.saw_tool_call = tr.saw_tool_call /\ first.stop_reason = tr.stop_reason
    BY <1>1, EmptySeq DEF TranslatorType
  <2> HIDE DEF first
  <2>3. Live(first)
    BY <2>2 DEF Live, Sound
  <2>4. Len(tr.reader.blocks) \in Nat
    BY <1>1, LenProperties DEF TranslatorType, ReaderType
  <2>5. Emitted(tr, 0, first)
    BY <2>2, <2>3, <2>4 DEF Emitted
  <2> QED
    BY <2>1, <2>5
<1>6. ASSUME NEW k \in Nat, k \in Reached PROVE k + 1 \in Reached
  <2>1. SUFFICES ASSUME k + 1 <= n PROVE Emitted(tr, k + 1, chosen[k + 1])
    OBVIOUS
  <2>2. chosen[k + 1] = EmitSearch(chosen[k], tr.searches[k + 1])
    BY <1>1, <1>3, <2>1 DEF Emitting
  <2>3. Emitted(tr, k, chosen[k]) /\ k < n
    BY <1>1, <1>6, <2>1
  <2> QED
    BY <1>1, <2>2, <2>3, SearchIsEmitted
<1>7. n \in Reached
  <2> HIDE DEF Reached, n
  <2> QED
    BY <1>1, <1>5, <1>6, NumberInduction
<1> QED
  BY <1>1, <1>4, <1>7

(* The message stops, for a reason, with the blocks it has.                *)
LEMMA MessageStops ==
  ASSUME NEW tr, Live(tr), tr.started, tr.open = NoBlock,
         NEW why \in {"end_turn", "tool_use", "max_tokens"}
  PROVE  LET next == StopMessage(tr, why)
         IN  /\ Sound(next) /\ next.reader.phase = "stopped" /\ next.reader.stop_reason = why
             /\ next.reader.blocks = tr.reader.blocks /\ next.finished = tr.finished
             /\ next.started
<1> DEFINE told == [tr EXCEPT !.stop_reason = why]
           first == MessageDelta(why)
           second == MessageStop
           ended == Push(told, first)
           next == Push(ended, second)
<1>1. tr \in TranslatorType /\ tr.reader \in ReaderType /\ tr.folded \in FoldedType
  BY DEF Live, Sound, TranslatorType
<1>2. /\ tr.reader.phase = "between" /\ Alike(tr.reader, tr.folded)
      /\ tr.next_index = tr.reader.index
  BY DEF Live, Sound
<1>3. /\ told \in TranslatorType /\ told.reader = tr.reader /\ told.folded = tr.folded
      /\ told.started /\ told.finished = tr.finished /\ told.next_index = tr.next_index
  BY <1>1 DEF TranslatorType
<1> HIDE DEF told, first, second
<1>4. /\ next.reader = Reads(Reads(tr.reader, first), second)
      /\ next.folded = Fold(Fold(tr.folded, first, WholeArguments), second, WholeArguments)
      /\ next = [told EXCEPT !.reader = Reads(Reads(@, first), second),
                             !.folded = Fold(Fold(@, first, WholeArguments), second,
                                             WholeArguments)]
  BY <1>3 DEF Push, TranslatorType
<1>5. LET rd == Reads(Reads(tr.reader, first), second)
          acc == Fold(Fold(tr.folded, first, WholeArguments), second, WholeArguments)
      IN  /\ rd = [tr.reader EXCEPT !.phase = "stopped", !.stop_reason = why]
          /\ rd \in ReaderType /\ acc \in FoldedType /\ Alike(rd, acc)
  BY <1>1, <1>2, EndIsRead DEF Reasons, first, second
<1>6. StopMessage(tr, why) = next
  BY DEF StopMessage, told, first, second
<1>7. /\ next \in TranslatorType /\ next.started /\ next.finished = tr.finished
      /\ next.next_index = tr.next_index /\ Alike(next.reader, next.folded)
  BY <1>3, <1>4, <1>5 DEF TranslatorType
<1>8. /\ next.reader.phase = "stopped" /\ next.reader.stop_reason = why
      /\ next.reader.blocks = tr.reader.blocks /\ next.reader.index = tr.reader.index
  BY <1>1, <1>4, <1>5 DEF ReaderType
<1> HIDE DEF next
<1>9. Sound(next)
  BY <1>2, <1>7, <1>8 DEF Sound
<1> QED
  BY <1>6, <1>7, <1>8, <1>9

(* The message fails, with the blocks it has.                              *)
LEMMA MessageFails ==
  ASSUME NEW tr, Sound(tr), tr.reader.phase \notin {"stopped", "failed"}
  PROVE  LET next == Push(tr, ErrorFrame)
         IN  /\ Sound(next) /\ next.reader.phase = "failed" /\ Otherwise(tr, next)
             /\ next.reader.blocks = tr.reader.blocks /\ next.started = tr.started
             /\ next.open = tr.open
<1> DEFINE next == Push(tr, ErrorFrame)
<1>1. tr \in TranslatorType /\ tr.reader \in ReaderType /\ tr.folded \in FoldedType
  BY DEF Sound, TranslatorType
<1>2. LET rd == Reads(tr.reader, ErrorFrame)
          acc == Fold(tr.folded, ErrorFrame, WholeArguments)
      IN  /\ rd = [tr.reader EXCEPT !.phase = "failed"]
          /\ rd \in ReaderType /\ acc \in FoldedType /\ Alike(rd, acc)
  BY <1>1, ErrorIsRead DEF Sound
<1>3. /\ next \in TranslatorType /\ Otherwise(tr, next) /\ Alike(next.reader, next.folded)
      /\ next.reader = [tr.reader EXCEPT !.phase = "failed"]
      /\ next.started = tr.started /\ next.open = tr.open /\ next.next_index = tr.next_index
  BY <1>1, <1>2, PushIsRead
<1>4. /\ next.reader.phase = "failed" /\ next.reader.blocks = tr.reader.blocks
      /\ next.reader.index = tr.reader.index
  BY <1>1, <1>3 DEF ReaderType
<1> HIDE DEF next
<1>5. Sound(next)
  BY <1>3, <1>4 DEF Sound
<1> QED
  BY <1>3, <1>4, <1>5 DEF next

-----------------------------------------------------------------------------
(* What the backend's events make of it.                                   *)

(* The blocks of an item go on, or new ones come; every other block stays. *)
GoesOn(pieces, item, further) ==
  /\ Len(pieces) <= Len(further)
  /\ \A i \in 1..Len(pieces) : /\ further[i].block = pieces[i].block
                               /\ pieces[i].block # item => further[i] = pieces[i]
  /\ \A i \in (Len(pieces) + 1)..Len(further) : further[i].block = item

(* It does so when a block of it is appended,                              *)
LEMMA OneMoreGoesOn ==
  ASSUME NEW pieces \in Seq(Piece), NEW now \in Piece
  PROVE  LET further == Append(pieces, now)
         IN  /\ GoesOn(pieces, now.block, further)
             /\ Len(further) = Len(pieces) + 1 /\ further[Len(further)] = now
             /\ \A i \in 1..Len(pieces) : further[i] = pieces[i]
<1> DEFINE further == Append(pieces, now)
           n == Len(pieces)
<1>1. /\ n \in Nat /\ Len(further) = n + 1 /\ further[n + 1] = now
      /\ \A i \in 1..n : further[i] = pieces[i]
  BY AppendProperties, LenProperties
<1> HIDE DEF further
<1>2. /\ n <= n + 1 /\ \A i \in (n + 1)..(n + 1) : i = n + 1
  BY <1>1
<1>3. GoesOn(pieces, now.block, further)
  BY <1>1, <1>2 DEF GoesOn
<1> QED
  BY <1>1, <1>3 DEF further

(* and when the last one, which is of the item, grows.                     *)
LEMMA GrowthGoesOn ==
  ASSUME NEW pieces \in Seq(Piece), pieces # << >>, NEW delta, NEW further,
         LastGrown(pieces, delta, further)
  PROVE  GoesOn(pieces, pieces[Len(pieces)].block, further)
<1> DEFINE n == Len(pieces)
<1>1. n \in Nat /\ n # 0
  BY LenProperties, EmptySeq
<1>2. \A i \in 1..n : i \in 1..n - 1 \/ i = n
  BY <1>1
<1>3. (n + 1)..n = {} /\ n <= n
  BY <1>1
<1> QED
  BY <1>2, <1>3 DEF GoesOn, LastGrown

(* Text and thinking go only into blocks of their own, the arguments of a  *)
(* call into tool use, and the whole of them is what all of them spell.    *)
LEMMA DeltasBelong ==
  /\ Words \in Seq(Nat) /\ Belongs(Text, Words) /\ Belongs(Thinking, Words)
  /\ WholeArguments \in Seq(Nat)
  /\ \A c : Belongs(ToolUse(c), WholeArguments)
  /\ \A c : \A fragment \in Nat \ {0} :
       <<fragment>> \in Seq(Nat) /\ Belongs(ToolUse(c), <<fragment>>)
<1>1. Words \in Seq(Nat) /\ ToSet(Words) \subseteq {0}
  BY DEF Words, ToSet
<1>2. Belongs(Text, Words) /\ Belongs(Thinking, Words)
  BY <1>1, BlocksAreApart DEF Belongs, TakesArguments
<1>3. Fragments \in Nat
  BY FragmentsAssumption
<1>4. /\ WholeArguments \in Seq(Nat) /\ DOMAIN WholeArguments = 1..Fragments
      /\ \A i \in 1..Fragments : WholeArguments[i] = i
  BY <1>3, IsASeq DEF WholeArguments
<1>5. 0 \notin ToSet(WholeArguments)
  BY <1>3, <1>4 DEF ToSet
<1>6. \A fragment \in Nat \ {0} : <<fragment>> \in Seq(Nat) /\ 0 \notin ToSet(<<fragment>>)
  BY DEF ToSet
<1>7. ASSUME NEW c, NEW delta, 0 \notin ToSet(delta) PROVE Belongs(ToolUse(c), delta)
  BY <1>7, BlocksAreApart DEF Belongs, TakesArguments
<1> QED
  BY <1>1, <1>2, <1>4, <1>5, <1>6, <1>7

(* Words go into the open block when it is of their kind, and otherwise    *)
(* into one of their own.                                                  *)
WordsGo(tr, kind, further) ==
  \/ tr.open = kind /\ LastGrown(tr.reader.blocks, Words, further)
  \/ /\ tr.open # kind
     /\ LastGrown(Append(tr.reader.blocks, [block |-> kind, content |-> << >>]), Words, further)

(* A delta of text or thinking.                                            *)
LEMMA WordsAreStreamed ==
  ASSUME NEW tr, Live(tr), NEW kind \in {Text, Thinking}
  PROVE  LET next == PushDelta(OpenBlock(tr, kind), Words)
         IN  /\ Live(next) /\ next.started /\ next.open = kind /\ Otherwise(tr, next)
             /\ GoesOn(tr.reader.blocks, kind, next.reader.blocks)
             /\ WordsGo(tr, kind, next.reader.blocks)
<1> DEFINE begun == StartMessage(tr)
           shut == CloseBlock(begun)
           open == OpenBlock(tr, kind)
           next == PushDelta(open, Words)
           pieces == tr.reader.blocks
           now == [block |-> kind, content |-> << >>]
<1>1. kind \in OpenType /\ kind # NoBlock /\ kind \in BlockType
  BY BlocksAreApart DEF OpenType, BlockType
<1>2. pieces \in Seq(Piece) /\ now \in Piece /\ now.block = kind
  BY <1>1, EmptySeq DEF Live, Sound, TranslatorType, ReaderType, Piece
<1>3. Belongs(kind, Words) /\ Words \in Seq(Nat)
  BY DeltasBelong
<1>4. CASE tr.open = kind
  <2>1. open = tr
    BY <1>4 DEF OpenBlock
  <2>2. /\ Live(next) /\ next.started /\ next.open = kind /\ Otherwise(tr, next)
        /\ LastGrown(pieces, Words, next.reader.blocks)
    BY <1>1, <1>3, <1>4, <2>1, DeltaIsPushed
  <2>3. pieces # << >> /\ pieces[Len(pieces)].block = kind
    BY <1>1, <1>4 DEF Live
  <2>4. WordsGo(tr, kind, next.reader.blocks)
    BY <1>4, <2>2 DEF WordsGo
  <2> QED
    BY <1>2, <2>2, <2>3, <2>4, GrowthGoesOn
<1>5. CASE tr.open # kind
  <2>1. /\ Live(begun) /\ begun.started /\ Otherwise(tr, begun)
        /\ begun.reader.blocks = pieces
    BY MessageIsStarted
  <2>2. /\ Live(shut) /\ shut.started /\ shut.open = NoBlock /\ Otherwise(begun, shut)
        /\ shut.reader.blocks = pieces
    <3> HIDE DEF begun
    <3> QED
      BY <2>1, BlockIsClosed
  <2>3. open = Opened(shut, kind)
    BY <1>5 DEF OpenBlock
  <2> HIDE DEF shut, open
  <2>4. /\ Live(open) /\ open.started /\ open.open = kind /\ Otherwise(shut, open)
        /\ open.reader.blocks = Append(pieces, now)
    <3>1. LET longer == Opened(shut, kind)
          IN  /\ Live(longer) /\ longer.started /\ longer.open = kind
              /\ Otherwise(shut, longer)
              /\ longer.reader.blocks = Append(shut.reader.blocks, now)
      BY <1>1, <2>2, BlockIsOpened
    <3> HIDE DEF now
    <3> QED
      BY <2>2, <2>3, <3>1
  <2>5. /\ Live(next) /\ next.started /\ next.open = kind /\ Otherwise(open, next)
        /\ LastGrown(open.reader.blocks, Words, next.reader.blocks)
    BY <1>1, <1>3, <2>4, DeltaIsPushed
  <2> HIDE DEF next, begun
  <2>6. Otherwise(tr, next)
    BY <2>1, <2>2, <2>4, <2>5 DEF Otherwise
  <2>7. GoesOn(pieces, kind, next.reader.blocks)
    <3> DEFINE m == Len(pieces)
               longer == Append(pieces, now)
               further == next.reader.blocks
    <3>1. /\ Len(longer) = m + 1 /\ longer[m + 1] = now
          /\ \A i \in 1..m : longer[i] = pieces[i]
      <4> HIDE DEF now
      <4> QED
        BY <1>2, OneMoreGoesOn
    <3>2. m \in Nat
      BY <1>2, LenProperties
    <3>3. /\ Len(further) = m + 1 /\ further[m + 1].block = kind
          /\ \A i \in 1..m : further[i] = pieces[i]
      <4>1. LastGrown(longer, Words, further)
        BY <2>4, <2>5
      <4> HIDE DEF longer, now
      <4>2. \A i \in 1..m : i \in 1..Len(longer) - 1
        BY <3>1, <3>2
      <4> QED
        BY <1>2, <3>1, <4>1, <4>2 DEF LastGrown
    <3> HIDE DEF further
    <3>4. m <= m + 1 /\ \A i \in (m + 1)..(m + 1) : i = m + 1
      BY <3>2
    <3>5. GoesOn(pieces, kind, further)
      BY <3>3, <3>4 DEF GoesOn
    <3> QED
      BY <3>5 DEF further
  <2>8. WordsGo(tr, kind, next.reader.blocks)
    BY <1>5, <2>4, <2>5 DEF WordsGo
  <2> QED
    BY <2>5, <2>6, <2>7, <2>8 DEF next, open
<1> QED
  BY <1>4, <1>5

(* A call's block is opened after the others; no argument is in it yet.    *)
LEMMA CallIsOpened ==
  ASSUME NEW tr, Live(tr), tr.started, NEW c \in Calls
  PROVE  LET next == OpenToolUse(tr, c)
         IN  /\ Live(next) /\ next.started /\ next.open = ToolUse(c)
             /\ next.finished = tr.finished /\ next.stop_reason = tr.stop_reason
             /\ next.searches = tr.searches
             /\ ~next.streamed_arguments /\ next.saw_tool_call
             /\ next.reader.blocks
                  = Append(tr.reader.blocks, [block |-> ToolUse(c), content |-> << >>])
<1> DEFINE shut == CloseBlock(tr)
           open == Opened(shut, ToolUse(c))
           now == [block |-> ToolUse(c), content |-> << >>]
           next == [open EXCEPT !.streamed_arguments = FALSE, !.saw_tool_call = TRUE]
<1>1. ToolUse(c) \in OpenType /\ ToolUse(c) # NoBlock
  BY BlocksAreApart DEF OpenType
<1>2. /\ Live(shut) /\ shut.started /\ shut.open = NoBlock /\ Otherwise(tr, shut)
      /\ shut.reader.blocks = tr.reader.blocks
  BY BlockIsClosed
<1>3. next = OpenToolUse(tr, c)
  BY DEF OpenToolUse
<1> HIDE DEF shut
<1>4. /\ Live(open) /\ open.started /\ open.open = ToolUse(c) /\ Otherwise(shut, open)
      /\ open.reader.blocks = Append(tr.reader.blocks, now)
  <2>1. open.reader.blocks = Append(shut.reader.blocks, now)
    BY <1>1, <1>2, BlockIsOpened
  <2> HIDE DEF now
  <2> QED
    BY <1>1, <1>2, <2>1, BlockIsOpened
<1> HIDE DEF open, now
<1>5. open \in TranslatorType
  BY <1>4 DEF Live, Sound
<1>6. /\ next \in TranslatorType /\ next.reader = open.reader /\ next.folded = open.folded
      /\ next.started = open.started /\ next.open = open.open
      /\ next.next_index = open.next_index /\ next.finished = open.finished
      /\ next.stop_reason = open.stop_reason /\ next.searches = open.searches
      /\ ~next.streamed_arguments /\ next.saw_tool_call
  BY <1>5 DEF TranslatorType
<1> HIDE DEF next
<1>7. Live(next)
  BY <1>4, <1>6 DEF Live, Sound
<1> QED
  BY <1>2, <1>3, <1>4, <1>6, <1>7 DEF Otherwise, now

(* A fragment of the arguments of the call whose block is open goes in.    *)
LEMMA FragmentIsStreamed ==
  ASSUME NEW tr, Live(tr), NEW c \in Calls, tr.open = ToolUse(c), NEW fragment \in Nat \ {0}
  PROVE  LET next == PushDelta([tr EXCEPT !.streamed_arguments = TRUE], <<fragment>>)
         IN  /\ Live(next) /\ next.started /\ next.open = ToolUse(c)
             /\ next.finished = tr.finished /\ next.stop_reason = tr.stop_reason
             /\ next.searches = tr.searches
             /\ next.streamed_arguments /\ next.saw_tool_call = tr.saw_tool_call
             /\ LastGrown(tr.reader.blocks, <<fragment>>, next.reader.blocks)
<1> DEFINE marked == [tr EXCEPT !.streamed_arguments = TRUE]
           next == PushDelta(marked, <<fragment>>)
<1>1. tr \in TranslatorType
  BY DEF Live, Sound
<1>2. /\ marked \in TranslatorType /\ marked.reader = tr.reader /\ marked.folded = tr.folded
      /\ marked.started = tr.started /\ marked.open = tr.open
      /\ marked.next_index = tr.next_index /\ marked.finished = tr.finished
      /\ marked.stop_reason = tr.stop_reason /\ marked.searches = tr.searches
      /\ marked.streamed_arguments /\ marked.saw_tool_call = tr.saw_tool_call
  BY <1>1 DEF TranslatorType
<1> HIDE DEF marked
<1>3. Live(marked) /\ marked.open = ToolUse(c) /\ marked.open # NoBlock
  BY <1>2, BlocksAreApart DEF Live, Sound
<1>4. <<fragment>> \in Seq(Nat) /\ Belongs(marked.open, <<fragment>>)
  BY <1>3, DeltasBelong
<1>5. /\ Live(next) /\ next.started /\ next.open = ToolUse(c) /\ Otherwise(marked, next)
      /\ LastGrown(tr.reader.blocks, <<fragment>>, next.reader.blocks)
  BY <1>2, <1>3, <1>4, DeltaIsPushed
<1> HIDE DEF next
<1>6. /\ next.finished = tr.finished /\ next.stop_reason = tr.stop_reason
      /\ next.searches = tr.searches /\ next.streamed_arguments
      /\ next.saw_tool_call = tr.saw_tool_call
  BY <1>2, <1>5 DEF Otherwise
<1> QED
  BY <1>5, <1>6 DEF next, marked

(* A call done: the last block is its block.  Its arguments were streamed  *)
(* into it, or go in now, into the block that is open or one of their own. *)
DoneAs(tr, c, next) ==
  LET pieces  == tr.reader.blocks
      further == next.reader.blocks
      n       == Len(pieces)
  IN  \/ /\ tr.open = ToolUse(c) /\ tr.streamed_arguments
         /\ next.saw_tool_call = tr.saw_tool_call /\ further = pieces
      \/ /\ tr.open = ToolUse(c) /\ ~tr.streamed_arguments
         /\ next.saw_tool_call = tr.saw_tool_call /\ LastGrown(pieces, WholeArguments, further)
      \/ /\ tr.open # ToolUse(c)
         /\ next.saw_tool_call
         /\ Len(further) = n + 1 /\ \A i \in 1..n : further[i] = pieces[i]
         /\ further[n + 1].block = ToolUse(c) /\ further[n + 1].content = WholeArguments

(* A call done goes one of these ways.                                     *)
LEMMA CallIsDone ==
  ASSUME NEW tr, Live(tr), NEW c \in Calls
  PROVE  LET next == CallDone(tr, c)
         IN  /\ Live(next) /\ next.started /\ next.open = NoBlock
             /\ next.finished = tr.finished /\ next.stop_reason = tr.stop_reason
             /\ next.searches = tr.searches
             /\ DoneAs(tr, c, next)
<1> DEFINE begun == StartMessage(tr)
           open == IF begun.open = ToolUse(c) THEN begun ELSE OpenToolUse(begun, c)
           full == IF open.streamed_arguments THEN open ELSE PushDelta(open, WholeArguments)
           next == CloseBlock(full)
           pieces == tr.reader.blocks
           n == Len(pieces)
           now == [block |-> ToolUse(c), content |-> << >>]
<1>1. /\ Live(begun) /\ begun.started /\ begun.open = tr.open /\ Otherwise(tr, begun)
      /\ begun.reader.blocks = pieces
  BY MessageIsStarted
<1>2. next = CallDone(tr, c)
  BY DEF CallDone
<1>3. /\ WholeArguments \in Seq(Nat) /\ Belongs(ToolUse(c), WholeArguments)
      /\ ToolUse(c) # NoBlock
  BY DeltasBelong, BlocksAreApart
<1>4. /\ pieces \in Seq(Piece) /\ n \in Nat
  BY LenProperties DEF Live, Sound, TranslatorType, ReaderType
<1> HIDE DEF begun
<1>5. /\ Live(open) /\ open.started /\ open.open = ToolUse(c)
      /\ open.finished = tr.finished /\ open.stop_reason = tr.stop_reason
      /\ open.searches = tr.searches
      /\ tr.open = ToolUse(c) => /\ open.streamed_arguments = tr.streamed_arguments
                                 /\ open.saw_tool_call = tr.saw_tool_call
                                 /\ open.reader.blocks = pieces
      /\ tr.open # ToolUse(c) => /\ ~open.streamed_arguments /\ open.saw_tool_call
                                 /\ open.reader.blocks = Append(pieces, now)
  <2>1. CASE tr.open = ToolUse(c)
    <3>1. open = begun
      BY <1>1, <2>1
    <3> HIDE DEF open, now
    <3> QED
      BY <1>1, <2>1, <3>1 DEF Otherwise
  <2>2. CASE tr.open # ToolUse(c)
    <3>1. open = OpenToolUse(begun, c)
      BY <1>1, <2>2
    <3> HIDE DEF open
    <3>2. /\ Live(open) /\ open.started /\ open.open = ToolUse(c)
          /\ open.finished = begun.finished /\ open.stop_reason = begun.stop_reason
          /\ open.searches = begun.searches
          /\ ~open.streamed_arguments /\ open.saw_tool_call
          /\ open.reader.blocks = Append(begun.reader.blocks, now)
      BY <1>1, <3>1, CallIsOpened
    <3> HIDE DEF now
    <3> QED
      BY <1>1, <2>2, <3>2 DEF Otherwise
  <2> QED
    BY <2>1, <2>2
<1> HIDE DEF open
<1>6. /\ Live(full) /\ full.started
      /\ full.finished = tr.finished /\ full.stop_reason = tr.stop_reason
      /\ full.searches = tr.searches
      /\ full.saw_tool_call = open.saw_tool_call
      /\ open.streamed_arguments => full.reader.blocks = open.reader.blocks
      /\ ~open.streamed_arguments
           => LastGrown(open.reader.blocks, WholeArguments, full.reader.blocks)
  <2>1. CASE open.streamed_arguments
    BY <1>5, <2>1
  <2>2. CASE ~open.streamed_arguments
    <3>1. full = PushDelta(open, WholeArguments)
      BY <2>2
    <3> HIDE DEF full
    <3>2. /\ Live(full) /\ full.started /\ Otherwise(open, full)
          /\ LastGrown(open.reader.blocks, WholeArguments, full.reader.blocks)
      BY <1>3, <1>5, <3>1, DeltaIsPushed
    <3> QED
      BY <1>5, <2>2, <3>2 DEF Otherwise
  <2> QED
    BY <2>1, <2>2
<1> HIDE DEF full
<1>7. /\ Live(next) /\ next.started /\ next.open = NoBlock /\ Otherwise(full, next)
      /\ next.reader.blocks = full.reader.blocks
  BY <1>6, BlockIsClosed
<1> HIDE DEF next, now
<1>8. DoneAs(tr, c, next)
  <2>1. CASE tr.open = ToolUse(c) /\ tr.streamed_arguments
    BY <1>5, <1>6, <1>7, <2>1 DEF DoneAs, Otherwise
  <2>2. CASE tr.open = ToolUse(c) /\ ~tr.streamed_arguments
    BY <1>5, <1>6, <1>7, <2>2 DEF DoneAs, Otherwise
  <2>3. CASE tr.open # ToolUse(c)
    <3> DEFINE longer == Append(pieces, now)
               further == next.reader.blocks
    <3>1. now \in Piece /\ now.block = ToolUse(c) /\ now.content = << >>
      BY EmptySeq DEF now, Piece, BlockType
    <3>2. /\ Len(longer) = n + 1 /\ longer[n + 1] = now
          /\ \A i \in 1..n : longer[i] = pieces[i]
      BY <1>4, <3>1, OneMoreGoesOn
    <3>3. LastGrown(longer, WholeArguments, further)
      BY <1>5, <1>6, <1>7, <2>3
    <3> HIDE DEF longer, further
    <3>4. \A i \in 1..n : i \in 1..Len(longer) - 1
      BY <1>4, <3>2
    <3>5. /\ Len(further) = n + 1 /\ \A i \in 1..n : further[i] = pieces[i]
          /\ further[n + 1].block = ToolUse(c)
          /\ further[n + 1].content = << >> \o WholeArguments
      BY <3>1, <3>2, <3>3, <3>4 DEF LastGrown
    <3>6. << >> \o WholeArguments = WholeArguments
      BY <1>3, ConcatEmptySeq
    <3> QED
      BY <1>5, <1>6, <1>7, <2>3, <3>5, <3>6 DEF DoneAs, Otherwise, further
  <2> QED
    BY <2>1, <2>2, <2>3
<1> QED
  BY <1>2, <1>6, <1>7, <1>8 DEF Otherwise

(* The message closes: its blocks, then every search that ran, in order.   *)
LEMMA MessageIsClosed ==
  ASSUME NEW tr, Live(tr), tr.started, ~tr.finished
  PROVE  LET next == CloseMessage(tr)
             pieces == tr.reader.blocks
             blocks == next.reader.blocks
             base == Len(pieces)
             n == Len(tr.searches)
         IN  /\ Sound(next) /\ next.finished /\ next.reader.phase = "stopped"
             /\ next.reader.stop_reason = StopReason(tr)
             /\ Len(blocks) = base + 2 * n /\ \A i \in 1..base : blocks[i] = pieces[i]
             /\ \A k \in 1..n : /\ blocks[base + 2 * k - 1].block = ServerToolUse(tr.searches[k])
                                /\ blocks[base + 2 * k].block = SearchResult(tr.searches[k])
<1> DEFINE ending == [tr EXCEPT !.finished = TRUE]
           shut == CloseBlock(ending)
           told == EmitSearches(shut)
           next == StopMessage(told, StopReason(tr))
           pieces == tr.reader.blocks
           base == Len(pieces)
           n == Len(tr.searches)
<1>1. tr \in TranslatorType
  BY DEF Live, Sound
<1>2. /\ ending \in TranslatorType /\ ending.reader = tr.reader /\ ending.folded = tr.folded
      /\ ending.started = tr.started /\ ending.open = tr.open
      /\ ending.next_index = tr.next_index /\ ending.finished
      /\ ending.searches = tr.searches
  BY <1>1 DEF TranslatorType
<1>3. next = CloseMessage(tr)
  BY DEF CloseMessage
<1> HIDE DEF ending
<1>4. Live(ending)
  BY <1>2 DEF Live, Sound
<1>5. /\ Live(shut) /\ shut.started /\ shut.open = NoBlock /\ Otherwise(ending, shut)
      /\ shut.reader.blocks = pieces
  BY <1>2, <1>4, BlockIsClosed
<1>6. shut.searches = tr.searches /\ shut.finished
  BY <1>2, <1>5 DEF Otherwise
<1> HIDE DEF shut
<1>7. Emitted(shut, n, told)
  BY <1>5, <1>6, SearchesAreEmitted
<1> HIDE DEF told, n
<1>8. Live(told) /\ told.started /\ told.open = NoBlock /\ told.finished
  BY <1>6, <1>7 DEF Emitted
<1>9. StopReason(tr) \in {"end_turn", "tool_use", "max_tokens"}
  BY <1>1 DEF StopReason, TranslatorType
<1>10. /\ Sound(next) /\ next.reader.phase = "stopped"
       /\ next.reader.stop_reason = StopReason(tr)
       /\ next.reader.blocks = told.reader.blocks /\ next.finished = told.finished
  BY <1>8, <1>9, MessageStops
<1>11. /\ Len(told.reader.blocks) = base + 2 * n
       /\ \A i \in 1..base : told.reader.blocks[i] = pieces[i]
       /\ \A k \in 1..n :
            /\ told.reader.blocks[base + 2 * k - 1].block = ServerToolUse(tr.searches[k])
            /\ told.reader.blocks[base + 2 * k].block = SearchResult(tr.searches[k])
  BY <1>5, <1>6, <1>7 DEF Emitted
<1> HIDE DEF next
<1> QED
  BY <1>3, <1>8, <1>10, <1>11 DEF n

-----------------------------------------------------------------------------
(* The inductive invariant.                                                *)

(* The message can still go on.                                            *)
Running == stream = "open" \/ (stream = "over" /\ ~t.finished)

StateType ==
  /\ call \in [Calls -> {"absent", "named", "unnamed", "done"}]
  /\ streamed \in [Calls -> 0..Fragments]
  /\ ran \subseteq Searches /\ IsFiniteSet(ran)
  /\ stream \in {"open", "over", "closed"} /\ mixed \in BOOLEAN

(* What the translator holds is what was read, until the message is over.  *)
PhaseInv ==
  /\ Sound(t)
  /\ Running => Live(t) /\ ~t.finished /\ t.stop_reason = "end_turn"
  /\ stream = "over" /\ ~t.finished => outcome # "incomplete"
  /\ ~Running => t.reader.phase \in {"none", "stopped", "failed"}

(* This block is a call's.                                                 *)
IsCall(block) == block.is = "tool_use"

IsSearch(block) == block.is \in {"server_tool_use", "web_search_tool_result"}

(* A search waits where it ran until the message closes; a call is seen.   *)
SearchInv ==
  /\ Running => /\ ToSet(t.searches) = ran /\ Cardinality(ran) = Len(t.searches)
                /\ \A i \in 1..Len(t.reader.blocks) : ~IsSearch(t.reader.blocks[i].block)
                /\ t.saw_tool_call
                     <=> \E i \in 1..Len(t.reader.blocks) : IsCall(t.reader.blocks[i].block)
  /\ ClosesProperly

PositionsOf(pieces, c) == {i \in 1..Len(pieces) : pieces[i].block = ToolUse(c)}

(* The first n fragments, as they spell.                                   *)
Spelt(n) == [i \in 1..n |-> i]

(* The last block of a call is whole, and of a backend that does not mix   *)
(* the only one.                                                           *)
WholeIn(pieces, c, mix) ==
  \E i \in PositionsOf(pieces, c) :
    /\ pieces[i].content = WholeArguments
    /\ \A j \in PositionsOf(pieces, c) : j = i \/ (mix /\ j < i)

(* While the block of a call is open it holds what of the call was         *)
(* streamed; only an event of another item closes it before it is done.    *)
CallFits(c) ==
  /\ call[c] = "absent" => streamed[c] = 0
  /\ call[c] \in {"absent", "unnamed"} => PositionsOf(t.reader.blocks, c) = {}
  /\ stream = "open" /\ t.open = ToolUse(c) =>
       LET n == Len(t.reader.blocks)
       IN  /\ call[c] = "named" /\ t.reader.blocks[n].content = Spelt(streamed[c])
           /\ t.streamed_arguments <=> streamed[c] > 0
           /\ ~mixed => \A j \in PositionsOf(t.reader.blocks, c) : j = n
  /\ stream = "open" /\ ~mixed /\ call[c] = "named" => t.open = ToolUse(c)
  /\ call[c] = "done" => WholeIn(t.reader.blocks, c, mixed)

CallInv == \A c \in Calls : CallFits(c)

TurnInv == StateType /\ PhaseInv /\ SearchInv /\ CallInv

(* It has all of the properties that are checked of a turn.                *)
LEMMA TurnInvImplies ==
  ASSUME TurnInv
  PROVE  TypeOK /\ ClientCanRead /\ CallsAreWhole /\ ClosesProperly /\ BodyIsWhatAStreamShows
<1>1. t \in TranslatorType /\ t.reader \in ReaderType /\ t.folded \in FoldedType
  BY DEF TurnInv, PhaseInv, Sound, TranslatorType
<1>2. TypeOK
  <2>1. ~t.finished /\ stream # "closed" => (t.reader.phase = "inside") = (t.open # NoBlock)
    BY DEF TurnInv, StateType, PhaseInv, Running, Live
  <2> QED
    BY <1>1, <2>1 DEF TurnInv, StateType, PhaseInv, Sound, TypeOK, TranslatorType, OpenType, reader
<1>3. ClientCanRead
  BY <1>1 DEF TurnInv, PhaseInv, Running, ReaderType, ClientCanRead, reader
<1>4. CallsAreWhole
  BY DEF TurnInv, CallInv, CallFits, WholeIn, PositionsOf, CallsAreWhole, BlocksOf, reader
<1>5. ClosesProperly
  BY DEF TurnInv, SearchInv
<1>6. BodyIsWhatAStreamShows
  <2>1. SUFFICES ASSUME stream = "closed" PROVE BodyIsWhatAStreamShows
    BY DEF BodyIsWhatAStreamShows
  <2> DEFINE last == Close(t.folded, WholeArguments)
             read == \A b \in ToSet(t.reader.blocks) : Parses(b, WholeArguments)
  <2>2. t.reader.phase \in {"none", "stopped", "failed"} /\ Alike(t.reader, t.folded)
    BY <2>1 DEF TurnInv, PhaseInv, Running, Sound
  <2>3. read <=> AllParse(t.reader.blocks)
    <3>1. DOMAIN t.reader.blocks = 1..Len(t.reader.blocks)
      BY <1>1, LenProperties DEF ReaderType
    <3> QED
      BY <3>1 DEF ToSet, AllParse
  <2>4. t.folded.failed => last.failed
    BY <1>1 DEF Close, FoldedType
  <2>5. t.folded.open = << >> => last = t.folded
    BY DEF Close
  <2> HIDE DEF last, read
  <2>6. (last.begun /\ ~last.failed) <=> (t.reader.phase = "stopped" /\ read)
    BY <2>2, <2>3, <2>4, <2>5 DEF Alike, Unfolded
  <2>7. last.begun /\ ~last.failed => /\ last.content = t.reader.blocks
                                      /\ last.stop_reason = t.reader.stop_reason
    BY <2>2, <2>4, <2>5, <2>6 DEF Alike
  <2>8. /\ Body(t.folded, WholeArguments).ok = (last.begun /\ ~last.failed)
        /\ Body(t.folded, WholeArguments).content = last.content
        /\ Body(t.folded, WholeArguments).stop_reason = last.stop_reason
    BY DEF Body, last
  <2> QED
    BY <2>6, <2>7, <2>8 DEF BodyIsWhatAStreamShows, reader, read
<1> QED
  BY <1>2, <1>3, <1>4, <1>5, <1>6

(* It holds of the translator of a turn that begins.                       *)
LEMMA TurnInvInit == Init => TurnInv
<1> SUFFICES ASSUME Init PROVE TurnInv
  OBVIOUS
<1>1. << >> \in Seq(Searches) /\ << >> \in Seq(Piece) /\ Len(<< >>) = 0
  BY EmptySeq
<1>2. /\ t = New /\ stream = "open" /\ ran = {} /\ mixed = FALSE
      /\ call = [c \in Calls |-> "absent"] /\ streamed = [c \in Calls |-> 0]
  BY DEF Init
<1>3. Fragments \in Nat /\ 0 \in 0..Fragments
  BY FragmentsAssumption
<1>4. StateType
  BY <1>2, <1>3, FS_EmptySet DEF StateType
<1>5. t \in TranslatorType /\ t.reader = Unread /\ t.folded = Unfolded
  <2>1. Unread \in ReaderType /\ Unfolded \in FoldedType
    BY <1>1 DEF Unread, Unfolded, ReaderType, FoldedType, Reasons
  <2> QED
    BY <1>1, <1>2, <2>1 DEF New, TranslatorType, OpenType
<1>6. /\ ~t.finished /\ ~t.started /\ t.open = NoBlock /\ t.stop_reason = "end_turn"
      /\ t.next_index = 0 /\ t.searches = << >> /\ ~t.saw_tool_call
  BY <1>2 DEF New
<1>7. t.reader.phase = "none" /\ t.reader.blocks = << >> /\ t.reader.index = 0
  BY <1>5 DEF Unread
<1>8. Live(t) /\ Sound(t)
  <2>1. Alike(t.reader, t.folded)
    BY <1>5, <1>7 DEF Alike
  <2> QED
    BY <1>5, <1>6, <1>7, <2>1 DEF Live, Sound
<1>9. PhaseInv
  BY <1>2, <1>6, <1>8 DEF PhaseInv, Running
<1>10. SearchInv
  <2>1. ToSet(<< >>) = {} /\ Cardinality({}) = 0
    BY FS_EmptySet DEF ToSet
  <2>2. ClosesProperly
    BY <1>7 DEF ClosesProperly, reader
  <2> QED
    BY <1>1, <1>2, <1>6, <1>7, <2>1, <2>2 DEF SearchInv
<1>11. CallInv
  <2>1. \A c \in Calls : NoBlock # ToolUse(c)
    BY BlocksAreApart
  <2> QED
    BY <1>1, <1>2, <1>6, <1>7, <2>1 DEF CallInv, CallFits, PositionsOf
<1> QED
  BY <1>4, <1>9, <1>10, <1>11 DEF TurnInv

-----------------------------------------------------------------------------
(* Steps while the stream is open.                                         *)

(* What goes on in the blocks of one item leaves those of the others.      *)
LEMMA OthersStay ==
  ASSUME NEW pieces \in Seq(Piece), NEW further \in Seq(Piece), NEW item,
         GoesOn(pieces, item, further)
  PROVE  /\ \A d : item # ToolUse(d) =>
              /\ PositionsOf(further, d) = PositionsOf(pieces, d)
              /\ \A mix : WholeIn(pieces, d, mix) => WholeIn(further, d, mix)
         /\ ~IsSearch(item) /\ (\A i \in 1..Len(pieces) : ~IsSearch(pieces[i].block))
              => \A i \in 1..Len(further) : ~IsSearch(further[i].block)
         /\ ~IsCall(item) => ((\E i \in 1..Len(pieces) : IsCall(pieces[i].block))
                                <=> \E i \in 1..Len(further) : IsCall(further[i].block))
<1> DEFINE n == Len(pieces)
           m == Len(further)
<1>1. n \in Nat /\ m \in Nat /\ n <= m
  BY LenProperties DEF GoesOn
<1>2. /\ \A i \in 1..n : i \in 1..m
      /\ \A i \in 1..m : i \in 1..n \/ i \in (n + 1)..m
  BY <1>1
<1>3. /\ \A i \in 1..n : /\ further[i].block = pieces[i].block
                         /\ pieces[i].block # item => further[i] = pieces[i]
      /\ \A i \in (n + 1)..m : further[i].block = item
  BY DEF GoesOn
<1> HIDE DEF n, m
<1>4. ASSUME NEW d, item # ToolUse(d)
      PROVE  PositionsOf(further, d) = PositionsOf(pieces, d)
             /\ \A i \in PositionsOf(pieces, d) : further[i] = pieces[i]
  BY <1>2, <1>3, <1>4 DEF PositionsOf, n, m
<1>5. ASSUME NEW d, item # ToolUse(d), NEW mix, WholeIn(pieces, d, mix)
      PROVE  WholeIn(further, d, mix)
  BY <1>4, <1>5 DEF WholeIn
<1>6. ~IsSearch(item) /\ (\A i \in 1..n : ~IsSearch(pieces[i].block))
        => \A i \in 1..m : ~IsSearch(further[i].block)
  BY <1>2, <1>3
<1>7. ~IsCall(item) => ((\E i \in 1..n : IsCall(pieces[i].block))
                          <=> \E i \in 1..m : IsCall(further[i].block))
  BY <1>2, <1>3
<1> QED
  BY <1>4, <1>5, <1>6, <1>7 DEF n, m

(* A whole block stays one when the history is of more events.             *)
LEMMA MixedStaysWhole ==
  ASSUME NEW pieces, NEW c, NEW mix \in BOOLEAN, NEW later \in BOOLEAN, mix => later,
         WholeIn(pieces, c, mix)
  PROVE  WholeIn(pieces, c, later)
BY DEF WholeIn

(* A translator that runs on and does not have a search for a block.       *)
LEMMA RunsOn ==
  ASSUME TurnInv, stream = "open", stream' = "open", Live(t'),
         t'.finished = t.finished, t'.stop_reason = t.stop_reason
  PROVE  PhaseInv' /\ ClosesProperly'
<1>1. t'.reader.phase # "stopped"
  BY DEF Live
<1>2. ClosesProperly'
  BY <1>1 DEF ClosesProperly, reader
<1>3. ~t.finished /\ t.stop_reason = "end_turn"
  BY DEF TurnInv, PhaseInv, Running
<1>4. PhaseInv'
  BY <1>3 DEF PhaseInv, Running, Live
<1> QED
  BY <1>2, <1>4

(* What is typed of a turn.                                                *)
LEMMA TurnTyped ==
  ASSUME TurnInv
  PROVE  /\ t \in TranslatorType /\ t.reader.blocks \in Seq(Piece)
         /\ Len(t.reader.blocks) \in Nat
         /\ \A c \in Calls : streamed[c] \in Nat
         /\ stream = "open" => Live(t) /\ ~t.finished /\ t.stop_reason = "end_turn"
<1>1. t \in TranslatorType
  BY DEF TurnInv, PhaseInv, Sound
<1>2. t.reader.blocks \in Seq(Piece)
  BY <1>1 DEF TranslatorType, ReaderType
<1>3. Len(t.reader.blocks) \in Nat
  BY <1>2, LenProperties
<1>4. \A c \in Calls : streamed[c] \in Nat
  BY FragmentsAssumption DEF TurnInv, StateType
<1> QED
  BY <1>1, <1>2, <1>3, <1>4 DEF TurnInv, PhaseInv, Running

(* The next blocks of a turn that runs on are typed as well.               *)
LEMMA NextTyped ==
  ASSUME NEW tr, Live(tr)
  PROVE  tr.reader.blocks \in Seq(Piece) /\ Len(tr.reader.blocks) \in Nat
<1>1. tr.reader.blocks \in Seq(Piece)
  BY DEF Live, Sound, TranslatorType, ReaderType
<1> QED
  BY <1>1, LenProperties

(* Steps that leave the blocks, the one that is open, and the calls.       *)
LEMMA QuietStep ==
  ASSUME TurnInv, stream = "open", UNCHANGED <<call, streamed, mixed, stream>>,
         Live(t'), t'.finished = t.finished, t'.stop_reason = t.stop_reason,
         t'.reader.blocks = t.reader.blocks, t'.open = t.open,
         t'.streamed_arguments = t.streamed_arguments, t'.saw_tool_call = t.saw_tool_call,
         ran' \subseteq Searches, IsFiniteSet(ran'),
         ToSet(t'.searches) = ran', Cardinality(ran') = Len(t'.searches)
  PROVE  TurnInv'
<1>1. PhaseInv' /\ ClosesProperly'
  BY RunsOn
<1>2. StateType'
  BY DEF TurnInv, StateType
<1>3. SearchInv'
  BY <1>1 DEF TurnInv, SearchInv, Running
<1>4. CallInv'
  BY DEF TurnInv, CallInv, CallFits
<1> QED
  BY <1>1, <1>2, <1>3, <1>4 DEF TurnInv

(* response.created begins the message, at most once.                      *)
LEMMA CreatedStep == TurnInv /\ Created => TurnInv'
<1> SUFFICES ASSUME TurnInv, Created PROVE TurnInv'
  OBVIOUS
<1>1. stream = "open" /\ UNCHANGED <<call, streamed, ran, mixed, stream>> /\ t' = StartMessage(t)
  BY DEF Created, upstream
<1>2. Live(t)
  BY <1>1, TurnTyped
<1>3. Live(t') /\ t'.open = t.open /\ Otherwise(t, t') /\ t'.reader.blocks = t.reader.blocks
  BY <1>1, <1>2, MessageIsStarted
<1>4. ran' \subseteq Searches /\ IsFiniteSet(ran')
  BY <1>1 DEF TurnInv, StateType
<1>5. ToSet(t'.searches) = ran' /\ Cardinality(ran') = Len(t'.searches)
  BY <1>1, <1>3 DEF TurnInv, SearchInv, Running, Otherwise
<1> QED
  BY <1>1, <1>3, <1>4, <1>5, QuietStep DEF Otherwise

(* A message or reasoning done sends nothing.                               *)
LEMMA ItemStep == TurnInv /\ (DoneMessage \/ DoneReasoning) => TurnInv'
<1> SUFFICES ASSUME TurnInv, DoneMessage \/ DoneReasoning PROVE TurnInv'
  OBVIOUS
<1>1. stream = "open" /\ UNCHANGED <<call, streamed, ran, mixed, stream, t>>
  BY DEF DoneMessage, DoneReasoning
<1>2. Live(t)
  BY <1>1, TurnTyped
<1>3. ran' \subseteq Searches /\ IsFiniteSet(ran')
  BY <1>1 DEF TurnInv, StateType
<1>4. ToSet(t'.searches) = ran' /\ Cardinality(ran') = Len(t'.searches)
  BY <1>1 DEF TurnInv, SearchInv, Running
<1> QED
  BY <1>1, <1>2, <1>3, <1>4, QuietStep

(* A search done waits.                                                    *)
LEMMA SearchStep == ASSUME NEW s \in Searches PROVE TurnInv /\ DoneSearch(s) => TurnInv'
<1> SUFFICES ASSUME TurnInv, DoneSearch(s) PROVE TurnInv'
  OBVIOUS
<1>1. /\ stream = "open" /\ UNCHANGED <<call, streamed, mixed, stream>>
      /\ s \notin ran /\ ran' = ran \cup {s} /\ t' = [t EXCEPT !.searches = Append(@, s)]
  BY DEF DoneSearch, SearchDone
<1>2. Live(t) /\ t \in TranslatorType
  BY <1>1, TurnTyped
<1>3. t.searches \in Seq(Searches)
  BY <1>2 DEF TranslatorType
<1> DEFINE longer == Append(t.searches, s)
<1>4. /\ longer \in Seq(Searches) /\ Len(longer) = Len(t.searches) + 1
      /\ ToSet(longer) = ToSet(t.searches) \cup {s}
  <2>1. /\ longer \in Seq(Searches) /\ Len(longer) = Len(t.searches) + 1
        /\ longer[Len(t.searches) + 1] = s /\ Len(t.searches) \in Nat
        /\ \A i \in 1..Len(t.searches) : longer[i] = t.searches[i]
    BY <1>3, AppendProperties, LenProperties
  <2>2. DOMAIN longer = 1..(Len(t.searches) + 1) /\ DOMAIN t.searches = 1..Len(t.searches)
    BY <1>3, <2>1, LenProperties
  <2> HIDE DEF longer
  <2>3. 1..(Len(t.searches) + 1) = (1..Len(t.searches)) \cup {Len(t.searches) + 1}
    BY <2>1
  <2> QED
    BY <2>1, <2>2, <2>3 DEF ToSet
<1>5. t' = [t EXCEPT !.searches = longer]
  BY <1>1
<1> HIDE DEF longer
<1>6. /\ t' \in TranslatorType /\ t'.reader = t.reader /\ t'.folded = t.folded
      /\ t'.started = t.started /\ t'.open = t.open /\ t'.next_index = t.next_index
      /\ t'.finished = t.finished /\ t'.stop_reason = t.stop_reason
      /\ t'.streamed_arguments = t.streamed_arguments
      /\ t'.saw_tool_call = t.saw_tool_call /\ t'.searches = longer
  BY <1>2, <1>4, <1>5 DEF TranslatorType
<1>7. Live(t')
  BY <1>2, <1>6 DEF Live, Sound
<1>8. ran \subseteq Searches /\ IsFiniteSet(ran)
      /\ ToSet(t.searches) = ran /\ Cardinality(ran) = Len(t.searches)
  BY <1>1 DEF TurnInv, StateType, SearchInv, Running
<1>9. /\ ran' \subseteq Searches /\ IsFiniteSet(ran') /\ Cardinality(ran') = Cardinality(ran) + 1
  BY <1>1, <1>8, FS_AddElement
<1>10. ToSet(t'.searches) = ran' /\ Cardinality(ran') = Len(t'.searches)
  BY <1>1, <1>4, <1>6, <1>8, <1>9
<1> QED
  BY <1>1, <1>6, <1>7, <1>9, <1>10, QuietStep

(* Text and thinking go into a block of their own.                         *)
LEMMA StreamsStep ==
  ASSUME NEW kind \in {Text, Thinking} PROVE TurnInv /\ Streams(kind) => TurnInv'
<1> SUFFICES ASSUME TurnInv, Streams(kind) PROVE TurnInv'
  OBVIOUS
<1>1. /\ stream = "open" /\ UNCHANGED <<call, streamed, ran, stream>>
      /\ t' = PushDelta(OpenBlock(t, kind), Words)
      /\ mixed' = (mixed \/ Open \ {None} # {})
  BY DEF Streams, Mixes
<1>2. Live(t) /\ t.reader.blocks \in Seq(Piece)
  BY <1>1, TurnTyped
<1>3. /\ Live(t') /\ t'.open = kind /\ Otherwise(t, t')
      /\ GoesOn(t.reader.blocks, kind, t'.reader.blocks)
  BY <1>1, <1>2, WordsAreStreamed
<1>4. t'.reader.blocks \in Seq(Piece)
  BY <1>3, NextTyped
<1>5. /\ \A d \in Calls : kind # ToolUse(d)
      /\ ~IsSearch(kind) /\ ~IsCall(kind)
  BY BlocksAreApart DEF IsSearch, IsCall
<1>6. /\ \A d \in Calls :
           /\ PositionsOf(t'.reader.blocks, d) = PositionsOf(t.reader.blocks, d)
           /\ \A mix : WholeIn(t.reader.blocks, d, mix) => WholeIn(t'.reader.blocks, d, mix)
      /\ (\A i \in 1..Len(t.reader.blocks) : ~IsSearch(t.reader.blocks[i].block))
           => \A i \in 1..Len(t'.reader.blocks) : ~IsSearch(t'.reader.blocks[i].block)
      /\ (\E i \in 1..Len(t.reader.blocks) : IsCall(t.reader.blocks[i].block))
           <=> \E i \in 1..Len(t'.reader.blocks) : IsCall(t'.reader.blocks[i].block)
  <2> DEFINE pieces == t.reader.blocks
             further == t'.reader.blocks
  <2>1. pieces \in Seq(Piece) /\ further \in Seq(Piece) /\ GoesOn(pieces, kind, further)
    BY <1>2, <1>3, <1>4
  <2> HIDE DEF pieces, further
  <2>2. \A d : kind # ToolUse(d) =>
          /\ PositionsOf(further, d) = PositionsOf(pieces, d)
          /\ \A mix : WholeIn(pieces, d, mix) => WholeIn(further, d, mix)
    BY <2>1, OthersStay
  <2>3. /\ ~IsSearch(kind) /\ (\A i \in 1..Len(pieces) : ~IsSearch(pieces[i].block))
             => \A i \in 1..Len(further) : ~IsSearch(further[i].block)
        /\ ~IsCall(kind) => ((\E i \in 1..Len(pieces) : IsCall(pieces[i].block))
                               <=> \E i \in 1..Len(further) : IsCall(further[i].block))
    BY <2>1, OthersStay
  <2> QED
    BY <1>5, <2>2, <2>3 DEF pieces, further
<1>7. PhaseInv' /\ ClosesProperly'
  BY <1>1, <1>3, RunsOn DEF Otherwise
<1>8. mixed \in BOOLEAN /\ mixed' \in BOOLEAN /\ (mixed => mixed')
  BY <1>1 DEF TurnInv, StateType
<1>9. StateType'
  BY <1>1, <1>8 DEF TurnInv, StateType
<1>10. SearchInv'
  BY <1>1, <1>3, <1>6, <1>7 DEF TurnInv, SearchInv, Running, Otherwise
<1>11. CallInv'
  <2> SUFFICES ASSUME NEW c \in Calls
               PROVE  /\ call[c] = "absent" => streamed[c] = 0
                      /\ call[c] \in {"absent", "unnamed"} => PositionsOf(t'.reader.blocks, c) = {}
                      /\ t'.open # ToolUse(c)
                      /\ ~(~mixed' /\ call[c] = "named")
                      /\ call[c] = "done" => WholeIn(t'.reader.blocks, c, mixed')
    BY <1>1 DEF CallInv, CallFits
  <2>1. call[c] = "named" => mixed'
    <3>1. c # None
      BY NoneAssumption
    <3> QED
      BY <1>1, <3>1 DEF Open
  <2>2. call[c] = "done" => WholeIn(t'.reader.blocks, c, mixed')
    BY <1>6, <1>8, MixedStaysWhole DEF TurnInv, CallInv, CallFits
  <2> QED
    BY <1>3, <1>5, <1>6, <2>1, <2>2 DEF TurnInv, CallInv, CallFits
<1> QED
  BY <1>7, <1>9, <1>10, <1>11 DEF TurnInv

-----------------------------------------------------------------------------
(* Steps of a call.                                                        *)

(* A step of one call leaves what holds of every other.                    *)
LEMMA OtherCallsFit ==
  ASSUME TurnInv, stream = "open", stream' = "open", NEW c \in Calls,
         mixed' = (mixed \/ Open \ {c} # {}),
         \A d \in Calls \ {c} : call'[d] = call[d] /\ streamed'[d] = streamed[d],
         t'.reader.blocks \in Seq(Piece),
         GoesOn(t.reader.blocks, ToolUse(c), t'.reader.blocks),
         t' = t \/ t'.open \in {NoBlock, ToolUse(c)},
         NEW d \in Calls \ {c}
  PROVE  CallFits(d)'
<1> DEFINE pieces == t.reader.blocks
           further == t'.reader.blocks
<1>1. pieces \in Seq(Piece)
  BY TurnTyped
<1>2. ToolUse(c) # ToolUse(d) /\ NoBlock # ToolUse(d)
  BY BlocksAreApart
<1>3. /\ PositionsOf(further, d) = PositionsOf(pieces, d)
      /\ \A mix : WholeIn(pieces, d, mix) => WholeIn(further, d, mix)
  <2> HIDE DEF pieces
  <2>1. GoesOn(pieces, ToolUse(c), further) /\ further \in Seq(Piece)
    BY DEF pieces
  <2> HIDE DEF further
  <2> QED
    BY <1>1, <1>2, <2>1, OthersStay
<1>4. mixed \in BOOLEAN /\ mixed' \in BOOLEAN /\ (mixed => mixed')
  BY DEF TurnInv, StateType
<1>5. call[d] = "named" => mixed'
  BY DEF Open
<1>6. CallFits(d) /\ call'[d] = call[d] /\ streamed'[d] = streamed[d]
  BY DEF TurnInv, CallInv
<1>7. call[d] = "done" => WholeIn(further, d, mixed')
  BY <1>3, <1>4, <1>6, MixedStaysWhole DEF CallFits
<1>8. t'.open = ToolUse(d) => t' = t
  BY <1>2
<1>9. CASE t' = t
  BY <1>4, <1>5, <1>6, <1>7, <1>9 DEF CallFits
<1>10. CASE t'.open # ToolUse(d)
  BY <1>3, <1>5, <1>6, <1>7, <1>10 DEF CallFits
<1> QED
  BY <1>8, <1>9, <1>10

(* The blocks of a turn go on when nothing is pushed.                      *)
LEMMA NothingGoesOn ==
  ASSUME NEW pieces \in Seq(Piece), NEW item
  PROVE  GoesOn(pieces, item, pieces)
<1> DEFINE n == Len(pieces)
<1>1. n \in Nat
  BY LenProperties
<1>2. (n + 1)..n = {} /\ n <= n
  BY <1>1
<1> QED
  BY <1>2 DEF GoesOn

(* A step of a call is a call seen, if it has a block.                     *)
LEMMA CallIsSeen ==
  ASSUME TurnInv, stream = "open", stream' = "open", NEW c \in Calls,
         t'.reader.blocks \in Seq(Piece),
         GoesOn(t.reader.blocks, ToolUse(c), t'.reader.blocks),
         ran' = ran, t'.searches = t.searches, ClosesProperly',
         \/ t'.saw_tool_call = t.saw_tool_call /\ PositionsOf(t'.reader.blocks, c) = {}
         \/ t'.saw_tool_call = t.saw_tool_call /\ PositionsOf(t.reader.blocks, c) # {}
         \/ t'.saw_tool_call /\ PositionsOf(t'.reader.blocks, c) # {}
         \/ t' = t
  PROVE  SearchInv'
<1> DEFINE pieces == t.reader.blocks
           further == t'.reader.blocks
           Seen(some) == \E i \in 1..Len(some) : IsCall(some[i].block)
<1>1. pieces \in Seq(Piece) /\ Len(pieces) \in Nat /\ Len(further) \in Nat
  BY TurnTyped, LenProperties
<1>2. IsCall(ToolUse(c)) /\ ~IsSearch(ToolUse(c))
  BY BlocksAreApart DEF IsCall, IsSearch
<1>3. /\ ToSet(t.searches) = ran /\ Cardinality(ran) = Len(t.searches)
      /\ \A i \in 1..Len(pieces) : ~IsSearch(pieces[i].block)
      /\ t.saw_tool_call <=> Seen(pieces)
  BY DEF TurnInv, SearchInv, Running
<1> HIDE DEF pieces, further
<1>4. GoesOn(pieces, ToolUse(c), further) /\ further \in Seq(Piece)
  BY DEF pieces, further
<1>5. \A i \in 1..Len(further) : ~IsSearch(further[i].block)
  BY <1>1, <1>2, <1>3, <1>4, OthersStay
<1>6. /\ Len(pieces) <= Len(further)
      /\ \A i \in 1..Len(pieces) : i \in 1..Len(further) /\ further[i].block = pieces[i].block
      /\ \A i \in 1..Len(further) : i \in 1..Len(pieces) \/ further[i].block = ToolUse(c)
  BY <1>1, <1>4 DEF GoesOn
<1>7. PositionsOf(further, c) # {} => Seen(further)
  BY <1>2 DEF PositionsOf
<1>8. Seen(pieces) => Seen(further)
  BY <1>6
<1>9. PositionsOf(further, c) = {} => (Seen(further) => Seen(pieces))
  BY <1>6 DEF PositionsOf
<1>10. PositionsOf(pieces, c) # {} => Seen(pieces)
  BY <1>2 DEF PositionsOf
<1>11. t' = t => further = pieces
  BY DEF further, pieces
<1>12. t'.saw_tool_call <=> Seen(further)
  <2> HIDE DEF Seen
  <2> QED
    BY <1>3, <1>7, <1>8, <1>9, <1>10, <1>11 DEF pieces, further
<1> QED
  BY <1>3, <1>5, <1>12 DEF SearchInv, Running, further

(* No fragments spell nothing, one more is appended, all are the whole.    *)
LEMMA FragmentsSpell ==
  /\ Spelt(0) = << >> /\ Spelt(Fragments) = WholeArguments
  /\ \A n \in Nat : Spelt(n) \in Seq(Nat) /\ Spelt(n) \o <<n + 1>> = Spelt(n + 1)
<1>1. Spelt(0) = << >>
  BY DEF Spelt
<1>2. \A n \in Nat : Spelt(n) \in Seq(Nat) /\ Len(Spelt(n)) = n
                     /\ \A i \in 1..n : Spelt(n)[i] = i
  BY IsASeq DEF Spelt
<1>3. ASSUME NEW n \in Nat PROVE Spelt(n) \o <<n + 1>> = Spelt(n + 1)
  <2> DEFINE longer == Spelt(n) \o <<n + 1>>
  <2>1. <<n + 1>> \in Seq(Nat) /\ Len(<<n + 1>>) = 1 /\ <<n + 1>>[1] = n + 1
    OBVIOUS
  <2>2. /\ longer \in Seq(Nat) /\ Len(longer) = n + 1
        /\ \A i \in 1..(n + 1) : longer[i] = IF i <= n THEN Spelt(n)[i] ELSE <<n + 1>>[i - n]
    <3> DEFINE one == <<n + 1>>
    <3>1. Spelt(n) \in Seq(Nat) /\ Len(Spelt(n)) = n /\ one \in Seq(Nat) /\ Len(one) = 1
      BY <1>2, <2>1
    <3> HIDE DEF one
    <3> QED
      BY <3>1, ConcatProperties
  <2> HIDE DEF longer
  <2>3. \A i \in 1..(n + 1) : longer[i] = i
    <3> SUFFICES ASSUME NEW i \in 1..(n + 1) PROVE longer[i] = i
      OBVIOUS
    <3>1. CASE i <= n
      <4>1. i \in 1..n /\ Spelt(n)[i] = i
        BY <1>2, <3>1
      <4> QED
        BY <2>2, <3>1, <4>1
    <3>2. CASE i = n + 1
      <4>1. ~(i <= n) /\ i - n = 1
        BY <3>2
      <4> QED
        BY <2>1, <2>2, <3>2, <4>1
    <3> QED
      BY <3>1, <3>2
  <2>4. n + 1 \in Nat /\ \A i \in 1..(n + 1) : longer[i] = Spelt(n + 1)[i]
    BY <2>3, <1>2
  <2>5. Spelt(n + 1) \in Seq(Nat) /\ Len(Spelt(n + 1)) = n + 1
    BY <1>2, <2>4
  <2> QED
    BY <2>2, <2>4, <2>5, SeqEqual DEF longer
<1> QED
  BY <1>1, <1>2, <1>3 DEF Spelt, WholeArguments

(* A call added opens its block if it is named, and otherwise waits.       *)
LEMMA AddCallStep ==
  ASSUME NEW c \in Calls, NEW named \in BOOLEAN PROVE TurnInv /\ AddCall(c, named) => TurnInv'
<1> SUFFICES ASSUME TurnInv, AddCall(c, named) PROVE TurnInv'
  OBVIOUS
<1> DEFINE pieces == t.reader.blocks
           further == t'.reader.blocks
           now == [block |-> ToolUse(c), content |-> << >>]
<1>1. /\ stream = "open" /\ stream' = "open" /\ call[c] = "absent" /\ UNCHANGED <<streamed, ran>>
      /\ call' = [call EXCEPT ![c] = IF named THEN "named" ELSE "unnamed"]
      /\ t' = ItemAdded(t, c, named) /\ mixed' = (mixed \/ Open \ {c} # {})
  BY DEF AddCall, Mixes
<1>2. /\ Live(t) /\ pieces \in Seq(Piece) /\ Len(pieces) \in Nat
      /\ call \in [Calls -> {"absent", "named", "unnamed", "done"}]
  BY <1>1, TurnTyped DEF TurnInv, StateType
<1>3. /\ call'[c] = (IF named THEN "named" ELSE "unnamed")
      /\ \A d \in Calls \ {c} : call'[d] = call[d] /\ streamed'[d] = streamed[d]
  BY <1>1, <1>2
<1>4. CallFits(c) /\ PositionsOf(pieces, c) = {} /\ streamed[c] = 0
  BY <1>1 DEF TurnInv, CallInv, CallFits
<1>5. StateType'
  BY <1>1 DEF TurnInv, StateType
<1>6. CASE ~named
  <2>1. t' = t /\ call'[c] = "unnamed"
    BY <1>1, <1>3, <1>6 DEF ItemAdded
  <2>2. PhaseInv' /\ ClosesProperly'
    BY <1>1, <1>2, <2>1, RunsOn
  <2>3. GoesOn(pieces, ToolUse(c), further) /\ further \in Seq(Piece)
    BY <1>2, <2>1, NothingGoesOn
  <2>4. SearchInv'
    BY <1>1, <2>1, <2>2, <2>3, CallIsSeen
  <2>5. CallFits(c)'
    BY <1>1, <1>4, <2>1 DEF CallFits
  <2>6. \A d \in Calls \ {c} : CallFits(d)'
    BY <1>1, <1>3, <2>1, <2>3, OtherCallsFit
  <2>7. CallInv'
    BY <2>5, <2>6 DEF CallInv
  <2> QED
    BY <1>5, <2>2, <2>4, <2>7 DEF TurnInv
<1>7. CASE named
  <2> DEFINE begun == StartMessage(t)
  <2>1. t' = OpenToolUse(begun, c) /\ call'[c] = "named"
    BY <1>1, <1>3, <1>7 DEF ItemAdded
  <2>2. Live(begun) /\ begun.started /\ Otherwise(t, begun) /\ begun.reader.blocks = pieces
    BY <1>2, MessageIsStarted
  <2> HIDE DEF begun
  <2>3. /\ Live(t') /\ t'.open = ToolUse(c) /\ ~t'.streamed_arguments /\ t'.saw_tool_call
        /\ t'.finished = begun.finished /\ t'.stop_reason = begun.stop_reason
        /\ t'.searches = begun.searches /\ further = Append(begun.reader.blocks, now)
    BY <2>1, <2>2, CallIsOpened
  <2>4. now \in Piece /\ now.block = ToolUse(c) /\ now.content = << >>
    BY EmptySeq DEF Piece, BlockType
  <2> HIDE DEF now
  <2>5. further = Append(pieces, now)
    BY <2>2, <2>3
  <2>6. /\ GoesOn(pieces, ToolUse(c), further) /\ further \in Seq(Piece)
        /\ Len(further) = Len(pieces) + 1 /\ further[Len(further)] = now
        /\ \A i \in 1..Len(pieces) : further[i] = pieces[i]
    <3>1. Append(pieces, now) \in Seq(Piece)
      BY <1>2, <2>4, AppendProperties
    <3> HIDE DEF pieces, further
    <3> QED
      BY <1>2, <2>4, <2>5, <3>1, OneMoreGoesOn
  <2>7. PhaseInv' /\ ClosesProperly'
    BY <1>1, <2>2, <2>3, RunsOn DEF Otherwise
  <2>8. PositionsOf(further, c) = {Len(pieces) + 1}
    <3> HIDE DEF pieces, further
    <3>1. 1..Len(further) = (1..Len(pieces)) \cup {Len(pieces) + 1}
      BY <1>2, <2>6
    <3>2. \A i \in 1..Len(pieces) : further[i].block # ToolUse(c)
      BY <1>4, <2>6 DEF PositionsOf
    <3> QED
      BY <2>4, <2>6, <3>1, <3>2 DEF PositionsOf
  <2>9. SearchInv'
    <3>1. t'.searches = t.searches
      BY <2>2, <2>3 DEF Otherwise
    <3>2. PositionsOf(further, c) # {}
      BY <2>8
    <3> QED
      BY <1>1, <2>3, <2>6, <2>7, <3>1, <3>2, CallIsSeen
  <2>10. CallFits(c)'
    <3>1. further[Len(further)].content = Spelt(streamed'[c])
      BY <1>1, <1>4, <2>4, <2>6, FragmentsSpell
    <3>2. ~(streamed'[c] > 0)
      BY <1>1, <1>4
    <3>3. \A j \in PositionsOf(further, c) : j = Len(further)
      BY <2>6, <2>8
    <3> QED
      BY <1>1, <2>1, <2>3, <3>1, <3>2, <3>3 DEF CallFits
  <2>11. \A d \in Calls \ {c} : CallFits(d)'
    BY <1>1, <1>3, <2>3, <2>6, OtherCallsFit
  <2>12. CallInv'
    BY <2>10, <2>11 DEF CallInv
  <2> QED
    BY <1>5, <2>7, <2>9, <2>12 DEF TurnInv
<1> QED
  BY <1>6, <1>7

(* A fragment goes into the block of its call while that is open.          *)
LEMMA StreamFragmentStep ==
  ASSUME NEW c \in Calls PROVE TurnInv /\ StreamFragment(c) => TurnInv'
<1> SUFFICES ASSUME TurnInv, StreamFragment(c) PROVE TurnInv'
  OBVIOUS
<1> DEFINE pieces == t.reader.blocks
           further == t'.reader.blocks
           fragment == streamed[c] + 1
<1>1. /\ stream = "open" /\ stream' = "open" /\ c \in Open /\ streamed[c] < Fragments
      /\ UNCHANGED <<call, ran>> /\ streamed' = [streamed EXCEPT ![c] = @ + 1]
      /\ mixed' = (mixed \/ Open \ {c} # {})
  BY DEF StreamFragment, Mixes
<1>2. /\ Live(t) /\ t \in TranslatorType /\ pieces \in Seq(Piece) /\ Len(pieces) \in Nat
      /\ streamed \in [Calls -> 0..Fragments] /\ Fragments \in Nat /\ streamed[c] \in Nat
  BY <1>1, TurnTyped, FragmentsAssumption DEF TurnInv, StateType
<1>3. /\ streamed'[c] = fragment /\ fragment \in 0..Fragments /\ fragment \in Nat \ {0}
      /\ \A d \in Calls \ {c} : call'[d] = call[d] /\ streamed'[d] = streamed[d]
  BY <1>1, <1>2
<1>4. PICK target \in {c, None} : (target = None => Open = {c})
                                  /\ t' = ArgumentsDelta(t, target, fragment)
  BY <1>3 DEF StreamFragment
<1>5. StateType'
  <2>1. streamed' \in [Calls -> 0..Fragments]
    BY <1>1, <1>2, <1>3
  <2> QED
    BY <1>1, <2>1 DEF TurnInv, StateType
<1>6. CallFits(c) /\ call[c] \in {"named", "unnamed"}
  BY <1>1 DEF TurnInv, CallInv, Open
<1> HIDE DEF fragment
<1>7. CASE t.open # ToolUse(c)
  <2>1. ~(t.open.is = "tool_use" /\ target \in {None, t.open.id})
    <3> SUFFICES ASSUME t.open.is = "tool_use", target \in {None, t.open.id} PROVE FALSE
      OBVIOUS
    <3>1. PICK d \in Calls : t.open = ToolUse(d)
      BY <1>2, BlocksAreApart DEF TranslatorType, OpenType
    <3>2. d \in Open /\ t.open.id = d
      BY <1>1, <3>1, BlocksAreApart DEF TurnInv, CallInv, CallFits, Open
    <3>3. d # None
      BY NoneAssumption
    <3> QED
      BY <1>4, <1>7, <3>1, <3>2, <3>3
  <2>2. t' = t
    BY <1>4, <2>1 DEF ArgumentsDelta
  <2>3. PhaseInv' /\ ClosesProperly'
    BY <1>1, <1>2, <2>2, RunsOn
  <2>4. GoesOn(pieces, ToolUse(c), further) /\ further \in Seq(Piece)
    BY <1>2, <2>2, NothingGoesOn
  <2>5. SearchInv'
    BY <1>1, <2>2, <2>3, <2>4, CallIsSeen
  <2>6. CallFits(c)'
    <3>1. mixed \in BOOLEAN /\ (mixed => mixed')
      BY <1>1 DEF TurnInv, StateType
    <3> QED
      BY <1>1, <1>6, <1>7, <2>2, <3>1 DEF CallFits
  <2>7. \A d \in Calls \ {c} : CallFits(d)'
    BY <1>1, <1>3, <2>2, <2>4, OtherCallsFit
  <2>8. CallInv'
    BY <2>6, <2>7 DEF CallInv
  <2> QED
    BY <1>5, <2>3, <2>5, <2>8 DEF TurnInv
<1>8. CASE t.open = ToolUse(c)
  <2> DEFINE n == Len(pieces)
             marked == [t EXCEPT !.streamed_arguments = TRUE]
  <2>1. t' = PushDelta(marked, <<fragment>>)
    BY <1>4, <1>8, BlocksAreApart DEF ArgumentsDelta
  <2>2. /\ Live(t') /\ t'.open = ToolUse(c) /\ t'.streamed_arguments
        /\ t'.saw_tool_call = t.saw_tool_call
        /\ t'.finished = t.finished /\ t'.stop_reason = t.stop_reason
        /\ t'.searches = t.searches /\ LastGrown(pieces, <<fragment>>, further)
    BY <1>2, <1>3, <1>8, <2>1, FragmentIsStreamed
  <2>3. further \in Seq(Piece)
    BY <2>2, NextTyped
  <2>4. pieces # << >> /\ pieces[n].block = ToolUse(c) /\ n \in 1..n
    <3>1. pieces # << >> /\ pieces[n].block = ToolUse(c)
      BY <1>2, <1>8, BlocksAreApart DEF Live
    <3> QED
      BY <1>2, <3>1, EmptySeq
  <2>5. GoesOn(pieces, ToolUse(c), further)
    <3> HIDE DEF pieces, further
    <3> QED
      BY <1>2, <2>2, <2>4, GrowthGoesOn
  <2>6. PhaseInv' /\ ClosesProperly'
    BY <1>1, <2>2, RunsOn
  <2>7. SearchInv'
    <3>1. PositionsOf(pieces, c) # {}
      BY <2>4 DEF PositionsOf
    <3> QED
      BY <1>1, <2>2, <2>3, <2>5, <2>6, <3>1, CallIsSeen
  <2>8. CallFits(c)'
    <3>1. /\ call[c] = "named" /\ pieces[n].content = Spelt(streamed[c])
          /\ ~mixed => \A j \in PositionsOf(pieces, c) : j = n
      BY <1>1, <1>6, <1>8 DEF CallFits
    <3>2. Len(further) = n /\ further[n].content = Spelt(streamed'[c])
      BY <1>2, <1>3, <2>2, <3>1, FragmentsSpell DEF LastGrown, fragment
    <3>3. \A j \in PositionsOf(further, c) : j \in PositionsOf(pieces, c)
      BY <2>5, <3>2 DEF PositionsOf, GoesOn
    <3>4. streamed'[c] > 0
      BY <1>3
    <3>5. ~mixed' => \A j \in PositionsOf(further, c) : j = n
      BY <1>1, <3>1, <3>3
    <3> QED
      BY <1>1, <2>2, <3>1, <3>2, <3>4, <3>5 DEF CallFits
  <2>9. \A d \in Calls \ {c} : CallFits(d)'
    BY <1>1, <1>3, <2>2, <2>3, <2>5, OtherCallsFit
  <2>10. CallInv'
    BY <2>8, <2>9 DEF CallInv
  <2> QED
    BY <1>5, <2>6, <2>7, <2>10 DEF TurnInv
<1> QED
  BY <1>7, <1>8

(* The blocks a call done leaves: the last is the call's, and whole.       *)
LEMMA DoneIsWhole ==
  ASSUME TurnInv, stream = "open", NEW c \in Calls, call[c] # "done",
         streamed[c] \in {0, Fragments}, NEW next, Live(next), DoneAs(t, c, next)
  PROVE  LET pieces == t.reader.blocks
             blocks == next.reader.blocks
             n == Len(blocks)
         IN  /\ GoesOn(pieces, ToolUse(c), blocks) /\ n \in PositionsOf(blocks, c)
             /\ blocks[n].content = WholeArguments
             /\ ~mixed => \A j \in PositionsOf(blocks, c) : j = n
             /\ next.saw_tool_call = t.saw_tool_call => PositionsOf(pieces, c) # {}
                                                        \/ next.saw_tool_call
<1> DEFINE pieces == t.reader.blocks
           blocks == next.reader.blocks
           m == Len(pieces)
           n == Len(blocks)
<1>1. /\ Live(t) /\ pieces \in Seq(Piece) /\ m \in Nat /\ blocks \in Seq(Piece) /\ n \in Nat
      /\ Fragments \in Nat /\ Fragments > 0
  BY TurnTyped, NextTyped, FragmentsAssumption
<1>2. CallFits(c)
  BY DEF TurnInv, CallInv
<1>3. CASE t.open = ToolUse(c)
  <2>1. pieces # << >> /\ pieces[m].block = ToolUse(c) /\ m \in 1..m
    <3>1. pieces # << >> /\ pieces[m].block = ToolUse(c)
      BY <1>1, <1>3, BlocksAreApart DEF Live
    <3> QED
      BY <1>1, <3>1, EmptySeq
  <2>2. /\ pieces[m].content = Spelt(streamed[c])
        /\ t.streamed_arguments <=> streamed[c] > 0
        /\ ~mixed => \A j \in PositionsOf(pieces, c) : j = m
    BY <1>2, <1>3 DEF CallFits
  <2>3. m \in PositionsOf(pieces, c)
    BY <2>1 DEF PositionsOf
  <2>4. /\ GoesOn(pieces, ToolUse(c), blocks) /\ n = m /\ blocks[m].block = ToolUse(c)
        /\ blocks[m].content = WholeArguments
    <3>1. CASE t.streamed_arguments
      <4>1. blocks = pieces
        BY <1>3, <3>1 DEF DoneAs
      <4>2. streamed[c] = Fragments
        BY <1>1, <2>2, <3>1
      <4> HIDE DEF pieces, blocks
      <4> QED
        BY <1>1, <2>1, <2>2, <4>1, <4>2, NothingGoesOn, FragmentsSpell
    <3>2. CASE ~t.streamed_arguments
      <4>1. LastGrown(pieces, WholeArguments, blocks)
        BY <1>3, <3>2 DEF DoneAs
      <4>2. streamed[c] = 0
        BY <1>1, <2>2, <3>2
      <4>3. pieces[m].content = << >>
        BY <2>2, <4>2, FragmentsSpell
      <4>4. << >> \o WholeArguments = WholeArguments
        BY DeltasBelong, ConcatEmptySeq
      <4> HIDE DEF pieces, blocks
      <4>5. GoesOn(pieces, ToolUse(c), blocks)
        BY <1>1, <2>1, <4>1, GrowthGoesOn
      <4> QED
        BY <2>1, <4>1, <4>3, <4>4, <4>5 DEF LastGrown
    <3> QED
      BY <3>1, <3>2
  <2> HIDE DEF pieces, blocks
  <2>5. \A j \in PositionsOf(blocks, c) : j \in PositionsOf(pieces, c)
    BY <2>4 DEF PositionsOf, GoesOn
  <2> QED
    BY <2>1, <2>2, <2>3, <2>4, <2>5 DEF PositionsOf, pieces, blocks
<1>4. CASE t.open # ToolUse(c)
  <2>1. /\ next.saw_tool_call /\ n = m + 1
        /\ \A i \in 1..m : blocks[i] = pieces[i]
        /\ blocks[m + 1].block = ToolUse(c) /\ blocks[m + 1].content = WholeArguments
    BY <1>4 DEF DoneAs
  <2>2. ~mixed => PositionsOf(pieces, c) = {}
    <3>1. call[c] \in {"absent", "named", "unnamed"}
      BY DEF TurnInv, StateType
    <3> QED
      BY <1>2, <1>4, <3>1 DEF CallFits
  <2> HIDE DEF pieces, blocks
  <2>3. m + 1 \in 1..(m + 1) /\ \A i \in 1..(m + 1) : i \in 1..m \/ i = m + 1
    BY <1>1
  <2>4. GoesOn(pieces, ToolUse(c), blocks)
    <3>1. m <= m + 1 /\ \A i \in (m + 1)..(m + 1) : i = m + 1
      BY <1>1
    <3> QED
      BY <2>1, <3>1 DEF GoesOn
  <2>5. ~mixed => \A j \in PositionsOf(blocks, c) : j = m + 1
    BY <2>1, <2>2, <2>3 DEF PositionsOf
  <2> QED
    BY <2>1, <2>3, <2>4, <2>5 DEF PositionsOf, pieces, blocks
<1> QED
  BY <1>3, <1>4

(* A call done has its block, whole.                                       *)
LEMMA DoneCallStep == ASSUME NEW c \in Calls PROVE TurnInv /\ DoneCall(c) => TurnInv'
<1> SUFFICES ASSUME TurnInv, DoneCall(c) PROVE TurnInv'
  OBVIOUS
<1> DEFINE pieces == t.reader.blocks
           further == t'.reader.blocks
           n == Len(further)
<1>1. /\ stream = "open" /\ stream' = "open" /\ call[c] # "done"
      /\ streamed[c] \in {0, Fragments} /\ UNCHANGED <<streamed, ran>>
      /\ call' = [call EXCEPT ![c] = "done"] /\ t' = CallDone(t, c)
      /\ mixed' = (mixed \/ Open \ {c} # {})
  BY DEF DoneCall, Mixes
<1>2. /\ Live(t) /\ call \in [Calls -> {"absent", "named", "unnamed", "done"}]
      /\ mixed \in BOOLEAN /\ mixed' \in BOOLEAN /\ (mixed => mixed')
  BY <1>1, TurnTyped DEF TurnInv, StateType
<1>3. /\ call'[c] = "done"
      /\ \A d \in Calls \ {c} : call'[d] = call[d] /\ streamed'[d] = streamed[d]
  BY <1>1, <1>2
<1>4. StateType'
  BY <1>1, <1>2 DEF TurnInv, StateType
<1>5. /\ Live(t') /\ t'.open = NoBlock
      /\ t'.finished = t.finished /\ t'.stop_reason = t.stop_reason
      /\ t'.searches = t.searches /\ DoneAs(t, c, t')
  BY <1>1, <1>2, CallIsDone
<1>6. further \in Seq(Piece)
  BY <1>5, NextTyped
<1>7. /\ GoesOn(pieces, ToolUse(c), further) /\ n \in PositionsOf(further, c)
      /\ further[n].content = WholeArguments
      /\ ~mixed => \A j \in PositionsOf(further, c) : j = n
      /\ t'.saw_tool_call = t.saw_tool_call => PositionsOf(pieces, c) # {} \/ t'.saw_tool_call
  BY <1>1, <1>5, DoneIsWhole
<1>8. PhaseInv' /\ ClosesProperly'
  BY <1>1, <1>5, RunsOn
<1>9. SearchInv'
  <2>1. t'.saw_tool_call = t.saw_tool_call \/ t'.saw_tool_call
    BY <1>5 DEF DoneAs
  <2>2. PositionsOf(further, c) # {}
    BY <1>7
  <2> QED
    BY <1>1, <1>5, <1>6, <1>7, <1>8, <2>1, <2>2, CallIsSeen
<1>10. CallFits(c)'
  <2>1. WholeIn(further, c, mixed')
    <3>1. \A j \in PositionsOf(further, c) : j = n \/ j < n
      <4>1. n \in Nat /\ PositionsOf(further, c) \subseteq 1..n
        BY <1>6, LenProperties DEF PositionsOf
      <4> HIDE DEF n
      <4> QED
        BY <4>1
    <3>2. \A j \in PositionsOf(further, c) : j = n \/ (mixed' /\ j < n)
      BY <1>2, <1>7, <3>1
    <3> QED
      BY <1>7, <3>2 DEF WholeIn
  <2>2. NoBlock # ToolUse(c)
    BY BlocksAreApart
  <2> QED
    BY <1>3, <1>5, <2>1, <2>2 DEF CallFits
<1>11. \A d \in Calls \ {c} : CallFits(d)'
  BY <1>1, <1>3, <1>5, <1>6, <1>7, OtherCallsFit
<1>12. CallInv'
  BY <1>10, <1>11 DEF CallInv
<1> QED
  BY <1>4, <1>8, <1>9, <1>12 DEF TurnInv

-----------------------------------------------------------------------------
(* Steps that end the message or the stream.                               *)

(* What is done of a call stays when only other blocks follow.             *)
LEMMA DoneStays ==
  ASSUME TurnInv, stream' # "open", UNCHANGED <<call, streamed, mixed>>,
         \A c \in Calls :
           /\ PositionsOf(t'.reader.blocks, c) = PositionsOf(t.reader.blocks, c)
           /\ \A i \in PositionsOf(t.reader.blocks, c) :
                t'.reader.blocks[i] = t.reader.blocks[i]
  PROVE  CallInv'
<1> SUFFICES ASSUME NEW c \in Calls PROVE CallFits(c)'
  BY DEF CallInv
<1>1. CallFits(c) /\ call'[c] = call[c] /\ streamed'[c] = streamed[c]
  BY DEF TurnInv, CallInv
<1>2. WholeIn(t.reader.blocks, c, mixed) => WholeIn(t'.reader.blocks, c, mixed')
  BY DEF WholeIn
<1> QED
  BY <1>1, <1>2 DEF CallFits

(* The message closes, be it that the response ended or that it stopped.   *)
LEMMA ClosingStep ==
  ASSUME TurnInv, Running, stream' \in {"over", "closed"},
         UNCHANGED <<call, streamed, ran, mixed>>,
         NEW tr, Live(tr), tr.started, ~tr.finished,
         tr.reader.blocks = t.reader.blocks, tr.searches = t.searches,
         tr.saw_tool_call = t.saw_tool_call,
         tr.stop_reason = IF outcome' = "incomplete" THEN "max_tokens" ELSE "end_turn",
         t' = CloseMessage(tr)
  PROVE  TurnInv'
<1> DEFINE pieces == t.reader.blocks
           blocks == t'.reader.blocks
           base == Len(pieces)
           n == Len(t.searches)
<1>1. /\ Sound(t') /\ t'.finished /\ t'.reader.phase = "stopped"
      /\ t'.reader.stop_reason = StopReason(tr)
      /\ Len(blocks) = base + 2 * n /\ \A i \in 1..base : blocks[i] = pieces[i]
      /\ \A k \in 1..n : /\ blocks[base + 2 * k - 1].block = ServerToolUse(t.searches[k])
                         /\ blocks[base + 2 * k].block = SearchResult(t.searches[k])
  <2> DEFINE next == CloseMessage(tr)
             own == tr.reader.blocks
             closed == next.reader.blocks
             before == Len(own)
             m == Len(tr.searches)
  <2>1. /\ Sound(next) /\ next.finished /\ next.reader.phase = "stopped"
        /\ next.reader.stop_reason = StopReason(tr)
        /\ Len(closed) = before + 2 * m /\ \A i \in 1..before : closed[i] = own[i]
        /\ \A k \in 1..m : /\ closed[before + 2 * k - 1].block = ServerToolUse(tr.searches[k])
                           /\ closed[before + 2 * k].block = SearchResult(tr.searches[k])
    BY MessageIsClosed
  <2>2. next = t' /\ own = pieces /\ closed = blocks /\ before = base /\ m = n
    OBVIOUS
  <2> HIDE DEF next, own, closed, before, m, pieces, blocks, base, n
  <2> QED
    BY <2>1, <2>2
<1>2. /\ pieces \in Seq(Piece) /\ base \in Nat /\ n \in Nat /\ DOMAIN t.searches = 1..n
      /\ blocks \in Seq(Piece) /\ DOMAIN blocks = 1..Len(blocks)
  <2>1. /\ pieces \in Seq(Piece) /\ base \in Nat /\ t.searches \in Seq(Searches)
    BY TurnTyped DEF TranslatorType
  <2>2. blocks \in Seq(Piece)
    BY <1>1 DEF Sound, TranslatorType, ReaderType
  <2> QED
    BY <2>1, <2>2, LenProperties
<1>3. /\ ToSet(t.searches) = ran /\ Cardinality(ran) = n
      /\ \A i \in 1..base : ~IsSearch(pieces[i].block)
      /\ t.saw_tool_call <=> \E i \in 1..base : IsCall(pieces[i].block)
  BY DEF TurnInv, SearchInv
<1> HIDE DEF pieces, blocks, base, n
<1>4. \A i \in base + 1..base + 2 * n :
        \E k \in 1..n : i = base + 2 * k - 1 \/ i = base + 2 * k
  <2> SUFFICES ASSUME NEW i \in base + 1..base + 2 * n
               PROVE  \E k \in 1..n : i = base + 2 * k - 1 \/ i = base + 2 * k
    OBVIOUS
  <2>1. PICK j \in 1..2 * n : i = base + j
    <3>1. i - base \in 1..2 * n /\ i = base + (i - base)
      BY <1>2
    <3> QED
      BY <3>1
  <2>2. CASE j % 2 = 0
    <3>1. j \div 2 \in 1..n /\ j = 2 * (j \div 2)
      BY <1>2, <2>2
    <3> QED
      BY <2>1, <3>1
  <2>3. CASE j % 2 = 1
    <3>1. (j + 1) \div 2 \in 1..n /\ j = 2 * ((j + 1) \div 2) - 1
      BY <1>2, <2>3
    <3>2. i = base + 2 * ((j + 1) \div 2) - 1
      BY <1>2, <2>1, <3>1
    <3> QED
      BY <3>1, <3>2
  <2> QED
    BY <2>2, <2>3
<1>5. \A i \in base + 1..base + 2 * n : ~IsCall(blocks[i].block)
  BY <1>1, <1>4, BlocksAreApart DEF IsCall
<1>6. /\ base <= base + 2 * n /\ \A i \in 1..base : i \in 1..base + 2 * n
      /\ \A i \in 1..base + 2 * n : i \in 1..base \/ i \in base + 1..base + 2 * n
  BY <1>2
<1>7. (\E i \in 1..Len(blocks) : IsCall(blocks[i].block)) <=> tr.saw_tool_call
  BY <1>1, <1>3, <1>5, <1>6
<1>8. /\ StateType' /\ PhaseInv'
  <2>1. ~Running' /\ Running' \in BOOLEAN
    BY <1>1 DEF Running
  <2> QED
    BY <1>1, <2>1 DEF TurnInv, StateType, PhaseInv, Running
<1>9. \A c \in Calls : /\ PositionsOf(blocks, c) = PositionsOf(pieces, c)
                       /\ \A i \in PositionsOf(pieces, c) : blocks[i] = pieces[i]
  <2>1. \A c : IsCall(ToolUse(c))
    BY BlocksAreApart DEF IsCall
  <2> QED
    BY <1>1, <1>5, <1>6, <2>1 DEF PositionsOf, base
<1>10. CallInv'
  BY <1>9, DoneStays DEF pieces, blocks
<1>11. ClosesProperly'
  <2> DEFINE ended == Len(blocks) - 2 * Cardinality(ran')
             called == {i \in ended + 1..Len(blocks) : (i - ended) % 2 = 1}
  <2>1. ended = base /\ ended >= 0
    BY <1>1, <1>2, <1>3
  <2> HIDE DEF ended
  <2>2. called = {base + 2 * k - 1 : k \in 1..n}
    <3>1. \A k \in 1..n : /\ base + 2 * k - 1 \in base + 1..base + 2 * n
                          /\ (base + 2 * k - 1) - base = 2 * k - 1
                          /\ (base + 2 * k) - base = 2 * k
      BY <1>2
    <3>2. \A k \in 1..n : (2 * k) % 2 = 0 /\ (2 * k - 1) % 2 = 1
      BY <1>2
    <3>3. ASSUME NEW i \in called PROVE \E k \in 1..n : i = base + 2 * k - 1
      <4>1. i \in base + 1..base + 2 * n /\ (i - base) % 2 = 1
        BY <1>1, <2>1
      <4> HIDE DEF called
      <4>2. PICK k \in 1..n : i = base + 2 * k - 1 \/ i = base + 2 * k
        BY <1>4, <4>1
      <4>3. i # base + 2 * k
        <5>1. SUFFICES ASSUME i = base + 2 * k PROVE FALSE
          OBVIOUS
        <5>2. (i - base) % 2 = 0
          BY <3>1, <3>2, <5>1, Zenon
        <5> QED
          BY <4>1, <5>2
      <4> QED
        BY <4>2, <4>3
    <3>4. ASSUME NEW k \in 1..n PROVE base + 2 * k - 1 \in called
      <4> DEFINE i == base + 2 * k - 1
      <4>1. i - base = 2 * k - 1 /\ i \in base + 1..base + 2 * n
        BY <3>1
      <4>2. (i - base) % 2 = 1
        BY <3>2, <4>1
      <4> HIDE DEF i
      <4>3. i \in called
        BY <1>1, <2>1, <4>1, <4>2
      <4> QED
        BY <4>3 DEF i
    <3> HIDE DEF called
    <3> QED
      BY <3>3, <3>4
  <2> HIDE DEF called
  <2>3. {blocks[i].block : i \in called} = {ServerToolUse(s) : s \in ran'}
    <3>1. {blocks[i].block : i \in called} = {ServerToolUse(t.searches[k]) : k \in 1..n}
      BY <1>1, <2>2
    <3>2. ran' = {t.searches[k] : k \in 1..n}
      BY <1>2, <1>3 DEF ToSet
    <3> QED
      BY <3>1, <3>2
  <2>4. \A i \in called : blocks[i + 1].block = SearchResult(blocks[i].block.id)
    <3>1. \A k \in 1..n : (base + 2 * k - 1) + 1 = base + 2 * k
      BY <1>2
    <3> QED
      BY <1>1, <2>2, <3>1, BlocksAreApart
  <2>5. t'.reader.stop_reason =
          IF outcome' = "incomplete" THEN "max_tokens"
          ELSE IF \E b \in ToSet(blocks) : b.block.is = "tool_use" THEN "tool_use" ELSE "end_turn"
    <3>1. (\E b \in ToSet(blocks) : b.block.is = "tool_use") <=> tr.saw_tool_call
      BY <1>2, <1>7 DEF ToSet, IsCall
    <3> QED
      BY <1>1, <3>1 DEF StopReason
  <2> QED
    BY <2>1, <2>3, <2>4, <2>5 DEF ClosesProperly, reader, blocks, ended, called
<1>12. SearchInv'
  BY <1>1, <1>11 DEF SearchInv, Running
<1> QED
  BY <1>8, <1>10, <1>12 DEF TurnInv

(* The stream halts with the blocks it has, and the message not stopped.   *)
LEMMA HaltingStep ==
  ASSUME TurnInv, stream' \in {"over", "closed"}, stream' = "over" => t'.finished,
         UNCHANGED <<call, streamed, ran, mixed>>, Sound(t'),
         t'.reader.blocks = t.reader.blocks, t'.reader.phase \in {"none", "failed"}
  PROVE  TurnInv'
<1>1. ~Running' /\ Running' \in BOOLEAN
  BY DEF Running
<1>2. StateType' /\ PhaseInv'
  BY <1>1 DEF TurnInv, StateType, PhaseInv, Running
<1>3. SearchInv'
  BY <1>1 DEF SearchInv, Running, ClosesProperly, reader
<1>4. CallInv'
  BY DoneStays
<1> QED
  BY <1>2, <1>3, <1>4 DEF TurnInv

(* response.completed closes the message.                                   *)
LEMMA CompletedStep == TurnInv /\ Completed => TurnInv'
<1> SUFFICES ASSUME TurnInv, Completed PROVE TurnInv'
  OBVIOUS
<1> DEFINE tr == StartMessage(t)
<1>1. /\ stream = "open" /\ stream' = "over" /\ UNCHANGED <<call, streamed, ran, mixed>>
      /\ outcome' = "completed" /\ t' = CloseMessage(tr)
  BY DEF Completed, Ends, upstream
<1>2. Live(t) /\ ~t.finished /\ t.stop_reason = "end_turn" /\ Running
  BY <1>1, TurnTyped DEF Running
<1>3. /\ Live(tr) /\ tr.started /\ Otherwise(t, tr) /\ tr.reader.blocks = t.reader.blocks
  BY <1>2, MessageIsStarted
<1> HIDE DEF tr
<1> QED
  BY <1>1, <1>2, <1>3, ClosingStep DEF Otherwise

(* response.incomplete closes it for want of tokens.                        *)
LEMMA IncompleteStep == TurnInv /\ Incomplete => TurnInv'
<1> SUFFICES ASSUME TurnInv, Incomplete PROVE TurnInv'
  OBVIOUS
<1> DEFINE begun == StartMessage(t)
           tr == [begun EXCEPT !.stop_reason = "max_tokens"]
<1>1. /\ stream = "open" /\ stream' = "over" /\ UNCHANGED <<call, streamed, ran, mixed>>
      /\ outcome' = "incomplete" /\ t' = CloseMessage(tr)
  BY DEF Incomplete, Ends, upstream
<1>2. Live(t) /\ ~t.finished /\ Running
  BY <1>1, TurnTyped DEF Running
<1>3. /\ Live(begun) /\ begun.started /\ Otherwise(t, begun)
      /\ begun.reader.blocks = t.reader.blocks
  BY <1>2, MessageIsStarted
<1> HIDE DEF begun
<1>4. begun \in TranslatorType
  BY <1>3 DEF Live, Sound
<1>5. /\ tr \in TranslatorType /\ tr.reader = begun.reader /\ tr.folded = begun.folded
      /\ tr.started = begun.started /\ tr.open = begun.open
      /\ tr.next_index = begun.next_index /\ tr.finished = begun.finished
      /\ tr.searches = begun.searches /\ tr.saw_tool_call = begun.saw_tool_call
      /\ tr.stop_reason = "max_tokens"
  BY <1>4 DEF TranslatorType
<1> HIDE DEF tr
<1>6. Live(tr)
  BY <1>3, <1>5 DEF Live, Sound
<1> QED
  BY <1>1, <1>2, <1>3, <1>5, <1>6, ClosingStep DEF Otherwise

(* response.failed ends it in an error.                                     *)
LEMMA FailedStep == TurnInv /\ Failed => TurnInv'
<1> SUFFICES ASSUME TurnInv, Failed PROVE TurnInv'
  OBVIOUS
<1> DEFINE ending == [t EXCEPT !.finished = TRUE]
<1>1. /\ stream = "open" /\ stream' = "over" /\ UNCHANGED <<call, streamed, ran, mixed>>
      /\ t' = Push(ending, ErrorFrame)
  BY DEF Failed, Ends, EmitError, upstream
<1>2. Live(t) /\ t \in TranslatorType
  BY <1>1, TurnTyped
<1>3. /\ ending \in TranslatorType /\ ending.reader = t.reader /\ ending.folded = t.folded
      /\ ending.next_index = t.next_index /\ ending.finished
  BY <1>2 DEF TranslatorType
<1> HIDE DEF ending
<1>4. Sound(ending) /\ ending.reader.phase \notin {"stopped", "failed"}
  BY <1>2, <1>3 DEF Live, Sound
<1>5. /\ Sound(t') /\ t'.reader.phase = "failed" /\ Otherwise(ending, t')
      /\ t'.reader.blocks = ending.reader.blocks
  BY <1>1, <1>4, MessageFails
<1> QED
  BY <1>1, <1>3, <1>5, HaltingStep DEF Otherwise

(* So does a transport that breaks.                                         *)
LEMMA BreakStep == TurnInv /\ Break => TurnInv'
<1> SUFFICES ASSUME TurnInv, Break PROVE TurnInv'
  OBVIOUS
<1>1. /\ stream = "open" /\ stream' = "closed" /\ UNCHANGED <<call, streamed, ran, mixed>>
      /\ t' = Push(t, ErrorFrame)
  BY DEF Break, upstream
<1>2. Sound(t) /\ t.reader.phase \notin {"stopped", "failed"}
  BY <1>1, TurnTyped DEF Live
<1>3. Sound(t') /\ t'.reader.phase = "failed" /\ t'.reader.blocks = t.reader.blocks
  BY <1>1, <1>2, MessageFails
<1> QED
  BY <1>1, <1>3, HaltingStep

(* A stream that stops leaves the message as it is,                         *)
LEMMA TruncatedStep == TurnInv /\ Truncated => TurnInv'
<1> SUFFICES ASSUME TurnInv, Truncated PROVE TurnInv'
  OBVIOUS
<1>1. /\ stream = "open" /\ stream' = "over" /\ UNCHANGED <<call, streamed, ran, mixed, t>>
      /\ outcome' = "truncated"
  BY DEF Truncated, Ends, upstream
<1>2. Live(t) /\ ~t.finished /\ t.stop_reason = "end_turn"
  BY <1>1, TurnTyped
<1>3. StateType' /\ PhaseInv'
  BY <1>1, <1>2 DEF TurnInv, StateType, PhaseInv, Running, Live
<1>4. ClosesProperly'
  BY <1>1, <1>2 DEF ClosesProperly, reader, Live
<1>5. SearchInv'
  BY <1>1, <1>2, <1>4 DEF TurnInv, SearchInv, Running
<1>6. CallInv'
  BY <1>1, DoneStays
<1> QED
  BY <1>3, <1>5, <1>6 DEF TurnInv

(* and finish closes it, if it was begun and did not end.                   *)
LEMMA CloseStreamStep == TurnInv /\ CloseStream => TurnInv'
<1> SUFFICES ASSUME TurnInv, CloseStream PROVE TurnInv'
  OBVIOUS
<1>1. /\ stream = "over" /\ stream' = "closed" /\ UNCHANGED <<call, streamed, ran, mixed, outcome>>
      /\ t' = FinishMessage(t)
  BY DEF CloseStream, upstream
<1>2. CASE t.started /\ ~t.finished
  <2>1. Running /\ Live(t) /\ t.stop_reason = "end_turn" /\ outcome # "incomplete"
    BY <1>1, <1>2 DEF TurnInv, PhaseInv, Running
  <2>2. t' = CloseMessage(t)
    BY <1>1, <1>2 DEF FinishMessage
  <2> QED
    BY <1>1, <1>2, <2>1, <2>2, ClosingStep
<1>3. CASE ~t.started /\ ~t.finished
  <2>1. Live(t) /\ t.reader.phase = "none"
    BY <1>1, <1>3 DEF TurnInv, PhaseInv, Running, Live
  <2>2. t' = t
    BY <1>1, <1>3 DEF FinishMessage
  <2> QED
    BY <1>1, <2>1, <2>2, HaltingStep DEF Live
<1>4. CASE t.finished
  <2>1. t' = t
    BY <1>1, <1>4 DEF FinishMessage, CloseMessage
  <2>2. ~Running /\ ~Running' /\ Running' \in BOOLEAN
    BY <1>1, <1>4 DEF Running
  <2>3. StateType' /\ PhaseInv'
    BY <1>1, <2>1, <2>2 DEF TurnInv, StateType, PhaseInv, Running
  <2>4. ClosesProperly'
    BY <1>1, <2>1 DEF TurnInv, SearchInv, ClosesProperly, reader
  <2>5. SearchInv'
    BY <2>2, <2>4 DEF SearchInv, Running
  <2>6. CallInv'
    BY <1>1, <2>1, DoneStays
  <2> QED
    BY <2>3, <2>5, <2>6 DEF TurnInv
<1> QED
  BY <1>2, <1>3, <1>4

(* Every step, and none, preserves it.                                     *)
LEMMA TurnInvStep == TurnInv /\ [Next]_vars => TurnInv'
<1> SUFFICES ASSUME TurnInv, [Next]_vars PROVE TurnInv'
  OBVIOUS
<1>1. CASE Created
  BY <1>1, CreatedStep
<1>2. CASE \E kind \in {Text, Thinking} : Streams(kind)
  BY <1>2, StreamsStep
<1>3. CASE DoneMessage \/ DoneReasoning
  BY <1>3, ItemStep
<1>4. CASE \E c \in Calls : \/ \E named \in BOOLEAN : AddCall(c, named)
                           \/ StreamFragment(c) \/ DoneCall(c)
  BY <1>4, AddCallStep, StreamFragmentStep, DoneCallStep
<1>5. CASE \E s \in Searches : DoneSearch(s)
  BY <1>5, SearchStep
<1>6. CASE Completed \/ Incomplete \/ Failed \/ Truncated \/ CloseStream \/ Break
  BY <1>6, CompletedStep, IncompleteStep, FailedStep, TruncatedStep, CloseStreamStep, BreakStep
<1>7. CASE UNCHANGED vars
  <2>1. UNCHANGED <<t, call, streamed, ran, mixed, stream, outcome>>
    BY <1>7 DEF vars, upstream
  <2>2. StateType' /\ PhaseInv'
    BY <2>1 DEF TurnInv, StateType, PhaseInv, Running
  <2>3. ClosesProperly'
    BY <2>1 DEF TurnInv, SearchInv, ClosesProperly, reader
  <2>4. SearchInv'
    BY <2>1, <2>3 DEF TurnInv, SearchInv, Running
  <2>5. CallInv'
    BY <2>1 DEF TurnInv, CallInv, CallFits
  <2> QED
    BY <2>2, <2>4, <2>5 DEF TurnInv
<1> QED
  BY <1>1, <1>2, <1>3, <1>4, <1>5, <1>6, <1>7 DEF Next

-----------------------------------------------------------------------------
(* What holds of every turn.                                               *)

(* The invariant holds throughout a turn, and every property follows.       *)
THEOREM TurnHolds == Spec => []TurnInv
<1> QED
  BY TurnInvInit, TurnInvStep, PTL DEF Spec

(* The translator's own idea of the open block and its index is the        *)
(* reader's, for any number of calls, searches and fragments.              *)
THEOREM TypeCorrect == Spec => []TypeOK
<1>1. TurnInv => TypeOK
  BY TurnInvImplies
<1> QED
  BY <1>1, TurnHolds, PTL

(* response.rs: whatever the backend mixes, every frame is one the client  *)
(* can take, and a message that was begun has ended when the stream is.    *)
THEOREM EveryFrameIsReadable == Spec => []ClientCanRead
<1>1. TurnInv => ClientCanRead
  BY TurnInvImplies
<1> QED
  BY <1>1, TurnHolds, PTL

(* response.rs, item_done: the arguments of every call done reach the      *)
(* client, whole and once.                                                 *)
THEOREM CallsAreForwardedOnce == Spec => []CallsAreWhole
<1>1. TurnInv => CallsAreWhole
  BY TurnInvImplies
<1> QED
  BY <1>1, TurnHolds, PTL

(* response.rs, close_message: the stop reason is the turn's, and every    *)
(* search that ran is emitted, its result after it, after the rest.        *)
THEOREM MessagesCloseProperly == Spec => []ClosesProperly
<1>1. TurnInv => ClosesProperly
  BY TurnInvImplies
<1> QED
  BY <1>1, TurnHolds, PTL

(* aggregate.rs: the one body is what the stream shows.                    *)
THEOREM BodiesInventNothing == Spec => []BodyIsWhatAStreamShows
<1>1. TurnInv => BodyIsWhatAStreamShows
  BY TurnInvImplies
<1> QED
  BY <1>1, TurnHolds, PTL

-----------------------------------------------------------------------------
(* Efforts.                                                                *)

Levels == Efforts \cup {Unstated}

-----------------------------------------------------------------------------
(* The levels are few: a set of some of them has a highest and a lowest.   *)
LEMMA HighestExists ==
  ASSUME NEW S \in SUBSET Efforts, S # {}
  PROVE  \E e \in S : IsHighest(e, S)
<1>1. CASE 7 \in S BY <1>1 DEF Efforts, IsHighest
<1>2. CASE 7 \notin S /\ 6 \in S BY <1>2 DEF Efforts, IsHighest
<1>3. CASE {6, 7} \cap S = {} /\ 5 \in S BY <1>3 DEF Efforts, IsHighest
<1>4. CASE {5, 6, 7} \cap S = {} /\ 4 \in S BY <1>4 DEF Efforts, IsHighest
<1>5. CASE {4, 5, 6, 7} \cap S = {} /\ 3 \in S BY <1>5 DEF Efforts, IsHighest
<1>6. CASE {3, 4, 5, 6, 7} \cap S = {} /\ 2 \in S BY <1>6 DEF Efforts, IsHighest
<1>7. CASE {2, 3, 4, 5, 6, 7} \cap S = {} /\ 1 \in S BY <1>7 DEF Efforts, IsHighest
<1>8. CASE {1, 2, 3, 4, 5, 6, 7} \cap S = {}
  <2>1. \A e \in S : e = 0 BY <1>8 DEF Efforts
  <2>2. QED BY <2>1 DEF IsHighest
<1>9. QED BY <1>1, <1>2, <1>3, <1>4, <1>5, <1>6, <1>7, <1>8

LEMMA LowestExists ==
  ASSUME NEW S \in SUBSET Efforts, S # {}
  PROVE  \E e \in S : IsLowest(e, S)
<1>1. CASE 0 \in S BY <1>1 DEF Efforts, IsLowest
<1>2. CASE 0 \notin S /\ 1 \in S BY <1>2 DEF Efforts, IsLowest
<1>3. CASE {0, 1} \cap S = {} /\ 2 \in S BY <1>3 DEF Efforts, IsLowest
<1>4. CASE {0, 1, 2} \cap S = {} /\ 3 \in S BY <1>4 DEF Efforts, IsLowest
<1>5. CASE {0, 1, 2, 3} \cap S = {} /\ 4 \in S BY <1>5 DEF Efforts, IsLowest
<1>6. CASE {0, 1, 2, 3, 4} \cap S = {} /\ 5 \in S BY <1>6 DEF Efforts, IsLowest
<1>7. CASE {0, 1, 2, 3, 4, 5} \cap S = {} /\ 6 \in S BY <1>7 DEF Efforts, IsLowest
<1>8. CASE {0, 1, 2, 3, 4, 5, 6} \cap S = {}
  <2>1. \A e \in S : e = 7 BY <1>8 DEF Efforts
  <2>2. QED BY <2>1 DEF IsLowest
<1>9. QED BY <1>1, <1>2, <1>3, <1>4, <1>5, <1>6, <1>7, <1>8

(* The level that is taken of those the model states.                      *)
LEMMA NearestIsNearest ==
  ASSUME NEW chosen \in Efforts, NEW supported \in SUBSET Efforts, supported # {}
  PROVE  /\ NearestSupported(chosen, supported) \in supported
         /\ \A e \in supported : e <= chosen => e <= NearestSupported(chosen, supported)
         /\ (\E e \in supported : e <= chosen) => NearestSupported(chosen, supported) <= chosen
         /\ (\A e \in supported : e > chosen) =>
              \A e \in supported : NearestSupported(chosen, supported) <= e
<1> DEFINE atOrBelow == {e \in supported : e <= chosen}
<1>1. CASE atOrBelow # {}
  <2>1. PICK h \in atOrBelow : IsHighest(h, atOrBelow)
    <3>1. atOrBelow \in SUBSET Efforts OBVIOUS
    <3>2. QED BY <1>1, <3>1, HighestExists
  <2>2. IsHighest(NearestSupported(chosen, supported), atOrBelow)
    BY <1>1, <2>1 DEF NearestSupported
  <2>3. QED BY <1>1, <2>2 DEF IsHighest, Efforts
<1>2. CASE atOrBelow = {}
  <2>1. PICK l \in supported : IsLowest(l, supported) BY LowestExists
  <2>2. IsLowest(NearestSupported(chosen, supported), supported)
    BY <1>2, <2>1 DEF NearestSupported
  <2>3. QED BY <1>2, <2>2 DEF IsLowest, Efforts
<1>3. QED BY <1>1, <1>2

-----------------------------------------------------------------------------
(* request.rs `effort_for`: to a model that states its levels, only one of *)
(* them goes up, and if any is stated at all, one is stated.               *)
THEOREM EffortIsSupported ==
  ASSUME NEW requested \in Levels, NEW ceiling \in Levels,
         NEW supported \in SUBSET Efforts, supported # {},
         Chosen(requested, ceiling) # Unstated
  PROVE  EffortFor(requested, ceiling, supported) \in supported
<1>1. Chosen(requested, ceiling) \in Efforts BY DEF Chosen, Levels, Lower, Efforts, Unstated
<1>2. QED BY <1>1, NearestIsNearest DEF EffortFor

(* The client never gets more than it or the operator allowed, unless the  *)
(* model takes nothing that little, and then it gets the least there is.   *)
THEOREM EffortIsAllowed ==
  ASSUME NEW requested \in Levels, NEW ceiling \in Levels,
         NEW supported \in SUBSET Efforts
  PROVE  LET effort == EffortFor(requested, ceiling, supported)
             allowed(e) == /\ requested # Unstated => e <= requested
                           /\ ceiling # Unstated => e <= ceiling
         IN  allowed(effort) \/ \A e \in supported : ~allowed(e) /\ effort <= e
<1> DEFINE effort == EffortFor(requested, ceiling, supported)
           chosen == Chosen(requested, ceiling)
           allowed(e) == /\ requested # Unstated => e <= requested
                         /\ ceiling # Unstated => e <= ceiling
<1>1. CASE chosen = Unstated
  BY <1>1 DEF Chosen, EffortFor, Levels, Lower, Efforts, Unstated
<1>2. CASE chosen # Unstated
  <2>1. /\ chosen \in Efforts
        /\ \A e \in Efforts : e <= chosen <=> allowed(e)
    BY <1>2 DEF Chosen, Levels, Lower, Efforts, Unstated
  <2>2. CASE supported = {}
    <3>1. effort = chosen BY <1>2, <2>2 DEF EffortFor, NearestSupported
    <3>2. QED BY <2>1, <3>1 DEF Efforts
  <2>3. CASE supported # {}
    <3>1. effort = NearestSupported(chosen, supported) BY <1>2 DEF EffortFor
    <3>2. /\ effort \in supported
          /\ (\E e \in supported : e <= chosen) => effort <= chosen
          /\ (\A e \in supported : e > chosen) => \A e \in supported : effort <= e
      BY <2>1, <2>3, <3>1, NearestIsNearest
    <3>3. CASE \E e \in supported : e <= chosen BY <2>1, <3>2, <3>3 DEF Efforts
    <3>4. CASE \A e \in supported : e > chosen BY <2>1, <3>2, <3>4 DEF Efforts
    <3>5. QED BY <2>1, <3>3, <3>4 DEF Efforts
  <2>4. QED BY <2>2, <2>3
<1>3. QED BY <1>1, <1>2

-----------------------------------------------------------------------------
(* The elements of a sequence that are wanted.                             *)

Unwanted(s, wanted) == {i \in 1..Len(s) : s[i] \notin wanted}

(* Only is what leaving the others out, one after another, comes to.       *)
LEMMA OnlyIsLast ==
  ASSUME NEW s, Len(s) \in Nat, NEW wanted
  PROVE  \E only : /\ Keeping(s, Unwanted(s, wanted), Len(s), only)
                   /\ Only(s, wanted) = only[Len(s)]
<1> DEFINE n == Len(s)
           Picking(only) ==
             only = [i \in 0..n |-> IF i = 0 THEN << >>
                                    ELSE IF s[i] \in wanted THEN Append(only[i - 1], s[i])
                                    ELSE only[i - 1]]
           chosen == CHOOSE only : Picking(only)
<1>1. ASSUME NEW only PROVE Picking(only) <=> Keeping(s, Unwanted(s, wanted), n, only)
  <2>1. ASSUME NEW i \in 0..n, i # 0
        PROVE  Grown(only[i - 1], s, Unwanted(s, wanted), i) =
                 IF s[i] \in wanted THEN Append(only[i - 1], s[i]) ELSE only[i - 1]
    BY <2>1 DEF Grown, Unwanted
  <2>2. [i \in 0..n |-> IF i = 0 THEN << >> ELSE Grown(only[i - 1], s, Unwanted(s, wanted), i)] =
        [i \in 0..n |-> IF i = 0 THEN << >>
                        ELSE IF s[i] \in wanted THEN Append(only[i - 1], s[i])
                        ELSE only[i - 1]]
    BY <2>1
  <2> QED
    BY <2>2, Zenon DEF Keeping
<1>2. \E only : Picking(only)
  BY <1>1, KeepingExists
<1>3. Picking(chosen)
  BY <1>2, Zenon
<1>4. Only(s, wanted) = chosen[n]
  BY Zenon DEF Only
<1> HIDE DEF chosen, Picking
<1> QED
  BY <1>1, <1>3, <1>4

(* Of no element none is wanted.                                           *)
LEMMA OnlyOfEmpty == ASSUME NEW wanted PROVE Only(<< >>, wanted) = << >>
<1>1. Len(<< >>) = 0
  BY EmptySeq
<1> QED
  BY <1>1, OnlyIsLast DEF Keeping

(* Of one element more it is kept when it is wanted.                       *)
LEMMA OnlyOfAppend ==
  ASSUME NEW S, NEW s \in Seq(S), NEW e \in S, NEW wanted
  PROVE  Only(Append(s, e), wanted) = IF e \in wanted THEN Append(Only(s, wanted), e)
                                      ELSE Only(s, wanted)
<1> DEFINE n == Len(s)
           longer == Append(s, e)
<1>1. n \in Nat /\ Len(longer) = n + 1 /\ longer[n + 1] = e
      /\ \A i \in 1..n : s[i] = longer[i]
  BY AppendProperties, LenProperties
<1> HIDE DEF longer
<1>2. /\ \A i \in 1..n : s[i] = longer[i]
                           /\ (i \in Unwanted(s, wanted) <=> i \in Unwanted(longer, wanted))
      /\ n + 1 \in Unwanted(longer, wanted) <=> e \notin wanted
  BY <1>1 DEF Unwanted
<1>3. PICK kept : Keeping(s, Unwanted(s, wanted), n, kept) /\ Only(s, wanted) = kept[n]
  BY <1>1, OnlyIsLast
<1>4. PICK m \in Nat : m = n + 1
  BY <1>1
<1>5. PICK wider : Keeping(longer, Unwanted(longer, wanted), m, wider) /\ Only(longer, wanted) = wider[m]
  BY <1>1, <1>4, OnlyIsLast
<1> HIDE DEF n
<1>6. n <= m /\ n \in 0..n /\ n \in 0..(m - 1)
  BY <1>1, <1>4
<1>7. kept[n] = wider[n]
  BY <1>1, <1>2, <1>3, <1>5, <1>6, KeepingAgrees
<1>8. wider[n + 1] = Grown(wider[n], longer, Unwanted(longer, wanted), n + 1)
  <2>1. Keeping(longer, Unwanted(longer, wanted), m, wider)
    BY <1>5
  <2>2. \A i \in 0..(m - 1) : wider[i + 1] = Grown(wider[i], longer, Unwanted(longer, wanted), i + 1)
    BY <2>1, KeepingStep
  <2> QED
    BY <2>2, <1>6
<1> QED
  BY <1>1, <1>2, <1>3, <1>4, <1>5, <1>7, <1>8 DEF longer, Grown

(* What is wanted matters only of the elements there are.                  *)
LEMMA OnlySame ==
  ASSUME NEW S, NEW s \in Seq(S), NEW wanted, NEW named,
         \A e \in S : e \in wanted <=> e \in named
  PROVE  Only(s, wanted) = Only(s, named)
<1> DEFINE Same == {c \in Seq(S) : Only(c, wanted) = Only(c, named)}
<1>1. << >> \in Same
  BY OnlyOfEmpty, EmptySeq
<1>2. ASSUME NEW c \in Seq(S), NEW e \in S, c \in Same PROVE Append(c, e) \in Same
  <2>1. Append(c, e) \in Seq(S) /\ Only(c, wanted) = Only(c, named)
        /\ (e \in wanted <=> e \in named)
    BY <1>2, AppendProperties
  <2>2. Only(Append(c, e), wanted) = IF e \in wanted THEN Append(Only(c, wanted), e)
                                     ELSE Only(c, wanted)
    BY OnlyOfAppend
  <2>3. Only(Append(c, e), named) = IF e \in named THEN Append(Only(c, named), e)
                                    ELSE Only(c, named)
    BY OnlyOfAppend
  <2> QED
    BY <2>1, <2>2, <2>3
<1>3. Seq(S) \subseteq Same
  <2> HIDE DEF Same
  <2> QED
    BY <1>1, <1>2, SequenceInduction
<1> QED
  BY <1>3

(* What is kept are elements of the sequence that are wanted.              *)
LEMMA OnlyType ==
  ASSUME NEW S, NEW s \in Seq(S), NEW wanted
  PROVE  Only(s, wanted) \in Seq(S)
<1> DEFINE Typed == {c \in Seq(S) : Only(c, wanted) \in Seq(S)}
<1>1. << >> \in Typed
  BY OnlyOfEmpty, EmptySeq
<1>2. ASSUME NEW c \in Seq(S), NEW e \in S, c \in Typed PROVE Append(c, e) \in Typed
  <2>1. Append(c, e) \in Seq(S) /\ Only(c, wanted) \in Seq(S)
    BY <1>2, AppendProperties
  <2>2. Append(Only(c, wanted), e) \in Seq(S)
    BY <2>1, AppendProperties
  <2> QED
    BY <2>1, <2>2, OnlyOfAppend
<1>3. Seq(S) \subseteq Typed
  <2> HIDE DEF Typed
  <2> QED
    BY <1>1, <1>2, SequenceInduction
<1> QED
  BY <1>3

(* A sequence is one of the elements it has.                               *)
LEMMA ElementsOf ==
  ASSUME NEW S, NEW s \in Seq(S)
  PROVE  s \in Seq(ToSet(s)) /\ ToSet(s) \subseteq S
<1>1. /\ Len(s) \in Nat /\ DOMAIN s = 1..Len(s) /\ s = [i \in 1..Len(s) |-> s[i]]
      /\ \A i \in 1..Len(s) : s[i] \in S
  BY LenProperties
<1>2. \A i \in 1..Len(s) : s[i] \in ToSet(s)
  BY <1>1 DEF ToSet
<1>3. s \in Seq(ToSet(s))
  BY <1>1, <1>2, IsASeq
<1>4. ToSet(s) \subseteq S
  BY <1>1 DEF ToSet
<1> QED
  BY <1>3, <1>4

(* The items of a kind, the calls among the blocks that were read, and the *)
(* tools a result refers to, as elements of whatever the sequence is of.   *)
LEMMA WantedOfKind ==
  ASSUME NEW S, NEW s \in Seq(S), NEW kind
  PROVE  OfKind(s, kind) = Only(s, {item \in S : item.kind = kind})
<1>1. s \in Seq(ToSet(s)) /\ ToSet(s) \subseteq S
  BY ElementsOf
<1>2. \A e \in ToSet(s) : e \in {item \in ToSet(s) : item.kind = kind}
                             <=> e \in {item \in S : item.kind = kind}
  BY <1>1
<1> QED
  BY <1>1, <1>2, OnlySame DEF OfKind

(* Of the blocks read: the calls the client is to answer.                 *)
LEMMA WantedCalls ==
  ASSUME NEW S, NEW s \in Seq(S)
  PROVE  CallsRead(s) = Only(s, {piece \in S : piece.block.is = "tool_use"})
<1>1. s \in Seq(ToSet(s)) /\ ToSet(s) \subseteq S
  BY ElementsOf
<1>2. \A e \in ToSet(s) : e \in {piece \in ToSet(s) : piece.block.is = "tool_use"}
                             <=> e \in {piece \in S : piece.block.is = "tool_use"}
  BY <1>1
<1> QED
  BY <1>1, <1>2, OnlySame DEF CallsRead

(* Of the blocks of a result: the tools it refers to.                      *)
LEMMA WantedReferences ==
  ASSUME NEW S, NEW s \in Seq(S)
  PROVE  References(s) = Only(s, {b \in S : b.is = "tool_reference"})
<1>1. s \in Seq(ToSet(s)) /\ ToSet(s) \subseteq S
  BY ElementsOf
<1>2. \A e \in ToSet(s) : e \in {b \in ToSet(s) : b.is = "tool_reference"}
                             <=> e \in {b \in S : b.is = "tool_reference"}
  BY <1>1
<1> QED
  BY <1>1, <1>2, OnlySame DEF References

(* Of one item more, the items of a kind are one more when it is of it.    *)
LEMMA KindOfAppend ==
  ASSUME NEW S, NEW s \in Seq(S), NEW e \in S, NEW kind
  PROVE  OfKind(Append(s, e), kind) = IF e.kind = kind THEN Append(OfKind(s, kind), e)
                                      ELSE OfKind(s, kind)
<1> DEFINE wanted == {item \in S : item.kind = kind}
<1>1. Append(s, e) \in Seq(S) /\ (e \in wanted <=> e.kind = kind)
  BY AppendProperties
<1>2. OfKind(s, kind) = Only(s, wanted) /\ OfKind(Append(s, e), kind) = Only(Append(s, e), wanted)
  BY <1>1, WantedOfKind
<1> HIDE DEF wanted
<1>3. Only(Append(s, e), wanted) = IF e \in wanted THEN Append(Only(s, wanted), e)
                                   ELSE Only(s, wanted)
  BY OnlyOfAppend
<1> QED
  BY <1>1, <1>2, <1>3

(* Of one block more that was read, the calls are one more when it is one. *)
LEMMA CallsOfAppend ==
  ASSUME NEW S, NEW s \in Seq(S), NEW e \in S
  PROVE  CallsRead(Append(s, e)) = IF e.block.is = "tool_use" THEN Append(CallsRead(s), e)
                                   ELSE CallsRead(s)
<1> DEFINE wanted == {piece \in S : piece.block.is = "tool_use"}
<1>1. Append(s, e) \in Seq(S) /\ (e \in wanted <=> e.block.is = "tool_use")
  BY AppendProperties
<1>2. CallsRead(s) = Only(s, wanted) /\ CallsRead(Append(s, e)) = Only(Append(s, e), wanted)
  BY <1>1, WantedCalls
<1> HIDE DEF wanted
<1>3. Only(Append(s, e), wanted) = IF e \in wanted THEN Append(Only(s, wanted), e)
                                   ELSE Only(s, wanted)
  BY OnlyOfAppend
<1> QED
  BY <1>1, <1>2, <1>3

(* Of one block more of a result, the references are.                      *)
LEMMA ReferencesOfAppend ==
  ASSUME NEW S, NEW s \in Seq(S), NEW e \in S
  PROVE  References(Append(s, e)) = IF e.is = "tool_reference" THEN Append(References(s), e)
                                    ELSE References(s)
<1> DEFINE wanted == {b \in S : b.is = "tool_reference"}
<1>1. Append(s, e) \in Seq(S) /\ (e \in wanted <=> e.is = "tool_reference")
  BY AppendProperties
<1>2. References(s) = Only(s, wanted) /\ References(Append(s, e)) = Only(Append(s, e), wanted)
  BY <1>1, WantedReferences
<1> HIDE DEF wanted
<1>3. Only(Append(s, e), wanted) = IF e \in wanted THEN Append(Only(s, wanted), e)
                                   ELSE Only(s, wanted)
  BY OnlyOfAppend
<1> QED
  BY <1>1, <1>2, <1>3

(* Of nothing there is none of them.                                       *)
LEMMA NoneOfEmpty ==
  /\ \A kind : OfKind(<< >>, kind) = << >>
  /\ CallsRead(<< >>) = << >> /\ References(<< >>) = << >>
BY OnlyOfEmpty DEF OfKind, CallsRead, References

-----------------------------------------------------------------------------
(* The items a message's blocks become.                                    *)

Nothing == [items |-> << >>, parts |-> << >>]

(* The function that computes what the first blocks come to.               *)
Translating(from, blocks, n, after) ==
  after = [i \in 0..n |-> IF i = 0 THEN Nothing ELSE TranslateBlock(from, after[i - 1], blocks[i])]

(* There is such a function, however many the blocks.                      *)
LEMMA TranslatingExists ==
  ASSUME NEW from, NEW blocks, NEW n \in Nat
  PROVE  \E after : Translating(from, blocks, n, after)
<1> DEFINE Defined == {m \in Nat : \E after : Translating(from, blocks, m, after)}
<1>1. 0 \in Defined
  <2>1. Translating(from, blocks, 0, [i \in 0..0 |-> Nothing])
    BY DEF Translating
  <2> QED
    BY <2>1
<1>2. ASSUME NEW m \in Nat, m \in Defined PROVE m + 1 \in Defined
  <2>1. PICK after : Translating(from, blocks, m, after)
    BY <1>2
  <2> DEFINE last == TranslateBlock(from, after[m], blocks[m + 1])
             longer == [i \in 0..(m + 1) |-> IF i = m + 1 THEN last ELSE after[i]]
  <2>2. Translating(from, blocks, m + 1, longer)
    <3>1. after[0] = Nothing
          /\ \A i \in 1..m : after[i] = TranslateBlock(from, after[i - 1], blocks[i])
      BY <2>1 DEF Translating
    <3>2. longer[0] = Nothing
      BY <3>1
    <3>3. ASSUME NEW i \in 1..(m + 1)
          PROVE  longer[i] = TranslateBlock(from, longer[i - 1], blocks[i])
      <4>1. i - 1 \in 0..m /\ longer[i - 1] = after[i - 1]
        OBVIOUS
      <4>2. CASE i = m + 1
        <5>1. i - 1 = m /\ longer[i] = last
          BY <4>2
        <5> QED
          BY <5>1, <4>1, <4>2
      <4>3. CASE i # m + 1
        <5>1. i \in 1..m /\ longer[i] = after[i]
          BY <4>3
        <5> QED
          BY <5>1, <4>1, <3>1
      <4> QED
        BY <4>2, <4>3
    <3>4. longer = [i \in 0..(m + 1) |-> longer[i]]
      OBVIOUS
    <3> HIDE DEF longer
    <3>5. \A i \in 0..(m + 1) :
            longer[i] = IF i = 0 THEN Nothing ELSE TranslateBlock(from, longer[i - 1], blocks[i])
      BY <3>2, <3>3
    <3>6. [i \in 0..(m + 1) |-> longer[i]] =
            [i \in 0..(m + 1) |-> IF i = 0 THEN Nothing
                                  ELSE TranslateBlock(from, longer[i - 1], blocks[i])]
      BY <3>5
    <3> QED
      BY <3>4, <3>6, Zenon DEF Translating
  <2> QED
    BY <2>2
<1>3. Nat \subseteq Defined
  <2> HIDE DEF Defined
  <2> QED
    BY <1>1, <1>2, NumberInduction
<1> QED
  BY <1>3

(* TranslateBlocks is what that function says of all the blocks.           *)
LEMMA TranslatedIsLast ==
  ASSUME NEW from, NEW blocks, Len(blocks) \in Nat
  PROVE  \E after : /\ Translating(from, blocks, Len(blocks), after)
                    /\ TranslateBlocks(from, blocks) = after[Len(blocks)]
<1> DEFINE n == Len(blocks)
           chosen == CHOOSE after :
                       after = [i \in 0..n |-> IF i = 0 THEN [items |-> << >>, parts |-> << >>]
                                   ELSE TranslateBlock(from, after[i - 1], blocks[i])]
<1>1. \E after : Translating(from, blocks, n, after)
  BY TranslatingExists
<1>2. Translating(from, blocks, n, chosen)
  BY <1>1, Zenon DEF Translating, Nothing
<1>3. TranslateBlocks(from, blocks) = chosen[n]
  BY Zenon DEF TranslateBlocks
<1> HIDE DEF chosen
<1> QED
  BY <1>2, <1>3

(* No block comes to nothing.                                              *)
LEMMA BlocksOfEmpty == ASSUME NEW from PROVE TranslateBlocks(from, << >>) = Nothing
<1>1. Len(<< >>) = 0
  BY EmptySeq
<1> QED
  BY <1>1, TranslatedIsLast DEF Translating

(* One block more is translated after the others.                          *)
LEMMA BlocksOfAppend ==
  ASSUME NEW from, NEW S, NEW s \in Seq(S), NEW b \in S
  PROVE  TranslateBlocks(from, Append(s, b)) = TranslateBlock(from, TranslateBlocks(from, s), b)
<1> DEFINE n == Len(s)
           longer == Append(s, b)
<1>1. n \in Nat /\ Len(longer) = n + 1 /\ longer[n + 1] = b
      /\ \A i \in 1..n : longer[i] = s[i]
  BY AppendProperties, LenProperties
<1> HIDE DEF longer
<1>2. PICK after : Translating(from, s, n, after) /\ TranslateBlocks(from, s) = after[n]
  BY <1>1, TranslatedIsLast
<1>3. PICK m \in Nat : m = n + 1
  BY <1>1
<1>4. PICK wider : Translating(from, longer, m, wider) /\ TranslateBlocks(from, longer) = wider[m]
  BY <1>1, <1>3, TranslatedIsLast
<1> HIDE DEF n
<1>5. after[0] = Nothing
      /\ \A i \in 1..n : after[i] = TranslateBlock(from, after[i - 1], s[i])
  BY <1>1, <1>2 DEF Translating
<1>6. wider[0] = Nothing
      /\ \A i \in 1..m : wider[i] = TranslateBlock(from, wider[i - 1], longer[i])
  BY <1>3, <1>4 DEF Translating
<1> DEFINE Agree == {i \in Nat : i <= n => wider[i] = after[i]}
<1>7. 0 \in Agree
  BY <1>5, <1>6
<1>8. ASSUME NEW i \in Nat, i \in Agree PROVE i + 1 \in Agree
  <2>1. SUFFICES ASSUME i + 1 <= n PROVE wider[i + 1] = after[i + 1]
    OBVIOUS
  <2>2. i + 1 \in 1..n /\ i + 1 \in 1..m /\ (i + 1) - 1 = i
    BY <1>1, <1>3, <2>1
  <2>3. wider[i] = after[i] /\ longer[i + 1] = s[i + 1]
    BY <1>1, <1>8, <2>1, <2>2
  <2>4. after[i + 1] = TranslateBlock(from, after[(i + 1) - 1], s[i + 1])
    BY <1>5, <2>2
  <2>5. wider[i + 1] = TranslateBlock(from, wider[(i + 1) - 1], longer[i + 1])
    BY <1>6, <2>2
  <2> QED
    BY <2>2, <2>3, <2>4, <2>5
<1>9. Nat \subseteq Agree
  <2> HIDE DEF Agree
  <2> QED
    BY <1>7, <1>8, NumberInduction
<1>10. wider[n] = after[n] /\ m \in 1..m /\ m - 1 = n
  BY <1>1, <1>3, <1>9
<1>11. wider[m] = TranslateBlock(from, wider[m - 1], longer[m])
  BY <1>6, <1>10
<1> QED
  BY <1>1, <1>2, <1>3, <1>4, <1>10, <1>11 DEF longer

-----------------------------------------------------------------------------
(* The blocks a client hands back.                                         *)

Part == [part : {"output_text", "input_text"}, text : Seq(Int)]

(* The items of a conversation, but for what calls came back with.         *)
Item == [kind : {"message"}, role : {"user", "assistant"}, parts : Seq(Part)]
        \cup [kind : {"function_call"}, id : Calls, arguments : Seq(Nat)]
        \cup [kind : {"reasoning"}]

Translated == [items : Seq(Item), parts : Seq(Part)]

(* What the blocks read come to, part of a message's way.                  *)
Acc(read) == TranslateBlocks("assistant", Blocks(read))

(* The items a whole message of them becomes.                              *)
Shown(read) == Flush("assistant", Acc(read)).items

Spoken(x) == Message("assistant", <<TextPart("assistant", x)>>)

(* The parts so far are one message item more, when there are any.         *)
LEMMA Flushed ==
  ASSUME NEW I, NEW acc \in [items : Seq(I), parts : Seq(Part)], NEW role,
         acc.parts # << >> => Message(role, acc.parts) \in I
  PROVE  LET flushed == Flush(role, acc)
         IN  /\ flushed \in [items : Seq(I), parts : Seq(Part)] /\ flushed.parts = << >>
             /\ flushed.items = IF acc.parts = << >> THEN acc.items
                                ELSE Append(acc.items, Message(role, acc.parts))
<1> DEFINE now == Message(role, acc.parts)
           flushed == Flush(role, acc)
<1>1. acc.items \in Seq(I) /\ acc.parts \in Seq(Part) /\ << >> \in Seq(Part)
      /\ acc.parts # << >> => now \in I
  BY EmptySeq
<1>2. CASE acc.parts = << >>
  BY <1>1, <1>2 DEF Flush
<1>3. CASE acc.parts # << >>
  <2>1. flushed = [items |-> Append(acc.items, now), parts |-> << >>]
    BY <1>3 DEF Flush
  <2> HIDE DEF flushed, now
  <2>2. Append(acc.items, now) \in Seq(I)
    BY <1>1, <1>3, AppendProperties
  <2> QED
    BY <1>1, <1>3, <2>1, <2>2 DEF flushed, now
<1> QED
  BY <1>2, <1>3

(* What one block more of an assistant's message makes of them: a text is  *)
(* a part more, a call an item after the parts so far; the rest is dropped.*)
LEMMA BlockIsTranslated ==
  ASSUME NEW acc \in Translated, NEW piece \in Piece
  PROVE  LET next == TranslateBlock("assistant", acc, AsBlock(piece))
             part == TextPart("assistant", piece.content)
             done == FunctionCall(piece.block.id, piece.content)
         IN  /\ next \in Translated
             /\ piece.block.is = "text" =>
                  next = [items |-> acc.items, parts |-> Append(acc.parts, part)]
             /\ piece.block.is = "tool_use" =>
                  next = [items |-> Append(Flush("assistant", acc).items, done), parts |-> << >>]
             /\ piece.block.is \notin {"text", "tool_use"} => next = acc
<1> DEFINE next == TranslateBlock("assistant", acc, AsBlock(piece))
           part == TextPart("assistant", piece.content)
           done == FunctionCall(piece.block.id, piece.content)
           flushed == Flush("assistant", acc)
<1>0. piece.block \in BlockType /\ piece.content \in Seq(Nat) /\ piece.content \in Seq(Int)
  <2>1. Nat \subseteq Int
    OBVIOUS
  <2>2. piece.content \in Seq(Nat) /\ piece.block \in BlockType
    BY DEF Piece
  <2> QED
    BY <2>1, <2>2, SeqMonotonic
<1>1. acc.items \in Seq(Item) /\ acc.parts \in Seq(Part)
      /\ acc = [items |-> acc.items, parts |-> acc.parts]
  BY DEF Translated
<1>2. ItemRole("assistant") = "assistant"
  BY DEF ItemRole
<1>3. flushed \in Translated /\ flushed.parts = << >>
  <2>1. Message("assistant", acc.parts) \in Item
    BY <1>1 DEF Item, Message
  <2> QED
    BY <2>1, Flushed DEF Translated
<1>4. ASSUME piece.block.is = "text"
      PROVE  next \in Translated /\ next = [items |-> acc.items, parts |-> Append(acc.parts, part)]
  <2>1. AsBlock(piece) = [is |-> "text", text |-> piece.content]
    BY <1>4 DEF AsBlock, TextBlock
  <2>2. next = AddParts(acc, <<part>>)
    BY <1>2, <2>1 DEF TranslateBlock
  <2>3. part \in Part
    BY <1>0 DEF Part, TextPart
  <2> HIDE DEF part
  <2>4. acc.parts \o <<part>> = Append(acc.parts, part) /\ Append(acc.parts, part) \in Seq(Part)
    BY <1>1, <2>3, AppendIsConcat, AppendProperties
  <2>5. AddParts(acc, <<part>>) = [items |-> acc.items, parts |-> acc.parts \o <<part>>]
    BY <1>1 DEF AddParts
  <2> HIDE DEF next
  <2>6. next = [items |-> acc.items, parts |-> Append(acc.parts, part)]
    BY <2>2, <2>4, <2>5
  <2> QED
    BY <1>1, <2>4, <2>6 DEF Translated
<1>5. ASSUME piece.block.is = "tool_use"
      PROVE  /\ next \in Translated
             /\ next = [items |-> Append(flushed.items, done), parts |-> << >>]
  <2>1. AsBlock(piece) = [is |-> "tool_use", id |-> piece.block.id, input |-> piece.content]
    BY <1>5 DEF AsBlock, ToolUseBlock
  <2>2. next = AddItems("assistant", acc, <<done>>)
    BY <1>2, <2>1 DEF TranslateBlock
  <2>3. done \in Item
    <3>1. piece.block.id \in Calls
      BY <1>0, <1>5 DEF BlockType, ToolUse, Text, Thinking, ServerToolUse, SearchResult
    <3> QED
      BY <1>0, <3>1 DEF Item, FunctionCall
  <2> HIDE DEF done
  <2>4. AddItems("assistant", acc, <<done>>) = [flushed EXCEPT !.items = @ \o <<done>>]
    BY DEF AddItems
  <2> HIDE DEF flushed
  <2>5. flushed.items \in Seq(Item)
        /\ flushed = [items |-> flushed.items, parts |-> << >>]
    BY <1>3 DEF Translated
  <2>6. flushed.items \o <<done>> = Append(flushed.items, done)
        /\ Append(flushed.items, done) \in Seq(Item)
    BY <2>3, <2>5, AppendIsConcat, AppendProperties
  <2>7. next = [items |-> Append(flushed.items, done), parts |-> << >>]
    BY <2>2, <2>4, <2>5, <2>6
  <2>8. << >> \in Seq(Part)
    BY EmptySeq
  <2> HIDE DEF next
  <2> QED
    BY <2>6, <2>7, <2>8 DEF Translated
<1>6. ASSUME piece.block.is \notin {"text", "tool_use"} PROVE next = acc
  <2>1. AsBlock(piece).is \in {"thinking", "unknown"}
    BY <1>6 DEF AsBlock, ThinkingBlock, UnknownBlock
  <2> QED
    BY <2>1 DEF TranslateBlock
<1> HIDE DEF next, part, done, flushed
<1>7. /\ next \in Translated
      /\ piece.block.is = "text" =>
           next = [items |-> acc.items, parts |-> Append(acc.parts, part)]
      /\ piece.block.is = "tool_use" =>
           next = [items |-> Append(flushed.items, done), parts |-> << >>]
      /\ piece.block.is \notin {"text", "tool_use"} => next = acc
  BY <1>4, <1>5, <1>6
<1> QED
  BY <1>7 DEF next, part, done, flushed

(* The same of blocks that were read, one after another.                   *)
LEMMA ReadOfAppend ==
  ASSUME NEW read \in Seq(Piece), NEW piece \in Piece
  PROVE  Acc(Append(read, piece)) = TranslateBlock("assistant", Acc(read), AsBlock(piece))
<1> DEFINE n == Len(read)
           S == {AsBlock(p) : p \in Piece}
           longer == Append(read, piece)
<1>1. n \in Nat /\ Len(longer) = n + 1 /\ longer[n + 1] = piece
      /\ \A i \in 1..n : longer[i] = read[i] /\ read[i] \in Piece
  BY AppendProperties, LenProperties
<1> HIDE DEF longer
<1>2. Blocks(read) = [i \in 1..n |-> AsBlock(read[i])]
      /\ Blocks(longer) = [i \in 1..(n + 1) |-> AsBlock(longer[i])]
  BY <1>1 DEF Blocks
<1>3. Blocks(read) \in Seq(S) /\ Len(Blocks(read)) = n /\ AsBlock(piece) \in S
  BY <1>1, <1>2, IsASeq, LenProperties
<1>4. Blocks(longer) = Append(Blocks(read), AsBlock(piece))
  <2>1. /\ Append(Blocks(read), AsBlock(piece)) \in Seq(S)
        /\ Len(Append(Blocks(read), AsBlock(piece))) = n + 1
        /\ Append(Blocks(read), AsBlock(piece))[n + 1] = AsBlock(piece)
        /\ \A i \in 1..n : Append(Blocks(read), AsBlock(piece))[i] = Blocks(read)[i]
    BY <1>3, AppendProperties
  <2>2. \A i \in 1..n : Blocks(longer)[i] = Blocks(read)[i]
    BY <1>1, <1>2
  <2>3. Blocks(longer)[n + 1] = AsBlock(piece)
    BY <1>1, <1>2
  <2>4. Blocks(longer) \in Seq(S) /\ Len(Blocks(longer)) = n + 1
    <3>1. \A i \in 1..(n + 1) : longer[i] \in Piece
      BY <1>1
    <3> QED
      BY <1>1, <1>2, <3>1, IsASeq, LenProperties
  <2>5. \A i \in 1..(n + 1) : i \in 1..n \/ i = n + 1
    BY <1>1
  <2>6. \A i \in 1..(n + 1) : Blocks(longer)[i] = Append(Blocks(read), AsBlock(piece))[i]
    BY <2>1, <2>2, <2>3, <2>5
  <2> QED
    BY <2>1, <2>4, <2>6, SeqEqual
<1>5. TranslateBlocks("assistant", Append(Blocks(read), AsBlock(piece))) =
        TranslateBlock("assistant", TranslateBlocks("assistant", Blocks(read)), AsBlock(piece))
  BY <1>3, BlocksOfAppend
<1> QED
  BY <1>4, <1>5 DEF Acc, longer

(* Of no block read there is nothing.                                      *)
LEMMA ReadOfEmpty == Acc(<< >>) = Nothing
<1>1. Blocks(<< >>) = << >>
  <2>1. Len(<< >>) = 0
    BY EmptySeq
  <2>2. Blocks(<< >>) = [i \in 1..0 |-> AsBlock(<< >>[i])]
    BY <2>1 DEF Blocks
  <2>3. << >> = [i \in 1..0 |-> AsBlock(<< >>[i])]
    OBVIOUS
  <2> QED
    BY <2>2, <2>3
<1> QED
  BY <1>1, BlocksOfEmpty DEF Acc

(* What is read is always translated to items of a conversation.           *)
LEMMA ReadType == ASSUME NEW read \in Seq(Piece) PROVE Acc(read) \in Translated
<1> DEFINE Typed == {c \in Seq(Piece) : Acc(c) \in Translated}
<1>1. << >> \in Typed
  <2>1. << >> \in Seq(Piece) /\ << >> \in Seq(Item) /\ << >> \in Seq(Part)
    BY EmptySeq
  <2>2. Nothing \in Translated
    BY <2>1 DEF Nothing, Translated
  <2> QED
    BY <2>1, <2>2, ReadOfEmpty
<1>2. ASSUME NEW c \in Seq(Piece), NEW e \in Piece, c \in Typed PROVE Append(c, e) \in Typed
  <2>1. Append(c, e) \in Seq(Piece) /\ Acc(c) \in Translated
    BY <1>2, AppendProperties
  <2>2. TranslateBlock("assistant", Acc(c), AsBlock(e)) \in Translated
    BY <2>1, BlockIsTranslated
  <2> QED
    BY <2>1, <2>2, ReadOfAppend
<1>3. Seq(Piece) \subseteq Typed
  <2> HIDE DEF Typed
  <2> QED
    BY <1>1, <1>2, SequenceInduction
<1> QED
  BY <1>3

(* A text is a part of the message to come,                                *)
LEMMA TextIsShown ==
  ASSUME NEW read \in Seq(Piece), NEW now \in Piece, now.block = Text,
         NEW items, Acc(read) = [items |-> items, parts |-> << >>]
  PROVE  /\ Acc(Append(read, now)).parts # << >>
         /\ Shown(Append(read, now)) = Append(items, Spoken(now.content))
<1> DEFINE part == TextPart("assistant", now.content)
           acc == Acc(read)
           next == TranslateBlock("assistant", acc, AsBlock(now))
<1>1. acc \in Translated /\ acc.parts = << >> /\ acc.items = items
  BY ReadType
<1>2. now.block.is = "text"
  BY BlocksAreApart
<1> HIDE DEF acc
<1>3. next = [items |-> acc.items, parts |-> Append(acc.parts, part)]
  BY <1>1, <1>2, BlockIsTranslated
<1>4. next = Acc(Append(read, now))
  BY ReadOfAppend DEF acc
<1>5. Append(acc.parts, part) = <<part>> /\ <<part>> # << >>
  BY <1>1
<1> HIDE DEF next, part
<1>6. next.parts = <<part>> /\ next.items = items /\ next.parts # << >>
  BY <1>1, <1>3, <1>5
<1>7. Flush("assistant", next).items = Append(items, Message("assistant", <<part>>))
  BY <1>6 DEF Flush
<1> QED
  BY <1>4, <1>6, <1>7 DEF Shown, Spoken, part

(* a call an item after it,                                                *)
LEMMA CallIsShown ==
  ASSUME NEW read \in Seq(Piece), NEW now \in Piece, NEW c \in Calls, now.block = ToolUse(c)
  PROVE  /\ Acc(Append(read, now)).parts = << >>
         /\ Shown(Append(read, now)) = Append(Shown(read), FunctionCall(c, now.content))
<1> DEFINE done == FunctionCall(c, now.content)
           acc == Acc(read)
           next == TranslateBlock("assistant", acc, AsBlock(now))
<1>1. acc \in Translated
  BY ReadType
<1>2. now.block.is = "tool_use" /\ now.block.id = c
  BY BlocksAreApart
<1> HIDE DEF acc
<1>3. next = [items |-> Append(Flush("assistant", acc).items, done), parts |-> << >>]
  <2>1. next = [items |-> Append(Flush("assistant", acc).items,
                                 FunctionCall(now.block.id, now.content)), parts |-> << >>]
    BY <1>1, <1>2, BlockIsTranslated
  <2> QED
    BY <1>2, <2>1
<1>4. next = Acc(Append(read, now))
  BY ReadOfAppend DEF acc
<1> HIDE DEF next, done
<1>5. next.parts = << >> /\ next.items = Append(Flush("assistant", acc).items, done)
  BY <1>3
<1>6. Flush("assistant", next).items = next.items
  BY <1>5 DEF Flush
<1> QED
  BY <1>4, <1>5, <1>6 DEF Shown, acc, done

(* and anything else is left out.                                          *)
LEMMA RestIsDropped ==
  ASSUME NEW read \in Seq(Piece), NEW now \in Piece, now.block.is \notin {"text", "tool_use"}
  PROVE  Acc(Append(read, now)) = Acc(read)
BY ReadType, ReadOfAppend, BlockIsTranslated

(* Of the pieces read the last one grows.                                  *)
LEMMA LastOneGrows ==
  ASSUME NEW before \in Seq(Piece), NEW now \in Piece, NEW delta, NEW further \in Seq(Piece),
         LastGrown(Append(before, now), delta, further)
  PROVE  \E grown \in Piece : /\ further = Append(before, grown) /\ grown.block = now.block
                              /\ grown.content = now.content \o delta
<1> DEFINE pieces == Append(before, now)
           n == Len(before)
<1>1. /\ n \in Nat /\ Len(pieces) = n + 1 /\ pieces[n + 1] = now
      /\ \A i \in 1..n : pieces[i] = before[i]
  BY AppendProperties, LenProperties
<1>2. LastGrown(pieces, delta, further)
  OBVIOUS
<1> HIDE DEF pieces
<1>3. (n + 1) - 1 = n
  BY <1>1
<1>4. /\ Len(further) = n + 1 /\ \A i \in 1..n : further[i] = before[i]
      /\ further[n + 1].block = now.block /\ further[n + 1].content = now.content \o delta
  BY <1>1, <1>2, <1>3 DEF LastGrown
<1>5. further[n + 1] \in Piece
  <2>1. n + 1 \in 1..Len(further)
    BY <1>1, <1>4
  <2> QED
    BY <2>1, ElementOfSeq
<1>6. further = Append(before, further[n + 1])
  <2> DEFINE grown == further[n + 1]
             other == Append(before, grown)
  <2>1. grown \in Piece
    BY <1>5
  <2> HIDE DEF grown
  <2>2. /\ other \in Seq(Piece) /\ Len(other) = n + 1 /\ other[n + 1] = grown
        /\ \A i \in 1..n : other[i] = before[i]
    BY <2>1, AppendProperties
  <2> HIDE DEF other
  <2>3. \A i \in 1..(n + 1) : further[i] = other[i]
    <3>1. \A i \in 1..(n + 1) : i \in 1..n \/ i = n + 1
      BY <1>1
    <3> QED
      BY <1>4, <2>2, <3>1 DEF grown
  <2>4. further = other
    BY <1>4, <2>2, <2>3, SeqEqual
  <2> QED
    BY <2>4 DEF other, grown
<1> QED
  BY <1>4, <1>5, <1>6

(* Pieces there are end with the last one.                                 *)
LEMMA EndsWithLast ==
  ASSUME NEW pieces \in Seq(Piece), pieces # << >>
  PROVE  \E before \in Seq(Piece), now \in Piece :
           pieces = Append(before, now) /\ now = pieces[Len(pieces)]
<1>1. PICK before \in Seq(Piece), now \in Piece : pieces = Append(before, now)
  BY SequenceEmptyOrAppend
<1>2. now = pieces[Len(pieces)]
  BY <1>1, AppendProperties
<1> QED
  BY <1>1, <1>2

-----------------------------------------------------------------------------
(* What a turn retained.                                                   *)

ReturnedItem == [kind : {"message"}, text : Seq(Nat)]
                \cup [kind : {"function_call"}, id : Calls, arguments : Seq(Nat)]
                \cup [kind : {"reasoning"}]

AsItems(items) == [i \in 1..Len(items) |-> AsItem(items[i])]

(* What of them the client can replay.                                     *)
Kept(items) == ClientView(AsItems(items))

(* What was retained is taken back item by item.                           *)
LEMMA AsItemsOfAppend ==
  ASSUME NEW S, NEW s \in Seq(S), NEW e \in S
  PROVE  /\ AsItems(s) \in Seq({AsItem(x) : x \in S})
         /\ AsItems(Append(s, e)) = Append(AsItems(s), AsItem(e))
<1> DEFINE n == Len(s)
           T == {AsItem(x) : x \in S}
           longer == Append(s, e)
<1>1. n \in Nat /\ Len(longer) = n + 1 /\ longer[n + 1] = e
      /\ \A i \in 1..n : longer[i] = s[i] /\ s[i] \in S
  BY AppendProperties, LenProperties
<1> HIDE DEF longer
<1>2. AsItems(s) = [i \in 1..n |-> AsItem(s[i])]
      /\ AsItems(longer) = [i \in 1..(n + 1) |-> AsItem(longer[i])]
  BY <1>1 DEF AsItems
<1>3. AsItems(s) \in Seq(T) /\ Len(AsItems(s)) = n /\ AsItem(e) \in T
  BY <1>1, <1>2, IsASeq, LenProperties
<1>4. /\ Append(AsItems(s), AsItem(e)) \in Seq(T)
      /\ Len(Append(AsItems(s), AsItem(e))) = n + 1
      /\ Append(AsItems(s), AsItem(e))[n + 1] = AsItem(e)
      /\ \A i \in 1..n : Append(AsItems(s), AsItem(e))[i] = AsItems(s)[i]
  BY <1>3, AppendProperties
<1>5. \A i \in 1..n : AsItems(longer)[i] = AsItems(s)[i]
  BY <1>1, <1>2
<1>6. AsItems(longer)[n + 1] = AsItem(e)
  BY <1>1, <1>2
<1>7. AsItems(longer) \in Seq(T) /\ Len(AsItems(longer)) = n + 1
  <2>1. \A i \in 1..(n + 1) : longer[i] \in S
    BY <1>1
  <2> QED
    BY <1>1, <1>2, <2>1, IsASeq, LenProperties
<1>8. \A i \in 1..(n + 1) : i \in 1..n \/ i = n + 1
  BY <1>1
<1>9. \A i \in 1..(n + 1) : AsItems(longer)[i] = Append(AsItems(s), AsItem(e))[i]
  BY <1>4, <1>5, <1>6, <1>8
<1>10. AsItems(longer) = Append(AsItems(s), AsItem(e))
  BY <1>4, <1>7, <1>9, SeqEqual
<1> QED
  BY <1>3, <1>10 DEF longer

(* Each is an item of a conversation.                                      *)
LEMMA AsItemType ==
  ASSUME NEW e \in ReturnedItem
  PROVE  /\ AsItem(e) \in Item
         /\ e.kind = "message" => AsItem(e) = Spoken(e.text)
         /\ e.kind = "function_call" => AsItem(e) = FunctionCall(e.id, e.arguments)
         /\ IsServerOnly(AsItem(e)) <=> e.kind = "reasoning"
<1>0. ASSUME NEW x \in Seq(Nat) PROVE Spoken(x) \in Item /\ Spoken(x).kind = "message"
  <2>1. x \in Seq(Int)
    <3>1. Nat \subseteq Int
      OBVIOUS
    <3> QED
      BY <1>0, <3>1, SeqMonotonic
  <2>2. TextPart("assistant", x) \in Part
    BY <2>1 DEF TextPart, Part
  <2> HIDE DEF Part
  <2>3. <<TextPart("assistant", x)>> \in Seq(Part)
    BY <2>2
  <2> QED
    BY <2>3 DEF Spoken, Message, Item
<1>1. CASE e.kind = "message"
  <2>1. e.text \in Seq(Nat) /\ AsItem(e) = Spoken(e.text)
    BY <1>1 DEF ReturnedItem, AsItem, Spoken
  <2> QED
    BY <1>0, <1>1, <2>1 DEF IsServerOnly
<1>2. CASE e.kind = "function_call"
  <2>1. e.id \in Calls /\ e.arguments \in Seq(Nat) /\ AsItem(e) = FunctionCall(e.id, e.arguments)
    BY <1>2 DEF ReturnedItem, AsItem
  <2> QED
    BY <1>2, <2>1 DEF IsServerOnly, Item, FunctionCall
<1>3. CASE e.kind = "reasoning"
  BY <1>3 DEF AsItem, IsServerOnly, Item, Reasoning
<1> QED
  BY <1>1, <1>2, <1>3 DEF ReturnedItem

(* All of them are.                                                        *)
LEMMA AsItemsType ==
  ASSUME NEW items \in Seq(ReturnedItem) PROVE AsItems(items) \in Seq(Item)
<1>1. Len(items) \in Nat /\ \A i \in 1..Len(items) : items[i] \in ReturnedItem
  BY LenProperties
<1>2. \A i \in 1..Len(items) : AsItem(items[i]) \in Item
  BY <1>1, AsItemType
<1> QED
  BY <1>1, <1>2, IsASeq DEF AsItems

(* Of one item more that is not reasoning, one more can be replayed.       *)
LEMMA KeptOfAppend ==
  ASSUME NEW items \in Seq(ReturnedItem), NEW e \in ReturnedItem
  PROVE  Kept(Append(items, e)) = IF e.kind = "reasoning" THEN Kept(items)
                                  ELSE Append(Kept(items), AsItem(e))
<1>1. AsItems(Append(items, e)) = Append(AsItems(items), AsItem(e))
  BY AsItemsOfAppend
<1>2. AsItems(items) \in Seq(Item) /\ AsItem(e) \in Item
  BY AsItemsType, AsItemType
<1>3. ClientView(Append(AsItems(items), AsItem(e))) =
        IF IsServerOnly(AsItem(e)) THEN ClientView(AsItems(items))
        ELSE Append(ClientView(AsItems(items)), AsItem(e))
  BY <1>2, ViewOfAppend
<1> QED
  BY <1>1, <1>3, AsItemType DEF Kept

(* After every message there was a call since; between two there was one.  *)
CalledSince(items) ==
  \A i \in 1..Len(items) : items[i].kind = "message" =>
    \E k \in i + 1..Len(items) : items[k].kind = "function_call"

Apart(items) ==
  \A i, j \in 1..Len(items) :
    /\ i < j /\ items[i].kind = "message" /\ items[j].kind = "message"
    => \E k \in i + 1..j - 1 : items[k].kind = "function_call"

(* What it takes of an item more.                                          *)
LEMMA ApartOfAppend ==
  ASSUME NEW S, NEW items \in Seq(S), NEW e \in S
  PROVE  LET longer == Append(items, e)
         IN  /\ Apart(longer) => Apart(items)
             /\ e.kind = "message" => ~CalledSince(longer) /\ (Apart(longer) => CalledSince(items))
             /\ e.kind # "function_call" /\ CalledSince(longer) => CalledSince(items)
<1> DEFINE longer == Append(items, e)
           n == Len(items)
<1>1. n \in Nat /\ Len(longer) = n + 1 /\ longer[n + 1] = e
      /\ \A i \in 1..n : longer[i] = items[i]
  BY AppendProperties, LenProperties
<1> HIDE DEF longer
<1>2. ASSUME Apart(longer) PROVE Apart(items)
  <2> SUFFICES ASSUME NEW i \in 1..n, NEW j \in 1..n, i < j,
                      items[i].kind = "message", items[j].kind = "message"
               PROVE  \E k \in i + 1..j - 1 : items[k].kind = "function_call"
    BY DEF Apart
  <2>1. i \in 1..(n + 1) /\ j \in 1..(n + 1) /\ \A k \in i + 1..j - 1 : k \in 1..n
    BY <1>1
  <2>2. \E k \in i + 1..j - 1 : longer[k].kind = "function_call"
    BY <1>1, <1>2, <2>1 DEF Apart
  <2> QED
    BY <1>1, <2>1, <2>2
<1>3. ASSUME e.kind = "message" PROVE ~CalledSince(longer)
  <2>1. n + 1 \in 1..(n + 1) /\ (n + 1) + 1..(n + 1) = {}
    BY <1>1
  <2> QED
    BY <1>1, <1>3, <2>1 DEF CalledSince
<1>4. ASSUME e.kind = "message", Apart(longer) PROVE CalledSince(items)
  <2> SUFFICES ASSUME NEW i \in 1..n, items[i].kind = "message"
               PROVE  \E k \in i + 1..n : items[k].kind = "function_call"
    BY DEF CalledSince
  <2>1. /\ i \in 1..(n + 1) /\ n + 1 \in 1..(n + 1) /\ i < n + 1 /\ (n + 1) - 1 = n
        /\ \A k \in i + 1..n : k \in 1..n
    BY <1>1
  <2>2. \E k \in i + 1..(n + 1) - 1 : longer[k].kind = "function_call"
    BY <1>1, <1>4, <2>1 DEF Apart
  <2> QED
    BY <1>1, <2>1, <2>2
<1>5. ASSUME e.kind # "function_call", CalledSince(longer) PROVE CalledSince(items)
  <2> SUFFICES ASSUME NEW i \in 1..n, items[i].kind = "message"
               PROVE  \E k \in i + 1..n : items[k].kind = "function_call"
    BY DEF CalledSince
  <2>1. i \in 1..(n + 1) /\ \A k \in i + 1..(n + 1) : (k \in i + 1..n /\ k \in 1..n) \/ k = n + 1
    BY <1>1
  <2>2. \E k \in i + 1..(n + 1) : longer[k].kind = "function_call"
    BY <1>1, <1>5, <2>1 DEF CalledSince
  <2> QED
    BY <1>1, <1>5, <2>1, <2>2
<1> QED
  BY <1>2, <1>3, <1>4, <1>5 DEF longer

-----------------------------------------------------------------------------
(* What the client read lines up with what the turn retained.              *)

(* Nothing came between the events of one item, nor a message right after  *)
(* another -- the one still open included.                                 *)
Undisturbed ==
  ~mixed /\ ~split /\ Apart(returned) /\ (said > 0 => CalledSince(returned))

Said(n) == [i \in 1..n |-> 0]

(* A message is open: it is the last block, and nothing else is left over. *)
InMessage(read, n, items) ==
  \E before \in Seq(Piece) :
    /\ read = Append(before, [block |-> Text, content |-> Said(n)])
    /\ Acc(before) = [items |-> Kept(items), parts |-> << >>]

(* A call is: it is the last block, and the others are what was retained.  *)
InCall(open, read, items) ==
  \E before \in Seq(Piece), now \in Piece :
    read = Append(before, now) /\ now.block = open /\ Shown(before) = Kept(items)

(* Neither is; a text that is left over is one no call has come after.     *)
Between(open, read, items) ==
  /\ Shown(read) = Kept(items)
  /\ CalledSince(items) => Acc(read).parts = << >>
  /\ open = Text => ~CalledSince(items)

LinesUp(open, read, n, items) ==
  /\ n > 0 => open = Text /\ InMessage(read, n, items)
  /\ n = 0 /\ open.is = "tool_use" => InCall(open, read, items)
  /\ n = 0 /\ open.is # "tool_use" => Between(open, read, items)

EchoType == said \in Nat /\ returned \in Seq(ReturnedItem) /\ split \in BOOLEAN

Lines == stream = "open" /\ Undisturbed => LinesUp(t.open, t.reader.blocks, said, returned)

Finished ==
  stream # "open" /\ outcome = "completed" =>
    t.finished /\ said = 0 /\ (Undisturbed => Shown(t.reader.blocks) = Kept(returned))

EchoInv == EchoType /\ Lines /\ Finished

(* It holds of a turn that begins.                                         *)
LEMMA EchoInvInit == Init => EchoInv
<1> SUFFICES ASSUME Init PROVE EchoInv
  OBVIOUS
<1>1. /\ t.open = NoBlock /\ t.reader.blocks = << >> /\ said = 0 /\ returned = << >>
      /\ split = FALSE /\ stream = "open"
  BY DEF Init, New, Unread
<1>2. << >> \in Seq(ReturnedItem) /\ Len(<< >>) = 0
  BY EmptySeq
<1>3. Kept(<< >>) = << >>
  <2>1. AsItems(<< >>) = [i \in 1..0 |-> AsItem(<< >>[i])]
    BY <1>2 DEF AsItems
  <2>2. << >> = [i \in 1..0 |-> AsItem(<< >>[i])]
    OBVIOUS
  <2> QED
    BY <2>1, <2>2, ViewOfEmpty DEF Kept
<1>4. Acc(<< >>).parts = << >> /\ Shown(<< >>) = << >>
  BY ReadOfEmpty DEF Nothing, Shown, Flush
<1>5. Between(NoBlock, << >>, << >>)
  <2>1. NoBlock # Text
    BY BlocksAreApart
  <2> QED
    BY <1>3, <1>4, <2>1 DEF Between
<1>6. LinesUp(NoBlock, << >>, 0, << >>)
  BY <1>5, BlocksAreApart DEF LinesUp
<1> QED
  BY <1>1, <1>2, <1>6 DEF EchoInv, EchoType, Lines, Finished

(* An open call that is the only one is the one whose block is open.       *)
LEMMA OpenBlockOfCall ==
  ASSUME TurnInv, stream = "open", NEW c, Open \ {c} = {}, t.open.is = "tool_use"
  PROVE  t.open = ToolUse(c) /\ c \in Open
<1>1. PICK d \in Calls : t.open = ToolUse(d)
  BY TurnTyped, BlocksAreApart DEF TranslatorType, OpenType
<1>2. d \in Open
  BY <1>1 DEF TurnInv, CallInv, CallFits, Open
<1> QED
  BY <1>1, <1>2

(* What more there is to a step that leaves the blocks and the messages.   *)
LEMMA StillLinesUp ==
  ASSUME NEW open, NEW read, NEW n, NEW items, NEW further, LinesUp(open, read, n, items),
         Kept(further) = Kept(items), CalledSince(further) => CalledSince(items)
  PROVE  LinesUp(open, read, n, further)
BY DEF LinesUp, InMessage, InCall, Between

(* Steps that leave the blocks, and what was retained.                     *)
LEMMA QuietLines ==
  ASSUME EchoInv, stream = "open", stream' = "open",
         mixed => mixed', split' \in BOOLEAN, split => split',
         UNCHANGED <<said, returned>>,
         t'.open = t.open, t'.reader.blocks = t.reader.blocks
  PROVE  EchoInv'
<1>1. EchoType' /\ Finished'
  BY DEF EchoInv, EchoType, Finished
<1>2. Undisturbed' => Undisturbed
  BY DEF Undisturbed
<1>3. Lines'
  BY <1>2 DEF EchoInv, Lines
<1> QED
  BY <1>1, <1>3 DEF EchoInv

(* A message begun, a search that ran, a call that is not named yet.       *)
LEMMA CreatedLines == TurnInv /\ EchoInv /\ Created => EchoInv'
<1> SUFFICES ASSUME TurnInv, EchoInv, Created PROVE EchoInv'
  OBVIOUS
<1>1. /\ stream = "open" /\ t' = StartMessage(t)
      /\ UNCHANGED <<said, returned, mixed, split, stream>>
  BY DEF Created, upstream
<1>2. Live(t)
  BY <1>1, TurnTyped
<1>3. t'.open = t.open /\ t'.reader.blocks = t.reader.blocks
  BY <1>1, <1>2, MessageIsStarted
<1>4. split' \in BOOLEAN
  BY <1>1 DEF EchoInv, EchoType
<1> QED
  BY <1>1, <1>3, <1>4, QuietLines

(* A search that ran is no block the client hands back.                    *)
LEMMA SearchLines == ASSUME NEW s \in Searches PROVE TurnInv /\ EchoInv /\ DoneSearch(s) => EchoInv'
<1> SUFFICES ASSUME TurnInv, EchoInv, DoneSearch(s) PROVE EchoInv'
  OBVIOUS
<1>1. /\ stream = "open" /\ t' = [t EXCEPT !.searches = Append(@, s)]
      /\ UNCHANGED <<said, returned, mixed, split, stream>>
  BY DEF DoneSearch, SearchDone
<1>2. t \in TranslatorType
  BY TurnTyped
<1>3. t'.open = t.open /\ t'.reader = t.reader
  BY <1>1, <1>2 DEF TranslatorType
<1>4. split' \in BOOLEAN
  BY <1>1 DEF EchoInv, EchoType
<1> QED
  BY <1>1, <1>3, <1>4, QuietLines

(* Text goes on in the message's block, or begins one.                     *)
LEMMA TextLines == TurnInv /\ EchoInv /\ Streams(Text) => EchoInv'
<1> SUFFICES ASSUME TurnInv, EchoInv, Streams(Text) PROVE EchoInv'
  OBVIOUS
<1> DEFINE read == t.reader.blocks
           next == t'.reader.blocks
           kept == Kept(returned)
<1>1. /\ stream = "open" /\ said' = said + 1 /\ t' = PushDelta(OpenBlock(t, Text), Words)
      /\ mixed' = (mixed \/ Open \ {None} # {}) /\ split' = (split \/ (said > 0 /\ ~TRUE))
      /\ UNCHANGED <<returned, stream>>
  BY DEF Streams, Mixes
<1>2. Live(t) /\ read \in Seq(Piece) /\ said \in Nat /\ split \in BOOLEAN
  BY <1>1, TurnTyped DEF EchoInv, EchoType
<1>3. Live(t') /\ t'.open = Text /\ WordsGo(t, Text, next)
  BY <1>1, <1>2, WordsAreStreamed
<1>4. next \in Seq(Piece)
  BY <1>3, NextTyped
<1>5. EchoType' /\ Finished'
  BY <1>1 DEF EchoInv, EchoType, Finished
<1>6. ASSUME Undisturbed' PROVE InMessage(next, said + 1, returned)
  <2>1. /\ ~mixed /\ ~split /\ Apart(returned) /\ CalledSince(returned) /\ Open \ {None} = {}
    <3>1. /\ ~mixed' /\ ~split' /\ Apart(returned') /\ (said' > 0 => CalledSince(returned'))
      BY <1>6 DEF Undisturbed
    <3>2. said' > 0 /\ mixed \in BOOLEAN
      BY <1>1, <1>2 DEF TurnInv, StateType
    <3> QED
      BY <1>1, <1>2, <3>1, <3>2
  <2>2. LinesUp(t.open, read, said, returned)
    BY <1>1, <2>1 DEF EchoInv, Lines, Undisturbed
  <2>3. t.open.is # "tool_use"
    <3>1. None \notin Open
      BY NoneAssumption DEF Open
    <3> QED
      BY <1>1, <2>1, <3>1, OpenBlockOfCall
  <2>4. CASE said = 0
    <3> DEFINE now == [block |-> Text, content |-> << >>]
    <3>1. Shown(read) = kept /\ Acc(read).parts = << >> /\ t.open # Text
      BY <2>1, <2>2, <2>3, <2>4 DEF LinesUp, Between
    <3>2. Acc(read) = [items |-> kept, parts |-> << >>]
      <4>1. Acc(read) \in Translated
        BY <1>2, ReadType
      <4>2. Shown(read) = Acc(read).items
        BY <3>1 DEF Shown, Flush
      <4> QED
        BY <3>1, <4>1, <4>2 DEF Translated
    <3>3. now \in Piece /\ now.block = Text /\ now.content = << >>
      BY EmptySeq DEF Piece, BlockType
    <3>4. LastGrown(Append(read, now), Words, next)
      BY <1>3, <3>1 DEF WordsGo
    <3> HIDE DEF now, read, next
    <3>5. PICK grown \in Piece : /\ next = Append(read, grown) /\ grown.block = now.block
                                 /\ grown.content = now.content \o Words
      BY <1>2, <1>4, <3>3, <3>4, LastOneGrows
    <3>6. now.content \o Words = Said(1)
      BY <3>3 DEF Words, Said
    <3>7. grown = [block |-> Text, content |-> Said(1)]
      BY <3>3, <3>5, <3>6 DEF Piece
    <3>8. next = Append(read, [block |-> Text, content |-> Said(1)])
      BY <3>5, <3>7
    <3> QED
      BY <1>2, <2>4, <3>2, <3>8 DEF InMessage
  <2>5. CASE said # 0
    <3> DEFINE now == [block |-> Text, content |-> Said(said)]
    <3>1. t.open = Text /\ InMessage(read, said, returned)
      BY <1>2, <2>2, <2>5 DEF LinesUp
    <3>2. PICK before \in Seq(Piece) :
            read = Append(before, now) /\ Acc(before) = [items |-> kept, parts |-> << >>]
      BY <3>1 DEF InMessage
    <3>3. now \in Piece /\ now.block = Text /\ now.content = Said(said)
      <4>1. Said(said) \in Seq(Nat)
        BY <1>2, IsASeq DEF Said
      <4> QED
        BY <4>1 DEF Piece, BlockType
    <3>4. LastGrown(Append(before, now), Words, next)
      BY <1>3, <3>1, <3>2 DEF WordsGo
    <3> HIDE DEF now, read, next
    <3>5. PICK grown \in Piece : /\ next = Append(before, grown) /\ grown.block = now.block
                                 /\ grown.content = now.content \o Words
      BY <1>4, <3>3, <3>4, LastOneGrows
    <3>6. now.content \o Words = Said(said + 1)
      BY <1>2, <3>3 DEF Words, Said
    <3>7. grown = [block |-> Text, content |-> Said(said + 1)]
      BY <3>3, <3>5, <3>6 DEF Piece
    <3>8. next = Append(before, [block |-> Text, content |-> Said(said + 1)])
      BY <3>5, <3>7
    <3> QED
      BY <3>2, <3>8 DEF InMessage
  <2> QED
    BY <2>4, <2>5
<1>7. Lines'
  BY <1>1, <1>2, <1>3, <1>6 DEF Lines, LinesUp
<1> QED
  BY <1>5, <1>7 DEF EchoInv

(* Thinking goes into a block the client does not hand back.               *)
LEMMA ThinkingLines == TurnInv /\ EchoInv /\ Streams(Thinking) => EchoInv'
<1> SUFFICES ASSUME TurnInv, EchoInv, Streams(Thinking) PROVE EchoInv'
  OBVIOUS
<1> DEFINE read == t.reader.blocks
           next == t'.reader.blocks
<1>0. Thinking # Text /\ Thinking.is = "thinking"
  BY BlocksAreApart
<1>1. /\ stream = "open" /\ said' = said /\ t' = PushDelta(OpenBlock(t, Thinking), Words)
      /\ mixed' = (mixed \/ Open \ {None} # {}) /\ split' = (split \/ (said > 0 /\ ~FALSE))
      /\ UNCHANGED <<returned, stream>>
  BY <1>0 DEF Streams, Mixes
<1>2. Live(t) /\ read \in Seq(Piece) /\ said \in Nat /\ split \in BOOLEAN /\ mixed \in BOOLEAN
  BY <1>1, TurnTyped DEF EchoInv, EchoType, TurnInv, StateType
<1>3. Live(t') /\ t'.open = Thinking /\ WordsGo(t, Thinking, next)
  BY <1>1, <1>2, WordsAreStreamed
<1>4. next \in Seq(Piece)
  BY <1>3, NextTyped
<1>5. EchoType' /\ Finished'
  BY <1>1, <1>2 DEF EchoInv, EchoType, Finished
<1>6. Acc(next) = Acc(read)
  <2>1. ASSUME t.open = Thinking, LastGrown(read, Words, next) PROVE Acc(next) = Acc(read)
    <3>1. read # << >> /\ read[Len(read)].block = Thinking
      BY <1>2, <2>1, BlocksAreApart DEF Live
    <3> HIDE DEF read, next
    <3>2. PICK before \in Seq(Piece), now \in Piece : read = Append(before, now) /\ now = read[Len(read)]
      BY <1>2, <3>1, EndsWithLast
    <3>3. LastGrown(Append(before, now), Words, next)
      BY <2>1, <3>2
    <3>4. PICK grown \in Piece : next = Append(before, grown) /\ grown.block = now.block
      BY <1>4, <3>3, LastOneGrows
    <3>5. now.block.is = "thinking" /\ grown.block.is = "thinking"
      BY <1>0, <3>1, <3>2, <3>4
    <3>6. Acc(Append(before, now)) = Acc(before)
      BY <3>5, RestIsDropped
    <3>7. Acc(Append(before, grown)) = Acc(before)
      BY <3>5, RestIsDropped
    <3> QED
      BY <3>2, <3>4, <3>6, <3>7
  <2> DEFINE now == [block |-> Thinking, content |-> << >>]
  <2>2. ASSUME LastGrown(Append(read, now), Words, next) PROVE Acc(next) = Acc(read)
    <3>1. now \in Piece /\ now.block = Thinking
      BY EmptySeq DEF Piece, BlockType
    <3>2. LastGrown(Append(read, now), Words, next)
      BY <2>2
    <3> HIDE DEF read, next, now
    <3>3. PICK grown \in Piece : next = Append(read, grown) /\ grown.block = now.block
      BY <1>2, <1>4, <3>1, <3>2, LastOneGrows
    <3>4. Acc(Append(read, grown)) = Acc(read)
      BY <1>0, <1>2, <3>1, <3>3, RestIsDropped
    <3> QED
      BY <3>3, <3>4
  <2> QED
    BY <1>3, <2>1, <2>2 DEF WordsGo
<1>7. ASSUME Undisturbed' PROVE said = 0 /\ Between(Thinking, next, returned)
  <2>1. said = 0 /\ ~mixed /\ ~split /\ Apart(returned) /\ Open \ {None} = {}
    <3>1. ~mixed' /\ ~split' /\ Apart(returned')
      BY <1>7 DEF Undisturbed
    <3>2. ~(said > 0) /\ ~split
      BY <1>1, <1>2, <3>1
    <3>3. said = 0
      BY <1>2, <3>2
    <3> QED
      BY <1>1, <1>2, <3>1, <3>2, <3>3
  <2>2. LinesUp(t.open, read, said, returned)
    BY <1>1, <2>1 DEF EchoInv, Lines, Undisturbed
  <2>3. t.open.is # "tool_use"
    <3>1. None \notin Open
      BY NoneAssumption DEF Open
    <3> QED
      BY <1>1, <2>1, <3>1, OpenBlockOfCall
  <2> QED
    BY <1>0, <1>6, <2>1, <2>2, <2>3 DEF LinesUp, Between, Shown
<1>8. Lines'
  BY <1>0, <1>1, <1>2, <1>3, <1>7 DEF Lines, LinesUp
<1> QED
  BY <1>5, <1>8 DEF EchoInv

(* A message done is retained as the text that was read of it.             *)
LEMMA MessageLines == TurnInv /\ EchoInv /\ DoneMessage => EchoInv'
<1> SUFFICES ASSUME TurnInv, EchoInv, DoneMessage PROVE EchoInv'
  OBVIOUS
<1> DEFINE read == t.reader.blocks
           done == [kind |-> "message", text |-> Said(said)]
<1>1. /\ stream = "open" /\ said > 0 /\ returned' = Append(returned, done)
      /\ said' = 0 /\ UNCHANGED <<t, mixed, split, stream>>
  BY DEF DoneMessage, Said
<1>2. read \in Seq(Piece) /\ said \in Nat /\ split \in BOOLEAN /\ returned \in Seq(ReturnedItem)
  BY <1>1, TurnTyped DEF EchoInv, EchoType
<1>3. Said(said) \in Seq(Nat)
  BY <1>2, IsASeq DEF Said
<1>4. /\ done \in ReturnedItem /\ done.kind = "message" /\ done.text = Said(said)
  BY <1>3 DEF ReturnedItem
<1> HIDE DEF done
<1>5. Append(returned, done) \in Seq(ReturnedItem)
  BY <1>2, <1>4, AppendProperties
<1>6. EchoType' /\ Finished'
  BY <1>1, <1>2, <1>5 DEF EchoInv, EchoType, Finished
<1>7. ASSUME Undisturbed' PROVE t.open = Text /\ Between(Text, read, Append(returned, done))
  <2>1. Apart(Append(returned, done)) /\ ~mixed /\ ~split
    BY <1>1, <1>7 DEF Undisturbed
  <2>2. Apart(returned) /\ CalledSince(returned) /\ ~CalledSince(Append(returned, done))
    BY <1>2, <1>4, <2>1, ApartOfAppend
  <2>3. LinesUp(t.open, read, said, returned)
    BY <1>1, <2>1, <2>2 DEF EchoInv, Lines, Undisturbed
  <2>4. t.open = Text /\ InMessage(read, said, returned)
    BY <1>1, <2>3 DEF LinesUp
  <2> DEFINE now == [block |-> Text, content |-> Said(said)]
             kept == Kept(returned)
  <2>5. PICK before \in Seq(Piece) :
          read = Append(before, now) /\ Acc(before) = [items |-> kept, parts |-> << >>]
    BY <2>4 DEF InMessage
  <2>6. now \in Piece /\ now.block = Text /\ now.content = Said(said)
    BY <1>3 DEF Piece, BlockType
  <2> HIDE DEF now, kept, read
  <2>7. Shown(read) = Append(kept, Spoken(Said(said)))
    <3>1. Shown(Append(before, now)) = Append(kept, Spoken(now.content))
      BY <2>5, <2>6, TextIsShown
    <3> QED
      BY <2>5, <2>6, <3>1
  <2>8. Kept(Append(returned, done)) = Append(kept, Spoken(Said(said)))
    BY <1>2, <1>4, KeptOfAppend, AsItemType DEF kept
  <2> QED
    BY <2>2, <2>4, <2>7, <2>8 DEF Between
<1>8. Text.is # "tool_use"
  BY BlocksAreApart
<1>9. Lines'
  BY <1>1, <1>7, <1>8 DEF Lines, LinesUp
<1> QED
  BY <1>6, <1>9 DEF EchoInv

(* Reasoning done is the server's.                                         *)
LEMMA ReasoningLines == TurnInv /\ EchoInv /\ DoneReasoning => EchoInv'
<1> SUFFICES ASSUME TurnInv, EchoInv, DoneReasoning PROVE EchoInv'
  OBVIOUS
<1> DEFINE done == [kind |-> "reasoning"]
<1>1. /\ stream = "open" /\ returned' = Append(returned, done)
      /\ UNCHANGED <<t, said, mixed, split, stream>>
  BY DEF DoneReasoning
<1>2. said \in Nat /\ split \in BOOLEAN /\ returned \in Seq(ReturnedItem)
  BY DEF EchoInv, EchoType
<1>3. done \in ReturnedItem /\ done.kind = "reasoning"
  BY DEF ReturnedItem
<1> HIDE DEF done
<1>4. Append(returned, done) \in Seq(ReturnedItem)
  BY <1>2, <1>3, AppendProperties
<1>5. EchoType' /\ Finished'
  BY <1>1, <1>2, <1>4 DEF EchoInv, EchoType, Finished
<1>6. /\ Kept(Append(returned, done)) = Kept(returned)
      /\ CalledSince(Append(returned, done)) => CalledSince(returned)
      /\ Apart(Append(returned, done)) => Apart(returned)
  BY <1>2, <1>3, KeptOfAppend, ApartOfAppend
<1>7. Undisturbed' => Undisturbed
  BY <1>1, <1>6 DEF Undisturbed
<1>8. Lines'
  <2> SUFFICES ASSUME Undisturbed'
               PROVE  LinesUp(t.open, t.reader.blocks, said, Append(returned, done))
    BY <1>1 DEF Lines
  <2>1. LinesUp(t.open, t.reader.blocks, said, returned)
    BY <1>1, <1>7 DEF EchoInv, Lines
  <2> QED
    BY <1>6, <2>1, StillLinesUp
<1> QED
  BY <1>5, <1>8 DEF EchoInv

(* What has to be undisturbed by an event of a call.                       *)
LEMMA AloneAndApart ==
  ASSUME TurnInv, EchoInv, stream = "open", NEW c, Undisturbed', said' = said,
         Apart(returned') => Apart(returned),
         mixed' = (mixed \/ Open \ {c} # {}), split' = (split \/ (said > 0 /\ ~FALSE))
  PROVE  said = 0 /\ Undisturbed /\ Open \ {c} = {} /\ LinesUp(t.open, t.reader.blocks, 0, returned)
<1>1. said \in Nat /\ split \in BOOLEAN /\ mixed \in BOOLEAN
  BY DEF EchoInv, EchoType, TurnInv, StateType
<1>2. ~mixed' /\ ~split' /\ Apart(returned)
  BY DEF Undisturbed
<1>3. ~(said > 0) /\ ~split
  BY <1>1, <1>2
<1>4. ~mixed /\ Open \ {c} = {}
  BY <1>1, <1>2
<1>5. said = 0
  BY <1>1, <1>3
<1>6. Undisturbed
  BY <1>2, <1>3, <1>4, <1>5 DEF Undisturbed
<1>7. LinesUp(t.open, t.reader.blocks, said, returned)
  BY <1>6 DEF EchoInv, Lines
<1> QED
  BY <1>4, <1>5, <1>6, <1>7

(* A call begins a block of its own, if it is named.                       *)
LEMMA AddCallLines ==
  ASSUME NEW c \in Calls, NEW named \in BOOLEAN
  PROVE  TurnInv /\ EchoInv /\ AddCall(c, named) => EchoInv'
<1> SUFFICES ASSUME TurnInv, EchoInv, AddCall(c, named) PROVE EchoInv'
  OBVIOUS
<1> DEFINE read == t.reader.blocks
           next == t'.reader.blocks
<1>1. /\ stream = "open" /\ call[c] = "absent" /\ t' = ItemAdded(t, c, named)
      /\ mixed' = (mixed \/ Open \ {c} # {}) /\ split' = (split \/ (said > 0 /\ ~FALSE))
      /\ UNCHANGED <<said, returned, stream>>
  BY DEF AddCall, Mixes
<1>2. Live(t) /\ read \in Seq(Piece) /\ said \in Nat /\ split \in BOOLEAN /\ mixed \in BOOLEAN
  BY <1>1, TurnTyped DEF EchoInv, EchoType, TurnInv, StateType
<1>3. CASE ~named
  <2>1. t' = t /\ (mixed => mixed') /\ split' \in BOOLEAN /\ (split => split')
    BY <1>1, <1>2, <1>3 DEF ItemAdded
  <2> QED
    BY <1>1, <2>1, QuietLines
<1>4. CASE named
  <2> DEFINE begun == StartMessage(t)
             now == [block |-> ToolUse(c), content |-> << >>]
  <2>1. t' = OpenToolUse(begun, c)
    BY <1>1, <1>4 DEF ItemAdded
  <2>2. Live(begun) /\ begun.started /\ begun.reader.blocks = read
    BY <1>2, MessageIsStarted
  <2> HIDE DEF begun
  <2>3. Live(t') /\ t'.open = ToolUse(c)
    BY <2>1, <2>2, CallIsOpened
  <2>4. next = Append(read, now)
    BY <2>1, <2>2, CallIsOpened
  <2>5. now \in Piece /\ now.block = ToolUse(c)
    BY EmptySeq DEF Piece, BlockType
  <2> HIDE DEF now
  <2>6. EchoType' /\ Finished'
    BY <1>1, <1>2 DEF EchoInv, EchoType, Finished
  <2>7. ASSUME Undisturbed' PROVE said = 0 /\ InCall(ToolUse(c), next, returned)
    <3>1. said = 0 /\ Open \ {c} = {} /\ LinesUp(t.open, read, 0, returned)
      BY <1>1, <2>7, AloneAndApart
    <3>2. t.open.is # "tool_use"
      <4>1. c \notin Open
        BY <1>1 DEF Open
      <4> QED
        BY <1>1, <3>1, <4>1, OpenBlockOfCall
    <3>3. Shown(read) = Kept(returned)
      BY <3>1, <3>2 DEF LinesUp, Between
    <3> QED
      BY <1>2, <2>4, <2>5, <3>1, <3>3 DEF InCall
  <2>8. Lines'
    <3>1. ToolUse(c).is = "tool_use"
      BY BlocksAreApart
    <3> QED
      BY <1>1, <2>3, <2>7, <3>1 DEF Lines, LinesUp
  <2> QED
    BY <2>6, <2>8 DEF EchoInv
<1> QED
  BY <1>3, <1>4

(* A fragment goes on in the block of its call, or nowhere.                *)
LEMMA FragmentLines ==
  ASSUME NEW c \in Calls PROVE TurnInv /\ EchoInv /\ StreamFragment(c) => EchoInv'
<1> SUFFICES ASSUME TurnInv, EchoInv, StreamFragment(c) PROVE EchoInv'
  OBVIOUS
<1> DEFINE read == t.reader.blocks
           next == t'.reader.blocks
<1>1. /\ stream = "open" /\ streamed[c] < Fragments /\ streamed' = [streamed EXCEPT ![c] = @ + 1]
      /\ mixed' = (mixed \/ Open \ {c} # {}) /\ split' = (split \/ (said > 0 /\ ~FALSE))
      /\ UNCHANGED <<said, returned, stream>>
  BY DEF StreamFragment, Mixes
<1>2. /\ Live(t) /\ t \in TranslatorType /\ read \in Seq(Piece) /\ said \in Nat
      /\ split \in BOOLEAN /\ mixed \in BOOLEAN /\ streamed \in [Calls -> 0..Fragments]
      /\ Fragments \in Nat /\ streamed[c] \in Nat
  BY <1>1, TurnTyped, FragmentsAssumption DEF EchoInv, EchoType, TurnInv, StateType
<1>3. PICK target \in {c, None}, fragment \in Nat \ {0} : t' = ArgumentsDelta(t, target, fragment)
  <2>1. streamed'[c] \in Nat \ {0}
    BY <1>1, <1>2
  <2> QED
    BY <2>1 DEF StreamFragment
<1>4. CASE ~(t.open.is = "tool_use" /\ target \in {None, t.open.id})
  <2>1. t' = t /\ (mixed => mixed') /\ split' \in BOOLEAN /\ (split => split')
    BY <1>1, <1>2, <1>3, <1>4 DEF ArgumentsDelta
  <2> QED
    BY <1>1, <2>1, QuietLines
<1>5. CASE t.open.is = "tool_use" /\ target \in {None, t.open.id}
  <2>1. PICK d \in Calls : t.open = ToolUse(d)
    BY <1>2, <1>5, BlocksAreApart DEF TranslatorType, OpenType
  <2>2. t' = PushDelta([t EXCEPT !.streamed_arguments = TRUE], <<fragment>>)
    BY <1>3, <1>5 DEF ArgumentsDelta
  <2>3. Live(t') /\ t'.open = ToolUse(d) /\ LastGrown(read, <<fragment>>, next)
    BY <1>2, <2>1, <2>2, FragmentIsStreamed
  <2>4. next \in Seq(Piece)
    BY <2>3, NextTyped
  <2>5. EchoType' /\ Finished'
    BY <1>1, <1>2 DEF EchoInv, EchoType, Finished
  <2>6. ASSUME Undisturbed' PROVE said = 0 /\ InCall(ToolUse(d), next, returned)
    <3>1. said = 0 /\ LinesUp(t.open, read, 0, returned)
      BY <1>1, <2>6, AloneAndApart
    <3>2. InCall(ToolUse(d), read, returned)
      BY <1>5, <2>1, <3>1 DEF LinesUp
    <3> HIDE DEF read, next
    <3>3. PICK before \in Seq(Piece), now \in Piece :
            read = Append(before, now) /\ now.block = ToolUse(d) /\ Shown(before) = Kept(returned)
      BY <3>2 DEF InCall
    <3>4. LastGrown(Append(before, now), <<fragment>>, next)
      BY <2>3, <3>3
    <3>5. PICK grown \in Piece : next = Append(before, grown) /\ grown.block = now.block
      BY <2>4, <3>4, LastOneGrows
    <3> QED
      BY <3>1, <3>3, <3>5 DEF InCall
  <2>7. Lines'
    <3>1. ToolUse(d).is = "tool_use"
      BY BlocksAreApart
    <3> QED
      BY <1>1, <2>3, <2>6, <3>1 DEF Lines, LinesUp
  <2> QED
    BY <2>5, <2>7 DEF EchoInv
<1> QED
  BY <1>4, <1>5

(* A call done is retained as it was read: named, and whole.               *)
LEMMA DoneCallLines ==
  ASSUME NEW c \in Calls PROVE TurnInv /\ EchoInv /\ DoneCall(c) => EchoInv'
<1> SUFFICES ASSUME TurnInv, EchoInv, DoneCall(c) PROVE EchoInv'
  OBVIOUS
<1> DEFINE read == t.reader.blocks
           next == t'.reader.blocks
           n == Len(next)
           done == [kind |-> "function_call", id |-> c, arguments |-> WholeArguments]
<1>1. /\ stream = "open" /\ call[c] # "done" /\ streamed[c] \in {0, Fragments}
      /\ t' = CallDone(t, c) /\ returned' = Append(returned, done)
      /\ mixed' = (mixed \/ Open \ {c} # {}) /\ split' = (split \/ (said > 0 /\ ~FALSE))
      /\ UNCHANGED <<said, stream>>
  BY DEF DoneCall, Mixes
<1>2. /\ Live(t) /\ read \in Seq(Piece) /\ said \in Nat /\ returned \in Seq(ReturnedItem)
      /\ split \in BOOLEAN /\ mixed \in BOOLEAN
  BY <1>1, TurnTyped DEF EchoInv, EchoType, TurnInv, StateType
<1>3. Live(t') /\ t'.open = NoBlock /\ DoneAs(t, c, t')
  BY <1>1, <1>2, CallIsDone
<1>4. next \in Seq(Piece)
  BY <1>3, NextTyped
<1>5. n \in PositionsOf(next, c) /\ next[n].content = WholeArguments
  BY <1>1, <1>3, DoneIsWhole
<1>6. /\ done \in ReturnedItem /\ done.kind = "function_call" /\ done.id = c
      /\ done.arguments = WholeArguments
  BY DeltasBelong DEF ReturnedItem
<1> HIDE DEF done
<1>7. Append(returned, done) \in Seq(ReturnedItem)
  BY <1>2, <1>6, AppendProperties
<1>8. EchoType' /\ Finished'
  BY <1>1, <1>2, <1>7 DEF EchoInv, EchoType, Finished
<1>9. ASSUME Undisturbed' PROVE said = 0 /\ Between(NoBlock, next, Append(returned, done))
  <2>1. Apart(returned') => Apart(returned)
    BY <1>1, <1>2, <1>6, ApartOfAppend
  <2>2. said = 0 /\ Open \ {c} = {} /\ LinesUp(t.open, read, 0, returned)
    BY <1>1, <1>9, <2>1, AloneAndApart
  <2>3. \E before \in Seq(Piece), now \in Piece :
          next = Append(before, now) /\ Shown(before) = Kept(returned)
    <3>1. CASE t.open = ToolUse(c)
      <4>1. InCall(ToolUse(c), read, returned)
        BY <2>2, <3>1, BlocksAreApart DEF LinesUp
      <4>2. next = read \/ LastGrown(read, WholeArguments, next)
        BY <1>3, <3>1 DEF DoneAs
      <4> HIDE DEF read, next
      <4>3. PICK before \in Seq(Piece), now \in Piece :
              read = Append(before, now) /\ Shown(before) = Kept(returned)
        BY <4>1 DEF InCall
      <4>4. CASE next = read
        BY <4>3, <4>4
      <4>5. CASE LastGrown(read, WholeArguments, next)
        <5>1. LastGrown(Append(before, now), WholeArguments, next)
          BY <4>3, <4>5
        <5>2. PICK grown \in Piece : next = Append(before, grown) /\ grown.block = now.block
          BY <1>4, <5>1, LastOneGrows
        <5> QED
          BY <4>3, <5>2
      <4> QED
        BY <4>2, <4>4, <4>5
    <3>2. CASE t.open # ToolUse(c)
      <4>1. t.open.is # "tool_use"
        BY <1>1, <2>2, <3>2, OpenBlockOfCall
      <4>2. Shown(read) = Kept(returned)
        BY <2>2, <4>1 DEF LinesUp, Between
      <4>3. Len(next) = Len(read) + 1 /\ \A i \in 1..Len(read) : next[i] = read[i]
        BY <1>3, <3>2 DEF DoneAs
      <4> HIDE DEF read, next
      <4>4. next # << >> /\ Len(read) \in Nat
        BY <1>2, <4>3, EmptySeq, LenProperties
      <4>5. PICK before \in Seq(Piece), now \in Piece : next = Append(before, now)
        BY <1>4, <4>4, EndsWithLast
      <4>6. Len(next) = Len(before) + 1 /\ Len(before) \in Nat
            /\ \A i \in 1..Len(before) : next[i] = before[i]
        BY <4>5, AppendProperties, LenProperties
      <4>7. Len(before) = Len(read)
        BY <4>3, <4>4, <4>6
      <4>8. \A i \in 1..Len(before) : before[i] = read[i]
        BY <4>3, <4>6, <4>7
      <4>9. before = read
        BY <1>2, <4>7, <4>8, SeqEqual
      <4> QED
        BY <1>2, <4>2, <4>5, <4>9
    <3> QED
      BY <3>1, <3>2
  <2>4. PICK before \in Seq(Piece), now \in Piece :
          next = Append(before, now) /\ Shown(before) = Kept(returned)
    BY <2>3
  <2>5. now.block = ToolUse(c) /\ now.content = WholeArguments
    <3>1. next[n] = now
      BY <2>4, AppendProperties
    <3> QED
      BY <1>5, <3>1 DEF PositionsOf
  <2> HIDE DEF read, next, n
  <2>6. /\ Acc(next).parts = << >>
        /\ Shown(next) = Append(Kept(returned), FunctionCall(c, WholeArguments))
    <3>1. /\ Acc(Append(before, now)).parts = << >>
          /\ Shown(Append(before, now)) = Append(Shown(before), FunctionCall(c, now.content))
      BY <2>5, CallIsShown
    <3> QED
      BY <2>4, <2>5, <3>1
  <2>7. Kept(Append(returned, done)) = Append(Kept(returned), FunctionCall(c, WholeArguments))
    BY <1>2, <1>6, KeptOfAppend, AsItemType
  <2> QED
    BY <2>2, <2>6, <2>7, BlocksAreApart DEF Between
<1>10. NoBlock.is # "tool_use"
  BY BlocksAreApart
<1>11. Lines'
  BY <1>1, <1>3, <1>9, <1>10 DEF Lines, LinesUp
<1> QED
  BY <1>8, <1>11 DEF EchoInv

(* What is read after other blocks and is not handed back changes nothing. *)
LEMMA RestAddsNothing ==
  ASSUME NEW read \in Seq(Piece), NEW further \in Seq(Piece),
         Len(read) <= Len(further), \A i \in 1..Len(read) : further[i] = read[i],
         \A i \in Len(read) + 1..Len(further) : further[i].block.is \notin {"text", "tool_use"}
  PROVE  Acc(further) = Acc(read)
<1> DEFINE n == Len(read)
           Longer(f) == /\ n <= Len(f) /\ \A i \in 1..n : f[i] = read[i]
                        /\ \A i \in n + 1..Len(f) : f[i].block.is \notin {"text", "tool_use"}
           Same == {f \in Seq(Piece) : Longer(f) => Acc(f) = Acc(read)}
<1>0. n \in Nat
  BY LenProperties
<1>1. << >> \in Same
  <2>1. << >> \in Seq(Piece) /\ Len(<< >>) = 0
    BY EmptySeq
  <2>2. ASSUME Longer(<< >>) PROVE << >> = read
    <3>1. Len(read) = 0
      BY <1>0, <2>1, <2>2
    <3> QED
      BY <3>1, EmptySeq
  <2> QED
    BY <2>1, <2>2
<1>2. ASSUME NEW f \in Seq(Piece), NEW e \in Piece, f \in Same PROVE Append(f, e) \in Same
  <2> DEFINE longer == Append(f, e)
             m == Len(f)
  <2>1. /\ longer \in Seq(Piece) /\ m \in Nat /\ Len(longer) = m + 1 /\ longer[m + 1] = e
        /\ \A i \in 1..m : longer[i] = f[i]
    BY AppendProperties, LenProperties
  <2> HIDE DEF longer
  <2>2. ASSUME Longer(longer) PROVE Acc(longer) = Acc(read)
    <3>1. CASE n = m + 1
      <4>1. \A i \in 1..n : longer[i] = read[i]
        BY <2>2
      <4>2. longer = read
        BY <2>1, <3>1, <4>1, SeqEqual
      <4> QED
        BY <4>2
    <3>2. CASE n # m + 1
      <4>1. n <= m /\ m + 1 \in n + 1..m + 1 /\ \A i \in 1..n : i \in 1..m
        BY <1>0, <2>1, <2>2, <3>2
      <4>2. \A i \in n + 1..m : i \in n + 1..m + 1 /\ i \in 1..m
        BY <1>0, <2>1
      <4>3. Longer(f)
        BY <2>1, <2>2, <4>1, <4>2
      <4>4. Acc(f) = Acc(read)
        BY <1>2, <4>3
      <4>5. e.block.is \notin {"text", "tool_use"}
        BY <2>1, <2>2, <4>1
      <4>6. Acc(Append(f, e)) = Acc(f)
        BY <4>5, RestIsDropped
      <4> QED
        BY <4>4, <4>6 DEF longer
    <3> QED
      BY <3>1, <3>2
  <2> QED
    BY <2>1, <2>2 DEF longer
<1>3. Seq(Piece) \subseteq Same
  <2> HIDE DEF Same
  <2> QED
    BY <1>1, <1>2, SequenceInduction
<1>4. Longer(further)
  OBVIOUS
<1> QED
  BY <1>3, <1>4

(* The searches that close a message are not handed back.                  *)
LEMMA CompletedLines == TurnInv /\ EchoInv /\ Completed => EchoInv'
<1> SUFFICES ASSUME TurnInv, EchoInv, Completed PROVE EchoInv'
  OBVIOUS
<1> DEFINE tr == StartMessage(t)
           read == t.reader.blocks
           next == t'.reader.blocks
           base == Len(read)
           n == Len(t.searches)
<1>1. /\ stream = "open" /\ stream' = "over" /\ Open = {} /\ said = 0
      /\ t' = CloseMessage(tr) /\ UNCHANGED <<said, returned, mixed, split>>
  BY DEF Completed, Ends, upstream
<1>2. Live(t) /\ ~t.finished /\ t \in TranslatorType /\ read \in Seq(Piece)
  BY <1>1, TurnTyped
<1>3. /\ Live(tr) /\ tr.started /\ tr.reader.blocks = read /\ ~tr.finished
      /\ tr.searches = t.searches
  BY <1>2, MessageIsStarted DEF Otherwise
<1> HIDE DEF tr
<1>4. Sound(t') /\ t'.finished
  BY <1>1, <1>3, MessageIsClosed
<1>5. /\ Len(next) = base + 2 * n /\ \A i \in 1..base : next[i] = read[i]
      /\ \A k \in 1..n : /\ next[base + 2 * k - 1].block = ServerToolUse(t.searches[k])
                         /\ next[base + 2 * k].block = SearchResult(t.searches[k])
  <2> DEFINE pieces == tr.reader.blocks
             blocks == CloseMessage(tr).reader.blocks
             m == Len(tr.searches)
  <2>1. /\ Len(blocks) = Len(pieces) + 2 * m /\ \A i \in 1..Len(pieces) : blocks[i] = pieces[i]
        /\ \A k \in 1..m :
             /\ blocks[Len(pieces) + 2 * k - 1].block = ServerToolUse(tr.searches[k])
             /\ blocks[Len(pieces) + 2 * k].block = SearchResult(tr.searches[k])
    BY <1>3, MessageIsClosed
  <2>2. pieces = read /\ blocks = next /\ m = n /\ Len(pieces) = base
    BY <1>1, <1>3
  <2> HIDE DEF pieces, blocks, m, base, n, read, next
  <2> QED
    BY <1>3, <2>1, <2>2
<1>6. base \in Nat /\ n \in Nat /\ next \in Seq(Piece)
  BY <1>2, <1>4, LenProperties DEF TranslatorType, Sound, ReaderType
<1>7. Acc(next) = Acc(read)
  <2> HIDE DEF read, next, n
  <2>1. ASSUME NEW i \in base + 1..Len(next) PROVE next[i].block.is \notin {"text", "tool_use"}
    <3>1. PICK k \in 1..n : i = base + 2 * k - 1 \/ i = base + 2 * k
      <4>1. PICK j \in 1..2 * n : i = base + j
        <5>1. i - base \in 1..2 * n /\ i = base + (i - base)
          BY <1>5, <1>6, <2>1
        <5> QED
          BY <5>1
      <4> DEFINE half == (j + 1) \div 2
      <4>2. half \in 1..n /\ (j = 2 * half - 1 \/ j = 2 * half)
        BY <1>6
      <4> HIDE DEF half
      <4> QED
        BY <1>6, <4>1, <4>2
    <3>2. next[i].block = ServerToolUse(t.searches[k]) \/ next[i].block = SearchResult(t.searches[k])
      BY <1>5, <3>1
    <3> QED
      BY <3>2, BlocksAreApart
  <2>2. base <= Len(next)
    BY <1>5, <1>6
  <2> QED
    BY <1>2, <1>5, <1>6, <2>1, <2>2, RestAddsNothing
<1>8. EchoType' /\ Lines'
  BY <1>1 DEF EchoInv, EchoType, Lines
<1>9. ASSUME Undisturbed' PROVE Shown(next) = Kept(returned)
  <2>1. LinesUp(t.open, read, 0, returned)
    BY <1>1, <1>9 DEF EchoInv, Lines, Undisturbed
  <2>2. t.open.is # "tool_use"
    BY <1>1, OpenBlockOfCall
  <2>3. Shown(read) = Kept(returned)
    BY <2>1, <2>2 DEF LinesUp, Between
  <2> QED
    BY <1>7, <2>3 DEF Shown
<1>10. Finished'
  BY <1>1, <1>4, <1>9 DEF Finished
<1> QED
  BY <1>8, <1>10 DEF EchoInv

(* A message that has ended is not touched when the stream is closed, and  *)
(* no other end of the response is its completion.                         *)
LEMMA OtherEndLines ==
  TurnInv /\ EchoInv /\ (Incomplete \/ Failed \/ Truncated \/ CloseStream \/ Break) => EchoInv'
<1> SUFFICES ASSUME TurnInv, EchoInv, Incomplete \/ Failed \/ Truncated \/ CloseStream \/ Break
             PROVE  EchoInv'
  OBVIOUS
<1>1. stream' # "open" /\ UNCHANGED <<said, returned, mixed, split>>
  BY DEF Incomplete, Failed, Truncated, CloseStream, Break, Ends, upstream
<1>2. EchoType' /\ Lines'
  BY <1>1 DEF EchoInv, EchoType, Lines
<1>3. CASE Incomplete \/ Failed \/ Truncated \/ Break
  <2>1. outcome' # "completed"
    BY <1>3 DEF Incomplete, Failed, Truncated, Break, Ends
  <2> QED
    BY <1>2, <2>1 DEF EchoInv, Finished
<1>4. CASE CloseStream
  <2>1. stream # "open" /\ outcome' = outcome /\ t' = FinishMessage(t)
    BY <1>4 DEF CloseStream
  <2>2. t.finished => t' = t
    BY <2>1 DEF FinishMessage, CloseMessage
  <2>3. Finished'
    BY <1>1, <2>1, <2>2 DEF EchoInv, Finished, Undisturbed
  <2> QED
    BY <1>2, <2>3 DEF EchoInv
<1> QED
  BY <1>3, <1>4

(* Every step, and none, preserves it.                                     *)
LEMMA EchoInvStep == TurnInv /\ EchoInv /\ [Next]_vars => EchoInv'
<1> SUFFICES ASSUME TurnInv, EchoInv, [Next]_vars PROVE EchoInv'
  OBVIOUS
<1>1. CASE Created
  BY <1>1, CreatedLines
<1>2. CASE Streams(Text) \/ Streams(Thinking)
  BY <1>2, TextLines, ThinkingLines
<1>3. CASE DoneMessage \/ DoneReasoning
  BY <1>3, MessageLines, ReasoningLines
<1>4. CASE \E c \in Calls : \/ \E named \in BOOLEAN : AddCall(c, named)
                           \/ StreamFragment(c) \/ DoneCall(c)
  BY <1>4, AddCallLines, FragmentLines, DoneCallLines
<1>5. CASE \E s \in Searches : DoneSearch(s)
  BY <1>5, SearchLines
<1>6. CASE Completed \/ Incomplete \/ Failed \/ Truncated \/ CloseStream \/ Break
  BY <1>6, CompletedLines, OtherEndLines
<1>7. CASE UNCHANGED vars
  <2>1. UNCHANGED <<t, said, returned, mixed, split, stream, outcome>>
    BY <1>7 DEF vars, upstream
  <2> QED
    BY <2>1 DEF EchoInv, EchoType, Lines, Finished, Undisturbed
<1> QED
  BY <1>1, <1>2, <1>3, <1>4, <1>5, <1>6, <1>7 DEF Next

(* What the client reads of a response that no event disturbed lines up    *)
(* with what the turn retains of it, item by item, throughout.             *)
THEOREM WhatIsReadIsRetained == Spec => []EchoInv
<1>1. Init => TurnInv /\ EchoInv
  BY TurnInvInit, EchoInvInit
<1>2. TurnInv /\ EchoInv /\ [Next]_vars => (TurnInv /\ EchoInv)'
  BY TurnInvStep, EchoInvStep
<1> QED
  BY <1>1, <1>2, PTL DEF Spec

-----------------------------------------------------------------------------
(* Element by element.                                                     *)

Mapped(f, s) == [i \in 1..Len(s) |-> f[s[i]]]

(* Of one element more there is one more.                                  *)
LEMMA MappedOfAppend ==
  ASSUME NEW S, NEW s \in Seq(S), NEW e \in S, NEW f
  PROVE  /\ Len(Mapped(f, s)) = Len(s)
         /\ Mapped(f, Append(s, e)) = Append(Mapped(f, s), f[e])
<1> DEFINE n == Len(s)
           T == {f[x] : x \in S}
           longer == Append(s, e)
<1>1. n \in Nat /\ Len(longer) = n + 1 /\ longer[n + 1] = e
      /\ \A i \in 1..n : longer[i] = s[i] /\ s[i] \in S
  BY AppendProperties, LenProperties
<1> HIDE DEF longer
<1>2. Mapped(f, s) = [i \in 1..n |-> f[s[i]]]
      /\ Mapped(f, longer) = [i \in 1..(n + 1) |-> f[longer[i]]]
  BY <1>1 DEF Mapped
<1>3. Mapped(f, s) \in Seq(T) /\ Len(Mapped(f, s)) = n /\ f[e] \in T
  BY <1>1, <1>2, IsASeq, LenProperties
<1>4. /\ Append(Mapped(f, s), f[e]) \in Seq(T)
      /\ Len(Append(Mapped(f, s), f[e])) = n + 1
      /\ Append(Mapped(f, s), f[e])[n + 1] = f[e]
      /\ \A i \in 1..n : Append(Mapped(f, s), f[e])[i] = Mapped(f, s)[i]
  BY <1>3, AppendProperties
<1>5. \A i \in 1..n : Mapped(f, longer)[i] = Mapped(f, s)[i]
  BY <1>1, <1>2
<1>6. Mapped(f, longer)[n + 1] = f[e]
  BY <1>1, <1>2
<1>7. Mapped(f, longer) \in Seq(T) /\ Len(Mapped(f, longer)) = n + 1
  <2>1. \A i \in 1..(n + 1) : longer[i] \in S
    BY <1>1
  <2> QED
    BY <1>1, <1>2, <2>1, IsASeq, LenProperties
<1>8. \A i \in 1..(n + 1) : i \in 1..n \/ i = n + 1
  BY <1>1
<1>9. \A i \in 1..(n + 1) : Mapped(f, longer)[i] = Append(Mapped(f, s), f[e])[i]
  BY <1>4, <1>5, <1>6, <1>8
<1>10. Mapped(f, longer) = Append(Mapped(f, s), f[e])
  BY <1>4, <1>7, <1>9, SeqEqual
<1> QED
  BY <1>3, <1>10 DEF longer

(* The ids of items, those of the calls read, and the results of them.     *)
Ids(items) == [i \in 1..Len(items) |-> items[i].id]

CallIds(calls) == [i \in 1..Len(calls) |-> calls[i].block.id]

ResultsOf(calls, result) ==
  [i \in 1..Len(calls) |-> ToolResultBlock(calls[i].block.id, result)]

(* Of one item, one call or one result more there is one more of each.     *)
LEMMA IdsOfAppend ==
  ASSUME NEW S, NEW s \in Seq(S), NEW e \in S
  PROVE  Ids(Append(s, e)) = Append(Ids(s), e.id) /\ Len(Ids(s)) = Len(s)
<1> DEFINE f == [x \in S |-> x.id]
<1>1. Append(s, e) \in Seq(S)
  BY AppendProperties
<1>2. ASSUME NEW c \in Seq(S) PROVE Ids(c) = Mapped(f, c)
  <2>1. \A i \in 1..Len(c) : c[i].id = f[c[i]]
    BY <1>2, ElementOfSeq
  <2> QED
    BY <2>1 DEF Ids, Mapped
<1>3. f[e] = e.id
  OBVIOUS
<1> HIDE DEF f
<1>4. Mapped(f, Append(s, e)) = Append(Mapped(f, s), f[e]) /\ Len(Mapped(f, s)) = Len(s)
  BY MappedOfAppend
<1> QED
  BY <1>1, <1>2, <1>3, <1>4

(* The same of the calls read,                                             *)
LEMMA CallIdsOfAppend ==
  ASSUME NEW S, NEW s \in Seq(S), NEW e \in S
  PROVE  CallIds(Append(s, e)) = Append(CallIds(s), e.block.id) /\ Len(CallIds(s)) = Len(s)
<1> DEFINE f == [x \in S |-> x.block.id]
<1>1. Append(s, e) \in Seq(S)
  BY AppendProperties
<1>2. ASSUME NEW c \in Seq(S) PROVE CallIds(c) = Mapped(f, c)
  <2>1. \A i \in 1..Len(c) : c[i].block.id = f[c[i]]
    BY <1>2, ElementOfSeq
  <2> QED
    BY <2>1 DEF CallIds, Mapped
<1>3. f[e] = e.block.id
  OBVIOUS
<1> HIDE DEF f
<1>4. Mapped(f, Append(s, e)) = Append(Mapped(f, s), f[e]) /\ Len(Mapped(f, s)) = Len(s)
  BY MappedOfAppend
<1> QED
  BY <1>1, <1>2, <1>3, <1>4

(* and of the results they come back with.                                 *)
LEMMA ResultsOfAppend ==
  ASSUME NEW S, NEW s \in Seq(S), NEW e \in S, NEW result
  PROVE  ResultsOf(Append(s, e), result)
           = Append(ResultsOf(s, result), ToolResultBlock(e.block.id, result))
<1> DEFINE f == [x \in S |-> ToolResultBlock(x.block.id, result)]
<1>1. Append(s, e) \in Seq(S)
  BY AppendProperties
<1>2. ASSUME NEW c \in Seq(S) PROVE ResultsOf(c, result) = Mapped(f, c)
  <2>1. \A i \in 1..Len(c) : ToolResultBlock(c[i].block.id, result) = f[c[i]]
    BY <1>2, ElementOfSeq
  <2> QED
    BY <2>1 DEF ResultsOf, Mapped
<1>3. f[e] = ToolResultBlock(e.block.id, result)
  OBVIOUS
<1> HIDE DEF f
<1>4. Mapped(f, Append(s, e)) = Append(Mapped(f, s), f[e])
  BY MappedOfAppend
<1> QED
  BY <1>1, <1>2, <1>3, <1>4

(* The results are results of those calls.                                 *)
LEMMA ResultsType ==
  ASSUME NEW S, NEW s \in Seq(S), NEW result
  PROVE  ResultsOf(s, result) \in Seq({ToolResultBlock(x.block.id, result) : x \in S})
<1> DEFINE T == {ToolResultBlock(x.block.id, result) : x \in S}
<1>1. Len(s) \in Nat /\ \A i \in 1..Len(s) : ToolResultBlock(s[i].block.id, result) \in T
  BY LenProperties, ElementOfSeq
<1> HIDE DEF T
<1>2. ResultsOf(s, result) \in Seq(T)
  BY <1>1, IsASeq DEF ResultsOf
<1> QED
  BY <1>2 DEF T

(* Of nothing there is nothing.                                            *)
LEMMA NothingOfEmpty ==
  /\ Ids(<< >>) = << >> /\ CallIds(<< >>) = << >>
  /\ \A result : ResultsOf(<< >>, result) = << >>
<1>1. Len(<< >>) = 0
  BY EmptySeq
<1> QED
  BY <1>1 DEF Ids, CallIds, ResultsOf

-----------------------------------------------------------------------------
(* The calls that are handed back, and those that were retained.           *)

(* Each call read is one call shown, in the order they were read.          *)
LEMMA CallsAreShown ==
  ASSUME NEW read \in Seq(Piece)
  PROVE  Ids(OfKind(Shown(read), "function_call")) = CallIds(CallsRead(read))
<1> DEFINE Shows(items, r) == Ids(OfKind(items, "function_call")) = CallIds(CallsRead(r))
           Good == {r \in Seq(Piece) : Shows(Acc(r).items, r)}
<1>0. ASSUME NEW r \in Seq(Piece)
      PROVE  Shown(r) \in Seq(Item) /\ (Shows(Acc(r).items, r) => Shows(Shown(r), r))
  <2> DEFINE acc == Acc(r)
             now == Message("assistant", acc.parts)
  <2>1. acc \in Translated
    BY ReadType
  <2>2. now \in Item /\ now.kind = "message"
    BY <2>1 DEF Translated, Item, Message
  <2> HIDE DEF acc
  <2>3. acc.items \in Seq(Item)
    BY <2>1 DEF Translated
  <2>4. Shown(r) = IF acc.parts = << >> THEN acc.items ELSE Append(acc.items, now)
    BY DEF Shown, Flush, acc
  <2> HIDE DEF now
  <2>5. Append(acc.items, now) \in Seq(Item)
    BY <2>2, <2>3, AppendProperties
  <2>6. OfKind(Append(acc.items, now), "function_call") = OfKind(acc.items, "function_call")
    BY <2>2, <2>3, KindOfAppend
  <2> QED
    BY <2>3, <2>4, <2>5, <2>6 DEF acc
<1>1. << >> \in Good
  <2>1. << >> \in Seq(Piece)
    BY EmptySeq
  <2>2. Acc(<< >>).items = << >>
    BY ReadOfEmpty DEF Nothing
  <2> QED
    BY <2>1, <2>2, NoneOfEmpty, NothingOfEmpty
<1>2. ASSUME NEW r \in Seq(Piece), NEW e \in Piece, r \in Good PROVE Append(r, e) \in Good
  <2> DEFINE acc == Acc(r)
             next == TranslateBlock("assistant", acc, AsBlock(e))
             done == FunctionCall(e.block.id, e.content)
             flushed == Flush("assistant", acc)
  <2>1. acc \in Translated /\ Append(r, e) \in Seq(Piece) /\ Acc(Append(r, e)) = next
    BY ReadType, ReadOfAppend, AppendProperties
  <2>2. /\ e.block.is = "text" => next.items = acc.items
        /\ e.block.is = "tool_use" => next.items = Append(flushed.items, done)
        /\ e.block.is \notin {"text", "tool_use"} => next.items = acc.items
    BY <2>1, BlockIsTranslated
  <2>3. CallsRead(Append(r, e)) = IF e.block.is = "tool_use" THEN Append(CallsRead(r), e)
                                  ELSE CallsRead(r)
    BY CallsOfAppend
  <2>4. CASE e.block.is # "tool_use"
    <3>1. next.items = acc.items /\ CallsRead(Append(r, e)) = CallsRead(r)
      BY <2>2, <2>3, <2>4
    <3> HIDE DEF next
    <3> QED
      BY <1>2, <2>1, <3>1
  <2>5. CASE e.block.is = "tool_use"
    <3>1. next.items = Append(Shown(r), done) /\ CallsRead(Append(r, e)) = Append(CallsRead(r), e)
      BY <2>2, <2>3, <2>5 DEF Shown
    <3>2. done \in Item /\ done.kind = "function_call" /\ done.id = e.block.id
      <4>1. e.block.id \in Calls /\ e.content \in Seq(Nat)
        BY <2>5 DEF Piece, BlockType, ToolUse, Text, Thinking, ServerToolUse, SearchResult
      <4> QED
        BY <4>1 DEF Item, FunctionCall
    <3> HIDE DEF done, next
    <3>3. Shown(r) \in Seq(Item) /\ Shows(Shown(r), r)
      BY <1>0, <1>2
    <3> DEFINE called == OfKind(Shown(r), "function_call")
    <3>4. OfKind(Append(Shown(r), done), "function_call") = Append(called, done)
      BY <3>2, <3>3, KindOfAppend
    <3>5. called \in Seq(Item) /\ CallsRead(r) \in Seq(Piece)
      BY <3>3, OnlyType DEF OfKind, CallsRead
    <3> HIDE DEF called
    <3>6. Ids(Append(called, done)) = Append(Ids(called), e.block.id)
      BY <3>2, <3>5, IdsOfAppend
    <3>7. CallIds(Append(CallsRead(r), e)) = Append(CallIds(CallsRead(r)), e.block.id)
      BY <3>5, CallIdsOfAppend
    <3>8. Shows(next.items, Append(r, e))
      BY <3>1, <3>3, <3>4, <3>6, <3>7 DEF called
    <3> QED
      BY <2>1, <3>8
  <2> QED
    BY <2>4, <2>5
<1>3. Seq(Piece) \subseteq Good
  <2> HIDE DEF Good
  <2> QED
    BY <1>1, <1>2, SequenceInduction
<1> QED
  BY <1>0, <1>3

(* Each call retained is one the client can replay.                        *)
LEMMA CallsAreKept ==
  ASSUME NEW items \in Seq(ReturnedItem)
  PROVE  /\ Kept(items) \in Seq(Item)
         /\ Ids(OfKind(Kept(items), "function_call")) = Ids(OfKind(items, "function_call"))
<1> DEFINE Same == {r \in Seq(ReturnedItem) :
                      Ids(OfKind(Kept(r), "function_call")) = Ids(OfKind(r, "function_call"))}
<1>0. ASSUME NEW r \in Seq(ReturnedItem) PROVE Kept(r) \in Seq(Item)
  <2>1. {item \in Item : ~IsServerOnly(item)} \subseteq Item
    OBVIOUS
  <2>2. Kept(r) \in Seq({item \in Item : ~IsServerOnly(item)})
    BY AsItemsType, ViewType DEF Kept
  <2> QED
    BY <2>1, <2>2, SeqMonotonic
<1>1. << >> \in Same
  <2>1. << >> \in Seq(ReturnedItem) /\ Len(<< >>) = 0
    BY EmptySeq
  <2>2. AsItems(<< >>) = << >>
    BY <2>1 DEF AsItems
  <2> QED
    BY <2>1, <2>2, ViewOfEmpty DEF Kept
<1>2. ASSUME NEW r \in Seq(ReturnedItem), NEW e \in ReturnedItem, r \in Same
      PROVE  Append(r, e) \in Same
  <2> DEFINE item == AsItem(e)
             kept == OfKind(Kept(r), "function_call")
             called == OfKind(r, "function_call")
  <2>1. Append(r, e) \in Seq(ReturnedItem)
    BY AppendProperties
  <2>2. /\ item \in Item
        /\ e.kind = "message" => item = Spoken(e.text)
        /\ e.kind = "function_call" => item = FunctionCall(e.id, e.arguments)
    BY AsItemType
  <2>3. Kept(Append(r, e)) = IF e.kind = "reasoning" THEN Kept(r) ELSE Append(Kept(r), item)
    BY KeptOfAppend
  <2>4. /\ e.kind \in {"message", "function_call", "reasoning"}
        /\ e.kind = "message" => item.kind = "message"
        /\ e.kind = "function_call" => item.kind = "function_call" /\ item.id = e.id
    BY <2>2 DEF ReturnedItem, Spoken, Message, FunctionCall
  <2> HIDE DEF item
  <2>5. OfKind(Append(Kept(r), item), "function_call") =
          IF item.kind = "function_call" THEN Append(kept, item) ELSE kept
    BY <1>0, <2>2, KindOfAppend
  <2>6. OfKind(Append(r, e), "function_call") =
          IF e.kind = "function_call" THEN Append(called, e) ELSE called
    BY KindOfAppend
  <2>7. kept \in Seq(Item) /\ called \in Seq(ReturnedItem) /\ Ids(kept) = Ids(called)
    BY <1>0, <1>2, OnlyType DEF OfKind
  <2> HIDE DEF kept, called
  <2>8. CASE e.kind = "function_call"
    <3>1. Ids(Append(kept, item)) = Append(Ids(kept), item.id)
      BY <2>2, <2>7, IdsOfAppend
    <3>2. Ids(Append(called, e)) = Append(Ids(called), e.id)
      BY <2>7, IdsOfAppend
    <3>3. Ids(OfKind(Kept(Append(r, e)), "function_call")) =
            Ids(OfKind(Append(r, e), "function_call"))
      BY <2>3, <2>4, <2>5, <2>6, <2>7, <2>8, <3>1, <3>2
    <3> QED
      BY <2>1, <3>3
  <2>9. CASE e.kind # "function_call"
    <3>1. OfKind(Kept(Append(r, e)), "function_call") = kept
      BY <2>3, <2>4, <2>5, <2>9 DEF kept
    <3>2. OfKind(Append(r, e), "function_call") = called
      BY <2>6, <2>9
    <3> QED
      BY <2>1, <2>7, <3>1, <3>2
  <2> QED
    BY <2>8, <2>9
<1>3. Seq(ReturnedItem) \subseteq Same
  <2> HIDE DEF Same
  <2> QED
    BY <1>1, <1>2, SequenceInduction
<1> QED
  BY <1>0, <1>3

-----------------------------------------------------------------------------
(* The client's answer.                                                    *)

CallPiece == {piece \in Piece : piece.block.is = "tool_use"}

(* What the answer to calls with this result may be made of.               *)
Answering(result) ==
  {item \in Item : ~IsServerOnly(item)}
  \cup {FunctionCallOutput(c, ToolResultOutput(result).output) : c \in Calls}
  \cup {Message("user", Documents(result.blocks))}

(* The calls read are pieces of tool use.                                  *)
LEMMA CallsReadType ==
  ASSUME NEW read \in Seq(Piece) PROVE CallsRead(read) \in Seq(CallPiece)
<1> DEFINE Typed == {c \in Seq(Piece) : CallsRead(c) \in Seq(CallPiece)}
<1>1. << >> \in Typed
  BY NoneOfEmpty, EmptySeq
<1>2. ASSUME NEW c \in Seq(Piece), NEW e \in Piece, c \in Typed PROVE Append(c, e) \in Typed
  <2>1. Append(c, e) \in Seq(Piece) /\ CallsRead(c) \in Seq(CallPiece)
    BY <1>2, AppendProperties
  <2>2. e.block.is = "tool_use" => e \in CallPiece
    BY DEF CallPiece
  <2>3. e \in CallPiece => Append(CallsRead(c), e) \in Seq(CallPiece)
    BY <2>1, AppendProperties
  <2>4. CallsRead(Append(c, e)) = IF e.block.is = "tool_use" THEN Append(CallsRead(c), e)
                                  ELSE CallsRead(c)
    BY CallsOfAppend
  <2>5. CallsRead(Append(c, e)) \in Seq(CallPiece)
    BY <2>1, <2>2, <2>3, <2>4
  <2> QED
    BY <2>1, <2>5
<1>3. Seq(Piece) \subseteq Typed
  <2> HIDE DEF Typed
  <2> QED
    BY <1>1, <1>2, SequenceInduction
<1> QED
  BY <1>3

(* A result becomes the output of its call, and what must follow it.       *)
LEMMA ResultIsTranslated ==
  ASSUME NEW result, NEW c \in Calls, NEW items \in Seq(Answering(result))
  PROVE  \E further \in Seq(Answering(result)) :
           /\ TranslateBlock("user", [items |-> items, parts |-> << >>], ToolResultBlock(c, result))
                = [items |-> further, parts |-> << >>]
           /\ Ids(OfKind(further, "function_call_output"))
                = Append(Ids(OfKind(items, "function_call_output")), c)
<1> DEFINE S == Answering(result)
           acc == [items |-> items, parts |-> << >>]
           out == FunctionCallOutput(c, ToolResultOutput(result).output)
           after == Message("user", Documents(result.blocks))
           trailing == ToolResultOutput(result).trailing
           next == TranslateBlock("user", acc, ToolResultBlock(c, result))
           one == Append(items, out)
           outputs == OfKind(items, "function_call_output")
<1>1. trailing = << >> \/ trailing = <<after>>
  BY DEF ToolResultOutput
<1>2. /\ out \in S /\ out.kind = "function_call_output" /\ out.id = c
      /\ after \in S /\ after.kind = "message"
  BY DEF Answering, FunctionCallOutput, Message
<1>3. next = [items |-> items \o (<<out>> \o trailing), parts |-> << >>]
  <2>1. next = AddItems("user", acc, <<out>> \o trailing)
    BY DEF TranslateBlock, ToolResultBlock, ItemRole
  <2> HIDE DEF out, trailing, next
  <2> QED
    BY <2>1 DEF AddItems, Flush
<1> HIDE DEF out, after, trailing, next, S
<1>4. items \in Seq(S)
  BY DEF S
<1> HIDE DEF one
<1>5. one \in Seq(S) /\ items \o <<out>> = one
  BY <1>2, <1>4, AppendProperties, AppendIsConcat DEF one
<1>6. outputs \in Seq(S)
  BY <1>4, OnlyType DEF OfKind
<1>7. Ids(OfKind(one, "function_call_output")) = Append(Ids(outputs), c)
  <2>1. OfKind(one, "function_call_output") = Append(outputs, out)
    BY <1>2, <1>4, KindOfAppend DEF one
  <2> HIDE DEF outputs
  <2>2. Ids(Append(outputs, out)) = Append(Ids(outputs), out.id)
    BY <1>2, <1>6, IdsOfAppend
  <2> QED
    BY <1>2, <2>1, <2>2
<1>8. CASE trailing = << >>
  <2>1. items \o (<<out>> \o trailing) = one
    <3>1. <<out>> \o << >> = <<out>>
      OBVIOUS
    <3> QED
      BY <1>5, <1>8, <3>1
  <2>2. next = [items |-> one, parts |-> << >>]
    BY <1>3, <2>1
  <2> QED
    BY <1>5, <1>7, <2>2 DEF S, next
<1>9. CASE trailing = <<after>>
  <2> DEFINE two == Append(one, after)
  <2>1. two \in Seq(S) /\ two = one \o <<after>>
    BY <1>2, <1>5, AppendProperties, AppendIsConcat
  <2>2. OfKind(two, "function_call_output") = OfKind(one, "function_call_output")
    BY <1>2, <1>5, KindOfAppend
  <2> HIDE DEF two
  <2>3. items \o (<<out>> \o trailing) = two
    <3>1. <<out>> \in Seq(S) /\ <<after>> \in Seq(S)
      BY <1>2
    <3>2. (items \o <<out>>) \o <<after>> = items \o (<<out>> \o <<after>>)
      BY <1>4, <3>1, ConcatAssociative
    <3> QED
      BY <1>5, <1>9, <2>1, <3>2
  <2>4. next = [items |-> two, parts |-> << >>]
    BY <1>3, <2>3
  <2> QED
    BY <1>7, <2>1, <2>2, <2>4 DEF S, next
<1> QED
  BY <1>1, <1>8, <1>9

(* All of them do, once and in order.                                      *)
LEMMA ResultsAreTranslated ==
  ASSUME NEW result, NEW calls \in Seq(CallPiece)
  PROVE  \E items \in Seq(Answering(result)) :
           /\ TranslateBlocks("user", ResultsOf(calls, result)) = [items |-> items, parts |-> << >>]
           /\ Ids(OfKind(items, "function_call_output")) = CallIds(calls)
<1> DEFINE Told(s) == \E items \in Seq(Answering(result)) :
             /\ TranslateBlocks("user", ResultsOf(s, result)) = [items |-> items, parts |-> << >>]
             /\ Ids(OfKind(items, "function_call_output")) = CallIds(s)
           Good == {s \in Seq(CallPiece) : Told(s)}
<1>1. << >> \in Good
  <2>1. << >> \in Seq(CallPiece) /\ << >> \in Seq(Answering(result))
    BY EmptySeq
  <2>2. TranslateBlocks("user", ResultsOf(<< >>, result)) = [items |-> << >>, parts |-> << >>]
    BY BlocksOfEmpty, NothingOfEmpty DEF Nothing
  <2>3. Ids(OfKind(<< >>, "function_call_output")) = CallIds(<< >>)
    BY NothingOfEmpty, NoneOfEmpty
  <2> QED
    BY <2>1, <2>2, <2>3
<1>2. ASSUME NEW s \in Seq(CallPiece), NEW e \in CallPiece, s \in Good PROVE Append(s, e) \in Good
  <2> DEFINE T == {ToolResultBlock(x.block.id, result) : x \in CallPiece}
             b == ToolResultBlock(e.block.id, result)
             before == ResultsOf(s, result)
  <2>1. Append(s, e) \in Seq(CallPiece)
    BY AppendProperties
  <2>2. e.block.id \in Calls
    BY DEF CallPiece, Piece, BlockType, ToolUse, Text, Thinking, ServerToolUse, SearchResult
  <2>3. PICK items \in Seq(Answering(result)) :
          /\ TranslateBlocks("user", before) = [items |-> items, parts |-> << >>]
          /\ Ids(OfKind(items, "function_call_output")) = CallIds(s)
    BY <1>2
  <2>4. ResultsOf(Append(s, e), result) = Append(before, b) /\ before \in Seq(T) /\ b \in T
    BY ResultsOfAppend, ResultsType
  <2> HIDE DEF T, before
  <2>5. TranslateBlocks("user", Append(before, b)) =
          TranslateBlock("user", TranslateBlocks("user", before), b)
    <3> HIDE DEF b
    <3> QED
      BY <2>4, BlocksOfAppend
  <2>6. PICK further \in Seq(Answering(result)) :
          /\ TranslateBlock("user", [items |-> items, parts |-> << >>], b)
               = [items |-> further, parts |-> << >>]
          /\ Ids(OfKind(further, "function_call_output"))
               = Append(Ids(OfKind(items, "function_call_output")), e.block.id)
    BY <2>2, ResultIsTranslated
  <2>7. CallIds(Append(s, e)) = Append(CallIds(s), e.block.id)
    BY CallIdsOfAppend
  <2> HIDE DEF b
  <2>8. Told(Append(s, e))
    BY <2>3, <2>4, <2>5, <2>6, <2>7
  <2> QED
    BY <2>1, <2>8
<1>3. Seq(CallPiece) \subseteq Good
  <2> HIDE DEF Good
  <2> QED
    BY <1>1, <1>2, SequenceInduction
<1> QED
  BY <1>3

(* What the client wrote is a message of its own.                          *)
Wrote(n) == Message("user", <<TextPart("user", Written(n))>>)

(* It is an item of a conversation, and one the client can replay.         *)
LEMMA WrittenType ==
  ASSUME NEW n \in Nat
  PROVE  /\ TextPart("user", Written(n)) \in Part
         /\ Wrote(n) \in Item /\ ~IsServerOnly(Wrote(n)) /\ Wrote(n).kind = "message"
<1> DEFINE part == TextPart("user", Written(n))
<1>1. part \in Part
  <2>1. -n \in Int
    OBVIOUS
  <2>2. Written(n) \in Seq(Int)
    BY <2>1 DEF Written
  <2> QED
    BY <2>2 DEF TextPart, Part
<1> HIDE DEF part
<1>2. <<part>> \in Seq(Part)
  BY <1>1
<1>3. Wrote(n) = Message("user", <<part>>)
  BY DEF Wrote, part
<1>4. Message("user", <<part>>) \in Item /\ Message("user", <<part>>).kind = "message"
  BY <1>2 DEF Message, Item
<1> QED
  BY <1>1, <1>3, <1>4 DEF IsServerOnly, part

(* The results of the calls that were read, then what the client says.     *)
LEMMA AnswerIsTranslated ==
  ASSUME NEW read \in Seq(Piece), NEW result
  PROVE  \E items \in Seq(Answering(result)) :
           /\ TranslateMessage(Answered(read, result)) = Append(items, Wrote(4))
           /\ Ids(OfKind(items, "function_call_output")) = CallIds(CallsRead(read))
<1> DEFINE calls == CallsRead(read)
           before == ResultsOf(calls, result)
           said4 == TextBlock(Written(4))
           part == TextPart("user", Written(4))
           T == {ToolResultBlock(x.block.id, result) : x \in CallPiece} \cup {said4}
<1>1. calls \in Seq(CallPiece)
  BY CallsReadType
<1>2. before \in Seq(T) /\ said4 \in T
  <2>1. before \in Seq({ToolResultBlock(x.block.id, result) : x \in CallPiece})
    BY <1>1, ResultsType
  <2> QED
    BY <2>1, SeqMonotonic
<1> HIDE DEF T
<1>3. Answered(read, result) = Says("user", Append(before, said4))
  <2>1. Append(before, said4) = before \o <<said4>>
    BY <1>2, AppendIsConcat
  <2> QED
    BY <2>1 DEF Answered, ResultsOf
<1> HIDE DEF calls, before
<1>4. PICK items \in Seq(Answering(result)) :
        /\ TranslateBlocks("user", before) = [items |-> items, parts |-> << >>]
        /\ Ids(OfKind(items, "function_call_output")) = CallIds(calls)
  BY <1>1, ResultsAreTranslated DEF before
<1>5. TranslateBlocks("user", Append(before, said4)) = [items |-> items, parts |-> <<part>>]
  <2>1. TranslateBlocks("user", Append(before, said4)) =
          TranslateBlock("user", TranslateBlocks("user", before), said4)
    <3> HIDE DEF said4
    <3> QED
      BY <1>2, BlocksOfAppend
  <2>2. TranslateBlock("user", [items |-> items, parts |-> << >>], said4) =
          AddParts([items |-> items, parts |-> << >>], <<part>>)
    BY DEF TranslateBlock, TextBlock, ItemRole
  <2> HIDE DEF part, said4
  <2>3. AddParts([items |-> items, parts |-> << >>], <<part>>) = [items |-> items, parts |-> <<part>>]
    <3>1. << >> \o <<part>> = <<part>>
      OBVIOUS
    <3> QED
      BY <3>1 DEF AddParts
  <2> QED
    BY <1>4, <2>1, <2>2, <2>3
<1>6. TranslateMessage(Says("user", Append(before, said4))) =
        Flush("user", [items |-> items, parts |-> <<part>>]).items
  <2> HIDE DEF said4, part
  <2> QED
    BY <1>5 DEF TranslateMessage, Says, ItemRole
<1>7. Flush("user", [items |-> items, parts |-> <<part>>]).items = Append(items, Wrote(4))
  <2>1. Flush("user", [items |-> items, parts |-> <<part>>]).items
          = Append(items, Message("user", <<part>>))
    <3> HIDE DEF part
    <3>1. <<part>> # << >>
      OBVIOUS
    <3> QED
      BY <3>1 DEF Flush
  <2> QED
    BY <2>1 DEF Wrote
<1> QED
  BY <1>3, <1>4, <1>6, <1>7 DEF calls

-----------------------------------------------------------------------------
(* The next request.                                                       *)

(* Each prefix of a flattened sequence is the one before it, and one more. *)
LEMMA FlattenedIsLast ==
  ASSUME NEW s, Len(s) \in Nat \ {0},
         NEW sums, sums = [i \in 1..Len(s) |-> IF i = 1 THEN s[i] ELSE sums[i - 1] \o s[i]]
  PROVE  \E chosen :
           /\ chosen = [i \in 1..Len(s) |-> IF i = 1 THEN s[i] ELSE chosen[i - 1] \o s[i]]
           /\ FlattenSeq(s) = chosen[Len(s)]
<1> DEFINE Is(f) == f = [i \in 1..Len(s) |-> IF i = 1 THEN s[i] ELSE f[i - 1] \o s[i]]
           chosen == CHOOSE f : Is(f)
<1>1. Is(sums)
  OBVIOUS
<1>2. Is(chosen)
  BY <1>1, Zenon
<1>3. Len(s) # 0
  OBVIOUS
<1>4. FlattenSeq(s) = chosen[Len(s)]
  BY <1>3, Zenon DEF FlattenSeq
<1> HIDE DEF chosen
<1> QED
  BY <1>2, <1>4

(* Of one sequence, it; of four, one after another.                        *)
LEMMA FlattenedOne ==
  ASSUME NEW s, Len(s) = 1
  PROVE  FlattenSeq(s) = s[1]
<1> DEFINE sums == [i \in 1..1 |-> s[i]]
<1>1. sums = [i \in 1..1 |-> IF i = 1 THEN s[i] ELSE sums[i - 1] \o s[i]]
  <2>1. ASSUME NEW i \in 1..1 PROVE s[i] = IF i = 1 THEN s[i] ELSE sums[i - 1] \o s[i]
    OBVIOUS
  <2> DEFINE other == sums
  <2> HIDE DEF other
  <2>2. [i \in 1..1 |-> s[i]] = [i \in 1..1 |-> IF i = 1 THEN s[i] ELSE other[i - 1] \o s[i]]
    OBVIOUS
  <2> QED
    BY <2>2 DEF other
<1> HIDE DEF sums
<1>2. PICK chosen :
        /\ chosen = [i \in 1..1 |-> IF i = 1 THEN s[i] ELSE chosen[i - 1] \o s[i]]
        /\ FlattenSeq(s) = chosen[1]
  <2>1. Len(s) \in Nat \ {0}
    OBVIOUS
  <2>2. sums = [i \in 1..Len(s) |-> IF i = 1 THEN s[i] ELSE sums[i - 1] \o s[i]]
    BY <1>1
  <2>3. \E chosen :
           /\ chosen = [i \in 1..Len(s) |-> IF i = 1 THEN s[i] ELSE chosen[i - 1] \o s[i]]
           /\ FlattenSeq(s) = chosen[Len(s)]
    BY <2>1, <2>2, FlattenedIsLast
  <2> QED
    BY <2>3
<1>3. \A i \in 1..1 : chosen[i] = IF i = 1 THEN s[i] ELSE chosen[i - 1] \o s[i]
  BY <1>2
<1>4. chosen[1] = s[1]
  BY <1>3
<1> QED
  BY <1>2, <1>4

(* The second request has four messages.                                  *)
LEMMA FlattenedFour ==
  ASSUME NEW s, Len(s) = 4
  PROVE  FlattenSeq(s) = ((s[1] \o s[2]) \o s[3]) \o s[4]
<1> DEFINE sums == [i \in 1..4 |-> IF i = 1 THEN s[1] ELSE IF i = 2 THEN s[1] \o s[2]
                                   ELSE IF i = 3 THEN (s[1] \o s[2]) \o s[3]
                                   ELSE ((s[1] \o s[2]) \o s[3]) \o s[4]]
<1>1. sums = [i \in 1..4 |-> IF i = 1 THEN s[i] ELSE sums[i - 1] \o s[i]]
  <2>1. sums = [i \in 1..4 |-> sums[i]]
    OBVIOUS
  <2>2. /\ sums[1] = s[1] /\ sums[2] = sums[1] \o s[2]
        /\ sums[3] = sums[2] \o s[3] /\ sums[4] = sums[3] \o s[4]
    OBVIOUS
  <2> HIDE DEF sums
  <2>3. ASSUME NEW i \in 1..4 PROVE sums[i] = IF i = 1 THEN s[i] ELSE sums[i - 1] \o s[i]
    <3>1. \/ i = 1
          \/ i = 2 /\ i - 1 = 1
          \/ i = 3 /\ i - 1 = 2
          \/ i = 4 /\ i - 1 = 3
      OBVIOUS
    <3>2. i = 2 \/ i = 3 \/ i = 4 => i # 1
      OBVIOUS
    <3> QED
      BY <2>2, <3>1, <3>2
  <2>4. [i \in 1..4 |-> sums[i]] = [i \in 1..4 |-> IF i = 1 THEN s[i] ELSE sums[i - 1] \o s[i]]
    BY <2>3
  <2> QED
    BY <2>1, <2>4, Zenon
<1> HIDE DEF sums
<1>2. PICK chosen :
        /\ chosen = [i \in 1..4 |-> IF i = 1 THEN s[i] ELSE chosen[i - 1] \o s[i]]
        /\ FlattenSeq(s) = chosen[4]
  <2>1. Len(s) \in Nat \ {0}
    OBVIOUS
  <2>2. sums = [i \in 1..Len(s) |-> IF i = 1 THEN s[i] ELSE sums[i - 1] \o s[i]]
    BY <1>1
  <2>3. \E chosen :
           /\ chosen = [i \in 1..Len(s) |-> IF i = 1 THEN s[i] ELSE chosen[i - 1] \o s[i]]
           /\ FlattenSeq(s) = chosen[Len(s)]
    BY <2>1, <2>2, FlattenedIsLast
  <2> QED
    BY <2>3
<1>3. \A i \in 1..4 : chosen[i] = IF i = 1 THEN s[i] ELSE chosen[i - 1] \o s[i]
  BY <1>2
<1>4. chosen[1] = s[1]
  BY <1>3
<1>5. chosen[2] = chosen[1] \o s[2]
  <2>1. 2 \in 1..4 /\ 2 # 1 /\ 2 - 1 = 1
    OBVIOUS
  <2> QED
    BY <1>3, <2>1
<1>6. chosen[3] = chosen[2] \o s[3]
  <2>1. 3 \in 1..4 /\ 3 # 1 /\ 3 - 1 = 2
    OBVIOUS
  <2> QED
    BY <1>3, <2>1
<1>7. chosen[4] = chosen[3] \o s[4]
  <2>1. 4 \in 1..4 /\ 4 # 1 /\ 4 - 1 = 3
    OBVIOUS
  <2> QED
    BY <1>3, <2>1
<1> QED
  BY <1>2, <1>4, <1>5, <1>6, <1>7

(* A message of one text is one item, the user's whoever's it was.         *)
LEMMA OneTextIsTranslated ==
  ASSUME NEW role \in {"user", "system"}, NEW n \in Nat
  PROVE  TranslateMessage(Says(role, <<TextBlock(Written(n))>>)) = <<Wrote(n)>>
<1> DEFINE b == TextBlock(Written(n))
           part == TextPart("user", Written(n))
<1>1. ItemRole(role) = "user"
  BY DEF ItemRole
<1>2. TranslateBlocks(role, <<b>>) = TranslateBlock(role, Nothing, b)
  <2> HIDE DEF b
  <2>1. << >> \in Seq({b}) /\ <<b>> = Append(<< >>, b)
    OBVIOUS
  <2>2. TranslateBlocks(role, Append(<< >>, b)) = TranslateBlock(role, TranslateBlocks(role, << >>), b)
    BY <2>1, BlocksOfAppend
  <2> QED
    BY <2>1, <2>2, BlocksOfEmpty
<1>3. TranslateBlock(role, Nothing, b) = [items |-> << >>, parts |-> <<part>>]
  <2>1. TranslateBlock(role, Nothing, b) = AddParts(Nothing, <<part>>)
    BY <1>1 DEF TranslateBlock, TextBlock
  <2> HIDE DEF part, b
  <2>2. << >> \o <<part>> = <<part>>
    OBVIOUS
  <2> QED
    BY <2>1, <2>2 DEF AddParts, Nothing
<1>4. Flush("user", [items |-> << >>, parts |-> <<part>>]).items = <<Message("user", <<part>>)>>
  <2> HIDE DEF part
  <2>1. <<part>> # << >>
    OBVIOUS
  <2> QED
    BY <2>1 DEF Flush
<1>5. TranslateMessage(Says(role, <<b>>)) = Flush(ItemRole(role), TranslateBlocks(role, <<b>>)).items
  <2> HIDE DEF b
  <2> QED
    BY DEF TranslateMessage, Says
<1> QED
  BY <1>1, <1>2, <1>3, <1>4, <1>5 DEF Wrote

(* The first request asks; the next one also hands back what was read, the *)
(* answer to it, and what the client adds anew each turn.                  *)
LEMMA FirstInput == First.input = <<Wrote(1)>>
<1> DEFINE a == TranslateMessage(Asked)
<1>1. First.input = TranslateMessages(<<Asked>>)
  BY DEF First, TranslateRequest, Request
<1>2. a = <<Wrote(1)>>
  BY OneTextIsTranslated DEF Asked
<1>3. TranslateMessages(<<Asked>>) = FlattenSeq(<<a>>)
  <2>1. [i \in 1..Len(<<Asked>>) |-> TranslateMessage(<<Asked>>[i])] = <<a>>
    <3> HIDE DEF a
    <3> DEFINE m == <<Asked>>
    <3>1. Len(m) = 1 /\ m[1] = Asked
      OBVIOUS
    <3> HIDE DEF m
    <3>2. [i \in 1..1 |-> TranslateMessage(m[i])] = [i \in 1..1 |-> TranslateMessage(Asked)]
      BY <3>1
    <3>3. [i \in 1..1 |-> a] = <<a>>
      OBVIOUS
    <3> QED
      BY <3>1, <3>2, <3>3 DEF a, m
  <2> QED
    BY <2>1, Zenon DEF TranslateMessages
<1> HIDE DEF a
<1>4. Len(<<a>>) = 1 /\ <<a>>[1] = a
  OBVIOUS
<1>5. FlattenSeq(<<a>>) = a
  BY <1>4, FlattenedOne
<1> QED
  BY <1>1, <1>2, <1>3, <1>5

(* The second request has the four messages of it, one after another.      *)
LEMMA NextInput ==
  ASSUME NEW result
  PROVE  NextRequest(result).input =
           ((<<Wrote(1)>> \o Shown(t.reader.blocks))
              \o TranslateMessage(Answered(t.reader.blocks, result))) \o <<Wrote(2)>>
<1> DEFINE b == Says("assistant", Blocks(t.reader.blocks))
           c == Answered(t.reader.blocks, result)
           m == <<Asked, b, c, Reminder>>
           F(x) == TranslateMessage(x)
<1>1. NextRequest(result).input = TranslateMessages(m)
  BY DEF NextRequest, TranslateRequest, Request, NextMessages, reader
<1>2. F(Asked) = <<Wrote(1)>> /\ F(Reminder) = <<Wrote(2)>>
  BY OneTextIsTranslated DEF Asked, Reminder
<1>3. F(b) = Shown(t.reader.blocks)
  BY DEF TranslateMessage, Says, ItemRole, Shown, Acc
<1> HIDE DEF F, b, c
<1>4. Len(m) = 4 /\ m[1] = Asked /\ m[2] = b /\ m[3] = c /\ m[4] = Reminder
  OBVIOUS
<1> HIDE DEF m
<1>5. [i \in 1..Len(m) |-> F(m[i])] = <<F(Asked), F(b), F(c), F(Reminder)>>
  <2>1. [i \in 1..4 |-> F(m[i])] = <<F(m[1]), F(m[2]), F(m[3]), F(m[4])>>
    OBVIOUS
  <2> QED
    BY <1>4, <2>1
<1> DEFINE parts == <<F(Asked), F(b), F(c), F(Reminder)>>
<1>6. TranslateMessages(m) = FlattenSeq(parts)
  BY <1>5, Zenon DEF TranslateMessages, F
<1>7. Len(parts) = 4 /\ parts[1] = F(Asked) /\ parts[2] = F(b) /\ parts[3] = F(c)
      /\ parts[4] = F(Reminder)
  OBVIOUS
<1> HIDE DEF parts
<1>8. FlattenSeq(parts) = ((parts[1] \o parts[2]) \o parts[3]) \o parts[4]
  BY <1>7, FlattenedFour
<1>9. F(c) = TranslateMessage(Answered(t.reader.blocks, result))
  BY DEF F, c
<1> QED
  BY <1>1, <1>2, <1>3, <1>6, <1>7, <1>8, <1>9

(* What follows a conversation extends it, and is what it adds.            *)
LEMMA ConcatExtends ==
  ASSUME NEW S, NEW base \in Seq(S), NEW tail \in Seq(S)
  PROVE  Extends(base, base \o tail) /\ Delta(base, base \o tail) = tail
<1> DEFINE n == Len(base)
           k == Len(tail)
           whole == base \o tail
           rest == SubSeq(whole, n + 1, Len(whole))
<1>1. n \in Nat /\ k \in Nat
  BY LenProperties
<1>2. whole \in Seq(S) /\ Len(whole) = n + k
      /\ \A i \in 1..n + k : whole[i] = IF i <= n THEN base[i] ELSE tail[i - n]
  BY ConcatProperties
<1> HIDE DEF whole
<1>3. \A i \in 1..n + k : whole[i] \in S
  BY <1>2, ElementOfSeq
<1>4. SubSeq(whole, 1, n) = base
  <2>1. \A i \in 1..n : whole[i] \in S /\ whole[i] = base[i]
    BY <1>1, <1>2, <1>3
  <2>2. /\ SubSeq(whole, 1, n) \in Seq(S) /\ Len(SubSeq(whole, 1, n)) = n
        /\ \A i \in 1..n : SubSeq(whole, 1, n)[i] = whole[i]
    BY <1>1, <2>1, SubSeqProperties
  <2> QED
    BY <1>1, <2>1, <2>2, SeqEqual
<1>5. rest = tail
  <2>1. \A i \in n + 1..n + k : whole[i] \in S
    BY <1>1, <1>3
  <2>2. n + 1 \in Int /\ n + k \in Int
    BY <1>1
  <2>3. /\ rest \in Seq(S)
        /\ Len(rest) = IF n + 1 <= n + k THEN n + k - (n + 1) + 1 ELSE 0
        /\ \A i \in 1..n + k - (n + 1) + 1 : rest[i] = whole[n + 1 + i - 1]
    BY <1>2, <2>1, <2>2, SubSeqProperties
  <2> HIDE DEF rest
  <2>4. Len(rest) = k
    BY <1>1, <2>3
  <2>5. \A i \in 1..k : rest[i] = whole[n + i]
    <3>1. \A i \in 1..k : i \in 1..n + k - (n + 1) + 1 /\ n + 1 + i - 1 = n + i
      BY <1>1
    <3> QED
      BY <2>3, <3>1
  <2>6. \A i \in 1..k : whole[n + i] = tail[i]
    <3>1. \A i \in 1..k : n + i \in 1..n + k /\ ~(n + i <= n) /\ (n + i) - n = i
      BY <1>1
    <3> QED
      BY <1>2, <3>1
  <2>7. \A i \in 1..k : rest[i] = tail[i]
    BY <2>5, <2>6
  <2> QED
    BY <2>3, <2>4, <2>7, SeqEqual
<1> QED
  BY <1>1, <1>2, <1>4, <1>5 DEF Extends, Delta, whole

(* When what is handed back is what of the retained items can be replayed, *)
(* whatever is added goes up as a delta, and nothing else.                 *)
LEMMA AddedGoesUp ==
  ASSUME NEW S, NEW R, \A x : x \in R <=> x \in S /\ ~IsServerOnly(x),
         NEW first \in Seq(R), NEW retained \in Seq(S), NEW tail \in Seq(R), tail # << >>
  PROVE  LET base  == first \o retained
             next  == (first \o ClientView(retained)) \o tail
             whole == Reconcile(base, next)
         IN  /\ Reconciles(base, next) /\ PlansDelta(base, whole)
             /\ Delta(base, whole) = tail /\ ClientView(whole) = next
<1> DEFINE base == first \o retained
           shown == first \o ClientView(retained)
           next == shown \o tail
           n == Len(shown)
           whole == Reconcile(base, next)
<1>0. R \subseteq S /\ (\A x \in R : ~IsServerOnly(x)) /\ R = {x \in S : ~IsServerOnly(x)}
  OBVIOUS
<1>1. first \in Seq(S) /\ tail \in Seq(S)
  BY <1>0, SeqMonotonic
<1>2. ClientView(retained) \in Seq(R)
  BY <1>0, ViewType
<1>3. ClientView(first) = first
  BY <1>0, ViewOfReplayable
<1>4. base \in Seq(S)
  BY <1>1, ConcatProperties
<1>5. shown \in Seq(R) /\ n \in Nat
  BY <1>1, <1>2, ConcatProperties, LenProperties
<1> HIDE DEF shown
<1>6. next \in Seq(R) /\ Len(next) \in Nat
  BY <1>1, <1>5, ConcatProperties, LenProperties
<1>7. ClientView(base) = shown
  BY <1>1, <1>3, ViewOfConcat DEF shown
<1>8. Extends(shown, next) /\ Delta(shown, next) = tail
  BY <1>1, <1>5, ConcatExtends
<1> HIDE DEF base, next
<1>9. n \in 0..Len(next) /\ SubSeq(next, 1, n) = shown
  BY <1>5, <1>6, <1>8 DEF Extends
<1>10. Reconciles(base, next)
  BY <1>7, <1>9 DEF Reconciles, Consumes
<1>11. next \in Seq(S)
  BY <1>0, <1>6, SeqMonotonic
<1>12. PICK k \in 0..Len(next) :
         /\ SubSeq(next, 1, k) = shown /\ whole = base \o SubSeq(next, k + 1, Len(next))
  BY <1>4, <1>7, <1>10, <1>11, ReconcileSplits
<1>13. k = n
  <2>1. \A i \in 1..k : next[i] \in R
    BY <1>6, ElementOfSeq
  <2>2. Len(SubSeq(next, 1, k)) = k
    BY <2>1, <1>6, SubSeqProperties
  <2> QED
    BY <1>12, <2>2
<1>14. SubSeq(next, n + 1, Len(next)) = tail
  BY <1>8 DEF Delta
<1>15. whole = base \o tail
  BY <1>12, <1>13, <1>14
<1>16. Extends(base, whole) /\ Delta(base, whole) = tail
  BY <1>1, <1>4, <1>15, ConcatExtends
<1>17. PlansDelta(base, whole)
  BY <1>16 DEF PlansDelta
<1>18. ClientView(whole) = next
  <2>1. whole = ReconciledOrAsSent(base, next)
    BY <1>10 DEF ReconciledOrAsSent
  <2> HIDE DEF whole
  <2>2. next \in Seq({x \in S : ~IsServerOnly(x)})
    BY <1>0, <1>6
  <2> QED
    BY <1>4, <2>1, <2>2, ReconcileIsFaithful
<1> QED
  BY <1>10, <1>16, <1>17, <1>18 DEF base, next, shown

-----------------------------------------------------------------------------
(* What the next request discovers, and which tools go up with it.         *)

(* Of content that refers to no tool there are no references.              *)
LEMMA NoReferences ==
  ASSUME NEW S, \A b \in S : b.is # "tool_reference", NEW s \in Seq(S)
  PROVE  References(s) = << >>
<1> DEFINE Bare == {c \in Seq(S) : References(c) = << >>}
<1>1. << >> \in Bare
  BY NoneOfEmpty, EmptySeq
<1>2. ASSUME NEW c \in Seq(S), NEW e \in S, c \in Bare PROVE Append(c, e) \in Bare
  BY <1>2, ReferencesOfAppend, AppendProperties
<1>3. Seq(S) \subseteq Bare
  <2> HIDE DEF Bare
  <2> QED
    BY <1>1, <1>2, SequenceInduction
<1> QED
  BY <1>3

(* Of the results a call may come back with, one refers to a tool.         *)
LEMMA OneResultDiscovers ==
  ASSUME NEW result \in Results
  PROVE  References(result.blocks) =
           IF result = Discovery THEN <<ToolReference(Deferred)>> ELSE << >>
<1> DEFINE ref == ToolReference(Deferred)
           S == {Result, ImageBlock(Source), DocumentBlock(Source), ImageBlock(NoSource)}
<1>1. References(<<ref>>) = <<ref>>
  <2>1. ref.is = "tool_reference"
    BY DEF ToolReference
  <2> HIDE DEF ref
  <2>2. << >> \in Seq({ref}) /\ <<ref>> = Append(<< >>, ref)
    OBVIOUS
  <2> QED
    BY <2>1, <2>2, ReferencesOfAppend, NoneOfEmpty
<1>2. Discovery.blocks = <<ref>>
  BY DEF Discovery, Given
<1> HIDE DEF ref
<1>3. <<ref>> # << >>
  OBVIOUS
<1>4. \A b \in S : b.is # "tool_reference"
  BY DEF Result, TextBlock, ImageBlock, DocumentBlock
<1>5. result = Discovery \/ result.blocks \in Seq(S)
  <2>1. Result \in S /\ ImageBlock(Source) \in S /\ DocumentBlock(Source) \in S
        /\ ImageBlock(NoSource) \in S
    OBVIOUS
  <2> HIDE DEF S
  <2>2. /\ << >> \in Seq(S) /\ <<Result>> \in Seq(S) /\ <<Result, ImageBlock(Source)>> \in Seq(S)
        /\ <<DocumentBlock(Source), Result, ImageBlock(NoSource)>> \in Seq(S)
    BY <2>1
  <2>3. \/ result = NoContent \/ result = Discovery \/ result = Given(<<Result>>)
        \/ result = Given(<<Result, ImageBlock(Source)>>)
        \/ result = Given(<<DocumentBlock(Source), Result, ImageBlock(NoSource)>>)
    BY DEF Results
  <2>4. NoContent.blocks = << >>
    BY DEF NoContent
  <2>5. \A blocks : Given(blocks).blocks = blocks
    BY DEF Given
  <2> QED
    BY <2>2, <2>3, <2>4, <2>5
<1> HIDE DEF S
<1>6. result # Discovery => References(result.blocks) = << >>
  BY <1>4, <1>5, NoReferences
<1> QED
  BY <1>1, <1>2, <1>6 DEF ref

(* A name is discovered by the result of a call in one of the messages.    *)
LEMMA NameDiscovered ==
  ASSUME NEW request, NEW name
  PROVE  name \in DiscoveredToolNames(request) <=>
           \E m \in ToSet(request.messages) : \E b \in ToSet(m.content) :
             /\ b.is = "tool_result"
             /\ \E r \in ToSet(References(b.content.blocks)) : name = r.name
  BY DEF DiscoveredToolNames

(* What the client reads it does not hand back as the result of a call.    *)
LEMMA ReadIsNoResult ==
  ASSUME NEW read \in Seq(Piece), NEW b \in ToSet(Blocks(read))
  PROVE  b.is # "tool_result"
<1>1. PICK i \in DOMAIN Blocks(read) : b = Blocks(read)[i]
  BY DEF ToSet
<1>2. b = AsBlock(read[i])
  BY <1>1 DEF Blocks
<1> QED
  BY <1>2, Zenon DEF AsBlock, TextBlock, ThinkingBlock, ToolUseBlock, UnknownBlock

(* The client answers with the results of the calls it read, if any.       *)
LEMMA AnswerHasResults ==
  ASSUME NEW read \in Seq(Piece), NEW result
  PROVE  LET content == Answered(read, result).content
             calls   == CallsRead(read)
         IN  /\ \A b \in ToSet(content) : b.is = "tool_result" => calls # << >> /\ b.content = result
             /\ calls # << >> => \E b \in ToSet(content) : b.is = "tool_result"
<1> DEFINE calls == CallsRead(read)
           content == Answered(read, result).content
           before == ResultsOf(calls, result)
           said4 == TextBlock(Written(4))
           n == Len(calls)
<1>1. calls \in Seq(CallPiece)
  BY CallsReadType
<1>2. content = before \o <<said4>>
  BY DEF Answered, Says, ResultsOf
<1>3. said4.is = "text"
  BY DEF TextBlock
<1> HIDE DEF calls, content, said4
<1>4. n \in Nat /\ (n = 0 <=> calls = << >>)
  BY <1>1, LenProperties, EmptySeq
<1> DEFINE T == {ToolResultBlock(x.block.id, result) : x \in CallPiece}
<1>5. before \in Seq(T) /\ Len(before) = n
      /\ \A i \in 1..n : before[i].is = "tool_result" /\ before[i].content = result
  <2>1. before \in Seq(T)
    BY <1>1, ResultsType
  <2>2. before = [i \in 1..n |-> ToolResultBlock(calls[i].block.id, result)]
    BY DEF ResultsOf
  <2>3. Len(before) = n
    BY <1>4, <2>2
  <2>4. ASSUME NEW i \in 1..n PROVE before[i].is = "tool_result" /\ before[i].content = result
    BY <2>2 DEF ToolResultBlock
  <2> QED
    BY <2>1, <2>3, <2>4
<1> HIDE DEF before
<1> DEFINE U == T \cup {said4}
<1>6. before \in Seq(U) /\ <<said4>> \in Seq(U) /\ Len(<<said4>>) = 1 /\ <<said4>>[1] = said4
  <2>1. T \subseteq U /\ said4 \in U
    OBVIOUS
  <2> HIDE DEF U, T
  <2>2. before \in Seq(U)
    BY <1>5, <2>1, SeqMonotonic
  <2> QED
    BY <2>1, <2>2
<1> HIDE DEF T, U
<1>7. /\ DOMAIN content = 1..n + 1
      /\ \A i \in 1..n + 1 : content[i] = IF i <= n THEN before[i] ELSE <<said4>>[i - n]
  <2>1. before \o <<said4>> \in Seq(U)
        /\ Len(before \o <<said4>>) = n + 1
        /\ \A i \in 1..n + 1 :
             (before \o <<said4>>)[i] = IF i <= n THEN before[i] ELSE <<said4>>[i - n]
    BY <1>5, <1>6, ConcatProperties
  <2> QED
    BY <1>2, <2>1, LenProperties
<1>8. content[n + 1] = said4
  BY <1>4, <1>6, <1>7
<1>9. \A i \in 1..n : content[i] = before[i]
  BY <1>4, <1>7
<1>10. ASSUME NEW b \in ToSet(content), b.is = "tool_result"
       PROVE  calls # << >> /\ b.content = result
  <2>1. PICK i \in 1..n + 1 : b = content[i]
    BY <1>7 DEF ToSet
  <2>2. i \in 1..n
    BY <1>3, <1>4, <1>8, <1>10, <2>1
  <2>3. b = before[i] /\ n # 0
    BY <1>4, <1>9, <2>1, <2>2
  <2> QED
    BY <1>4, <1>5, <2>2, <2>3
<1>11. ASSUME calls # << >> PROVE \E b \in ToSet(content) : b.is = "tool_result"
  <2>1. 1 \in 1..n /\ 1 \in 1..n + 1
    BY <1>4, <1>11
  <2>2. content[1] \in ToSet(content)
    BY <1>7, <2>1 DEF ToSet
  <2>3. content[1].is = "tool_result"
    BY <1>5, <1>9, <2>1
  <2> QED
    BY <2>2, <2>3
<1> QED
  BY <1>10, <1>11 DEF calls, content

(* A deferred tool is discovered by a call that comes back referring to it.*)
LEMMA DiscoveredByTheNext ==
  ASSUME t.reader.blocks \in Seq(Piece), NEW result \in Results
  PROVE  Deferred \in DiscoveredToolNames(Request(NextMessages(result)))
           <=> CallsRead(t.reader.blocks) # << >> /\ result = Discovery
<1> DEFINE read == t.reader.blocks
           request == Request(NextMessages(result))
           b2 == Says("assistant", Blocks(read))
           c == Answered(read, result)
           refs == References(result.blocks)
<1>1. request.messages = <<Asked, b2, c, Reminder>>
  BY DEF Request, NextMessages, reader
<1>2. /\ \A b \in ToSet(Asked.content) : b.is # "tool_result"
      /\ \A b \in ToSet(Reminder.content) : b.is # "tool_result"
  BY DEF Asked, Reminder, Says, ToSet, TextBlock
<1>3. \A b \in ToSet(b2.content) : b.is # "tool_result"
  BY ReadIsNoResult DEF Says
<1>4. /\ \A b \in ToSet(c.content) : b.is = "tool_result" => CallsRead(read) # << >> /\ b.content = result
      /\ CallsRead(read) # << >> => \E b \in ToSet(c.content) : b.is = "tool_result"
  BY AnswerHasResults
<1> HIDE DEF request, b2, c
<1>5. ToSet(request.messages) = {Asked, b2, c, Reminder}
  BY <1>1 DEF ToSet
<1>6. Deferred \in DiscoveredToolNames(request) <=>
        CallsRead(read) # << >> /\ \E r \in ToSet(refs) : Deferred = r.name
  <2>1. ASSUME Deferred \in DiscoveredToolNames(request)
        PROVE  CallsRead(read) # << >> /\ \E r \in ToSet(refs) : Deferred = r.name
    <3>1. PICK m \in ToSet(request.messages) : \E b \in ToSet(m.content) :
             /\ b.is = "tool_result"
             /\ \E r \in ToSet(References(b.content.blocks)) : Deferred = r.name
      BY <2>1, NameDiscovered
    <3>2. m = c
      BY <1>2, <1>3, <1>5, <3>1
    <3> QED
      BY <1>4, <3>1, <3>2
  <2>2. ASSUME CallsRead(read) # << >>, NEW r \in ToSet(refs), Deferred = r.name
        PROVE  Deferred \in DiscoveredToolNames(request)
    <3>1. PICK b \in ToSet(c.content) : b.is = "tool_result" /\ b.content = result
      BY <1>4, <2>2
    <3>2. c \in ToSet(request.messages)
      BY <1>5
    <3> QED
      BY <2>2, <3>1, <3>2, NameDiscovered
  <2> QED
    BY <2>1, <2>2
<1>7. (\E r \in ToSet(refs) : Deferred = r.name) <=> result = Discovery
  <2>1. refs = IF result = Discovery THEN <<ToolReference(Deferred)>> ELSE << >>
    BY OneResultDiscovers
  <2> HIDE DEF refs
  <2>2. ToSet(<< >>) = {}
    BY DEF ToSet
  <2>3. ToSet(<<ToolReference(Deferred)>>) = {ToolReference(Deferred)}
    BY DEF ToSet
  <2>4. ToolReference(Deferred).name = Deferred
    BY DEF ToolReference
  <2> QED
    BY <2>1, <2>2, <2>3, <2>4
<1> QED
  BY <1>6, <1>7 DEF request, read

(* The tools that go up are the same two, or all but the deferred one.     *)
LEMMA ToolsThatGoUp ==
  ASSUME NEW messages, NEW discovered
  PROVE  LET tool  == [name |-> Tool, deferred |-> FALSE]
             later == [name |-> Deferred, deferred |-> TRUE]
         IN  TranslateTools(Request(messages).tools, discovered) =
               IF Deferred \in discovered THEN <<tool, later>> ELSE <<tool>>
<1> DEFINE tool == [name |-> Tool, deferred |-> FALSE]
           later == [name |-> Deferred, deferred |-> TRUE]
           both == <<tool, later>>
           wanted == {x \in {tool, later} : ForwardTool(x, discovered)}
<1>1. tool \in wanted /\ (later \in wanted <=> Deferred \in discovered)
  BY DEF ForwardTool
<1>2. TranslateTools(Request(messages).tools, discovered) = Only(both, wanted)
  <2>1. Request(messages).tools = both
    BY DEF Request
  <2>2. ToSet(both) = {tool, later}
    <3> HIDE DEF tool, later
    <3> QED
      BY DEF ToSet
  <2>3. TranslateTools(both, discovered)
          = Only(both, {x \in ToSet(both) : ForwardTool(x, discovered)})
    BY Zenon DEF TranslateTools
  <2> HIDE DEF both, tool, later
  <2> QED
    BY <2>1, <2>2, <2>3
<1> HIDE DEF wanted, tool, later
<1> DEFINE S == {tool, later}
<1>3. << >> \in Seq(S) /\ <<tool>> \in Seq(S) /\ tool \in S /\ later \in S
  OBVIOUS
<1>4. Append(<< >>, tool) = <<tool>> /\ Append(<<tool>>, later) = both
  <2>1. Append(<< >>, tool) = <<tool>>
    OBVIOUS
  <2>2. Append(<<tool>>, later) = <<tool, later>>
    <3> DEFINE one == <<tool>>
               two == <<tool, later>>
    <3>1. one \in Seq(S) /\ Len(one) = 1 /\ one[1] = tool
      BY <1>3
    <3>2. two \in Seq(S) /\ Len(two) = 2 /\ two[1] = tool /\ two[2] = later
      <4> HIDE DEF S
      <4> QED
        BY <1>3
    <3> HIDE DEF one, two, S
    <3>3. /\ Append(one, later) \in Seq(S) /\ Len(Append(one, later)) = 2
          /\ Append(one, later)[2] = later /\ Append(one, later)[1] = one[1]
      <4>1. /\ Append(one, later) \in Seq(S) /\ Len(Append(one, later)) = Len(one) + 1
            /\ Append(one, later)[Len(one) + 1] = later
            /\ \A i \in 1..Len(one) : Append(one, later)[i] = one[i]
        <5>1. later \in S /\ one \in Seq(S)
          BY <1>3, <3>1
        <5> QED
          BY <5>1, AppendProperties
      <4>2. Len(one) + 1 = 2 /\ 1 \in 1..Len(one)
        BY <3>1
      <4> QED
        BY <4>1, <4>2
    <3>4. \A i \in 1..2 : i = 1 \/ i = 2
      OBVIOUS
    <3>5. \A i \in 1..2 : Append(one, later)[i] = two[i]
      BY <3>1, <3>2, <3>3, <3>4
    <3>6. Append(one, later) = two
      BY <3>2, <3>3, <3>5, SeqEqual
    <3> QED
      BY <3>6 DEF one, two
  <2> QED
    BY <2>1, <2>2
<1> HIDE DEF S, both
<1>5. Only(<< >>, wanted) = << >>
  BY OnlyOfEmpty
<1>6. Only(Append(<< >>, tool), wanted) = Append(<< >>, tool)
  BY <1>1, <1>3, <1>5, OnlyOfAppend
<1>7. Only(Append(<<tool>>, later), wanted) =
        IF later \in wanted THEN Append(<<tool>>, later) ELSE <<tool>>
  <2>1. Only(<<tool>>, wanted) = <<tool>>
    BY <1>4, <1>6
  <2> QED
    BY <1>3, <2>1, OnlyOfAppend
<1> QED
  BY <1>1, <1>2, <1>4, <1>7 DEF both, tool, later

(* Nothing else that is not input depends on the messages.                 *)
LEMMA FieldsDependOnTools ==
  ASSUME NEW messages, NEW further, NEW discovered
  PROVE  NonInputFieldsMatch(TranslateRequest(Request(messages), Options({})),
                             TranslateRequest(Request(further), Options(discovered)))
           <=> Deferred \notin discovered
<1> DEFINE before == TranslateRequest(Request(messages), Options({}))
           now == TranslateRequest(Request(further), Options(discovered))
           text == BuildInstructions(Written(5), Options({}))
           effort == EffortFor(0, 4, {2, 4})
           few == TranslateTools(Request(messages).tools, {})
           tools == TranslateTools(Request(further).tools, discovered)
           tool  == [name |-> Tool, deferred |-> FALSE]
           later == [name |-> Deferred, deferred |-> TRUE]
<1>1. text = BuildInstructions(Written(5), Options(discovered))
  BY DEF BuildInstructions, Options
<1>2. few = <<tool>>
  <2>1. Deferred \notin {}
    OBVIOUS
  <2> QED
    BY <2>1, ToolsThatGoUp
<1>3. tools = IF Deferred \in discovered THEN <<tool, later>> ELSE <<tool>>
  BY ToolsThatGoUp
<1>4. <<tool, later>> # <<tool>>
  <2> HIDE DEF tool, later
  <2>1. Len(<<tool, later>>) = 2 /\ Len(<<tool>>) = 1
    OBVIOUS
  <2> QED
    BY <2>1
<1>5. before = [model |-> "upstream", instructions |-> text,
                input |-> TranslateMessages(messages), tools |-> few,
                tool_choice |-> TranslateToolChoice("none"), effort |-> effort,
                cache_key |-> "key"]
  BY DEF TranslateRequest, Request, Options
<1>6. now = [model |-> "upstream", instructions |-> text,
             input |-> TranslateMessages(further), tools |-> tools,
             tool_choice |-> TranslateToolChoice("none"), effort |-> effort,
             cache_key |-> "key"]
  BY <1>1 DEF TranslateRequest, Request, Options
<1> HIDE DEF before, now, text, effort, few, tools, tool, later
<1>7. NonInputFieldsMatch(before, now) <=> few = tools
  BY <1>5, <1>6 DEF NonInputFieldsMatch
<1> QED
  BY <1>2, <1>3, <1>4, <1>7 DEF before, now

(* As many ids as calls: none when there is none.                          *)
LEMMA NoneCalled ==
  ASSUME NEW S, NEW called \in Seq(S), NEW T, NEW calls \in Seq(T), Ids(called) = CallIds(calls)
  PROVE  called # << >> <=> calls # << >>
<1>1. Len(called) \in Nat /\ Len(calls) \in Nat
  BY LenProperties
<1>2. DOMAIN Ids(called) = 1..Len(called) /\ DOMAIN CallIds(calls) = 1..Len(calls)
  BY DEF Ids, CallIds
<1>3. Len(called) = 0 <=> Len(calls) = 0
  <2>1. 1 \in 1..Len(called) <=> 1 \in 1..Len(calls)
    BY <1>2
  <2> QED
    BY <1>1, <2>1
<1> QED
  BY <1>1, <1>3, EmptySeq

(* Of a response whose blocks line up with what the turn retained of it,   *)
(* the next request is the retained conversation and what the client adds: *)
(* the outputs of the calls, and what it says.                             *)
LEMMA NextGoesUp ==
  ASSUME t.reader.blocks \in Seq(Piece), returned \in Seq(ReturnedItem),
         Shown(t.reader.blocks) = Kept(returned), NEW result
  PROVE  LET next  == NextRequest(result).input
             whole == Reconcile(Baseline, next)
             added == Delta(Baseline, whole)
         IN  /\ Reconciles(Baseline, next) /\ PlansDelta(Baseline, whole)
             /\ ClientView(whole) = next
             /\ Ids(OfKind(added, "function_call_output"))
                  = CallIds(CallsRead(t.reader.blocks))
<1> DEFINE read == t.reader.blocks
           next == NextRequest(result).input
           whole == Reconcile(Baseline, next)
           first == <<Wrote(1)>>
           retained == AsItems(returned)
           S == Item \cup Answering(result)
           R == {x \in S : ~IsServerOnly(x)}
<1>1. PICK items \in Seq(Answering(result)) :
        /\ TranslateMessage(Answered(read, result)) = Append(items, Wrote(4))
        /\ Ids(OfKind(items, "function_call_output")) = CallIds(CallsRead(read))
  BY AnswerIsTranslated
<1> DEFINE answer == Append(items, Wrote(4))
           tail == Append(answer, Wrote(2))
<1>2. \A n \in Nat : Wrote(n) \in Item /\ ~IsServerOnly(Wrote(n)) /\ Wrote(n).kind = "message"
  BY WrittenType
<1>3. Answering(result) \subseteq R /\ Item \subseteq S
      /\ \A n \in Nat : Wrote(n) \in R
  <2>1. \A x \in Answering(result) : ~IsServerOnly(x)
    BY DEF Answering, IsServerOnly, FunctionCallOutput, Message
  <2> QED
    BY <1>2, <2>1
<1>4. retained \in Seq(S)
  <2>1. retained \in Seq(Item)
    BY AsItemsType
  <2> HIDE DEF S, retained
  <2> QED
    BY <1>3, <2>1, SeqMonotonic
<1>5. Kept(returned) = ClientView(retained)
  BY DEF Kept
<1>6. Baseline = first \o retained
  BY FirstInput DEF Baseline, Retained, AsItems
<1> HIDE DEF retained
<1>7. ClientView(retained) \in Seq(R)
  BY <1>4, ViewType
<1> HIDE DEF R, S
<1>8. /\ first \in Seq(R) /\ items \in Seq(R) /\ answer \in Seq(R) /\ tail \in Seq(R)
      /\ <<Wrote(2)>> \in Seq(R)
  <2>1. Wrote(1) \in R /\ Wrote(2) \in R /\ Wrote(4) \in R
    BY <1>3
  <2>2. items \in Seq(R)
    BY <1>3, SeqMonotonic
  <2> HIDE DEF answer
  <2>3. answer \in Seq(R)
    BY <2>1, <2>2, AppendProperties DEF answer
  <2>4. tail \in Seq(R)
    BY <2>1, <2>3, AppendProperties
  <2> QED
    BY <2>1, <2>2, <2>3, <2>4
<1>9. tail = answer \o <<Wrote(2)>>
  <2> HIDE DEF answer
  <2> QED
    BY <1>3, <1>8, AppendIsConcat
<1>10. tail # << >>
  <2> HIDE DEF answer
  <2>1. Len(tail) = Len(answer) + 1 /\ Len(answer) \in Nat
    BY <1>3, <1>8, AppendProperties, LenProperties
  <2> HIDE DEF tail
  <2> QED
    BY <2>1, EmptySeq
<1>11. next = (first \o ClientView(retained)) \o tail
  <2>1. next = ((first \o ClientView(retained)) \o answer) \o <<Wrote(2)>>
    BY <1>1, <1>5, NextInput
  <2> DEFINE before == first \o ClientView(retained)
             more == <<Wrote(2)>>
  <2>2. before \in Seq(R)
    BY <1>7, <1>8, ConcatProperties
  <2> HIDE DEF answer, first, next, tail, before, more
  <2>3. more \in Seq(R) /\ answer \in Seq(R)
    BY <1>8 DEF more
  <2>4. (before \o answer) \o more = before \o (answer \o more)
    BY <2>2, <2>3, ConcatAssociative
  <2> QED
    BY <1>9, <2>1, <2>4 DEF before, more
<1> HIDE DEF next, first, tail
<1>12. /\ Reconciles(Baseline, next) /\ PlansDelta(Baseline, whole)
       /\ Delta(Baseline, whole) = tail /\ ClientView(whole) = next
  <2>1. /\ \A x : x \in R <=> x \in S /\ ~IsServerOnly(x)
        /\ first \in Seq(R) /\ tail \in Seq(R)
    BY <1>8 DEF R
  <2> DEFINE further == (first \o ClientView(retained)) \o tail
             base == first \o retained
  <2>2. /\ Reconciles(base, further) /\ PlansDelta(base, Reconcile(base, further))
        /\ Delta(base, Reconcile(base, further)) = tail
        /\ ClientView(Reconcile(base, further)) = further
    BY <1>4, <1>10, <2>1, AddedGoesUp
  <2> HIDE DEF further, base
  <2>3. next = further /\ Baseline = base
    BY <1>6, <1>11 DEF further, base
  <2> QED
    BY <2>2, <2>3
<1>13. OfKind(tail, "function_call_output") = OfKind(items, "function_call_output")
  <2>1. Wrote(2).kind # "function_call_output" /\ Wrote(4).kind # "function_call_output"
    BY <1>2
  <2>2. OfKind(answer, "function_call_output") = OfKind(items, "function_call_output")
    BY <1>3, <1>8, <2>1, KindOfAppend
  <2> HIDE DEF answer
  <2>3. OfKind(tail, "function_call_output") = OfKind(answer, "function_call_output")
    BY <1>3, <1>8, <2>1, KindOfAppend DEF tail
  <2> QED
    BY <2>2, <2>3
<1> HIDE DEF whole
<1> QED
  BY <1>1, <1>12, <1>13 DEF whole, next, read

(* `Baseline::plan` of session.rs, for any number of calls, searches and   *)
(* fragments: what the client hands back of a response that no event       *)
(* disturbed lines up with what the turn retained of it, so that the next  *)
(* turn goes up as a delta of what the client added -- an output for each  *)
(* of the calls, once and in order, then the rest -- and nothing but the   *)
(* discovery of a deferred tool stands in its way.                         *)
THEOREM NextTurnGoesUpAsADelta == Spec => []NextTurnIsADelta
<1>1. TurnInv /\ EchoInv => NextTurnIsADelta
  <2> SUFFICES ASSUME TurnInv, EchoInv, stream = "closed", outcome = "completed", ~mixed, ~split,
                      MessagesApart, NEW result \in Results
               PROVE  LET next  == NextRequest(result)
                          whole == Reconcile(Baseline, next.input)
                          added == Delta(Baseline, whole)
                          outputs == OfKind(added, "function_call_output")
                          called  == OfKind(returned, "function_call")
                          found   == called # << >> /\ result = Discovery
                      IN  /\ Reconciles(Baseline, next.input)
                          /\ PlansDelta(Baseline, whole)
                          /\ [i \in 1..Len(outputs) |-> outputs[i].id]
                               = [i \in 1..Len(called) |-> called[i].id]
                          /\ ClientView(whole) = next.input
                          /\ NonInputFieldsMatch(First, next) = ~found
    BY Zenon DEF NextTurnIsADelta
  <2> DEFINE read == t.reader.blocks
             next == NextRequest(result)
             whole == Reconcile(Baseline, next.input)
             outputs == OfKind(Delta(Baseline, whole), "function_call_output")
             called == OfKind(returned, "function_call")
             calls == CallsRead(read)
             found == called # << >> /\ result = Discovery
  <2>1. read \in Seq(Piece)
    BY DEF TurnInv, PhaseInv, Sound, TranslatorType, ReaderType
  <2>2. returned \in Seq(ReturnedItem)
    BY DEF EchoInv, EchoType
  <2>3. Shown(read) = Kept(returned)
    <3>1. Apart(returned)
      BY DEF MessagesApart, Apart
    <3>2. said = 0
      BY DEF EchoInv, Finished
    <3>3. Undisturbed
      BY <3>1, <3>2 DEF Undisturbed
    <3> QED
      BY <3>3 DEF EchoInv, Finished
  <2>4. /\ Reconciles(Baseline, next.input) /\ PlansDelta(Baseline, whole)
        /\ ClientView(whole) = next.input /\ Ids(outputs) = CallIds(calls)
    BY <2>1, <2>2, <2>3, NextGoesUp
  <2>5. Ids(called) = CallIds(calls)
    <3>1. Ids(OfKind(Shown(read), "function_call")) = CallIds(calls)
      BY <2>1, CallsAreShown
    <3>2. Ids(OfKind(Kept(returned), "function_call")) = Ids(called)
      BY <2>2, CallsAreKept
    <3> QED
      BY <2>3, <3>1, <3>2
  <2>6. called # << >> <=> calls # << >>
    <3>1. called \in Seq(ReturnedItem) /\ calls \in Seq(CallPiece)
      BY <2>1, <2>2, OnlyType, CallsReadType DEF OfKind
    <3> HIDE DEF called, calls
    <3> QED
      BY <2>5, <3>1, NoneCalled
  <2>7. Deferred \in DiscoveredToolNames(Request(NextMessages(result))) <=> found
    BY <2>1, <2>6, DiscoveredByTheNext
  <2>8. NonInputFieldsMatch(First, next)
          <=> Deferred \notin DiscoveredToolNames(Request(NextMessages(result)))
    BY FieldsDependOnTools DEF First, NextRequest
  <2>9. NonInputFieldsMatch(First, next) = ~found
    <3> HIDE DEF found, next
    <3>1. NonInputFieldsMatch(First, next) \in BOOLEAN
      BY DEF NonInputFieldsMatch
    <3> QED
      BY <2>7, <2>8, <3>1
  <2>10. [i \in 1..Len(outputs) |-> outputs[i].id] = [i \in 1..Len(called) |-> called[i].id]
    <3> HIDE DEF outputs, called
    <3> QED
      BY <2>4, <2>5 DEF Ids
  <2> HIDE DEF next, whole, outputs, called, found
  <2> QED
    BY <2>4, <2>9, <2>10 DEF whole, outputs, called, found, next
<1>2. Spec => []TurnInv
  BY TurnHolds
<1>3. Spec => []EchoInv
  BY WhatIsReadIsRetained
<1> QED
  BY <1>1, <1>2, <1>3, PTL
==============================================================================
