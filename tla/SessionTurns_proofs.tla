------------------------ MODULE SessionTurns_proofs ------------------------
(***************************************************************************)
(* Proofs about SessionTurns, for every number of turns, messages, fields  *)
(* and accounts.  First what holds however requests overlap: the types,    *)
(* one owner for every connection, the connection a turn goes up on, and   *)
(* that a full upload is the conversation asked.  Then what a session      *)
(* promises where its requests come one after the other, Overlap = FALSE:  *)
(* deltas too are heard as asked, the parked connection holds the          *)
(* baseline, and the session is a ConversationService.                     *)
(***************************************************************************)
EXTENDS SessionTurns, Items_proofs

-----------------------------------------------------------------------------
(* Conversations.                                                          *)

(* The items a client writes are items.                                    *)
LEMMA UserItemType ==
  ASSUME NEW u \in Users
  PROVE  User(u) \in Item
  BY DEF Item, User

(* The items a response returns are items.                                 *)
LEMMA ResponseItemTypes ==
  ASSUME NEW t \in Turns
  PROVE  Reasoning(t) \in Item /\ Answer(t) \in Item
  BY DEF Item, Reasoning, Answer

(* Whatever a client asks is a conversation.                               *)
LEMMA AskType ==
  ASSUME TypeOK, NEW ask \in Asks
  PROVE  ask \in Seq(Item)
<1>1. CASE \E u \in Users : ask = <<User(u)>>
  <2>1. PICK u \in Users : ask = <<User(u)>>
    BY <1>1
  <2>2. User(u) \in Item
    BY UserItemType
  <2> QED
    BY <2>1, <2>2
<1>2. CASE \E t \in Turns, u \in Users : ask = Append(Told(t), User(u))
  BY <1>2, UserItemType, ResponseItemTypes, AppendProperties DEF Told, TypeOK, RequestTypeOK
<1>3. CASE \E t \in Turns : ask = asked[t]
  BY <1>3 DEF TypeOK, RequestTypeOK
<1>4. CASE \E t \in Turns, u \in Users : ask = Append(asked[t], User(u))
  BY <1>4, UserItemType, AppendProperties DEF TypeOK, RequestTypeOK
<1> QED
  BY <1>1, <1>2, <1>3, <1>4 DEF Asks

-----------------------------------------------------------------------------
(* What TypeOK needs to be inductive: how far a turn has come.             *)

(* The steps before an attempt to send has succeeded.                      *)
Early == {"idle", "snapshot", "check", "claim", "previous", "previousId",
          "route", "take", "dial", "send", "http"}

(* No event stream before the turn is sent.                                *)
Unstreamed == \A t \in Turns : pc[t] \in Early => pump[t] = "none"

(* No transport and no plan before the turn reaches for a connection.      *)
Unsent ==
  \A t \in Turns :
    pc[t] \in Early \ {"dial", "send", "http"} => via[t] = None /\ continues[t] = None

(* A connection in other hands than its own turn's was handed on by it.    *)
HandedOn ==
  /\ slot # None => pc[slot] \notin Early
  /\ \A t \in Turns : via[t] \in Turns \ {t} => pc[via[t]] \notin Early

(* What goes up over a connection just dialed goes up in full.             *)
FreshIsFull == \A t \in Turns : pc[t] = "send" /\ via[t] = t => continues[t] = None

PathInv == Unstreamed /\ Unsent /\ HandedOn /\ FreshIsFull

(* Every turn starts out idle, on an empty session with no connection.     *)
LEMMA TypeInit == Init => TypeOK /\ PathInv
<1> SUFFICES ASSUME Init PROVE TypeOK /\ PathInv
  OBVIOUS
<1>1. << >> \in Seq(Item)
  BY EmptySeq
<1>2. SessionTypeOK /\ ConduitTypeOK
  BY <1>1 DEF Init, SessionTypeOK, ConduitTypeOK, Conn, Unopened
<1>3. RequestTypeOK /\ PlanTypeOK
  BY <1>1 DEF Init, RequestTypeOK, PlanTypeOK
<1>4. StreamTypeOK /\ BackendTypeOK
  BY <1>1 DEF Init, StreamTypeOK, BackendTypeOK, NoHeld
<1>5. TransportOK /\ PathInv
  BY SentinelAssumption
     DEF Init, TransportOK, PathInv, Unstreamed, Unsent, HandedOn, FreshIsFull, Early
<1> QED
  BY <1>2, <1>3, <1>4, <1>5 DEF TypeOK

(* Closing a connection, or nothing, leaves connections.                   *)
LEMMA CloseType ==
  ASSUME ConduitTypeOK, NEW k
  PROVE  Close(k) \in [Turns -> Conn]
  BY DEF ConduitTypeOK, Close, Conn, Unopened

(* So does marking one with the response it saw (pool.rs, `saw`).          *)
LEMMA SawType ==
  ASSUME NEW c \in Conn, NEW t \in Turns
  PROVE  [c EXCEPT !.saw = t] \in Conn
  BY DEF Conn

(* A full upload is the input; a delta is the rest of the input after what *)
(* the backend holds.                                                      *)
LEMMA ConversationType ==
  ASSUME TypeOK, NEW t \in Turns
  PROVE  Conversation(t) \in Seq(Item)
<1>1. input[t] \in Seq(Item) /\ before[t] \in Seq(Item)
  BY DEF TypeOK, PlanTypeOK
<1>2. Delta(before[t], input[t]) \in Seq(Item)
  BY <1>1, SubSeqProperties, ElementOfSeq DEF Delta
<1>3. continues[t] # None => held[continues[t]].items \in Seq(Item)
  BY DEF TypeOK, PlanTypeOK, BackendTypeOK
<1> QED
  BY <1>1, <1>2, <1>3, ConcatProperties DEF Conversation, Payload

(* Every step of a turn keeps the types, given how far the turn has come.  *)
LEMMA TypeStep ==
  ASSUME TypeOK, PathInv, [Next]_vars
  PROVE  TypeOK'
<1> USE DEF TypeOK, SessionTypeOK, ConduitTypeOK, RequestTypeOK, PlanTypeOK,
        StreamTypeOK, BackendTypeOK, TransportOK, sessionVars,
        conduitVars, requestVars, planVars, streamVars, backendVars,
        PathInv, Early, Unstreamed, Unsent, FreshIsFull
<1>1. CASE UNCHANGED vars
  BY <1>1 DEF vars
<1>2. ASSUME NEW t \in Turns, Request(t) PROVE TypeOK'
  <2>1. PICK ask \in Asks, f \in Fields, a \in Accounts : Begin(t, ask, f, a)
    BY <1>2 DEF Request
  <2>2. ask \in Seq(Item)
    BY AskType
  <2>3. SessionTypeOK' /\ ConduitTypeOK' /\ PlanTypeOK' /\ StreamTypeOK' /\ BackendTypeOK'
    BY <2>1 DEF Begin
  <2>4. RequestTypeOK'
    BY <2>1, <2>2 DEF Begin
  <2>5. TransportOK'
    BY <2>1 DEF Begin
  <2> QED
    BY <2>3, <2>4, <2>5
<1>3. ASSUME NEW t \in Turns, Snapshot(t) PROVE TypeOK'
  <2>1. SessionTypeOK'
    BY <1>3 DEF Snapshot
  <2>2. ConduitTypeOK'
    BY <1>3 DEF Snapshot
  <2>3. RequestTypeOK' /\ PlanTypeOK'
    BY <1>3, ReconcileType DEF Snapshot
  <2>4. StreamTypeOK'
    BY <1>3 DEF Snapshot
  <2>5. BackendTypeOK'
    BY <1>3 DEF Snapshot
  <2>6. TransportOK'
    BY <1>3, SentinelAssumption DEF Snapshot
  <2> QED
    BY <2>1, <2>2, <2>3, <2>4, <2>5, <2>6
<1>4. ASSUME NEW t \in Turns, CheckConfirmed(t) PROVE TypeOK'
  BY <1>4, SentinelAssumption DEF CheckConfirmed
<1>5. ASSUME NEW t \in Turns, Claim(t) PROVE TypeOK'
  BY <1>5, SentinelAssumption DEF Claim
<1>6. ASSUME NEW t \in Turns, RefuseTooLarge(t) PROVE TypeOK'
  <2>1. SessionTypeOK'
    BY <1>6 DEF RefuseTooLarge, Return
  <2>2. ConduitTypeOK'
    BY <1>6 DEF RefuseTooLarge, Return
  <2>3. RequestTypeOK' /\ PlanTypeOK'
    BY <1>6 DEF RefuseTooLarge, Return
  <2>4. StreamTypeOK'
    BY <1>6 DEF RefuseTooLarge, Return
  <2>5. BackendTypeOK'
    BY <1>6 DEF RefuseTooLarge, Return
  <2>6. TransportOK'
    BY <1>6, SentinelAssumption DEF RefuseTooLarge, Return
  <2> QED
    BY <2>1, <2>2, <2>3, <2>4, <2>5, <2>6
<1>7. ASSUME NEW t \in Turns, ReadLastRequest(t) PROVE TypeOK'
  BY <1>7, SentinelAssumption DEF ReadLastRequest
<1>8. ASSUME NEW t \in Turns, ReadLastResponse(t) PROVE TypeOK'
  BY <1>8, SentinelAssumption DEF ReadLastResponse
<1>9. ASSUME NEW t \in Turns, Route(t) PROVE TypeOK'
  <2>1. SessionTypeOK'
    BY <1>9 DEF Route
  <2>2. ConduitTypeOK'
    BY <1>9 DEF Route
  <2>3. RequestTypeOK' /\ PlanTypeOK'
    BY <1>9 DEF Route
  <2>4. StreamTypeOK'
    BY <1>9 DEF Route
  <2>5. BackendTypeOK'
    BY <1>9 DEF Route
  <2>6. TransportOK'
    BY <1>9, SentinelAssumption DEF Route
  <2> QED
    BY <2>1, <2>2, <2>3, <2>4, <2>5, <2>6
<1>10. ASSUME NEW t \in Turns, Take(t) PROVE TypeOK'
  <2>1. Reusable(t) \in Turns \cup {None} /\ Reusable(t) # Http
    BY SentinelAssumption DEF Reusable
  <2>2. ConduitTypeOK'
    BY <1>10, CloseType DEF Take
  <2>3. RequestTypeOK' /\ PlanTypeOK'
    BY <1>10, <2>1 DEF Take
  <2>4. TransportOK'
    <3>1. pump[t] = "none" /\ Reusable(t) # Http
      BY <1>10, <2>1 DEF Take
    <3>2. /\ pc'[t] = IF Reusable(t) = None THEN "dial" ELSE "send"
          /\ via'[t] = Reusable(t)
          /\ Reusable(t) = None => continues'[t] = None
      BY <1>10 DEF Take, MayContinue, Saw
    <3>3. \A s \in Turns \ {t} :
            pc'[s] = pc[s] /\ via'[s] = via[s] /\ continues'[s] = continues[s]
      BY <1>10 DEF Take
    <3> QED
      BY <1>10, <2>1, <3>1, <3>2, <3>3 DEF Take
  <2>5. SessionTypeOK' /\ StreamTypeOK' /\ BackendTypeOK'
    BY <1>10 DEF Take
  <2> QED
    BY <2>2, <2>3, <2>4, <2>5
<1>11. ASSUME NEW t \in Turns, Dial(t) PROVE TypeOK'
  BY <1>11, SentinelAssumption DEF Dial, Conn
<1>12. ASSUME NEW t \in Turns, DialFails(t) PROVE TypeOK'
  BY <1>12, SentinelAssumption DEF DialFails
<1>13. ASSUME NEW t \in Turns, StaleConnection(t) PROVE TypeOK'
  BY <1>13, SentinelAssumption, CloseType DEF StaleConnection
<1>14. ASSUME NEW t \in Turns, PolicyClose(t) PROVE TypeOK'
  <2>1. SessionTypeOK'
    BY <1>14 DEF PolicyClose
  <2>2. ConduitTypeOK'
    BY <1>14, CloseType DEF PolicyClose
  <2>3. RequestTypeOK' /\ PlanTypeOK'
    BY <1>14 DEF PolicyClose
  <2>4. StreamTypeOK'
    BY <1>14 DEF PolicyClose
  <2>5. BackendTypeOK'
    BY <1>14 DEF PolicyClose
  <2>6. TransportOK'
    BY <1>14, SentinelAssumption DEF PolicyClose
  <2> QED
    BY <2>1, <2>2, <2>3, <2>4, <2>5, <2>6
<1>15. ASSUME NEW t \in Turns, Accept(t) PROVE TypeOK'
  <2>1. SessionTypeOK'
    BY <1>15 DEF Accept
  <2>2. ConduitTypeOK'
    BY <1>15 DEF Accept
  <2>3. RequestTypeOK' /\ PlanTypeOK'
    BY <1>15 DEF Accept
  <2>4. StreamTypeOK'
    BY <1>15 DEF Accept
  <2>5. BackendTypeOK'
    BY <1>15, ConversationType DEF Accept
  <2>6. TransportOK'
    BY <1>15, SentinelAssumption DEF Accept
  <2> QED
    BY <2>1, <2>2, <2>3, <2>4, <2>5, <2>6
<1>16. ASSUME NEW t \in Turns, Refuse(t) PROVE TypeOK'
  BY <1>16, SentinelAssumption DEF Refuse
<1>17. ASSUME NEW t \in Turns, FirstReadFails(t) PROVE TypeOK'
  BY <1>17, SentinelAssumption, CloseType DEF FirstReadFails
<1>18. ASSUME NEW t \in Turns, PostOverHttp(t) PROVE TypeOK'
  <2>1. SessionTypeOK'
    BY <1>18 DEF PostOverHttp, Payload
  <2>2. ConduitTypeOK'
    BY <1>18 DEF PostOverHttp, Payload
  <2>3. RequestTypeOK' /\ PlanTypeOK'
    BY <1>18 DEF PostOverHttp, Payload
  <2>4. StreamTypeOK'
    BY <1>18 DEF PostOverHttp, Payload
  <2>5. BackendTypeOK'
    BY <1>18 DEF PostOverHttp, Payload
  <2>6. TransportOK'
    BY <1>18, SentinelAssumption DEF PostOverHttp, Payload
  <2> QED
    BY <2>1, <2>2, <2>3, <2>4, <2>5, <2>6
<1>19. ASSUME NEW t \in Turns, HttpFails(t) PROVE TypeOK'
  <2>1. SessionTypeOK'
    BY <1>19 DEF HttpFails, Return
  <2>2. ConduitTypeOK'
    BY <1>19 DEF HttpFails, Return
  <2>3. RequestTypeOK' /\ PlanTypeOK'
    BY <1>19 DEF HttpFails, Return
  <2>4. StreamTypeOK'
    BY <1>19 DEF HttpFails, Return
  <2>5. BackendTypeOK'
    BY <1>19 DEF HttpFails, Return
  <2>6. TransportOK'
    BY <1>19, SentinelAssumption DEF HttpFails, Return
  <2> QED
    BY <2>1, <2>2, <2>3, <2>4, <2>5, <2>6
<1>20. ASSUME NEW t \in Turns, RememberRequest(t) PROVE TypeOK'
  BY <1>20, SentinelAssumption DEF RememberRequest
<1>21. ASSUME NEW t \in Turns, NameResponse(t) PROVE TypeOK'
  <2>1. via[t] # Http => via[t] \in Turns
    BY <1>21 DEF NameResponse
  <2>2. ASSUME NEW k \in Turns
        PROVE  [conn EXCEPT ![k].saw = t] \in [Turns -> Conn]
    BY SawType
  <2>3. conn' \in [Turns -> Conn]
    BY <1>21, <2>1, <2>2 DEF NameResponse
  <2>4. ConduitTypeOK'
    BY <1>21, <2>3 DEF NameResponse
  <2>5. SessionTypeOK' /\ RequestTypeOK' /\ PlanTypeOK' /\ StreamTypeOK' /\ BackendTypeOK'
    BY <1>21 DEF NameResponse
  <2>6. TransportOK'
    BY <1>21 DEF NameResponse
  <2> QED
    BY <2>4, <2>5, <2>6
<1>22. ASSUME NEW t \in Turns, ReturnItem(t) PROVE TypeOK'
  <2>1. <<Reasoning(t)>> \in Seq(Item) /\ Append(returned[t], Answer(t)) \in Seq(Item)
    BY ResponseItemTypes, AppendProperties
  <2>2. returned' \in [Turns -> Seq(Item)]
    BY <1>22, <2>1 DEF ReturnItem
  <2>3. StreamTypeOK'
    BY <1>22, <2>2 DEF ReturnItem
  <2>4. SessionTypeOK' /\ ConduitTypeOK' /\ RequestTypeOK' /\ PlanTypeOK' /\ BackendTypeOK'
    BY <1>22 DEF ReturnItem
  <2>5. TransportOK'
    BY <1>22 DEF ReturnItem
  <2> QED
    BY <2>4, <2>5, <2>3
<1>23. ASSUME NEW t \in Turns, Complete(t) PROVE TypeOK'
  <2>1. heard[t] \o returned[t] \in Seq(Item)
    BY ConcatProperties
  <2>2. BackendTypeOK'
    BY <1>23, <2>1, SentinelAssumption DEF Complete, End
  <2>3. SessionTypeOK' /\ ConduitTypeOK' /\ RequestTypeOK' /\ PlanTypeOK'
    BY <1>23 DEF Complete, End
  <2>4. StreamTypeOK'
    BY <1>23 DEF Complete, End
  <2>5. TransportOK'
    BY <1>23 DEF Complete, End
  <2> QED
    BY <2>2, <2>3, <2>4, <2>5
<1>24. ASSUME NEW t \in Turns, Fail(t) PROVE TypeOK'
  BY <1>24, SentinelAssumption DEF Fail, End
<1>25. ASSUME NEW t \in Turns, Truncate(t) PROVE TypeOK'
  BY <1>25, SentinelAssumption, CloseType DEF Truncate, End
<1>26. ASSUME NEW t \in Turns, Break(t) PROVE TypeOK'
  BY <1>26, SentinelAssumption, CloseType DEF Break, End
<1>27. ASSUME NEW t \in Turns, Park(t) PROVE TypeOK'
  BY <1>27, SentinelAssumption, CloseType DEF Park
<1>28. ASSUME NEW t \in Turns, ReportFailure(t) PROVE TypeOK'
  <2>1. SessionTypeOK'
    BY <1>28 DEF ReportFailure, Return
  <2>2. ConduitTypeOK'
    BY <1>28 DEF ReportFailure, Return
  <2>3. RequestTypeOK' /\ PlanTypeOK'
    BY <1>28 DEF ReportFailure, Return
  <2>4. StreamTypeOK'
    BY <1>28 DEF ReportFailure, Return
  <2>5. BackendTypeOK'
    BY <1>28 DEF ReportFailure, Return
  <2>6. TransportOK'
    BY <1>28, SentinelAssumption DEF ReportFailure, Return
  <2> QED
    BY <2>1, <2>2, <2>3, <2>4, <2>5, <2>6
<1>29. ASSUME NEW t \in Turns, RememberResponse(t) PROVE TypeOK'
  BY <1>29, SentinelAssumption DEF RememberResponse
<1>30. ASSUME NEW t \in Turns, Advance(t) PROVE TypeOK'
  <2>1. SessionTypeOK'
    BY <1>30, ConcatProperties DEF Advance
  <2>2. ConduitTypeOK'
    BY <1>30 DEF Advance
  <2>3. RequestTypeOK' /\ PlanTypeOK'
    BY <1>30 DEF Advance
  <2>4. StreamTypeOK'
    BY <1>30 DEF Advance
  <2>5. BackendTypeOK'
    BY <1>30 DEF Advance
  <2>6. TransportOK'
    BY <1>30, SentinelAssumption DEF Advance
  <2> QED
    BY <2>1, <2>2, <2>3, <2>4, <2>5, <2>6
<1>31. ASSUME NEW t \in Turns, Confirm(t) PROVE TypeOK'
  <2>1. SessionTypeOK'
    BY <1>31 DEF Confirm, Return
  <2>2. ConduitTypeOK'
    BY <1>31 DEF Confirm, Return
  <2>3. RequestTypeOK' /\ PlanTypeOK'
    BY <1>31 DEF Confirm, Return
  <2>4. StreamTypeOK'
    BY <1>31 DEF Confirm, Return
  <2>5. BackendTypeOK'
    BY <1>31 DEF Confirm, Return
  <2>6. TransportOK'
    BY <1>31, SentinelAssumption DEF Confirm, Return
  <2> QED
    BY <2>1, <2>2, <2>3, <2>4, <2>5, <2>6
<1>32. ASSUME NEW t \in Turns, Disconnect(t) PROVE TypeOK'
  <2>1. conn' \in [Turns -> Conn]
    BY <1>32, CloseType DEF Disconnect
  <2>2. SessionTypeOK' /\ ConduitTypeOK' /\ BackendTypeOK'
    BY <1>32, <2>1 DEF Disconnect, Return
  <2>3. RequestTypeOK' /\ PlanTypeOK'
    BY <1>32 DEF Disconnect, Return
  <2>4. StreamTypeOK'
    BY <1>32 DEF Disconnect, Return
  <2>5. TransportOK'
    <3>1. pc'[t] = "done" /\ pump'[t] \in {pump[t], "over"} /\ UNCHANGED <<via, continues>>
      BY <1>32 DEF Disconnect, Return
    <3>2. \A s \in Turns \ {t} : pc'[s] = pc[s] /\ pump'[s] = pump[s]
      BY <1>32 DEF Disconnect, Return
    <3> QED
      BY <3>1, <3>2
  <2> QED
    BY <2>2, <2>3, <2>4, <2>5
<1> QED
  BY <1>1, <1>2, <1>3, <1>4, <1>5, <1>6, <1>7, <1>8, <1>9, <1>10, <1>11,
     <1>12, <1>13, <1>14, <1>15, <1>16, <1>17, <1>18, <1>19, <1>20, <1>21, <1>22,
     <1>23, <1>24, <1>25, <1>26, <1>27, <1>28, <1>29, <1>30, <1>31, <1>32
     DEF Next, Handle, Attempt, Finish, Stream

(* Every step of a turn keeps what is known of how far it has come.        *)
LEMMA PathStep ==
  ASSUME TypeOK, PathInv, [Next]_vars
  PROVE  PathInv'
<1> USE DEF TypeOK, ConduitTypeOK, RequestTypeOK, PlanTypeOK, StreamTypeOK, TransportOK,
        sessionVars, conduitVars, requestVars, planVars, streamVars, backendVars,
        PathInv, Early, Unstreamed, Unsent, HandedOn, FreshIsFull
<1>1. CASE UNCHANGED vars
  BY <1>1 DEF vars
<1>2. ASSUME NEW t \in Turns, Request(t) PROVE PathInv'
  BY <1>2 DEF Request, Begin
<1>3. ASSUME NEW t \in Turns, Snapshot(t) PROVE PathInv'
  BY <1>3, SentinelAssumption DEF Snapshot
<1>4. ASSUME NEW t \in Turns, CheckConfirmed(t) PROVE PathInv'
  BY <1>4, SentinelAssumption DEF CheckConfirmed
<1>5. ASSUME NEW t \in Turns, Claim(t) PROVE PathInv'
  BY <1>5, SentinelAssumption DEF Claim
<1>6. ASSUME NEW t \in Turns, RefuseTooLarge(t) PROVE PathInv'
  BY <1>6, SentinelAssumption DEF RefuseTooLarge, Return
<1>7. ASSUME NEW t \in Turns, ReadLastRequest(t) PROVE PathInv'
  BY <1>7, SentinelAssumption DEF ReadLastRequest
<1>8. ASSUME NEW t \in Turns, ReadLastResponse(t) PROVE PathInv'
  BY <1>8, SentinelAssumption DEF ReadLastResponse
<1>9. ASSUME NEW t \in Turns, Route(t) PROVE PathInv'
  BY <1>9, SentinelAssumption DEF Route
<1>10. ASSUME NEW t \in Turns, Take(t) PROVE PathInv'
  BY <1>10, SentinelAssumption DEF Take, Reusable
<1>11. ASSUME NEW t \in Turns, Dial(t) PROVE PathInv'
  BY <1>11, SentinelAssumption DEF Dial
<1>12. ASSUME NEW t \in Turns, DialFails(t) PROVE PathInv'
  BY <1>12, SentinelAssumption DEF DialFails
<1>13. ASSUME NEW t \in Turns, StaleConnection(t) PROVE PathInv'
  BY <1>13, SentinelAssumption DEF StaleConnection
<1>14. ASSUME NEW t \in Turns, PolicyClose(t) PROVE PathInv'
  BY <1>14, SentinelAssumption DEF PolicyClose
<1>15. ASSUME NEW t \in Turns, Accept(t) PROVE PathInv'
  BY <1>15, SentinelAssumption DEF Accept
<1>16. ASSUME NEW t \in Turns, Refuse(t) PROVE PathInv'
  BY <1>16, SentinelAssumption DEF Refuse
<1>17. ASSUME NEW t \in Turns, FirstReadFails(t) PROVE PathInv'
  BY <1>17, SentinelAssumption DEF FirstReadFails
<1>18. ASSUME NEW t \in Turns, PostOverHttp(t) PROVE PathInv'
  BY <1>18, SentinelAssumption DEF PostOverHttp
<1>19. ASSUME NEW t \in Turns, HttpFails(t) PROVE PathInv'
  BY <1>19, SentinelAssumption DEF HttpFails, Return
<1>20. ASSUME NEW t \in Turns, RememberRequest(t) PROVE PathInv'
  BY <1>20, SentinelAssumption DEF RememberRequest
<1>21. ASSUME NEW t \in Turns, NameResponse(t) PROVE PathInv'
  BY <1>21, SentinelAssumption DEF NameResponse
<1>22. ASSUME NEW t \in Turns, ReturnItem(t) PROVE PathInv'
  BY <1>22, SentinelAssumption DEF ReturnItem
<1>23. ASSUME NEW t \in Turns, Complete(t) PROVE PathInv'
  BY <1>23, SentinelAssumption DEF Complete, End
<1>24. ASSUME NEW t \in Turns, Fail(t) PROVE PathInv'
  BY <1>24, SentinelAssumption DEF Fail, End
<1>25. ASSUME NEW t \in Turns, Truncate(t) PROVE PathInv'
  BY <1>25, SentinelAssumption DEF Truncate, End
<1>26. ASSUME NEW t \in Turns, Break(t) PROVE PathInv'
  BY <1>26, SentinelAssumption DEF Break, End
<1>27. ASSUME NEW t \in Turns, Park(t) PROVE PathInv'
  BY <1>27, SentinelAssumption DEF Park
<1>28. ASSUME NEW t \in Turns, ReportFailure(t) PROVE PathInv'
  BY <1>28, SentinelAssumption DEF ReportFailure, Return
<1>29. ASSUME NEW t \in Turns, RememberResponse(t) PROVE PathInv'
  BY <1>29, SentinelAssumption DEF RememberResponse
<1>30. ASSUME NEW t \in Turns, Advance(t) PROVE PathInv'
  BY <1>30, SentinelAssumption DEF Advance
<1>31. ASSUME NEW t \in Turns, Confirm(t) PROVE PathInv'
  BY <1>31, SentinelAssumption DEF Confirm, Return
<1>32. ASSUME NEW t \in Turns, Disconnect(t) PROVE PathInv'
  BY <1>32, SentinelAssumption DEF Disconnect, Return
<1> QED
  BY <1>1, <1>2, <1>3, <1>4, <1>5, <1>6, <1>7, <1>8, <1>9, <1>10, <1>11,
     <1>12, <1>13, <1>14, <1>15, <1>16, <1>17, <1>18, <1>19, <1>20, <1>21, <1>22,
     <1>23, <1>24, <1>25, <1>26, <1>27, <1>28, <1>29, <1>30, <1>31, <1>32
     DEF Next, Handle, Attempt, Finish, Stream

(* Every variable keeps its type, and every turn the transport that fits   *)
(* the step it is at (ingress.rs, conduit.rs, pool.rs).                    *)
THEOREM TypeCorrect == Spec => []TypeOK
<1>1. Init => TypeOK /\ PathInv
  BY TypeInit
<1>2. TypeOK /\ PathInv /\ [Next]_vars => (TypeOK /\ PathInv)'
  BY TypeStep, PathStep
<1> QED
  BY <1>1, <1>2, PTL DEF Spec

-----------------------------------------------------------------------------
(* Connections.                                                            *)

(* What OpenHasOneOwner needs to be inductive: a turn that has not dialed  *)
(* left no connection behind for its dial to overwrite.                    *)
Undialed ==
  \A t \in Turns :
    \/ pc[t] \in Early \ {"send"}
    \/ pc[t] = "send" /\ via[t] # t
    => ~conn[t].open

OwnerInv == OpenHasOneOwner /\ Undialed

(* A step after which the same turns use the same open connections.        *)
LEMMA SameOwners ==
  ASSUME OpenHasOneOwner, slot' = slot,
         \A k \in Turns : conn'[k].open = conn[k].open,
         \A s, k \in Turns : Uses(s, k)' <=> Uses(s, k)
  PROVE  OpenHasOneOwner'
  BY DEF OpenHasOneOwner, ParkedIsFree, UsedIsOpen, OneUser, NoneLeaked

(* A step by which a turn closes the connection it was using.              *)
LEMMA OwnerCloses ==
  ASSUME ConduitTypeOK, OpenHasOneOwner, NEW t \in Turns, slot' = slot, conn' = Close(via[t]),
         \A k \in Turns : via[t] = k => Uses(t, k),
         \A k \in Turns : ~Uses(t, k)',
         \A s \in Turns \ {t}, k \in Turns : Uses(s, k)' <=> Uses(s, k)
  PROVE  OpenHasOneOwner'
<1>1. \A k \in Turns : conn'[k].open <=> conn[k].open /\ ~Uses(t, k)
  <2>1. \A k \in Turns : Uses(t, k) => via[t] = k
    BY DEF Uses
  <2> QED
    BY <2>1 DEF Close, Unopened, ConduitTypeOK, Conn
<1>2. ParkedIsFree' /\ UsedIsOpen'
  BY <1>1 DEF OpenHasOneOwner, ParkedIsFree, UsedIsOpen, OneUser
<1>3. OneUser' /\ NoneLeaked'
  BY <1>1 DEF OpenHasOneOwner, OneUser, NoneLeaked
<1> QED
  BY <1>2, <1>3 DEF OpenHasOneOwner

(* A step by which a turn takes the parked connection.                     *)
LEMMA OwnerTakes ==
  ASSUME OpenHasOneOwner, NEW t \in Turns, slot \in Turns, slot' = None, conn' = conn,
         \A k \in Turns : ~Uses(t, k),
         \A k \in Turns : Uses(t, k)' <=> k = slot,
         \A s \in Turns \ {t}, k \in Turns : Uses(s, k)' <=> Uses(s, k)
  PROVE  OpenHasOneOwner'
<1>1. conn[slot].open /\ \A s \in Turns : ~Uses(s, slot)
  BY DEF OpenHasOneOwner, ParkedIsFree
<1>2. ParkedIsFree'
  BY SentinelAssumption DEF ParkedIsFree
<1>3. UsedIsOpen'
  BY <1>1 DEF OpenHasOneOwner, UsedIsOpen
<1>4. OneUser'
  BY <1>1 DEF OpenHasOneOwner, OneUser
<1>5. NoneLeaked'
  BY <1>1 DEF OpenHasOneOwner, NoneLeaked
<1> QED
  BY <1>2, <1>3, <1>4, <1>5 DEF OpenHasOneOwner

(* A step by which a turn dials a connection of its own.                   *)
LEMMA OwnerDials ==
  ASSUME OpenHasOneOwner, NEW t \in Turns, slot' = slot, ~conn[t].open,
         \A k \in Turns : conn'[k].open <=> conn[k].open \/ k = t,
         \A k \in Turns : ~Uses(t, k),
         \A k \in Turns : Uses(t, k)' <=> k = t,
         \A s \in Turns \ {t}, k \in Turns : Uses(s, k)' <=> Uses(s, k)
  PROVE  OpenHasOneOwner'
<1>1. slot # t /\ \A s \in Turns : ~Uses(s, t)
  BY DEF OpenHasOneOwner, ParkedIsFree, UsedIsOpen
<1>2. ParkedIsFree'
  BY <1>1 DEF OpenHasOneOwner, ParkedIsFree
<1>3. UsedIsOpen'
  BY <1>1 DEF OpenHasOneOwner, UsedIsOpen
<1>4. OneUser'
  BY <1>1 DEF OpenHasOneOwner, OneUser
<1>5. NoneLeaked'
  BY <1>1 DEF OpenHasOneOwner, NoneLeaked
<1> QED
  BY <1>2, <1>3, <1>4, <1>5 DEF OpenHasOneOwner

(* A step by which a turn parks the connection it was using.               *)
LEMMA OwnerParks ==
  ASSUME OpenHasOneOwner, NEW t \in Turns, slot = None, slot' = via[t], via[t] \in Turns,
         conn' = conn, Uses(t, via[t]),
         \A k \in Turns : ~Uses(t, k)',
         \A s \in Turns \ {t}, k \in Turns : Uses(s, k)' <=> Uses(s, k)
  PROVE  OpenHasOneOwner'
<1>1. conn[via[t]].open /\ \A s \in Turns \ {t} : ~Uses(s, via[t])
  BY DEF OpenHasOneOwner, UsedIsOpen, OneUser
<1>2. ParkedIsFree'
  BY <1>1 DEF ParkedIsFree
<1>3. UsedIsOpen'
  BY DEF OpenHasOneOwner, UsedIsOpen
<1>4. OneUser'
  BY DEF OpenHasOneOwner, OneUser
<1>5. NoneLeaked'
  <2>1. \A k \in Turns : Uses(t, k) => k = via[t]
    BY DEF Uses
  <2> QED
    BY <2>1, SentinelAssumption DEF OpenHasOneOwner, NoneLeaked
<1> QED
  BY <1>2, <1>3, <1>4, <1>5 DEF OpenHasOneOwner

(* Every step of a turn keeps each open connection to one owner: the turn  *)
(* takes, dials, parks or closes its own, or leaves them all alone.        *)
LEMMA OwnerStep ==
  ASSUME TypeOK, PathInv, OwnerInv, [Next]_vars
  PROVE  OwnerInv'
<1> USE DEF TypeOK, ConduitTypeOK, RequestTypeOK, PlanTypeOK, StreamTypeOK, TransportOK,
        sessionVars, conduitVars, requestVars, planVars, streamVars, backendVars,
        PathInv, Early, Unstreamed, Unsent, HandedOn, OwnerInv
<1>1. CASE UNCHANGED vars
  <2>1. OpenHasOneOwner'
    BY <1>1, SameOwners DEF vars, Uses
  <2> QED
    BY <1>1, <2>1 DEF vars, Undialed
<1>2. ASSUME NEW t \in Turns, Request(t) PROVE OwnerInv'
  <2>1. OpenHasOneOwner'
    BY <1>2, SameOwners DEF Request, Begin, Uses
  <2> QED
    BY <1>2, <2>1 DEF Request, Begin, Undialed
<1>3. ASSUME NEW t \in Turns, Snapshot(t) PROVE OwnerInv'
  <2>1. /\ slot' = slot /\ conn' = conn
        /\ \A s, k \in Turns : Uses(s, k)' <=> Uses(s, k)
    BY <1>3, SentinelAssumption DEF Snapshot, Uses
  <2>2. OpenHasOneOwner'
    BY <2>1, SameOwners
  <2> QED
    BY <1>3, <2>1, <2>2 DEF Snapshot, Undialed
<1>4. ASSUME NEW t \in Turns, CheckConfirmed(t) PROVE OwnerInv'
  <2>1. /\ slot' = slot /\ conn' = conn
        /\ \A s, k \in Turns : Uses(s, k)' <=> Uses(s, k)
    BY <1>4, SentinelAssumption DEF CheckConfirmed, Uses
  <2>2. OpenHasOneOwner'
    BY <2>1, SameOwners
  <2> QED
    BY <1>4, <2>1, <2>2 DEF CheckConfirmed, Undialed
<1>5. ASSUME NEW t \in Turns, Claim(t) PROVE OwnerInv'
  <2>1. /\ slot' = slot /\ conn' = conn
        /\ \A s, k \in Turns : Uses(s, k)' <=> Uses(s, k)
    BY <1>5, SentinelAssumption DEF Claim, Uses
  <2>2. OpenHasOneOwner'
    BY <2>1, SameOwners
  <2> QED
    BY <1>5, <2>1, <2>2 DEF Claim, Undialed
<1>6. ASSUME NEW t \in Turns, RefuseTooLarge(t) PROVE OwnerInv'
  <2>1. /\ slot' = slot /\ conn' = conn
        /\ \A s, k \in Turns : Uses(s, k)' <=> Uses(s, k)
    BY <1>6, SentinelAssumption DEF RefuseTooLarge, Return, Uses
  <2>2. OpenHasOneOwner'
    BY <2>1, SameOwners
  <2> QED
    BY <1>6, <2>1, <2>2 DEF RefuseTooLarge, Return, Undialed
<1>7. ASSUME NEW t \in Turns, ReadLastRequest(t) PROVE OwnerInv'
  <2>1. /\ slot' = slot /\ conn' = conn
        /\ \A s, k \in Turns : Uses(s, k)' <=> Uses(s, k)
    BY <1>7, SentinelAssumption DEF ReadLastRequest, Uses
  <2>2. OpenHasOneOwner'
    BY <2>1, SameOwners
  <2> QED
    BY <1>7, <2>1, <2>2 DEF ReadLastRequest, Undialed
<1>8. ASSUME NEW t \in Turns, ReadLastResponse(t) PROVE OwnerInv'
  <2>1. /\ slot' = slot /\ conn' = conn
        /\ \A s, k \in Turns : Uses(s, k)' <=> Uses(s, k)
    BY <1>8, SentinelAssumption DEF ReadLastResponse, Uses
  <2>2. OpenHasOneOwner'
    BY <2>1, SameOwners
  <2> QED
    BY <1>8, <2>1, <2>2 DEF ReadLastResponse, Undialed
<1>9. ASSUME NEW t \in Turns, Route(t) PROVE OwnerInv'
  <2>1. /\ slot' = slot /\ conn' = conn
        /\ \A s, k \in Turns : Uses(s, k)' <=> Uses(s, k)
    BY <1>9, SentinelAssumption DEF Route, Uses
  <2>2. OpenHasOneOwner'
    BY <2>1, SameOwners
  <2> QED
    BY <1>9, <2>1, <2>2 DEF Route, Undialed
<1>10. ASSUME NEW t \in Turns, Take(t) PROVE OwnerInv'
  <2>1. \A k \in Turns : ~Uses(t, k)
    BY <1>10 DEF Take, Uses
  <2>2. CASE Reusable(t) = None
    <3>1. /\ slot' = None
          /\ \A k \in Turns : conn'[k].open <=> conn[k].open /\ k # slot
          /\ \A s, k \in Turns : Uses(s, k)' <=> Uses(s, k)
      BY <1>10, <2>1, <2>2, SentinelAssumption DEF Take, Uses, Close, Unopened, Conn
    <3>2. OpenHasOneOwner'
      BY <3>1, SentinelAssumption
         DEF OpenHasOneOwner, ParkedIsFree, UsedIsOpen, OneUser, NoneLeaked
    <3> QED
      BY <1>10, <2>2, <3>1, <3>2 DEF Take, Undialed
  <2>3. CASE Reusable(t) # None
    <3>1. Reusable(t) = slot /\ slot \in Turns
      BY <2>3 DEF Reusable
    <3>3. /\ slot' = None
          /\ conn' = conn
          /\ \A s \in Turns \ {t}, k \in Turns : Uses(s, k)' <=> Uses(s, k)
          /\ \A k \in Turns : Uses(t, k)' <=> k = slot
      BY <1>10, <2>3, <3>1 DEF Take, Uses
    <3>4. OpenHasOneOwner'
      BY <2>1, <3>1, <3>3, OwnerTakes
    <3>5. ~conn[t].open
      BY <1>10 DEF Take, Undialed
    <3> QED
      BY <1>10, <3>3, <3>4, <3>5 DEF Take, Undialed
  <2> QED
    BY <2>2, <2>3
<1>11. ASSUME NEW t \in Turns, Dial(t) PROVE OwnerInv'
  <2>1. ~conn[t].open
    BY <1>11 DEF Dial, Undialed
  <2>2. /\ slot' = slot
        /\ \A k \in Turns : conn'[k].open <=> conn[k].open \/ k = t
        /\ \A s \in Turns \ {t}, k \in Turns : Uses(s, k)' <=> Uses(s, k)
        /\ \A k \in Turns : Uses(t, k)' <=> k = t
    BY <1>11 DEF Dial, Uses, Conn
  <2>3. \A k \in Turns : ~Uses(t, k)
    BY <1>11, SentinelAssumption DEF Dial, Uses
  <2>4. OpenHasOneOwner'
    BY <2>1, <2>2, <2>3, OwnerDials
  <2> QED
    BY <1>11, <2>2, <2>4 DEF Dial, Undialed
<1>12. ASSUME NEW t \in Turns, DialFails(t) PROVE OwnerInv'
  <2>1. /\ slot' = slot /\ conn' = conn
        /\ \A s, k \in Turns : Uses(s, k)' <=> Uses(s, k)
    BY <1>12, SentinelAssumption DEF DialFails, Uses
  <2>2. OpenHasOneOwner'
    BY <2>1, SameOwners
  <2> QED
    BY <1>12, <2>1, <2>2 DEF DialFails, Undialed
<1>13. ASSUME NEW t \in Turns, StaleConnection(t) PROVE OwnerInv'
  <2>1. /\ slot' = slot /\ conn' = Close(via[t])
        /\ \A k \in Turns : via[t] = k => Uses(t, k)
        /\ \A k \in Turns : ~Uses(t, k)'
        /\ \A s \in Turns \ {t}, k \in Turns : Uses(s, k)' <=> Uses(s, k)
    BY <1>13, SentinelAssumption DEF StaleConnection, Uses
  <2>2. OpenHasOneOwner'
    BY <2>1, OwnerCloses
  <2> QED
    BY <1>13, <2>1, <2>2 DEF StaleConnection, Undialed, Close, Unopened
<1>14. ASSUME NEW t \in Turns, PolicyClose(t) PROVE OwnerInv'
  <2>1. /\ slot' = slot /\ conn' = Close(via[t])
        /\ \A k \in Turns : via[t] = k => Uses(t, k)
        /\ \A k \in Turns : ~Uses(t, k)'
        /\ \A s \in Turns \ {t}, k \in Turns : Uses(s, k)' <=> Uses(s, k)
    BY <1>14, SentinelAssumption DEF PolicyClose, Uses
  <2>2. OpenHasOneOwner'
    BY <2>1, OwnerCloses
  <2> QED
    BY <1>14, <2>1, <2>2 DEF PolicyClose, Undialed, Close, Unopened
<1>15. ASSUME NEW t \in Turns, Accept(t) PROVE OwnerInv'
  <2>1. /\ slot' = slot /\ conn' = conn
        /\ \A s, k \in Turns : Uses(s, k)' <=> Uses(s, k)
    BY <1>15, SentinelAssumption DEF Accept, Uses
  <2>2. OpenHasOneOwner'
    BY <2>1, SameOwners
  <2> QED
    BY <1>15, <2>1, <2>2 DEF Accept, Undialed
<1>16. ASSUME NEW t \in Turns, Refuse(t) PROVE OwnerInv'
  <2>1. /\ slot' = slot /\ conn' = conn
        /\ \A s, k \in Turns : Uses(s, k)' <=> Uses(s, k)
    BY <1>16, SentinelAssumption DEF Refuse, Uses
  <2>2. OpenHasOneOwner'
    BY <2>1, SameOwners
  <2> QED
    BY <1>16, <2>1, <2>2 DEF Refuse, Undialed
<1>17. ASSUME NEW t \in Turns, FirstReadFails(t) PROVE OwnerInv'
  <2>1. /\ slot' = slot /\ conn' = Close(via[t])
        /\ \A k \in Turns : via[t] = k => Uses(t, k)
        /\ \A k \in Turns : ~Uses(t, k)'
        /\ \A s \in Turns \ {t}, k \in Turns : Uses(s, k)' <=> Uses(s, k)
    BY <1>17, SentinelAssumption DEF FirstReadFails, Uses
  <2>2. OpenHasOneOwner'
    BY <2>1, OwnerCloses
  <2> QED
    BY <1>17, <2>1, <2>2 DEF FirstReadFails, Undialed, Close, Unopened
<1>18. ASSUME NEW t \in Turns, PostOverHttp(t) PROVE OwnerInv'
  <2>1. /\ slot' = slot /\ conn' = conn
        /\ \A s, k \in Turns : Uses(s, k)' <=> Uses(s, k)
    BY <1>18, SentinelAssumption DEF PostOverHttp, Uses
  <2>2. OpenHasOneOwner'
    BY <2>1, SameOwners
  <2> QED
    BY <1>18, <2>1, <2>2 DEF PostOverHttp, Undialed
<1>19. ASSUME NEW t \in Turns, HttpFails(t) PROVE OwnerInv'
  <2>1. /\ slot' = slot /\ conn' = conn
        /\ \A s, k \in Turns : Uses(s, k)' <=> Uses(s, k)
    BY <1>19, SentinelAssumption DEF HttpFails, Return, Uses
  <2>2. OpenHasOneOwner'
    BY <2>1, SameOwners
  <2> QED
    BY <1>19, <2>1, <2>2 DEF HttpFails, Return, Undialed
<1>20. ASSUME NEW t \in Turns, RememberRequest(t) PROVE OwnerInv'
  <2>1. /\ slot' = slot /\ conn' = conn
        /\ \A s, k \in Turns : Uses(s, k)' <=> Uses(s, k)
    BY <1>20, SentinelAssumption DEF RememberRequest, Uses
  <2>2. OpenHasOneOwner'
    BY <2>1, SameOwners
  <2> QED
    BY <1>20, <2>1, <2>2 DEF RememberRequest, Undialed
<1>21. ASSUME NEW t \in Turns, NameResponse(t) PROVE OwnerInv'
  <2>1. /\ slot' = slot
        /\ \A k \in Turns : conn'[k].open = conn[k].open
        /\ \A s, k \in Turns : Uses(s, k)' <=> Uses(s, k)
    BY <1>21 DEF NameResponse, Uses, Conn
  <2>2. OpenHasOneOwner'
    BY <2>1, SameOwners
  <2> QED
    BY <1>21, <2>1, <2>2 DEF NameResponse, Undialed
<1>22. ASSUME NEW t \in Turns, ReturnItem(t) PROVE OwnerInv'
  <2>1. /\ slot' = slot /\ conn' = conn
        /\ \A s, k \in Turns : Uses(s, k)' <=> Uses(s, k)
    BY <1>22, SentinelAssumption DEF ReturnItem, Uses
  <2>2. OpenHasOneOwner'
    BY <2>1, SameOwners
  <2> QED
    BY <1>22, <2>1, <2>2 DEF ReturnItem, Undialed
<1>23. ASSUME NEW t \in Turns, Complete(t) PROVE OwnerInv'
  <2>1. /\ slot' = slot /\ conn' = conn
        /\ \A s, k \in Turns : Uses(s, k)' <=> Uses(s, k)
    BY <1>23, SentinelAssumption DEF Complete, End, Uses
  <2>2. OpenHasOneOwner'
    BY <2>1, SameOwners
  <2> QED
    BY <1>23, <2>1, <2>2 DEF Complete, End, Undialed
<1>24. ASSUME NEW t \in Turns, Fail(t) PROVE OwnerInv'
  <2>1. /\ slot' = slot /\ conn' = conn
        /\ \A s, k \in Turns : Uses(s, k)' <=> Uses(s, k)
    BY <1>24, SentinelAssumption DEF Fail, End, Uses
  <2>2. OpenHasOneOwner'
    BY <2>1, SameOwners
  <2> QED
    BY <1>24, <2>1, <2>2 DEF Fail, End, Undialed
<1>25. ASSUME NEW t \in Turns, Truncate(t) PROVE OwnerInv'
  <2>1. /\ slot' = slot /\ conn' = Close(via[t])
        /\ \A k \in Turns : via[t] = k => Uses(t, k)
        /\ \A k \in Turns : ~Uses(t, k)'
        /\ \A s \in Turns \ {t}, k \in Turns : Uses(s, k)' <=> Uses(s, k)
    BY <1>25, SentinelAssumption DEF Truncate, End, Uses
  <2>2. OpenHasOneOwner'
    BY <2>1, OwnerCloses
  <2> QED
    BY <1>25, <2>1, <2>2 DEF Truncate, End, Undialed, Close, Unopened
<1>26. ASSUME NEW t \in Turns, Break(t) PROVE OwnerInv'
  <2>1. /\ slot' = slot /\ conn' = Close(via[t])
        /\ \A k \in Turns : via[t] = k => Uses(t, k)
        /\ \A k \in Turns : ~Uses(t, k)'
        /\ \A s \in Turns \ {t}, k \in Turns : Uses(s, k)' <=> Uses(s, k)
    BY <1>26, SentinelAssumption DEF Break, End, Uses
  <2>2. OpenHasOneOwner'
    BY <2>1, OwnerCloses
  <2> QED
    BY <1>26, <2>1, <2>2 DEF Break, End, Undialed, Close, Unopened
<1>27. ASSUME NEW t \in Turns, Park(t) PROVE OwnerInv'
  <2>1. \A k \in Turns : Uses(t, k) <=> via[t] = k
    BY <1>27 DEF Park, Uses
  <2>2. /\ \A k \in Turns : ~Uses(t, k)'
        /\ \A s \in Turns \ {t}, k \in Turns : Uses(s, k)' <=> Uses(s, k)
    BY <1>27 DEF Park, Uses
  <2>3. CASE slot = None /\ via[t] # Http
    <3>1. via[t] \in Turns /\ slot' = via[t] /\ conn' = conn
      BY <1>27, <2>3 DEF Park
    <3>2. OpenHasOneOwner'
      BY <2>1, <2>2, <2>3, <3>1, OwnerParks
    <3> QED
      BY <1>27, <3>1, <3>2 DEF Park, Undialed
  <2>4. CASE slot # None
    <3>1. slot' = slot /\ conn' = Close(via[t])
      BY <1>27, <2>4 DEF Park
    <3>2. OpenHasOneOwner'
      BY <2>1, <2>2, <3>1, OwnerCloses
    <3> QED
      BY <1>27, <3>1, <3>2 DEF Park, Undialed, Close, Unopened
  <2>5. CASE slot = None /\ via[t] = Http
    <3>1. slot' = slot /\ conn' = conn
      BY <1>27, <2>5 DEF Park
    <3>2. OpenHasOneOwner'
      BY <2>1, <2>2, <2>5, <3>1, SameOwners, SentinelAssumption
    <3> QED
      BY <1>27, <3>1, <3>2 DEF Park, Undialed
  <2> QED
    BY <2>3, <2>4, <2>5
<1>28. ASSUME NEW t \in Turns, ReportFailure(t) PROVE OwnerInv'
  <2>1. /\ slot' = slot /\ conn' = conn
        /\ \A s, k \in Turns : Uses(s, k)' <=> Uses(s, k)
    BY <1>28, SentinelAssumption DEF ReportFailure, Return, Uses
  <2>2. OpenHasOneOwner'
    BY <2>1, SameOwners
  <2> QED
    BY <1>28, <2>1, <2>2 DEF ReportFailure, Return, Undialed
<1>29. ASSUME NEW t \in Turns, RememberResponse(t) PROVE OwnerInv'
  <2>1. /\ slot' = slot /\ conn' = conn
        /\ \A s, k \in Turns : Uses(s, k)' <=> Uses(s, k)
    BY <1>29, SentinelAssumption DEF RememberResponse, Uses
  <2>2. OpenHasOneOwner'
    BY <2>1, SameOwners
  <2> QED
    BY <1>29, <2>1, <2>2 DEF RememberResponse, Undialed
<1>30. ASSUME NEW t \in Turns, Advance(t) PROVE OwnerInv'
  <2>1. /\ slot' = slot /\ conn' = conn
        /\ \A s, k \in Turns : Uses(s, k)' <=> Uses(s, k)
    BY <1>30, SentinelAssumption DEF Advance, Uses
  <2>2. OpenHasOneOwner'
    BY <2>1, SameOwners
  <2> QED
    BY <1>30, <2>1, <2>2 DEF Advance, Undialed
<1>31. ASSUME NEW t \in Turns, Confirm(t) PROVE OwnerInv'
  <2>1. /\ slot' = slot /\ conn' = conn
        /\ \A s, k \in Turns : Uses(s, k)' <=> Uses(s, k)
    BY <1>31, SentinelAssumption DEF Confirm, Return, Uses
  <2>2. OpenHasOneOwner'
    BY <2>1, SameOwners
  <2> QED
    BY <1>31, <2>1, <2>2 DEF Confirm, Return, Undialed
<1>32. ASSUME NEW t \in Turns, Disconnect(t) PROVE OwnerInv'
  <2>1. CASE pc[t] = "send" \/ pump[t] = "open"
    <3>1. /\ slot' = slot /\ conn' = Close(via[t])
          /\ \A k \in Turns : via[t] = k => Uses(t, k)
          /\ \A k \in Turns : ~Uses(t, k)'
          /\ \A s \in Turns \ {t}, k \in Turns : Uses(s, k)' <=> Uses(s, k)
      BY <1>32, <2>1 DEF Disconnect, Return, Uses
    <3>2. OpenHasOneOwner'
      BY <3>1, OwnerCloses
    <3> QED
      BY <1>32, <3>1, <3>2 DEF Disconnect, Return, Undialed, Close, Unopened
  <2>2. CASE ~(pc[t] = "send" \/ pump[t] = "open")
    <3>1. /\ slot' = slot /\ conn' = conn
          /\ \A s, k \in Turns : Uses(s, k)' <=> Uses(s, k)
      BY <1>32, <2>2 DEF Disconnect, Return, Uses
    <3>2. OpenHasOneOwner'
      BY <3>1, SameOwners
    <3> QED
      BY <1>32, <3>1, <3>2 DEF Disconnect, Return, Undialed
  <2> QED
    BY <2>1, <2>2
<1> QED
  BY <1>1, <1>2, <1>3, <1>4, <1>5, <1>6, <1>7, <1>8, <1>9, <1>10, <1>11,
     <1>12, <1>13, <1>14, <1>15, <1>16, <1>17, <1>18, <1>19, <1>20, <1>21, <1>22,
     <1>23, <1>24, <1>25, <1>26, <1>27, <1>28, <1>29, <1>30, <1>31, <1>32
     DEF Next, Handle, Attempt, Finish, Stream

-----------------------------------------------------------------------------
(* What a connection carries.                                              *)

(* A step that gives no turn a connection, and leaves those in use the     *)
(* account that opened them and what they saw.                             *)
LEMMA SameCarriage ==
  ASSUME TransportOK, AccountIsolation, DeltaOnProducer,
         \A s, k \in Turns : Uses(s, k)' =>
           Uses(s, k) /\ conn'[k].account = conn[k].account /\ account'[s] = account[s],
         \A s \in Turns : pc'[s] = "send" =>
           /\ pc[s] = "send" /\ via'[s] = via[s] /\ continues'[s] \in {continues[s], None}
           /\ conn'[via[s]].saw = conn[via[s]].saw
  PROVE  AccountIsolation' /\ DeltaOnProducer'
<1>1. AccountIsolation'
  BY DEF AccountIsolation
<1>2. DeltaOnProducer'
  BY DEF DeltaOnProducer, Saw, TransportOK
<1> QED
  BY <1>1, <1>2

(* A step that gives one turn a connection, and leaves the others theirs.  *)
LEMMA NewCarriage ==
  ASSUME TransportOK, AccountIsolation, DeltaOnProducer, NEW t \in Turns,
         \A k \in Turns : Uses(t, k)' => conn'[k].account = account'[t],
         \A s \in Turns \ {t}, k \in Turns : Uses(s, k)' =>
           Uses(s, k) /\ conn'[k].account = conn[k].account /\ account'[s] = account[s],
         pc'[t] = "send" /\ continues'[t] # None => Saw(via[t], continues[t])',
         \A s \in Turns \ {t} : pc'[s] = "send" =>
           /\ pc[s] = "send" /\ via'[s] = via[s] /\ continues'[s] = continues[s]
           /\ conn'[via[s]].saw = conn[via[s]].saw
  PROVE  AccountIsolation' /\ DeltaOnProducer'
<1>1. AccountIsolation'
  BY DEF AccountIsolation
<1>2. DeltaOnProducer'
  BY DEF DeltaOnProducer, Saw, TransportOK
<1> QED
  BY <1>1, <1>2

(* Every step of a turn keeps accounts and deltas to their connections.    *)
LEMMA CarriageStep ==
  ASSUME TypeOK, PathInv, OwnerInv, AccountIsolation, DeltaOnProducer, [Next]_vars
  PROVE  AccountIsolation' /\ DeltaOnProducer'
<1> USE DEF TypeOK, ConduitTypeOK, RequestTypeOK, PlanTypeOK, StreamTypeOK, TransportOK,
        sessionVars, conduitVars, requestVars, planVars, streamVars, backendVars,
        PathInv, Early, Unstreamed, Unsent, HandedOn
<1>1. CASE UNCHANGED vars
  BY <1>1, SameCarriage DEF vars, Uses
<1>2. ASSUME NEW t \in Turns, Request(t) PROVE AccountIsolation' /\ DeltaOnProducer'
  BY <1>2, SameCarriage DEF Request, Begin, Uses
<1>3. ASSUME NEW t \in Turns, Snapshot(t) PROVE AccountIsolation' /\ DeltaOnProducer'
  BY <1>3, SameCarriage, SentinelAssumption DEF Snapshot, Uses
<1>4. ASSUME NEW t \in Turns, CheckConfirmed(t) PROVE AccountIsolation' /\ DeltaOnProducer'
  BY <1>4, SameCarriage, SentinelAssumption DEF CheckConfirmed, Uses
<1>5. ASSUME NEW t \in Turns, Claim(t) PROVE AccountIsolation' /\ DeltaOnProducer'
  BY <1>5, SameCarriage, SentinelAssumption DEF Claim, Uses
<1>6. ASSUME NEW t \in Turns, RefuseTooLarge(t) PROVE AccountIsolation' /\ DeltaOnProducer'
  BY <1>6, SameCarriage, SentinelAssumption DEF RefuseTooLarge, Return, Uses
<1>7. ASSUME NEW t \in Turns, ReadLastRequest(t) PROVE AccountIsolation' /\ DeltaOnProducer'
  BY <1>7, SameCarriage, SentinelAssumption DEF ReadLastRequest, Uses
<1>8. ASSUME NEW t \in Turns, ReadLastResponse(t) PROVE AccountIsolation' /\ DeltaOnProducer'
  BY <1>8, SameCarriage, SentinelAssumption DEF ReadLastResponse, Uses
<1>9. ASSUME NEW t \in Turns, Route(t) PROVE AccountIsolation' /\ DeltaOnProducer'
  BY <1>9, SameCarriage, SentinelAssumption DEF Route, Uses
<1>10. ASSUME NEW t \in Turns, Take(t) PROVE AccountIsolation' /\ DeltaOnProducer'
  <2>1. /\ \A k \in Turns : Uses(t, k)' => k = slot /\ k = Reusable(t)
        /\ \A s \in Turns \ {t}, k \in Turns : Uses(s, k)' => Uses(s, k)
        /\ account' = account
    BY <1>10, SentinelAssumption DEF Take, Uses, Reusable
  <2>2. \A k \in Turns : k # slot \/ Reusable(t) # None => conn'[k] = conn[k]
    BY <1>10 DEF Take, Close
  <2>3. \A k \in Turns : Uses(t, k)' => conn'[k].account = account'[t]
    BY <2>1, <2>2, SentinelAssumption DEF Reusable
  <2>4. \A s \in Turns \ {t}, k \in Turns : Uses(s, k) => k # slot
    BY DEF OwnerInv, OpenHasOneOwner, ParkedIsFree
  <2>5. \A s \in Turns \ {t}, k \in Turns : Uses(s, k)' =>
          Uses(s, k) /\ conn'[k].account = conn[k].account /\ account'[s] = account[s]
    <3> SUFFICES ASSUME NEW s \in Turns \ {t}, NEW k \in Turns, Uses(s, k)'
                 PROVE  Uses(s, k) /\ conn'[k].account = conn[k].account
                                  /\ account'[s] = account[s]
      OBVIOUS
    <3>1. Uses(s, k) /\ k # slot
      BY <2>1, <2>4
    <3>2. conn'[k] = conn[k]
      BY <3>1, <2>2
    <3> QED
      BY <3>1, <3>2, <2>1
  <2>6. pc'[t] = "send" /\ continues'[t] # None => Saw(via[t], continues[t])'
    BY <1>10, <2>2, SentinelAssumption DEF Take, MayContinue, Saw, Reusable
  <2>7. \A s \in Turns \ {t} : pc[s] = "send" => via[s] \in Turns /\ via[s] # slot
    BY <2>4 DEF Uses
  <2>8. \A s \in Turns \ {t} : pc'[s] = "send" =>
          /\ pc[s] = "send" /\ via'[s] = via[s] /\ continues'[s] = continues[s]
          /\ conn'[via[s]].saw = conn[via[s]].saw
    BY <1>10, <2>2, <2>7 DEF Take
  <2> QED
    BY <2>3, <2>5, <2>6, <2>8, NewCarriage
<1>11. ASSUME NEW t \in Turns, Dial(t) PROVE AccountIsolation' /\ DeltaOnProducer'
  <2>1. \A s \in Turns : ~Uses(s, t)
    BY <1>11 DEF Dial, OwnerInv, Undialed, OpenHasOneOwner, UsedIsOpen
  <2>2. /\ \A k \in Turns : Uses(t, k)' => k = t
        /\ \A s \in Turns \ {t}, k \in Turns : Uses(s, k)' => Uses(s, k)
        /\ account' = account
        /\ conn'[t].account = account[t]
        /\ \A k \in Turns \ {t} : conn'[k] = conn[k]
    BY <1>11 DEF Dial, Uses
  <2>3. \A s \in Turns \ {t}, k \in Turns : Uses(s, k)' =>
          Uses(s, k) /\ conn'[k].account = conn[k].account /\ account'[s] = account[s]
    BY <2>1, <2>2
  <2>4. \A k \in Turns : Uses(t, k)' => conn'[k].account = account'[t]
    BY <2>2
  <2>5. continues'[t] = None
    BY <1>11 DEF Dial
  <2>6. \A s \in Turns \ {t} : pc[s] = "send" => via[s] \in Turns \ {t}
    BY <2>1 DEF Uses
  <2>7. \A s \in Turns \ {t} : pc'[s] = "send" =>
          /\ pc[s] = "send" /\ via'[s] = via[s] /\ continues'[s] = continues[s]
          /\ conn'[via[s]].saw = conn[via[s]].saw
    BY <1>11, <2>2, <2>6 DEF Dial
  <2> QED
    BY <2>3, <2>4, <2>5, <2>7, NewCarriage
<1>12. ASSUME NEW t \in Turns, DialFails(t) PROVE AccountIsolation' /\ DeltaOnProducer'
  BY <1>12, SameCarriage, SentinelAssumption DEF DialFails, Uses
<1>13. ASSUME NEW t \in Turns, StaleConnection(t) PROVE AccountIsolation' /\ DeltaOnProducer'
  <2>1. \A s \in Turns \ {t}, k \in Turns : Uses(s, k) /\ Uses(t, via[t]) => k # via[t]
    BY DEF OwnerInv, OpenHasOneOwner, OneUser, Uses
  <2>2. \A s, k \in Turns : Uses(s, k)' =>
          Uses(s, k) /\ conn'[k].account = conn[k].account /\ account'[s] = account[s]
    BY <1>13, <2>1 DEF StaleConnection, Uses, Close
  <2>3. \A s \in Turns : pc'[s] = "send" =>
          /\ pc[s] = "send" /\ via'[s] = via[s] /\ continues'[s] \in {continues[s], None}
          /\ conn'[via[s]].saw = conn[via[s]].saw
    BY <1>13, <2>1 DEF StaleConnection, Uses, Close
  <2> QED
    BY <2>2, <2>3, SameCarriage
<1>14. ASSUME NEW t \in Turns, PolicyClose(t) PROVE AccountIsolation' /\ DeltaOnProducer'
  <2>1. \A s \in Turns \ {t}, k \in Turns : Uses(s, k) /\ Uses(t, via[t]) => k # via[t]
    BY DEF OwnerInv, OpenHasOneOwner, OneUser, Uses
  <2>2. \A s, k \in Turns : Uses(s, k)' =>
          Uses(s, k) /\ conn'[k].account = conn[k].account /\ account'[s] = account[s]
    BY <1>14, <2>1 DEF PolicyClose, Uses, Close
  <2>3. \A s \in Turns : pc'[s] = "send" =>
          /\ pc[s] = "send" /\ via'[s] = via[s] /\ continues'[s] \in {continues[s], None}
          /\ conn'[via[s]].saw = conn[via[s]].saw
    BY <1>14, <2>1 DEF PolicyClose, Uses, Close
  <2> QED
    BY <2>2, <2>3, SameCarriage
<1>15. ASSUME NEW t \in Turns, Accept(t) PROVE AccountIsolation' /\ DeltaOnProducer'
  BY <1>15, SameCarriage, SentinelAssumption DEF Accept, Uses
<1>16. ASSUME NEW t \in Turns, Refuse(t) PROVE AccountIsolation' /\ DeltaOnProducer'
  BY <1>16, SameCarriage, SentinelAssumption DEF Refuse, Uses
<1>17. ASSUME NEW t \in Turns, FirstReadFails(t) PROVE AccountIsolation' /\ DeltaOnProducer'
  <2>1. \A s \in Turns \ {t}, k \in Turns : Uses(s, k) /\ Uses(t, via[t]) => k # via[t]
    BY DEF OwnerInv, OpenHasOneOwner, OneUser, Uses
  <2>2. \A s, k \in Turns : Uses(s, k)' =>
          Uses(s, k) /\ conn'[k].account = conn[k].account /\ account'[s] = account[s]
    BY <1>17, <2>1 DEF FirstReadFails, Uses, Close
  <2>3. \A s \in Turns : pc'[s] = "send" =>
          /\ pc[s] = "send" /\ via'[s] = via[s] /\ continues'[s] \in {continues[s], None}
          /\ conn'[via[s]].saw = conn[via[s]].saw
    BY <1>17, <2>1 DEF FirstReadFails, Uses, Close
  <2> QED
    BY <2>2, <2>3, SameCarriage
<1>18. ASSUME NEW t \in Turns, PostOverHttp(t) PROVE AccountIsolation' /\ DeltaOnProducer'
  BY <1>18, SameCarriage, SentinelAssumption DEF PostOverHttp, Uses
<1>19. ASSUME NEW t \in Turns, HttpFails(t) PROVE AccountIsolation' /\ DeltaOnProducer'
  BY <1>19, SameCarriage, SentinelAssumption DEF HttpFails, Return, Uses
<1>20. ASSUME NEW t \in Turns, RememberRequest(t) PROVE AccountIsolation' /\ DeltaOnProducer'
  BY <1>20, SameCarriage, SentinelAssumption DEF RememberRequest, Uses
<1>21. ASSUME NEW t \in Turns, NameResponse(t) PROVE AccountIsolation' /\ DeltaOnProducer'
  <2>1. \A s \in Turns \ {t} : pc[s] = "send" => via[s] # via[t]
    BY <1>21 DEF NameResponse, Uses, OwnerInv, OpenHasOneOwner, OneUser
  <2>2. pc[t] # "send"
    BY <1>21 DEF NameResponse
  <2>3. \A s, k \in Turns : Uses(s, k)' =>
          Uses(s, k) /\ conn'[k].account = conn[k].account /\ account'[s] = account[s]
    BY <1>21 DEF NameResponse, Uses, Conn
  <2>4. \A s \in Turns : pc'[s] = "send" =>
          /\ pc[s] = "send" /\ via'[s] = via[s] /\ continues'[s] \in {continues[s], None}
          /\ conn'[via[s]].saw = conn[via[s]].saw
    BY <1>21, <2>1, <2>2 DEF NameResponse, Conn
  <2> QED
    BY <2>3, <2>4, SameCarriage
<1>22. ASSUME NEW t \in Turns, ReturnItem(t) PROVE AccountIsolation' /\ DeltaOnProducer'
  BY <1>22, SameCarriage, SentinelAssumption DEF ReturnItem, Uses
<1>23. ASSUME NEW t \in Turns, Complete(t) PROVE AccountIsolation' /\ DeltaOnProducer'
  BY <1>23, SameCarriage, SentinelAssumption DEF Complete, End, Uses
<1>24. ASSUME NEW t \in Turns, Fail(t) PROVE AccountIsolation' /\ DeltaOnProducer'
  BY <1>24, SameCarriage, SentinelAssumption DEF Fail, End, Uses
<1>25. ASSUME NEW t \in Turns, Truncate(t) PROVE AccountIsolation' /\ DeltaOnProducer'
  <2>1. \A s \in Turns \ {t}, k \in Turns : Uses(s, k) /\ Uses(t, via[t]) => k # via[t]
    BY DEF OwnerInv, OpenHasOneOwner, OneUser, Uses
  <2>2. \A s, k \in Turns : Uses(s, k)' =>
          Uses(s, k) /\ conn'[k].account = conn[k].account /\ account'[s] = account[s]
    BY <1>25, <2>1 DEF Truncate, End, Uses, Close
  <2>3. \A s \in Turns : pc'[s] = "send" =>
          /\ pc[s] = "send" /\ via'[s] = via[s] /\ continues'[s] \in {continues[s], None}
          /\ conn'[via[s]].saw = conn[via[s]].saw
    BY <1>25, <2>1 DEF Truncate, End, Uses, Close
  <2> QED
    BY <2>2, <2>3, SameCarriage
<1>26. ASSUME NEW t \in Turns, Break(t) PROVE AccountIsolation' /\ DeltaOnProducer'
  <2>1. \A s \in Turns \ {t}, k \in Turns : Uses(s, k) /\ Uses(t, via[t]) => k # via[t]
    BY DEF OwnerInv, OpenHasOneOwner, OneUser, Uses
  <2>2. \A s, k \in Turns : Uses(s, k)' =>
          Uses(s, k) /\ conn'[k].account = conn[k].account /\ account'[s] = account[s]
    BY <1>26, <2>1 DEF Break, End, Uses, Close
  <2>3. \A s \in Turns : pc'[s] = "send" =>
          /\ pc[s] = "send" /\ via'[s] = via[s] /\ continues'[s] \in {continues[s], None}
          /\ conn'[via[s]].saw = conn[via[s]].saw
    BY <1>26, <2>1 DEF Break, End, Uses, Close
  <2> QED
    BY <2>2, <2>3, SameCarriage
<1>27. ASSUME NEW t \in Turns, Park(t) PROVE AccountIsolation' /\ DeltaOnProducer'
  <2>1. \A s \in Turns \ {t}, k \in Turns : Uses(s, k) /\ Uses(t, via[t]) => k # via[t]
    BY DEF OwnerInv, OpenHasOneOwner, OneUser, Uses
  <2>2. \A s, k \in Turns : Uses(s, k)' =>
          Uses(s, k) /\ conn'[k].account = conn[k].account /\ account'[s] = account[s]
    BY <1>27, <2>1 DEF Park, Uses, Close
  <2>3. \A s \in Turns : pc'[s] = "send" =>
          /\ pc[s] = "send" /\ via'[s] = via[s] /\ continues'[s] \in {continues[s], None}
          /\ conn'[via[s]].saw = conn[via[s]].saw
    BY <1>27, <2>1 DEF Park, Uses, Close
  <2> QED
    BY <2>2, <2>3, SameCarriage
<1>28. ASSUME NEW t \in Turns, ReportFailure(t) PROVE AccountIsolation' /\ DeltaOnProducer'
  BY <1>28, SameCarriage, SentinelAssumption DEF ReportFailure, Return, Uses
<1>29. ASSUME NEW t \in Turns, RememberResponse(t) PROVE AccountIsolation' /\ DeltaOnProducer'
  BY <1>29, SameCarriage, SentinelAssumption DEF RememberResponse, Uses
<1>30. ASSUME NEW t \in Turns, Advance(t) PROVE AccountIsolation' /\ DeltaOnProducer'
  BY <1>30, SameCarriage, SentinelAssumption DEF Advance, Uses
<1>31. ASSUME NEW t \in Turns, Confirm(t) PROVE AccountIsolation' /\ DeltaOnProducer'
  BY <1>31, SameCarriage, SentinelAssumption DEF Confirm, Return, Uses
<1>32. ASSUME NEW t \in Turns, Disconnect(t) PROVE AccountIsolation' /\ DeltaOnProducer'
  <2>1. \A s \in Turns \ {t}, k \in Turns : Uses(s, k) /\ Uses(t, via[t]) => k # via[t]
    BY DEF OwnerInv, OpenHasOneOwner, OneUser, Uses
  <2>2. \A s, k \in Turns : Uses(s, k)' =>
          Uses(s, k) /\ conn'[k].account = conn[k].account /\ account'[s] = account[s]
    BY <1>32, <2>1 DEF Disconnect, Return, Uses, Close
  <2>3. \A s \in Turns : pc'[s] = "send" =>
          /\ pc[s] = "send" /\ via'[s] = via[s] /\ continues'[s] \in {continues[s], None}
          /\ conn'[via[s]].saw = conn[via[s]].saw
    BY <1>32, <2>1 DEF Disconnect, Return, Uses, Close
  <2> QED
    BY <2>2, <2>3, SameCarriage
<1> QED
  BY <1>1, <1>2, <1>3, <1>4, <1>5, <1>6, <1>7, <1>8, <1>9, <1>10, <1>11,
     <1>12, <1>13, <1>14, <1>15, <1>16, <1>17, <1>18, <1>19, <1>20, <1>21, <1>22,
     <1>23, <1>24, <1>25, <1>26, <1>27, <1>28, <1>29, <1>30, <1>31, <1>32
     DEF Next, Handle, Attempt, Finish, Stream

(* No connection is open, parked or used at first.                         *)
LEMMA ConnectionInit == Init => OwnerInv /\ AccountIsolation /\ DeltaOnProducer
  BY SentinelAssumption
     DEF Init, OwnerInv, Undialed, OpenHasOneOwner, ParkedIsFree, UsedIsOpen, OneUser,
         NoneLeaked, AccountIsolation, DeltaOnProducer, Uses, Unopened

ConnectionInv ==
  TypeOK /\ PathInv /\ OwnerInv /\ AccountIsolation /\ DeltaOnProducer

(* The inductive invariant: types, progress, ownership and carriage.       *)
LEMMA ConnectionInvariant == Spec => []ConnectionInv
<1>1. Init => ConnectionInv
  BY TypeInit, ConnectionInit DEF ConnectionInv
<1>2. ConnectionInv /\ [Next]_vars => ConnectionInv'
  BY TypeStep, PathStep, OwnerStep, CarriageStep DEF ConnectionInv
<1> QED
  BY <1>1, <1>2, PTL DEF Spec

(* However requests overlap, are refused, break, are dropped and retried,  *)
(* no two turns ever share a WebSocket and none is left open unowned       *)
(* (upstream/pool.rs, conduit.rs).                                         *)
THEOREM OneOwner == Spec => []OpenHasOneOwner
<1>1. ConnectionInv => OpenHasOneOwner
  BY DEF ConnectionInv, OwnerInv
<1> QED
  BY <1>1, ConnectionInvariant, PTL

(* No turn is sent over a connection another account's credential opened   *)
(* (conduit.rs, `opened_as`).                                              *)
THEOREM AccountsIsolated == Spec => []AccountIsolation
<1>1. ConnectionInv => AccountIsolation
  BY DEF ConnectionInv
<1> QED
  BY <1>1, ConnectionInvariant, PTL

(* A delta goes up only on the connection that produced the response it    *)
(* continues (conduit.rs, §4.3).                                           *)
THEOREM DeltasOnProducer == Spec => []DeltaOnProducer
<1>1. ConnectionInv => DeltaOnProducer
  BY DEF ConnectionInv
<1> QED
  BY <1>1, ConnectionInvariant, PTL


-----------------------------------------------------------------------------
(* What the client asked and what the backend hears (ingress.rs, the       *)
(* replay reconciled with the baseline).                                   *)

(* What a client can replay: everything but the server's own items.        *)
Replayable == {item \in Item : ~IsServerOnly(item)}

(* What FullSendIsFaithful needs to be inductive: clients replay what they *)
(* can; what is sent for a replay is, to the client, that replay; and the  *)
(* backend hears nothing of a turn before it is sent.                      *)
Replays == \A t \in Turns : asked[t] \in Seq(Replayable)

InputIsAsked ==
  \A t \in Turns : pc[t] \notin {"idle", "snapshot", "done"} => ClientView(input[t]) = asked[t]

Unheard == \A t \in Turns : pc[t] \in Early => heard[t] = << >>

FaithInv == Replays /\ InputIsAsked /\ Unheard /\ FullSendIsFaithful

(* A client's own items and the answers it was given can be replayed.      *)
LEMMA ReplayableItems ==
  /\ \A u \in Users : User(u) \in Replayable
  /\ \A t \in Turns : Answer(t) \in Replayable
  BY UserItemType, ResponseItemTypes DEF Replayable, IsServerOnly, User, Answer

(* Whatever a client asks it can replay.                                   *)
LEMMA AskReplayable ==
  ASSUME Replays, NEW ask \in Asks
  PROVE  ask \in Seq(Replayable)
<1>1. CASE \E u \in Users : ask = <<User(u)>>
  BY <1>1, ReplayableItems
<1>2. CASE \E t \in Turns, u \in Users : ask = Append(Told(t), User(u))
  BY <1>2, ReplayableItems, AppendProperties DEF Told, Replays
<1>3. CASE \E t \in Turns : ask = asked[t]
  BY <1>3 DEF Replays
<1>4. CASE \E t \in Turns, u \in Users : ask = Append(asked[t], User(u))
  BY <1>4, ReplayableItems, AppendProperties DEF Replays
<1> QED
  BY <1>1, <1>2, <1>3, <1>4 DEF Asks

(* Every step of a turn keeps that: a replay is reconciled faithfully, and *)
(* a full upload goes up as it was reconciled.                             *)
LEMMA FaithStep ==
  ASSUME TypeOK, PathInv, FaithInv, [Next]_vars
  PROVE  FaithInv'
<1> USE DEF TypeOK, SessionTypeOK, RequestTypeOK, PlanTypeOK, BackendTypeOK,
            TransportOK, sessionVars, requestVars, planVars, streamVars,
            backendVars, Early, FaithInv, Replays, InputIsAsked, Unheard,
            FullSendIsFaithful
<1>1. CASE UNCHANGED vars
  BY <1>1 DEF vars
<1>2. ASSUME NEW t \in Turns, Request(t) PROVE FaithInv'
  <2>1. PICK ask \in Asks, f \in Fields, a \in Accounts : Begin(t, ask, f, a)
    BY <1>2 DEF Request
  <2>2. ask \in Seq(Replayable)
    BY AskReplayable DEF FaithInv
  <2> QED
    BY <2>1, <2>2 DEF Begin
<1>3. ASSUME NEW t \in Turns, Snapshot(t) PROVE FaithInv'
  <2>1. baseline \in Seq(Item) /\ asked[t] \in Seq(Replayable)
    OBVIOUS
  <2>2. ClientView(ReconciledOrAsSent(baseline, asked[t])) = asked[t]
    BY <2>1, ReconcileIsFaithful DEF Replayable
  <2> QED
    BY <1>3, <2>2 DEF Snapshot
<1>4. ASSUME NEW t \in Turns, CheckConfirmed(t) PROVE FaithInv'
  BY <1>4, SentinelAssumption
     DEF CheckConfirmed
<1>5. ASSUME NEW t \in Turns, Claim(t) PROVE FaithInv'
  BY <1>5, SentinelAssumption
     DEF Claim
<1>6. ASSUME NEW t \in Turns, RefuseTooLarge(t) PROVE FaithInv'
  BY <1>6, SentinelAssumption
     DEF RefuseTooLarge, Return
<1>7. ASSUME NEW t \in Turns, ReadLastRequest(t) PROVE FaithInv'
  BY <1>7, SentinelAssumption
     DEF ReadLastRequest
<1>8. ASSUME NEW t \in Turns, ReadLastResponse(t) PROVE FaithInv'
  BY <1>8, SentinelAssumption
     DEF ReadLastResponse
<1>9. ASSUME NEW t \in Turns, Route(t) PROVE FaithInv'
  BY <1>9, SentinelAssumption
     DEF Route
<1>10. ASSUME NEW t \in Turns, Take(t) PROVE FaithInv'
  <2>1. heard[t] = << >> /\ \A s \in Turns \ {t} : continues'[s] = continues[s]
    BY <1>10 DEF Take
  <2> QED
    BY <1>10, <2>1 DEF Take
<1>11. ASSUME NEW t \in Turns, Dial(t) PROVE FaithInv'
  BY <1>11, SentinelAssumption
     DEF Dial
<1>12. ASSUME NEW t \in Turns, DialFails(t) PROVE FaithInv'
  BY <1>12, SentinelAssumption
     DEF DialFails
<1>13. ASSUME NEW t \in Turns, StaleConnection(t) PROVE FaithInv'
  BY <1>13, SentinelAssumption
     DEF StaleConnection
<1>14. ASSUME NEW t \in Turns, PolicyClose(t) PROVE FaithInv'
  BY <1>14, SentinelAssumption
     DEF PolicyClose
<1>15. ASSUME NEW t \in Turns, Accept(t) PROVE FaithInv'
  <2>1. continues[t] = None => Conversation(t) = input[t]
    BY DEF Conversation, Payload
  <2> QED
    BY <1>15, <2>1 DEF Accept
<1>16. ASSUME NEW t \in Turns, Refuse(t) PROVE FaithInv'
  BY <1>16, SentinelAssumption
     DEF Refuse
<1>17. ASSUME NEW t \in Turns, FirstReadFails(t) PROVE FaithInv'
  BY <1>17, SentinelAssumption
     DEF FirstReadFails
<1>18. ASSUME NEW t \in Turns, PostOverHttp(t) PROVE FaithInv'
  <2>1. Payload(t) = input[t]
    BY <1>18 DEF PostOverHttp, Payload
  <2> QED
    BY <1>18, <2>1 DEF PostOverHttp
<1>19. ASSUME NEW t \in Turns, HttpFails(t) PROVE FaithInv'
  BY <1>19, SentinelAssumption
     DEF HttpFails, Return
<1>20. ASSUME NEW t \in Turns, RememberRequest(t) PROVE FaithInv'
  BY <1>20, SentinelAssumption
     DEF RememberRequest
<1>21. ASSUME NEW t \in Turns, NameResponse(t) PROVE FaithInv'
  BY <1>21, SentinelAssumption
     DEF NameResponse
<1>22. ASSUME NEW t \in Turns, ReturnItem(t) PROVE FaithInv'
  BY <1>22, SentinelAssumption
     DEF ReturnItem
<1>23. ASSUME NEW t \in Turns, Complete(t) PROVE FaithInv'
  BY <1>23, SentinelAssumption
     DEF Complete, End
<1>24. ASSUME NEW t \in Turns, Fail(t) PROVE FaithInv'
  BY <1>24, SentinelAssumption
     DEF Fail, End
<1>25. ASSUME NEW t \in Turns, Truncate(t) PROVE FaithInv'
  BY <1>25, SentinelAssumption
     DEF Truncate, End
<1>26. ASSUME NEW t \in Turns, Break(t) PROVE FaithInv'
  BY <1>26, SentinelAssumption
     DEF Break, End
<1>27. ASSUME NEW t \in Turns, Park(t) PROVE FaithInv'
  BY <1>27, SentinelAssumption
     DEF Park
<1>28. ASSUME NEW t \in Turns, ReportFailure(t) PROVE FaithInv'
  BY <1>28, SentinelAssumption
     DEF ReportFailure, Return
<1>29. ASSUME NEW t \in Turns, RememberResponse(t) PROVE FaithInv'
  BY <1>29, SentinelAssumption
     DEF RememberResponse
<1>30. ASSUME NEW t \in Turns, Advance(t) PROVE FaithInv'
  BY <1>30, SentinelAssumption
     DEF Advance
<1>31. ASSUME NEW t \in Turns, Confirm(t) PROVE FaithInv'
  BY <1>31, SentinelAssumption
     DEF Confirm, Return
<1>32. ASSUME NEW t \in Turns, Disconnect(t) PROVE FaithInv'
  BY <1>32, SentinelAssumption
     DEF Disconnect, Return
<1> QED
  BY <1>1, <1>2, <1>3, <1>4, <1>5, <1>6, <1>7, <1>8, <1>9, <1>10, <1>11, <1>12,
     <1>13, <1>14, <1>15, <1>16, <1>17, <1>18, <1>19, <1>20, <1>21, <1>22, <1>23,
     <1>24, <1>25, <1>26, <1>27, <1>28, <1>29, <1>30, <1>31, <1>32
     DEF Next, Handle, Attempt, Finish, Stream

(* At first nothing was asked or heard.                                    *)
LEMMA FaithInit == Init => FaithInv
<1>1. << >> \in Seq(Replayable)
  BY EmptySeq
<1> QED
  BY <1>1 DEF Init, FaithInv, Replays, InputIsAsked, Unheard, FullSendIsFaithful

(* "Falling back is always safe": however requests overlap, a full upload  *)
(* is, to the client, the conversation the client sent (ingress.rs,        *)
(* conduit.rs).                                                            *)
THEOREM FullSendsAreFaithful == Spec => []FullSendIsFaithful
<1>1. Init => TypeOK /\ PathInv /\ FaithInv
  BY TypeInit, FaithInit
<1>2. TypeOK /\ PathInv /\ FaithInv /\ [Next]_vars => (TypeOK /\ PathInv /\ FaithInv)'
  BY TypeStep, PathStep, FaithStep
<1>3. FaithInv => FullSendIsFaithful
  BY DEF FaithInv
<1> QED
  BY <1>1, <1>2, <1>3, PTL DEF Spec

-----------------------------------------------------------------------------
(* One request at a time.  Without Overlap, what the session remembers can *)
(* only be changed by the turn it is remembered for.                       *)

(* At most one turn is being served.                                       *)
OneAtATime == \A s, t \in Turns : s = t \/ Served(s) \/ Served(t)

(* Where a handler is while its stream is open or its turn being closed.   *)
Streaming ==
  \A t \in Turns :
    /\ pump[t] \in {"none", "open"} => verdict[t] = "none"
    /\ pump[t] = "open" => pc[t] \in {"remember", "stream"}
    /\ pc[t] \in {"advance", "confirm"} => pump[t] = "over"

SerialInv == OneAtATime /\ Streaming

(* While a turn is served every other is at rest.                          *)
LEMMA OthersAtRest ==
  ASSUME SerialInv, NEW t \in Turns, ~Served(t)
  PROVE  \A s \in Turns \ {t} : pc[s] \in {"idle", "done"} /\ pump[s] \notin {"open", "ended"}
  BY DEF SerialInv, OneAtATime, Streaming, Served

(* Every step of a turn leaves the others alone, and one begins when all   *)
(* are served.                                                             *)
LEMMA SerialStep ==
  ASSUME Overlap = FALSE, TypeOK, PathInv, SerialInv, [Next]_vars
  PROVE  SerialInv'
<1> USE DEF TypeOK, RequestTypeOK, StreamTypeOK, sessionVars, conduitVars,
            requestVars, planVars, streamVars, backendVars, PathInv, Unstreamed,
            Early, SerialInv, OneAtATime, Streaming, Served
<1>1. CASE UNCHANGED vars
  BY <1>1 DEF vars
<1>2. ASSUME NEW t \in Turns, Request(t) PROVE SerialInv'
  BY <1>2 DEF Request, Begin, MayBegin
<1>3. ASSUME NEW t \in Turns, Snapshot(t) PROVE SerialInv'
  BY <1>3
     DEF Snapshot
<1>4. ASSUME NEW t \in Turns, CheckConfirmed(t) PROVE SerialInv'
  BY <1>4
     DEF CheckConfirmed
<1>5. ASSUME NEW t \in Turns, Claim(t) PROVE SerialInv'
  BY <1>5
     DEF Claim
<1>6. ASSUME NEW t \in Turns, RefuseTooLarge(t) PROVE SerialInv'
  BY <1>6
     DEF RefuseTooLarge, Return
<1>7. ASSUME NEW t \in Turns, ReadLastRequest(t) PROVE SerialInv'
  BY <1>7
     DEF ReadLastRequest
<1>8. ASSUME NEW t \in Turns, ReadLastResponse(t) PROVE SerialInv'
  BY <1>8
     DEF ReadLastResponse
<1>9. ASSUME NEW t \in Turns, Route(t) PROVE SerialInv'
  BY <1>9
     DEF Route
<1>10. ASSUME NEW t \in Turns, Take(t) PROVE SerialInv'
  BY <1>10
     DEF Take
<1>11. ASSUME NEW t \in Turns, Dial(t) PROVE SerialInv'
  BY <1>11
     DEF Dial
<1>12. ASSUME NEW t \in Turns, DialFails(t) PROVE SerialInv'
  BY <1>12
     DEF DialFails
<1>13. ASSUME NEW t \in Turns, StaleConnection(t) PROVE SerialInv'
  BY <1>13
     DEF StaleConnection
<1>14. ASSUME NEW t \in Turns, PolicyClose(t) PROVE SerialInv'
  BY <1>14
     DEF PolicyClose
<1>15. ASSUME NEW t \in Turns, Accept(t) PROVE SerialInv'
  <2>1. OneAtATime'
    BY <1>15 DEF Accept
  <2>2. Streaming'
    BY <1>15 DEF Accept
  <2> QED
    BY <2>1, <2>2
<1>16. ASSUME NEW t \in Turns, Refuse(t) PROVE SerialInv'
  BY <1>16
     DEF Refuse
<1>17. ASSUME NEW t \in Turns, FirstReadFails(t) PROVE SerialInv'
  BY <1>17
     DEF FirstReadFails
<1>18. ASSUME NEW t \in Turns, PostOverHttp(t) PROVE SerialInv'
  <2>1. OneAtATime'
    BY <1>18 DEF PostOverHttp
  <2>2. Streaming'
    BY <1>18 DEF PostOverHttp
  <2> QED
    BY <2>1, <2>2
<1>19. ASSUME NEW t \in Turns, HttpFails(t) PROVE SerialInv'
  BY <1>19
     DEF HttpFails, Return
<1>20. ASSUME NEW t \in Turns, RememberRequest(t) PROVE SerialInv'
  BY <1>20
     DEF RememberRequest
<1>21. ASSUME NEW t \in Turns, NameResponse(t) PROVE SerialInv'
  BY <1>21
     DEF NameResponse
<1>22. ASSUME NEW t \in Turns, ReturnItem(t) PROVE SerialInv'
  BY <1>22
     DEF ReturnItem
<1>23. ASSUME NEW t \in Turns, Complete(t) PROVE SerialInv'
  <2>1. /\ ~Served(t) /\ pc' = pc /\ pc[t] \in {"remember", "stream"}
        /\ pump' = [pump EXCEPT ![t] = "ended"]
        /\ \A s \in Turns \ {t} : verdict'[s] = verdict[s]
    BY <1>23 DEF Complete, End
  <2>2. \A s \in Turns \ {t} : pc[s] \in {"idle", "done"} /\ pump[s] \notin {"open", "ended"}
    BY <2>1, OthersAtRest
  <2> QED
    BY <2>1, <2>2
<1>24. ASSUME NEW t \in Turns, Fail(t) PROVE SerialInv'
  <2>1. /\ ~Served(t) /\ pc' = pc /\ pc[t] \in {"remember", "stream"}
        /\ pump' = [pump EXCEPT ![t] = "ended"]
        /\ \A s \in Turns \ {t} : verdict'[s] = verdict[s]
    BY <1>24 DEF Fail, End
  <2>2. \A s \in Turns \ {t} : pc[s] \in {"idle", "done"} /\ pump[s] \notin {"open", "ended"}
    BY <2>1, OthersAtRest
  <2> QED
    BY <2>1, <2>2
<1>25. ASSUME NEW t \in Turns, Truncate(t) PROVE SerialInv'
  BY <1>25
     DEF Truncate, End
<1>26. ASSUME NEW t \in Turns, Break(t) PROVE SerialInv'
  BY <1>26
     DEF Break, End
<1>27. ASSUME NEW t \in Turns, Park(t) PROVE SerialInv'
  BY <1>27
     DEF Park
<1>28. ASSUME NEW t \in Turns, ReportFailure(t) PROVE SerialInv'
  BY <1>28
     DEF ReportFailure, Return
<1>29. ASSUME NEW t \in Turns, RememberResponse(t) PROVE SerialInv'
  BY <1>29
     DEF RememberResponse
<1>30. ASSUME NEW t \in Turns, Advance(t) PROVE SerialInv'
  BY <1>30
     DEF Advance
<1>31. ASSUME NEW t \in Turns, Confirm(t) PROVE SerialInv'
  BY <1>31
     DEF Confirm, Return
<1>32. ASSUME NEW t \in Turns, Disconnect(t) PROVE SerialInv'
  BY <1>32
     DEF Disconnect, Return
<1> QED
  BY <1>1, <1>2, <1>3, <1>4, <1>5, <1>6, <1>7, <1>8, <1>9, <1>10, <1>11, <1>12,
     <1>13, <1>14, <1>15, <1>16, <1>17, <1>18, <1>19, <1>20, <1>21, <1>22, <1>23,
     <1>24, <1>25, <1>26, <1>27, <1>28, <1>29, <1>30, <1>31, <1>32
     DEF Next, Handle, Attempt, Finish, Stream

-----------------------------------------------------------------------------
(* The connection of a session whose turns do not overlap (conduit.rs,     *)
(* pool.rs).                                                               *)

NoneOpen == \A k \in Turns : ~conn[k].open

(* A session latched to HTTP has given its connections up.                 *)
Latched ==
  /\ latched => /\ NoneOpen /\ slot = None
                /\ \A t \in Turns : pc[t] \notin {"take", "dial", "send"}
  /\ \A t \in Turns : pc[t] = "http" \/ via[t] = Http => latched

(* A turn past its response's end that was never told a response's name.   *)
Nameless(t) ==
  /\ pc[t] \in {"remember", "stream", "advance"}
  /\ pump[t] = "over" /\ ~named[t] /\ verdict[t] # "refused"

(* Nothing is parked while a turn has the session's connection in hand, or *)
(* has lost it; a stream that breaks off unnamed takes the connection with *)
(* it.                                                                     *)
InHand ==
  \A t \in Turns :
    /\ \/ pc[t] \in {"dial", "send"}
       \/ pc[t] \in {"remember", "stream"} /\ pump[t] # "over"
       \/ pump[t] = "ended"
       => slot = None
    /\ Nameless(t) => slot = None /\ NoneOpen

(* A stream that completed or failed had been named.                       *)
Endings ==
  \A t \in Turns :
    /\ verdict[t] \in {"completed", "failed"} \/ returned[t] # << >> => named[t]
    /\ pc[t] \in {"remember", "stream", "advance"} /\ pump[t] = "over" => verdict[t] # "none"
    /\ pump[t] = "ended" => verdict[t] \in {"completed", "failed", "refused"}

LatchInv == Latched /\ InHand /\ Endings

(* Closing a connection opens none and names none.                         *)
LEMMA CloseOpensNone ==
  ASSUME ConduitTypeOK, NEW k, NEW j \in Turns
  PROVE  Close(k)[j].open => Close(k)[j] = conn[j]
  BY DEF ConduitTypeOK, Close, Unopened

(* What is open then is the turn's own.                                    *)
LEMMA OnlyItsOwn ==
  ASSUME OpenHasOneOwner, SerialInv, NEW t \in Turns, ~Served(t), slot = None,
         NEW k \in Turns, conn[k].open
  PROVE  Uses(t, k)
<1>1. PICK s \in Turns : Uses(s, k)
  BY SentinelAssumption DEF OpenHasOneOwner, NoneLeaked
<1>2. s # t => pc[s] \in {"idle", "done"} /\ pump[s] \notin {"open", "ended"}
  BY OthersAtRest
<1> QED
  BY <1>1, <1>2 DEF Uses

(* Every step of a turn keeps the connection where that says.              *)
LEMMA LatchStep ==
  ASSUME Overlap = FALSE, TypeOK, PathInv, OwnerInv, SerialInv, LatchInv, [Next]_vars
  PROVE  LatchInv'
<1> USE DEF TypeOK, ConduitTypeOK, RequestTypeOK, StreamTypeOK, PlanTypeOK,
            TransportOK, sessionVars, conduitVars, requestVars, planVars,
            streamVars, backendVars, PathInv, Unstreamed, Unsent, Early, OwnerInv,
            SerialInv, Streaming, LatchInv, Latched, InHand, Endings, Nameless,
            NoneOpen
<1>1. CASE UNCHANGED vars
  BY <1>1 DEF vars
<1>2. ASSUME NEW t \in Turns, Request(t) PROVE LatchInv'
  BY <1>2, SentinelAssumption
     DEF Request, Begin
<1>3. ASSUME NEW t \in Turns, Snapshot(t) PROVE LatchInv'
  BY <1>3, SentinelAssumption
     DEF Snapshot
<1>4. ASSUME NEW t \in Turns, CheckConfirmed(t) PROVE LatchInv'
  BY <1>4, SentinelAssumption
     DEF CheckConfirmed
<1>5. ASSUME NEW t \in Turns, Claim(t) PROVE LatchInv'
  BY <1>5, SentinelAssumption
     DEF Claim
<1>6. ASSUME NEW t \in Turns, RefuseTooLarge(t) PROVE LatchInv'
  BY <1>6, SentinelAssumption
     DEF RefuseTooLarge, Return
<1>7. ASSUME NEW t \in Turns, ReadLastRequest(t) PROVE LatchInv'
  BY <1>7, SentinelAssumption
     DEF ReadLastRequest
<1>8. ASSUME NEW t \in Turns, ReadLastResponse(t) PROVE LatchInv'
  BY <1>8, SentinelAssumption
     DEF ReadLastResponse
<1>9. ASSUME NEW t \in Turns, Route(t) PROVE LatchInv'
  BY <1>9, SentinelAssumption
     DEF Route
<1>10. ASSUME NEW t \in Turns, Take(t) PROVE LatchInv'
  <2>1. \A s \in Turns \ {t} : pc[s] \in {"idle", "done"} /\ pump[s] \notin {"open", "ended"}
    BY <1>10, OthersAtRest DEF Take, Served
  <2>2. /\ ~latched /\ ~latched' /\ Reusable(t) # Http /\ slot' = None
        /\ via' = [via EXCEPT ![t] = Reusable(t)]
        /\ pc' = [pc EXCEPT ![t] = IF Reusable(t) = None THEN "dial" ELSE "send"]
    BY <1>10, SentinelAssumption DEF Take, Reusable
  <2>7. Latched'
    BY <2>2
  <2>8. InHand'
    BY <1>10, <2>1, SentinelAssumption DEF Take
  <2>9. Endings'
    BY <1>10, <2>1 DEF Take
  <2> QED
    BY <2>7, <2>8, <2>9
<1>11. ASSUME NEW t \in Turns, Dial(t) PROVE LatchInv'
  <2>1. \A s \in Turns \ {t} : pc[s] \in {"idle", "done"} /\ pump[s] \notin {"open", "ended"}
    BY <1>11, OthersAtRest DEF Dial, Served
  <2>7. Latched'
    BY <1>11, <2>1, SentinelAssumption DEF Dial
  <2>8. InHand'
    BY <1>11, <2>1, SentinelAssumption DEF Dial
  <2>9. Endings'
    BY <1>11, <2>1 DEF Dial
  <2> QED
    BY <2>7, <2>8, <2>9
<1>12. ASSUME NEW t \in Turns, DialFails(t) PROVE LatchInv'
  <2>1. \A s \in Turns \ {t} : pc[s] \in {"idle", "done"} /\ pump[s] \notin {"open", "ended"}
    BY <1>12, OthersAtRest DEF DialFails, Served
  <2>2. \A k \in Turns : conn[k].open => Uses(t, k)
    BY <1>12, OnlyItsOwn DEF DialFails, Served
  <2>3. \A k \in Turns : Uses(t, k) => k = via[t]
    BY DEF Uses
  <2>4. NoneOpen'
    BY <1>12, <2>2, <2>3 DEF DialFails, Uses
  <2>5. /\ slot = None /\ slot' = slot /\ latched' = TRUE /\ pump' = pump /\ named' = named
        /\ verdict' = verdict /\ returned' = returned /\ pc' = [pc EXCEPT ![t] = "http"]
    BY <1>12 DEF DialFails
  <2>6. Latched'
    BY <2>1, <2>4, <2>5
  <2>7. InHand'
    BY <2>4, <2>5
  <2>8. Endings'
    BY <2>5
  <2> QED
    BY <2>6, <2>7, <2>8
<1>13. ASSUME NEW t \in Turns, StaleConnection(t) PROVE LatchInv'
  <2>1. \A s \in Turns \ {t} : pc[s] \in {"idle", "done"} /\ pump[s] \notin {"open", "ended"}
    BY <1>13, OthersAtRest DEF StaleConnection, Served
  <2>7. Latched'
    BY <1>13, <2>1, SentinelAssumption DEF StaleConnection
  <2>8. InHand'
    BY <1>13, <2>1, SentinelAssumption DEF StaleConnection
  <2>9. Endings'
    BY <1>13, <2>1 DEF StaleConnection
  <2> QED
    BY <2>7, <2>8, <2>9
<1>14. ASSUME NEW t \in Turns, PolicyClose(t) PROVE LatchInv'
  <2>1. \A s \in Turns \ {t} : pc[s] \in {"idle", "done"} /\ pump[s] \notin {"open", "ended"}
    BY <1>14, OthersAtRest DEF PolicyClose, Served
  <2>2. \A k \in Turns : conn[k].open => Uses(t, k)
    BY <1>14, OnlyItsOwn DEF PolicyClose, Served
  <2>3. \A k \in Turns : Uses(t, k) => k = via[t]
    BY DEF Uses
  <2>4. NoneOpen'
    BY <1>14, <2>2, <2>3 DEF PolicyClose, Close, Unopened, Uses
  <2>5. /\ slot = None /\ slot' = slot /\ latched' = TRUE /\ pump' = pump /\ named' = named
        /\ verdict' = verdict /\ returned' = returned /\ pc' = [pc EXCEPT ![t] = "http"]
    BY <1>14 DEF PolicyClose
  <2>6. Latched'
    BY <2>1, <2>4, <2>5
  <2>7. InHand'
    BY <2>4, <2>5
  <2>8. Endings'
    BY <2>5
  <2> QED
    BY <2>6, <2>7, <2>8
<1>15. ASSUME NEW t \in Turns, Accept(t) PROVE LatchInv'
  BY <1>15, SentinelAssumption
     DEF Accept
<1>16. ASSUME NEW t \in Turns, Refuse(t) PROVE LatchInv'
  BY <1>16, SentinelAssumption
     DEF Refuse
<1>17. ASSUME NEW t \in Turns, FirstReadFails(t) PROVE LatchInv'
  <2>1. \A s \in Turns \ {t} : pc[s] \in {"idle", "done"} /\ pump[s] \notin {"open", "ended"}
    BY <1>17, OthersAtRest DEF FirstReadFails, Served
  <2>7. Latched'
    BY <1>17, <2>1, SentinelAssumption DEF FirstReadFails
  <2>8. InHand'
    BY <1>17, <2>1, SentinelAssumption DEF FirstReadFails
  <2>9. Endings'
    BY <1>17, <2>1 DEF FirstReadFails
  <2> QED
    BY <2>7, <2>8, <2>9
<1>18. ASSUME NEW t \in Turns, PostOverHttp(t) PROVE LatchInv'
  BY <1>18, SentinelAssumption
     DEF PostOverHttp
<1>19. ASSUME NEW t \in Turns, HttpFails(t) PROVE LatchInv'
  BY <1>19, SentinelAssumption
     DEF HttpFails, Return
<1>20. ASSUME NEW t \in Turns, RememberRequest(t) PROVE LatchInv'
  <2>1. \A s \in Turns \ {t} : pc[s] \in {"idle", "done"} /\ pump[s] \notin {"open", "ended"}
    BY <1>20, OthersAtRest DEF RememberRequest, Served
  <2>7. Latched'
    BY <1>20, <2>1, SentinelAssumption DEF RememberRequest
  <2>8. InHand'
    BY <1>20, <2>1, SentinelAssumption DEF RememberRequest
  <2>9. Endings'
    BY <1>20, <2>1 DEF RememberRequest
  <2> QED
    BY <2>7, <2>8, <2>9
<1>21. ASSUME NEW t \in Turns, NameResponse(t) PROVE LatchInv'
  BY <1>21, SentinelAssumption
     DEF NameResponse
<1>22. ASSUME NEW t \in Turns, ReturnItem(t) PROVE LatchInv'
  BY <1>22, SentinelAssumption
     DEF ReturnItem
<1>23. ASSUME NEW t \in Turns, Complete(t) PROVE LatchInv'
  BY <1>23, SentinelAssumption
     DEF Complete, End
<1>24. ASSUME NEW t \in Turns, Fail(t) PROVE LatchInv'
  BY <1>24, SentinelAssumption
     DEF Fail, End
<1>25. ASSUME NEW t \in Turns, Truncate(t) PROVE LatchInv'
  <2>1. \A s \in Turns \ {t} : pc[s] \in {"idle", "done"} /\ pump[s] \notin {"open", "ended"}
    BY <1>25, OthersAtRest DEF Truncate, End, Served
  <2>2. \A k \in Turns : conn[k].open => Uses(t, k)
    BY <1>25, OnlyItsOwn DEF Truncate, End, Served
  <2>3. \A k \in Turns : Uses(t, k) => k = via[t]
    BY DEF Uses
  <2>4. NoneOpen'
    BY <1>25, <2>2, <2>3 DEF Truncate, End, Close, Unopened, Uses
  <2>7. Latched'
    BY <1>25, <2>1, <2>4, SentinelAssumption DEF Truncate, End
  <2>8. InHand'
    BY <1>25, <2>1, <2>4, SentinelAssumption DEF Truncate, End
  <2>9. Endings'
    BY <1>25, <2>1, <2>4 DEF Truncate, End
  <2> QED
    BY <2>7, <2>8, <2>9
<1>26. ASSUME NEW t \in Turns, Break(t) PROVE LatchInv'
  <2>1. \A s \in Turns \ {t} : pc[s] \in {"idle", "done"} /\ pump[s] \notin {"open", "ended"}
    BY <1>26, OthersAtRest DEF Break, End, Served
  <2>2. \A k \in Turns : conn[k].open => Uses(t, k)
    BY <1>26, OnlyItsOwn DEF Break, End, Served
  <2>3. \A k \in Turns : Uses(t, k) => k = via[t]
    BY DEF Uses
  <2>4. NoneOpen'
    BY <1>26, <2>2, <2>3 DEF Break, End, Close, Unopened, Uses
  <2>7. Latched'
    BY <1>26, <2>1, <2>4, SentinelAssumption DEF Break, End
  <2>8. InHand'
    BY <1>26, <2>1, <2>4, SentinelAssumption DEF Break, End
  <2>9. Endings'
    BY <1>26, <2>1, <2>4 DEF Break, End
  <2> QED
    BY <2>7, <2>8, <2>9
<1>27. ASSUME NEW t \in Turns, Park(t) PROVE LatchInv'
  <2>1. \A s \in Turns \ {t} : pc[s] \in {"idle", "done"} /\ pump[s] \notin {"open", "ended"}
    BY <1>27, OthersAtRest DEF Park, Served
  <2>2. /\ slot = None /\ conn' = conn /\ pump' = [pump EXCEPT ![t] = "over"]
        /\ slot' = IF via[t] # Http THEN via[t] ELSE None
        /\ latched' = latched /\ pc' = pc /\ via' = via /\ named' = named
        /\ verdict' = verdict /\ returned' = returned
    BY <1>27 DEF Park
  <2>3. verdict[t] # "none" /\ (named[t] \/ verdict[t] = "refused")
        /\ pc[t] \notin {"dial", "send"}
    BY <1>27 DEF Park
  <2>4. ASSUME latched PROVE via[t] = Http
    <3>1. pump[t] = "ended" /\ via[t] # None /\ via[t] \in Turns \cup {None, Http}
      BY <1>27 DEF Park
    <3>2. via[t] \in Turns => Uses(t, via[t])
      BY <3>1 DEF Uses
    <3>3. via[t] \in Turns => conn[via[t]].open
      BY <3>2 DEF OwnerInv, OpenHasOneOwner, UsedIsOpen
    <3> QED
      BY <2>4, <3>1, <3>3
  <2>7. Latched'
    BY <2>2, <2>4
  <2>5. pump'[t] = "over" /\ \A s \in Turns \ {t} : pump'[s] = pump[s]
    BY <2>2
  <2>8. InHand'
    <3>1. ~Nameless(t)'
      BY <2>2, <2>3
    <3>2. \A s \in Turns \ {t} :
            ~Nameless(s)' /\ pump'[s] # "ended" /\ pc'[s] \in {"idle", "done"}
      BY <2>1, <2>2, <2>5
    <3> QED
      BY <2>2, <2>3, <2>5, <3>1, <3>2
  <2>9. Endings'
    BY <2>2, <2>3
  <2> QED
    BY <2>7, <2>8, <2>9
<1>28. ASSUME NEW t \in Turns, ReportFailure(t) PROVE LatchInv'
  BY <1>28, SentinelAssumption
     DEF ReportFailure, Return
<1>29. ASSUME NEW t \in Turns, RememberResponse(t) PROVE LatchInv'
  BY <1>29, SentinelAssumption
     DEF RememberResponse
<1>30. ASSUME NEW t \in Turns, Advance(t) PROVE LatchInv'
  BY <1>30, SentinelAssumption
     DEF Advance
<1>31. ASSUME NEW t \in Turns, Confirm(t) PROVE LatchInv'
  BY <1>31, SentinelAssumption
     DEF Confirm, Return
<1>32. ASSUME NEW t \in Turns, Disconnect(t) PROVE LatchInv'
  <2>1. \A s \in Turns \ {t} : pc[s] \in {"idle", "done"} /\ pump[s] \notin {"open", "ended"}
    BY <1>32, OthersAtRest DEF Disconnect, Served
  <2>2. /\ slot' = slot /\ latched' = latched /\ via' = via /\ named' = named
        /\ returned' = returned /\ pc' = [pc EXCEPT ![t] = "done"]
        /\ \A s \in Turns \ {t} : pump'[s] = pump[s] /\ verdict'[s] = verdict[s]
        /\ \/ pump'[t] = pump[t] /\ verdict'[t] = verdict[t]
           \/ pump'[t] = "over" /\ verdict'[t] = "cancelled"
    BY <1>32 DEF Disconnect, Return
  <2>3. NoneOpen => NoneOpen'
    BY <1>32, CloseOpensNone DEF Disconnect
  <2>6. Latched'
    BY <2>2, <2>3
  <2>7. InHand'
    BY <2>1, <2>2
  <2>8. Endings'
    BY <2>1, <2>2
  <2> QED
    BY <2>6, <2>7, <2>8
<1> QED
  BY <1>1, <1>2, <1>3, <1>4, <1>5, <1>6, <1>7, <1>8, <1>9, <1>10, <1>11, <1>12,
     <1>13, <1>14, <1>15, <1>16, <1>17, <1>18, <1>19, <1>20, <1>21, <1>22, <1>23,
     <1>24, <1>25, <1>26, <1>27, <1>28, <1>29, <1>30, <1>31, <1>32
     DEF Next, Handle, Attempt, Finish, Stream

-----------------------------------------------------------------------------
(* What a turn reads of the session's memory, while turns do not overlap   *)
(* (session.rs).                                                           *)

(* A response is remembered only by a turn that also confirms.             *)
Unconfirmed ==
  ~confirmed => lastResponse = None \/ \E t \in Turns : pc[t] \in {"advance", "confirm"}

(* A conversation is claimed only in a session no turn completed on.       *)
Claims == \A t \in Turns : pc[t] = "claim" => ~confirmed

(* What a turn read of the session is still so when it is sent.            *)
Remembered ==
  \A t \in Turns :
    /\ confirmed
    /\ pc[t] \in {"check", "previous", "previousId", "route", "take", "dial", "send", "http"}
    => before[t] = baseline

Recalled ==
  \A t \in Turns :
    pc[t] \in {"route", "take", "dial", "send", "http"} => prevResponse[t] = lastResponse

(* A delta continues the response the turn read, and extends the baseline  *)
(* it read.                                                                *)
Planned ==
  \A t \in Turns :
    pc[t] = "send" /\ continues[t] # None =>
      continues[t] = prevResponse[t] /\ Extends(before[t], input[t])

MemoryInv == Unconfirmed /\ Claims /\ Remembered /\ Recalled /\ Planned

(* Every step of a turn keeps that: only the turn being served moves what  *)
(* the session remembers.                                                  *)
LEMMA MemoryStep ==
  ASSUME TypeOK, SerialInv, MemoryInv, [Next]_vars
  PROVE  MemoryInv'
<1> USE DEF TypeOK, SessionTypeOK, RequestTypeOK, PlanTypeOK, TransportOK,
            sessionVars, conduitVars, requestVars, planVars, streamVars,
            backendVars, MemoryInv, Unconfirmed, Claims, Remembered, Recalled,
            Planned
<1>1. CASE UNCHANGED vars
  BY <1>1 DEF vars
<1>2. ASSUME NEW t \in Turns, Request(t) PROVE MemoryInv'
  BY <1>2
     DEF Request, Begin
<1>3. ASSUME NEW t \in Turns, Snapshot(t) PROVE MemoryInv'
  BY <1>3
     DEF Snapshot
<1>4. ASSUME NEW t \in Turns, CheckConfirmed(t) PROVE MemoryInv'
  BY <1>4
     DEF CheckConfirmed
<1>5. ASSUME NEW t \in Turns, Claim(t) PROVE MemoryInv'
  <2>1. \A s \in Turns \ {t} : pc[s] \in {"idle", "done"}
    BY <1>5, OthersAtRest DEF Claim, Served
  <2> QED
    BY <1>5, <2>1 DEF Claim
<1>6. ASSUME NEW t \in Turns, RefuseTooLarge(t) PROVE MemoryInv'
  BY <1>6
     DEF RefuseTooLarge, Return
<1>7. ASSUME NEW t \in Turns, ReadLastRequest(t) PROVE MemoryInv'
  BY <1>7
     DEF ReadLastRequest
<1>8. ASSUME NEW t \in Turns, ReadLastResponse(t) PROVE MemoryInv'
  BY <1>8
     DEF ReadLastResponse
<1>9. ASSUME NEW t \in Turns, Route(t) PROVE MemoryInv'
  BY <1>9
     DEF Route
<1>10. ASSUME NEW t \in Turns, Take(t) PROVE MemoryInv'
  <2>1. /\ continues' = [continues EXCEPT ![t] =
                           IF MayContinue(t, Reusable(t)) THEN prevResponse[t] ELSE None]
        /\ pc' = [pc EXCEPT ![t] = IF Reusable(t) = None THEN "dial" ELSE "send"]
    BY <1>10 DEF Take
  <2>2. MayContinue(t, Reusable(t)) => Extends(before[t], input[t])
    BY DEF MayContinue, PlansDelta
  <2>3. /\ pc[t] = "take" /\ baseline' = baseline /\ confirmed' = confirmed
        /\ lastResponse' = lastResponse /\ before' = before /\ input' = input
        /\ prevResponse' = prevResponse
    BY <1>10 DEF Take
  <2>4. Planned'
    BY <2>1, <2>2, <2>3
  <2> QED
    BY <2>1, <2>3, <2>4
<1>11. ASSUME NEW t \in Turns, Dial(t) PROVE MemoryInv'
  BY <1>11
     DEF Dial
<1>12. ASSUME NEW t \in Turns, DialFails(t) PROVE MemoryInv'
  BY <1>12
     DEF DialFails
<1>13. ASSUME NEW t \in Turns, StaleConnection(t) PROVE MemoryInv'
  BY <1>13
     DEF StaleConnection
<1>14. ASSUME NEW t \in Turns, PolicyClose(t) PROVE MemoryInv'
  BY <1>14
     DEF PolicyClose
<1>15. ASSUME NEW t \in Turns, Accept(t) PROVE MemoryInv'
  BY <1>15
     DEF Accept
<1>16. ASSUME NEW t \in Turns, Refuse(t) PROVE MemoryInv'
  BY <1>16
     DEF Refuse
<1>17. ASSUME NEW t \in Turns, FirstReadFails(t) PROVE MemoryInv'
  BY <1>17
     DEF FirstReadFails
<1>18. ASSUME NEW t \in Turns, PostOverHttp(t) PROVE MemoryInv'
  BY <1>18
     DEF PostOverHttp
<1>19. ASSUME NEW t \in Turns, HttpFails(t) PROVE MemoryInv'
  BY <1>19
     DEF HttpFails, Return
<1>20. ASSUME NEW t \in Turns, RememberRequest(t) PROVE MemoryInv'
  BY <1>20
     DEF RememberRequest
<1>21. ASSUME NEW t \in Turns, NameResponse(t) PROVE MemoryInv'
  BY <1>21
     DEF NameResponse
<1>22. ASSUME NEW t \in Turns, ReturnItem(t) PROVE MemoryInv'
  BY <1>22
     DEF ReturnItem
<1>23. ASSUME NEW t \in Turns, Complete(t) PROVE MemoryInv'
  BY <1>23
     DEF Complete, End
<1>24. ASSUME NEW t \in Turns, Fail(t) PROVE MemoryInv'
  BY <1>24
     DEF Fail, End
<1>25. ASSUME NEW t \in Turns, Truncate(t) PROVE MemoryInv'
  BY <1>25
     DEF Truncate, End
<1>26. ASSUME NEW t \in Turns, Break(t) PROVE MemoryInv'
  BY <1>26
     DEF Break, End
<1>27. ASSUME NEW t \in Turns, Park(t) PROVE MemoryInv'
  BY <1>27
     DEF Park
<1>28. ASSUME NEW t \in Turns, ReportFailure(t) PROVE MemoryInv'
  BY <1>28
     DEF ReportFailure, Return
<1>29. ASSUME NEW t \in Turns, RememberResponse(t) PROVE MemoryInv'
  <2>1. \A s \in Turns \ {t} : pc[s] \in {"idle", "done"}
    BY <1>29, OthersAtRest DEF RememberResponse, Served
  <2>2. /\ pc' = [pc EXCEPT ![t] = "advance"] /\ confirmed' = confirmed /\ before' = before
        /\ baseline' = baseline /\ prevResponse' = prevResponse /\ input' = input
        /\ continues' = continues
    BY <1>29 DEF RememberResponse
  <2>3. pc'[t] = "advance" /\ \A s \in Turns \ {t} : pc'[s] \in {"idle", "done"}
    BY <2>1, <2>2
  <2> QED
    BY <2>2, <2>3
<1>30. ASSUME NEW t \in Turns, Advance(t) PROVE MemoryInv'
  <2>1. \A s \in Turns \ {t} : pc[s] \in {"idle", "done"}
    BY <1>30, OthersAtRest DEF Advance, Served
  <2> QED
    BY <1>30, <2>1 DEF Advance
<1>31. ASSUME NEW t \in Turns, Confirm(t) PROVE MemoryInv'
  <2>1. \A s \in Turns \ {t} : pc[s] \in {"idle", "done"}
    BY <1>31, OthersAtRest DEF Confirm, Return, Served
  <2> QED
    BY <1>31, <2>1 DEF Confirm, Return
<1>32. ASSUME NEW t \in Turns, Disconnect(t) PROVE MemoryInv'
  BY <1>32
     DEF Disconnect, Return
<1> QED
  BY <1>1, <1>2, <1>3, <1>4, <1>5, <1>6, <1>7, <1>8, <1>9, <1>10, <1>11, <1>12,
     <1>13, <1>14, <1>15, <1>16, <1>17, <1>18, <1>19, <1>20, <1>21, <1>22, <1>23,
     <1>24, <1>25, <1>26, <1>27, <1>28, <1>29, <1>30, <1>31, <1>32
     DEF Next, Handle, Attempt, Finish, Stream

-----------------------------------------------------------------------------
(* What the backend holds, and when a turn is closed.                      *)

(* What the backend holds of a response is what it heard and returned.     *)
HeldWhole ==
  \A t \in Turns :
    held[t].on # None =>
      /\ verdict[t] = "completed"
      /\ held[t].on = via[t]
      /\ held[t].items = heard[t] \o returned[t]

(* A turn whose response the session remembers has closed.                 *)
LastIsOver ==
  \A t \in Turns :
    lastResponse = t => pc[t] \in {"advance", "confirm", "done"} /\ pump[t] = "over"

HeldInv == HeldWhole /\ LastIsOver

(* A step of turn t leaves what is told of the other turns alone.          *)
Apart(t) ==
  \A s \in Turns \ {t} :
    /\ pc'[s] = pc[s] /\ pump'[s] = pump[s] /\ verdict'[s] = verdict[s]
    /\ via'[s] = via[s] /\ heard'[s] = heard[s] /\ returned'[s] = returned[s]
    /\ named'[s] = named[s] /\ input'[s] = input[s]

(* A turn that neither completed nor is remembered moves only its own.     *)
LEMMA OthersHeld ==
  ASSUME HeldInv, NEW t \in Turns, Apart(t), verdict[t] # "completed", lastResponse # t,
         held' = held, lastResponse' = lastResponse
  PROVE  HeldInv'
<1>1. held[t].on = None
  BY DEF HeldInv, HeldWhole
<1>2. HeldWhole'
  BY <1>1 DEF Apart, HeldInv, HeldWhole
<1>3. LastIsOver'
  BY DEF Apart, HeldInv, LastIsOver
<1> QED
  BY <1>2, <1>3 DEF HeldInv

(* A turn that moves only its handler keeps what is held of it.            *)
LEMMA HandlerHolds ==
  ASSUME HeldInv, NEW t \in Turns, Apart(t), verdict' = verdict, via' = via, heard' = heard,
         returned' = returned, held' = held,
         \/ lastResponse' = lastResponse
         \/ lastResponse' = t /\ pc'[t] = "advance" /\ pump'[t] = "over",
         lastResponse = t => pc'[t] \in {"advance", "confirm", "done"} /\ pump'[t] = "over"
  PROVE  HeldInv'
<1>1. HeldWhole'
  BY DEF HeldInv, HeldWhole
<1>2. LastIsOver'
  BY DEF Apart, HeldInv, LastIsOver
<1> QED
  BY <1>1, <1>2 DEF HeldInv

(* Every step of a turn keeps that, overlapping or not.                    *)
LEMMA HeldStep ==
  ASSUME TypeOK, PathInv, Streaming, HeldInv, [Next]_vars
  PROVE  HeldInv'
<1> DEFINE Resting(t) == /\ Apart(t) /\ verdict[t] # "completed" /\ lastResponse # t
                         /\ held' = held /\ lastResponse' = lastResponse
           Handling(t) == /\ Apart(t) /\ verdict' = verdict /\ via' = via /\ heard' = heard
                          /\ returned' = returned /\ held' = held
                          /\ \/ lastResponse' = lastResponse
                             \/ lastResponse' = t /\ pc'[t] = "advance" /\ pump'[t] = "over"
                          /\ lastResponse = t =>
                               pc'[t] \in {"advance", "confirm", "done"} /\ pump'[t] = "over"
<1> USE DEF TypeOK, RequestTypeOK, PlanTypeOK, StreamTypeOK, BackendTypeOK, sessionVars,
            conduitVars, requestVars, planVars, streamVars, backendVars, Apart
<1>1. CASE UNCHANGED vars
  BY <1>1 DEF vars, HeldInv, HeldWhole, LastIsOver
<1>2. ASSUME NEW t \in Turns, pc[t] \in Early
      PROVE  verdict[t] # "completed" /\ lastResponse # t
  BY <1>2 DEF PathInv, Unstreamed, Streaming, HeldInv, LastIsOver, Early
<1>3. ASSUME NEW t \in Turns, pump[t] = "open"
      PROVE  verdict[t] # "completed" /\ lastResponse # t
  BY <1>3 DEF Streaming, HeldInv, LastIsOver
<1>4. ASSUME NEW t \in Turns,
             \/ Request(t) \/ Snapshot(t) \/ CheckConfirmed(t) \/ Claim(t)
             \/ RefuseTooLarge(t) \/ ReadLastRequest(t) \/ ReadLastResponse(t) \/ Route(t)
      PROVE  Resting(t)
  <2>1. pc[t] \in Early
    BY <1>4 DEF Request, Begin, Snapshot, CheckConfirmed, Claim, RefuseTooLarge,
                ReadLastRequest, ReadLastResponse, Route, Early
  <2> QED
    BY <1>2, <1>4, <2>1
       DEF Request, Begin, Snapshot, CheckConfirmed, Claim, RefuseTooLarge,
           ReadLastRequest, ReadLastResponse, Route, Return
<1>5. ASSUME NEW t \in Turns,
             \/ Take(t) \/ Dial(t) \/ DialFails(t) \/ StaleConnection(t) \/ PolicyClose(t)
      PROVE  Resting(t)
  <2>1. pc[t] \in Early
    BY <1>5 DEF Take, Dial, DialFails, StaleConnection, PolicyClose, Early
  <2> QED
    BY <1>2, <1>5, <2>1 DEF Take, Dial, DialFails, StaleConnection, PolicyClose
<1>6. ASSUME NEW t \in Turns,
             \/ Accept(t) \/ Refuse(t) \/ FirstReadFails(t) \/ PostOverHttp(t) \/ HttpFails(t)
      PROVE  Resting(t)
  <2>1. pc[t] \in Early
    BY <1>6 DEF Accept, Refuse, FirstReadFails, PostOverHttp, HttpFails, Early
  <2> QED
    BY <1>2, <1>6, <2>1
       DEF Accept, Refuse, FirstReadFails, PostOverHttp, HttpFails, Return
<1>7. ASSUME NEW t \in Turns,
             NameResponse(t) \/ ReturnItem(t) \/ Fail(t) \/ Truncate(t) \/ Break(t)
      PROVE  Resting(t)
  BY <1>3, <1>7 DEF NameResponse, ReturnItem, Fail, Truncate, Break, End
<1>8. ASSUME NEW t \in Turns, Complete(t) PROVE HeldInv'
  <2>1. /\ held' = [held EXCEPT ![t] = [on    |-> IF via[t] = Http THEN None ELSE via[t],
                                        items |-> heard[t] \o returned[t]]]
        /\ verdict' = [verdict EXCEPT ![t] = "completed"] /\ heard' = heard
        /\ returned' = returned /\ via' = via
    BY <1>8 DEF Complete, End
  <2>2. lastResponse' = lastResponse /\ lastResponse # t /\ pc' = pc
        /\ \A s \in Turns \ {t} : pump'[s] = pump[s]
    BY <1>3, <1>8 DEF Complete, End
  <2>3. HeldWhole'
    BY <2>1 DEF HeldInv, HeldWhole
  <2>4. LastIsOver'
    BY <2>2 DEF HeldInv, LastIsOver
  <2> QED
    BY <2>3, <2>4 DEF HeldInv
<1>9. ASSUME NEW t \in Turns,
             RememberRequest(t) \/ ReportFailure(t) \/ RememberResponse(t) \/ Park(t)
      PROVE  Handling(t)
  BY <1>9 DEF RememberRequest, ReportFailure, RememberResponse, Park, Return, HeldInv,
              LastIsOver
<1>10. ASSUME NEW t \in Turns, Advance(t) \/ Confirm(t) PROVE Handling(t)
  BY <1>10 DEF Advance, Confirm, Return, HeldInv, LastIsOver
<1>11. ASSUME NEW t \in Turns, Disconnect(t) PROVE Resting(t) \/ Handling(t)
  <2>1. CASE pump[t] = "open"
    BY <1>3, <1>11, <2>1 DEF Disconnect, Return
  <2>2. CASE pump[t] # "open"
    BY <1>11, <2>2 DEF Disconnect, Return, HeldInv, LastIsOver
  <2> QED
    BY <2>1, <2>2
<1>12. ASSUME NEW t \in Turns, Resting(t) \/ Handling(t) PROVE HeldInv'
  <2> HIDE DEF Apart
  <2> QED
    BY <1>12, OthersHeld, HandlerHolds
<1> HIDE DEF Resting, Handling
<1> QED
  BY <1>1, <1>4, <1>5, <1>6, <1>7, <1>8, <1>9, <1>10, <1>11, <1>12
     DEF Next, Handle, Attempt, Finish, Stream

-----------------------------------------------------------------------------
(* Closing a turn keeps the session's memory equal to what the backend     *)
(* holds: the heart of the delta upload (session.rs `advance`,             *)
(* conduit.rs `plan_upload`).                                              *)

(* What the backend heard of a turn still to be closed is what was sent.   *)
HeardInput ==
  \A t \in Turns :
    /\ pc[t] \in {"remember", "stream", "advance"}
    /\ pump[t] = "open" \/ verdict[t] = "completed"
    => heard[t] = input[t]

(* The connection of the session's last response, while that is the last   *)
(* it saw, holds the session's baseline.                                   *)
BaselineKnown ==
  \A r \in Turns :
    /\ lastResponse = r /\ held[r].on \in Turns
    /\ conn[held[r].on].open /\ conn[held[r].on].saw = r
    /\ \A t \in Turns : pc[t] # "advance"
    => held[r].items = baseline

(* A turn about to advance the baseline is the last response, or left no   *)
(* connection that could be continued on.                                  *)
Closing ==
  \A t \in Turns : pc[t] = "advance" => IF named[t] THEN lastResponse = t ELSE NoneOpen

CloseInv == HeardInput /\ BaselineKnown /\ Closing

SerialParts == SerialInv /\ LatchInv /\ MemoryInv /\ HeldInv /\ CloseInv

(* Whatever goes up for a turn, the backend hears what the turn sends: a   *)
(* delta is appended to exactly the baseline it was measured against.      *)
LEMMA ConversationIsInput ==
  ASSUME TypeOK, OwnerInv, DeltaOnProducer, SerialInv, MemoryInv, HeldInv, CloseInv,
         NEW t \in Turns, pc[t] = "send", Known(t)
  PROVE  Conversation(t) = input[t]
<1>1. CASE continues[t] = None
  BY <1>1 DEF Conversation, Payload
<1>2. CASE continues[t] # None
  <2> DEFINE r == continues[t]  k == via[t]
  <2>1. r \in Turns /\ r = lastResponse /\ Extends(before[t], input[t])
    BY <1>2 DEF MemoryInv, Planned, Recalled, TypeOK, PlanTypeOK
  <2>2. \A s \in Turns : pc[s] \notin {"advance", "confirm"}
    BY OthersAtRest DEF Served
  <2>3. confirmed
    BY <2>1, <2>2, SentinelAssumption DEF MemoryInv, Unconfirmed
  <2>4. before[t] = baseline
    BY <2>3 DEF MemoryInv, Remembered
  <2>5. k \in Turns /\ conn[k].open /\ conn[k].saw = r
    <3>1. k \in Turns
      BY DEF TypeOK, TransportOK
    <3>2. Uses(t, k)
      BY DEF Uses
    <3> QED
      BY <1>2, <3>1, <3>2 DEF OwnerInv, OpenHasOneOwner, UsedIsOpen, DeltaOnProducer, Saw
  <2>6. held[r].on = k
    BY <1>2 DEF Known, Holds
  <2>7. held[r].items = before[t]
    BY <2>1, <2>2, <2>4, <2>5, <2>6 DEF CloseInv, BaselineKnown
  <2>8. before[t] \in Seq(Item) /\ input[t] \in Seq(Item)
    BY DEF TypeOK, PlanTypeOK
  <2>9. before[t] \o Delta(before[t], input[t]) = input[t]
    BY <2>1, <2>8, DeltaCompletes
  <2> QED
    BY <1>2, <2>7, <2>9 DEF Conversation, Payload
<1> QED
  BY <1>1, <1>2

(* A step that closes connections at most, and leaves what the session     *)
(* remembers, what the backend holds and what a closing turn was told.     *)
Quiet ==
  /\ lastResponse' = lastResponse /\ held' = held /\ baseline' = baseline
  /\ \A k \in Turns : conn'[k].open => conn'[k] = conn[k]
  /\ \A s \in Turns : pc[s] = "advance" <=> pc'[s] = "advance"
  /\ \A s \in Turns : pc'[s] = "advance" => named'[s] = named[s]

(* Such a step keeps the session's memory and the backend's in step.       *)
LEMMA QuietCloses ==
  ASSUME BaselineKnown, Closing, Quiet
  PROVE  BaselineKnown' /\ Closing'
<1>1. BaselineKnown'
  BY DEF Quiet, BaselineKnown
<1>2. Closing'
  BY DEF Quiet, Closing, NoneOpen
<1> QED
  BY <1>1, <1>2

(* Every step of a turn keeps what is heard what was sent.                 *)
LEMMA HeardInputStep ==
  ASSUME TypeOK, PathInv, OwnerInv, DeltaOnProducer, SerialParts, [Next]_vars
  PROVE  HeardInput'
<1> DEFINE Keeps(t) ==
             /\ Apart(t)
             /\ \/ pc'[t] \notin {"remember", "stream", "advance"}
                \/ ~(pump'[t] = "open" \/ verdict'[t] = "completed")
                \/ /\ pc[t] \in {"remember", "stream", "advance"}
                   /\ pump[t] = "open" \/ verdict[t] = "completed"
                   /\ heard'[t] = heard[t] /\ input'[t] = input[t]
                \/ heard'[t] = input[t] /\ input'[t] = input[t]
<1> USE DEF TypeOK, RequestTypeOK, PlanTypeOK, StreamTypeOK, BackendTypeOK, sessionVars,
            conduitVars, requestVars, planVars, streamVars, backendVars, Apart
<1>1. CASE UNCHANGED vars
  BY <1>1 DEF vars, SerialParts, CloseInv, HeardInput
<1>2. ASSUME NEW t \in Turns,
             \/ Request(t) \/ Snapshot(t) \/ CheckConfirmed(t) \/ Claim(t)
             \/ RefuseTooLarge(t) \/ ReadLastRequest(t) \/ ReadLastResponse(t) \/ Route(t)
      PROVE  Keeps(t)
  BY <1>2 DEF Request, Begin, Snapshot, CheckConfirmed, Claim, RefuseTooLarge,
              ReadLastRequest, ReadLastResponse, Route, Return
<1>3. ASSUME NEW t \in Turns,
             \/ Take(t) \/ Dial(t) \/ DialFails(t) \/ StaleConnection(t) \/ PolicyClose(t)
      PROVE  Keeps(t)
  BY <1>3 DEF Take, Dial, DialFails, StaleConnection, PolicyClose
<1>4. ASSUME NEW t \in Turns, Accept(t) \/ PostOverHttp(t) PROVE Keeps(t)
  <2>1. Accept(t) => Conversation(t) = input[t]
    BY ConversationIsInput DEF Accept, SerialParts
  <2>2. PostOverHttp(t) => Payload(t) = input[t]
    BY DEF PostOverHttp, Payload, TransportOK
  <2> QED
    BY <1>4, <2>1, <2>2 DEF Accept, PostOverHttp
<1>5. ASSUME NEW t \in Turns, Refuse(t) \/ FirstReadFails(t) \/ HttpFails(t) PROVE Keeps(t)
  BY <1>5 DEF Refuse, FirstReadFails, HttpFails, Return, PathInv, Unstreamed, Early
<1>6. ASSUME NEW t \in Turns, Stream(t) PROVE Keeps(t)
  BY <1>6 DEF Stream, NameResponse, ReturnItem, Finish, Complete, Fail, Truncate, Break, End,
              Park, SerialParts, SerialInv, Streaming
<1>7. ASSUME NEW t \in Turns,
             \/ RememberRequest(t) \/ ReportFailure(t) \/ RememberResponse(t)
             \/ Advance(t) \/ Confirm(t) \/ Disconnect(t)
      PROVE  Keeps(t)
  BY <1>7 DEF RememberRequest, ReportFailure, RememberResponse, Advance, Confirm, Disconnect,
              Return
<1>8. ASSUME NEW t \in Turns, Keeps(t) PROVE HeardInput'
  BY <1>8 DEF SerialParts, CloseInv, HeardInput
<1> HIDE DEF Keeps
<1> QED
  BY <1>1, <1>2, <1>3, <1>4, <1>5, <1>6, <1>7, <1>8 DEF Next, Handle, Attempt

(* While a turn is at another step, none is about to advance the baseline. *)
LEMMA NobodyCloses ==
  ASSUME SerialInv, NEW t \in Turns, ~Served(t), pc[t] # "advance"
  PROVE  \A s \in Turns : pc[s] # "advance"
  BY OthersAtRest

(* Every step of a turn keeps the session's memory and the backend's in    *)
(* step, when requests do not overlap.                                     *)
LEMMA ClosingStep ==
  ASSUME TypeOK, PathInv, OwnerInv, DeltaOnProducer, SerialParts, [Next]_vars
  PROVE  BaselineKnown' /\ Closing'
<1> USE DEF TypeOK, ConduitTypeOK, RequestTypeOK, StreamTypeOK, BackendTypeOK, sessionVars,
            conduitVars, requestVars, planVars, streamVars, backendVars
<1>1. CASE UNCHANGED vars
  BY <1>1 DEF vars, SerialParts, CloseInv, BaselineKnown, Closing, NoneOpen
<1>2. ASSUME NEW t \in Turns,
             \/ Request(t) \/ Snapshot(t) \/ CheckConfirmed(t)
             \/ RefuseTooLarge(t) \/ ReadLastRequest(t) \/ ReadLastResponse(t) \/ Route(t)
      PROVE  Quiet
  BY <1>2 DEF Request, Begin, Snapshot, CheckConfirmed, RefuseTooLarge,
              ReadLastRequest, ReadLastResponse, Route, Return, Quiet
<1>3. ASSUME NEW t \in Turns, Claim(t) PROVE BaselineKnown' /\ Closing'
  <2>1. ~confirmed /\ \A s \in Turns : pc[s] \notin {"advance", "confirm"}
    BY <1>3, OthersAtRest DEF Claim, Served, SerialParts, MemoryInv, Claims
  <2>2. lastResponse = None /\ lastResponse' = lastResponse
    BY <1>3, <2>1 DEF Claim, SerialParts, MemoryInv, Unconfirmed
  <2>3. \A s \in Turns : pc'[s] # "advance"
    BY <1>3, <2>1 DEF Claim
  <2> QED
    BY <2>2, <2>3, SentinelAssumption DEF BaselineKnown, Closing
<1>4. ASSUME NEW t \in Turns, NEW k,
             conn' = Close(k), lastResponse' = lastResponse, held' = held,
             baseline' = baseline,
             named' = named, \A s \in Turns : pc[s] = "advance" <=> pc'[s] = "advance"
      PROVE  Quiet
  <2>1. \A j \in Turns : Close(k)[j].open => Close(k)[j] = conn[j]
    BY CloseOpensNone
  <2> QED
    BY <1>4, <2>1 DEF Quiet
<1>5. ASSUME NEW t \in Turns, Take(t) \/ DialFails(t) PROVE Quiet
  <2>1. /\ lastResponse' = lastResponse /\ held' = held /\ baseline' = baseline
        /\ named' = named /\ \A s \in Turns : pc[s] = "advance" <=> pc'[s] = "advance"
    BY <1>5 DEF Take, DialFails
  <2>2. conn' = conn \/ conn' = Close(slot)
    BY <1>5 DEF Take, DialFails
  <2> QED
    BY <1>4, <2>1, <2>2 DEF Quiet
<1>6. ASSUME NEW t \in Turns,
             \/ StaleConnection(t) \/ PolicyClose(t) \/ FirstReadFails(t)
             \/ Truncate(t) \/ Break(t) \/ Park(t) \/ Disconnect(t)
      PROVE  Quiet
  <2>1. /\ lastResponse' = lastResponse /\ held' = held /\ baseline' = baseline
        /\ named' = named /\ \A s \in Turns : pc[s] = "advance" <=> pc'[s] = "advance"
    BY <1>6 DEF StaleConnection, PolicyClose, FirstReadFails, Truncate, Break, End, Park,
                Disconnect, Return
  <2>2. conn' = conn \/ conn' = Close(via[t]) \/ conn' = Close(t)
    BY <1>6 DEF StaleConnection, PolicyClose, FirstReadFails, Truncate, Break, Park, Disconnect
  <2> QED
    BY <1>4, <2>1, <2>2 DEF Quiet
<1>7. ASSUME NEW t \in Turns, Dial(t) PROVE BaselineKnown' /\ Closing'
  <2>1. /\ lastResponse' = lastResponse /\ held' = held /\ baseline' = baseline
        /\ \A k \in Turns \ {t} : conn'[k] = conn[k]
        /\ conn'[t].saw = None
    BY <1>7 DEF Dial
  <2>2. \A s \in Turns : pc[s] # "advance"
    BY <1>7, NobodyCloses DEF Dial, SerialParts, Served
  <2>3. \A s \in Turns : pc'[s] # "advance"
    BY <1>7, <2>2 DEF Dial
  <2>4. ASSUME NEW r \in Turns, lastResponse = r, held[r].on \in Turns,
               conn'[held[r].on].open, conn'[held[r].on].saw = r
        PROVE  held[r].items = baseline
    <3>1. held[r].on # t
      BY <2>1, <2>4, SentinelAssumption
    <3>2. conn'[held[r].on] = conn[held[r].on]
      BY <2>1, <2>4, <3>1
    <3> QED
      BY <2>2, <2>4, <3>2 DEF SerialParts, CloseInv, BaselineKnown
  <2> QED
    BY <2>1, <2>3, <2>4 DEF BaselineKnown, Closing
<1>8. ASSUME NEW t \in Turns, Accept(t) \/ Refuse(t) \/ PostOverHttp(t) \/ HttpFails(t)
      PROVE  Quiet
  BY <1>8 DEF Accept, Refuse, PostOverHttp, HttpFails, Return, Quiet
<1>9. ASSUME NEW t \in Turns, NameResponse(t) PROVE BaselineKnown' /\ Closing'
  <2>1. /\ lastResponse' = lastResponse /\ held' = held /\ baseline' = baseline /\ pc' = pc
        /\ lastResponse # t
        /\ \A k \in Turns : conn'[k] = conn[k] \/ conn'[k].saw = t
    BY <1>9 DEF NameResponse, SerialParts, HeldInv, LastIsOver
  <2>2. \A s \in Turns : pc[s] # "advance"
    BY <1>9, NobodyCloses DEF NameResponse, SerialParts, SerialInv, Streaming, Served
  <2>3. ASSUME NEW r \in Turns, lastResponse = r, held[r].on \in Turns,
               conn'[held[r].on].open, conn'[held[r].on].saw = r
        PROVE  held[r].items = baseline
    <3>1. conn'[held[r].on] = conn[held[r].on]
      BY <2>1, <2>3
    <3> QED
      BY <2>2, <2>3, <3>1 DEF SerialParts, CloseInv, BaselineKnown
  <2> QED
    BY <2>1, <2>2, <2>3 DEF BaselineKnown, Closing
<1>10. ASSUME NEW t \in Turns, Complete(t) PROVE BaselineKnown' /\ Closing'
  <2>1. /\ lastResponse' = lastResponse /\ conn' = conn /\ baseline' = baseline /\ pc' = pc
        /\ lastResponse # t
        /\ \A r \in Turns \ {t} : held'[r] = held[r]
    BY <1>10 DEF Complete, End, SerialParts, HeldInv, LastIsOver
  <2>2. \A s \in Turns : pc[s] # "advance"
    BY <1>10, NobodyCloses DEF Complete, SerialParts, SerialInv, Streaming, Served
  <2>3. ASSUME NEW r \in Turns, lastResponse = r, held'[r].on \in Turns,
               conn[held'[r].on].open, conn[held'[r].on].saw = r
        PROVE  held'[r].items = baseline
    <3>1. held'[r] = held[r]
      BY <2>1, <2>3
    <3> QED
      BY <2>2, <2>3, <3>1 DEF SerialParts, CloseInv, BaselineKnown
  <2> QED
    BY <2>1, <2>2, <2>3 DEF BaselineKnown, Closing
<1>11. ASSUME NEW t \in Turns,
              ReturnItem(t) \/ Fail(t) \/ RememberRequest(t) \/ ReportFailure(t) \/ Confirm(t)
       PROVE  Quiet
  BY <1>11 DEF ReturnItem, Fail, End, RememberRequest, ReportFailure, Confirm, Return, Quiet
<1>12. ASSUME NEW t \in Turns, RememberResponse(t) PROVE BaselineKnown' /\ Closing'
  <2>1. /\ pc' = [pc EXCEPT ![t] = "advance"] /\ conn' = conn /\ named' = named
        /\ lastResponse' = IF named[t] THEN t ELSE lastResponse
    BY <1>12 DEF RememberResponse
  <2>2. \A s \in Turns : pc[s] # "advance"
    BY <1>12, NobodyCloses DEF RememberResponse, SerialParts, Served
  <2>3. named[t] \/ NoneOpen
    BY <1>12 DEF RememberResponse, SerialParts, LatchInv, InHand, Nameless
  <2>4. BaselineKnown'
    BY <2>1 DEF BaselineKnown
  <2>5. Closing'
    BY <2>1, <2>2, <2>3 DEF Closing, NoneOpen
  <2> QED
    BY <2>4, <2>5
<1>13. ASSUME NEW t \in Turns, Advance(t) PROVE BaselineKnown' /\ Closing'
  <2>1. /\ pc[t] = "advance" /\ pc' = [pc EXCEPT ![t] = "confirm"]
        /\ baseline' = input[t] \o returned[t] /\ held' = held
        /\ conn' = conn /\ lastResponse' = lastResponse
    BY <1>13 DEF Advance
  <2>2. \A s \in Turns : pc'[s] # "advance"
    BY <2>1, OthersAtRest DEF SerialParts, Served
  <2>3. ASSUME NEW r \in Turns, lastResponse = r, held[r].on \in Turns,
               conn[held[r].on].open
        PROVE  held[r].items = input[t] \o returned[t]
    <3>1. r = t
      BY <2>1, <2>3 DEF SerialParts, CloseInv, Closing, NoneOpen
    <3>2. verdict[t] = "completed" /\ held[t].items = heard[t] \o returned[t]
      BY <2>3, <3>1, SentinelAssumption DEF SerialParts, HeldInv, HeldWhole
    <3>3. heard[t] = input[t]
      BY <2>1, <3>2 DEF SerialParts, CloseInv, HeardInput
    <3> QED
      BY <3>1, <3>2, <3>3
  <2>4. BaselineKnown'
    BY <2>1, <2>3 DEF BaselineKnown
  <2> QED
    BY <2>2, <2>4 DEF Closing
<1>14. ASSUME Quiet PROVE BaselineKnown' /\ Closing'
  BY <1>14, QuietCloses DEF SerialParts, CloseInv
<1> QED
  BY <1>1, <1>2, <1>3, <1>5, <1>6, <1>7, <1>8, <1>9, <1>10, <1>11, <1>12, <1>13, <1>14
     DEF Next, Handle, Attempt, Finish, Stream

-----------------------------------------------------------------------------
(* What the backend hears when requests of a session do not overlap.       *)

(* Every step of a turn keeps what the backend heard the client's own.     *)
LEMMA HeardStep ==
  ASSUME TypeOK, PathInv, OwnerInv, DeltaOnProducer, FaithInv, SerialParts, HeardAsAsked,
         [Next]_vars
  PROVE  HeardAsAsked'
<1> USE DEF TypeOK, RequestTypeOK, BackendTypeOK
<1>1. CASE heard' = heard /\ asked' = asked
  BY <1>1 DEF HeardAsAsked
<1>2. ASSUME NEW t \in Turns, Request(t) PROVE HeardAsAsked'
  <2>1. heard[t] = << >> /\ heard' = heard /\ \A s \in Turns \ {t} : asked'[s] = asked[s]
    BY <1>2 DEF Request, Begin, backendVars, FaithInv, Unheard, Early
  <2> QED
    BY <2>1 DEF HeardAsAsked
<1>3. ASSUME NEW t \in Turns, Accept(t) PROVE HeardAsAsked'
  <2>1. heard' = [heard EXCEPT ![t] = input[t]] /\ asked' = asked
    BY <1>3, ConversationIsInput DEF Accept, requestVars, SerialParts
  <2>2. ClientView(input[t]) = asked[t]
    BY <1>3 DEF Accept, FaithInv, InputIsAsked
  <2> QED
    BY <2>1, <2>2 DEF HeardAsAsked
<1>4. ASSUME NEW t \in Turns, PostOverHttp(t) PROVE HeardAsAsked'
  <2>1. heard' = [heard EXCEPT ![t] = input[t]] /\ asked' = asked
    BY <1>4 DEF PostOverHttp, Payload, requestVars, TransportOK
  <2>2. ClientView(input[t]) = asked[t]
    BY <1>4 DEF PostOverHttp, FaithInv, InputIsAsked
  <2> QED
    BY <2>1, <2>2 DEF HeardAsAsked
<1>5. ASSUME NEW t \in Turns, RefuseTooLarge(t) \/ Handle(t) PROVE HeardAsAsked'
  BY <1>1, <1>5
     DEF RefuseTooLarge, Handle, Snapshot, CheckConfirmed, Claim, ReadLastRequest,
         ReadLastResponse, Route, Take, RememberRequest, ReportFailure, RememberResponse,
         Advance, Confirm, requestVars, backendVars
<1>6. ASSUME NEW t \in Turns, Attempt(t) PROVE HeardAsAsked'
  BY <1>1, <1>3, <1>4, <1>6
     DEF Attempt, Dial, DialFails, StaleConnection, PolicyClose, Refuse, FirstReadFails,
         HttpFails, requestVars, backendVars
<1>7. ASSUME NEW t \in Turns, Stream(t) \/ Disconnect(t) PROVE HeardAsAsked'
  BY <1>1, <1>7
     DEF Stream, NameResponse, ReturnItem, Finish, Complete, Fail, Truncate, Break, End,
         Park, Disconnect, requestVars, backendVars
<1>8. CASE UNCHANGED vars
  BY <1>1, <1>8 DEF vars, requestVars, backendVars
<1> QED
  BY <1>2, <1>5, <1>6, <1>7, <1>8 DEF Next

(* A session starts with nothing remembered, held or open.                 *)
LEMMA SerialInit == Init => SerialParts /\ HeardAsAsked
<1> SUFFICES ASSUME Init PROVE SerialParts /\ HeardAsAsked
  OBVIOUS
<1> USE SentinelAssumption DEF Init, Unopened, NoHeld
<1>1. SerialInv
  BY DEF SerialInv, OneAtATime, Served, Streaming
<1>2. LatchInv
  BY DEF LatchInv, Latched, InHand, Endings, NoneOpen, Nameless
<1>3. MemoryInv
  BY DEF MemoryInv, Unconfirmed, Claims, Remembered, Recalled, Planned
<1>4. HeldInv
  BY DEF HeldInv, HeldWhole, LastIsOver
<1>5. CloseInv
  BY DEF CloseInv, HeardInput, BaselineKnown, Closing
<1>6. HeardAsAsked
  BY DEF HeardAsAsked
<1> QED
  BY <1>1, <1>2, <1>3, <1>4, <1>5, <1>6 DEF SerialParts

(* The inductive invariant of a session whose requests do not overlap.     *)
TurnsInv == ConnectionInv /\ FaithInv /\ SerialParts /\ HeardAsAsked

(* It holds in every state of every run.                                   *)
LEMMA TurnsInvariant ==
  ASSUME Overlap = FALSE
  PROVE  Spec => []TurnsInv
<1>1. Init => TurnsInv
  BY TypeInit, ConnectionInit, FaithInit, SerialInit DEF TurnsInv, ConnectionInv
<1>2. TurnsInv /\ [Next]_vars => TurnsInv'
  <2> SUFFICES ASSUME TurnsInv, [Next]_vars PROVE TurnsInv'
    OBVIOUS
  <2>1. ConnectionInv'
    BY TypeStep, PathStep, OwnerStep, CarriageStep DEF ConnectionInv, TurnsInv
  <2>2. FaithInv'
    BY FaithStep DEF ConnectionInv, TurnsInv
  <2>3. SerialInv' /\ MemoryInv'
    BY SerialStep, MemoryStep DEF ConnectionInv, SerialParts, TurnsInv
  <2>4. LatchInv'
    BY LatchStep DEF ConnectionInv, SerialParts, TurnsInv
  <2>5. HeldInv'
    BY HeldStep DEF ConnectionInv, SerialParts, SerialInv, TurnsInv
  <2>6. CloseInv' /\ HeardAsAsked'
    BY HeardInputStep, ClosingStep, HeardStep DEF ConnectionInv, TurnsInv, CloseInv
  <2> QED
    BY <2>1, <2>2, <2>3, <2>4, <2>5, <2>6 DEF SerialParts, TurnsInv
<1> QED
  BY <1>1, <1>2, PTL DEF Spec

(* Full upload or delta, the backend answers the conversation the client   *)
(* sent, nothing dropped, repeated or taken from elsewhere (§4.3,          *)
(* conduit.rs `plan_upload`, session.rs `advance`).                        *)
THEOREM BackendHearsTheClient ==
  ASSUME Overlap = FALSE
  PROVE  Spec => []HeardAsAsked
<1>1. TurnsInv => HeardAsAsked
  BY DEF TurnsInv
<1> QED
  BY <1>1, TurnsInvariant, PTL

(* Between turns the parked connection that saw the session's last         *)
(* response holds exactly the session's baseline.                          *)
THEOREM BaselineHeldBetweenTurns ==
  ASSUME Overlap = FALSE
  PROVE  Spec => []BaselineIsHeld
<1>1. TurnsInv => BaselineIsHeld
  <2> SUFFICES ASSUME TurnsInv, \A t \in Turns : Served(t), lastResponse # None,
                      Saw(slot, lastResponse), Holds(slot, lastResponse)
               PROVE  held[lastResponse].items = baseline
    BY DEF BaselineIsHeld
  <2>1. slot \in Turns /\ lastResponse \in Turns
    BY DEF Holds, TurnsInv, ConnectionInv, TypeOK, SessionTypeOK, ConduitTypeOK
  <2>2. conn[slot].open
    BY <2>1 DEF TurnsInv, ConnectionInv, OwnerInv, OpenHasOneOwner, ParkedIsFree
  <2>3. \A t \in Turns : pc[t] # "advance"
    BY DEF Served
  <2> QED
    BY <2>1, <2>2, <2>3 DEF Holds, Saw, TurnsInv, SerialParts, CloseInv, BaselineKnown
<1> QED
  BY <1>1, TurnsInvariant, PTL

(* A confirmed baseline moves only when a turn closes (session.rs          *)
(* `seed_if_unconfirmed`).                                                 *)
THEOREM ClaimsOnlyUnconfirmed ==
  ASSUME Overlap = FALSE
  PROVE  Spec => ConfirmedMovesOnlyOnClose
<1> DEFINE Moves == confirmed /\ baseline' # baseline =>
                      \E t \in Turns : pc[t] = "advance" /\ pc'[t] = "confirm"
<1>1. TurnsInv /\ [Next]_vars => [Moves]_vars
  <2> SUFFICES ASSUME TurnsInv, confirmed, baseline' # baseline, Next
               PROVE  \E t \in Turns : pc[t] = "advance" /\ pc'[t] = "confirm"
    BY DEF vars, sessionVars
  <2>1. PICK t \in Turns : Claim(t) \/ Advance(t)
    <3>1. ASSUME NEW t \in Turns, Request(t) \/ RefuseTooLarge(t) \/ Disconnect(t)
          PROVE  FALSE
      BY <3>1 DEF Request, Begin, RefuseTooLarge, Disconnect, sessionVars
    <3>2. ASSUME NEW t \in Turns, Attempt(t)
          PROVE  FALSE
      BY <3>2 DEF Attempt, Dial, DialFails, StaleConnection, PolicyClose, Accept, Refuse,
                  FirstReadFails, PostOverHttp, HttpFails, sessionVars
    <3>3. ASSUME NEW t \in Turns, Stream(t)
          PROVE  FALSE
      BY <3>3 DEF Stream, NameResponse, ReturnItem, Finish, Complete, Fail, Truncate,
                  Break, End, Park, sessionVars
    <3>4. ASSUME NEW t \in Turns, Handle(t)
          PROVE  Claim(t) \/ Advance(t)
      BY <3>4 DEF Handle, Snapshot, CheckConfirmed, ReadLastRequest, ReadLastResponse,
                  Route, Take, RememberRequest, ReportFailure, RememberResponse, Confirm,
                  sessionVars
    <3> QED
      BY <3>1, <3>2, <3>3, <3>4 DEF Next
  <2>2. ~Claim(t)
    BY DEF Claim, TurnsInv, SerialParts, MemoryInv, Claims
  <2>3. RequestTypeOK
    BY DEF TurnsInv, ConnectionInv, TypeOK
  <2> QED
    BY <2>1, <2>2, <2>3 DEF Advance, RequestTypeOK
<1> QED
  BY <1>1, TurnsInvariant, PTL DEF Spec, ConfirmedMovesOnlyOnClose

-----------------------------------------------------------------------------
(* The session implements the service it is an optimisation of.            *)

(* The initial states are the service's.                                   *)
LEMMA ServiceInit == Init => Service!Init
  BY DEF Init, Service!Init, Phase

(* A step that leaves what was asked and heard, and keeps every handler    *)
(* under way, asleep or over, is none of the service's.                    *)
LEMMA ServiceStutters ==
  ASSUME asked' = asked, heard' = heard,
         \A t \in Turns : /\ pc[t] = "idle" <=> pc'[t] = "idle"
                          /\ pc[t] = "done" <=> pc'[t] = "done"
  PROVE  UNCHANGED <<[t \in Turns |-> Phase(t)], asked, heard>>
  BY DEF Phase

(* A handler that returns ends the request.                                *)
LEMMA ServiceEnds ==
  ASSUME RequestTypeOK, NEW t \in Turns, asked' = asked, heard' = heard,
         pc[t] \notin {"idle", "done"}, pc' = [pc EXCEPT ![t] = "done"]
  PROVE  Service!End(t)
  BY DEF Service!End, Service!Moves, Phase, RequestTypeOK

(* The service sees a conversation as the session does.                    *)
LEMMA SameView == ASSUME NEW items PROVE Service!ClientView(items) = ClientView(items)
  BY DEF Service!ClientView, ClientView, Service!IsServerOnly, IsServerOnly

(* A conversation the backend takes up is heard, if it says anything.      *)
LEMMA ServiceHears ==
  ASSUME TypeOK, PathInv, FaithInv, NEW t \in Turns, pc[t] \in {"send", "http"},
         pc' = [pc EXCEPT ![t] = "remember"],
         heard' = [heard EXCEPT ![t] = input[t]], asked' = asked
  PROVE  \/ Service!Hear(t)
         \/ UNCHANGED <<[s \in Turns |-> Phase(s)], asked, heard>>
<1> USE DEF TypeOK, RequestTypeOK, BackendTypeOK
<1>1. heard[t] = << >> /\ ClientView(input[t]) = asked[t]
  BY DEF FaithInv, Unheard, InputIsAsked, Early
<1>2. CASE input[t] = << >>
  <2>1. heard' = heard
    BY <1>1, <1>2
  <2> QED
    BY <2>1, ServiceStutters
<1>3. CASE input[t] # << >>
  <2>1. heard'[t] = input[t] /\ \A s \in Turns \ {t} : heard'[s] = heard[s]
    OBVIOUS
  <2>2. [s \in Turns |-> Phase(s)]' = [[s \in Turns |-> Phase(s)] EXCEPT ![t] = "heard"]
    BY <1>3, <2>1 DEF Phase
  <2>3. [s \in Turns |-> Phase(s)][t] = "asked"
    BY <1>1 DEF Phase
  <2>4. asked' = asked /\ Service!ClientView(heard'[t]) = asked[t]
    BY <1>1, <2>1, SameView
  <2> HIDE DEF TypeOK, RequestTypeOK, BackendTypeOK
  <2> QED
    BY <2>1, <2>2, <2>3, <2>4 DEF Service!Hear, Service!Moves, Service!OthersKeep
<1> QED
  BY <1>2, <1>3

(* Every step of the session is one of the service's, or none.             *)
LEMMA ServiceStep ==
  ASSUME TurnsInv, [Next]_vars
  PROVE  [Service!Next]_<<[t \in Turns |-> Phase(t)], asked, heard>>
<1> DEFINE Asleep == UNCHANGED <<[t \in Turns |-> Phase(t)], asked, heard>>
           Steps  == Service!Next \/ Asleep
<1> USE DEF TurnsInv, ConnectionInv, TypeOK, RequestTypeOK, BackendTypeOK
<1>1. ASSUME NEW t \in Turns, Request(t) PROVE Steps
  <2>1. /\ pc[t] = "idle" /\ pc' = [pc EXCEPT ![t] = "snapshot"] /\ heard' = heard
        /\ heard[t] = << >> /\ \A s \in Turns \ {t} : asked'[s] = asked[s]
    BY <1>1 DEF Request, Begin, backendVars, FaithInv, Unheard, Early
  <2>2. [s \in Turns |-> Phase(s)]' = [[s \in Turns |-> Phase(s)] EXCEPT ![t] = "asked"]
    BY <2>1 DEF Phase
  <2> QED
    BY <2>1, <2>2 DEF Service!Next, Service!Ask, Service!Moves, Service!OthersKeep, Phase
<1>2. ASSUME NEW t \in Turns, Accept(t) PROVE Steps
  <2>1. /\ pc[t] = "send" /\ pc' = [pc EXCEPT ![t] = "remember"] /\ asked' = asked
        /\ heard' = [heard EXCEPT ![t] = input[t]]
    BY <1>2, ConversationIsInput DEF Accept, requestVars, SerialParts
  <2> QED
    BY <2>1, ServiceHears DEF Service!Next
<1>3. ASSUME NEW t \in Turns, PostOverHttp(t) PROVE Steps
  <2>1. /\ pc[t] = "http" /\ pc' = [pc EXCEPT ![t] = "remember"] /\ asked' = asked
        /\ heard' = [heard EXCEPT ![t] = input[t]]
    BY <1>3 DEF PostOverHttp, Payload, requestVars, TransportOK
  <2> QED
    BY <2>1, ServiceHears DEF Service!Next
<1>4. ASSUME NEW t \in Turns,
             \/ RefuseTooLarge(t) \/ HttpFails(t) \/ ReportFailure(t) \/ Confirm(t)
             \/ Disconnect(t)
      PROVE  Steps
  <2>1. /\ pc[t] \notin {"idle", "done"} /\ pc' = [pc EXCEPT ![t] = "done"]
        /\ asked' = asked /\ heard' = heard
    BY <1>4 DEF RefuseTooLarge, HttpFails, ReportFailure, Confirm, Disconnect, Return,
                requestVars, backendVars
  <2> QED
    BY <2>1, ServiceEnds DEF Service!Next
<1>5. ASSUME NEW t \in Turns,
             \/ Snapshot(t) \/ CheckConfirmed(t) \/ Claim(t)
             \/ ReadLastRequest(t) \/ ReadLastResponse(t) \/ Route(t) \/ Take(t)
             \/ RememberRequest(t) \/ RememberResponse(t) \/ Advance(t)
             \/ Dial(t) \/ DialFails(t) \/ StaleConnection(t) \/ PolicyClose(t)
             \/ Refuse(t) \/ FirstReadFails(t)
      PROVE  Steps
  <2>1. /\ asked' = asked /\ heard' = heard /\ pc[t] \notin {"idle", "done"}
        /\ pc'[t] \notin {"idle", "done"} /\ \A s \in Turns \ {t} : pc'[s] = pc[s]
    BY <1>5 DEF Snapshot, CheckConfirmed, Claim, ReadLastRequest, ReadLastResponse, Route,
                Take, RememberRequest, RememberResponse, Advance, Dial, DialFails,
                StaleConnection, PolicyClose, Refuse, FirstReadFails,
                requestVars, backendVars
  <2>2. \A s \in Turns : /\ pc[s] = "idle" <=> pc'[s] = "idle"
                         /\ pc[s] = "done" <=> pc'[s] = "done"
    BY <2>1
  <2> QED
    BY <2>1, <2>2, ServiceStutters
<1>6. ASSUME NEW t \in Turns, Stream(t) PROVE Steps
  <2>1. asked' = asked /\ heard' = heard /\ pc' = pc
    BY <1>6 DEF Stream, NameResponse, ReturnItem, Finish, Complete, Fail, Truncate, Break,
                End, Park, requestVars, backendVars
  <2> QED
    BY <2>1, ServiceStutters
<1>7. CASE UNCHANGED vars
  <2>1. asked' = asked /\ heard' = heard /\ pc' = pc
    BY <1>7 DEF vars, requestVars, backendVars
  <2> QED
    BY <2>1, ServiceStutters
<1> QED
  BY <1>1, <1>2, <1>3, <1>4, <1>5, <1>6, <1>7 DEF Next, Handle, Attempt

(* With requests that do not overlap, every behaviour of the session is    *)
(* one of ConversationService.                                             *)
THEOREM SessionImplementsService ==
  ASSUME Overlap = FALSE
  PROVE  Spec => ImplementsService
<1>1. Init => Service!Init
  BY ServiceInit
<1>2. TurnsInv /\ [Next]_vars
        => [Service!Next]_<<[t \in Turns |-> Phase(t)], asked, heard>>
  BY ServiceStep
<1> QED
  BY <1>1, <1>2, TurnsInvariant, PTL DEF Spec, ImplementsService, Service!Spec
=============================================================================
