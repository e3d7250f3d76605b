---------------------------- MODULE SessionTurns ----------------------------
(***************************************************************************)
(* The turns of ONE proxy session: the ingress handler (ingress.rs), the   *)
(* session's memory (proxy/src/session.rs), its conduit and pooled         *)
(* connection (upstream/conduit.rs, pool.rs, websocket.rs), and the        *)
(* backend as far as those files rely on it.                               *)
(*                                                                         *)
(* Every step is what one task does under one lock or between two awaits.  *)
(* The daemon runs on a multi-threaded runtime, so steps of different      *)
(* turns interleave freely, and the pump task that drains a connection     *)
(* (`pump`) runs beside the handler of the turn it serves (`pc`).          *)
(*                                                                         *)
(* Names.  A turn dials at most one connection and receives at most one    *)
(* response, so both are named after the turn: connection t is the one     *)
(* turn t dialed, response t is the one turn t received.                   *)
(***************************************************************************)
EXTENDS Items

CONSTANTS
  Turns,     \* the requests this session will serve; bounds the model
  Users,     \* contents of the items a client writes itself
  Fields,    \* values of "every request field except input"
  Accounts,  \* accounts a turn can be made as, the unpinned one included
  None,      \* the absence of a connection, a response or a request
  Http,      \* the stateless transport
  Overlap    \* may a request arrive while another is still being served?

ASSUME SentinelAssumption == None \notin Turns \cup Fields /\ Http \notin Turns /\ Http # None
ASSUME OverlapAssumption  == Overlap \in BOOLEAN

Item == [kind : {"user"}, of : Users]
          \cup [kind : {"reasoning", "answer"}, of : Turns]

User(u)      == [kind |-> "user",      of |-> u]
Reasoning(t) == [kind |-> "reasoning", of |-> t]
Answer(t)    == [kind |-> "answer",    of |-> t]

VARIABLES
  \* Session (proxy/src/session.rs); each field has a lock of its own.
  baseline,      \* what the backend has been told, as far as the session knows
  confirmed,     \* whether a turn has ever completed
  lastFields,    \* last_request, of which only the non-input fields are compared
  lastResponse,  \* last_response_id
  \* Conduit and pool.
  slot,          \* the parked connection
  latched,       \* latched_to_http
  conn,          \* connection t: is it open, whose credential opened it, what it saw
  \* One turn's handler and its local variables.
  pc, asked, fields, account, before, input, prevFields, prevResponse,
  via,           \* the connection or transport carrying the turn
  continues,     \* previous_response_id of a delta upload; None for a full one
  \* The turn's event stream: the pump task and what it has forwarded.
  pump, named, returned, verdict,
  \* The backend.
  heard,         \* the conversation the backend answered for turn t
  held           \* response t, if it completed: on which connection, and the
                 \* whole conversation up to and including it

sessionVars == <<baseline, confirmed, lastFields, lastResponse>>
requestVars == <<asked, fields, account>>
planVars    == <<before, input, prevFields, prevResponse>>
streamVars  == <<pump, named, returned, verdict>>
backendVars == <<heard, held>>
conduitVars == <<slot, latched, conn>>
vars == <<sessionVars, conduitVars, pc, requestVars, planVars, via, continues,
          streamVars, backendVars>>

Conn    == [open : BOOLEAN, account : Accounts \cup {None}, saw : Turns \cup {None}]
NoHeld  == [on |-> None, items |-> << >>]
Unopened == [open |-> FALSE, account |-> None, saw |-> None]

-----------------------------------------------------------------------------
(* The client.  It replays the whole conversation every turn: a first      *)
(* message, an answered conversation plus a new message, a retry, or --    *)
(* after a turn that did not answer -- the question plus another message.  *)

Answered(t) == verdict[t] = "completed" /\ pc[t] \notin {"idle", "remember"}

(* Reasoning is never delivered: of a response the client has the answer.  *)
Told(t) == Append(asked[t], Answer(t))

Asks ==
  {<<User(u)>> : u \in Users}
    \cup {Append(Told(t), User(u)) : t \in {s \in Turns : Answered(s)}, u \in Users}
    \cup {asked[t] : t \in {s \in Turns : pc[s] # "idle"}}
    \cup {Append(asked[t], User(u)) :
             t \in {s \in Turns : pc[s] = "done" /\ ~Answered(s)}, u \in Users}

(* The client discipline of the model.  Without Overlap a request comes    *)
(* once the previous one is entirely served: answered, refused or dropped, *)
(* its connection parked or closed.                                        *)
Served(t)   == pc[t] \in {"idle", "done"} /\ pump[t] # "ended"
MayBegin(t) == Overlap \/ \A s \in Turns \ {t} : Served(s)

-----------------------------------------------------------------------------
(* Handler, up to the send: no await, so only other threads interleave.    *)

(* A pinned tier names the account; `resolve` hands the request this       *)
(* session because its baseline reconciles with what the client replays.   *)
Begin(t, ask, f, a) ==
  /\ pc[t] = "idle"
  /\ MayBegin(t)
  /\ Reconciles(baseline, ask)
  /\ asked'   = [asked EXCEPT ![t] = ask]
  /\ fields'  = [fields EXCEPT ![t] = f]
  /\ account' = [account EXCEPT ![t] = a]
  /\ pc'      = [pc EXCEPT ![t] = "snapshot"]
  /\ UNCHANGED <<sessionVars, conduitVars, planVars, via, continues, streamVars, backendVars>>

(* baseline_before_turn, and the replay with server-only items put back.   *)
Snapshot(t) ==
  /\ pc[t] = "snapshot"
  /\ before' = [before EXCEPT ![t] = baseline]
  /\ input'  = [input EXCEPT ![t] = ReconciledOrAsSent(baseline, asked[t])]
  /\ pc'     = [pc EXCEPT ![t] = "check"]
  /\ UNCHANGED <<sessionVars, conduitVars, requestVars, prevFields, prevResponse,
                 via, continues, streamVars, backendVars>>

(* As CheckConfirmed, were every turn to claim its conversation.           *)
ClaimAlways(t) ==
  /\ pc[t] = "check"
  /\ pc' = [pc EXCEPT ![t] = "claim"]
  /\ UNCHANGED <<sessionVars, conduitVars, requestVars, planVars, via, continues,
                 streamVars, backendVars>>

(* seed_if_unconfirmed reads `confirmed` first, then takes the lock.       *)
CheckConfirmed(t) ==
  /\ pc[t] = "check"
  /\ pc' = [pc EXCEPT ![t] = IF confirmed THEN "previous" ELSE "claim"]
  /\ UNCHANGED <<sessionVars, conduitVars, requestVars, planVars, via, continues,
                 streamVars, backendVars>>

Claim(t) ==
  /\ pc[t] = "claim"
  /\ baseline' = input[t]
  /\ pc' = [pc EXCEPT ![t] = "previous"]
  /\ UNCHANGED <<confirmed, lastFields, lastResponse, conduitVars, requestVars,
                 planVars, via, continues, streamVars, backendVars>>

(* The handler returns and its locals go with it.                          *)
Return(t) ==
  /\ pc'           = [pc EXCEPT ![t] = "done"]
  /\ before'       = [before EXCEPT ![t] = << >>]
  /\ input'        = [input EXCEPT ![t] = << >>]
  /\ prevFields'   = [prevFields EXCEPT ![t] = None]
  /\ prevResponse' = [prevResponse EXCEPT ![t] = None]

(* The window guard: refused before it is sent, the claim left in place.   *)
RefuseTooLarge(t) ==
  /\ pc[t] = "previous"
  /\ Return(t)
  /\ UNCHANGED <<sessionVars, conduitVars, requestVars, via, continues,
                 streamVars, backendVars>>

(* Session::previous reads two fields under two locks.                     *)
ReadLastRequest(t) ==
  /\ pc[t] = "previous"
  /\ prevFields' = [prevFields EXCEPT ![t] = lastFields]
  /\ pc' = [pc EXCEPT ![t] = "previousId"]
  /\ UNCHANGED <<sessionVars, conduitVars, requestVars, before, input, prevResponse,
                 via, continues, streamVars, backendVars>>

ReadLastResponse(t) ==
  /\ pc[t] = "previousId"
  /\ prevResponse' = [prevResponse EXCEPT ![t] = lastResponse]
  /\ pc' = [pc EXCEPT ![t] = "route"]
  /\ UNCHANGED <<sessionVars, conduitVars, requestVars, before, input, prevFields,
                 via, continues, streamVars, backendVars>>

-----------------------------------------------------------------------------
(* Conduit::send.                                                          *)

Route(t) ==
  /\ pc[t] = "route"
  /\ pc' = [pc EXCEPT ![t] = IF latched THEN "http" ELSE "take"]
  /\ UNCHANGED <<sessionVars, conduitVars, requestVars, planVars, via, continues,
                 streamVars, backendVars>>

(* As Reusable, were any parked connection good enough.                    *)
ReusableByAnyone(t) == slot

(* The pooled connection, unless another account's credential opened it.   *)
Reusable(t) ==
  IF slot # None /\ conn[slot].account = account[t] THEN slot ELSE None

Saw(k, response) == k # None /\ conn[k].saw = response

(* As MayContinue, were any connection good enough to continue on.         *)
MayContinueAnywhere(t, k) ==
  /\ prevResponse[t] # None
  /\ k # None
  /\ prevFields[t] = fields[t]
  /\ PlansDelta(before[t], input[t])

(* plan_upload, after the check that the connection produced the response. *)
MayContinue(t, k) ==
  /\ prevResponse[t] # None
  /\ Saw(k, prevResponse[t])
  /\ prevFields[t] = fields[t]
  /\ PlansDelta(before[t], input[t])

(* A closed connection is gone, with whatever it knew.                     *)
Close(k) == IF k \in Turns THEN [conn EXCEPT ![k] = Unopened] ELSE conn

(* Take the parked connection, dropping one opened as another account, and *)
(* plan the upload for what is left.                                       *)
Take(t) ==
  /\ pc[t] = "take"
  /\ LET k == Reusable(t) IN
       /\ via'       = [via EXCEPT ![t] = k]
       /\ continues' = [continues EXCEPT ![t] =
                          IF MayContinue(t, k) THEN prevResponse[t] ELSE None]
       /\ pc'        = [pc EXCEPT ![t] = IF k = None THEN "dial" ELSE "send"]
       /\ conn'      = IF k = None THEN Close(slot) ELSE conn
  /\ slot' = None
  /\ UNCHANGED <<sessionVars, latched, requestVars, planVars, streamVars, backendVars>>

(* A fresh connection authenticates once, as this turn's account.          *)
Dial(t) ==
  /\ pc[t] = "dial"
  /\ conn' = [conn EXCEPT ![t] = [open |-> TRUE, account |-> account[t], saw |-> None]]
  /\ via'  = [via EXCEPT ![t] = t]
  /\ pc'   = [pc EXCEPT ![t] = "send"]
  /\ UNCHANGED <<sessionVars, slot, latched, requestVars, planVars, continues,
                 streamVars, backendVars>>

(* No handshake: this session gives the WebSocket up for good.             *)
DialFails(t) ==
  /\ pc[t] = "dial"
  /\ latched' = TRUE
  /\ pc' = [pc EXCEPT ![t] = "http"]
  /\ UNCHANGED <<sessionVars, slot, conn, requestVars, planVars, via, continues,
                 streamVars, backendVars>>

(* As StaleConnection, were the retry to replay the same upload.           *)
RetryReplaysUpload(t) ==
  /\ pc[t] = "send"
  /\ via[t] # t
  /\ conn' = Close(via[t])
  /\ via'  = [via EXCEPT ![t] = None]
  /\ pc'   = [pc EXCEPT ![t] = "dial"]
  /\ UNCHANGED <<sessionVars, slot, latched, requestVars, planVars, continues,
                 streamVars, backendVars>>

(* A reused connection that fails before its first event had gone stale:   *)
(* retried once, on a fresh connection, in full.                           *)
StaleConnection(t) ==
  /\ pc[t] = "send"
  /\ via[t] # t
  /\ conn'      = Close(via[t])
  /\ via'       = [via EXCEPT ![t] = None]
  /\ continues' = [continues EXCEPT ![t] = None]
  /\ pc'        = [pc EXCEPT ![t] = "dial"]
  /\ UNCHANGED <<sessionVars, slot, latched, requestVars, planVars, streamVars, backendVars>>

(* A fresh one that closes before saying anything is a policy close.       *)
PolicyClose(t) ==
  /\ pc[t] = "send"
  /\ via[t] = t
  /\ conn'    = Close(t)
  /\ via'     = [via EXCEPT ![t] = None]
  /\ latched' = TRUE
  /\ pc'      = [pc EXCEPT ![t] = "http"]
  /\ UNCHANGED <<sessionVars, slot, requestVars, planVars, continues, streamVars, backendVars>>

-----------------------------------------------------------------------------
(* The first event of a WebSocket turn decides what is handed back.        *)

(* What goes up: the new items, or everything.                             *)
Payload(t) == IF continues[t] = None THEN input[t] ELSE Delta(before[t], input[t])

(* The backend holds a response on the connection that produced it, once   *)
(* it completed.                                                           *)
Holds(k, response) == k # None /\ held[response].on = k

Known(t) == continues[t] # None => Holds(via[t], continues[t])

(* The backend takes the upload up where the response left off.            *)
Conversation(t) ==
  IF continues[t] = None THEN Payload(t) ELSE held[continues[t]].items \o Payload(t)

Accept(t) ==
  /\ pc[t] = "send"
  /\ Known(t)
  /\ heard' = [heard EXCEPT ![t] = Conversation(t)]
  /\ pump'  = [pump EXCEPT ![t] = "open"]
  /\ pc'    = [pc EXCEPT ![t] = "remember"]
  /\ UNCHANGED <<sessionVars, conduitVars, requestVars, planVars, via, continues,
                 named, returned, verdict, held>>

(* An `error` event before any response: the quota, the request, or a      *)
(* previous response this connection does not hold.  It ends the turn.     *)
Refuse(t) ==
  /\ pc[t] \in {"send", "http"}
  /\ via'     = [via EXCEPT ![t] = IF pc[t] = "http" THEN Http ELSE via[t]]
  /\ pump'    = [pump EXCEPT ![t] = "ended"]
  /\ verdict' = [verdict EXCEPT ![t] = "refused"]
  /\ pc'      = [pc EXCEPT ![t] = "remember"]
  /\ UNCHANGED <<sessionVars, conduitVars, requestVars, planVars, continues,
                 named, returned, backendVars>>

(* A fresh connection whose first read fails hands the failure on.         *)
FirstReadFails(t) ==
  /\ pc[t] = "send"
  /\ via[t] = t
  /\ conn'    = Close(t)
  /\ pump'    = [pump EXCEPT ![t] = "broken"]
  /\ verdict' = [verdict EXCEPT ![t] = "broken"]
  /\ pc'      = [pc EXCEPT ![t] = "remember"]
  /\ UNCHANGED <<sessionVars, slot, latched, requestVars, planVars, via, continues,
                 named, returned, backendVars>>

(* HTTP always carries the whole conversation.                             *)
PostOverHttp(t) ==
  /\ pc[t] = "http"
  /\ via'   = [via EXCEPT ![t] = Http]
  /\ heard' = [heard EXCEPT ![t] = Payload(t)]
  /\ pump'  = [pump EXCEPT ![t] = "open"]
  /\ pc'    = [pc EXCEPT ![t] = "remember"]
  /\ UNCHANGED <<sessionVars, conduitVars, requestVars, planVars, continues,
                 named, returned, verdict, held>>

HttpFails(t) ==
  /\ pc[t] = "http"
  /\ Return(t)
  /\ UNCHANGED <<sessionVars, conduitVars, requestVars, via, continues,
                 streamVars, backendVars>>

(* remember_request, once something was sent and before it is answered.    *)
RememberRequest(t) ==
  /\ pc[t] = "remember"
  /\ lastFields' = fields[t]
  /\ pc' = [pc EXCEPT ![t] = "stream"]
  /\ UNCHANGED <<baseline, confirmed, lastResponse, conduitVars, requestVars, planVars,
                 via, continues, streamVars, backendVars>>

-----------------------------------------------------------------------------
(* The pump: one turn's events out of its connection.                      *)

(* The first event that names the response marks the connection with it.   *)
NameResponse(t) ==
  /\ pump[t] = "open"
  /\ ~named[t]
  /\ named' = [named EXCEPT ![t] = TRUE]
  /\ conn'  = IF via[t] = Http THEN conn ELSE [conn EXCEPT ![via[t]].saw = t]
  /\ UNCHANGED <<sessionVars, slot, latched, pc, requestVars, planVars, via, continues,
                 pump, returned, verdict, backendVars>>

(* response.output_item.done: reasoning if any, then the answer.           *)
ReturnItem(t) ==
  /\ pump[t] = "open"
  /\ named[t]
  /\ \/ returned[t] = << >> /\ returned' = [returned EXCEPT ![t] = <<Reasoning(t)>>]
     \/ /\ \A i \in 1..Len(returned[t]) : returned[t][i] # Answer(t)
        /\ returned' = [returned EXCEPT ![t] = Append(returned[t], Answer(t))]
  /\ UNCHANGED <<sessionVars, conduitVars, pc, requestVars, planVars, via, continues,
                 pump, named, verdict, backendVars>>

End(t, state, outcome) ==
  /\ pump'    = [pump EXCEPT ![t] = state]
  /\ verdict' = [verdict EXCEPT ![t] = outcome]
  /\ UNCHANGED <<sessionVars, slot, latched, pc, requestVars, planVars, via, continues,
                 named, returned, heard>>

(* response.completed, or response.incomplete after an answer.  From here  *)
(* the backend holds the response on this connection.                      *)
Complete(t) ==
  /\ pump[t] = "open"
  /\ \E i \in 1..Len(returned[t]) : returned[t][i] = Answer(t)
  /\ held' = [held EXCEPT ![t] = [on    |-> IF via[t] = Http THEN None ELSE via[t],
                                  items |-> heard[t] \o returned[t]]]
  /\ End(t, "ended", "completed")
  /\ UNCHANGED conn

(* response.failed, or an `error` once the response had begun.             *)
Fail(t) ==
  /\ pump[t] = "open"
  /\ named[t]
  /\ End(t, "ended", "failed")
  /\ UNCHANGED <<conn, held>>

(* The peer closes: the stream ends without a terminal event.              *)
Truncate(t) ==
  /\ pump[t] = "open"
  /\ conn' = Close(via[t])
  /\ End(t, "over", "truncated")
  /\ UNCHANGED held

(* The socket or the body fails mid-turn: the failure is forwarded.        *)
Break(t) ==
  /\ pump[t] = "open"
  /\ conn' = Close(via[t])
  /\ End(t, "broken", "broken")
  /\ UNCHANGED held

(* As Park, were the last turn to end to win the slot.                     *)
ParkOverwrites(t) ==
  /\ pump[t] = "ended"
  /\ slot' = IF via[t] # Http THEN via[t] ELSE slot
  /\ pump' = [pump EXCEPT ![t] = "over"]
  /\ UNCHANGED <<sessionVars, latched, conn, pc, requestVars, planVars, via, continues,
                 named, returned, verdict, backendVars>>

(* park: handed back unless the session already holds one; then the stream *)
(* ends.  Over HTTP there is only the end of the body.                     *)
Park(t) ==
  /\ pump[t] = "ended"
  /\ slot' = IF slot = None /\ via[t] # Http THEN via[t] ELSE slot
  /\ conn' = IF slot = None THEN conn ELSE Close(via[t])
  /\ pump' = [pump EXCEPT ![t] = "over"]
  /\ UNCHANGED <<sessionVars, latched, pc, requestVars, planVars, via, continues,
                 named, returned, verdict, backendVars>>

-----------------------------------------------------------------------------
(* Handler, after the send.                                                *)

(* A refusal in the preamble is a status, a broken stream an error frame;  *)
(* neither closes the turn.                                                *)
ReportFailure(t) ==
  /\ pc[t] = "stream"
  /\ \/ verdict[t] = "refused"
     \/ pump[t] = "broken"
  /\ Return(t)
  /\ UNCHANGED <<sessionVars, conduitVars, requestVars, via, continues,
                 streamVars, backendVars>>

(* As RememberResponse, were only a turn that completed to be closed.      *)
CloseCompletedOnly(t) ==
  /\ pc[t] = "stream"
  /\ pump[t] = "over"
  /\ verdict[t] = "completed"
  /\ lastResponse' = t
  /\ pc' = [pc EXCEPT ![t] = "advance"]
  /\ UNCHANGED <<baseline, confirmed, lastFields, conduitVars, requestVars, planVars,
                 via, continues, streamVars, backendVars>>

(* close_turn runs whenever the stream ends: remember_response, then       *)
(* Session::advance -- the baseline under its lock, then `confirmed`.      *)
RememberResponse(t) ==
  /\ pc[t] = "stream"
  /\ pump[t] = "over"
  /\ verdict[t] # "refused"
  /\ lastResponse' = IF named[t] THEN t ELSE lastResponse
  /\ pc' = [pc EXCEPT ![t] = "advance"]
  /\ UNCHANGED <<baseline, confirmed, lastFields, conduitVars, requestVars, planVars,
                 via, continues, streamVars, backendVars>>

(* As Advance, were the server's own items left out of the baseline.       *)
AdvanceBySentOnly(t) ==
  /\ pc[t] = "advance"
  /\ baseline' = input[t]
  /\ pc' = [pc EXCEPT ![t] = "confirm"]
  /\ UNCHANGED <<confirmed, lastFields, lastResponse, conduitVars, requestVars,
                 planVars, via, continues, streamVars, backendVars>>

Advance(t) ==
  /\ pc[t] = "advance"
  /\ baseline' = input[t] \o returned[t]
  /\ pc' = [pc EXCEPT ![t] = "confirm"]
  /\ UNCHANGED <<confirmed, lastFields, lastResponse, conduitVars, requestVars,
                 planVars, via, continues, streamVars, backendVars>>

Confirm(t) ==
  /\ pc[t] = "confirm"
  /\ confirmed' = TRUE
  /\ Return(t)
  /\ UNCHANGED <<baseline, lastFields, lastResponse, conduitVars, requestVars,
                 via, continues, streamVars, backendVars>>

(* The client disconnects: the handler is dropped at its next await and    *)
(* the response body with it.  A connection still carrying the turn is     *)
(* closed; one whose turn had already ended is parked all the same.        *)
Disconnect(t) ==
  /\ pc[t] \in {"take", "dial", "send", "http", "stream"}
  /\ IF pc[t] = "send" \/ pump[t] = "open"
       THEN conn' = Close(via[t])
       ELSE UNCHANGED conn
  /\ IF pump[t] = "open"
       THEN /\ pump'    = [pump EXCEPT ![t] = "over"]
            /\ verdict' = [verdict EXCEPT ![t] = "cancelled"]
       ELSE UNCHANGED <<pump, verdict>>
  /\ Return(t)
  /\ UNCHANGED <<sessionVars, slot, latched, requestVars, via, continues,
                 named, returned, backendVars>>

-----------------------------------------------------------------------------
Init ==
  /\ baseline = << >> /\ confirmed = FALSE /\ lastFields = None /\ lastResponse = None
  /\ slot = None /\ latched = FALSE /\ conn = [t \in Turns |-> Unopened]
  /\ pc = [t \in Turns |-> "idle"]
  /\ asked = [t \in Turns |-> << >>]
  /\ fields = [t \in Turns |-> None] /\ account = [t \in Turns |-> None]
  /\ before = [t \in Turns |-> << >>] /\ input = [t \in Turns |-> << >>]
  /\ prevFields = [t \in Turns |-> None] /\ prevResponse = [t \in Turns |-> None]
  /\ via = [t \in Turns |-> None] /\ continues = [t \in Turns |-> None]
  /\ pump = [t \in Turns |-> "none"] /\ named = [t \in Turns |-> FALSE]
  /\ returned = [t \in Turns |-> << >>] /\ verdict = [t \in Turns |-> "none"]
  /\ heard = [t \in Turns |-> << >>] /\ held = [t \in Turns |-> NoHeld]

(* What the handler does on its own, once a request is being served.       *)
Handle(t) ==
  \/ Snapshot(t) \/ CheckConfirmed(t) \/ Claim(t)
  \/ ReadLastRequest(t) \/ ReadLastResponse(t)
  \/ Route(t) \/ Take(t) \/ RememberRequest(t) \/ ReportFailure(t)
  \/ RememberResponse(t) \/ Advance(t) \/ Confirm(t)

(* What the network and the backend answer an attempt to send.             *)
Attempt(t) ==
  \/ Dial(t) \/ DialFails(t) \/ StaleConnection(t) \/ PolicyClose(t)
  \/ Accept(t) \/ Refuse(t) \/ FirstReadFails(t)
  \/ PostOverHttp(t) \/ HttpFails(t)

(* The end of an open stream, however it comes about.                      *)
Finish(t) == Complete(t) \/ Fail(t) \/ Truncate(t) \/ Break(t)

Stream(t) == NameResponse(t) \/ ReturnItem(t) \/ Finish(t) \/ Park(t)

Request(t) ==
  \E ask \in Asks, f \in Fields, a \in Accounts : Begin(t, ask, f, a)

Next ==
  \E t \in Turns :
    Request(t) \/ RefuseTooLarge(t) \/ Handle(t) \/ Attempt(t) \/ Stream(t) \/ Disconnect(t)

(* The runtime keeps polling a handler and a pump that are ready; an       *)
(* attempt is answered or fails, and an open stream ends.  The client owes *)
(* nothing: no fairness on Request, Disconnect or the window guard.        *)
Fairness ==
  \A t \in Turns : /\ WF_vars(Handle(t))
                   /\ WF_vars(Attempt(t))
                   /\ WF_vars(Finish(t))
                   /\ WF_vars(Park(t))

Spec     == Init /\ [][Next]_vars
FairSpec == Spec /\ Fairness

-----------------------------------------------------------------------------
(* Properties.                                                             *)

SessionTypeOK ==
  /\ baseline \in Seq(Item) /\ confirmed \in BOOLEAN
  /\ lastFields \in Fields \cup {None} /\ lastResponse \in Turns \cup {None}

ConduitTypeOK ==
  /\ slot \in Turns \cup {None} /\ latched \in BOOLEAN
  /\ conn \in [Turns -> Conn]

RequestTypeOK ==
  /\ pc \in [Turns -> {"idle", "snapshot", "check", "claim", "previous", "previousId",
                       "route", "take", "dial", "send", "http", "remember", "stream",
                       "advance", "confirm", "done"}]
  /\ asked \in [Turns -> Seq(Item)]
  /\ fields \in [Turns -> Fields \cup {None}]
  /\ account \in [Turns -> Accounts \cup {None}]

PlanTypeOK ==
  /\ before \in [Turns -> Seq(Item)] /\ input \in [Turns -> Seq(Item)]
  /\ prevFields \in [Turns -> Fields \cup {None}]
  /\ prevResponse \in [Turns -> Turns \cup {None}]
  /\ via \in [Turns -> Turns \cup {None, Http}]
  /\ continues \in [Turns -> Turns \cup {None}]

StreamTypeOK ==
  /\ pump \in [Turns -> {"none", "open", "ended", "over", "broken"}]
  /\ named \in [Turns -> BOOLEAN]
  /\ returned \in [Turns -> Seq(Item)]
  /\ verdict \in [Turns -> {"none", "completed", "failed", "truncated", "refused",
                            "broken", "cancelled"}]

BackendTypeOK ==
  /\ heard \in [Turns -> Seq(Item)]
  /\ held \in [Turns -> [on : Turns \cup {None}, items : Seq(Item)]]

(* A turn sends over a connection it took or dialed, over HTTP only in     *)
(* full, and streams over one or the other.                                *)
TransportOK ==
  \A t \in Turns :
    /\ pc[t] = "send" => via[t] \in Turns
    /\ pc[t] \in {"dial", "http"} => via[t] = None /\ continues[t] = None
    /\ pump[t] \in {"open", "ended"} => via[t] # None
    /\ via[t] = Http => continues[t] = None

(* Every variable has its type, and the transport in use fits the step the *)
(* handler and the pump are at.                                            *)
TypeOK ==
  /\ SessionTypeOK /\ ConduitTypeOK /\ RequestTypeOK
  /\ PlanTypeOK /\ StreamTypeOK /\ BackendTypeOK
  /\ TransportOK

(* Turn t has connection k to itself.                                      *)
Uses(t, k) ==
  /\ via[t] = k
  /\ pc[t] = "send" \/ pump[t] \in {"open", "ended"}

ParkedIsFree ==
  \A k \in Turns : slot = k => conn[k].open /\ \A t \in Turns : ~Uses(t, k)

UsedIsOpen == \A t, k \in Turns : Uses(t, k) => conn[k].open

OneUser == \A k, s, t \in Turns : Uses(s, k) /\ Uses(t, k) => s = t

NoneLeaked == \A k \in Turns : conn[k].open => slot = k \/ \E t \in Turns : Uses(t, k)

(* pool.rs `take` and `park`: an open connection is parked, or carries one *)
(* turn -- never both, never two turns, never neither.  Two turns on one   *)
(* socket would each read the other's events; a socket nobody owns is one  *)
(* the daemon leaks.                                                       *)
OpenHasOneOwner == ParkedIsFree /\ UsedIsOpen /\ OneUser /\ NoneLeaked

(* conduit.rs `opened_as`: a turn is carried only by a connection its own  *)
(* account's credential opened, however connections are parked and taken.  *)
AccountIsolation ==
  \A t, k \in Turns : Uses(t, k) => conn[k].account = account[t]

(* §4.3: a delta goes up only on the connection that produced the response *)
(* it continues, at the moment it goes up and not merely when planned.     *)
DeltaOnProducer ==
  \A t \in Turns :
    pc[t] = "send" /\ continues[t] # None => Saw(via[t], continues[t])

(* "Falling back is always safe": whatever other turns did to the session, *)
(* a full upload is, to the client, the conversation the client sent.      *)
FullSendIsFaithful ==
  \A t \in Turns :
    heard[t] # << >> /\ continues[t] = None => ClientView(heard[t]) = asked[t]

(* The purpose of all of it: the backend answers the conversation the      *)
(* client sent, full upload or delta -- nothing dropped, duplicated or     *)
(* taken from another conversation.                                        *)
HeardAsAsked ==
  \A t \in Turns : heard[t] # << >> => ClientView(heard[t]) = asked[t]

(* Between turns, a parked connection that saw the session's last response *)
(* holds exactly the session's baseline, so a delta measured against the   *)
(* baseline continues the conversation it was measured for.                *)
BaselineIsHeld ==
  (/\ \A t \in Turns : Served(t)
   /\ lastResponse # None
   /\ Saw(slot, lastResponse)
   /\ Holds(slot, lastResponse))
  => held[lastResponse].items = baseline

(* session.rs `seed_if_unconfirmed`: a claim is only ever applied to a     *)
(* session no turn has completed on; a confirmed baseline moves only when  *)
(* a turn closes.                                                          *)
ConfirmedMovesOnlyOnClose ==
  [][confirmed /\ baseline' # baseline => \E t \in Turns : pc[t] = "advance"
                                             /\ pc'[t] = "confirm"]_vars

(* The session implements the service it is an optimisation of.            *)
Phase(t) == CASE pc[t] = "idle" -> "new"
              [] pc[t] = "done" -> "over"
              [] OTHER -> IF heard[t] = << >> THEN "asked" ELSE "heard"

Service == INSTANCE ConversationService WITH
             phase    <- [t \in Turns |-> Phase(t)],
             question <- asked,
             context  <- heard

(* Every behaviour is one of ConversationService: a request is heard once, *)
(* while it is served, as the conversation the client sent.                *)
ImplementsService == Service!Spec

(* A request that began is answered, refused or dropped: no handler waits  *)
(* for ever, whichever way its attempts and its stream end.                *)
EveryTurnEnds ==
  \A t \in Turns : (pc[t] = "snapshot") ~> (pc[t] = "done" /\ pump[t] \notin {"open", "ended"})
=============================================================================
