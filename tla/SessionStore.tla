---------------------------- MODULE SessionStore ----------------------------
(***************************************************************************)
(* The store of live sessions (proxy/src/session.rs, SessionStore): which  *)
(* session a request is served by, and which sessions are forgotten.       *)
(*                                                                         *)
(* The client names no conversation; a request belongs to the session      *)
(* whose baseline it continues.  What a turn does inside its session is    *)
(* SessionTurns' subject: here a turn resolves its session, claims it if   *)
(* nothing completed on it, and closes or is dropped.                      *)
(*                                                                         *)
(* Names.  A session is named after the turn it was created for.           *)
(***************************************************************************)
EXTENDS Items, SequencesExt

CONSTANTS
  Turns,     \* the requests the daemon will serve; bounds the model
  Users,     \* contents of the items a client writes itself
  Capacity,  \* how many sessions are kept (CAPACITY, 64 in the code)
  None,      \* the session of a request that has not resolved one
  Window     \* may a request resolve between another's resolve and its claim?  It may in
             \* the code, and then joins a conversation that is not its own (README)

ASSUME NoneAssumption     == None \notin Turns
ASSUME CapacityAssumption == Capacity \in Nat \ {0}
ASSUME WindowAssumption   == Window \in BOOLEAN

Item == [kind : {"user"}, of : Users]
          \cup [kind : {"reasoning", "answer"}, of : Turns]

User(u)      == [kind |-> "user",      of |-> u]
Reasoning(t) == [kind |-> "reasoning", of |-> t]
Answer(t)    == [kind |-> "answer",    of |-> t]

VARIABLES
  store,      \* the sessions, most recently used first
  idle,       \* those untouched for IDLE (an hour) or longer
  baseline, confirmed,  \* of each session
  pc, asked, session, input,  \* of each turn's handler
  returned,   \* what the turn answered; empty until it closes
  used        \* history: the session of every request, in order of arrival

vars == <<store, idle, baseline, confirmed, pc, asked, session, input, returned, used>>

Live == ToSet(store)

-----------------------------------------------------------------------------
(* What clients ask: a new conversation, an answered one continued, or a   *)
(* request made before -- a retry, or a second client that began the same. *)

(* Reasoning is never delivered: of a response the client has the answer.  *)
Told(t) == Append(asked[t], Answer(t))

Closed(t) == pc[t] = "done" /\ returned[t] # << >>

Asks ==
  {<<User(u)>> : u \in Users}
    \cup {Append(Told(t), User(u)) : t \in {s \in Turns : Closed(s)}, u \in Users}
    \cup {asked[t] : t \in {s \in Turns : pc[s] # "idle"}}

-----------------------------------------------------------------------------
(* Selection.                                                              *)

(* As Continues, were continuation judged strictly.                        *)
ContinuesStrictly(s, ask) == Extends(baseline[s], ask)

Continues(s, ask) == Reconciles(baseline[s], ask)

(* best_match over these sessions: the longest baseline the request        *)
(* continues; of several, the one used least recently.                     *)
BestMatch(sessions, ask) ==
  LET matching == {i \in 1..Len(sessions) : Continues(sessions[i], ask)}
      longer(i, j) == \/ Len(baseline[sessions[i]]) > Len(baseline[sessions[j]])
                      \/ /\ Len(baseline[sessions[i]]) = Len(baseline[sessions[j]])
                         /\ i >= j
  IN  IF matching = {} THEN None
      ELSE sessions[CHOOSE i \in matching : \A j \in matching : longer(i, j)]

(* The sessions that are not of this set, in their order.                  *)
Without(sessions, gone) ==
  LET Kept[n \in 0..Len(sessions)] ==
        IF n = 0 THEN << >>
        ELSE IF sessions[n] \in gone THEN Kept[n - 1]
        ELSE Append(Kept[n - 1], sessions[n])
  IN  Kept[Len(sessions)]

(* retain: forget what nobody is having.                                   *)
Fresh(sessions) == Without(sessions, idle)

(* As ToFront, were a session left where it is when it is used.            *)
StaysInPlace(s, sessions) == IF s \in ToSet(sessions) THEN sessions ELSE <<s>> \o sessions

(* A matched session moves to the front; a new one is inserted there.      *)
ToFront(s, sessions) == <<s>> \o Without(sessions, {s})

(* As Truncated, were the store to hold one session more than it may.      *)
TruncatedLate(sessions) ==
  SubSeq(sessions, 1, IF Len(sessions) <= Capacity + 1 THEN Len(sessions) ELSE Capacity)

Truncated(sessions) ==
  SubSeq(sessions, 1, IF Len(sessions) <= Capacity THEN Len(sessions) ELSE Capacity)

-----------------------------------------------------------------------------
(* SessionStore::resolve, under the store's lock.                          *)
Resolve(t, ask) ==
  /\ pc[t] = "idle"
  /\ Window \/ \A s \in Turns : pc[s] # "claim"
  /\ LET fresh == Fresh(store)
         match == BestMatch(fresh, ask)
         mine  == IF match = None THEN t ELSE match
     IN  /\ store'   = Truncated(ToFront(mine, fresh))
         /\ session' = [session EXCEPT ![t] = mine]
         /\ used'    = Append(used, mine)
         /\ idle'    = {}
  /\ asked' = [asked EXCEPT ![t] = ask]
  /\ pc'    = [pc EXCEPT ![t] = "claim"]
  /\ UNCHANGED <<baseline, confirmed, input, returned>>

(* As Claim, were the session not claimed before the turn closes.          *)
ClaimNothing(t) ==
  /\ pc[t] = "claim"
  /\ input' = [input EXCEPT ![t] = ReconciledOrAsSent(baseline[session[t]], asked[t])]
  /\ pc' = [pc EXCEPT ![t] = "serve"]
  /\ UNCHANGED <<store, idle, baseline, confirmed, asked, session, returned, used>>

(* The baseline is read, the replay reconciled with it, and a session no   *)
(* turn has completed on is claimed.                                       *)
Claim(t) ==
  /\ pc[t] = "claim"
  /\ input' = [input EXCEPT ![t] = ReconciledOrAsSent(baseline[session[t]], asked[t])]
  /\ baseline' = IF confirmed[session[t]] THEN baseline
                 ELSE [baseline EXCEPT ![session[t]] = input'[t]]
  /\ pc' = [pc EXCEPT ![t] = "serve"]
  /\ UNCHANGED <<store, idle, confirmed, asked, session, returned, used>>

(* close_turn: the session may long have been forgotten by the store.      *)
Close(t) ==
  /\ pc[t] = "serve"
  /\ \E answer \in {<<Answer(t)>>, <<Reasoning(t), Answer(t)>>} :
       /\ returned' = [returned EXCEPT ![t] = answer]
       /\ baseline' = [baseline EXCEPT ![session[t]] = input[t] \o answer]
  /\ confirmed' = [confirmed EXCEPT ![session[t]] = TRUE]
  /\ pc' = [pc EXCEPT ![t] = "done"]
  /\ UNCHANGED <<store, idle, asked, session, input, used>>

(* The turn is refused or its client disconnects: nothing is closed.       *)
Drop(t) ==
  /\ pc[t] = "serve"
  /\ pc' = [pc EXCEPT ![t] = "done"]
  /\ UNCHANGED <<store, idle, baseline, confirmed, asked, session, input, returned, used>>

(* An hour passes since the least recently used sessions were resolved: a  *)
(* session is touched by resolve alone, so they turn idle from the back.   *)
GoIdle ==
  /\ \E n \in 1..Len(store) : idle' = {store[i] : i \in n..Len(store)}
  /\ UNCHANGED <<store, baseline, confirmed, pc, asked, session, input, returned, used>>

(* A switch of the serving account forgets every conversation.             *)
Clear ==
  /\ store # << >>
  /\ store' = << >>
  /\ idle'  = {}
  /\ UNCHANGED <<baseline, confirmed, pc, asked, session, input, returned, used>>

Init ==
  /\ store = << >> /\ idle = {} /\ used = << >>
  /\ baseline  = [s \in Turns |-> << >>]
  /\ confirmed = [s \in Turns |-> FALSE]
  /\ pc = [t \in Turns |-> "idle"]
  /\ asked = [t \in Turns |-> << >>] /\ input = [t \in Turns |-> << >>]
  /\ session = [t \in Turns |-> None]
  /\ returned = [t \in Turns |-> << >>]

Next ==
  \/ \E t \in Turns : (\E ask \in Asks : Resolve(t, ask)) \/ Claim(t) \/ Close(t) \/ Drop(t)
  \/ GoIdle
  \/ Clear

Spec == Init /\ [][Next]_vars

-----------------------------------------------------------------------------
(* Properties.                                                             *)

(* Every variable has its type; the store holds no session twice and never *)
(* more than Capacity, and only sessions in it can be idle.                *)
TypeOK ==
  /\ store \in Seq(Turns) /\ Len(store) <= Capacity
  /\ \A i, j \in 1..Len(store) : store[i] = store[j] => i = j
  /\ idle \subseteq Live
  /\ baseline \in [Turns -> Seq(Item)] /\ confirmed \in [Turns -> BOOLEAN]
  /\ pc \in [Turns -> {"idle", "claim", "serve", "done"}]
  /\ asked \in [Turns -> Seq(Item)] /\ input \in [Turns -> Seq(Item)]
  /\ session \in [Turns -> Turns \cup {None}]
  /\ returned \in [Turns -> Seq(Item)]
  /\ used \in Seq(Turns)

(* session.rs `best_match`: judging continuation strictly "abandons the    *)
(* conversation the moment the model reasons".  As long as the session of  *)
(* an answered turn is live and holds what that turn left, the client's    *)
(* next message is served by it, or by one that knows more of the same     *)
(* conversation.                                                           *)
FollowUpFindsItsSession ==
  \A t \in Turns, u \in Users :
    /\ Closed(t)
    /\ session[t] \in Live \ idle
    /\ baseline[session[t]] = input[t] \o returned[t]
    => LET next == BestMatch(Fresh(store), Append(Told(t), User(u)))
       IN  next # None /\ Len(baseline[next]) >= Len(baseline[session[t]])

(* ingress.rs, before `seed_if_unconfirmed`: a concurrent request cannot   *)
(* "join a conversation it has nothing to do with".  Turns served by one   *)
(* session come from conversations that opened with the same message.      *)
NoStrangers ==
  \A s, t \in Turns :
    session[s] # None /\ session[s] = session[t] => Head(asked[s]) = Head(asked[t])

LastUse(s) == IF \E i \in 1..Len(used) : used[i] = s
              THEN CHOOSE i \in 1..Len(used) :
                     used[i] = s /\ \A j \in (i + 1)..Len(used) : used[j] # s
              ELSE 0

(* session.rs CAPACITY: "eviction is by least recent use".  A session that *)
(* a new conversation pushes out, not having gone idle, was used before    *)
(* every session that stays.                                               *)
EvictsLeastRecentlyUsed ==
  [][\A gone \in (Live \ Live') \ idle :
       Live' # {} => \A kept \in Live' : LastUse(gone)' < LastUse(kept)']_vars
=============================================================================
