------------------------- MODULE ConversationService -------------------------
(***************************************************************************)
(* What the proxy promises about one session's turns, with no session, no  *)
(* transport and no delta: a client asks with a whole conversation; the    *)
(* backend takes up, at most once and only while the request is served, a  *)
(* conversation that is the client's own -- up to items only the server    *)
(* can produce; the request ends.                                          *)
(*                                                                         *)
(* SessionTurns implements it when requests of a session do not overlap.   *)
(***************************************************************************)
EXTENDS Items

CONSTANT Turns

VARIABLES phase,     \* where turn t is
          question,  \* the conversation the client replayed for it
          context    \* the conversation the backend answers for it

Phases == {"new", "asked", "heard", "over"}

Init ==
  /\ phase    = [t \in Turns |-> "new"]
  /\ question = [t \in Turns |-> << >>]
  /\ context  = [t \in Turns |-> << >>]

Moves(t, from, to) ==
  /\ phase[t] \in from
  /\ phase' = [phase EXCEPT ![t] = to]

OthersKeep(f, t) == \A s \in Turns \ {t} : f'[s] = f[s]

Ask(t) ==
  /\ Moves(t, {"new"}, "asked")
  /\ OthersKeep(question, t)
  /\ UNCHANGED context

(* The backend hears a conversation the client would recognise as its own. *)
Hear(t) ==
  /\ Moves(t, {"asked"}, "heard")
  /\ ClientView(context'[t]) = question[t]
  /\ OthersKeep(context, t)
  /\ UNCHANGED question

(* Answered, refused or dropped.                                           *)
End(t) ==
  /\ Moves(t, {"asked", "heard"}, "over")
  /\ UNCHANGED <<question, context>>

Next == \E t \in Turns : Ask(t) \/ Hear(t) \/ End(t)

Spec == Init /\ [][Next]_<<phase, question, context>>
=============================================================================
