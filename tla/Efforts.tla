------------------------------- MODULE Efforts -------------------------------
(* The reasoning effort of a translated request (core/src/responses.rs     *)
(* `Effort`, core/src/translate/request.rs `effort_for`): what the client  *)
(* asked for, under what the operator and the model allow, moved to a      *)
(* level the model takes.                                                  *)
EXTENDS Integers

(* none, minimal, low, medium, high, xhigh, max, ultra: by their order.    *)
Efforts  == 0..7
Unstated == -1

Lower(a, b)      == IF a <= b THEN a ELSE b
IsHighest(e, S)  == e \in S /\ \A d \in S : d <= e
IsLowest(e, S)   == e \in S /\ \A d \in S : e <= d

(* The ceiling of the turn: the operator's, and the model's own.           *)
Ceiling(operator, model) ==
  CASE operator = Unstated -> model
    [] model = Unstated    -> operator
    [] OTHER               -> Lower(operator, model)

(* The highest level at or below the chosen one, else the lowest there is; *)
(* of a model that states none, the chosen one.                            *)
NearestSupported(chosen, supported) ==
  LET atOrBelow == {e \in supported : e <= chosen}
  IN  IF supported = {} THEN chosen
      ELSE IF atOrBelow # {} THEN CHOOSE e \in atOrBelow : IsHighest(e, atOrBelow)
      ELSE CHOOSE e \in supported : IsLowest(e, supported)

(* Without a request of the client's own the ceiling is asked for.         *)
Chosen(requested, ceiling) ==
  CASE requested = Unstated -> ceiling
    [] ceiling = Unstated   -> requested
    [] OTHER                -> Lower(requested, ceiling)

EffortFor(requested, ceiling, supported) ==
  IF Chosen(requested, ceiling) = Unstated THEN Unstated
  ELSE NearestSupported(Chosen(requested, ceiling), supported)
=============================================================================
