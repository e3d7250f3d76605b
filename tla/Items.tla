------------------------------- MODULE Items -------------------------------
(***************************************************************************)
(* Conversations as the proxy compares them: crates/core/src/session.rs.   *)
(*                                                                         *)
(* An item is the CANONICAL content of a Responses input item: the server- *)
(* assigned id removed and a tool call's arguments parsed, which is what   *)
(* `items_equal` compares.  Equality of items is therefore `=` here.       *)
(* Of an item's content only its kind matters to this module: reasoning    *)
(* items are the ones the client can never replay.                         *)
(*                                                                         *)
(* The operators are pure; the baseline they are applied to lives in Turns *)
(* and in SessionStore.                                                    *)
(***************************************************************************)
EXTENDS Integers, Sequences

IsServerOnly(item) == item.kind = "reasoning"

(* What of a conversation the client could ever replay.                    *)
ClientView(items) ==
  LET View[n \in 0..Len(items)] ==
        IF n = 0 THEN << >>
        ELSE IF IsServerOnly(items[n]) THEN View[n - 1]
        ELSE Append(View[n - 1], items[n])
  IN  View[Len(items)]

(* Strict extension: every baseline item at the same index, unchanged.     *)
Extends(base, candidate) ==
  /\ Len(base) <= Len(candidate)
  /\ SubSeq(candidate, 1, Len(base)) = base

(* The items `candidate` adds to a baseline it extends.                    *)
Delta(base, candidate) == SubSeq(candidate, Len(base) + 1, Len(candidate))

(* Whether the first n items of a client replay are exactly what of the    *)
(* baseline a client can replay: the loop of `reconcile`, which walks the  *)
(* baseline, skips server-only items and consumes one replayed item for    *)
(* every other.                                                            *)
Consumes(base, candidate, n) == SubSeq(candidate, 1, n) = ClientView(base)

Reconciles(base, candidate) ==
  \E n \in 0..Len(candidate) : Consumes(base, candidate, n)

(* As Reconcile, were the baseline's length taken for what was consumed.   *)
ReconcileByLength(base, candidate) ==
  base \o SubSeq(candidate, Len(base) + 1, Len(candidate))

(* The conversation as the backend should see it: the baseline with its    *)
(* server-only items intact, then whatever the client added.               *)
Reconcile(base, candidate) ==
  LET consumed == CHOOSE n \in 0..Len(candidate) : Consumes(base, candidate, n)
  IN  base \o SubSeq(candidate, consumed + 1, Len(candidate))

(* The handler's use of it: the replay as it came when it does not line up.*)
ReconciledOrAsSent(base, candidate) ==
  IF Reconciles(base, candidate) THEN Reconcile(base, candidate) ELSE candidate

(* `Baseline::plan` composed with the rule of `plan_upload` that an empty  *)
(* delta is a full send: whether these items may go up incrementally.      *)
PlansDelta(base, candidate) ==
  /\ Extends(base, candidate)
  /\ Delta(base, candidate) # << >>
=============================================================================
