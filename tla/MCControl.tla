------------------------------ MODULE MCControl ------------------------------
(* Accounts a and b, whose models the backend lists, and a key r whose     *)
(* turns are relayed; a file that says something of a on its own.          *)
EXTENDS Control

CONSTANTS a, b, r, opus, haiku, m, n, cap

MCOwners  == {a, b, r}
MCLabels  == {}
MCTiers   == {opus, haiku}
MCModels  == {m, n}
MCDefaultTiers == opus :> m @@ haiku :> n
MCPreferred == <<m>>
MCMenu    == a :> {m, n} @@ b :> {n}
MCAssigned == << >>
MCFiles   ==
  {NoFile,
   [selected |-> a, accounts |-> <<Entry(a, Codex, Grant(a, a, a)), Entry(b, Codex, Grant(b, b, b))>>],
   [selected |-> r, accounts |-> <<Entry(b, Codex, Grant(a, a, a)), Entry(r, Relayed, Key(r))>>]}

Table1(t, v, e) == [tiers |-> [u \in Tiers |-> IF u = t THEN v ELSE Unset], effort |-> e]

MCConfigs ==
  {[shared |-> Table1(opus, TierValue(n, None), None), consent |-> TRUE,
    sections |-> a :> Table1(opus, TierValue(m, None), cap) @@ b :> Table1(haiku, TierValue(m, None), None)]}

MCValues  == {TierValue(n, None), TierValue(n, r)}

OneOfMany == Permutations(Sessions)
=============================================================================
