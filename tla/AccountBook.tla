----------------------------- MODULE AccountBook -----------------------------
(***************************************************************************)
(* What the credential store promises whoever writes through it: a verb    *)
(* happens at once or not at all.  No two of them overlap, none is lost to *)
(* another, and one that is refused, fails or dies with its process before *)
(* it has happened leaves every account as it was.                         *)
(***************************************************************************)
CONSTANTS
  Writers, \* whoever runs a verb
  Verbs,   \* [kind |-> "add" or "remove", name |-> the account]
  Names,   \* the names an account is filed under
  NoVerb

VARIABLES
  book,    \* the accounts that are stored
  asked,   \* of each writer: the verb it runs, if any
  outcome  \* of each writer: none, running, done, refused, failed

vars == <<book, asked, outcome>>

Applies(verb, accounts) == (verb.kind = "add") = (verb.name \notin accounts)

Applied(verb, accounts) ==
  IF verb.kind = "add" THEN accounts \cup {verb.name} ELSE accounts \ {verb.name}

Ask(w) ==
  /\ outcome[w] # "running"
  /\ \E verb \in Verbs : asked' = [asked EXCEPT ![w] = verb]
  /\ outcome' = [outcome EXCEPT ![w] = "running"]
  /\ UNCHANGED book

Ends(w, how) ==
  /\ outcome[w] = "running"
  /\ outcome' = [outcome EXCEPT ![w] = how]
  /\ asked' = [asked EXCEPT ![w] = NoVerb]

Happen(w) ==
  /\ Ends(w, "done")
  /\ Applies(asked[w], book)
  /\ book' = Applied(asked[w], book)

Refuse(w) == Ends(w, "refused") /\ ~Applies(asked[w], book) /\ UNCHANGED book

Fail(w) == Ends(w, "failed") /\ UNCHANGED book

(* Processes end: whoever ran a verb in one of them hears nothing.         *)
Vanish(dead) ==
  /\ outcome' = [w \in Writers |-> IF w \in dead THEN "none" ELSE outcome[w]]
  /\ asked' = [w \in Writers |-> IF w \in dead THEN NoVerb ELSE asked[w]]
  /\ UNCHANGED book

Init ==
  /\ book \in SUBSET Names
  /\ asked = [w \in Writers |-> NoVerb]
  /\ outcome = [w \in Writers |-> "none"]

Next ==
  \/ \E w \in Writers : Ask(w) \/ Happen(w) \/ Refuse(w) \/ Fail(w)
  \/ \E dead \in SUBSET Writers : Vanish(dead)

Spec == Init /\ [][Next]_vars
=============================================================================
