---------------------------- MODULE CredentialFile ----------------------------
(***************************************************************************)
(* One write of the credential file (proxy/src/auth/store.rs: update,      *)
(* lock, read_raw, replace_if_unchanged, write), step by step, beside      *)
(* writers of other processes, writers that take no lock -- an older       *)
(* binary, a hand edit -- and processes that die anywhere in it.           *)
(*                                                                         *)
(* What a verb makes of an account's entry is Accounts'; here a verb adds  *)
(* a name that is free or removes one that is taken, and is refused        *)
(* otherwise.  An edit without the lock touches a name of its own, or      *)
(* leaves a file that does not parse.  Two files are the same bytes when   *)
(* they have the same shape and the same accounts.                         *)
(***************************************************************************)
EXTENDS Naturals, FiniteSets

CONSTANTS
  Writers,   \* whoever runs a verb
  Processes, \* a daemon, a CLI, ...
  ProcessOf, \* of each writer
  Names,     \* the names the verbs are about
  Extras,    \* the names the edits are about
  Attempts,  \* WRITE_ATTEMPTS
  MaxVerbs,  \* how many verbs are run; bounds the model
  MaxEdits,  \* how many edits are made; bounds the model
  MaxDeaths, \* how many processes die; bounds the model
  Nobody, NoVerb

ASSUME WritersAssumption   == Nobody \notin Writers /\ ProcessOf \in [Writers -> Processes]
ASSUME NamesAssumption     == Names \cap Extras = {}
ASSUME BoundsAssumption    == /\ Attempts \in Nat \ {0} /\ MaxVerbs \in Nat
                              /\ MaxEdits \in Nat /\ MaxDeaths \in Nat

VARIABLES
  file,    \* the credential file
  pending, \* of each process: the file beside it, written to be moved over it
  holder,  \* who holds the lock
  at,      \* of each writer: where in update it is
  verb,    \* of each writer: what it runs
  raw,     \* of each writer: the file as it read it
  copy,    \* of each writer: what it makes of it
  tries,   \* of each writer: how many attempts it has begun
  late,    \* the edits that landed after the comparison: history
  verbs, edits, deaths \* how many there were

disk   == <<file, pending>>
writer == <<at, verb, raw, copy, tries>>
counts == <<verbs, edits, deaths>>
vars   == <<disk, holder, writer, late, counts>>

Verbs == [kind : {"add", "remove"}, name : Names]

(* A file: absent, a bare grant, a list whose entries name no kind, the    *)
(* shape that is written, one that does not parse, one cut short.          *)
Shapes == {"absent", "bare", "untyped", "current", "garbled", "torn"}

File(shape, accounts) == [shape |-> shape, accounts |-> accounts]

Absent == File("absent", {})
Torn   == File("torn", {})

Parses(f) == f.shape \notin {"garbled", "torn"}

Fits(f) == CASE f.shape = "absent" -> f.accounts = {}
             [] f.shape = "bare"   -> \E n \in Names : f.accounts = {n}
             [] OTHER              -> f.accounts # {}

Whole == {f \in [shape : Shapes \ {"torn"}, accounts : SUBSET (Names \cup Extras)] : Fits(f)}

Applies(v, accounts) == (v.kind = "add") = (v.name \notin accounts)

Applied(v, accounts) ==
  IF v.kind = "add" THEN accounts \cup {v.name} ELSE accounts \ {v.name}

-----------------------------------------------------------------------------
(* A step of update.                                                       *)

Resting == {"idle", "answered", "refused", "failed"}

Moves(w, from, to) == at[w] = from /\ at' = [at EXCEPT ![w] = to]

Ask(w) ==
  /\ at[w] \in Resting /\ verbs < MaxVerbs
  /\ at' = [at EXCEPT ![w] = "waiting"]
  /\ \E v \in Verbs : verb' = [verb EXCEPT ![w] = v]
  /\ verbs' = verbs + 1
  /\ UNCHANGED <<disk, holder, raw, copy, tries, late, edits, deaths>>

(* As Lock, were the lock let go as soon as it is had.                     *)
LockAndDrop(w) ==
  /\ holder = Nobody
  /\ Moves(w, "waiting", "reading")
  /\ tries' = [tries EXCEPT ![w] = 0]
  /\ UNCHANGED <<disk, holder, verb, raw, copy, late, counts>>

Lock(w) ==
  /\ holder = Nobody
  /\ Moves(w, "waiting", "reading") /\ holder' = w
  /\ tries' = [tries EXCEPT ![w] = 0]
  /\ UNCHANGED <<disk, verb, raw, copy, late, counts>>

(* read_raw and the change; what cannot be read or refuses the change is   *)
(* the caller's answer at once.                                            *)
Read(w) ==
  /\ at[w] = "reading"
  /\ tries' = [tries EXCEPT ![w] = @ + 1]
  /\ raw' = [raw EXCEPT ![w] = file]
  /\ copy' = [copy EXCEPT ![w] = Applied(verb[w], file.accounts)]
  /\ at' = [at EXCEPT ![w] = IF ~Parses(file) THEN "failing"
                             ELSE IF ~Applies(verb[w], file.accounts) THEN "refusing"
                             ELSE "comparing"]
  /\ UNCHANGED <<disk, holder, verb, late, counts>>

(* As Compare, were the file replaced whatever it is by now.               *)
CompareNothing(w) ==
  /\ Moves(w, "comparing", IF copy[w] = {} THEN "removing" ELSE "opening")
  /\ late' = {}
  /\ UNCHANGED <<disk, holder, verb, raw, copy, tries, counts>>

(* replace_if_unchanged: start over if the file moved, and give up after   *)
(* the last attempt.                                                       *)
Compare(w) ==
  /\ Moves(w, "comparing",
           IF file = raw[w] THEN IF copy[w] = {} THEN "removing" ELSE "opening"
           ELSE IF tries[w] < Attempts THEN "reading" ELSE "failing")
  /\ late' = {}
  /\ UNCHANGED <<disk, holder, verb, raw, copy, tries, counts>>

(* write: nothing left to hold.                                            *)
Remove(w) ==
  /\ Moves(w, "removing", "written")
  /\ file' = Absent
  /\ UNCHANGED <<pending, holder, verb, raw, copy, tries, late, counts>>

(* write: beside the file, truncated first, then filled -- or there is no  *)
(* room -- and moved over it.                                              *)
Open(w) ==
  /\ Moves(w, "opening", "filling")
  /\ pending' = [pending EXCEPT ![ProcessOf[w]] = Torn]
  /\ UNCHANGED <<file, holder, verb, raw, copy, tries, late, counts>>

Fill(w) ==
  /\ \/ /\ Moves(w, "filling", "renaming")
        /\ pending' = [pending EXCEPT ![ProcessOf[w]] = File("current", copy[w])]
     \/ /\ Moves(w, "filling", "failing")
        /\ UNCHANGED pending
  /\ UNCHANGED <<file, holder, verb, raw, copy, tries, late, counts>>

(* As Rename, were the file filled where it is.                            *)
FillInPlace(w) ==
  /\ \/ Moves(w, "renaming", "written") /\ file' = pending[ProcessOf[w]]
     \/ Moves(w, "renaming", "failing") /\ file' = Torn
  /\ pending' = [pending EXCEPT ![ProcessOf[w]] = Absent]
  /\ UNCHANGED <<holder, verb, raw, copy, tries, late, counts>>

Rename(w) ==
  /\ \/ /\ Moves(w, "renaming", "written")
        /\ file' = pending[ProcessOf[w]]
     \/ /\ Moves(w, "renaming", "failing")
        /\ UNCHANGED file
  /\ pending' = [pending EXCEPT ![ProcessOf[w]] = Absent]
  /\ UNCHANGED <<holder, verb, raw, copy, tries, late, counts>>

(* What update held in memory goes when it returns.                        *)
LetsGo(ws) ==
  /\ verb' = [w \in Writers |-> IF w \in ws THEN NoVerb ELSE verb[w]]
  /\ raw' = [w \in Writers |-> IF w \in ws THEN Absent ELSE raw[w]]
  /\ copy' = [w \in Writers |-> IF w \in ws THEN {} ELSE copy[w]]
  /\ tries' = [w \in Writers |-> IF w \in ws THEN 0 ELSE tries[w]]
  /\ late' = IF holder \in ws THEN {} ELSE late

Unlocked(w) == IF holder = w THEN Nobody ELSE holder

(* As Answer, were the lock kept over a failure.                           *)
AnswerHolding(w) ==
  /\ \/ Moves(w, "written", "answered") /\ holder' = Unlocked(w)
     \/ Moves(w, "refusing", "refused") /\ holder' = Unlocked(w)
     \/ Moves(w, "failing", "failed") /\ UNCHANGED holder
  /\ LetsGo({w})
  /\ UNCHANGED <<disk, counts>>

(* The lock goes with its descriptor, however update ends.                 *)
Answer(w) ==
  /\ \/ Moves(w, "written", "answered")
     \/ Moves(w, "refusing", "refused")
     \/ Moves(w, "failing", "failed")
  /\ holder' = Unlocked(w) /\ LetsGo({w})
  /\ UNCHANGED <<disk, counts>>

(* The file of the lock cannot be made or locked.                          *)
LockFails(w) ==
  /\ Moves(w, "waiting", "failed")
  /\ LetsGo({w})
  /\ UNCHANGED <<disk, holder, counts>>

(* The file cannot be read, removed, or another opened beside it.          *)
Breaks(w) ==
  /\ at[w] \in {"reading", "comparing", "removing", "opening"}
  /\ Moves(w, at[w], "failing")
  /\ UNCHANGED <<disk, holder, verb, raw, copy, tries, late, counts>>

-----------------------------------------------------------------------------
(* The environment.                                                        *)

(* A writer that takes no lock: a whole file in place of another, with one *)
(* of its own names more or less; or a file that no longer parses.         *)
Edit ==
  /\ edits < MaxEdits
  /\ \/ \E e \in Extras :
          LET accounts == IF e \in file.accounts THEN file.accounts \ {e}
                          ELSE file.accounts \cup {e}
          IN  /\ file' = IF accounts = {} THEN Absent ELSE File("current", accounts)
              /\ late' = late \cup {e}
     \/ /\ file.shape # "absent"
        /\ file' = File("garbled", file.accounts)
        /\ UNCHANGED late
  /\ edits' = edits + 1
  /\ UNCHANGED <<pending, holder, writer, verbs, deaths>>

(* A process dies: the kernel lets its lock go, and the disk stays as it   *)
(* is, the file it was writing beside the other included.                  *)
Die(p) ==
  LET dead == {w \in Writers : ProcessOf[w] = p}
  IN  /\ deaths < MaxDeaths /\ deaths' = deaths + 1
      /\ at' = [w \in Writers |-> IF w \in dead THEN "idle" ELSE at[w]]
      /\ holder' = IF holder \in dead THEN Nobody ELSE holder
      /\ LetsGo(dead)
      /\ UNCHANGED <<disk, verbs, edits>>

-----------------------------------------------------------------------------
Init ==
  /\ file \in {f \in Whole : f.shape # "garbled"}
  /\ pending = [p \in Processes |-> Absent]
  /\ holder = Nobody
  /\ at = [w \in Writers |-> "idle"]
  /\ verb = [w \in Writers |-> NoVerb]
  /\ raw = [w \in Writers |-> Absent] /\ copy = [w \in Writers |-> {}]
  /\ tries = [w \in Writers |-> 0]
  /\ late = {} /\ verbs = 0 /\ edits = 0 /\ deaths = 0

Write(w) ==
  \/ Lock(w) \/ Read(w) \/ Compare(w)
  \/ Remove(w) \/ Open(w) \/ Fill(w) \/ Rename(w) \/ Answer(w)

Next ==
  \/ \E w \in Writers : Ask(w) \/ Write(w) \/ LockFails(w) \/ Breaks(w)
  \/ Edit
  \/ \E p \in Processes : Die(p)

Spec == Init /\ [][Next]_vars

(* A writer that can go on does; the lock is blocking, and the verbs that  *)
(* are run are bounded, so a waiting one gets it in the end.               *)
FairSpec == Spec /\ \A w \in Writers : WF_vars(Write(w))

-----------------------------------------------------------------------------
(* Properties.                                                             *)

(* Every variable keeps its form: above all the credential file, which is  *)
(* never one cut short, whoever writes or dies.                            *)
TypeOK ==
  /\ file \in [shape : Shapes \ {"torn"}, accounts : SUBSET (Names \cup Extras)]
  /\ pending \in [Processes -> [shape : {"absent", "current", "torn"},
                                accounts : SUBSET (Names \cup Extras)]]
  /\ holder \in Writers \cup {Nobody}
  /\ at \in [Writers -> Resting \cup {"waiting", "reading", "comparing", "removing", "opening",
                                       "filling", "renaming", "written", "refusing", "failing"}]
  /\ verb \in [Writers -> Verbs \cup {NoVerb}]
  /\ raw \in [Writers -> [shape : Shapes \ {"torn"}, accounts : SUBSET (Names \cup Extras)]]
  /\ copy \in [Writers -> SUBSET (Names \cup Extras)]
  /\ tries \in [Writers -> Nat] /\ late \subseteq Extras

(* An edit that takes no lock is kept by every write that had a chance to  *)
(* see it: what a write drops landed after its comparison.                 *)
EditsSurvive ==
  [][\A w \in Writers :
       (at[w] \in {"removing", "renaming"} /\ at'[w] = "written") =>
         \A e \in Extras \ late : e \in file.accounts <=> e \in file'.accounts]_vars

(* A verb under the lock happens at once or not at all, and none is lost:  *)
(* the file implements the AccountBook.                                    *)
Outcome(w) == CASE at[w] = "idle"                    -> "none"
                [] at[w] \in {"written", "answered"} -> "done"
                [] at[w] \in {"refusing", "refused"} -> "refused"
                [] at[w] \in {"failing", "failed"}   -> "failed"
                [] OTHER                             -> "running"

Outcomes == [w \in Writers |-> Outcome(w)]
VerbsRun == [w \in Writers |-> IF Outcome(w) = "running" THEN verb[w] ELSE NoVerb]
Held(f)  == f.accounts \cap Names

Book == INSTANCE AccountBook WITH
          book <- Held(file), asked <- VerbsRun, outcome <- Outcomes

ImplementsBook == Book!Spec

(* Every verb is answered, however often the file moves under it: the lock *)
(* is never left behind.                                                   *)
EveryVerbAnswers == \A w \in Writers : at[w] = "waiting" ~> at[w] \in Resting
=============================================================================
