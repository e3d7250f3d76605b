------------------------ MODULE CredentialFile_proofs ------------------------
(* The credential file under any writers, in any processes, with any       *)
(* number of verbs, of edits that take no lock and of deaths.  One         *)
(* inductive invariant carries all of it:                                  *)
(*   TypeOK      every variable keeps its form                             *)
(*   LockHeld    whoever is past the lock holds it, so there is one        *)
(*   Prepared    the accounts under the verbs' names are as the writer     *)
(*               read them, and its copy is its verb applied to them       *)
(*   Filled      what is about to be moved over the file is that copy      *)
(*   Seen        an edit that did not land late is in that copy            *)
EXTENDS CredentialFile, TLAPS

Busy == {"reading", "comparing", "removing", "opening", "filling", "renaming",
         "written", "refusing", "failing"}
Replacing == {"removing", "opening", "filling", "renaming"}

LockHeld == \A w \in Writers : at[w] \in Busy => holder = w

Prepared ==
  \A w \in Writers :
    /\ at[w] \notin Resting => verb[w] \in Verbs
    /\ at[w] \in Replacing \cup {"comparing"} =>
         /\ Held(raw[w]) = Held(file)
         /\ copy[w] = Applied(verb[w], raw[w].accounts)
         /\ Applies(verb[w], raw[w].accounts)

Filled ==
  \A w \in Writers :
    /\ at[w] = "removing" => copy[w] = {}
    /\ at[w] = "renaming" => pending[ProcessOf[w]] = File("current", copy[w])

Seen ==
  \A w \in Writers : at[w] \in Replacing =>
    \A e \in Extras \ late : e \in file.accounts <=> e \in copy[w]

IInv == TypeOK /\ LockHeld /\ Prepared /\ Filled /\ Seen

-----------------------------------------------------------------------------
(* One lemma for each action, one step for each part of the invariant.     *)

LEMMA KeepsAsk ==
  ASSUME IInv, NEW w \in Writers, Ask(w)
  PROVE  IInv'
<1>1. TypeOK'
  BY WritersAssumption, NamesAssumption DEF IInv, TypeOK, Ask, Verbs, Shapes,
     Resting, disk
<1>2. LockHeld'
  BY WritersAssumption, NamesAssumption DEF IInv, LockHeld, Ask, Busy, disk, Verbs,
     Resting
<1>3. Prepared'
  BY WritersAssumption, NamesAssumption DEF IInv, TypeOK, Prepared, Ask, Verbs,
     Applies, Applied, Resting, Held, Replacing, disk, Shapes
<1>4. Filled'
  BY NamesAssumption DEF IInv, Filled, Ask, File, disk, Verbs, Resting
<1>5. Seen'
  BY NamesAssumption DEF IInv, Seen, Ask, Replacing, disk, Verbs, Resting
<1>6. QED BY <1>1, <1>2, <1>3, <1>4, <1>5 DEF IInv

LEMMA KeepsLock ==
  ASSUME IInv, NEW w \in Writers, Lock(w)
  PROVE  IInv'
<1>1. TypeOK'
  BY WritersAssumption, NamesAssumption DEF IInv, TypeOK, Lock, Verbs, Shapes,
     Resting, disk, counts, Moves
<1>2. LockHeld'
  BY WritersAssumption DEF IInv, LockHeld, Lock, Busy, disk, counts, Moves
<1>3. Prepared'
  BY WritersAssumption, NamesAssumption DEF IInv, TypeOK, Prepared, Lock, Verbs,
     Applies, Applied, Resting, Held, Replacing, disk, counts, Moves, Shapes
<1>4. Filled'
  BY DEF IInv, Filled, Lock, File, disk, counts, Moves
<1>5. Seen'
  BY DEF IInv, Seen, Lock, Replacing, disk, counts, Moves
<1>6. QED BY <1>1, <1>2, <1>3, <1>4, <1>5 DEF IInv

LEMMA KeepsRead ==
  ASSUME IInv, NEW w \in Writers, Read(w)
  PROVE  IInv'
<1>1. TypeOK'
  BY WritersAssumption, NamesAssumption DEF IInv, TypeOK, LockHeld, Prepared, Read,
     Verbs, Shapes, Resting, disk, counts, Parses, Applies, Applied, Busy, Held,
     Replacing
<1>2. LockHeld'
  BY WritersAssumption DEF IInv, LockHeld, Read, Busy, disk, counts, Parses,
     Applies, Applied
<1>3. Prepared'
  BY WritersAssumption, NamesAssumption DEF IInv, TypeOK, Prepared, Read, Verbs,
     Applies, Applied, Resting, Held, Replacing, disk, counts, Parses, Shapes
<1>4. Filled'
  BY DEF IInv, Filled, Read, File, disk, counts, Parses, Applies, Applied
<1>5. Seen'
  BY DEF IInv, Seen, Read, Replacing, disk, counts, Parses, Applies, Applied
<1>6. QED BY <1>1, <1>2, <1>3, <1>4, <1>5 DEF IInv

LEMMA KeepsCompare ==
  ASSUME IInv, NEW w \in Writers, Compare(w)
  PROVE  IInv'
<1>1. TypeOK'
  BY WritersAssumption, NamesAssumption DEF IInv, TypeOK, Compare, Verbs, Shapes,
     Resting, disk, counts, Moves
<1>2. LockHeld'
  BY WritersAssumption DEF IInv, LockHeld, Compare, Busy, disk, counts, Moves
<1>3. Prepared'
  BY WritersAssumption, NamesAssumption DEF IInv, TypeOK, Prepared, Compare, Verbs,
     Applies, Applied, Resting, Held, Replacing, disk, counts, Moves, Shapes
<1>4. Filled'
  BY DEF IInv, Filled, Compare, File, disk, counts, Moves
<1>5. Seen'
  BY WritersAssumption, NamesAssumption DEF IInv, TypeOK, LockHeld, Prepared, Seen,
     Compare, Replacing, disk, counts, Moves, Verbs, Shapes, Resting, Busy, Applies,
     Applied, Held
<1>6. QED BY <1>1, <1>2, <1>3, <1>4, <1>5 DEF IInv

LEMMA KeepsRemove ==
  ASSUME IInv, NEW w \in Writers, Remove(w)
  PROVE  IInv'
<1>1. TypeOK'
  BY WritersAssumption, NamesAssumption DEF IInv, TypeOK, Remove, Verbs, Shapes,
     Resting, counts, Absent, Moves, File
<1>2. LockHeld'
  BY WritersAssumption DEF IInv, LockHeld, Remove, Busy, counts, Absent, Moves, File
<1>3. Prepared'
  BY WritersAssumption, NamesAssumption DEF IInv, TypeOK, LockHeld, Prepared,
     Remove, Verbs, Applies, Applied, Resting, Held, Replacing, counts, Absent,
     Moves, Shapes, Busy, File
<1>4. Filled'
  BY DEF IInv, Filled, Remove, File, counts, Absent, Moves
<1>5. Seen'
  BY WritersAssumption, NamesAssumption DEF IInv, TypeOK, LockHeld, Seen, Remove,
     Replacing, counts, Absent, Moves, Verbs, Shapes, Resting, Busy, File
<1>6. QED BY <1>1, <1>2, <1>3, <1>4, <1>5 DEF IInv

LEMMA KeepsOpen ==
  ASSUME IInv, NEW w \in Writers, Open(w)
  PROVE  IInv'
<1>1. TypeOK'
  BY WritersAssumption, NamesAssumption DEF IInv, TypeOK, Open, Verbs, Shapes,
     Resting, counts, Torn, Moves, File
<1>2. LockHeld'
  BY WritersAssumption DEF IInv, LockHeld, Open, Busy, counts, Torn, Moves, File
<1>3. Prepared'
  BY WritersAssumption, NamesAssumption DEF IInv, TypeOK, Prepared, Open, Verbs,
     Applies, Applied, Resting, Held, Replacing, counts, Torn, Moves, Shapes, File
<1>4. Filled'
  BY WritersAssumption, NamesAssumption DEF IInv, TypeOK, LockHeld, Filled, Open,
     File, counts, Torn, Moves, Verbs, Shapes, Resting, Busy
<1>5. Seen'
  BY DEF IInv, Seen, Open, Replacing, counts, Torn, Moves, File
<1>6. QED BY <1>1, <1>2, <1>3, <1>4, <1>5 DEF IInv

LEMMA KeepsFill ==
  ASSUME IInv, NEW w \in Writers, Fill(w)
  PROVE  IInv'
<1>1. TypeOK'
  BY WritersAssumption, NamesAssumption DEF IInv, TypeOK, LockHeld, Prepared, Fill,
     Verbs, Shapes, Resting, counts, File, Moves, Busy, Applies, Applied, Held,
     Replacing
<1>2. LockHeld'
  BY WritersAssumption, NamesAssumption DEF IInv, TypeOK, LockHeld, Fill, Busy,
     counts, File, Moves, Verbs, Shapes, Resting
<1>3. Prepared'
  BY WritersAssumption, NamesAssumption DEF IInv, TypeOK, LockHeld, Prepared, Fill,
     Verbs, Applies, Applied, Resting, Held, Replacing, counts, File, Moves, Shapes,
     Busy
<1>4. Filled'
  BY WritersAssumption, NamesAssumption DEF IInv, TypeOK, LockHeld, Filled, Fill,
     File, counts, Moves, Verbs, Shapes, Resting, Busy
<1>5. Seen'
  BY WritersAssumption, NamesAssumption DEF IInv, TypeOK, Seen, Fill, Replacing,
     counts, File, Moves, Verbs, Shapes, Resting
<1>6. QED BY <1>1, <1>2, <1>3, <1>4, <1>5 DEF IInv

LEMMA KeepsRename ==
  ASSUME IInv, NEW w \in Writers, Rename(w)
  PROVE  IInv'
<1>1. TypeOK'
  <2>1. /\ at[w] = "renaming" /\ ProcessOf[w] \in Processes
        /\ pending[ProcessOf[w]] = File("current", copy[w])
    BY WritersAssumption DEF IInv, Filled, Rename, Moves
  <2>2. file' \in [shape : Shapes \ {"torn"}, accounts : SUBSET (Names \cup Extras)]
    <3>1. copy[w] \in SUBSET (Names \cup Extras) BY DEF IInv, TypeOK
    <3>2. File("current", copy[w])
            \in [shape : Shapes \ {"torn"}, accounts : SUBSET (Names \cup Extras)]
      BY <3>1 DEF File, Shapes
    <3>3. file' \in {file, pending[ProcessOf[w]]} BY DEF Rename
    <3>4. QED BY <2>1, <3>2, <3>3 DEF IInv, TypeOK
  <2>3. /\ pending' \in [Processes -> [shape : {"absent", "current", "torn"},
                                       accounts : SUBSET (Names \cup Extras)]]
        /\ at' \in [Writers -> Resting \cup {"waiting", "reading", "comparing", "removing",
                                              "opening", "filling", "renaming", "written",
                                              "refusing", "failing"}]
    BY DEF IInv, TypeOK, Rename, Moves, File, Absent
  <2>4. QED BY <2>2, <2>3 DEF IInv, TypeOK, Rename
<1>2. LockHeld'
  BY WritersAssumption, NamesAssumption DEF IInv, TypeOK, LockHeld, Rename, Busy,
     counts, Absent, Moves, Verbs, Shapes, Resting, File
<1>3. Prepared'
  BY WritersAssumption, NamesAssumption DEF IInv, TypeOK, LockHeld, Prepared,
     Rename, Verbs, Applies, Applied, Resting, Held, Replacing, counts, Absent,
     Moves, Shapes, Busy, File
<1>4. Filled'
  BY WritersAssumption, NamesAssumption DEF IInv, TypeOK, LockHeld, Filled, Rename,
     File, counts, Absent, Moves, Verbs, Shapes, Resting, Busy
<1>5. Seen'
  BY WritersAssumption, NamesAssumption DEF IInv, TypeOK, LockHeld, Seen, Rename,
     Replacing, counts, Absent, Moves, Verbs, Shapes, Resting, Busy, File
<1>6. QED BY <1>1, <1>2, <1>3, <1>4, <1>5 DEF IInv

LEMMA KeepsAnswer ==
  ASSUME IInv, NEW w \in Writers, Answer(w)
  PROVE  IInv'
<1>1. TypeOK'
  BY WritersAssumption, NamesAssumption DEF IInv, TypeOK, Answer, Verbs, Shapes,
     Resting, disk, counts, Moves, LetsGo, Unlocked, Absent, File
<1>2. LockHeld'
  BY WritersAssumption, NamesAssumption DEF IInv, TypeOK, LockHeld, Answer, Busy,
     disk, counts, Moves, LetsGo, Unlocked, Verbs, Shapes, Resting, Absent, File
<1>3. Prepared'
  BY WritersAssumption, NamesAssumption DEF IInv, TypeOK, LockHeld, Prepared,
     Answer, Verbs, Applies, Applied, Resting, Held, Replacing, disk, counts, Moves,
     LetsGo, Unlocked, Shapes, Busy, Absent, File
<1>4. Filled'
  BY WritersAssumption, NamesAssumption DEF IInv, TypeOK, Filled, Answer, File,
     disk, counts, Moves, LetsGo, Unlocked, Verbs, Shapes, Resting, Absent
<1>5. Seen'
  BY WritersAssumption, NamesAssumption DEF IInv, TypeOK, LockHeld, Seen, Answer,
     Replacing, disk, counts, Moves, LetsGo, Unlocked, Verbs, Shapes, Resting, Busy,
     Absent, File
<1>6. QED BY <1>1, <1>2, <1>3, <1>4, <1>5 DEF IInv

LEMMA KeepsLockFails ==
  ASSUME IInv, NEW w \in Writers, LockFails(w)
  PROVE  IInv'
<1>1. TypeOK'
  BY WritersAssumption, NamesAssumption DEF IInv, TypeOK, LockFails, Verbs, Shapes,
     Resting, disk, counts, Moves, LetsGo, Absent, File
<1>2. LockHeld'
  BY WritersAssumption DEF IInv, LockHeld, LockFails, Busy, disk, counts, Moves,
     LetsGo, Absent, File
<1>3. Prepared'
  BY WritersAssumption, NamesAssumption DEF IInv, TypeOK, Prepared, LockFails,
     Verbs, Applies, Applied, Resting, Held, Replacing, disk, counts, Moves, LetsGo,
     Shapes, Absent, File
<1>4. Filled'
  BY DEF IInv, Filled, LockFails, File, disk, counts, Moves, LetsGo, Absent
<1>5. Seen'
  BY WritersAssumption, NamesAssumption DEF IInv, TypeOK, LockHeld, Seen, LockFails,
     Replacing, disk, counts, Moves, LetsGo, Verbs, Shapes, Resting, Busy, Absent,
     File
<1>6. QED BY <1>1, <1>2, <1>3, <1>4, <1>5 DEF IInv

LEMMA KeepsBreaks ==
  ASSUME IInv, NEW w \in Writers, Breaks(w)
  PROVE  IInv'
<1>1. TypeOK'
  BY WritersAssumption, NamesAssumption DEF IInv, TypeOK, Breaks, Verbs, Shapes,
     Resting, disk, counts, Moves
<1>2. LockHeld'
  BY WritersAssumption DEF IInv, LockHeld, Breaks, Busy, disk, counts, Moves
<1>3. Prepared'
  BY WritersAssumption, NamesAssumption DEF IInv, TypeOK, Prepared, Breaks, Verbs,
     Applies, Applied, Resting, Held, Replacing, disk, counts, Moves, Shapes
<1>4. Filled'
  BY DEF IInv, Filled, Breaks, File, disk, counts, Moves
<1>5. Seen'
  BY DEF IInv, Seen, Breaks, Replacing, disk, counts, Moves
<1>6. QED BY <1>1, <1>2, <1>3, <1>4, <1>5 DEF IInv

LEMMA KeepsEdit ==
  ASSUME IInv, Edit
  PROVE  IInv'
<1>1. TypeOK'
  BY WritersAssumption, NamesAssumption DEF IInv, TypeOK, Edit, Verbs, Shapes,
     Resting, writer, File, Absent
<1>2. LockHeld'
  BY WritersAssumption DEF IInv, LockHeld, Edit, Busy, writer, File, Absent
<1>3. Prepared'
  BY WritersAssumption, NamesAssumption DEF IInv, TypeOK, Prepared, Edit, Verbs,
     Applies, Applied, Resting, Held, Replacing, writer, File, Absent, Shapes
<1>4. Filled'
  BY DEF IInv, Filled, Edit, File, writer, Absent
<1>5. Seen'
  BY DEF IInv, Seen, Edit, Replacing, writer, File, Absent
<1>6. QED BY <1>1, <1>2, <1>3, <1>4, <1>5 DEF IInv

LEMMA KeepsDie ==
  ASSUME IInv, NEW p \in Processes, Die(p)
  PROVE  IInv'
<1>1. TypeOK'
  BY WritersAssumption, NamesAssumption DEF IInv, TypeOK, Die, Verbs, Shapes,
     Resting, disk, LetsGo, Absent, File
<1>2. LockHeld'
  BY WritersAssumption DEF IInv, LockHeld, Die, Busy, disk, LetsGo, Absent, File
<1>3. Prepared'
  BY NamesAssumption DEF IInv, Prepared, Die, Verbs, Applies, Applied, Resting,
     Held, Replacing, disk, LetsGo, Absent, File
<1>4. Filled'
  BY DEF IInv, Filled, Die, File, disk, LetsGo, Absent
<1>5. Seen'
  BY WritersAssumption, NamesAssumption DEF IInv, TypeOK, LockHeld, Seen, Die,
     Replacing, disk, LetsGo, Verbs, Shapes, Resting, Busy, Absent, File
<1>6. QED BY <1>1, <1>2, <1>3, <1>4, <1>5 DEF IInv

-----------------------------------------------------------------------------
LEMMA Begins == Init => IInv
<1>1. SUFFICES ASSUME Init PROVE IInv OBVIOUS
<1>2. TypeOK
  <2>1. /\ file \in [shape : Shapes \ {"torn"}, accounts : SUBSET (Names \cup Extras)]
        /\ Absent \in [shape : Shapes \ {"torn"}, accounts : SUBSET (Names \cup Extras)]
        /\ Absent \in [shape : {"absent", "current", "torn"},
                       accounts : SUBSET (Names \cup Extras)]
    BY <1>1 DEF Init, Whole, Shapes, Absent, File
  <2>2. QED BY <1>1, <2>1 DEF Init, TypeOK, Resting
<1>3. LockHeld /\ Prepared /\ Filled /\ Seen
  BY <1>1 DEF Init, LockHeld, Prepared, Filled, Seen, Busy, Replacing, Resting
<1>4. QED BY <1>2, <1>3 DEF IInv

LEMMA Stutters == ASSUME IInv, UNCHANGED vars PROVE IInv'
BY DEF IInv, TypeOK, LockHeld, Prepared, Filled, Seen, vars, disk, writer, counts

LEMMA Steps == ASSUME IInv, [Next]_vars PROVE IInv'
<1>1. CASE \E w \in Writers : Ask(w) \/ Write(w) \/ LockFails(w) \/ Breaks(w)
  BY <1>1, KeepsAsk, KeepsLock, KeepsRead, KeepsCompare, KeepsRemove, KeepsOpen,
     KeepsFill, KeepsRename, KeepsAnswer, KeepsLockFails, KeepsBreaks DEF Write
<1>2. CASE Edit BY <1>2, KeepsEdit
<1>3. CASE \E p \in Processes : Die(p) BY <1>3, KeepsDie
<1>4. CASE UNCHANGED vars BY <1>4, Stutters
<1>5. QED BY <1>1, <1>2, <1>3, <1>4 DEF Next

(* The invariant of every behaviour.                                       *)
THEOREM FileInvariant == Spec => []IInv
<1>1. Init => IInv BY Begins
<1>2. IInv /\ [Next]_vars => IInv' BY Steps
<1>3. QED BY <1>1, <1>2, PTL DEF Spec

(* store.rs `write`: beside the file and then over it.  The credential     *)
(* file is never one cut short, whoever writes, edits or dies in between.  *)
THEOREM FileStaysWhole == Spec => []TypeOK
<1>1. IInv => TypeOK BY DEF IInv
<1>2. QED BY <1>1, FileInvariant, PTL

-----------------------------------------------------------------------------
LEMMA StepKeepsEdits ==
  ASSUME IInv, [Next]_vars, NEW w \in Writers,
         at[w] \in {"removing", "renaming"}, at'[w] = "written"
  PROVE  \A e \in Extras \ late : e \in file.accounts <=> e \in file'.accounts
<1>1. Remove(w) \/ Rename(w)
  <2>1. ASSUME NEW v \in Writers, Ask(v) \/ Write(v) \/ LockFails(v) \/ Breaks(v)
        PROVE  Remove(w) \/ Rename(w)
    <3>1. v = w
      BY <2>1 DEF IInv, TypeOK, Resting, Write, Ask, Lock, Read, Compare, Remove, Open,
         Fill, Rename, Answer, LockFails, Breaks, Moves
    <3>2. QED
      BY <2>1, <3>1 DEF IInv, TypeOK, Resting, Write, Ask, Lock, Read, Compare, Open,
         Fill, Rename, Answer, LockFails, Breaks, Moves
  <2>2. ~Edit BY DEF Edit, writer
  <2>3. ASSUME NEW p \in Processes, Die(p) PROVE FALSE BY <2>3 DEF Die
  <2>4. ~UNCHANGED vars BY DEF vars, writer
  <2>5. QED BY <2>1, <2>2, <2>3, <2>4 DEF Next
<1>2. CASE Remove(w)
  BY <1>2 DEF IInv, TypeOK, Filled, Seen, Replacing, Remove, Moves, Absent, File
<1>3. CASE Rename(w)
  <2>1. file' = File("current", copy[w])
    BY <1>3, WritersAssumption DEF IInv, TypeOK, Filled, Rename, Moves
  <2>2. QED BY <2>1 DEF IInv, Seen, Replacing, File
<1>4. QED BY <1>1, <1>2, <1>3

(* store.rs `replace_if_unchanged`: a write keeps every edit that took no  *)
(* lock and landed before the comparison.                                  *)
THEOREM WritesKeepEdits == Spec => EditsSurvive
<1>1. IInv /\ [Next]_vars =>
        [\A w \in Writers :
           (at[w] \in {"removing", "renaming"} /\ at'[w] = "written") =>
             \A e \in Extras \ late : e \in file.accounts <=> e \in file'.accounts]_vars
  BY StepKeepsEdits
<1>2. QED BY <1>1, FileInvariant, PTL DEF Spec, EditsSurvive
-----------------------------------------------------------------------------
(* The refinement.  A verb happens when its file is removed or moved into  *)
(* place, is refused when it is read, and fails where it goes wrong;       *)
(* everything else leaves the book as it is.                               *)

LEMMA HeldOfApplied ==
  ASSUME NEW v \in Verbs, NEW accounts
  PROVE  /\ Applied(v, accounts) \cap Names = Book!Applied(v, accounts \cap Names)
         /\ Applies(v, accounts) <=> Book!Applies(v, accounts \cap Names)
<1>1. v.kind \in {"add", "remove"} /\ v.name \in Names BY DEF Verbs
<1>2. QED BY <1>1 DEF Applied, Applies, Book!Applied, Book!Applies

(* What one writer's step does to the two mappings of all writers.         *)
LEMMA OneMoves ==
  ASSUME TypeOK, NEW w \in Writers, NEW to, Moves(w, at[w], to),
         \A x \in Writers \ {w} : verb'[x] = verb[x]
  PROVE  /\ Outcomes' = [Outcomes EXCEPT ![w] = Outcome(w)']
         /\ VerbsRun' = [VerbsRun EXCEPT ![w] =
                           IF Outcome(w)' = "running" THEN verb'[w] ELSE NoVerb]
<1>1. \A x \in Writers \ {w} : at'[x] = at[x] BY DEF TypeOK, Moves
<1>2. \A x \in Writers \ {w} : Outcome(x)' = Outcome(x) BY <1>1 DEF Outcome
<1>3. QED BY <1>2 DEF Outcomes, VerbsRun

LEMMA SameOutcome ==
  ASSUME TypeOK, NEW w \in Writers, NEW to, Moves(w, at[w], to),
         \A x \in Writers \ {w} : verb'[x] = verb[x],
         Outcome(w)' = Outcome(w),
         Outcome(w) = "running" => verb'[w] = verb[w],
         Held(file)' = Held(file)
  PROVE  UNCHANGED Book!vars
<1>1. Outcomes' = [Outcomes EXCEPT ![w] = Outcomes[w]] BY OneMoves DEF Outcomes
<1>2. VerbsRun' = [VerbsRun EXCEPT ![w] = VerbsRun[w]] BY OneMoves DEF VerbsRun
<1>3. Outcomes' = Outcomes BY <1>1 DEF Outcomes
<1>4. VerbsRun' = VerbsRun BY <1>2 DEF VerbsRun
<1>5. QED BY <1>3, <1>4 DEF Book!vars

LEMMA EndsIn ==
  ASSUME TypeOK, NEW w \in Writers, NEW to, NEW how, Moves(w, at[w], to),
         \A x \in Writers \ {w} : verb'[x] = verb[x],
         Outcome(w) = "running", Outcome(w)' = how, how # "running"
  PROVE  Book!Ends(w, how) /\ VerbsRun[w] = verb[w]
<1>1. /\ Outcomes' = [Outcomes EXCEPT ![w] = how]
      /\ VerbsRun' = [VerbsRun EXCEPT ![w] = NoVerb]
  BY OneMoves
<1>2. Outcomes[w] = "running" /\ VerbsRun[w] = verb[w] BY DEF Outcomes, VerbsRun
<1>3. QED BY <1>1, <1>2 DEF Book!Ends

LEMMA AskAsks == ASSUME IInv, NEW w \in Writers, Ask(w) PROVE Book!Ask(w)
<1>1. PICK v \in Verbs : verb' = [verb EXCEPT ![w] = v] BY DEF Ask
<1>2. Moves(w, at[w], "waiting") /\ at'[w] = "waiting" BY DEF Ask, Moves, IInv, TypeOK
<1>3. Outcome(w)' = "running" BY <1>2 DEF Outcome
<1>4. /\ Outcomes' = [Outcomes EXCEPT ![w] = "running"]
      /\ VerbsRun' = [VerbsRun EXCEPT ![w] = v]
  <2>1. \A x \in Writers \ {w} : verb'[x] = verb[x] BY <1>1 DEF IInv, TypeOK
  <2>2. verb'[w] = v BY <1>1 DEF IInv, TypeOK
  <2>3. QED BY <1>2, <1>3, <2>1, <2>2, OneMoves DEF IInv
<1>5. Outcomes[w] # "running" BY DEF Ask, Resting, Outcomes, Outcome
<1>6. Held(file)' = Held(file) BY DEF Ask, disk, Held
<1>7. QED BY <1>4, <1>5, <1>6 DEF Book!Ask

LEMMA HappensWhenReplaced ==
  ASSUME IInv, NEW w \in Writers, at[w] \in {"removing", "renaming"},
         Moves(w, at[w], "written"), verb' = verb, file'.accounts = copy[w]
  PROVE  Book!Happen(w)
<1>1. Outcome(w) = "running" /\ Outcome(w)' = "done"
  BY DEF Outcome, Moves, IInv, TypeOK
<1>2. Book!Ends(w, "done") /\ VerbsRun[w] = verb[w] BY <1>1, EndsIn DEF IInv
<1>3. /\ verb[w] \in Verbs
      /\ Held(raw[w]) = Held(file)
      /\ copy[w] = Applied(verb[w], raw[w].accounts)
      /\ Applies(verb[w], raw[w].accounts)
  BY DEF IInv, Prepared, Replacing, Resting
<1>4. /\ Held(file)' = Book!Applied(verb[w], Held(file))
      /\ Book!Applies(verb[w], Held(file))
  <2>1. Held(file)' = copy[w] \cap Names BY DEF Held
  <2>2. raw[w].accounts \cap Names = Held(file) BY <1>3 DEF Held
  <2>3. /\ Applied(verb[w], raw[w].accounts) \cap Names = Book!Applied(verb[w], Held(file))
        /\ Book!Applies(verb[w], Held(file))
    BY <1>3, <2>2, HeldOfApplied
  <2>4. QED BY <1>3, <2>1, <2>3
<1>5. QED BY <1>2, <1>4 DEF Book!Happen

LEMMA FailsInPlace ==
  ASSUME IInv, NEW w \in Writers,
         at[w] \in {"reading", "comparing", "removing", "opening", "filling", "renaming"},
         Moves(w, at[w], "failing"), verb' = verb, file' = file
  PROVE  Book!Fail(w)
<1>1. Outcome(w) = "running" /\ Outcome(w)' = "failed"
  BY DEF Outcome, Moves, IInv, TypeOK
<1>2. Book!Ends(w, "failed") BY <1>1, EndsIn DEF IInv
<1>3. QED BY <1>2 DEF Book!Fail, Held

LEMMA GoesOn ==
  ASSUME IInv, NEW w \in Writers,
         NEW from \in {"waiting", "reading", "comparing", "opening", "filling"},
         NEW to \in {"reading", "comparing", "removing", "opening", "filling", "renaming"},
         Moves(w, from, to), verb' = verb, file' = file
  PROVE  UNCHANGED Book!vars
<1>1. Outcome(w)' = Outcome(w) BY DEF Outcome, Moves, IInv, TypeOK
<1>2. Moves(w, at[w], to) BY DEF Moves
<1>3. QED BY <1>1, <1>2, SameOutcome DEF IInv, Held

LEMMA ReadRefines == ASSUME IInv, NEW w \in Writers, Read(w) PROVE [Book!Next]_(Book!vars)
<1>1. verb' = verb /\ file' = file BY DEF Read, disk
<1>2. CASE ~Parses(file)
  <2>1. Moves(w, at[w], "failing") BY <1>2 DEF Read, Moves
  <2>2. Book!Fail(w) BY <1>1, <2>1, FailsInPlace DEF Read
  <2>3. QED BY <2>2 DEF Book!Next
<1>3. CASE Parses(file) /\ ~Applies(verb[w], file.accounts)
  <2>1. Moves(w, at[w], "refusing") BY <1>3 DEF Read, Moves
  <2>2. Outcome(w) = "running" /\ Outcome(w)' = "refused"
    BY <2>1 DEF Read, Outcome, Moves, IInv, TypeOK
  <2>3. Book!Ends(w, "refused") /\ VerbsRun[w] = verb[w] BY <1>1, <2>1, <2>2, EndsIn DEF IInv
  <2>4. verb[w] \in Verbs BY DEF IInv, Prepared, Read, Resting
  <2>5. ~Book!Applies(verb[w], Held(file)) BY <1>3, <2>4, HeldOfApplied DEF Held
  <2>6. Book!Refuse(w) BY <1>1, <2>3, <2>5 DEF Book!Refuse, Held
  <2>7. QED BY <2>6 DEF Book!Next
<1>4. CASE Parses(file) /\ Applies(verb[w], file.accounts)
  <2>1. Moves(w, "reading", "comparing") BY <1>4 DEF Read, Moves
  <2>2. QED BY <1>1, <2>1, GoesOn
<1>5. QED BY <1>2, <1>3, <1>4

LEMMA CompareRefines ==
  ASSUME IInv, NEW w \in Writers, Compare(w) PROVE [Book!Next]_(Book!vars)
<1>1. verb' = verb /\ file' = file BY DEF Compare, disk
<1>2. CASE Moves(w, at[w], "failing")
  <2>1. Book!Fail(w) BY <1>1, <1>2, FailsInPlace DEF Compare, Moves
  <2>2. QED BY <2>1 DEF Book!Next
<1>3. CASE \E to \in {"reading", "removing", "opening"} : Moves(w, "comparing", to)
  BY <1>1, <1>3, GoesOn
<1>4. QED BY <1>2, <1>3 DEF Compare, Moves

LEMMA WritingRefines ==
  ASSUME IInv, NEW w \in Writers, Remove(w) \/ Open(w) \/ Fill(w) \/ Rename(w)
  PROVE  [Book!Next]_(Book!vars)
<1>1. CASE Remove(w)
  <2>1. at[w] = "removing" /\ Moves(w, at[w], "written") BY <1>1 DEF Remove, Moves
  <2>2. file'.accounts = copy[w] /\ verb' = verb
    BY <1>1, <2>1 DEF Remove, IInv, Filled, Absent, File
  <2>3. Book!Happen(w) BY <2>1, <2>2, HappensWhenReplaced
  <2>4. QED BY <2>3 DEF Book!Next
<1>2. CASE Open(w)
  BY <1>2, GoesOn DEF Open
<1>3. CASE Fill(w)
  <2>1. verb' = verb /\ file' = file BY <1>3 DEF Fill
  <2>2. CASE Moves(w, "filling", "renaming") BY <2>1, <2>2, GoesOn
  <2>3. CASE Moves(w, "filling", "failing")
    <3>1. Book!Fail(w) BY <2>1, <2>3, FailsInPlace DEF Moves
    <3>2. QED BY <3>1 DEF Book!Next
  <2>4. QED BY <1>3, <2>2, <2>3 DEF Fill
<1>4. CASE Rename(w)
  <2>1. at[w] = "renaming" /\ verb' = verb BY <1>4 DEF Rename, Moves
  <2>2. CASE Moves(w, "renaming", "written") /\ file' = pending[ProcessOf[w]]
    <3>1. pending[ProcessOf[w]] = File("current", copy[w]) BY <2>1 DEF IInv, Filled
    <3>2. file'.accounts = copy[w] BY <2>2, <3>1 DEF File
    <3>3. Book!Happen(w) BY <2>1, <2>2, <3>2, HappensWhenReplaced
    <3>4. QED BY <3>3 DEF Book!Next
  <2>3. CASE Moves(w, "renaming", "failing") /\ file' = file
    <3>1. Book!Fail(w) BY <2>1, <2>3, FailsInPlace
    <3>2. QED BY <3>1 DEF Book!Next
  <2>4. QED BY <1>4, <2>2, <2>3 DEF Rename
<1>5. QED BY <1>1, <1>2, <1>3, <1>4

LEMMA AnswerRefines == ASSUME IInv, NEW w \in Writers, Answer(w) PROVE UNCHANGED Book!vars
<1>1. PICK to \in {"answered", "refused", "failed"} : Moves(w, at[w], to)
  BY DEF Answer, Moves
<1>2. Outcome(w)' = Outcome(w) /\ Outcome(w) # "running"
  BY DEF Answer, Outcome, Moves, IInv, TypeOK
<1>3. \A x \in Writers \ {w} : verb'[x] = verb[x] BY DEF Answer, LetsGo
<1>4. Held(file)' = Held(file) BY DEF Answer, disk, Held
<1>5. QED BY <1>1, <1>2, <1>3, <1>4, SameOutcome DEF IInv

LEMMA EditRefines == ASSUME IInv, Edit PROVE UNCHANGED Book!vars
<1>1. UNCHANGED <<at, verb>> BY DEF Edit, writer
<1>2. Held(file)' = Held(file) BY NamesAssumption DEF Edit, Held, File, Absent
<1>3. Outcomes' = Outcomes /\ VerbsRun' = VerbsRun BY <1>1 DEF Outcomes, VerbsRun, Outcome
<1>4. QED BY <1>2, <1>3 DEF Book!vars

LEMMA LockFailsRefines == ASSUME IInv, NEW w \in Writers, LockFails(w) PROVE Book!Fail(w)
<1>1. Moves(w, at[w], "failed") /\ Outcome(w) = "running" /\ Outcome(w)' = "failed"
  BY DEF LockFails, Outcome, Moves, IInv, TypeOK
<1>2. \A x \in Writers \ {w} : verb'[x] = verb[x] BY DEF LockFails, LetsGo
<1>3. Book!Ends(w, "failed") BY <1>1, <1>2, EndsIn DEF IInv
<1>4. QED BY <1>3 DEF Book!Fail, LockFails, disk, Held

LEMMA DieRefines == ASSUME IInv, NEW p \in Processes, Die(p) PROVE Book!Next
<1> DEFINE dead == {w \in Writers : ProcessOf[w] = p}
<1>1. \A w \in Writers : Outcome(w)' = IF w \in dead THEN "none" ELSE Outcome(w)
  BY DEF Die, Outcome
<1>2. Outcomes' = [w \in Writers |-> IF w \in dead THEN "none" ELSE Outcomes[w]]
  BY <1>1 DEF Outcomes
<1>3. \A w \in Writers : verb'[w] = IF w \in dead THEN NoVerb ELSE verb[w]
  BY DEF Die, LetsGo
<1>4. VerbsRun' = [w \in Writers |-> IF w \in dead THEN NoVerb ELSE VerbsRun[w]]
  BY <1>1, <1>3 DEF VerbsRun
<1>5. Held(file)' = Held(file) BY DEF Die, disk, Held
<1>6. Book!Vanish(dead) BY <1>2, <1>4, <1>5 DEF Book!Vanish
<1>7. QED BY <1>6 DEF Book!Next

LEMMA StepRefines == ASSUME IInv, [Next]_vars PROVE [Book!Next]_(Book!vars)
<1>1. ASSUME NEW w \in Writers, Ask(w) PROVE [Book!Next]_(Book!vars)
  BY <1>1, AskAsks DEF Book!Next
<1>2. ASSUME NEW w \in Writers, Write(w) PROVE [Book!Next]_(Book!vars)
  <2>1. CASE Lock(w) BY <2>1, GoesOn DEF Lock, disk
  <2>2. CASE Read(w) BY <2>2, ReadRefines
  <2>3. CASE Compare(w) BY <2>3, CompareRefines
  <2>4. CASE Remove(w) \/ Open(w) \/ Fill(w) \/ Rename(w) BY <2>4, WritingRefines
  <2>5. CASE Answer(w) BY <2>5, AnswerRefines
  <2>6. QED BY <1>2, <2>1, <2>2, <2>3, <2>4, <2>5 DEF Write
<1>3. CASE \E w \in Writers : LockFails(w) \/ Breaks(w)
  <2>1. ASSUME NEW w \in Writers, LockFails(w) PROVE Book!Next
    BY <2>1, LockFailsRefines DEF Book!Next
  <2>2. ASSUME NEW w \in Writers, Breaks(w) PROVE Book!Next
    BY <2>2, FailsInPlace DEF Breaks, disk, Book!Next
  <2>3. QED BY <1>3, <2>1, <2>2
<1>4. CASE Edit BY <1>4, EditRefines
<1>5. CASE \E p \in Processes : Die(p) BY <1>5, DieRefines
<1>6. CASE UNCHANGED vars
  BY <1>6 DEF vars, disk, writer, Book!vars, Outcomes, VerbsRun, Outcome, Held
<1>7. QED BY <1>1, <1>2, <1>3, <1>4, <1>5, <1>6 DEF Next

LEMMA InitRefines == ASSUME Init PROVE Book!Init
<1>1. \A w \in Writers : Outcome(w) = "none" BY DEF Init, Outcome
<1>2. /\ Outcomes = [w \in Writers |-> "none"]
      /\ VerbsRun = [w \in Writers |-> NoVerb]
  BY <1>1 DEF Outcomes, VerbsRun
<1>3. Held(file) \in SUBSET Names BY DEF Held
<1>4. QED BY <1>2, <1>3 DEF Book!Init

(* store.rs `update`: a verb happens at once or not at all, none is lost   *)
(* to another, and a death anywhere in it leaves every account as it was   *)
(* or as the verb makes it.                                                *)
THEOREM FileImplementsBook == Spec => ImplementsBook
<1>1. Init => Book!Init BY InitRefines
<1>2. IInv /\ [Next]_vars => [Book!Next]_(Book!vars) BY StepRefines
<1>3. QED BY <1>1, <1>2, FileInvariant, PTL DEF Spec, ImplementsBook, Book!Spec
=============================================================================
