---------------------------- MODULE Items_proofs ----------------------------
(***************************************************************************)
(* Proofs about Items: what a client could replay of a conversation, and   *)
(* what reconciling a replay with a baseline gives.  The conversations are *)
(* of every length, so the proofs are by induction.                        *)
(***************************************************************************)
EXTENDS Items, SequenceTheorems, WellFoundedInduction, TLAPS

-----------------------------------------------------------------------------
(* Induction, over a set of numbers and not over a predicate, so that a    *)
(* prover of first-order logic can apply it.                               *)

(* A set of numbers that is not empty has a least one.                     *)
LEMMA LeastNumber ==
  ASSUME NEW S, S \subseteq Nat, S # {}
  PROVE  \E m \in S : \A n \in S : m <= n
<1> DEFINE Less == {pair \in Nat \X Nat : pair[1] < pair[2]}
<1>1. IsWellFoundedOn(Less, Nat)
  BY NatLessThanWellFounded DEF OpToRel
<1> HIDE DEF Less
<1>2. PICK m \in S : \A n \in S : <<n, m>> \notin Less
  BY <1>1, WFMin
<1>3. \A n \in S : <<n, m>> \in Nat \X Nat /\ (n < m => <<n, m>> \in Less)
  BY DEF Less
<1>4. \A n \in S : m \in Nat /\ n \in Nat /\ ~ (n < m)
  BY <1>2, <1>3
<1> QED
  BY <1>4

(* A set that holds 0 and with every number the next holds every number.   *)
LEMMA NumberInduction ==
  ASSUME NEW S, 0 \in S, \A n \in Nat : n \in S => n + 1 \in S
  PROVE  Nat \subseteq S
<1> DEFINE Missing == Nat \ S
<1>1. SUFFICES ASSUME Missing # {} PROVE FALSE
  OBVIOUS
<1>2. PICK m \in Missing : \A n \in Missing : m <= n
  <2>1. Missing \subseteq Nat
    OBVIOUS
  <2> HIDE DEF Missing
  <2> QED
    BY <1>1, <2>1, LeastNumber
<1>3. m - 1 \in Nat /\ m - 1 \notin Missing
  BY <1>2
<1> QED
  BY <1>2, <1>3

(* A set that holds the empty sequence and every extension of a sequence   *)
(* it holds by one element holds every sequence.                           *)
LEMMA SequenceInduction ==
  ASSUME NEW S, NEW T, << >> \in T,
         \A s \in Seq(S), e \in S : s \in T => Append(s, e) \in T
  PROVE  Seq(S) \subseteq T
<1> DEFINE Reached == {n \in Nat : \A s \in Seq(S) : Len(s) = n => s \in T}
<1>1. 0 \in Reached
  BY EmptySeq
<1>2. ASSUME NEW n \in Nat, n \in Reached PROVE n + 1 \in Reached
  <2>1. SUFFICES ASSUME NEW s \in Seq(S), Len(s) = n + 1 PROVE s \in T
    OBVIOUS
  <2>2. PICK start \in Seq(S), e \in S : s = Append(start, e)
    BY <2>1, SequenceEmptyOrAppend, EmptySeq
  <2>3. Len(start) = n
    BY <2>1, <2>2, AppendProperties, LenProperties
  <2> QED
    BY <1>2, <2>2, <2>3
<1>3. Nat \subseteq Reached
  <2> HIDE DEF Reached
  <2> QED
    BY <1>1, <1>2, NumberInduction
<1> QED
  BY <1>3, LenProperties

-----------------------------------------------------------------------------
(* Leaving items of a sequence out, one after another.                     *)

(* One item more: kept, unless it is to be left out.                       *)
Grown(kept, items, dropped, i) == IF i \in dropped THEN kept ELSE Append(kept, items[i])

(* The function that computes what is left: of every prefix what is left   *)
(* of it without the items at these positions.                             *)
Keeping(items, dropped, n, kept) ==
  kept = [i \in 0..n |-> IF i = 0 THEN << >> ELSE Grown(kept[i - 1], items, dropped, i)]

(* What the function is, step by step.                                     *)
LEMMA KeepingStep ==
  ASSUME NEW items, NEW dropped, NEW n \in Nat, NEW kept, Keeping(items, dropped, n, kept)
  PROVE  /\ kept[0] = << >>
         /\ \A i \in 0..(n - 1) : kept[i + 1] = Grown(kept[i], items, dropped, i + 1)
<1>1. kept[0] = << >>
  BY DEF Keeping
<1>2. ASSUME NEW i \in 0..(n - 1) PROVE kept[i + 1] = Grown(kept[i], items, dropped, i + 1)
  <2>1. i + 1 \in 0..n /\ i + 1 # 0 /\ (i + 1) - 1 = i
    OBVIOUS
  <2>2. kept[i + 1] = Grown(kept[(i + 1) - 1], items, dropped, i + 1)
    BY <2>1 DEF Keeping
  <2> QED
    BY <2>1, <2>2
<1> QED
  BY <1>1, <1>2

(* There is such a function, however long the sequence.                    *)
LEMMA KeepingExists ==
  ASSUME NEW items, NEW dropped, NEW n \in Nat
  PROVE  \E kept : Keeping(items, dropped, n, kept)
<1> DEFINE Defined == {m \in Nat : \E kept : Keeping(items, dropped, m, kept)}
<1>1. 0 \in Defined
  <2>1. Keeping(items, dropped, 0, [i \in 0..0 |-> << >>])
    BY DEF Keeping
  <2> QED
    BY <2>1
<1>2. ASSUME NEW m \in Nat, m \in Defined PROVE m + 1 \in Defined
  <2>1. PICK kept : Keeping(items, dropped, m, kept)
    BY <1>2
  <2> DEFINE last == Grown(kept[m], items, dropped, m + 1)
             longer == [i \in 0..(m + 1) |-> IF i = m + 1 THEN last ELSE kept[i]]
  <2>2. Keeping(items, dropped, m + 1, longer)
    <3>1. kept[0] = << >> /\ \A i \in 1..m : kept[i] = Grown(kept[i - 1], items, dropped, i)
      BY <2>1 DEF Keeping
    <3>2. longer[0] = << >>
      BY <3>1
    <3>3. ASSUME NEW i \in 1..(m + 1)
          PROVE  longer[i] = Grown(longer[i - 1], items, dropped, i)
      <4>1. i - 1 \in 0..m /\ longer[i - 1] = kept[i - 1]
        OBVIOUS
      <4>2. CASE i = m + 1
        <5>1. i - 1 = m /\ longer[i] = last
          BY <4>2
        <5> QED
          BY <5>1, <4>1, <4>2
      <4>3. CASE i # m + 1
        <5>1. i \in 1..m /\ longer[i] = kept[i]
          BY <4>3
        <5> QED
          BY <5>1, <4>1, <3>1
      <4> QED
        BY <4>2, <4>3
    <3>4. longer = [i \in 0..(m + 1) |-> longer[i]]
      OBVIOUS
    <3> HIDE DEF longer
    <3>5. \A i \in 0..(m + 1) :
            longer[i] = IF i = 0 THEN << >> ELSE Grown(longer[i - 1], items, dropped, i)
      BY <3>2, <3>3
    <3>6. [i \in 0..(m + 1) |-> longer[i]] =
            [i \in 0..(m + 1) |-> IF i = 0 THEN << >>
                                  ELSE Grown(longer[i - 1], items, dropped, i)]
      BY <3>5
    <3> QED
      BY <3>4, <3>6, Zenon DEF Keeping
  <2> QED
    BY <2>2
<1>3. Nat \subseteq Defined
  <2> HIDE DEF Defined
  <2> QED
    BY <1>1, <1>2, NumberInduction
<1> QED
  BY <1>3

(* It is the same for sequences as far as they are the same and leave the  *)
(* same out.                                                               *)
LEMMA KeepingAgrees ==
  ASSUME NEW items, NEW dropped, NEW longer, NEW more, NEW n \in Nat, NEW m \in Nat, n <= m,
         \A i \in 1..n : items[i] = longer[i] /\ (i \in dropped <=> i \in more),
         NEW kept, Keeping(items, dropped, n, kept), NEW wider, Keeping(longer, more, m, wider)
  PROVE  \A i \in 0..n : kept[i] = wider[i]
<1> DEFINE Agree == {i \in Nat : i <= n => kept[i] = wider[i]}
<1>1. 0 \in Agree
  BY DEF Keeping
<1>2. ASSUME NEW i \in Nat, i \in Agree PROVE i + 1 \in Agree
  <2>1. SUFFICES ASSUME i + 1 <= n PROVE kept[i + 1] = wider[i + 1]
    OBVIOUS
  <2>2. kept[i + 1] = Grown(kept[i], items, dropped, i + 1)
    BY <2>1, KeepingStep
  <2>3. wider[i + 1] = Grown(wider[i], longer, more, i + 1)
    BY <2>1, KeepingStep
  <2>4. kept[i] = wider[i] /\ items[i + 1] = longer[i + 1]
        /\ (i + 1 \in dropped <=> i + 1 \in more)
    BY <1>2, <2>1
  <2> QED
    BY <2>2, <2>3, <2>4 DEF Grown
<1>3. Nat \subseteq Agree
  <2> HIDE DEF Agree
  <2> QED
    BY <1>1, <1>2, NumberInduction
<1> QED
  BY <1>3

(* What is left of a sequence: these positions of it, in their order and   *)
(* each once, are the ones that were not to be left out.                   *)
Picked(left, items, n, dropped, at) ==
  /\ at \in [1..Len(left) -> 1..n]
  /\ \A i \in 1..Len(left) : at[i] \notin dropped /\ left[i] = items[at[i]]
  /\ \A i, j \in 1..Len(left) : i < j => at[i] < at[j]
  /\ \A k \in 1..n : k \notin dropped => \E i \in 1..Len(left) : at[i] = k

(* The function leaves of a sequence what was not to be left out, in its   *)
(* order.                                                                  *)
LEMMA KeepingPicks ==
  ASSUME NEW S, NEW items \in Seq(S), NEW dropped, NEW kept,
         Keeping(items, dropped, Len(items), kept)
  PROVE  LET left == kept[Len(items)]
         IN  /\ left \in Seq(S) /\ Len(left) <= Len(items)
             /\ \E at : Picked(left, items, Len(items), dropped, at)
<1> DEFINE n == Len(items)
           Fine(m) == /\ kept[m] \in Seq(S) /\ Len(kept[m]) <= m
                      /\ \E at : Picked(kept[m], items, m, dropped, at)
           Good == {m \in Nat : m <= n => Fine(m)}
<1>0. n \in Nat /\ \A i \in 1..n : items[i] \in S
  BY LenProperties
<1>1. /\ kept[0] = << >>
      /\ \A i \in 0..(n - 1) : kept[i + 1] = Grown(kept[i], items, dropped, i + 1)
  BY <1>0, KeepingStep
<1> HIDE DEF n
<1>2. Fine(0)
  <2>1. kept[0] \in Seq(S) /\ Len(kept[0]) = 0
    BY <1>1
  <2>2. Picked(kept[0], items, 0, dropped, [i \in 1..0 |-> 0])
    BY <2>1 DEF Picked
  <2> QED
    BY <2>1, <2>2
<1>3. ASSUME NEW m \in Nat, m < n, Fine(m) PROVE Fine(m + 1)
  <2>1. PICK at : Picked(kept[m], items, m, dropped, at)
    BY <1>3
  <2>2. kept[m + 1] = Grown(kept[m], items, dropped, m + 1) /\ items[m + 1] \in S
        /\ kept[m] \in Seq(S) /\ Len(kept[m]) \in Nat /\ Len(kept[m]) <= m
    BY <1>0, <1>1, <1>3, LenProperties
  <2>3. CASE m + 1 \in dropped
    <3>1. kept[m + 1] = kept[m]
      BY <2>2, <2>3 DEF Grown
    <3>2. \A k \in 1..(m + 1) : k \notin dropped => k \in 1..m
      BY <2>3
    <3>3. at \in [1..Len(kept[m]) -> 1..(m + 1)]
      BY <2>1 DEF Picked
    <3>4. Picked(kept[m], items, m + 1, dropped, at)
      BY <2>1, <3>2, <3>3 DEF Picked
    <3> QED
      BY <2>2, <3>1, <3>4
  <2>4. CASE m + 1 \notin dropped
    <3> DEFINE old == kept[m]
               left == Append(old, items[m + 1])
               more == [i \in 1..(Len(old) + 1) |-> IF i = Len(old) + 1 THEN m + 1 ELSE at[i]]
    <3>1. kept[m + 1] = left
      BY <2>2, <2>4 DEF Grown
    <3>2. /\ left \in Seq(S) /\ Len(left) = Len(old) + 1
          /\ \A i \in 1..Len(old) : left[i] = old[i]
          /\ left[Len(old) + 1] = items[m + 1]
      BY <2>2, AppendProperties
    <3>3. Len(old) \in Nat /\ Len(old) <= m
      BY <2>2
    <3>4. /\ at \in [1..Len(old) -> 1..m]
          /\ \A i \in 1..Len(old) : at[i] \notin dropped /\ old[i] = items[at[i]]
          /\ \A i, j \in 1..Len(old) : i < j => at[i] < at[j]
          /\ \A k \in 1..m : k \notin dropped => \E i \in 1..Len(old) : at[i] = k
      BY <2>1 DEF Picked
    <3> HIDE DEF old, left
    <3>5. more[Len(old) + 1] = m + 1 /\ \A i \in 1..Len(old) : more[i] = at[i]
      BY <3>3
    <3>6. more \in [1..Len(left) -> 1..(m + 1)]
      BY <3>2, <3>3, <3>4
    <3> HIDE DEF more
    <3>7. \A i \in 1..Len(left) : more[i] \notin dropped /\ left[i] = items[more[i]]
      BY <2>4, <3>2, <3>3, <3>4, <3>5
    <3>8. \A i, j \in 1..Len(left) : i < j => more[i] < more[j]
      <4>1. \A i \in 1..Len(left) : i \in 1..Len(old) \/ i = Len(old) + 1
        BY <3>2, <3>3
      <4>2. \A i \in 1..Len(old) : at[i] < m + 1 /\ i < Len(old) + 1
        BY <3>3, <3>4
      <4> QED
        BY <4>1, <4>2, <3>2, <3>3, <3>4, <3>5
    <3>9. \A k \in 1..(m + 1) : k \notin dropped => \E i \in 1..Len(left) : more[i] = k
      <4>1. \A k \in 1..(m + 1) : k \in 1..m \/ k = m + 1
        OBVIOUS
      <4>2. Len(old) + 1 \in 1..Len(left) /\ \A i \in 1..Len(old) : i \in 1..Len(left)
        BY <3>2, <3>3
      <4> QED
        BY <4>1, <4>2, <3>4, <3>5
    <3>10. Picked(left, items, m + 1, dropped, more)
      BY <3>6, <3>7, <3>8, <3>9 DEF Picked
    <3> QED
      BY <3>1, <3>2, <3>3, <3>10
  <2> QED
    BY <2>3, <2>4
<1>4. Fine(n)
  <2> HIDE DEF Fine
  <2>1. 0 \in Good
    BY <1>2
  <2>2. \A m \in Nat : m \in Good => m + 1 \in Good
    BY <1>0, <1>3
  <2>3. Nat \subseteq Good
    <3> HIDE DEF Good
    <3> QED
      BY <2>1, <2>2, NumberInduction
  <2> QED
    BY <1>0, <2>3
<1> QED
  BY <1>4 DEF n

-----------------------------------------------------------------------------
(* What of a conversation the client could ever replay.                    *)

Unseen(items) == {i \in 1..Len(items) : IsServerOnly(items[i])}

(* ClientView is what that function says of the whole conversation.        *)
LEMMA ViewIsLast ==
  ASSUME NEW items, Len(items) \in Nat
  PROVE  \E view : /\ Keeping(items, Unseen(items), Len(items), view)
                   /\ ClientView(items) = view[Len(items)]
<1> DEFINE n == Len(items)
           Viewing(view) ==
             view = [i \in 0..n |-> IF i = 0 THEN << >>
                                    ELSE IF IsServerOnly(items[i]) THEN view[i - 1]
                                    ELSE Append(view[i - 1], items[i])]
           chosen == CHOOSE view : Viewing(view)
<1>1. ASSUME NEW view PROVE Viewing(view) <=> Keeping(items, Unseen(items), n, view)
  <2>1. ASSUME NEW i \in 0..n, i # 0
        PROVE  Grown(view[i - 1], items, Unseen(items), i) =
                 IF IsServerOnly(items[i]) THEN view[i - 1] ELSE Append(view[i - 1], items[i])
    BY <2>1 DEF Grown, Unseen
  <2>2. [i \in 0..n |-> IF i = 0 THEN << >> ELSE Grown(view[i - 1], items, Unseen(items), i)] =
        [i \in 0..n |-> IF i = 0 THEN << >>
                        ELSE IF IsServerOnly(items[i]) THEN view[i - 1]
                        ELSE Append(view[i - 1], items[i])]
    BY <2>1
  <2> QED
    BY <2>2, Zenon DEF Keeping
<1>2. \E view : Viewing(view)
  BY <1>1, KeepingExists
<1>3. Viewing(chosen)
  BY <1>2, Zenon
<1>4. ClientView(items) = chosen[n]
  BY Zenon DEF ClientView
<1> HIDE DEF chosen, Viewing
<1> QED
  BY <1>1, <1>3, <1>4

(* Of nothing the client can replay nothing.                               *)
LEMMA ViewOfEmpty == ClientView(<< >>) = << >>
<1>1. Len(<< >>) = 0
  BY EmptySeq
<1> QED
  BY <1>1, ViewIsLast DEF Keeping

(* Of one more item it can replay that item, unless it is the server's.    *)
LEMMA ViewOfAppend ==
  ASSUME NEW S, NEW s \in Seq(S), NEW e \in S
  PROVE  ClientView(Append(s, e)) = IF IsServerOnly(e) THEN ClientView(s)
                                    ELSE Append(ClientView(s), e)
<1> DEFINE n == Len(s)
           longer == Append(s, e)
<1>1. n \in Nat /\ Len(longer) = n + 1 /\ longer[n + 1] = e
      /\ \A i \in 1..n : s[i] = longer[i]
  BY AppendProperties, LenProperties
<1> HIDE DEF longer
<1>2. /\ \A i \in 1..n : i \in Unseen(s) <=> i \in Unseen(longer)
      /\ n + 1 \in Unseen(longer) <=> IsServerOnly(e)
  BY <1>1 DEF Unseen
<1>3. PICK view : Keeping(s, Unseen(s), n, view) /\ ClientView(s) = view[n]
  BY <1>1, ViewIsLast
<1>4. PICK wider : /\ Keeping(longer, Unseen(longer), n + 1, wider)
                   /\ ClientView(longer) = wider[n + 1]
  BY <1>1, ViewIsLast
<1> HIDE DEF n
<1>5. /\ n + 1 \in Nat /\ n <= n + 1 /\ n \in 0..n /\ n \in 0..((n + 1) - 1)
      /\ \A i \in 1..n : s[i] = longer[i] /\ (i \in Unseen(s) <=> i \in Unseen(longer))
  BY <1>1, <1>2
<1>6. view[n] = wider[n]
  BY <1>1, <1>3, <1>4, <1>5, KeepingAgrees
<1>7. wider[n + 1] = Grown(wider[n], longer, Unseen(longer), n + 1)
  <2>1. PICK m \in Nat : m = n + 1
    BY <1>5
  <2>2. Keeping(longer, Unseen(longer), m, wider)
    BY <1>4, <2>1
  <2>3. \A i \in 0..(m - 1) : wider[i + 1] = Grown(wider[i], longer, Unseen(longer), i + 1)
    BY <2>2, KeepingStep
  <2> QED
    BY <2>1, <2>3, <1>5
<1> QED
  BY <1>1, <1>2, <1>3, <1>4, <1>6, <1>7 DEF longer, Grown

(* A client's view of a conversation is of items of that conversation, and *)
(* all of them can be replayed.                                            *)
LEMMA ViewType ==
  ASSUME NEW S, NEW s \in Seq(S)
  PROVE  ClientView(s) \in Seq({item \in S : ~IsServerOnly(item)})
<1> DEFINE Replayable == {item \in S : ~IsServerOnly(item)}
           Typed == {c \in Seq(S) : ClientView(c) \in Seq(Replayable)}
<1>1. << >> \in Typed
  BY ViewOfEmpty, EmptySeq
<1>2. ASSUME NEW c \in Seq(S), NEW e \in S, c \in Typed PROVE Append(c, e) \in Typed
  <2>1. Append(c, e) \in Seq(S) /\ ClientView(c) \in Seq(Replayable)
    BY <1>2, AppendProperties
  <2>2. ~IsServerOnly(e) => Append(ClientView(c), e) \in Seq(Replayable)
    <3>1. ~IsServerOnly(e) => e \in Replayable
      OBVIOUS
    <3> HIDE DEF Replayable
    <3> QED
      BY <2>1, <3>1, AppendProperties
  <2> QED
    BY <2>1, <2>2, ViewOfAppend
<1>3. Seq(S) \subseteq Typed
  <2> HIDE DEF Typed
  <2> QED
    BY <1>1, <1>2, SequenceInduction
<1> QED
  BY <1>3

(* Extending the second of two sequences in a row extends both.            *)
LEMMA AppendToConcat ==
  ASSUME NEW S, NEW s \in Seq(S), NEW t \in Seq(S), NEW e \in S
  PROVE  s \o Append(t, e) = Append(s \o t, e)
  BY ConcatProperties, AppendProperties, AppendIsConcat, ConcatAssociative

(* The view of two conversations in a row is their views in a row.         *)
LEMMA ViewOfConcat ==
  ASSUME NEW S, NEW s \in Seq(S), NEW t \in Seq(S)
  PROVE  ClientView(s \o t) = ClientView(s) \o ClientView(t)
<1> DEFINE Splits == {c \in Seq(S) : ClientView(s \o c) = ClientView(s) \o ClientView(c)}
<1>0. \A c \in Seq(S) : ClientView(c) \in Seq(S)
  <2>1. {item \in S : ~IsServerOnly(item)} \subseteq S
    OBVIOUS
  <2> QED
    BY <2>1, ViewType, SeqMonotonic
<1>1. << >> \in Splits
  BY <1>0, ViewOfEmpty, EmptySeq, ConcatEmptySeq
<1>2. ASSUME NEW c \in Seq(S), NEW e \in S, c \in Splits PROVE Append(c, e) \in Splits
  <2>1. s \o Append(c, e) = Append(s \o c, e)
    BY AppendToConcat
  <2>2. ClientView(s \o Append(c, e)) =
          IF IsServerOnly(e) THEN ClientView(s \o c) ELSE Append(ClientView(s \o c), e)
    BY <2>1, ViewOfAppend, ConcatProperties
  <2>3. ClientView(Append(c, e)) =
          IF IsServerOnly(e) THEN ClientView(c) ELSE Append(ClientView(c), e)
    BY ViewOfAppend
  <2>4. Append(ClientView(s) \o ClientView(c), e) = ClientView(s) \o Append(ClientView(c), e)
    <3>1. ClientView(s) \in Seq(S) /\ ClientView(c) \in Seq(S)
      BY <1>0
    <3>2. \A a, b \in Seq(S) : a \o Append(b, e) = Append(a \o b, e)
      BY AppendToConcat
    <3> QED
      BY <3>1, <3>2
  <2>5. ClientView(s \o c) = ClientView(s) \o ClientView(c)
    BY <1>2
  <2> QED
    BY <2>2, <2>3, <2>4, <2>5, AppendProperties
<1>3. Seq(S) \subseteq Splits
  <2> HIDE DEF Splits
  <2> QED
    BY <1>1, <1>2, SequenceInduction
<1> QED
  BY <1>3

(* What a client can replay entirely is its own view.                      *)
LEMMA ViewOfReplayable ==
  ASSUME NEW S, \A item \in S : ~IsServerOnly(item), NEW s \in Seq(S)
  PROVE  ClientView(s) = s
<1> DEFINE Same == {c \in Seq(S) : ClientView(c) = c}
<1>1. << >> \in Same
  BY ViewOfEmpty, EmptySeq
<1>2. ASSUME NEW c \in Seq(S), NEW e \in S, c \in Same PROVE Append(c, e) \in Same
  BY <1>2, ViewOfAppend, AppendProperties
<1>3. Seq(S) \subseteq Same
  <2> HIDE DEF Same
  <2> QED
    BY <1>1, <1>2, SequenceInduction
<1> QED
  BY <1>3

(* A conversation that opens with an item the client can replay opens so   *)
(* in its view too.                                                        *)
LEMMA ViewOpensAlike ==
  ASSUME NEW S, NEW s \in Seq(S), s # << >>, ~IsServerOnly(Head(s))
  PROVE  ClientView(s) # << >> /\ Head(ClientView(s)) = Head(s)
<1> DEFINE Alike == {c \in Seq(S) : c # << >> /\ ~IsServerOnly(Head(c)) =>
                        ClientView(c) # << >> /\ Head(ClientView(c)) = Head(c)}
<1>1. << >> \in Alike
  OBVIOUS
<1>2. ASSUME NEW c \in Seq(S), NEW e \in S, c \in Alike PROVE Append(c, e) \in Alike
  <2>1. SUFFICES ASSUME ~IsServerOnly(Head(Append(c, e)))
                 PROVE  /\ ClientView(Append(c, e)) # << >>
                        /\ Head(ClientView(Append(c, e))) = Head(Append(c, e))
    BY AppendProperties
  <2>2. ClientView(Append(c, e)) = IF IsServerOnly(e) THEN ClientView(c)
                                   ELSE Append(ClientView(c), e)
    BY ViewOfAppend
  <2>3. ClientView(c) \in Seq(S)
    <3>1. {item \in S : ~IsServerOnly(item)} \subseteq S
      OBVIOUS
    <3> QED
      BY <3>1, ViewType, SeqMonotonic
  <2>4. CASE c = << >>
    <3>1. Head(Append(c, e)) = e /\ ClientView(c) = << >>
      BY <2>4, HeadTailAppend, ViewOfEmpty
    <3>2. ClientView(Append(c, e)) = Append(<< >>, e)
      BY <2>1, <2>2, <3>1
    <3> QED
      BY <2>4, <3>1, <3>2, AppendProperties
  <2>5. CASE c # << >>
    <3>1. Head(Append(c, e)) = Head(c)
      BY <2>5, HeadTailAppend
    <3>2. ClientView(c) # << >> /\ Head(ClientView(c)) = Head(c)
      BY <1>2, <2>1, <2>5, <3>1
    <3>3. /\ Append(ClientView(c), e) # << >>
          /\ Head(Append(ClientView(c), e)) = Head(ClientView(c))
      BY <2>3, <3>2, AppendProperties, HeadTailAppend
    <3> QED
      BY <2>2, <3>1, <3>2, <3>3
  <2> QED
    BY <2>4, <2>5
<1>3. Seq(S) \subseteq Alike
  <2> HIDE DEF Alike
  <2> QED
    BY <1>1, <1>2, SequenceInduction
<1> QED
  BY <1>3

-----------------------------------------------------------------------------
(* Reconciling a replay with a baseline (core session.rs, `reconcile`).    *)

(* What follows a prefix of a sequence is a sequence of the same items     *)
(* (core session.rs, the items a delta or a reconciliation adds).          *)
LEMMA SuffixType ==
  ASSUME NEW S, NEW s \in Seq(S), NEW n \in 0..Len(s)
  PROVE  SubSeq(s, n + 1, Len(s)) \in Seq(S)
  BY SubSeqProperties, ElementOfSeq

(* What a conversation adds to a baseline it extends completes it: a delta *)
(* loses and repeats nothing.                                              *)
LEMMA DeltaCompletes ==
  ASSUME NEW S, NEW base \in Seq(S), NEW candidate \in Seq(S), Extends(base, candidate)
  PROVE  base \o Delta(base, candidate) = candidate
<1> DEFINE b == Len(base)  c == Len(candidate)  delta == Delta(base, candidate)
           whole == base \o delta
<1>1. b \in Nat /\ c \in Nat /\ b <= c /\ SubSeq(candidate, 1, b) = base
  BY LenProperties DEF Extends
<1>2. \A i \in 1..b : base[i] = candidate[i]
  BY <1>1, ElementOfSeq, SubSeqProperties
<1>3. /\ delta \in Seq(S) /\ Len(delta) = c - b
      /\ \A i \in 1..(c - b) : delta[i] = candidate[b + i]
  BY <1>1, ElementOfSeq, SubSeqProperties DEF Delta
<1> HIDE DEF b, c, delta
<1>4. /\ whole \in Seq(S) /\ Len(whole) = c
      /\ \A i \in 1..c : whole[i] = IF i <= b THEN base[i] ELSE delta[i - b]
  BY <1>1, <1>3, ConcatProperties DEF b
<1>5. \A i \in 1..c : whole[i] = candidate[i]
  <2> SUFFICES ASSUME NEW i \in 1..c PROVE whole[i] = candidate[i]
    OBVIOUS
  <2>1. CASE i <= b
    BY <2>1, <1>1, <1>2, <1>4
  <2>2. CASE ~(i <= b)
    <3>1. i - b \in 1..(c - b) /\ b + (i - b) = i
      BY <2>2, <1>1
    <3> QED
      BY <2>2, <3>1, <1>3, <1>4
  <2> QED
    BY <2>1, <2>2
<1>6. Len(whole) = Len(candidate)
  BY <1>4 DEF c
<1> HIDE DEF whole
<1>7. whole = candidate
  BY <1>4, <1>5, <1>6, SeqEqual DEF c
<1> QED
  BY <1>7 DEF whole, delta

(* A reconciled conversation is the baseline and what the client added.    *)
LEMMA ReconcileSplits ==
  ASSUME NEW S, NEW base \in Seq(S), NEW candidate \in Seq(S), Reconciles(base, candidate)
  PROVE  \E n \in 0..Len(candidate) :
           /\ SubSeq(candidate, n + 1, Len(candidate)) \in Seq(S)
           /\ SubSeq(candidate, 1, n) = ClientView(base)
           /\ Reconcile(base, candidate) = base \o SubSeq(candidate, n + 1, Len(candidate))
<1> DEFINE consumed == CHOOSE n \in 0..Len(candidate) : Consumes(base, candidate, n)
<1>1. consumed \in 0..Len(candidate) /\ Consumes(base, candidate, consumed)
  BY DEF Reconciles
<1>2. Reconcile(base, candidate) = base \o SubSeq(candidate, consumed + 1, Len(candidate))
  BY DEF Reconcile
<1> HIDE DEF consumed
<1> QED
  BY <1>1, <1>2, SuffixType DEF Consumes

(* Reconciling a replay with a baseline, or leaving it as it came, gives a *)
(* conversation of their items.                                            *)
LEMMA ReconcileType ==
  ASSUME NEW S, NEW base \in Seq(S), NEW candidate \in Seq(S)
  PROVE  ReconciledOrAsSent(base, candidate) \in Seq(S)
<1>1. CASE ~Reconciles(base, candidate)
  BY <1>1 DEF ReconciledOrAsSent
<1>2. CASE Reconciles(base, candidate)
  BY <1>2, ReconcileSplits, ConcatProperties DEF ReconciledOrAsSent
<1> QED
  BY <1>1, <1>2

(* Whatever the baseline, what is sent for a replay is to the client the   *)
(* conversation it replayed.                                               *)
LEMMA ReconcileIsFaithful ==
  ASSUME NEW S, NEW base \in Seq(S),
         NEW candidate \in Seq({item \in S : ~IsServerOnly(item)})
  PROVE  ClientView(ReconciledOrAsSent(base, candidate)) = candidate
<1> DEFINE Replayable == {item \in S : ~IsServerOnly(item)}
<1>1. candidate \in Seq(S) /\ candidate \in Seq(Replayable) /\ Len(candidate) \in Nat
  <2>1. Replayable \subseteq S
    OBVIOUS
  <2> QED
    BY <2>1, SeqMonotonic, LenProperties
<1>2. CASE ~Reconciles(base, candidate)
  BY <1>2, <1>1, ViewOfReplayable DEF ReconciledOrAsSent
<1>3. CASE Reconciles(base, candidate)
  <2>1. PICK n \in 0..Len(candidate) :
          /\ SubSeq(candidate, n + 1, Len(candidate)) \in Seq(S)
          /\ SubSeq(candidate, 1, n) = ClientView(base)
          /\ Reconcile(base, candidate) = base \o SubSeq(candidate, n + 1, Len(candidate))
    BY <1>1, <1>3, ReconcileSplits
  <2> DEFINE added == SubSeq(candidate, n + 1, Len(candidate))
  <2>2. added \in Seq(Replayable)
    <3> HIDE DEF Replayable
    <3> QED
      BY <1>1, SuffixType
  <2>3. ClientView(added) = added
    BY <2>2, ViewOfReplayable
  <2>4. ClientView(base \o added) = ClientView(base) \o added
    BY <2>1, <2>3, ViewOfConcat
  <2>5. SubSeq(candidate, 1, n) \o added = candidate
    <3>1. /\ 1 \in 1..(Len(candidate) + 1) /\ n \in (1 - 1)..Len(candidate)
          /\ Len(candidate) \in n..Len(candidate)
      BY <1>1
    <3>2. SubSeq(candidate, 1, n) \o added = SubSeq(candidate, 1, Len(candidate))
      BY <1>1, <3>1, ConcatAdjacentSubSeq
    <3> QED
      BY <1>1, <3>2, SubSeqFull
  <2> QED
    BY <1>3, <2>1, <2>4, <2>5 DEF ReconciledOrAsSent
<1> QED
  BY <1>2, <1>3

=============================================================================
