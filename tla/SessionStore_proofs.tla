------------------------ MODULE SessionStore_proofs ------------------------
(***************************************************************************)
(* Proofs about SessionStore, for every number of turns, messages and kept *)
(* sessions.  What holds of the store holds however requests interleave;   *)
(* NoStrangers is proved, as it is checked, of a store whose requests do   *)
(* not resolve between another's resolve and its claim.                    *)
(***************************************************************************)
EXTENDS SessionStore, Items_proofs

-----------------------------------------------------------------------------
(* Lists of sessions.                                                      *)

(* Every session of the list is related to every later one.                *)
Ordered(sessions, rel) ==
  \A i, j \in 1..Len(sessions) : i < j => <<sessions[i], sessions[j]>> \in rel

(* What is left of a list without some of its sessions is in the list's    *)
(* order.                                                                  *)
LEMMA WithoutPicks ==
  ASSUME NEW S, NEW sessions \in Seq(S), NEW gone
  PROVE  LET left == Without(sessions, gone)
             dropped == {i \in 1..Len(sessions) : sessions[i] \in gone}
         IN  /\ left \in Seq(S) /\ Len(left) <= Len(sessions)
             /\ \E at : Picked(left, sessions, Len(sessions), dropped, at)
<1> DEFINE n == Len(sessions)
           dropped == {i \in 1..n : sessions[i] \in gone}
           Thinning(kept) ==
             kept = [i \in 0..n |-> IF i = 0 THEN << >>
                                    ELSE IF sessions[i] \in gone THEN kept[i - 1]
                                    ELSE Append(kept[i - 1], sessions[i])]
           chosen == CHOOSE kept : Thinning(kept)
<1>1. n \in Nat
  BY LenProperties
<1>2. ASSUME NEW kept PROVE Thinning(kept) <=> Keeping(sessions, dropped, n, kept)
  <2>1. ASSUME NEW i \in 0..n, i # 0
        PROVE  Grown(kept[i - 1], sessions, dropped, i) =
                 IF sessions[i] \in gone THEN kept[i - 1] ELSE Append(kept[i - 1], sessions[i])
    BY <1>1, <2>1 DEF Grown
  <2>2. [i \in 0..n |-> IF i = 0 THEN << >> ELSE Grown(kept[i - 1], sessions, dropped, i)] =
        [i \in 0..n |-> IF i = 0 THEN << >>
                        ELSE IF sessions[i] \in gone THEN kept[i - 1]
                        ELSE Append(kept[i - 1], sessions[i])]
    BY <2>1
  <2> QED
    BY <2>2, Zenon DEF Keeping
<1>3. \E kept : Thinning(kept)
  <2> HIDE DEF n, dropped, Thinning
  <2> QED
    BY <1>1, <1>2, KeepingExists
<1>4. Thinning(chosen)
  BY <1>3, Zenon
<1>5. Without(sessions, gone) = chosen[n]
  BY Zenon DEF Without
<1>6. Keeping(sessions, dropped, n, chosen)
  <2> HIDE DEF n, dropped, Thinning, chosen
  <2> QED
    BY <1>2, <1>4
<1> HIDE DEF chosen, Thinning
<1> QED
  BY <1>5, <1>6, KeepingPicks

(* It holds of the list the sessions that are not to be gone, and as many  *)
(* at most, in the list's order.                                           *)
LEMMA WithoutType ==
  ASSUME NEW S, NEW sessions \in Seq(S), NEW gone
  PROVE  LET left == Without(sessions, gone)
         IN  /\ left \in Seq(S) /\ Len(left) \in Nat /\ Len(left) <= Len(sessions)
             /\ ToSet(left) = ToSet(sessions) \ gone
             /\ \A rel : Ordered(sessions, rel) => Ordered(left, rel)
<1> DEFINE left == Without(sessions, gone)
           dropped == {i \in 1..Len(sessions) : sessions[i] \in gone}
<1>1. /\ left \in Seq(S) /\ Len(left) \in Nat
      /\ Len(left) <= Len(sessions) /\ Len(sessions) \in Nat
      /\ DOMAIN left = 1..Len(left) /\ DOMAIN sessions = 1..Len(sessions)
  BY WithoutPicks, LenProperties
<1>2. PICK at : Picked(left, sessions, Len(sessions), dropped, at)
  BY WithoutPicks
<1> HIDE DEF left
<1>3. /\ \A i \in 1..Len(left) : /\ at[i] \in 1..Len(sessions) /\ sessions[at[i]] \notin gone
                                 /\ left[i] = sessions[at[i]]
      /\ \A k \in 1..Len(sessions) :
           sessions[k] \notin gone => \E i \in 1..Len(left) : at[i] = k
  BY <1>1, <1>2 DEF Picked
<1>4. ToSet(left) = ToSet(sessions) \ gone
  <2>1. /\ ToSet(left) = {left[i] : i \in 1..Len(left)}
        /\ ToSet(sessions) = {sessions[i] : i \in 1..Len(sessions)}
    BY <1>1 DEF ToSet
  <2>2. \A s \in ToSet(left) : s \in ToSet(sessions) \ gone
    BY <1>3, <2>1
  <2>3. \A s \in ToSet(sessions) \ gone : s \in ToSet(left)
    BY <1>3, <2>1
  <2> QED
    BY <2>2, <2>3
<1>5. ASSUME NEW rel, Ordered(sessions, rel) PROVE Ordered(left, rel)
  BY <1>2, <1>3, <1>5 DEF Ordered, Picked
<1> QED
  BY <1>1, <1>4, <1>5 DEF left

(* The list a session was moved to the front of, or inserted at the front, *)
(* and cut to the capacity: it begins with that session, holds others of   *)
(* the list only, and leaves out only sessions later than all it holds.    *)
LEMMA ToFrontType ==
  ASSUME NEW sessions \in Seq(Turns), NEW mine \in Turns
  PROVE  LET kept == Truncated(ToFront(mine, sessions))
         IN  /\ kept \in Seq(Turns) /\ Len(kept) \in Nat /\ Len(kept) <= Capacity
             /\ mine \in ToSet(kept) /\ ToSet(kept) \subseteq ToSet(sessions) \cup {mine}
             /\ \A old, new :
                  /\ Ordered(sessions, old)
                  /\ \A s \in ToSet(sessions) \ {mine} : <<mine, s>> \in new
                  /\ \A s, t \in ToSet(sessions) \ {mine} :
                       <<s, t>> \in old => <<s, t>> \in new
                  => /\ Ordered(kept, new)
                     /\ \A s \in ToSet(kept), t \in ToSet(sessions) \ ToSet(kept) :
                          <<s, t>> \in new
<1> DEFINE others == Without(sessions, {mine})
           front == ToFront(mine, sessions)
           n == IF Len(front) <= Capacity THEN Len(front) ELSE Capacity
           kept == Truncated(front)
<1>1. /\ others \in Seq(Turns) /\ Len(others) \in Nat /\ DOMAIN others = 1..Len(others)
      /\ ToSet(others) = ToSet(sessions) \ {mine}
      /\ \A rel : Ordered(sessions, rel) => Ordered(others, rel)
  BY WithoutType, LenProperties
<1> HIDE DEF others
<1>2. /\ front \in Seq(Turns) /\ Len(front) = Len(others) + 1
      /\ front[1] = mine /\ \A i \in 1..Len(others) : front[i + 1] = others[i]
  <2>1. <<mine>> \in Seq(Turns) /\ Len(<<mine>>) = 1 /\ <<mine>>[1] = mine
    OBVIOUS
  <2>2. front = <<mine>> \o others
    BY DEF ToFront, others
  <2>3. /\ front \in Seq(Turns) /\ Len(front) = 1 + Len(others)
        /\ \A i \in 1..(1 + Len(others)) :
             front[i] = IF i <= 1 THEN <<mine>>[i] ELSE others[i - 1]
    BY <1>1, <2>1, <2>2, ConcatProperties
  <2> HIDE DEF front
  <2> QED
    BY <1>1, <2>1, <2>3
<1>3. n \in Nat /\ 1 <= n /\ n <= Len(front) /\ n <= Capacity /\ Len(front) \in Nat
  BY <1>1, <1>2, CapacityAssumption
<1>4. /\ kept \in Seq(Turns) /\ Len(kept) = n /\ DOMAIN kept = 1..n
      /\ \A i \in 1..n : kept[i] = front[i]
  <2>1. kept = SubSeq(front, 1, n)
    BY DEF Truncated
  <2>2. \A i \in 1..n : front[i] \in Turns
    BY <1>2, <1>3, ElementOfSeq
  <2> HIDE DEF n, front, kept
  <2>3. /\ kept \in Seq(Turns) /\ Len(kept) = n
        /\ \A i \in 1..n : kept[i] = front[i]
    BY <1>3, <2>1, <2>2, SubSeqProperties
  <2> QED
    BY <2>3, LenProperties
<1> HIDE DEF n, front, kept
<1>5. \A i \in 1..Len(front) : i = 1 \/ (i - 1 \in 1..Len(others) /\ front[i] = others[i - 1])
  BY <1>1, <1>2
<1>6. mine \in ToSet(kept)
  BY <1>2, <1>3, <1>4 DEF ToSet
<1>7. ToSet(kept) \subseteq ToSet(sessions) \cup {mine}
  <2> SUFFICES ASSUME NEW i \in 1..n PROVE front[i] \in ToSet(sessions) \cup {mine}
    BY <1>4 DEF ToSet
  <2>1. i \in 1..Len(front)
    BY <1>3
  <2>2. i = 1 \/ front[i] \in ToSet(others)
    BY <1>1, <1>5, <2>1 DEF ToSet
  <2> QED
    BY <1>1, <1>2, <2>2
<1>8. ASSUME NEW old, NEW new, Ordered(sessions, old),
             \A s \in ToSet(sessions) \ {mine} : <<mine, s>> \in new,
             \A s, t \in ToSet(sessions) \ {mine} : <<s, t>> \in old => <<s, t>> \in new
      PROVE  Ordered(front, new)
  <2>1. Ordered(others, old)
    BY <1>1, <1>8
  <2> SUFFICES ASSUME NEW i \in 1..Len(front), NEW j \in 1..Len(front), i < j
               PROVE  <<front[i], front[j]>> \in new
    BY DEF Ordered
  <2>2. j # 1 /\ j - 1 \in 1..Len(others) /\ front[j] = others[j - 1]
    BY <1>3, <1>5
  <2>3. front[j] \in ToSet(others)
    BY <1>1, <2>2 DEF ToSet
  <2>4. CASE i = 1
    BY <1>1, <1>2, <1>8, <2>3, <2>4
  <2>5. CASE i # 1
    <3>1. i - 1 \in 1..Len(others) /\ front[i] = others[i - 1] /\ i - 1 < j - 1
      BY <1>3, <1>5, <2>5
    <3>2. <<front[i], front[j]>> \in old
      BY <2>1, <2>2, <3>1 DEF Ordered
    <3>3. front[i] \in ToSet(others)
      BY <1>1, <3>1 DEF ToSet
    <3> QED
      BY <1>1, <1>8, <2>3, <3>2, <3>3
  <2> QED
    BY <2>4, <2>5
<1>9. ASSUME NEW new, Ordered(front, new) PROVE Ordered(kept, new)
  BY <1>3, <1>4, <1>9 DEF Ordered
<1>10. ASSUME NEW new, Ordered(front, new), NEW s \in ToSet(kept),
              NEW t \in ToSet(sessions) \ ToSet(kept)
       PROVE  <<s, t>> \in new
  <2>1. t # mine /\ t \in ToSet(others)
    BY <1>1, <1>6
  <2>2. PICK m \in 1..Len(others) : others[m] = t
    BY <1>1, <2>1 DEF ToSet
  <2>3. m + 1 \in 1..Len(front) /\ front[m + 1] = t
    BY <1>1, <1>2, <2>2
  <2>4. m + 1 \notin 1..n
    BY <1>4, <2>3 DEF ToSet
  <2>5. PICK i \in 1..n : kept[i] = s
    BY <1>4 DEF ToSet
  <2>6. i \in 1..Len(front) /\ i < m + 1 /\ front[i] = s
    BY <1>3, <1>4, <2>3, <2>4, <2>5
  <2> QED
    BY <1>10, <2>3, <2>6 DEF Ordered
<1> QED
  BY <1>3, <1>4, <1>6, <1>7, <1>8, <1>9, <1>10 DEF kept, front

-----------------------------------------------------------------------------
(* The last of several.                                                    *)

(* Of several positions with a size one is best: none has a larger size,   *)
(* and none of its size is later.                                          *)
LEMMA BestOfSeveral ==
  ASSUME NEW n \in Nat, NEW size \in [1..n -> Nat], NEW some \in SUBSET (1..n), some # {}
  PROVE  \E i \in some : \A j \in some : size[i] > size[j] \/ (size[i] = size[j] /\ i >= j)
<1> DEFINE Better(i, j) == size[i] > size[j] \/ (size[i] = size[j] /\ i >= j)
           Good == {m \in Nat : m <= n => \A few \in SUBSET (1..m) : few # {} =>
                                   \E i \in few : \A j \in few : Better(i, j)}
<1>1. 0 \in Good
  <2>1. SUBSET (1..0) = {{}}
    OBVIOUS
  <2> QED
    BY <2>1
<1>2. ASSUME NEW m \in Nat, m \in Good PROVE m + 1 \in Good
  <2>1. SUFFICES ASSUME m + 1 <= n, NEW few \in SUBSET (1..(m + 1)), few # {}
                 PROVE  \E i \in few : \A j \in few : Better(i, j)
    OBVIOUS
  <2>2. few \ {m + 1} \in SUBSET (1..m)
    OBVIOUS
  <2>3. \A i \in few : i \in 1..n /\ size[i] \in Nat
    BY <2>1
  <2>4. CASE few \ {m + 1} = {}
    <3>1. few = {m + 1}
      BY <2>1, <2>4
    <3> QED
      BY <2>3, <3>1
  <2>5. CASE few \ {m + 1} # {}
    <3>1. PICK i \in few \ {m + 1} : \A j \in few \ {m + 1} : Better(i, j)
      <4>1. m <= n
        BY <2>1
      <4>2. \A less \in SUBSET (1..m) : less # {} =>
              \E i \in less : \A j \in less : Better(i, j)
        BY <1>2, <4>1
      <4> HIDE DEF Better
      <4> QED
        BY <2>2, <2>5, <4>2
    <3>2. CASE m + 1 \notin few
      <4>1. few \ {m + 1} = few
        BY <3>2
      <4> QED
        BY <3>1, <4>1
    <3>3. CASE m + 1 \in few /\ size[i] > size[m + 1]
      BY <2>3, <3>1, <3>3
    <3>4. CASE m + 1 \in few /\ ~ (size[i] > size[m + 1])
      <4>1. \A j \in few : Better(m + 1, j)
        <5> SUFFICES ASSUME NEW j \in few PROVE Better(m + 1, j)
          OBVIOUS
        <5>1. j = m + 1 \/ (Better(i, j) /\ j <= m + 1)
          BY <2>2, <3>1
        <5> QED
          BY <2>3, <3>4, <5>1
      <4> QED
        BY <3>4, <4>1
    <3> QED
      BY <3>2, <3>3, <3>4
  <2> QED
    BY <2>4, <2>5
<1>3. Nat \subseteq Good
  <2> HIDE DEF Good
  <2> QED
    BY <1>1, <1>2, NumberInduction
<1> QED
  BY <1>3

(* Of several positions one is the latest.                                 *)
LEMMA LatestOfSeveral ==
  ASSUME NEW n \in Nat, NEW some \in SUBSET (1..n), some # {}
  PROVE  \E i \in some : \A j \in some : i >= j
<1> DEFINE left == {n - i : i \in some}
<1>1. left \subseteq Nat /\ left # {}
  <2>1. \A i \in some : n - i \in Nat
    OBVIOUS
  <2> QED
    BY <2>1
<1>2. PICK m \in left : \A k \in left : m <= k
  <2> HIDE DEF left
  <2> QED
    BY <1>1, LeastNumber
<1>3. PICK i \in some : m = n - i
  BY <1>2
<1>4. ASSUME NEW j \in some PROVE i >= j
  <2>1. n - j \in left
    OBVIOUS
  <2>2. n - i <= n - j
    BY <1>2, <1>3, <2>1
  <2> QED
    BY <2>2
<1> QED
  BY <1>4

(* The session a request is matched with is in the list and continued by   *)
(* the request, and no session the request continues knows more.           *)
LEMMA BestMatchIsBest ==
  ASSUME NEW sessions \in Seq(Turns), baseline \in [Turns -> Seq(Item)], NEW ask
  PROVE  LET match == BestMatch(sessions, ask)
             continued == {s \in ToSet(sessions) : Continues(s, ask)}
         IN  /\ continued = {} => match = None
             /\ continued # {} =>
                  /\ match \in continued
                  /\ \A s \in continued : Len(baseline[s]) <= Len(baseline[match])
<1> DEFINE n == Len(sessions)
           matching == {i \in 1..n : Continues(sessions[i], ask)}
           size == [i \in 1..n |-> Len(baseline[sessions[i]])]
           longer(i, j) == \/ Len(baseline[sessions[i]]) > Len(baseline[sessions[j]])
                           \/ /\ Len(baseline[sessions[i]]) = Len(baseline[sessions[j]])
                              /\ i >= j
           best == CHOOSE i \in matching : \A j \in matching : longer(i, j)
           continued == {s \in ToSet(sessions) : Continues(s, ask)}
<1>1. /\ n \in Nat /\ \A i \in 1..n : sessions[i] \in Turns
      /\ ToSet(sessions) = {sessions[i] : i \in 1..n}
  BY LenProperties DEF ToSet
<1>2. BestMatch(sessions, ask) = IF matching = {} THEN None ELSE sessions[best]
  BY DEF BestMatch
<1>3. size \in [1..n -> Nat]
  BY <1>1, LenProperties
<1>4. continued = {sessions[i] : i \in matching}
  BY <1>1
<1>5. ASSUME matching # {}
      PROVE  best \in matching /\ \A j \in matching : longer(best, j)
  <2>1. matching \in SUBSET (1..n)
    OBVIOUS
  <2>2. \E i \in matching : \A j \in matching :
           size[i] > size[j] \/ (size[i] = size[j] /\ i >= j)
    <3> HIDE DEF n, size, matching
    <3> QED
      BY <1>1, <1>3, <1>5, <2>1, BestOfSeveral
  <2>3. \E i \in matching : \A j \in matching : longer(i, j)
    BY <2>2
  <2> HIDE DEF matching, longer
  <2> QED
    BY <2>3
<1>6. CASE matching = {}
  BY <1>2, <1>4, <1>6
<1>7. CASE matching # {}
  <2>1. best \in matching /\ \A j \in matching : longer(best, j)
    BY <1>5, <1>7
  <2> HIDE DEF best
  <2>2. BestMatch(sessions, ask) = sessions[best] /\ sessions[best] \in continued
    BY <1>2, <1>4, <1>7, <2>1
  <2>3. \A j \in matching : Len(baseline[sessions[j]]) <= Len(baseline[sessions[best]])
    <3>1. \A j \in matching : /\ Len(baseline[sessions[j]]) \in Nat
                              /\ Len(baseline[sessions[best]]) \in Nat
      BY <1>3, <2>1
    <3> QED
      BY <2>1, <3>1
  <2> QED
    BY <1>4, <2>2, <2>3
<1> QED
  BY <1>6, <1>7

(* The last use of a session is a position in the history of uses, the     *)
(* last where the session is, and 0 if there is none.                      *)
LEMMA LastUseIs ==
  ASSUME used \in Seq(Turns), NEW s \in Turns
  PROVE  \/ /\ LastUse(s) = 0 /\ \A i \in 1..Len(used) : used[i] # s
         \/ /\ LastUse(s) \in 1..Len(used) /\ used[LastUse(s)] = s
            /\ \A j \in (LastUse(s) + 1)..Len(used) : used[j] # s
<1> DEFINE n == Len(used)
           uses == {i \in 1..n : used[i] = s}
           Latest(i) == used[i] = s /\ \A j \in (i + 1)..n : used[j] # s
<1>1. n \in Nat
  BY LenProperties
<1>2. CASE uses = {}
  BY <1>2 DEF LastUse
<1>3. CASE uses # {}
  <2>1. uses \in SUBSET (1..n)
    OBVIOUS
  <2>2. \E i \in uses : \A j \in uses : i >= j
    <3> HIDE DEF n, uses
    <3> QED
      BY <1>1, <1>3, <2>1, LatestOfSeveral
  <2>3. PICK i \in uses : \A j \in uses : i >= j
    BY <2>2
  <2>4. Latest(i)
    BY <1>1, <2>3
  <2>5. LastUse(s) = CHOOSE k \in 1..n : Latest(k)
    BY <1>3 DEF LastUse
  <2>6. \E k \in 1..n : Latest(k)
    BY <2>3, <2>4
  <2>7. LastUse(s) \in 1..n /\ Latest(LastUse(s))
    <3> HIDE DEF Latest, n
    <3> QED
      BY <2>5, <2>6
  <2> QED
    BY <2>7
<1> QED
  BY <1>2, <1>3

(* Using a session makes it the last used, and no other later used.        *)
LEMMA LastUseAfter ==
  ASSUME used \in Seq(Turns), NEW mine \in Turns, used' = Append(used, mine)
  PROVE  /\ \A s \in Turns : LastUse(s) \in 0..Len(used)
         /\ LastUse(mine)' = Len(used) + 1
         /\ \A s \in Turns \ {mine} : LastUse(s)' = LastUse(s)
<1> DEFINE n == Len(used)
<1>1. /\ n \in Nat /\ used' \in Seq(Turns) /\ Len(used') = n + 1
      /\ \A i \in 1..n : used'[i] = used[i]
      /\ used'[n + 1] = mine
  BY LenProperties, AppendProperties
<1>2. ASSUME NEW s \in Turns
      PROVE  \/ /\ LastUse(s) = 0 /\ \A i \in 1..n : used[i] # s
             \/ /\ LastUse(s) \in 1..n /\ used[LastUse(s)] = s
                /\ \A j \in (LastUse(s) + 1)..n : used[j] # s
  BY LastUseIs
<1>3. ASSUME NEW s \in Turns
      PROVE  \/ /\ LastUse(s)' = 0 /\ \A i \in 1..(n + 1) : used'[i] # s
             \/ /\ LastUse(s)' \in 1..(n + 1) /\ used'[LastUse(s)'] = s
                /\ \A j \in (LastUse(s)' + 1)..(n + 1) : used'[j] # s
  <2>1. (used \in Seq(Turns))' /\ s \in Turns
    BY <1>1
  <2>2. (\/ /\ LastUse(s) = 0 /\ \A i \in 1..Len(used) : used[i] # s
         \/ /\ LastUse(s) \in 1..Len(used) /\ used[LastUse(s)] = s
            /\ \A j \in (LastUse(s) + 1)..Len(used) : used[j] # s)'
    BY <2>1, LastUseIs, PTL
  <2> QED
    BY <1>1, <2>2
<1> HIDE DEF n
<1>4. LastUse(mine)' = n + 1
  <2>1. n + 1 \in 1..(n + 1)
    BY <1>1
  <2>2. LastUse(mine)' \in 1..(n + 1) /\ ~ (n + 1 \in (LastUse(mine)' + 1)..(n + 1))
    BY <1>1, <1>3, <2>1
  <2> QED
    BY <1>1, <2>2
<1>5. ASSUME NEW s \in Turns \ {mine} PROVE LastUse(s)' = LastUse(s)
  <2> DEFINE old == LastUse(s)
             new == LastUse(s)'
  <2>1. \A i \in 1..(n + 1) : used'[i] = s => i \in 1..n /\ used[i] = s
    BY <1>1
  <2>2. \A i \in 1..n : i \in 1..(n + 1) /\ (used'[i] = s <=> used[i] = s)
    BY <1>1
  <2>3. \/ old = 0 /\ \A i \in 1..n : used[i] # s
        \/ old \in 1..n /\ used[old] = s /\ \A j \in (old + 1)..n : used[j] # s
    BY <1>2
  <2>4. \/ new = 0 /\ \A i \in 1..n : used[i] # s
        \/ new \in 1..n /\ used[new] = s /\ \A j \in (new + 1)..n : used[j] # s
    <3>1. CASE new = 0 /\ \A i \in 1..(n + 1) : used'[i] # s
      BY <2>2, <3>1
    <3>2. CASE /\ new \in 1..(n + 1) /\ used'[new] = s
               /\ \A j \in (new + 1)..(n + 1) : used'[j] # s
      <4>1. new \in 1..n /\ used[new] = s
        BY <2>1, <3>2
      <4>2. \A j \in (new + 1)..n : j \in (new + 1)..(n + 1) /\ j \in 1..n
        BY <1>1, <4>1
      <4> QED
        BY <2>2, <3>2, <4>1, <4>2
    <3> QED
      BY <1>3, <3>1, <3>2
  <2> HIDE DEF old, new
  <2>5. new = old
    <3>1. CASE new = 0 \/ old = 0
      BY <2>3, <2>4, <3>1
    <3>2. CASE new # 0 /\ old # 0
      <4>1. /\ ~ (new \in (old + 1)..n) /\ ~ (old \in (new + 1)..n)
            /\ new \in 1..n /\ old \in 1..n
        BY <2>3, <2>4, <3>2
      <4> QED
        BY <1>1, <4>1
    <3> QED
      BY <3>1, <3>2
  <2> QED
    BY <2>5 DEF old, new
<1> QED
  BY <1>1, <1>2, <1>4, <1>5 DEF n

-----------------------------------------------------------------------------
(* The types, and the store's order.                                       *)

(* What a client asks and what a response returns are items; of those the  *)
(* client cannot replay reasoning alone.                                   *)
LEMMA ItemTypes ==
  /\ \A u \in Users : User(u) \in Item /\ ~IsServerOnly(User(u))
  /\ \A t \in Turns : /\ Reasoning(t) \in Item /\ IsServerOnly(Reasoning(t))
                      /\ Answer(t) \in Item /\ ~IsServerOnly(Answer(t))
  BY DEF Item, User, Reasoning, Answer, IsServerOnly

(* Whatever a client asks is a conversation.                               *)
LEMMA AskType ==
  ASSUME TypeOK, NEW ask \in Asks
  PROVE  ask \in Seq(Item)
<1>1. ASSUME NEW u \in Users PROVE <<User(u)>> \in Seq(Item)
  <2>1. User(u) \in Item
    BY ItemTypes
  <2> QED
    BY <2>1
<1>2. ASSUME NEW t \in Turns, NEW u \in Users PROVE Append(Told(t), User(u)) \in Seq(Item)
  BY ItemTypes, AppendProperties DEF Told, TypeOK
<1>3. \A t \in Turns : asked[t] \in Seq(Item)
  BY DEF TypeOK
<1>4. \/ \E u \in Users : ask = <<User(u)>>
      \/ \E t \in Turns, u \in Users : ask = Append(Told(t), User(u))
      \/ \E t \in Turns : ask = asked[t]
  BY DEF Asks
<1> QED
  BY <1>1, <1>2, <1>3, <1>4

Distinct == {pair \in Turns \X Turns : pair[1] # pair[2]}

(* No session is in the store twice: each differs from every later one.    *)
LEMMA DistinctIs ==
  ASSUME NEW sessions \in Seq(Turns)
  PROVE  Ordered(sessions, Distinct) <=>
           \A i, j \in 1..Len(sessions) : sessions[i] = sessions[j] => i = j
<1>1. Len(sessions) \in Nat /\ \A i \in 1..Len(sessions) : sessions[i] \in Turns
  BY LenProperties
<1>2. \A i, j \in 1..Len(sessions) :
        /\ i < j \/ j < i \/ i = j
        /\ i < j => i # j
        /\ <<sessions[i], sessions[j]>> \in Distinct <=> sessions[i] # sessions[j]
  BY <1>1 DEF Distinct
<1> HIDE DEF Distinct
<1> QED
  BY <1>2 DEF Ordered

(* The sessions that are still fresh, and the one a request is served by.  *)
LEMMA ResolveType ==
  ASSUME TypeOK, NEW t \in Turns, NEW ask, Resolve(t, ask)
  PROVE  /\ Fresh(store) \in Seq(Turns) /\ ToSet(Fresh(store)) = Live \ idle
         /\ \A rel : Ordered(store, rel) => Ordered(Fresh(store), rel)
         /\ session'[t] \in Turns
         /\ store' = Truncated(ToFront(session'[t], Fresh(store)))
         /\ used' = Append(used, session'[t])
         /\ session' = [session EXCEPT ![t] = session'[t]]
<1>1. /\ Fresh(store) \in Seq(Turns) /\ ToSet(Fresh(store)) = Live \ idle
      /\ \A rel : Ordered(store, rel) => Ordered(Fresh(store), rel)
  BY WithoutType DEF TypeOK, Fresh, Live
<1>2. ToSet(Fresh(store)) \subseteq Turns
  BY <1>1, LenProperties DEF ToSet
<1> DEFINE match == BestMatch(Fresh(store), ask)
           mine == IF match = None THEN t ELSE match
<1>3. match = None \/ match \in Turns
  BY <1>1, <1>2, BestMatchIsBest DEF TypeOK
<1>4. session' = [session EXCEPT ![t] = mine] /\ used' = Append(used, mine)
      /\ store' = Truncated(ToFront(mine, Fresh(store)))
  BY DEF Resolve
<1> HIDE DEF match
<1>5. mine \in Turns /\ session'[t] = mine
  BY <1>3, <1>4 DEF TypeOK
<1> QED
  BY <1>1, <1>4, <1>5

(* A turn has a session from the moment it resolves one.                   *)
Resolved == \A t \in Turns : pc[t] = "idle" <=> session[t] = None

(* Every step keeps the types; the store keeps no session twice and never  *)
(* more than its capacity.                                                 *)
LEMMA TypeStep ==
  ASSUME TypeOK, Resolved, [Next]_vars
  PROVE  TypeOK' /\ Resolved'
<1>0. \A t \in Turns : pc[t] # "idle" =>
        session[t] \in Turns /\ baseline[session[t]] \in Seq(Item)
  BY DEF TypeOK, Resolved
<1>1. ASSUME NEW t \in Turns, NEW ask \in Asks, Resolve(t, ask) PROVE TypeOK' /\ Resolved'
  <2>1. /\ Fresh(store) \in Seq(Turns) /\ Ordered(Fresh(store), Distinct)
        /\ session'[t] \in Turns
        /\ store' = Truncated(ToFront(session'[t], Fresh(store)))
        /\ used' = Append(used, session'[t])
        /\ session' = [session EXCEPT ![t] = session'[t]]
    BY <1>1, ResolveType, DistinctIs DEF TypeOK
  <2>2. \A s \in ToSet(Fresh(store)) : s \in Turns
    BY <2>1, LenProperties DEF ToSet
  <2>3. store' \in Seq(Turns) /\ Len(store') <= Capacity /\ Ordered(store', Distinct)
    <3>1. \A s \in ToSet(Fresh(store)) \ {session'[t]} : <<session'[t], s>> \in Distinct
      BY <2>1, <2>2 DEF Distinct
    <3> QED
      BY <2>1, <3>1, ToFrontType
  <2>4. \A i, j \in 1..Len(store') : store'[i] = store'[j] => i = j
    BY <2>3, DistinctIs
  <2>5. used' \in Seq(Turns)
    BY <2>1, AppendProperties DEF TypeOK
  <2>6. asked' \in [Turns -> Seq(Item)]
    BY <1>1, AskType DEF TypeOK, Resolve
  <2>7. idle' = {} /\ pc' \in [Turns -> {"idle", "claim", "serve", "done"}]
        /\ UNCHANGED <<baseline, confirmed, input, returned>>
    BY <1>1 DEF TypeOK, Resolve
  <2>8. session' \in [Turns -> Turns \cup {None}]
    BY <2>1 DEF TypeOK
  <2>9. Resolved'
    BY <1>1, <2>1, NoneAssumption DEF TypeOK, Resolved, Resolve
  <2> QED
    BY <2>3, <2>4, <2>5, <2>6, <2>7, <2>8, <2>9 DEF TypeOK
<1>2. ASSUME NEW t \in Turns, Claim(t) PROVE TypeOK' /\ Resolved'
  <2>1. ReconciledOrAsSent(baseline[session[t]], asked[t]) \in Seq(Item)
    BY <1>0, <1>2, ReconcileType DEF TypeOK, Claim
  <2> QED
    BY <1>2, <2>1 DEF TypeOK, Resolved, Claim, Live
<1>3. ASSUME NEW t \in Turns, Close(t) PROVE TypeOK' /\ Resolved'
  <2>1. PICK answer \in {<<Answer(t)>>, <<Reasoning(t), Answer(t)>>} :
          /\ returned' = [returned EXCEPT ![t] = answer]
          /\ baseline' = [baseline EXCEPT ![session[t]] = input[t] \o answer]
    BY <1>3 DEF Close
  <2>2. answer \in Seq(Item)
    <3>1. Answer(t) \in Item /\ Reasoning(t) \in Item
      BY ItemTypes
    <3>2. <<Answer(t)>> \in Seq(Item)
      BY <3>1
    <3>3. <<Reasoning(t), Answer(t)>> \in Seq(Item)
      BY <3>1
    <3> QED
      BY <2>1, <3>2, <3>3
  <2>3. input[t] \o answer \in Seq(Item)
    BY <2>2, ConcatProperties DEF TypeOK
  <2>4. returned' \in [Turns -> Seq(Item)] /\ baseline' \in [Turns -> Seq(Item)]
    BY <2>1, <2>2, <2>3 DEF TypeOK
  <2> QED
    BY <1>3, <2>4 DEF TypeOK, Resolved, Close, Live
<1>4. ASSUME NEW t \in Turns, Drop(t) PROVE TypeOK' /\ Resolved'
  BY <1>4 DEF TypeOK, Resolved, Drop, Live
<1>5. ASSUME GoIdle PROVE TypeOK' /\ Resolved'
  <2>1. PICK n \in 1..Len(store) : idle' = {store[i] : i \in n..Len(store)}
    BY <1>5 DEF GoIdle
  <2>2. Len(store) \in Nat /\ DOMAIN store = 1..Len(store)
    BY LenProperties DEF TypeOK
  <2>3. idle' \subseteq Live
    BY <2>1, <2>2 DEF Live, ToSet
  <2> QED
    BY <1>5, <2>3 DEF TypeOK, Resolved, GoIdle, Live
<1>6. ASSUME Clear PROVE TypeOK' /\ Resolved'
  <2>1. store' \in Seq(Turns) /\ Len(store') = 0 /\ idle' = {}
    BY <1>6 DEF Clear
  <2> QED
    BY <1>6, <2>1, CapacityAssumption DEF TypeOK, Resolved, Clear
<1>7. ASSUME UNCHANGED vars PROVE TypeOK' /\ Resolved'
  BY <1>7 DEF TypeOK, Resolved, vars, Live
<1> QED
  BY <1>1, <1>2, <1>3, <1>4, <1>5, <1>6, <1>7 DEF Next

(* The store starts empty, and no turn has asked.                          *)
LEMMA TypeInit == Init => TypeOK /\ Resolved
  BY CapacityAssumption DEF Init, TypeOK, Resolved

(* Every variable has its type; the store keeps no session twice and never *)
(* more than its capacity (proxy/src/session.rs, CAPACITY and `resolve`).  *)
THEOREM TypeCorrect == Spec => []TypeOK
<1>1. Init => TypeOK /\ Resolved
  BY TypeInit
<1>2. TypeOK /\ Resolved /\ [Next]_vars => (TypeOK /\ Resolved)'
  BY TypeStep
<1> QED
  BY <1>1, <1>2, PTL DEF Spec

-----------------------------------------------------------------------------
(* What the store forgets.                                                 *)

(* Pairs of sessions the first of which was used later.                    *)
Later == {pair \in Turns \X Turns : LastUse(pair[1]) > LastUse(pair[2])}

(* A step that resolves no session uses none.                              *)
LEMMA LaterUnchanged ==
  ASSUME used' = used
  PROVE  Later' = Later /\ \A s : LastUse(s)' = LastUse(s)
  BY DEF Later, LastUse

(* The sessions are in the order of their last use, and a session that a   *)
(* request pushes out was used before every session that stays.            *)
LEMMA ResolveOrders ==
  ASSUME TypeOK, Ordered(store, Later), NEW t \in Turns, NEW ask, Resolve(t, ask)
  PROVE  /\ Ordered(store, Later)'
         /\ \A gone \in (Live \ Live') \ idle, kept \in Live' : LastUse(gone)' < LastUse(kept)'
<1> DEFINE fresh == Fresh(store)
<1>0. PICK mine \in Turns : mine = session'[t]
  BY ResolveType
<1>1. /\ fresh \in Seq(Turns) /\ ToSet(fresh) = Live \ idle /\ Ordered(fresh, Later)
      /\ mine \in Turns /\ store' = Truncated(ToFront(mine, fresh))
      /\ used' = Append(used, mine)
  BY <1>0, ResolveType
<1>2. \A s \in ToSet(fresh) : s \in Turns
  BY <1>1, LenProperties DEF ToSet
<1> HIDE DEF fresh
<1>3. /\ \A s \in Turns : LastUse(s) \in 0..Len(used)
      /\ LastUse(mine)' = Len(used) + 1
      /\ \A s \in Turns \ {mine} : LastUse(s)' = LastUse(s)
      /\ Len(used) \in Nat
  BY <1>1, LastUseAfter, LenProperties DEF TypeOK
<1> DEFINE old == Later
           new == Later'
<1>4. /\ \A a, b \in Turns : <<a, b>> \in old <=> LastUse(a) > LastUse(b)
      /\ \A a, b \in Turns : <<a, b>> \in new <=> LastUse(a)' > LastUse(b)'
  BY DEF Later
<1> HIDE DEF old, new
<1>5. \A s \in ToSet(fresh) \ {mine} : <<mine, s>> \in new
  BY <1>1, <1>2, <1>3, <1>4
<1>6. \A a, b \in ToSet(fresh) \ {mine} : <<a, b>> \in old => <<a, b>> \in new
  BY <1>2, <1>3, <1>4
<1>7. Ordered(fresh, old)
  BY <1>1 DEF old
<1>8. /\ Ordered(store', new) /\ store' \in Seq(Turns)
      /\ \A s \in ToSet(store'), r \in ToSet(fresh) \ ToSet(store') : <<s, r>> \in new
  BY <1>1, <1>5, <1>6, <1>7, ToFrontType
<1>9. \A s \in ToSet(store') : s \in Turns
  BY <1>8, LenProperties DEF ToSet
<1>10. ASSUME NEW gone \in (Live \ Live') \ idle, NEW kept \in Live'
       PROVE  LastUse(gone)' < LastUse(kept)'
  <2>1. gone \in ToSet(fresh) \ ToSet(store') /\ kept \in ToSet(store')
    BY <1>1 DEF Live
  <2>2. gone \in Turns /\ kept \in Turns /\ <<kept, gone>> \in new
    BY <1>2, <1>8, <1>9, <2>1
  <2>3. LastUse(kept)' > LastUse(gone)'
    BY <1>4, <2>2
  <2>4. LastUse(kept)' \in Int /\ LastUse(gone)' \in Int
    BY <1>3, <2>2
  <2> QED
    BY <2>3, <2>4
<1>11. Ordered(store, Later)'
  BY <1>8 DEF new, Ordered
<1> QED
  BY <1>10, <1>11

(* Every other step uses no session, and leaves the store or empties it.   *)
LEMMA OthersKeepOrder ==
  ASSUME TypeOK, Ordered(store, Later), [Next]_vars,
         ~ \E t \in Turns, ask \in Asks : Resolve(t, ask)
  PROVE  /\ Ordered(store, Later)'
         /\ Live' = Live \/ Live' = {}
<1>1. used' = used /\ (store' = store \/ store' = << >>)
  BY DEF Next, Claim, Close, Drop, GoIdle, Clear, vars
<1>2. Later' = Later
  BY <1>1, LaterUnchanged
<1>3. CASE store' = store
  BY <1>2, <1>3 DEF Ordered, Live
<1>4. CASE store' = << >>
  <2>1. Len(store') = 0 /\ ToSet(store') = {}
    BY <1>4, EmptySeq DEF ToSet
  <2> QED
    BY <2>1 DEF Ordered, Live
<1> QED
  BY <1>1, <1>3, <1>4

(* Every step keeps the store in order and forgets in order.               *)
LEMMA OrderStep ==
  ASSUME TypeOK, Ordered(store, Later), [Next]_vars
  PROVE  /\ Ordered(store, Later)'
         /\ \A gone \in (Live \ Live') \ idle :
              Live' # {} => \A kept \in Live' : LastUse(gone)' < LastUse(kept)'
<1>1. CASE \E t \in Turns, ask \in Asks : Resolve(t, ask)
  BY <1>1, ResolveOrders
<1>2. CASE ~ \E t \in Turns, ask \in Asks : Resolve(t, ask)
  <2>1. Ordered(store, Later)' /\ (Live' = Live \/ Live' = {})
    BY <1>2, OthersKeepOrder
  <2> QED
    BY <2>1
<1> QED
  BY <1>1, <1>2

(* session.rs CAPACITY: "eviction is by least recent use".  Whatever the   *)
(* capacity, a session that a new conversation pushes out, not having gone *)
(* idle, was used before every session that stays.                         *)
THEOREM EvictionIsByLeastRecentUse == Spec => EvictsLeastRecentlyUsed
<1>1. Init => TypeOK /\ Resolved /\ Ordered(store, Later)
  <2>1. Init => Len(store) = 0
    BY EmptySeq DEF Init
  <2>2. Init => Ordered(store, Later)
    BY <2>1 DEF Ordered
  <2> QED
    BY <2>2, TypeInit
<1>2. TypeOK /\ Resolved /\ Ordered(store, Later) /\ [Next]_vars
        => (TypeOK /\ Resolved /\ Ordered(store, Later))'
  BY TypeStep, OrderStep
<1>3. TypeOK /\ Resolved /\ Ordered(store, Later) /\ [Next]_vars
        => [\A gone \in (Live \ Live') \ idle :
              Live' # {} => \A kept \in Live' : LastUse(gone)' < LastUse(kept)']_vars
  BY OrderStep
<1> QED
  BY <1>1, <1>2, <1>3, PTL DEF Spec, EvictsLeastRecentlyUsed

-----------------------------------------------------------------------------
(* Which session a follow-up finds.                                        *)

Replayable == {item \in Item : ~IsServerOnly(item)}

(* Clients ask something, and only what they could see.                    *)
AskOK(t) == /\ asked[t] \in Seq(Replayable)
            /\ pc[t] # "idle" => asked[t] # << >>

(* What goes up for a turn is to its client what it asked.                 *)
InputOK(t) == pc[t] \in {"serve", "done"} => ClientView(input[t]) = asked[t]

(* A turn returns its answer, after reasoning perhaps, or nothing.         *)
ReturnedOK(t) == \/ returned[t] = << >>
                 \/ returned[t] \in {<<Answer(t)>>, <<Reasoning(t), Answer(t)>>}

ClientInv == \A t \in Turns : AskOK(t) /\ InputOK(t) /\ ReturnedOK(t)

(* What a client writes and what it is answered it can replay.             *)
LEMMA ReplayableItems ==
  /\ Replayable \subseteq Item /\ Seq(Replayable) \subseteq Seq(Item)
  /\ \A u \in Users : User(u) \in Replayable
  /\ \A t \in Turns : Answer(t) \in Replayable
<1>1. Replayable \subseteq Item
  BY DEF Replayable
<1> QED
  BY <1>1, ItemTypes, SeqMonotonic DEF Replayable

(* What a client asks it could see, and it asks something.                 *)
LEMMA AskIsReplayable ==
  ASSUME TypeOK, ClientInv, NEW ask \in Asks
  PROVE  ask \in Seq(Replayable) /\ ask # << >>
<1>1. ASSUME NEW u \in Users PROVE <<User(u)>> \in Seq(Replayable) /\ <<User(u)>> # << >>
  <2>1. User(u) \in Replayable
    BY ReplayableItems
  <2> QED
    BY <2>1
<1>2. ASSUME NEW t \in Turns, NEW u \in Users
      PROVE  /\ Append(Told(t), User(u)) \in Seq(Replayable)
             /\ Append(Told(t), User(u)) # << >>
  <2>1. Told(t) \in Seq(Replayable)
    BY ReplayableItems, AppendProperties DEF Told, ClientInv, AskOK
  <2> QED
    BY <2>1, ReplayableItems, AppendProperties
<1>3. \/ \E u \in Users : ask = <<User(u)>>
      \/ \E t \in Turns, u \in Users : ask = Append(Told(t), User(u))
      \/ \E t \in Turns : pc[t] # "idle" /\ ask = asked[t]
  BY DEF Asks
<1> QED
  BY <1>1, <1>2, <1>3 DEF ClientInv, AskOK

(* Every step keeps what is sent and returned in line with what is asked.  *)
LEMMA ClientStep ==
  ASSUME TypeOK, Resolved, ClientInv, [Next]_vars
  PROVE  ClientInv'
<1>1. ASSUME NEW t \in Turns, NEW ask \in Asks, Resolve(t, ask) PROVE ClientInv'
  <2>1. ask \in Seq(Replayable) /\ ask # << >>
    BY AskIsReplayable
  <2>2. /\ asked' = [asked EXCEPT ![t] = ask] /\ pc' = [pc EXCEPT ![t] = "claim"]
        /\ UNCHANGED <<input, returned>>
    BY <1>1 DEF Resolve
  <2> QED
    BY <2>1, <2>2 DEF TypeOK, ClientInv, AskOK, InputOK, ReturnedOK
<1>2. ASSUME NEW t \in Turns, Claim(t) PROVE ClientInv'
  <2>1. /\ input' = [input EXCEPT ![t] = ReconciledOrAsSent(baseline[session[t]], asked[t])]
        /\ pc' = [pc EXCEPT ![t] = "serve"] /\ pc[t] = "claim"
        /\ UNCHANGED <<asked, returned>>
    BY <1>2 DEF Claim
  <2>2. baseline[session[t]] \in Seq(Item) /\ asked[t] \in Seq(Replayable)
    BY <2>1 DEF TypeOK, Resolved, ClientInv, AskOK
  <2>3. ClientView(input'[t]) = asked[t]
    <3>1. input'[t] = ReconciledOrAsSent(baseline[session[t]], asked[t])
      BY <2>1 DEF TypeOK
    <3> QED
      BY <2>2, <3>1, ReconcileIsFaithful DEF Replayable
  <2> QED
    BY <2>1, <2>3 DEF TypeOK, ClientInv, AskOK, InputOK, ReturnedOK
<1>3. ASSUME NEW t \in Turns, Close(t) \/ Drop(t) PROVE ClientInv'
  <2>1. /\ pc' = [pc EXCEPT ![t] = "done"] /\ pc[t] = "serve"
        /\ UNCHANGED <<asked, input>>
        /\ \/ returned' = returned
           \/ returned' = [returned EXCEPT ![t] = <<Answer(t)>>]
           \/ returned' = [returned EXCEPT ![t] = <<Reasoning(t), Answer(t)>>]
    BY <1>3 DEF Close, Drop
  <2> QED
    BY <2>1 DEF TypeOK, ClientInv, AskOK, InputOK, ReturnedOK
<1>4. ASSUME GoIdle \/ Clear \/ UNCHANGED vars PROVE ClientInv'
  BY <1>4 DEF GoIdle, Clear, vars, ClientInv, AskOK, InputOK, ReturnedOK
<1> QED
  BY <1>1, <1>2, <1>3, <1>4 DEF Next

(* Nothing is asked, sent or returned at first.                            *)
LEMMA ClientInit == Init => ClientInv
  BY EmptySeq DEF Init, ClientInv, AskOK, InputOK, ReturnedOK

(* A conversation goes on from itself: the request that replays all of a   *)
(* baseline the client can replay, and adds to it, continues it.           *)
LEMMA ReplayContinues ==
  ASSUME NEW s, NEW view \in Seq(Item), NEW e \in Item, ClientView(baseline[s]) = view
  PROVE  Continues(s, Append(view, e))
<1> DEFINE n == Len(view)  ask == Append(view, e)
<1>1. n \in Nat /\ ask \in Seq(Item) /\ Len(ask) = n + 1 /\ \A i \in 1..n : ask[i] = view[i]
  BY AppendProperties, LenProperties
<1> HIDE DEF ask
<1>2. \A i \in 1..n : ask[i] \in Item
  BY <1>1, ElementOfSeq
<1>3. SubSeq(ask, 1, n) = view
  <2>1. /\ SubSeq(ask, 1, n) \in Seq(Item) /\ Len(SubSeq(ask, 1, n)) = n
        /\ \A i \in 1..n : SubSeq(ask, 1, n)[i] = ask[i]
    BY <1>1, <1>2, SubSeqProperties
  <2>2. \A i \in 1..Len(view) : SubSeq(ask, 1, n)[i] = view[i]
    BY <1>1, <2>1
  <2> QED
    BY <2>1, <2>2, SeqEqual
<1>4. n \in 0..Len(ask)
  BY <1>1
<1> QED
  BY <1>3, <1>4 DEF ask, Continues, Reconciles, Consumes

(* What an answered turn left is to its client what it asked and was told. *)
LEMMA LeftIsTold ==
  ASSUME TypeOK, ClientInv, NEW t \in Turns, Closed(t)
  PROVE  ClientView(input[t] \o returned[t]) = Told(t)
<1>1. /\ input[t] \in Seq(Item) /\ returned[t] \in Seq(Item) /\ ClientView(input[t]) = asked[t]
      /\ asked[t] \in Seq(Item)
      /\ returned[t] \in {<<Answer(t)>>, <<Reasoning(t), Answer(t)>>}
  BY DEF TypeOK, ClientInv, InputOK, ReturnedOK, Closed
<1>2. ClientView(<<Answer(t)>>) = <<Answer(t)>>
  <2>1. Append(<< >>, Answer(t)) = <<Answer(t)>>
    OBVIOUS
  <2> QED
    BY <2>1, ViewOfAppend, ViewOfEmpty, ItemTypes, EmptySeq
<1>3. ClientView(<<Reasoning(t), Answer(t)>>) = <<Answer(t)>>
  <2>1. ClientView(<<Reasoning(t)>>) = << >> /\ <<Reasoning(t)>> \in Seq(Item)
    <3>1. Append(<< >>, Reasoning(t)) = <<Reasoning(t)>>
      OBVIOUS
    <3>2. << >> \in Seq(Item) /\ Reasoning(t) \in Item /\ IsServerOnly(Reasoning(t))
      BY ItemTypes, EmptySeq
    <3>3. ClientView(Append(<< >>, Reasoning(t))) = ClientView(<< >>)
      BY <3>2, ViewOfAppend
    <3>4. Append(<< >>, Reasoning(t)) \in Seq(Item)
      BY <3>2, AppendProperties
    <3> QED
      BY <3>1, <3>3, <3>4, ViewOfEmpty
  <2>2. Append(<<Reasoning(t)>>, Answer(t)) = <<Reasoning(t), Answer(t)>>
    <3> DEFINE one == Append(<<Reasoning(t)>>, Answer(t))
               two == <<Reasoning(t), Answer(t)>>
    <3>1. Reasoning(t) \in Item /\ Answer(t) \in Item
      BY ItemTypes
    <3>2. two \in Seq(Item) /\ Len(two) = 2 /\ two[1] = Reasoning(t) /\ two[2] = Answer(t)
      BY <3>1
    <3>3. /\ <<Reasoning(t)>> \in Seq(Item) /\ Len(<<Reasoning(t)>>) = 1
          /\ <<Reasoning(t)>>[1] = Reasoning(t)
      BY <3>1
    <3>4. one \in Seq(Item) /\ Len(one) = 2 /\ one[1] = Reasoning(t) /\ one[2] = Answer(t)
      BY <3>1, <3>3, AppendProperties
    <3> HIDE DEF one, two
    <3>5. \A i \in 1..Len(one) : one[i] = two[i]
      BY <3>2, <3>4
    <3> QED
      BY <3>2, <3>4, <3>5, SeqEqual DEF one, two
  <2>3. Append(<< >>, Answer(t)) = <<Answer(t)>>
    OBVIOUS
  <2> QED
    BY <2>1, <2>2, <2>3, ViewOfAppend, ItemTypes
<1>4. ClientView(returned[t]) = <<Answer(t)>>
  BY <1>1, <1>2, <1>3
<1>5. ClientView(input[t] \o returned[t]) = asked[t] \o <<Answer(t)>>
  BY <1>1, <1>4, ViewOfConcat
<1> QED
  BY <1>1, <1>5, ItemTypes, AppendIsConcat DEF Told

(* session.rs `best_match`: however a conversation grew, the client's next *)
(* message is served by the session that holds what its last turn left, if *)
(* that is live, or by one that knows more of the same conversation.       *)
THEOREM FollowUpsAreFound == Spec => []FollowUpFindsItsSession
<1>1. TypeOK /\ ClientInv => FollowUpFindsItsSession
  <2> SUFFICES ASSUME TypeOK, ClientInv, NEW t \in Turns, NEW u \in Users, Closed(t),
                      session[t] \in Live \ idle,
                      baseline[session[t]] = input[t] \o returned[t]
               PROVE  LET next == BestMatch(Fresh(store), Append(Told(t), User(u)))
                      IN  next # None /\ Len(baseline[next]) >= Len(baseline[session[t]])
    BY DEF FollowUpFindsItsSession
  <2> DEFINE ask == Append(Told(t), User(u))
             next == BestMatch(Fresh(store), ask)
             continued == {s \in ToSet(Fresh(store)) : Continues(s, ask)}
  <2>1. Fresh(store) \in Seq(Turns) /\ ToSet(Fresh(store)) = Live \ idle
    BY WithoutType DEF TypeOK, Fresh, Live
  <2>2. \A s \in ToSet(Fresh(store)) : s \in Turns
    BY <2>1, LenProperties DEF ToSet
  <2>3. Told(t) \in Seq(Item) /\ User(u) \in Item
    BY ItemTypes, AppendProperties DEF Told, TypeOK
  <2>4. Continues(session[t], ask)
    BY <2>3, LeftIsTold, ReplayContinues
  <2>5. session[t] \in continued
    BY <2>1, <2>4
  <2> HIDE DEF ask
  <2>6. next \in continued /\ \A s \in continued : Len(baseline[s]) <= Len(baseline[next])
    BY <2>1, <2>5, BestMatchIsBest DEF TypeOK
  <2>7. next \in Turns
    BY <2>2, <2>6
  <2>8. /\ Len(baseline[session[t]]) <= Len(baseline[next])
        /\ Len(baseline[session[t]]) \in Nat /\ Len(baseline[next]) \in Nat
    <3>1. session[t] \in Turns
      BY <2>2, <2>5
    <3> QED
      BY <2>5, <2>6, <2>7, <3>1, LenProperties DEF TypeOK
  <2> QED
    BY <2>7, <2>8, NoneAssumption DEF ask
<1>2. Init => TypeOK /\ Resolved /\ ClientInv
  BY TypeInit, ClientInit
<1>3. TypeOK /\ Resolved /\ ClientInv /\ [Next]_vars => (TypeOK /\ Resolved /\ ClientInv)'
  BY TypeStep, ClientStep
<1> QED
  BY <1>1, <1>2, <1>3, PTL DEF Spec

-----------------------------------------------------------------------------
(* Whose conversation a session is, when claims are uninterrupted.         *)

(* Once its claim is past, a turn's session holds a conversation that      *)
(* opened as the turn's own.                                               *)
SettledOK(t) == pc[t] \in {"serve", "done"} =>
  baseline[session[t]] # << >> /\ Head(baseline[session[t]]) = Head(asked[t])

(* Before it, the session is new, or holds such a conversation.            *)
ClaimOK(t) == pc[t] = "claim" =>
  baseline[session[t]] = << >> \/ Head(baseline[session[t]]) = Head(asked[t])

(* What is sent opens as what was asked.                                   *)
SentOK(t) == pc[t] = "serve" => input[t] # << >> /\ Head(input[t]) = Head(asked[t])

(* A session was created for the turn it is named after.                   *)
CreatedOK(t) == session[t] # None => session[session[t]] = session[t]

(* A session is empty before its turn asks, and not once it is confirmed.  *)
EmptyOK(t) == /\ pc[t] = "idle" => baseline[t] = << >>
              /\ confirmed[t] => baseline[t] # << >>

(* One turn at a time is between its resolve and its claim.                *)
OneClaims == \A s, t \in Turns : pc[s] = "claim" /\ pc[t] = "claim" => s = t

OpeningInv ==
  /\ \A t \in Turns : SettledOK(t) /\ ClaimOK(t) /\ SentOK(t) /\ CreatedOK(t) /\ EmptyOK(t)
  /\ \A s \in Live : session[s] = s
  /\ OneClaims

(* At first there is no session and no turn has one.                       *)
LEMMA OpeningInit == Init => OpeningInv
<1>1. Init => Live = {}
  BY EmptySeq DEF Init, Live, ToSet
<1> QED
  BY <1>1 DEF Init, OpeningInv, SettledOK, ClaimOK, SentOK, CreatedOK, EmptyOK, OneClaims

(* A request that continues a conversation opens as it does, if that opens *)
(* with an item the client can replay.                                     *)
LEMMA ContinuedOpensAlike ==
  ASSUME NEW base \in Seq(Item), base # << >>, ~IsServerOnly(Head(base)),
         NEW ask \in Seq(Item), Reconciles(base, ask)
  PROVE  Head(ask) = Head(base)
<1>1. PICK n \in 0..Len(ask) : SubSeq(ask, 1, n) = ClientView(base)
  BY DEF Reconciles, Consumes
<1>2. ClientView(base) # << >> /\ Head(ClientView(base)) = Head(base)
  BY ViewOpensAlike
<1>3. Len(ask) \in Nat /\ \A i \in 1..Len(ask) : ask[i] \in Item
  BY LenProperties
<1>4. n # 0
  BY <1>1, <1>2, SubSeqEmpty
<1>5. /\ 1 \in 1..n /\ \A i \in 1..n : ask[i] \in Item
  BY <1>3, <1>4
<1>6. SubSeq(ask, 1, n) \in Seq(Item) /\ SubSeq(ask, 1, n)[1] = ask[1]
  BY <1>5, SubSeqProperties
<1>7. ask # << >>
  BY <1>3, <1>4, EmptySeq
<1>8. \A s \in Seq(Item) : s # << >> => Head(s) = s[1]
  OBVIOUS
<1> QED
  BY <1>1, <1>2, <1>6, <1>7, <1>8

(* What is sent for a request opens as the request, if the session is new  *)
(* or its conversation opens so.                                           *)
LEMMA SentOpensAlike ==
  ASSUME NEW base \in Seq(Item), NEW ask \in Seq(Replayable), ask # << >>,
         base = << >> \/ Head(base) = Head(ask)
  PROVE  LET sent == ReconciledOrAsSent(base, ask)
         IN  sent # << >> /\ Head(sent) = Head(ask)
<1>0. ask \in Seq(Item)
  BY ReplayableItems
<1>1. CASE ~Reconciles(base, ask)
  BY <1>1 DEF ReconciledOrAsSent
<1>2. CASE Reconciles(base, ask)
  <2>1. PICK n \in 0..Len(ask) :
          /\ SubSeq(ask, n + 1, Len(ask)) \in Seq(Item)
          /\ SubSeq(ask, 1, n) = ClientView(base)
          /\ Reconcile(base, ask) = base \o SubSeq(ask, n + 1, Len(ask))
    BY <1>0, <1>2, ReconcileSplits
  <2> DEFINE added == SubSeq(ask, n + 1, Len(ask))
  <2>2. ReconciledOrAsSent(base, ask) = base \o added
    BY <1>2, <2>1 DEF ReconciledOrAsSent
  <2>3. CASE base = << >>
    <3>1. SubSeq(ask, 1, n) = << >>
      BY <2>1, <2>3, ViewOfEmpty
    <3>2. /\ Len(ask) \in Nat
          /\ \A i \in 1..n : ask[i] \in Item
      BY <1>0, LenProperties
    <3>3. n = 0
      BY <3>1, <3>2, SubSeqProperties, EmptySeq
    <3>4. added = ask
      BY <1>0, <3>3, SubSeqFull
    <3> QED
      BY <1>0, <2>2, <2>3, <3>4, ConcatEmptySeq
  <2>4. CASE base # << >>
    <3>1. Len(base) \in Nat /\ Len(base) # 0 /\ Head(base) = base[1]
      BY <2>4, LenProperties, EmptySeq
    <3>2. /\ base \o added \in Seq(Item) /\ Len(base \o added) = Len(base) + Len(added)
          /\ \A i \in 1..(Len(base) + Len(added)) :
               (base \o added)[i] = IF i <= Len(base) THEN base[i] ELSE added[i - Len(base)]
      BY <2>1, ConcatProperties
    <3>3. Len(added) \in Nat
      BY <2>1, LenProperties
    <3> HIDE DEF added
    <3>4. (base \o added)[1] = base[1] /\ Len(base \o added) # 0
      BY <3>1, <3>2, <3>3
    <3>5. base \o added # << >> /\ Head(base \o added) = (base \o added)[1]
      BY <3>2, <3>4, EmptySeq
    <3> QED
      BY <2>2, <2>4, <3>1, <3>4, <3>5
  <2> QED
    BY <2>3, <2>4
<1> QED
  BY <1>1, <1>2

(* A request resolves a session of its own, or one whose conversation      *)
(* opens as it does.                                                       *)
LEMMA OpeningResolve ==
  ASSUME Window = FALSE, TypeOK, Resolved, ClientInv, OpeningInv,
         NEW t \in Turns, NEW ask \in Asks, Resolve(t, ask)
  PROVE  OpeningInv'
<1> DEFINE fresh == Fresh(store)
           match == BestMatch(fresh, ask)
<1>1. /\ fresh \in Seq(Turns) /\ ToSet(fresh) = Live \ idle
      /\ store' = Truncated(ToFront(session'[t], fresh))
      /\ session'[t] \in Turns /\ session' = [session EXCEPT ![t] = session'[t]]
  BY ResolveType
<1>2. /\ session'[t] = IF match = None THEN t ELSE match
      /\ pc[t] = "idle" /\ \A s \in Turns : pc[s] # "claim"
      /\ pc' = [pc EXCEPT ![t] = "claim"] /\ asked' = [asked EXCEPT ![t] = ask]
      /\ UNCHANGED <<baseline, confirmed, input>>
  BY DEF Resolve, TypeOK
<1>3. match # None => match \in Live /\ match \in Turns /\ Continues(match, ask)
  <2>1. match # None => match \in ToSet(fresh) /\ Continues(match, ask)
    BY <1>1, BestMatchIsBest DEF TypeOK
  <2>2. ToSet(fresh) \subseteq Turns
    BY <1>1, LenProperties DEF ToSet
  <2> QED
    BY <1>1, <2>1, <2>2
<1> HIDE DEF fresh, match
<1>4. \A s \in Live' : s \in Live \/ s = session'[t]
  <2>1. ToSet(store') \subseteq ToSet(fresh) \cup {session'[t]}
    BY <1>1, ToFrontType
  <2> QED
    BY <1>1, <2>1 DEF Live
<1>5. session'[t] # t =>
        /\ session[session'[t]] = session'[t] /\ session'[t] # t
        /\ baseline[session'[t]] # << >> /\ Head(baseline[session'[t]]) = Head(ask)
  <2> SUFFICES ASSUME session'[t] # t
               PROVE  /\ session[match] = match /\ baseline[match] # << >>
                      /\ Head(baseline[match]) = Head(ask)
    BY <1>2
  <2>1. match # None /\ match \in Turns /\ session[match] = match /\ Continues(match, ask)
    BY <1>2, <1>3 DEF OpeningInv
  <2>2. pc[match] \in {"serve", "done"}
    BY <1>2, <2>1 DEF TypeOK, Resolved
  <2>3. /\ baseline[match] # << >> /\ Head(baseline[match]) = Head(asked[match])
        /\ asked[match] \in Seq(Replayable) /\ asked[match] # << >>
    BY <2>1, <2>2 DEF OpeningInv, SettledOK, ClientInv, AskOK
  <2>4. Head(asked[match]) \in Replayable
    BY <2>3, HeadTailProperties
  <2>5. ~IsServerOnly(Head(baseline[match]))
    BY <2>3, <2>4 DEF Replayable
  <2>6. ask \in Seq(Item)
    BY AskType
  <2> QED
    BY <2>1, <2>3, <2>5, <2>6, ContinuedOpensAlike DEF Continues, TypeOK
<1>6. session[t] = None /\ session \in [Turns -> Turns \cup {None}]
  BY <1>2 DEF Resolved, TypeOK
<1>7. \A s \in Turns : s # t =>
        session'[s] = session[s] /\ pc'[s] = pc[s] /\ asked'[s] = asked[s]
  BY <1>1, <1>2 DEF TypeOK
<1>8. pc'[t] = "claim" /\ asked'[t] = ask
  BY <1>2 DEF TypeOK
<1>9. \A s \in Turns : session[s] # None => session[s] \in Turns /\ session[s] # t
  BY <1>6, NoneAssumption DEF OpeningInv, CreatedOK
<1>10. session'[session'[t]] = session'[t]
  BY <1>1, <1>5, <1>7
<1>11. \A s \in Turns : SettledOK(s)' /\ SentOK(s)' /\ EmptyOK(s)'
  BY <1>2, <1>7, <1>8 DEF OpeningInv, SettledOK, SentOK, EmptyOK
<1>12. \A s \in Turns : ClaimOK(s)'
  <2>1. baseline[t] = << >>
    BY <1>2 DEF OpeningInv, EmptyOK
  <2> QED
    BY <1>2, <1>5, <1>7, <1>8, <2>1 DEF ClaimOK
<1>13. \A s \in Turns : CreatedOK(s)'
  BY <1>7, <1>9, <1>10 DEF OpeningInv, CreatedOK
<1>14. \A s \in Live' : session'[s] = s
  <2>1. \A s \in Live : s \in Turns
    BY LenProperties DEF Live, ToSet, TypeOK
  <2>2. \A s \in Live : s # t
    BY <1>6, <2>1, NoneAssumption DEF OpeningInv
  <2> QED
    BY <1>4, <1>7, <1>10, <2>1, <2>2 DEF OpeningInv
<1>15. OneClaims'
  BY <1>2, <1>7 DEF OneClaims
<1> QED
  BY <1>11, <1>12, <1>13, <1>14, <1>15 DEF OpeningInv

(* Claiming a session, the turn makes its conversation the session's.      *)
LEMMA OpeningClaim ==
  ASSUME TypeOK, Resolved, ClientInv, OpeningInv, NEW t \in Turns, Claim(t)
  PROVE  OpeningInv'
<1>1. PICK mine \in Turns : mine = session[t]
  BY DEF TypeOK, Resolved, Claim
<1>2. /\ pc[t] = "claim" /\ pc' = [pc EXCEPT ![t] = "serve"]
      /\ input' = [input EXCEPT ![t] = ReconciledOrAsSent(baseline[mine], asked[t])]
      /\ baseline' = IF confirmed[mine] THEN baseline
                     ELSE [baseline EXCEPT ![mine] = input'[t]]
      /\ UNCHANGED <<store, confirmed, asked, session>>
  BY <1>1 DEF Claim
<1>3. input'[t] # << >> /\ Head(input'[t]) = Head(asked[t])
  <2>1. baseline[mine] = << >> \/ Head(baseline[mine]) = Head(asked[t])
    BY <1>1, <1>2 DEF OpeningInv, ClaimOK
  <2>2. baseline[mine] \in Seq(Item) /\ asked[t] \in Seq(Replayable) /\ asked[t] # << >>
    BY <1>2 DEF TypeOK, ClientInv, AskOK
  <2>3. input'[t] = ReconciledOrAsSent(baseline[mine], asked[t])
    BY <1>2 DEF TypeOK
  <2> QED
    BY <2>1, <2>2, <2>3, SentOpensAlike
<1>4. /\ baseline'[mine] # << >> /\ Head(baseline'[mine]) = Head(asked[t])
      /\ \A s \in Turns : s # mine => baseline'[s] = baseline[s]
  BY <1>1, <1>2, <1>3 DEF TypeOK, OpeningInv, ClaimOK, EmptyOK
<1>5. \A s \in Turns : pc[s] # "idle" => session[s] \in Turns
  BY DEF TypeOK, Resolved
<1>6. pc'[t] = "serve" /\ \A s \in Turns : s # t => pc'[s] = pc[s] /\ pc[s] # "claim"
                                                    /\ input'[s] = input[s]
  BY <1>2 DEF TypeOK, OpeningInv, OneClaims
<1>7. \A s \in Turns : session[s] = mine /\ pc[s] \in {"serve", "done"}
                         => Head(asked[s]) = Head(asked[t])
  BY <1>1, <1>2 DEF OpeningInv, SettledOK, ClaimOK
<1>8. \A s \in Turns : SettledOK(s)'
  <2> SUFFICES ASSUME NEW s \in Turns, pc'[s] \in {"serve", "done"}
               PROVE  /\ baseline'[session[s]] # << >>
                      /\ Head(baseline'[session[s]]) = Head(asked[s])
    BY <1>2 DEF SettledOK
  <2>1. CASE s = t
    BY <1>1, <1>4, <2>1
  <2>2. CASE s # t
    BY <1>4, <1>5, <1>6, <1>7, <2>2 DEF OpeningInv, SettledOK
  <2> QED
    BY <2>1, <2>2
<1>9. \A s \in Turns : ClaimOK(s)' /\ SentOK(s)' /\ CreatedOK(s)'
  BY <1>2, <1>3, <1>6 DEF OpeningInv, ClaimOK, SentOK, CreatedOK
<1>10. \A s \in Turns : EmptyOK(s)'
  <2>1. session[mine] = mine
    BY <1>1, NoneAssumption DEF OpeningInv, CreatedOK
  <2>2. pc[mine] # "idle"
    BY <2>1, NoneAssumption DEF Resolved
  <2> QED
    BY <1>2, <1>4, <1>6, <2>2 DEF OpeningInv, EmptyOK
<1>11. OneClaims' /\ \A s \in Live' : session'[s] = s
  BY <1>2, <1>6 DEF OpeningInv, OneClaims, Live
<1> QED
  BY <1>8, <1>9, <1>10, <1>11 DEF OpeningInv

(* Closing, the turn leaves its session what it sent and was returned.     *)
LEMMA OpeningClose ==
  ASSUME TypeOK, Resolved, ClientInv, OpeningInv, NEW t \in Turns, Close(t)
  PROVE  OpeningInv'
<1>1. PICK mine \in Turns : mine = session[t]
  BY DEF TypeOK, Resolved, Close
<1>2. PICK answer \in Seq(Item) : baseline' = [baseline EXCEPT ![mine] = input[t] \o answer]
  <2>1. <<Answer(t)>> \in Seq(Item) /\ <<Reasoning(t), Answer(t)>> \in Seq(Item)
    <3>1. Answer(t) \in Item /\ Reasoning(t) \in Item
      BY ItemTypes
    <3>2. <<Answer(t)>> \in Seq(Item)
      BY <3>1
    <3>3. <<Reasoning(t), Answer(t)>> \in Seq(Item)
      BY <3>1
    <3> QED
      BY <3>2, <3>3
  <2> QED
    BY <1>1, <2>1 DEF Close
<1>3. /\ pc[t] = "serve" /\ pc' = [pc EXCEPT ![t] = "done"]
      /\ confirmed' = [confirmed EXCEPT ![mine] = TRUE]
      /\ UNCHANGED <<store, input, asked, session>>
  BY <1>1 DEF Close
<1>4. input[t] \in Seq(Item) /\ input[t] # << >> /\ Head(input[t]) = Head(asked[t])
  BY <1>3 DEF TypeOK, OpeningInv, SentOK
<1>5. input[t] \o answer # << >> /\ Head(input[t] \o answer) = Head(input[t])
  <2>1. Len(input[t]) \in Nat /\ Len(input[t]) # 0 /\ Head(input[t]) = input[t][1]
        /\ Len(answer) \in Nat
    BY <1>4, LenProperties, EmptySeq
  <2>2. /\ input[t] \o answer \in Seq(Item)
        /\ Len(input[t] \o answer) = Len(input[t]) + Len(answer)
        /\ \A i \in 1..(Len(input[t]) + Len(answer)) :
             (input[t] \o answer)[i] =
               IF i <= Len(input[t]) THEN input[t][i] ELSE answer[i - Len(input[t])]
    BY <1>4, ConcatProperties
  <2>3. (input[t] \o answer)[1] = input[t][1] /\ Len(input[t] \o answer) # 0
    BY <2>1, <2>2
  <2> QED
    BY <2>1, <2>2, <2>3, EmptySeq
<1>6. /\ baseline'[mine] # << >> /\ Head(baseline'[mine]) = Head(asked[t])
      /\ \A s \in Turns : s # mine => baseline'[s] = baseline[s]
  BY <1>2, <1>4, <1>5 DEF TypeOK
<1>7. \A s \in Turns : pc[s] # "idle" => session[s] \in Turns
  BY DEF TypeOK, Resolved
<1>8. baseline[mine] # << >> /\ Head(baseline[mine]) = Head(asked[t])
  BY <1>1, <1>3 DEF OpeningInv, SettledOK
<1>9. pc'[t] = "done" /\ \A s \in Turns : s # t => pc'[s] = pc[s]
  BY <1>3 DEF TypeOK
<1>10. \A s \in Turns : SettledOK(s)'
  <2> SUFFICES ASSUME NEW s \in Turns, pc'[s] \in {"serve", "done"}
               PROVE  /\ baseline'[session[s]] # << >>
                      /\ Head(baseline'[session[s]]) = Head(asked[s])
    BY <1>3 DEF SettledOK
  <2>1. pc[s] \in {"serve", "done"}
    BY <1>3, <1>9
  <2>2. baseline[session[s]] # << >> /\ Head(baseline[session[s]]) = Head(asked[s])
        /\ session[s] \in Turns
    BY <1>7, <2>1 DEF OpeningInv, SettledOK
  <2> QED
    BY <1>6, <1>8, <2>2
<1>11. \A s \in Turns : ClaimOK(s)'
  BY <1>3, <1>6, <1>7, <1>8, <1>9 DEF OpeningInv, ClaimOK
<1>12. \A s \in Turns : SentOK(s)' /\ CreatedOK(s)'
  BY <1>3, <1>9 DEF OpeningInv, SentOK, CreatedOK
<1>13. \A s \in Turns : EmptyOK(s)'
  <2>1. session[mine] = mine
    BY <1>1, NoneAssumption DEF OpeningInv, CreatedOK
  <2>2. pc[mine] # "idle"
    BY <2>1, NoneAssumption DEF Resolved
  <2> QED
    BY <1>3, <1>6, <1>9, <2>2 DEF TypeOK, OpeningInv, EmptyOK
<1>14. OneClaims' /\ \A s \in Live' : session'[s] = s
  BY <1>3, <1>9 DEF OpeningInv, OneClaims, Live
<1> QED
  BY <1>10, <1>11, <1>12, <1>13, <1>14 DEF OpeningInv

(* Every step keeps each session to one conversation.                      *)
LEMMA OpeningStep ==
  ASSUME Window = FALSE, TypeOK, Resolved, ClientInv, OpeningInv, [Next]_vars
  PROVE  OpeningInv'
<1>1. ASSUME NEW t \in Turns, Drop(t) PROVE OpeningInv'
  BY <1>1 DEF TypeOK, Drop, OpeningInv, SettledOK, ClaimOK, SentOK, CreatedOK, EmptyOK,
              OneClaims, Live
<1>2. ASSUME GoIdle \/ UNCHANGED vars PROVE OpeningInv'
  BY <1>2 DEF GoIdle, vars, OpeningInv, SettledOK, ClaimOK, SentOK, CreatedOK, EmptyOK,
              OneClaims, Live
<1>3. ASSUME Clear PROVE OpeningInv'
  <2>1. Live' = {}
    BY <1>3, EmptySeq DEF Clear, Live, ToSet
  <2> QED
    BY <1>3, <2>1 DEF Clear, OpeningInv, SettledOK, ClaimOK, SentOK, CreatedOK, EmptyOK,
                      OneClaims
<1> QED
  BY <1>1, <1>2, <1>3, OpeningResolve, OpeningClaim, OpeningClose DEF Next

(* ingress.rs, before `seed_if_unconfirmed`: a request does not "join a    *)
(* conversation it has nothing to do with".  Where no request resolves     *)
(* between another's resolve and its claim, the turns one session serves   *)
(* come from conversations that opened with the same message.              *)
THEOREM NoStrangersWhenClaimsAreUninterrupted ==
  ASSUME Window = FALSE
  PROVE  Spec => []NoStrangers
<1>1. TypeOK /\ Resolved /\ OpeningInv => NoStrangers
  <2> SUFFICES ASSUME TypeOK, Resolved, OpeningInv, NEW s \in Turns, NEW t \in Turns,
                      session[s] # None, session[s] = session[t]
               PROVE  Head(asked[s]) = Head(asked[t])
    BY DEF NoStrangers
  <2>1. pc[s] \in {"claim", "serve", "done"} /\ pc[t] \in {"claim", "serve", "done"}
    BY DEF TypeOK, Resolved
  <2>2. CASE pc[s] = "claim" /\ pc[t] = "claim"
    BY <2>2 DEF OpeningInv, OneClaims
  <2>3. CASE ~ (pc[s] = "claim" /\ pc[t] = "claim")
    BY <2>1, <2>3 DEF OpeningInv, SettledOK, ClaimOK
  <2> QED
    BY <2>2, <2>3
<1>2. Init => TypeOK /\ Resolved /\ ClientInv /\ OpeningInv
  BY TypeInit, ClientInit, OpeningInit
<1>3. TypeOK /\ Resolved /\ ClientInv /\ OpeningInv /\ [Next]_vars
        => (TypeOK /\ Resolved /\ ClientInv /\ OpeningInv)'
  BY TypeStep, ClientStep, OpeningStep
<1> QED
  BY <1>1, <1>2, <1>3, PTL DEF Spec

=============================================================================
