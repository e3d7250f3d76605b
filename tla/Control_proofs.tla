---------------------------- MODULE Control_proofs ----------------------------
(***************************************************************************)
(* Proofs about Control, for every number of clients, sessions, accounts,  *)
(* tiers and models: what turns are made as and whose figures are kept,    *)
(* whatever any number of callers ask at once; and, of one caller at a     *)
(* time, that what is persisted is in force and that a refusal moves       *)
(* nothing.                                                                *)
(***************************************************************************)
EXTENDS Control, Items_proofs

-----------------------------------------------------------------------------
(* The credential file as a value.                                         *)

(* A file is a list of entries.                                            *)
LEMMA FileIs ==
  ASSUME NEW f \in FileType
  PROVE  /\ f.selected \in Names \cup {None} /\ f.accounts \in Seq(EntryType)
         /\ Len(f.accounts) \in Nat /\ DOMAIN f.accounts = 1..Len(f.accounts)
         /\ \A i \in 1..Len(f.accounts) :
              /\ f.accounts[i] \in EntryType /\ f.accounts[i].name \in Names
              /\ f.accounts[i].credential.access \in Owners
              /\ f.accounts[i].credential.account \in Owners \cup {None}
              /\ f.accounts[i].credential.kind \in {"grant", "key"}
<1>1. f.selected \in Names \cup {None} /\ f.accounts \in Seq(EntryType)
  BY DEF FileType
<1>2. /\ Len(f.accounts) \in Nat /\ DOMAIN f.accounts = 1..Len(f.accounts)
      /\ \A i \in 1..Len(f.accounts) : f.accounts[i] \in EntryType
  BY <1>1, LenProperties
<1>3. \A e \in EntryType :
        /\ e.name \in Names /\ e.credential.access \in Owners
        /\ e.credential.account \in Owners \cup {None}
        /\ e.credential.kind \in {"grant", "key"}
  BY DEF EntryType, Credentials
<1> QED
  BY <1>1, <1>2, <1>3

(* The entry of a name is the first that has it.                           *)
LEMMA IndexOfIs ==
  ASSUME NEW f \in FileType, NEW name
  PROVE  \/ /\ IndexOf(f, name) = 0
            /\ \A i \in 1..Len(f.accounts) : f.accounts[i].name # name
         \/ /\ IndexOf(f, name) \in 1..Len(f.accounts)
            /\ f.accounts[IndexOf(f, name)].name = name
            /\ \A i \in 1..Len(f.accounts) : f.accounts[i].name = name => IndexOf(f, name) <= i
<1> DEFINE I == {i \in 1..Len(f.accounts) : f.accounts[i].name = name}
<1>1. IndexOf(f, name) = IF I # {} THEN CHOOSE x \in I : \A y \in I : x <= y ELSE 0
  BY Zenon DEF IndexOf, SelectInSeq, Min
<1>2. I \subseteq Nat
  OBVIOUS
<1>3. I # {} => IndexOf(f, name) \in I /\ \A y \in I : IndexOf(f, name) <= y
  <2> HIDE DEF I
  <2>1. I # {} => \E x \in I : \A y \in I : x <= y
    BY <1>2, LeastNumber
  <2> QED
    BY <1>1, <2>1
<1>4. CASE I = {}
  <2>1. IndexOf(f, name) = 0
    BY <1>1, <1>4
  <2> QED
    BY <1>4, <2>1
<1>5. CASE I # {}
  <2> DEFINE found == IndexOf(f, name)
  <2>1. found \in I /\ \A y \in I : found <= y
    BY <1>3, <1>5
  <2> HIDE DEF found
  <2>2. found \in 1..Len(f.accounts) /\ f.accounts[found].name = name
    BY <2>1
  <2>3. \A i \in 1..Len(f.accounts) : f.accounts[i].name = name => found <= i
    BY <2>1
  <2> QED
    BY <2>2, <2>3 DEF found
<1> QED
  BY <1>4, <1>5

(* The other way round.                                                    *)
LEMMA FirstIsFound ==
  ASSUME NEW f \in FileType, NEW i \in 1..Len(f.accounts),
         \A j \in 1..Len(f.accounts) : j < i => f.accounts[j].name # f.accounts[i].name
  PROVE  IndexOf(f, f.accounts[i].name) = i
<1> DEFINE found == IndexOf(f, f.accounts[i].name)
<1>1. /\ found \in 1..Len(f.accounts) /\ f.accounts[found].name = f.accounts[i].name
      /\ found <= i
  BY IndexOfIs
<1>2. ~ (found < i)
  BY <1>1
<1> HIDE DEF found
<1>3. found = i
  BY <1>1, <1>2
<1> QED
  BY <1>3 DEF found

LEMMA StoredIs ==
  ASSUME NEW f \in FileType, NEW name
  PROVE  name \in Stored(f) <=> IndexOf(f, name) # 0
<1>1. \A i \in 1..Len(f.accounts) : i # 0
  BY FileIs
<1> QED
  BY <1>1, FileIs, IndexOfIs DEF Stored

(* The entry that serves turns is the entry of its name.                   *)
LEMMA ServingIs ==
  ASSUME NEW f \in FileType
  PROVE  LET i == SelectedIndex(f)
         IN  \/ /\ Len(f.accounts) = 0 /\ i = 0 /\ ServingName(f) = None
                /\ Spends(f, None) = None
             \/ /\ i \in 1..Len(f.accounts) /\ i # 0 /\ ServingName(f) = f.accounts[i].name
                /\ ServingName(f) \in Names /\ ServingName(f) # None
                /\ IndexOf(f, ServingName(f)) = i /\ ServingName(f) \in Stored(f)
                /\ Spends(f, None) = f.accounts[i].credential.access
                /\ Spends(f, None) \in Owners
<1> DEFINE i == SelectedIndex(f)
           s == f.accounts
<1>1. s \in Seq(EntryType) /\ Len(s) \in Nat
  BY FileIs
<1>2. CASE s = << >>
  BY <1>2, EmptySeq DEF SelectedIndex, ServingName, Spends, PositionOf
<1>3. CASE s # << >>
  <2>1. 1 \in 1..Len(s)
    BY <1>1, <1>3, EmptySeq
  <2>2. i = IF IndexOf(f, f.selected) # 0 THEN IndexOf(f, f.selected) ELSE 1
    BY <1>3 DEF SelectedIndex, Either
  <2>3. i \in 1..Len(s) /\ IndexOf(f, s[i].name) = i
    <3>1. CASE IndexOf(f, f.selected) # 0
      BY <2>2, <3>1, IndexOfIs
    <3>2. CASE IndexOf(f, f.selected) = 0
      <4>1. \A j \in 1..Len(s) : ~ (j < 1)
        OBVIOUS
      <4> QED
        BY <2>1, <2>2, <3>2, <4>1, FirstIsFound
    <3> QED
      BY <3>1, <3>2
  <2>4. i # 0 /\ ServingName(f) = s[i].name
    BY <1>1, <2>3 DEF ServingName
  <2>5. Spends(f, None) = s[i].credential.access
    BY <2>4 DEF Spends, PositionOf
  <2>6. s[i].name \in Names /\ s[i].credential.access \in Owners
    BY <2>3, FileIs
  <2>7. s[i].name # None
    BY <2>6, NoneAssumption
  <2>8. ServingName(f) \in Stored(f)
    BY <2>3, <2>4, StoredIs
  <2> QED
    BY <2>3, <2>4, <2>5, <2>6, <2>7, <2>8
<1> QED
  BY <1>2, <1>3

(* What a name spends is what its first entry says.                        *)
LEMMA SpendsIs ==
  ASSUME NEW f \in FileType, NEW name \in Names
  PROVE  /\ IndexOf(f, name) = 0 => Spends(f, name) = None
         /\ IndexOf(f, name) # 0 =>
              /\ Spends(f, name) = f.accounts[IndexOf(f, name)].credential.access
              /\ Spends(f, name) \in Owners
         /\ name = ServingName(f) => Spends(f, name) = Spends(f, None)
<1>1. name # None /\ PositionOf(f, name) = IndexOf(f, name)
  BY NoneAssumption DEF PositionOf
<1>2. IndexOf(f, name) # 0 => f.accounts[IndexOf(f, name)].credential.access \in Owners
  BY IndexOfIs, FileIs
<1> QED
  BY <1>1, <1>2, ServingIs DEF Spends

LEMMA SpendsType ==
  ASSUME NEW f \in FileType, NEW name \in Names \cup {None}
  PROVE  Spends(f, name) \in Owners \cup {None}
  BY ServingIs, SpendsIs

-----------------------------------------------------------------------------
(* What a verb leaves of it.  A file keeps its form, and its selection,    *)
(* where there is one, names an entry.                                     *)
Kept(f) == f \in FileType /\ f.selected \in Stored(f) \cup {None}

LEMMA StoredNames ==
  ASSUME NEW f, Kept(f)
  PROVE  Stored(f) \subseteq Names
  BY FileIs DEF Kept, Stored

LEMMA ServingNameType ==
  ASSUME NEW f, Kept(f)
  PROVE  ServingName(f) \in Names \cup {None}
  BY ServingIs DEF Kept

LEMMA SelectedIs ==
  ASSUME NEW f, Kept(f), NEW name \in Stored(f)
  PROVE  LET g == Selected(f, name)
         IN  /\ Kept(g) /\ Stored(g) = Stored(f) /\ ServingName(g) = name
             /\ Spends(g, None) = Spends(f, name)
             /\ \A n \in Names : Spends(g, n) = Spends(f, n)
<1> DEFINE g == Selected(f, name)
<1>1. f \in FileType /\ name \in Names
  <2>1. f \in FileType
    BY DEF Kept
  <2>2. Stored(f) \subseteq Names
    BY <2>1, FileIs DEF Stored
  <2> QED
    BY <2>1, <2>2
<1>2. g \in FileType /\ g.accounts = f.accounts /\ g.selected = name
  BY <1>1 DEF Selected, FileType
<1> HIDE DEF g
<1>3. Stored(g) = Stored(f)
  BY <1>2 DEF Stored
<1>4. \A n : IndexOf(g, n) = IndexOf(f, n)
  BY <1>2 DEF IndexOf
<1>5. IndexOf(f, name) # 0
  BY <1>1, StoredIs
<1>6. IndexOf(f, name) \in 1..Len(f.accounts) /\ f.accounts[IndexOf(f, name)].name = name
  BY <1>1, <1>5, IndexOfIs
<1>7. f.accounts # << >>
  BY <1>6, EmptySeq
<1>8. SelectedIndex(g) = IndexOf(f, name)
  BY <1>2, <1>4, <1>5, <1>7 DEF SelectedIndex, Either
<1>9. ServingName(g) = name
  BY <1>2, <1>5, <1>6, <1>8 DEF ServingName
<1>10. \A n \in Names : Spends(g, n) = Spends(f, n)
  BY <1>2, <1>4, NoneAssumption DEF Spends, PositionOf
<1>11. Spends(g, None) = Spends(f, name)
  BY <1>1, <1>2, <1>9, <1>10, SpendsIs
<1> QED
  BY <1>2, <1>3, <1>9, <1>10, <1>11 DEF g, Kept

(* A login of an account that is not there, under a name that is free.     *)
LEMMA AppendedIs ==
  ASSUME NEW f, Kept(f), NEW name \in Names, NEW owner \in Owners, IndexOf(f, name) = 0
  PROVE  LET grant == Grant(owner, owner, owner)
             g     == SelectIfNoneServes(Appended(f, name, Codex, grant), name)
         IN  /\ Kept(g) /\ Stored(g) = Stored(f) \cup {name}
             /\ \A n \in Names \ {name} : Spends(g, n) = Spends(f, n)
             /\ SelectedIndex(f) # 0 => /\ ServingName(g) = ServingName(f)
                                        /\ Spends(g, None) = Spends(f, None)
<1> DEFINE grant == Grant(owner, owner, owner)
           entry == Entry(name, Codex, grant)
           s == f.accounts
           n == Len(s)
           g == Appended(f, name, Codex, grant)
<1>1. f \in FileType /\ s \in Seq(EntryType) /\ n \in Nat
  BY FileIs DEF Kept
<1>2. entry \in EntryType /\ entry.name = name
  BY DEF Entry, Grant, EntryType, Credentials, Providers
<1> HIDE DEF entry
<1>3. /\ Append(s, entry) \in Seq(EntryType) /\ Len(Append(s, entry)) = n + 1
      /\ \A i \in 1..n : Append(s, entry)[i] = s[i]
      /\ Append(s, entry)[n + 1] = entry
  BY <1>1, <1>2, AppendProperties
<1>4. g = [f EXCEPT !.accounts = Append(s, entry)]
  BY DEF Appended, entry
<1>5. g.selected = f.selected /\ g.accounts = Append(s, entry) /\ g \in FileType
  BY <1>1, <1>3, <1>4 DEF FileType
<1> HIDE DEF g
<1>6. \A m : m # name => IndexOf(g, m) = IndexOf(f, m)
  <2> SUFFICES ASSUME NEW m, m # name PROVE IndexOf(g, m) = IndexOf(f, m)
    OBVIOUS
  <2> DEFINE i == IndexOf(f, m)
  <2>1. CASE i = 0
    <3>1. \A j \in 1..n : s[j].name # m
      BY <1>1, <2>1, IndexOfIs
    <3>2. \A j \in 1..(n + 1) : j \in 1..n \/ j = n + 1
      BY <1>1
    <3>3. \A j \in 1..(n + 1) : g.accounts[j].name # m
      BY <1>2, <1>3, <1>5, <3>1, <3>2
    <3>4. 1..Len(g.accounts) = 1..(n + 1)
      BY <1>3, <1>5
    <3>5. IndexOf(g, m) = 0
      BY <1>5, <3>3, <3>4, IndexOfIs
    <3> QED
      BY <2>1, <3>5
  <2>2. CASE i # 0
    <3>1. i \in 1..n /\ s[i].name = m /\ \A j \in 1..n : s[j].name = m => i <= j
      BY <1>1, <2>2, IndexOfIs
    <3> HIDE DEF i
    <3>2. i \in 1..Len(g.accounts) /\ g.accounts[i].name = m
      BY <1>1, <1>3, <1>5, <3>1
    <3>3. ASSUME NEW j \in 1..Len(g.accounts), j < i PROVE g.accounts[j].name # m
      <4>1. j \in 1..n
        BY <1>1, <1>3, <1>5, <3>1, <3>3
      <4>2. s[j].name # m
        BY <1>1, <3>1, <3>3, <4>1
      <4> QED
        BY <1>3, <1>5, <4>1, <4>2
    <3>4. IndexOf(g, m) = i
      BY <1>5, <3>2, <3>3, FirstIsFound
    <3> QED
      BY <3>4 DEF i
  <2> QED
    BY <2>1, <2>2
<1>7. n + 1 \in 1..Len(g.accounts) /\ Len(g.accounts) # 0 /\ g.accounts # << >>
  BY <1>1, <1>3, <1>5, EmptySeq
<1>8. SelectedIndex(g) # 0
  BY <1>5, <1>7, ServingIs
<1>9. SelectIfNoneServes(g, name) = g
  BY <1>8 DEF SelectIfNoneServes
<1>10. Stored(g) = Stored(f) \cup {name}
  <2>1. \A j : j \in 1..Len(g.accounts) <=> j \in 1..n \/ j = n + 1
    BY <1>1, <1>3, <1>5
  <2>2. DOMAIN g.accounts = 1..Len(g.accounts) /\ DOMAIN s = 1..n
    BY <1>1, <1>5, FileIs
  <2>3. \A x : x \in Stored(g) <=> \E j \in 1..Len(g.accounts) : x = g.accounts[j].name
    BY <2>2 DEF Stored
  <2>4. \A x : x \in Stored(f) <=> \E j \in 1..n : x = s[j].name
    BY <2>2 DEF Stored
  <2>5. \A x : x \in Stored(g) <=> x \in Stored(f) \/ x = name
    BY <1>2, <1>3, <1>5, <2>1, <2>3, <2>4
  <2> QED
    BY <2>5
<1>11. Kept(g)
  BY <1>5, <1>10 DEF Kept
<1>12. ASSUME NEW m \in Names \ {name} PROVE Spends(g, m) = Spends(f, m)
  <2>1. IndexOf(g, m) = IndexOf(f, m)
    BY <1>6
  <2>2. IndexOf(f, m) # 0 => IndexOf(f, m) \in 1..n
    BY <1>1, IndexOfIs
  <2> QED
    BY <1>1, <1>3, <1>5, <2>1, <2>2, SpendsIs
<1>13. ASSUME SelectedIndex(f) # 0
       PROVE  ServingName(g) = ServingName(f) /\ Spends(g, None) = Spends(f, None)
  <2> DEFINE i == SelectedIndex(f)
  <2>1. i \in 1..n /\ IndexOf(f, ServingName(f)) = i /\ ServingName(f) = s[i].name
        /\ Spends(f, None) = s[i].credential.access
    BY <1>1, <1>13, ServingIs
  <2>2. s # << >>
    BY <2>1, EmptySeq
  <2>3. i = IF IndexOf(f, f.selected) # 0 THEN IndexOf(f, f.selected) ELSE 1
    BY <2>2 DEF SelectedIndex, Either
  <2>4. f.selected # name
    BY <1>1, FileIs, NoneAssumption, StoredIs DEF Kept
  <2>5. SelectedIndex(g) = i
    BY <1>5, <1>6, <1>7, <2>3, <2>4 DEF SelectedIndex, Either
  <2>6. g.accounts[i] = s[i] /\ i \in 1..Len(g.accounts)
    BY <1>1, <1>3, <1>5, <2>1
  <2> HIDE DEF i
  <2>7. ServingName(g) = s[i].name /\ Spends(g, None) = s[i].credential.access
    BY <1>5, <1>8, <2>5, <2>6, ServingIs
  <2> QED
    BY <2>1, <2>7
<1> QED
  BY <1>9, <1>10, <1>11, <1>12, <1>13 DEF g

LEMMA RenamedIs ==
  ASSUME NEW f, Kept(f), NEW from \in Names, NEW to \in Names, CanRename(f, from, to)
  PROVE  LET g == Renamed(f, from, to)
         IN  /\ Kept(g) /\ Spends(g, None) = Spends(f, None)
             /\ \A n \in Names : from = to \/ n \notin {from, to} => Spends(g, n) = Spends(f, n)
             /\ from # to => /\ to \notin Stored(f) /\ ServingName(g) # from
                             /\ Spends(f, to) = None
             /\ ServingName(g) = IF ServingName(f) = from THEN to ELSE ServingName(f)
<1> DEFINE i == IndexOf(f, from)
           s == f.accounts
           n == Len(s)
           entry == [s[i] EXCEPT !.name = to]
           g == Renamed(f, from, to)
<1>1. f \in FileType /\ s \in Seq(EntryType) /\ n \in Nat
  BY FileIs DEF Kept
<1>2. i \in 1..n /\ s[i].name = from /\ i # 0 /\ \A j \in 1..n : s[j].name = from => i <= j
  BY <1>1, IndexOfIs DEF CanRename
<1>3. IndexOf(f, to) \in {0, i}
  BY DEF CanRename
<1>4. s[i] \in EntryType
  BY <1>1, <1>2, FileIs
<1>5. entry \in EntryType /\ entry.name = to /\ entry.credential = s[i].credential
  BY <1>4 DEF EntryType
<1>6. g = [selected |-> IF SelectedIndex(f) = i THEN to ELSE f.selected,
           accounts |-> [s EXCEPT ![i] = entry]]
  BY DEF Renamed
<1> HIDE DEF entry
<1>7. /\ [s EXCEPT ![i] = entry] \in Seq(EntryType) /\ Len([s EXCEPT ![i] = entry]) = n
      /\ [s EXCEPT ![i] = entry][i] = entry
      /\ \A j \in 1..n : j # i => [s EXCEPT ![i] = entry][j] = s[j]
  BY <1>1, <1>2, <1>5, ExceptSeq
<1>8. /\ g.accounts \in Seq(EntryType) /\ Len(g.accounts) = n /\ g.accounts[i] = entry
      /\ \A j \in 1..n : j # i => g.accounts[j] = s[j]
      /\ g.selected = IF SelectedIndex(f) = i THEN to ELSE f.selected
  BY <1>6, <1>7
<1>9. g \in FileType
  BY <1>1, <1>6, <1>7 DEF FileType
<1> HIDE DEF g, i
<1>10. \A j \in 1..n : /\ g.accounts[j].name = IF j = i THEN to ELSE s[j].name
                       /\ g.accounts[j].credential = s[j].credential
  BY <1>5, <1>8
<1>11. \A j \in 1..n : s[j].name = to => j >= i
  <2> SUFFICES ASSUME NEW j \in 1..n, s[j].name = to PROVE j >= i
    OBVIOUS
  <2>1. IndexOf(f, to) \in 1..n /\ IndexOf(f, to) <= j
    BY <1>1, IndexOfIs
  <2> QED
    BY <1>1, <1>2, <1>3, <2>1
<1>12. IndexOf(g, to) = i
  <2>1. \A j \in 1..n : j < i => g.accounts[j].name # g.accounts[i].name
    BY <1>1, <1>2, <1>10, <1>11
  <2>2. g.accounts[i].name = to
    BY <1>2, <1>10
  <2> QED
    BY <1>2, <1>8, <1>9, <2>1, <2>2, FirstIsFound
<1>13. ASSUME NEW m, m \notin {from, to} PROVE IndexOf(g, m) = IndexOf(f, m)
  <2> DEFINE k == IndexOf(f, m)
  <2>1. CASE k = 0
    <3>1. \A j \in 1..n : s[j].name # m
      BY <1>1, <2>1, IndexOfIs
    <3>2. \A j \in 1..Len(g.accounts) : g.accounts[j].name # m
      BY <1>8, <1>10, <1>13, <3>1
    <3>3. IndexOf(g, m) = 0
      BY <1>9, <3>2, IndexOfIs
    <3> QED
      BY <2>1, <3>3
  <2>2. CASE k # 0
    <3>1. k \in 1..n /\ s[k].name = m /\ \A j \in 1..n : s[j].name = m => k <= j
      BY <1>1, <2>2, IndexOfIs
    <3> HIDE DEF k
    <3>2. g.accounts[k].name = m
      BY <1>2, <1>10, <1>13, <3>1
    <3>3. \A j \in 1..n : j < k => g.accounts[j].name # m
      BY <1>1, <1>10, <1>13, <3>1
    <3>4. IndexOf(g, m) = k
      BY <1>8, <1>9, <3>1, <3>2, <3>3, FirstIsFound
    <3> QED
      BY <3>4 DEF k
  <2> QED
    BY <2>1, <2>2
<1>14. ASSUME NEW m \in Names, from = to \/ m \notin {from, to}
       PROVE  Spends(g, m) = Spends(f, m)
  <2>1. IndexOf(g, m) = IndexOf(f, m)
    <3>1. CASE m \notin {from, to}
      BY <1>13, <3>1
    <3>2. CASE from = to /\ m = from
      BY <1>12, <3>2 DEF i
    <3> QED
      BY <1>14, <3>1, <3>2
  <2>2. IndexOf(f, m) # 0 => IndexOf(f, m) \in 1..n
    BY <1>1, IndexOfIs
  <2> QED
    BY <1>1, <1>9, <1>10, <2>1, <2>2, SpendsIs
<1>15. ASSUME from # to PROVE to \notin Stored(f) /\ Spends(f, to) = None
  <2>1. IndexOf(f, to) = 0
    <3>1. IndexOf(f, to) = i => s[i].name = to
      BY <1>1, <1>2, IndexOfIs
    <3> QED
      BY <1>2, <1>3, <1>15, <3>1
  <2> QED
    BY <1>1, <2>1, StoredIs, SpendsIs
<1> DEFINE k == SelectedIndex(f)
<1>16. /\ k \in 1..n /\ k # 0 /\ ServingName(f) = s[k].name /\ IndexOf(f, s[k].name) = k
       /\ Spends(f, None) = s[k].credential.access
  <2>1. n # 0
    BY <1>1, <1>2
  <2> QED
    BY <1>1, <2>1, ServingIs
<1>17. s # << >> /\ g.accounts # << >>
  BY <1>2, <1>8, EmptySeq
<1>18. k = IF IndexOf(f, f.selected) # 0 THEN IndexOf(f, f.selected) ELSE 1
  BY <1>17 DEF SelectedIndex, Either
<1>19. SelectedIndex(g) = IF IndexOf(g, g.selected) # 0 THEN IndexOf(g, g.selected) ELSE 1
  BY <1>17 DEF SelectedIndex, Either
<1>20. k = i <=> ServingName(f) = from
  BY <1>2, <1>16 DEF i
<1>21. SelectedIndex(g) = k /\ g.selected \in Stored(g) \cup {None}
  <2>1. CASE k = i
    <3>1. g.selected = to /\ IndexOf(g, to) # 0
      BY <1>2, <1>8, <1>12, <2>1
    <3> QED
      BY <1>9, <1>12, <1>19, <2>1, <3>1, StoredIs
  <2>2. CASE k # i /\ f.selected = None
    <3>1. g.selected = None
      BY <1>8, <2>2
    <3>2. None \notin {from, to}
      BY NoneAssumption
    <3> QED
      BY <1>13, <1>18, <1>19, <2>2, <3>1, <3>2
  <2>3. CASE k # i /\ f.selected # None
    <3>1. f.selected \in Stored(f)
      BY <2>3 DEF Kept
    <3>2. IndexOf(f, f.selected) = k
      BY <1>1, <1>18, <3>1, StoredIs
    <3>3. f.selected # from
      BY <2>3, <3>2 DEF i
    <3>4. f.selected # to
      BY <1>3, <1>16, <2>3, <3>2
    <3>5. g.selected = f.selected
      BY <1>8, <2>3
    <3>6. IndexOf(g, g.selected) = k
      BY <1>13, <3>2, <3>3, <3>4, <3>5
    <3> QED
      BY <1>9, <1>16, <1>19, <3>6, StoredIs
  <2> QED
    BY <2>1, <2>2, <2>3
<1> HIDE DEF k
<1>22. ServingName(g) = g.accounts[k].name /\ Spends(g, None) = g.accounts[k].credential.access
  BY <1>9, <1>16, <1>21, ServingIs
<1>23. Spends(g, None) = Spends(f, None)
  BY <1>10, <1>16, <1>22
<1>24. ServingName(g) = IF ServingName(f) = from THEN to ELSE ServingName(f)
  <2>1. k = i <=> ServingName(f) = from
    BY <1>20 DEF k
  <2> QED
    BY <1>10, <1>16, <1>22, <2>1
<1>25. from # to => ServingName(g) # from
  BY <1>24
<1> QED
  BY <1>9, <1>14, <1>15, <1>21, <1>23, <1>24, <1>25 DEF Kept, g

(* One entry less.                                                         *)
LEMMA RemoveAtIs ==
  ASSUME NEW T, NEW s \in Seq(T), NEW i \in 1..Len(s)
  PROVE  LET rest == RemoveAt(s, i)
         IN  /\ rest \in Seq(T) /\ Len(rest) = Len(s) - 1
             /\ \A j \in 1..(Len(s) - 1) : rest[j] = IF j < i THEN s[j] ELSE s[j + 1]
<1> DEFINE n == Len(s)
           rest == RemoveAt(s, i)
           front == SubSeq(s, 1, i - 1)
           back == SubSeq(s, i + 1, n)
<1>1. n \in Nat /\ i \in 1..n /\ \A j \in 1..n : s[j] \in T
  BY LenProperties, ElementOfSeq
<1>2. /\ front \in Seq(T) /\ Len(front) = i - 1
      /\ \A j \in 1..(i - 1) : front[j] = s[j]
  <2>1. \A j \in 1..(i - 1) : s[j] \in T
    BY <1>1
  <2>2. i - 1 \in Int /\ 1 \in Int
    BY <1>1
  <2>3. /\ front \in Seq(T)
        /\ Len(front) = IF 1 <= i - 1 THEN (i - 1) - 1 + 1 ELSE 0
        /\ \A j \in 1..((i - 1) - 1 + 1) : front[j] = s[1 + j - 1]
    BY <2>1, <2>2, SubSeqProperties
  <2> HIDE DEF front, n
  <2>4. \A j \in 1..(i - 1) : j \in 1..((i - 1) - 1 + 1) /\ 1 + j - 1 = j
    BY <1>1
  <2>5. (IF 1 <= i - 1 THEN (i - 1) - 1 + 1 ELSE 0) = i - 1
    BY <1>1
  <2> QED
    BY <2>3, <2>4, <2>5
<1>3. /\ back \in Seq(T) /\ Len(back) = n - i
      /\ \A j \in 1..(n - i) : back[j] = s[i + j]
  <2>1. \A j \in (i + 1)..n : s[j] \in T
    BY <1>1
  <2>2. i + 1 \in Int /\ n \in Int
    BY <1>1
  <2>3. /\ back \in Seq(T)
        /\ Len(back) = IF i + 1 <= n THEN n - (i + 1) + 1 ELSE 0
        /\ \A j \in 1..(n - (i + 1) + 1) : back[j] = s[(i + 1) + j - 1]
    BY <2>1, <2>2, SubSeqProperties
  <2> HIDE DEF back, n
  <2>4. \A j \in 1..(n - i) : j \in 1..(n - (i + 1) + 1) /\ (i + 1) + j - 1 = i + j
    BY <1>1
  <2>5. (IF i + 1 <= n THEN n - (i + 1) + 1 ELSE 0) = n - i
    BY <1>1
  <2> QED
    BY <2>3, <2>4, <2>5
<1>4. rest = front \o back
  BY DEF RemoveAt
<1> HIDE DEF front, back, rest, n
<1>5. /\ rest \in Seq(T) /\ Len(rest) = Len(front) + Len(back)
      /\ \A j \in 1..(Len(front) + Len(back)) :
           rest[j] = IF j <= Len(front) THEN front[j] ELSE back[j - Len(front)]
  BY <1>2, <1>3, <1>4, ConcatProperties
<1>6. i \in Int /\ n \in Int /\ Len(front) + Len(back) = n - 1
  BY <1>1, <1>2, <1>3
<1>7. ASSUME NEW j \in 1..(n - 1) PROVE rest[j] = IF j < i THEN s[j] ELSE s[j + 1]
  <2>1. CASE j < i
    <3>1. j \in 1..(i - 1) /\ j \in 1..(Len(front) + Len(back)) /\ j <= Len(front)
      BY <1>2, <1>6, <2>1
    <3> QED
      BY <1>2, <1>5, <2>1, <3>1
  <2>2. CASE ~ (j < i)
    <3>1. j - (i - 1) \in 1..(n - i) /\ i + (j - (i - 1)) = j + 1
      BY <1>6, <2>2
    <3>2. rest[j] = back[j - (i - 1)]
      BY <1>2, <1>5, <1>6, <2>2
    <3> QED
      BY <1>3, <2>2, <3>1, <3>2
  <2> QED
    BY <2>1, <2>2
<1> QED
  BY <1>5, <1>6, <1>7 DEF rest, n

LEMMA RemovedIs ==
  ASSUME NEW f, Kept(f), NEW i \in 1..Len(f.accounts)
  PROVE  LET g    == Removed(f, i)
             gone == f.accounts[i].name
         IN  /\ Kept(g)
             /\ \A m \in Names \ {gone} : Spends(g, m) = Spends(f, m)
             /\ ServingName(f) # gone => ServingName(g) = ServingName(f)
<1> DEFINE s == f.accounts
           n == Len(s)
           gone == s[i].name
           rest == RemoveAt(s, i)
           g == Removed(f, i)
           Shift(k) == IF k < i THEN k ELSE k - 1
<1>1. f \in FileType /\ s \in Seq(EntryType) /\ n \in Nat /\ i \in 1..n
  BY FileIs DEF Kept
<1>2. gone \in Names /\ gone # None
  BY <1>1, FileIs, NoneAssumption
<1>3. /\ rest \in Seq(EntryType) /\ Len(rest) = n - 1
      /\ \A j \in 1..(n - 1) : rest[j] = IF j < i THEN s[j] ELSE s[j + 1]
  BY <1>1, RemoveAtIs
<1> HIDE DEF rest
<1>4. rest = << >> <=> n = 1
  <2>1. rest = << >> <=> Len(rest) = 0
    BY <1>3, EmptySeq
  <2> HIDE DEF n
  <2> QED
    BY <1>1, <1>3, <2>1
<1>5. g.accounts = rest
      /\ g.selected = (IF f.selected # gone THEN f.selected
                       ELSE IF rest = << >> THEN None ELSE rest[1].name)
  <2>1. CASE rest # << >>
    BY <2>1 DEF Removed, Written, rest
  <2>2. CASE rest = << >>
    <3>1. g = NoFile
      BY <2>2 DEF Removed, Written, rest
    <3>2. Stored(f) = {gone}
      <4>1. DOMAIN s = {1} /\ i = 1
        BY <1>1, <1>4, <2>2, FileIs
      <4> QED
        BY <4>1 DEF Stored
    <3>3. f.selected # gone => f.selected = None
      BY <3>2 DEF Kept
    <3> QED
      BY <2>2, <3>1, <3>3 DEF NoFile
  <2> QED
    BY <2>1, <2>2
<1>6. g \in FileType
  <2>1. rest # << >> => rest[1] \in EntryType
    BY <1>1, <1>3, <1>4, FileIs, LenProperties, ElementOfSeq
  <2>2. rest # << >> => rest[1].name \in Names
    BY <2>1 DEF EntryType
  <2>3. g = [selected |-> g.selected, accounts |-> g.accounts]
    BY DEF Removed, Written, NoFile
  <2>4. g.selected \in Names \cup {None}
    BY <1>1, <1>5, <2>2, FileIs
  <2> QED
    BY <1>3, <1>5, <2>3, <2>4 DEF FileType
<1> HIDE DEF g
<1>7. ASSUME NEW k \in 1..n, k # i
      PROVE  Shift(k) \in 1..(n - 1) /\ rest[Shift(k)] = s[k]
  BY <1>1, <1>3, <1>7
<1>8. ASSUME NEW j \in 1..(n - 1)
      PROVE  \E k \in 1..n : k # i /\ j = Shift(k) /\ rest[j] = s[k]
  <2>1. CASE j < i
    <3>1. j \in 1..n /\ j # i /\ rest[j] = s[j]
      BY <1>1, <1>3, <2>1
    <3> QED
      BY <2>1, <3>1
  <2>2. CASE ~ (j < i)
    <3>1. j + 1 \in 1..n /\ j + 1 # i /\ rest[j] = s[j + 1] /\ ~ (j + 1 < i) /\ (j + 1) - 1 = j
      BY <1>1, <1>3, <2>2
    <3> QED
      BY <3>1
  <2> QED
    BY <2>1, <2>2
<1>9. \A k, l \in 1..n : k # i /\ l # i /\ Shift(k) < Shift(l) => k < l
  BY <1>1
<1> HIDE DEF Shift
<1>10. ASSUME NEW m, m # gone
       PROVE  /\ IndexOf(f, m) = 0 => IndexOf(g, m) = 0
              /\ IndexOf(f, m) # 0 => /\ IndexOf(f, m) \in 1..n /\ IndexOf(f, m) # i
                                      /\ IndexOf(g, m) = Shift(IndexOf(f, m))
                                      /\ IndexOf(g, m) \in 1..(n - 1)
  <2> DEFINE k == IndexOf(f, m)
  <2>1. CASE k = 0
    <3>1. \A l \in 1..n : s[l].name # m
      BY <1>1, <2>1, IndexOfIs
    <3>2. \A j \in 1..Len(g.accounts) : g.accounts[j].name # m
      BY <1>3, <1>5, <1>8, <3>1
    <3>3. 0 \notin 1..Len(g.accounts)
      OBVIOUS
    <3>4. IndexOf(g, m) = 0
      BY <1>6, <3>2, IndexOfIs
    <3> QED
      BY <2>1, <3>4
  <2>2. CASE k # 0
    <3>1. k \in 1..n /\ s[k].name = m /\ \A l \in 1..n : s[l].name = m => k <= l
      BY <1>1, <2>2, IndexOfIs
    <3>2. k # i
      BY <1>10, <3>1
    <3> HIDE DEF k
    <3>3. Shift(k) \in 1..(n - 1) /\ rest[Shift(k)] = s[k]
      BY <1>7, <3>1, <3>2
    <3>4. ASSUME NEW j \in 1..(n - 1), j < Shift(k) PROVE rest[j].name # m
      <4>1. PICK l \in 1..n : l # i /\ j = Shift(l) /\ rest[j] = s[l]
        BY <1>8
      <4>2. l < k
        BY <1>9, <3>1, <3>2, <3>4, <4>1
      <4>3. ~ (k <= l)
        BY <1>1, <3>1, <4>2
      <4> QED
        BY <3>1, <4>1, <4>3
    <3>5. Shift(k) \in 1..Len(g.accounts) /\ g.accounts[Shift(k)].name = m
      BY <1>3, <1>5, <3>1, <3>3
    <3>6. \A j \in 1..Len(g.accounts) : j < Shift(k) => g.accounts[j].name # m
      BY <1>3, <1>5, <3>4
    <3>7. IndexOf(g, m) = Shift(k)
      BY <1>6, <3>5, <3>6, FirstIsFound
    <3> QED
      BY <3>1, <3>2, <3>3, <3>7 DEF k
  <2> QED
    BY <2>1, <2>2
<1>11. ASSUME NEW m \in Names, m # gone PROVE Spends(g, m) = Spends(f, m)
  <2>1. CASE IndexOf(f, m) = 0
    BY <1>1, <1>6, <1>10, <1>11, <2>1, SpendsIs
  <2>2. CASE IndexOf(f, m) # 0
    <3> DEFINE k == IndexOf(f, m)
    <3>1. k \in 1..n /\ k # i /\ IndexOf(g, m) = Shift(k) /\ IndexOf(g, m) # 0
      BY <1>10, <1>11, <2>2
    <3>2. g.accounts[Shift(k)] = s[k]
      BY <1>5, <1>7, <3>1
    <3> QED
      BY <1>1, <1>6, <2>2, <3>1, <3>2, SpendsIs
  <2> QED
    BY <2>1, <2>2
<1>12. g.selected \in Stored(g) \cup {None}
  <2>1. CASE f.selected # gone
    <3>1. f.selected \in Stored(f) \cup {None} /\ g.selected = f.selected
      BY <1>5, <2>1 DEF Kept
    <3>2. f.selected \in Stored(f) => IndexOf(f, f.selected) # 0
      BY <1>1, StoredIs
    <3>3. f.selected \in Stored(f) => IndexOf(g, f.selected) \in 1..(n - 1)
      BY <1>10, <2>1, <3>2
    <3>4. 0 \notin 1..(n - 1)
      BY <1>1
    <3> QED
      BY <1>6, <3>1, <3>3, <3>4, StoredIs
  <2>2. CASE f.selected = gone /\ rest = << >>
    BY <1>5, <2>2
  <2>3. CASE f.selected = gone /\ rest # << >>
    <3>1. g.selected = rest[1].name /\ 1 \in DOMAIN g.accounts /\ g.accounts = rest
      BY <1>1, <1>3, <1>4, <1>5, <2>3, LenProperties
    <3> QED
      BY <3>1 DEF Stored
  <2> QED
    BY <2>1, <2>2, <2>3
<1>13. ASSUME ServingName(f) # gone PROVE ServingName(g) = ServingName(f)
  <2> DEFINE k == SelectedIndex(f)
  <2>1. /\ k \in 1..n /\ ServingName(f) = s[k].name /\ IndexOf(f, s[k].name) = k /\ k # 0
    <3>1. n # 0
      BY <1>1
    <3> QED
      BY <1>1, <3>1, ServingIs
  <2>2. k # i /\ s # << >>
    BY <1>1, <1>13, <2>1, EmptySeq
  <2>3. k = IF IndexOf(f, f.selected) # 0 THEN IndexOf(f, f.selected) ELSE 1
    BY <2>2 DEF SelectedIndex, Either
  <2>4. rest # << >> /\ n - 1 \in Nat /\ n - 1 # 0
    BY <1>1, <1>4, <2>1, <2>2
  <2>5. SelectedIndex(g) = IF IndexOf(g, g.selected) # 0 THEN IndexOf(g, g.selected) ELSE 1
    BY <1>5, <2>4 DEF SelectedIndex, Either
  <2>6. IndexOf(f, f.selected) = k \/ f.selected = None
    BY <1>1, <2>3, StoredIs DEF Kept
  <2>7. f.selected # gone /\ g.selected = f.selected
    <3>1. CASE f.selected = None
      BY <1>2, <1>5, <3>1
    <3>2. CASE IndexOf(f, f.selected) = k
      <4>1. s[k].name = f.selected
        BY <1>1, <2>1, <3>2, IndexOfIs
      <4> QED
        BY <1>5, <1>13, <2>1, <4>1
    <3> QED
      BY <2>6, <3>1, <3>2
  <2>8. SelectedIndex(g) = Shift(k)
    <3>1. CASE IndexOf(f, f.selected) = 0
      <4>1. IndexOf(g, g.selected) = 0 /\ k = 1
        BY <1>10, <2>3, <2>7, <3>1
      <4>2. Shift(1) = 1
        BY <1>1, <2>2, <4>1 DEF Shift
      <4> QED
        BY <2>5, <4>1, <4>2
    <3>2. CASE IndexOf(f, f.selected) # 0
      <4>1. IndexOf(g, g.selected) = Shift(k) /\ IndexOf(g, g.selected) \in 1..(n - 1)
        BY <1>10, <2>3, <2>7, <3>2
      <4>2. 0 \notin 1..(n - 1)
        BY <1>1
      <4> QED
        BY <2>5, <4>1, <4>2
    <3> QED
      BY <3>1, <3>2
  <2>9. Shift(k) \in 1..(n - 1) /\ rest[Shift(k)] = s[k]
    BY <1>7, <2>1, <2>2
  <2>10. SelectedIndex(g) # 0 /\ g.accounts[SelectedIndex(g)] = s[k]
    BY <1>1, <1>5, <2>8, <2>9
  <2> QED
    BY <2>1, <2>10 DEF ServingName
<1> QED
  BY <1>6, <1>11, <1>12, <1>13 DEF Kept, g

-----------------------------------------------------------------------------
(* The configuration file as a value: what an edit changes of what an      *)
(* account reads.                                                          *)
Ceilings == Efforts \cup {None}

LEMMA SectionIs ==
  ASSUME NEW c, IsConfiguration(c), NEW name
  PROVE  /\ SectionOf(c, name) \in Tables /\ Table(c, name) \in Tables
         /\ name \notin Names => SectionOf(c, name) = Nothing
         /\ c.shared \in Tables /\ DOMAIN c.sections \subseteq Names
<1>1. Nothing \in Tables
  BY DEF Nothing, Tables
<1>2. name \in DOMAIN c.sections => c.sections[name] \in Tables
  BY DEF IsConfiguration
<1> QED
  BY <1>1, <1>2 DEF SectionOf, Table, IsConfiguration

LEMMA TableIs ==
  ASSUME NEW table \in Tables, NEW t \in Tiers
  PROVE  /\ table.tiers \in [Tiers -> Mapped \cup {Unset}] /\ table.effort \in Ceilings
         /\ table.tiers[t] \in Mapped \cup {Unset}
  BY DEF Tables, Ceilings

LEMMA ReadsType ==
  ASSUME NEW c, IsConfiguration(c), NEW name
  PROVE  /\ TiersFor(c, name) \in [Tiers -> Mapped \cup {Unset}]
         /\ EffortFor(c, name) \in Ceilings
<1>1. SectionOf(c, name) \in Tables /\ c.shared \in Tables
  BY SectionIs
<1>2. \A t \in Tiers : /\ SectionOf(c, name).tiers[t] \in Mapped \cup {Unset}
                       /\ c.shared.tiers[t] \in Mapped \cup {Unset}
  BY <1>1, TableIs
<1>3. SectionOf(c, name).effort \in Ceilings /\ c.shared.effort \in Ceilings
  BY <1>1 DEF Tables, Ceilings
<1> QED
  BY <1>2, <1>3 DEF TiersFor, EffortFor

(* A table written, and what is read then.                                 *)
LEMMA WithTableIs ==
  ASSUME NEW c, IsConfiguration(c), NEW account \in Names \cup {None}, NEW table \in Tables
  PROVE  LET d == WithTable(c, account, table)
         IN  /\ IsConfiguration(d) /\ d.consent = c.consent
             /\ account = None => d.shared = table /\ \A n : SectionOf(d, n) = SectionOf(c, n)
             /\ account # None => /\ d.shared = c.shared /\ SectionOf(d, account) = table
                                  /\ \A n : n # account => SectionOf(d, n) = SectionOf(c, n)
<1> DEFINE d == WithTable(c, account, table)
<1>1. /\ c = [shared |-> c.shared, sections |-> c.sections, consent |-> c.consent]
      /\ c.shared \in Tables /\ c.consent \in BOOLEAN
      /\ DOMAIN c.sections \subseteq Names /\ c.sections \in [DOMAIN c.sections -> Tables]
  BY DEF IsConfiguration
<1>2. CASE account = None
  <2>1. d = [c EXCEPT !.shared = table]
    BY <1>2 DEF WithTable
  <2>2. d = [shared |-> table, sections |-> c.sections, consent |-> c.consent]
    BY <1>1, <2>1
  <2>3. IsConfiguration(d) /\ d.consent = c.consent /\ d.shared = table
    BY <1>1, <2>2 DEF IsConfiguration
  <2>4. \A n : SectionOf(d, n) = SectionOf(c, n)
    BY <2>2 DEF SectionOf
  <2> QED
    BY <1>2, <2>3, <2>4
<1>3. CASE account # None
  <2> DEFINE named == DOMAIN c.sections \cup {account}
             sections == [n \in named |-> IF n = account THEN table ELSE c.sections[n]]
  <2>1. d = [c EXCEPT !.sections = sections]
    BY <1>3 DEF WithTable
  <2>2. d = [shared |-> c.shared, sections |-> sections, consent |-> c.consent]
    BY <1>1, <2>1
  <2>3. DOMAIN sections = named /\ named \subseteq Names /\ account \in named
    BY <1>1, <1>3
  <2>4. \A n \in named : sections[n] \in Tables
    BY <1>1
  <2>5. sections \in [named -> Tables]
    BY <2>4
  <2>6. sections[account] = table /\ \A n \in named : n # account => sections[n] = c.sections[n]
    OBVIOUS
  <2>7. \A n : n # account => (n \in named <=> n \in DOMAIN c.sections)
    OBVIOUS
  <2> HIDE DEF sections, named, d
  <2>8. IsConfiguration(d) /\ d.consent = c.consent /\ d.shared = c.shared
    BY <1>1, <2>2, <2>3, <2>5 DEF IsConfiguration
  <2>9. SectionOf(d, account) = table
    BY <2>2, <2>3, <2>6 DEF SectionOf
  <2>10. \A n : n # account => SectionOf(d, n) = SectionOf(c, n)
    BY <2>2, <2>3, <2>6, <2>7 DEF SectionOf
  <2> QED
    BY <1>3, <2>8, <2>9, <2>10 DEF d
<1> QED
  BY <1>2, <1>3

(* A tier written where it is read from is read; where it is not, the      *)
(* account reads what it did.                                              *)
LEMMA SetTierIs ==
  ASSUME NEW c, IsConfiguration(c), NEW account \in Names \cup {None}, NEW tier \in Tiers,
         NEW value \in Mapped, NEW name \in Names \cup {None}
  PROVE  LET d == SetTier(c, account, tier, value)
         IN  /\ IsConfiguration(d) /\ d.consent = c.consent
             /\ EffortFor(d, name) = EffortFor(c, name)
             /\ account # None /\ account # name => TiersFor(d, name) = TiersFor(c, name)
             /\ \/ account # None /\ account = name
                \/ account = None /\ SectionOf(c, name).tiers[tier] = Unset
                => TiersFor(d, name) = [TiersFor(c, name) EXCEPT ![tier] = value]
<1> DEFINE old == Table(c, account)
           new == [old EXCEPT !.tiers[tier] = value]
           d == SetTier(c, account, tier, value)
<1>1. old \in Tables
  BY SectionIs
<1>2. new = [old EXCEPT !.tiers = [old.tiers EXCEPT ![tier] = value]]
  OBVIOUS
<1>3. /\ new \in Tables /\ new.effort = old.effort
      /\ new.tiers = [old.tiers EXCEPT ![tier] = value]
      /\ old.tiers \in [Tiers -> Mapped \cup {Unset}]
  BY <1>1, <1>2 DEF Tables
<1>4. new.tiers[tier] = value /\ \A t \in Tiers : t # tier => new.tiers[t] = old.tiers[t]
  BY <1>3
<1>5. value # Unset
  BY MappingAssumption
<1>6. d = WithTable(c, account, new)
  BY DEF SetTier
<1> HIDE DEF new, d
<1>7. /\ IsConfiguration(d) /\ d.consent = c.consent
      /\ account = None => d.shared = new /\ \A n : SectionOf(d, n) = SectionOf(c, n)
      /\ account # None => /\ d.shared = c.shared /\ SectionOf(d, account) = new
                           /\ \A n : n # account => SectionOf(d, n) = SectionOf(c, n)
  BY <1>3, <1>6, WithTableIs
<1>8. CASE account = None
  <2>1. old = c.shared
    BY <1>8 DEF Table
  <2>2. d.shared = new /\ SectionOf(d, name) = SectionOf(c, name)
    BY <1>7, <1>8
  <2>3. EffortFor(d, name) = EffortFor(c, name)
    BY <1>3, <2>1, <2>2 DEF EffortFor
  <2>4. ASSUME SectionOf(c, name).tiers[tier] = Unset
        PROVE  TiersFor(d, name) = [TiersFor(c, name) EXCEPT ![tier] = value]
    BY <1>4, <2>1, <2>2, <2>4 DEF TiersFor
  <2> QED
    BY <1>7, <1>8, <2>3, <2>4 DEF d
<1>9. CASE account # None /\ account = name
  <2>1. old = SectionOf(c, name)
    BY <1>9 DEF Table
  <2>2. d.shared = c.shared /\ SectionOf(d, name) = new
    BY <1>7, <1>9
  <2>3. EffortFor(d, name) = EffortFor(c, name)
    BY <1>3, <2>1, <2>2 DEF EffortFor
  <2>4. \A t \in Tiers : TiersFor(d, name)[t] = IF t = tier THEN value ELSE TiersFor(c, name)[t]
    BY <1>4, <1>5, <2>1, <2>2 DEF TiersFor
  <2>5. TiersFor(d, name) = [TiersFor(c, name) EXCEPT ![tier] = value]
    BY <2>4 DEF TiersFor
  <2> QED
    BY <1>7, <1>9, <2>3, <2>5 DEF d
<1>10. CASE account # None /\ account # name
  <2>1. d.shared = c.shared /\ SectionOf(d, name) = SectionOf(c, name)
    BY <1>7, <1>10
  <2> QED
    BY <1>7, <1>10, <2>1 DEF EffortFor, TiersFor, d
<1> QED
  BY <1>8, <1>9, <1>10

LEMMA SetEffortIs ==
  ASSUME NEW c, IsConfiguration(c), NEW account \in Names \cup {None}, NEW effort \in Ceilings,
         NEW name \in Names \cup {None}
  PROVE  LET d == SetEffort(c, account, effort)
         IN  /\ IsConfiguration(d) /\ d.consent = c.consent
             /\ TiersFor(d, name) = TiersFor(c, name)
             /\ account # None /\ account # name => EffortFor(d, name) = EffortFor(c, name)
<1> DEFINE old == Table(c, account)
           new == [old EXCEPT !.effort = effort]
           d == SetEffort(c, account, effort)
<1>1. old \in Tables
  BY SectionIs
<1>2. new \in Tables /\ new.tiers = old.tiers
  BY <1>1 DEF Tables, Ceilings
<1>3. d = WithTable(c, account, new)
  BY DEF SetEffort
<1> HIDE DEF new, d
<1>4. /\ IsConfiguration(d) /\ d.consent = c.consent
      /\ account = None => d.shared = new /\ \A n : SectionOf(d, n) = SectionOf(c, n)
      /\ account # None => /\ d.shared = c.shared /\ SectionOf(d, account) = new
                           /\ \A n : n # account => SectionOf(d, n) = SectionOf(c, n)
  BY <1>2, <1>3, WithTableIs
<1>5. CASE account = None
  <2>1. old = c.shared /\ d.shared = new /\ SectionOf(d, name) = SectionOf(c, name)
    BY <1>4, <1>5 DEF Table
  <2> QED
    BY <1>2, <1>4, <1>5, <2>1 DEF TiersFor, d
<1>6. CASE account # None /\ account = name
  <2>1. old = SectionOf(c, name) /\ d.shared = c.shared /\ SectionOf(d, name) = new
    BY <1>4, <1>6 DEF Table
  <2> QED
    BY <1>2, <1>4, <1>6, <2>1 DEF TiersFor, d
<1>7. CASE account # None /\ account # name
  <2>1. d.shared = c.shared /\ SectionOf(d, name) = SectionOf(c, name)
    BY <1>4, <1>7
  <2> QED
    BY <1>4, <2>1 DEF EffortFor, TiersFor, d
<1> QED
  BY <1>5, <1>6, <1>7

LEMMA SetConsentIs ==
  ASSUME NEW c, IsConfiguration(c), NEW enabled \in BOOLEAN, NEW name
  PROVE  LET d == SetCrossAccountTiers(c, enabled)
         IN  /\ IsConfiguration(d) /\ d.consent = enabled
             /\ TiersFor(d, name) = TiersFor(c, name)
             /\ EffortFor(d, name) = EffortFor(c, name)
<1> DEFINE d == SetCrossAccountTiers(c, enabled)
<1>1. d = [shared |-> c.shared, sections |-> c.sections, consent |-> enabled]
  BY DEF SetCrossAccountTiers, IsConfiguration
<1> HIDE DEF d
<1>2. IsConfiguration(d)
  BY <1>1 DEF IsConfiguration
<1>3. SectionOf(d, name) = SectionOf(c, name) /\ d.shared = c.shared
  BY <1>1 DEF SectionOf
<1> QED
  BY <1>1, <1>2, <1>3 DEF TiersFor, EffortFor, d

(* A section moved with its account is read under the account's new name.  *)
LEMMA MovedSectionIs ==
  ASSUME NEW c, IsConfiguration(c), NEW from \in DOMAIN c.sections, NEW to \in Names,
         CanMoveSection(c, to)
  PROVE  LET d == MovedSection(c, from, to)
         IN  /\ IsConfiguration(d) /\ d.consent = c.consent
             /\ TiersFor(d, to) = TiersFor(c, from) /\ EffortFor(d, to) = EffortFor(c, from)
             /\ \A n : n \notin {from, to} => /\ TiersFor(d, n) = TiersFor(c, n)
                                              /\ EffortFor(d, n) = EffortFor(c, n)
<1> DEFINE named == (DOMAIN c.sections \ {from}) \cup {to}
           sections == [n \in named |-> IF n = to THEN c.sections[from] ELSE c.sections[n]]
           d == MovedSection(c, from, to)
<1>1. /\ c = [shared |-> c.shared, sections |-> c.sections, consent |-> c.consent]
      /\ c.shared \in Tables /\ c.consent \in BOOLEAN
      /\ DOMAIN c.sections \subseteq Names /\ c.sections \in [DOMAIN c.sections -> Tables]
  BY DEF IsConfiguration
<1>2. d = [c EXCEPT !.sections = sections]
  BY DEF MovedSection
<1>3. d = [shared |-> c.shared, sections |-> sections, consent |-> c.consent]
  BY <1>1, <1>2
<1>4. DOMAIN sections = named /\ named \subseteq Names /\ to \in named
  BY <1>1
<1>5. \A n \in named : sections[n] \in Tables
  BY <1>1
<1>6. sections \in [named -> Tables]
  BY <1>5
<1>7. sections[to] = c.sections[from] /\ \A n \in named : n # to => sections[n] = c.sections[n]
  OBVIOUS
<1>8. \A n : n \notin {from, to} => (n \in named <=> n \in DOMAIN c.sections)
  OBVIOUS
<1> HIDE DEF sections, named, d
<1>9. IsConfiguration(d) /\ d.consent = c.consent /\ d.shared = c.shared
  BY <1>1, <1>3, <1>4, <1>6 DEF IsConfiguration
<1>10. SectionOf(d, to) = SectionOf(c, from)
  BY <1>3, <1>4, <1>7 DEF SectionOf
<1>11. \A n : n \notin {from, to} => SectionOf(d, n) = SectionOf(c, n)
  BY <1>3, <1>4, <1>7, <1>8 DEF SectionOf
<1> QED
  BY <1>9, <1>10, <1>11 DEF TiersFor, EffortFor, d

-----------------------------------------------------------------------------
(* What is read of the file, and what a start puts in force.               *)
MaybeName   == Names \cup {None}
MaybeOwner  == Owners \cup {None}
Mappings    == [Tiers -> [model : Models, account : MaybeName, defaulted : BOOLEAN]]
Policies    == [tiers : Mappings, ceiling : Ceilings, consent : BOOLEAN]
CatalogType == [models : SUBSET Models, visible : SUBSET Models, authoritative : BOOLEAN,
                of : MaybeOwner]

(* A mapping is in step with the file where the file would have it in      *)
(* force, but for the models that stand in for defaults.                   *)
TiersInStep(tiers, c, name) ==
  \A t \in Tiers : LET live == tiers[t]  written == Resolved(c, name)[t]
                   IN  live.defaulted = written.defaulted /\ (~live.defaulted => live = written)

InStep(p, c, name) == p.ceiling = EffortFor(c, name) /\ TiersInStep(p.tiers, c, name)

(* What a tier is set to.                                                  *)
As(value) == [model |-> value.model, account |-> value.account, defaulted |-> FALSE]

LEMMA ResolvedIs ==
  ASSUME NEW c, IsConfiguration(c), NEW name
  PROVE  /\ Resolved(c, name) \in Mappings /\ TiersInStep(Resolved(c, name), c, name)
         /\ \A t \in Tiers : TiersFor(c, name)[t] # Unset =>
                               Resolved(c, name)[t] = As(TiersFor(c, name)[t])
<1> SUFFICES /\ \A t \in Tiers : /\ Resolved(c, name)[t] \in [model : Models, account : MaybeName,
                                                              defaulted : BOOLEAN]
                                 /\ TiersFor(c, name)[t] # Unset =>
                                      Resolved(c, name)[t] = As(TiersFor(c, name)[t])
             /\ Resolved(c, name) = [t \in Tiers |-> Resolved(c, name)[t]]
  BY DEF Mappings, TiersInStep
<1>1. ASSUME NEW t \in Tiers
      PROVE  /\ Resolved(c, name)[t] \in [model : Models, account : MaybeName,
                                          defaulted : BOOLEAN]
             /\ TiersFor(c, name)[t] # Unset => Resolved(c, name)[t] = As(TiersFor(c, name)[t])
  <2> DEFINE value == TiersFor(c, name)[t]
  <2>1. value \in Mapped \cup {Unset}
    BY ReadsType
  <2>2. Resolved(c, name)[t] = IF value = Unset
          THEN [model |-> DefaultTiers[t], account |-> None, defaulted |-> TRUE]
          ELSE As(value)
    BY DEF Resolved, As
  <2>3. DefaultTiers[t] \in Models
    BY MappingAssumption
  <2> HIDE DEF value
  <2>4. value # Unset => As(value) \in [model : Models, account : MaybeName, defaulted : BOOLEAN]
    BY <2>1 DEF Mapped, MaybeName, As
  <2> QED
    BY <2>2, <2>3, <2>4 DEF MaybeName, value
<1>2. Resolved(c, name) = [t \in Tiers |-> Resolved(c, name)[t]]
  BY DEF Resolved
<1> QED
  BY <1>1, <1>2

LEMMA SubstitutesType ==
  ASSUME NEW list \in CatalogType
  PROVE  Substitutes(list) \subseteq Models
<1> DEFINE I == {i \in 1..Len(Preferred) : Preferred[i] \in list.visible}
           best == SelectInSeq(Preferred, LAMBDA m : m \in list.visible)
<1>1. best = IF I # {} THEN CHOOSE x \in I : \A y \in I : x <= y ELSE 0
  BY Zenon DEF SelectInSeq, Min
<1>2. I \subseteq Nat
  OBVIOUS
<1>3. best # 0 => best \in I
  <2> HIDE DEF I, best
  <2>1. I # {} => \E x \in I : \A y \in I : x <= y
    BY <1>2, LeastNumber
  <2> QED
    BY <1>1, <2>1
<1>4. best \in I => Preferred[best] \in Models
  BY MappingAssumption, ElementOfSeq
<1>5. list.visible \subseteq Models
  BY DEF CatalogType
<1>6. Substitutes(list) = IF best # 0 THEN {Preferred[best]} ELSE list.visible
  BY DEF Substitutes
<1> HIDE DEF I, best
<1> QED
  BY <1>3, <1>4, <1>5, <1>6

(* Standing in for a default changes no tier that was written.             *)
LEMMA SubstitutedIs ==
  ASSUME NEW list \in CatalogType, NEW tiers \in Mappings
  PROVE  /\ Substituted(list, tiers) \in Mappings
         /\ \A t \in Tiers : /\ Substituted(list, tiers)[t].defaulted = tiers[t].defaulted
                             /\ ~tiers[t].defaulted => Substituted(list, tiers)[t] = tiers[t]
<1> DEFINE new == Substituted(list, tiers)
<1>1. CASE ~list.authoritative \/ Substitutes(list) = {}
  BY <1>1 DEF Substituted
<1>2. CASE list.authoritative /\ Substitutes(list) # {}
  <2> DEFINE stand == CHOOSE m \in Substitutes(list) : TRUE
  <2>1. stand \in Models
    BY <1>2, SubstitutesType
  <2>2. new = [t \in Tiers |-> IF tiers[t].defaulted /\ tiers[t].model \notin list.models
                               THEN [tiers[t] EXCEPT !.model = stand] ELSE tiers[t]]
    BY <1>2 DEF Substituted
  <2> HIDE DEF stand
  <2>3. \A t \in Tiers : tiers[t] \in [model : Models, account : MaybeName, defaulted : BOOLEAN]
    BY DEF Mappings
  <2>4. \A t \in Tiers :
          /\ [tiers[t] EXCEPT !.model = stand] \in [model : Models, account : MaybeName,
                                                    defaulted : BOOLEAN]
          /\ [tiers[t] EXCEPT !.model = stand].defaulted = tiers[t].defaulted
    BY <2>1, <2>3
  <2> QED
    BY <2>2, <2>3, <2>4 DEF Mappings
<1> QED
  BY <1>1, <1>2 DEF CatalogType

LEMMA StartIs ==
  ASSUME NEW f, NEW c, IsConfiguration(c), NEW list \in CatalogType
  PROVE  /\ StartPolicy(f, c, list) \in Policies
         /\ InStep(StartPolicy(f, c, list), c, ServingName(f))
         /\ StartPolicy(f, c, list).consent = c.consent
<1> DEFINE name == ServingName(f)
           tiers == Resolved(c, name)
           p == StartPolicy(f, c, list)
<1>1. tiers \in Mappings /\ TiersInStep(tiers, c, name)
  BY ResolvedIs
<1>2. /\ Substituted(list, tiers) \in Mappings
      /\ \A t \in Tiers : /\ Substituted(list, tiers)[t].defaulted = tiers[t].defaulted
                          /\ ~tiers[t].defaulted => Substituted(list, tiers)[t] = tiers[t]
  BY <1>1, SubstitutedIs
<1>3. /\ p.tiers = Substituted(list, tiers) /\ p.ceiling = EffortFor(c, name)
      /\ p = [tiers |-> Substituted(list, tiers), ceiling |-> EffortFor(c, name),
              consent |-> c.consent]
  BY DEF StartPolicy
<1>4. EffortFor(c, name) \in Ceilings /\ c.consent \in BOOLEAN
  BY ReadsType DEF IsConfiguration
<1>5. TiersInStep(p.tiers, c, name)
  BY <1>1, <1>2, <1>3 DEF TiersInStep
<1> QED
  BY <1>2, <1>3, <1>4, <1>5 DEF Policies, InStep

LEMMA ListsType ==
  ASSUME NEW f \in FileType
  PROVE  Lists(f) \cup {Fallback} \subseteq CatalogType
<1>1. Fallback \in CatalogType
  BY DEF Fallback, CatalogType, MaybeOwner
<1>2. ASSUME Spends(f, None) \in DOMAIN Menu
      PROVE  Fetched(Menu[Spends(f, None)], Menu[Spends(f, None)] \ Hidden, AccountId(f, None))
               \in CatalogType
  <2>1. AccountId(f, None) \in MaybeOwner
    <3>1. SelectedIndex(f) # 0 => SelectedIndex(f) \in 1..Len(f.accounts)
      BY ServingIs
    <3> QED
      BY <3>1, FileIs DEF AccountId, PositionOf, MaybeOwner
  <2>2. Menu[Spends(f, None)] \subseteq Models
    BY <1>2, MenuAssumption
  <2> QED
    BY <2>1, <2>2 DEF Fetched, CatalogType
<1> QED
  BY <1>1, <1>2 DEF Lists

(* Set a tier both in a mapping and in the file: they stay in step.        *)
LEMMA SetInStep ==
  ASSUME NEW c, IsConfiguration(c), NEW d, IsConfiguration(d), NEW name, NEW tiers \in Mappings,
         TiersInStep(tiers, c, name), NEW tier \in Tiers, NEW value \in Mapped,
         TiersFor(d, name) = [TiersFor(c, name) EXCEPT ![tier] = value]
  PROVE  TiersInStep([tiers EXCEPT ![tier] = As(value)], d, name)
<1>1. value # Unset
  BY MappingAssumption
<1>2. \A t \in Tiers : TiersFor(d, name)[t] = IF t = tier THEN value ELSE TiersFor(c, name)[t]
  BY ReadsType
<1>3. Resolved(d, name)[tier] = As(value)
  <2>1. TiersFor(d, name)[tier] = value
    BY <1>2
  <2>2. TiersFor(d, name)[tier] # Unset =>
          Resolved(d, name)[tier] = As(TiersFor(d, name)[tier])
    BY ResolvedIs
  <2> QED
    BY <1>1, <2>1, <2>2
<1>4. \A t \in Tiers : t # tier => Resolved(d, name)[t] = Resolved(c, name)[t]
  BY <1>2 DEF Resolved
<1>5. \A t \in Tiers : [tiers EXCEPT ![tier] = As(value)][t] = IF t = tier THEN As(value) ELSE tiers[t]
  BY DEF Mappings
<1> QED
  BY <1>3, <1>4, <1>5 DEF TiersInStep, As

(* Two that read the same of the tiers have the same mapping in force.     *)
LEMMA ReadAlike ==
  ASSUME NEW c, NEW d, NEW m, NEW n, TiersFor(c, m) = TiersFor(d, n)
  PROVE  Resolved(c, m) = Resolved(d, n)
         /\ \A tiers : TiersInStep(tiers, c, m) <=> TiersInStep(tiers, d, n)
  BY DEF Resolved, TiersInStep

LEMMA RelayedByType ==
  ASSUME NEW f \in FileType, NEW pin
  PROVE  RelayedBy(f, pin) \in MaybeName
<1> DEFINE i == IF pin = None THEN SelectedIndex(f) ELSE IndexOf(f, pin)
<1>1. i # 0 => i \in 1..Len(f.accounts)
  BY ServingIs, IndexOfIs
<1> HIDE DEF i
<1>2. i # 0 => f.accounts[i].name \in Names
  BY <1>1, FileIs
<1> QED
  BY <1>2 DEF RelayedBy, MaybeName, i

-----------------------------------------------------------------------------
(* The values of the state.                                                *)
Sockets   == [pin : MaybeName, as : Owners]
Endpoints == [kind : {"grant", "key"}, socket : Sockets \cup {None}]
Routes    == [pin : MaybeName, relayed : MaybeName]

(* What is asked, and what a call holds between its steps.                 *)
TierRequests    == [method : {"tiers.set"}, tier : Tiers, value : Values,
                    account : MaybeName, persist : BOOLEAN]
EffortRequests  == [method : {"effort.set"}, effort : Ceilings,
                    account : MaybeName, persist : BOOLEAN]
ConsentRequests == [method : {"cross_account_tiers.set"}, enabled : BOOLEAN]
RenameRequests  == [method : {"accounts.rename"}, from : Names, to : Names]
SelectRequests  == [method : {"accounts.select"}, account : Names]
ForgetRequests  == [method : {"accounts.forget"}, account : MaybeName]
Leaving         == [previous : MaybeName, brings : SUBSET CatalogType]
Taking          == [tiers : Mappings, ceiling : Ceilings, previous : MaybeName,
                    brings : SUBSET CatalogType]
Losing          == [serving : MaybeName, brings : SUBSET CatalogType]

CallType(c) ==
  /\ pc[c] = "checking tiers" => arg[c] \in TierRequests /\ kept[c] \in Mappings
  /\ pc[c] = "editing" => \/ arg[c] \in TierRequests /\ kept[c].tiers \in Mappings
                             /\ kept[c].now \in BOOLEAN
                          \/ arg[c] \in EffortRequests /\ kept[c].now \in BOOLEAN
                          \/ arg[c] \in ConsentRequests
  /\ pc[c] = "writing" => /\ IsConfiguration(kept[c].config) /\ kept[c].now \in BOOLEAN
                          /\ \/ arg[c] \in TierRequests /\ kept[c].tiers \in Mappings
                             \/ arg[c] \in EffortRequests \cup ConsentRequests
  /\ pc[c] = "applying" => \/ arg[c] \in TierRequests /\ kept[c].tiers \in Mappings
                           \/ arg[c] \in EffortRequests \cup ConsentRequests
  /\ pc[c] = "moving" => arg[c] \in RenameRequests
  /\ pc[c] \in {"selecting", "switched", "fetching", "resolving"} =>
       arg[c] \in SelectRequests /\ kept[c] \in Leaving
  /\ pc[c] \in {"mapping", "capping", "dropping", "undoing", "undone", "refetching"} =>
       arg[c] \in SelectRequests /\ kept[c] \in Taking
  /\ pc[c] \in {"forgetting", "forgot", "handed over", "landing"} =>
       arg[c] \in ForgetRequests /\ kept[c] \in Losing
  /\ pc[c] = "measuring" => kept[c] \in Owners

CallInv ==
  /\ DOMAIN pc = Callers /\ DOMAIN arg = Callers /\ DOMAIN kept = Callers
  /\ DOMAIN before = Callers
  /\ \A c \in Callers : CallType(c)

FileInv   == Kept(file)
PolicyInv == IsConfiguration(config) /\ policy \in Policies
ListInv   == /\ catalog \in CatalogType /\ figures \in [Names -> MaybeOwner]
             /\ nameless \in MaybeOwner

(* Where a turn is says how it is routed; one that is answered on a        *)
(* session has sent on it, so the session has an endpoint.                 *)
TurnType(t) ==
  /\ at[t] \in {"idle", "routed", "relaying"} => session[t] = None
  /\ at[t] # "idle" => route[t] \in Routes
  /\ at[t] = "routed" => route[t].relayed = None
  /\ at[t] = "relaying" => route[t].relayed # None
  /\ at[t] = "resolved" => session[t] \in Sessions /\ route[t].relayed = None
  /\ at[t] = "answering" =>
       /\ as[t] \in Owners
       /\ \/ session[t] = None /\ route[t].relayed # None
          \/ /\ session[t] \in Sessions /\ route[t].relayed = None
             /\ opened[session[t]] \in Endpoints

TurnInv ==
  /\ DOMAIN at = Clients /\ DOMAIN route = Clients /\ DOMAIN since = Clients
  /\ session \in [Clients -> Sessions \cup {None}] /\ as \in [Clients -> MaybeOwner]
  /\ listed \in Sessions \cup {None} /\ opened \in [Sessions -> Endpoints \cup {None}]
  /\ \A t \in Clients : TurnType(t)

TypeInv == CallInv /\ FileInv /\ PolicyInv /\ ListInv /\ TurnInv

-----------------------------------------------------------------------------
(* What a step leaves alone.                                               *)

Others(c) ==
  /\ DOMAIN pc' = Callers /\ DOMAIN arg' = Callers /\ DOMAIN kept' = Callers
  /\ DOMAIN before' = Callers
  /\ \A d \in Callers \ {c} : /\ pc'[d] = pc[d] /\ arg'[d] = arg[d]
                              /\ kept'[d] = kept[d] /\ before'[d] = before[d]

LEMMA CalledIs ==
  ASSUME CallInv, NEW c \in Callers, NEW request, NEW where, NEW what,
         Called(c, request, where, what)
  PROVE  /\ Others(c) /\ pc[c] \in Resting /\ pc'[c] = where /\ arg'[c] = request
         /\ kept'[c] = what /\ before'[c] = InForce(file, policy, config)
         /\ request.method \in Methods /\ calls < MaxCalls /\ calls' = calls + 1 /\ up
  BY DEF CallInv, Called, Others

LEMMA TakesIs ==
  ASSUME CallInv, NEW c \in Callers, NEW from, NEW to, NEW what, Takes(c, from, to, what)
  PROVE  /\ Others(c) /\ pc[c] = from /\ pc'[c] = to /\ calls' = calls
         /\ to \notin Resting => /\ kept'[c] = what /\ arg'[c] = arg[c]
                                 /\ before'[c] = before[c]
  BY DEF CallInv, Takes, Others

LEMMA ContinuesIs ==
  ASSUME CallInv, NEW c \in Callers, NEW from, NEW to, Continues(c, from, to)
  PROVE  /\ Others(c) /\ pc[c] = from /\ pc'[c] = to /\ calls' = calls
         /\ to \notin Resting => /\ kept'[c] = kept[c] /\ arg'[c] = arg[c]
                                 /\ before'[c] = before[c]
<1>1. Takes(c, from, to, kept[c])
  BY DEF Continues
<1> QED
  BY <1>1, TakesIs

LEMMA CallFrame ==
  ASSUME CallInv, NEW c \in Callers, Others(c), CallType(c)'
  PROVE  CallInv'
<1>1. ASSUME NEW d \in Callers, d # c PROVE CallType(d)'
  <2>1. CallType(d)
    BY DEF CallInv
  <2>2. pc'[d] = pc[d] /\ arg'[d] = arg[d] /\ kept'[d] = kept[d]
    BY <1>1 DEF Others
  <2> QED
    BY <2>1, <2>2 DEF CallType
<1> QED
  BY <1>1 DEF CallInv, Others

LEMMA Ends ==
  ASSUME NEW c, pc'[c] \in Resting
  PROVE  CallType(c)'
  BY DEF CallType, Resting

-----------------------------------------------------------------------------
(* Type correctness, component by component.                               *)

(* What the setters ask and hold.                                          *)
LEMMA SettingCallStep ==
  ASSUME TypeInv, NEW c \in Callers, Setting(c)
  PROVE  CallInv'
<1> USE DEF TypeInv
<1>0. CallType(c)
  BY DEF CallInv
<1>1. CASE AskTiers(c)
  <2>1. PICK tier \in Tiers, value \in Values, account \in Stored(file) \cup {None},
             persist \in Persists :
          Called(c, [method |-> "tiers.set", tier |-> tier, value |-> value,
                     account |-> account, persist |-> persist], "checking tiers",
                 [policy.tiers EXCEPT ![tier] = [model |-> value.model, account |-> value.account,
                                                 defaulted |-> FALSE]])
    BY <1>1 DEF AskTiers
  <2> DEFINE request == [method |-> "tiers.set", tier |-> tier, value |-> value,
                         account |-> account, persist |-> persist]
             to == [model |-> value.model, account |-> value.account, defaulted |-> FALSE]
             new == [policy.tiers EXCEPT ![tier] = to]
  <2>2. account \in MaybeName /\ persist \in BOOLEAN /\ value \in Values /\ tier \in Tiers
    BY <2>1, StoredNames, PersistAssumption DEF FileInv, MaybeName
  <2>3. request \in TierRequests
    BY <2>2 DEF TierRequests
  <2>4. value \in Mapped
    BY <2>2, MappingAssumption
  <2>5. to \in [model : Models, account : MaybeName, defaulted : BOOLEAN]
    BY <2>4 DEF Mapped, MaybeName
  <2>6. new \in Mappings
    <3> HIDE DEF to
    <3> QED
      BY <2>2, <2>5 DEF PolicyInv, Policies, Mappings
  <2>7. Called(c, request, "checking tiers", new)
    BY <2>1
  <2> HIDE DEF request, new
  <2>8. /\ Others(c) /\ pc'[c] = "checking tiers" /\ arg'[c] = request /\ kept'[c] = new
    BY <2>7, CalledIs
  <2>9. CallType(c)'
    BY <2>3, <2>6, <2>8 DEF CallType
  <2> QED
    BY <2>8, <2>9, CallFrame
<1>2. CASE CheckTiers(c)
  <2> DEFINE now == AppliesNow(arg[c].account)
             valid == /\ Matters(arg[c])
                      /\ now => Validates(catalog, ValidatedModels(file, kept[c]))
             to == IF valid THEN After(arg[c]) ELSE "refused"
             held == [tiers |-> kept[c], now |-> now]
  <2>1. Takes(c, "checking tiers", to, held)
    BY <1>2 DEF CheckTiers
  <2>2. to \in {"editing", "applying", "refused"} /\ now \in BOOLEAN
    BY DEF After, AppliesNow
  <2> HIDE DEF valid, to, now, held
  <2>3. /\ Others(c) /\ pc[c] = "checking tiers" /\ pc'[c] = to
        /\ to \in {"editing", "applying"} => kept'[c] = held /\ arg'[c] = arg[c]
    BY <2>1, TakesIs DEF Resting
  <2>4. arg[c] \in TierRequests /\ kept[c] \in Mappings
    BY <1>0, <2>3 DEF CallType
  <2>5. CASE to \in {"editing", "applying"}
    <3>1. arg'[c] \in TierRequests /\ kept'[c].tiers \in Mappings /\ kept'[c].now \in BOOLEAN
      <4>1. kept'[c] = held /\ arg'[c] = arg[c]
        BY <2>3, <2>5
      <4>2. held.tiers = kept[c] /\ held.now = now
        BY DEF held
      <4> QED
        BY <2>2, <2>4, <4>1, <4>2
    <3>2. CallType(c)'
      BY <2>3, <2>5, <3>1 DEF CallType
    <3> QED
      BY <2>3, <3>2, CallFrame
  <2>6. CASE to = "refused"
    <3>1. pc'[c] = to
      BY <2>3
    <3>2. pc'[c] \in Resting
      BY <3>1, <2>6 DEF Resting
    <3>3. CallType(c)'
      BY <3>2, Ends
    <3>4. Others(c)
      BY <2>3
    <3> QED
      BY <3>3, <3>4, CallFrame
  <2> QED
    BY <2>2, <2>5, <2>6
<1>3. CASE EditTiers(c)
  <2> DEFINE under == IF arg[c].account # None THEN arg[c].account
                      ELSE ShadowingTier(config, ServingName(file), arg[c].tier)
             new == SetTier(config, under, arg[c].tier, arg[c].value)
  <2>1. /\ arg[c].method = "tiers.set"
        /\ Takes(c, "editing", "writing",
                 [tiers |-> kept[c].tiers, now |-> kept[c].now, config |-> new])
    BY <1>3 DEF EditTiers, Within
  <2>2. /\ Others(c) /\ pc[c] = "editing" /\ pc'[c] = "writing" /\ arg'[c] = arg[c]
        /\ kept'[c] = [tiers |-> kept[c].tiers, now |-> kept[c].now, config |-> new]
    BY <2>1, TakesIs DEF Resting
  <2>3. arg[c] \in TierRequests /\ kept[c].tiers \in Mappings /\ kept[c].now \in BOOLEAN
    BY <1>0, <2>1, <2>2 DEF CallType, EffortRequests, ConsentRequests
  <2>4. under \in Names \cup {None} /\ arg[c].tier \in Tiers /\ arg[c].value \in Mapped
    BY <2>3, ServingNameType, MappingAssumption DEF TierRequests, ShadowingTier, MaybeName, FileInv
  <2>5. IsConfiguration(new)
    <3> HIDE DEF under
    <3> QED
      BY <2>4, SetTierIs DEF PolicyInv
  <2> HIDE DEF new
  <2>6. CallType(c)'
    BY <2>2, <2>3, <2>5 DEF CallType
  <2> QED
    BY <2>2, <2>6, CallFrame
<1>4. CASE AskEffort(c)
  <2>1. PICK effort \in Efforts \cup {None}, account \in Stored(file) \cup {None},
             persist \in Persists :
          Called(c, [method |-> "effort.set", effort |-> effort, account |-> account,
                     persist |-> persist],
                 After([method |-> "effort.set", effort |-> effort, account |-> account,
                        persist |-> persist]),
                 [now |-> AppliesNow(account)])
    BY <1>4 DEF AskEffort
  <2>2. /\ Others(c) /\ pc'[c] \in {"editing", "applying"}
        /\ arg'[c] = [method |-> "effort.set", effort |-> effort, account |-> account,
                      persist |-> persist]
        /\ kept'[c] = [now |-> AppliesNow(account)]
    BY <2>1, CalledIs DEF After
  <2>3. account \in MaybeName /\ persist \in BOOLEAN /\ effort \in Ceilings
    BY <2>1, StoredNames, PersistAssumption DEF FileInv, MaybeName, Ceilings
  <2>4. arg'[c] \in EffortRequests /\ kept'[c].now \in BOOLEAN
    BY <2>2, <2>3 DEF EffortRequests, AppliesNow
  <2>5. CallType(c)'
    BY <2>2, <2>4 DEF CallType
  <2> QED
    BY <2>2, <2>5, CallFrame
<1>5. CASE EditEffort(c)
  <2> DEFINE under == IF arg[c].account # None THEN arg[c].account
                      ELSE ShadowingEffort(config, ServingName(file))
             new == SetEffort(config, under, arg[c].effort)
  <2>1. /\ arg[c].method = "effort.set"
        /\ Takes(c, "editing", "writing", [now |-> kept[c].now, config |-> new])
    BY <1>5 DEF EditEffort, Within
  <2>2. /\ Others(c) /\ pc[c] = "editing" /\ pc'[c] = "writing" /\ arg'[c] = arg[c]
        /\ kept'[c] = [now |-> kept[c].now, config |-> new]
    BY <2>1, TakesIs DEF Resting
  <2>3. arg[c] \in EffortRequests /\ kept[c].now \in BOOLEAN
    BY <1>0, <2>1, <2>2 DEF CallType, TierRequests, ConsentRequests
  <2>4. under \in Names \cup {None} /\ arg[c].effort \in Ceilings
    BY <2>3, ServingNameType DEF EffortRequests, ShadowingEffort, MaybeName, FileInv
  <2>5. IsConfiguration(new)
    <3> HIDE DEF under
    <3> QED
      BY <2>4, SetEffortIs DEF PolicyInv
  <2> HIDE DEF new
  <2>6. CallType(c)'
    BY <2>2, <2>3, <2>5 DEF CallType
  <2> QED
    BY <2>2, <2>6, CallFrame
<1>6. CASE AskConsent(c)
  <2>1. PICK enabled \in BOOLEAN :
          Called(c, [method |-> "cross_account_tiers.set", enabled |-> enabled], "editing", None)
    BY <1>6 DEF AskConsent
  <2>2. /\ Others(c) /\ pc'[c] = "editing"
        /\ arg'[c] = [method |-> "cross_account_tiers.set", enabled |-> enabled]
    BY <2>1, CalledIs
  <2>3. arg'[c] \in ConsentRequests
    BY <2>2 DEF ConsentRequests
  <2>4. CallType(c)'
    BY <2>2, <2>3 DEF CallType
  <2> QED
    BY <2>2, <2>4, CallFrame
<1>7. CASE EditConsent(c)
  <2> DEFINE new == SetCrossAccountTiers(config, arg[c].enabled)
  <2>1. /\ arg[c].method = "cross_account_tiers.set"
        /\ Takes(c, "editing", "writing", [now |-> TRUE, config |-> new])
    BY <1>7 DEF EditConsent, Within
  <2>2. /\ Others(c) /\ pc[c] = "editing" /\ pc'[c] = "writing" /\ arg'[c] = arg[c]
        /\ kept'[c] = [now |-> TRUE, config |-> new]
    BY <2>1, TakesIs DEF Resting
  <2>3. arg[c] \in ConsentRequests
    BY <1>0, <2>1, <2>2 DEF CallType, TierRequests, EffortRequests
  <2>4. arg[c].enabled \in BOOLEAN
    BY <2>3 DEF ConsentRequests
  <2>5. IsConfiguration(new)
    BY <2>4, SetConsentIs DEF PolicyInv
  <2> HIDE DEF new
  <2>6. CallType(c)'
    BY <2>2, <2>3, <2>5 DEF CallType
  <2> QED
    BY <2>2, <2>6, CallFrame
<1>8. CASE ApplyTiers(c) \/ ApplyEffort(c) \/ ApplyConsent(c)
  <2>1. Continues(c, "applying", "answered")
    BY <1>8 DEF ApplyTiers, ApplyEffort, ApplyConsent
  <2>2. Others(c) /\ pc'[c] = "answered"
    BY <2>1, ContinuesIs
  <2> QED
    BY <2>2, Ends, CallFrame DEF Resting
<1>9. CASE WriteConfig(c)
  <2>1. PICK to \in {"applying", "answered"} : Continues(c, "writing", to)
    BY <1>9 DEF WriteConfig
  <2>2. /\ Others(c) /\ pc[c] = "writing" /\ pc'[c] = to
        /\ to = "applying" => kept'[c] = kept[c] /\ arg'[c] = arg[c]
    BY <2>1, ContinuesIs DEF Resting
  <2>3. CallType(c)'
    BY <1>0, <2>2 DEF CallType
  <2> QED
    BY <2>2, <2>3, CallFrame
<1> QED
  BY <1>1, <1>2, <1>3, <1>4, <1>5, <1>6, <1>7, <1>8, <1>9 DEF Setting

(* What the methods that switch accounts ask and hold.                     *)
LEMMA SwitchingCallStep ==
  ASSUME TypeInv, NEW c \in Callers, Switching(c)
  PROVE  CallInv'
<1> USE DEF TypeInv
<1>0. CallType(c) /\ file \in FileType /\ ServingName(file) \in MaybeName
  BY ServingNameType DEF CallInv, FileInv, Kept, MaybeName
<1>1. CASE RenameInStore(c)
  <2>1. PICK from \in Stored(file), to \in Names :
          Called(c, [method |-> "accounts.rename", from |-> from, to |-> to], "moving", None)
    BY <1>1 DEF RenameInStore
  <2> DEFINE request == [method |-> "accounts.rename", from |-> from, to |-> to]
  <2>2. request \in RenameRequests
    BY <2>1, StoredNames DEF RenameRequests, FileInv
  <2> HIDE DEF request
  <2>3. Called(c, request, "moving", None)
    BY <2>1 DEF request
  <2>4. Others(c) /\ pc'[c] = "moving" /\ arg'[c] = request
    BY <2>3, CalledIs
  <2>5. CallType(c)'
    BY <2>2, <2>4 DEF CallType
  <2> QED
    BY <2>4, <2>5, CallFrame
<1>2. CASE MoveSection(c) \/ RenameBack(c) \/ DropSessions(c) \/ RecordUsage(c)
  <2>1. PICK from \in {"moving", "dropping", "measuring"}, to \in Resting : Continues(c, from, to)
    BY <1>2 DEF MoveSection, RenameBack, DropSessions, RecordUsage, Resting
  <2>2. Others(c) /\ pc'[c] \in Resting
    BY <2>1, ContinuesIs
  <2>3. CallType(c)'
    BY <2>2, Ends
  <2> QED
    BY <2>2, <2>3, CallFrame
<1>3. CASE AskSelect(c)
  <2>1. PICK name \in Names :
          Called(c, [method |-> "accounts.select", account |-> name], "selecting",
                 [previous |-> ServingName(file), brings |-> {}])
    BY <1>3 DEF AskSelect
  <2> DEFINE request == [method |-> "accounts.select", account |-> name]
             held == [previous |-> ServingName(file), brings |-> {}]
  <2>2. request \in SelectRequests
    BY <2>1 DEF SelectRequests
  <2>3. held \in Leaving
    BY <1>0 DEF Leaving
  <2> HIDE DEF request, held
  <2>4. Called(c, request, "selecting", held)
    BY <2>1 DEF request, held
  <2>5. Others(c) /\ pc'[c] = "selecting" /\ arg'[c] = request /\ kept'[c] = held
    BY <2>4, CalledIs
  <2>6. CallType(c)'
    BY <2>2, <2>3, <2>5 DEF CallType
  <2> QED
    BY <2>5, <2>6, CallFrame
<1>4. CASE SelectInStore(c)
  <2>1. PICK to \in {"switched", "refused"} : Continues(c, "selecting", to)
    BY <1>4 DEF SelectInStore
  <2>2. /\ Others(c) /\ pc[c] = "selecting" /\ pc'[c] = to
        /\ to = "switched" => kept'[c] = kept[c] /\ arg'[c] = arg[c]
    BY <2>1, ContinuesIs DEF Resting
  <2>3. CallType(c)'
    BY <1>0, <2>1, <2>2 DEF CallType
  <2> QED
    BY <2>2, <2>3, CallFrame
<1>5. CASE ResolveMapping(c)
  <2> DEFINE name == arg[c].account
             to == IF Accepts(file, config, catalog, name) THEN "mapping" ELSE "undoing"
             held == [tiers |-> Resolved(config, name), ceiling |-> EffortFor(config, name),
                      previous |-> kept[c].previous, brings |-> {}]
  <2>1. Takes(c, "resolving", to, held)
    BY <1>5 DEF ResolveMapping
  <2>2. to \in {"mapping", "undoing"}
    OBVIOUS
  <2> HIDE DEF to, held
  <2>3. Others(c) /\ pc[c] = "resolving" /\ pc'[c] = to /\ kept'[c] = held /\ arg'[c] = arg[c]
    BY <2>1, <2>2, TakesIs DEF Resting
  <2>4. arg[c] \in SelectRequests /\ kept[c] \in Leaving
    BY <1>0, <2>3 DEF CallType
  <2>5. Resolved(config, name) \in Mappings /\ EffortFor(config, name) \in Ceilings
    BY ResolvedIs, ReadsType DEF PolicyInv
  <2>6. held \in Taking
    BY <2>4, <2>5 DEF held, Taking, Leaving
  <2>7. CallType(c)'
    BY <2>2, <2>3, <2>4, <2>6 DEF CallType
  <2> QED
    BY <2>3, <2>7, CallFrame
<1>6. CASE SetMapping(c) \/ SetCeiling(c)
  <2>1. PICK from \in {"mapping", "capping"}, to \in {"capping", "dropping"} : Continues(c, from, to)
    BY <1>6 DEF SetMapping, SetCeiling
  <2>2. Others(c) /\ pc[c] = from /\ pc'[c] = to /\ kept'[c] = kept[c] /\ arg'[c] = arg[c]
    BY <2>1, ContinuesIs DEF Resting
  <2>3. CallType(c)'
    BY <1>0, <2>1, <2>2 DEF CallType
  <2> QED
    BY <2>2, <2>3, CallFrame
<1>7. CASE UndoSelect(c)
  <2>1. PICK to \in {"undone", "stranded"} : Continues(c, "undoing", to)
    BY <1>7 DEF UndoSelect
  <2>2. /\ Others(c) /\ pc[c] = "undoing" /\ pc'[c] = to
        /\ to = "undone" => kept'[c] = kept[c] /\ arg'[c] = arg[c]
    BY <2>1, ContinuesIs DEF Resting
  <2>3. CallType(c)'
    BY <1>0, <2>1, <2>2 DEF CallType
  <2> QED
    BY <2>2, <2>3, CallFrame
<1>8. CASE AskForget(c)
  <2>1. PICK name \in Stored(file) \cup {None} :
          Called(c, [method |-> "accounts.forget", account |-> name], "forgetting",
                 [serving |-> ServingName(file), brings |-> {}])
    BY <1>8 DEF AskForget
  <2> DEFINE request == [method |-> "accounts.forget", account |-> name]
             held == [serving |-> ServingName(file), brings |-> {}]
  <2>2. request \in ForgetRequests
    BY <2>1, StoredNames DEF ForgetRequests, MaybeName, FileInv
  <2>3. held \in Losing
    BY <1>0 DEF Losing
  <2> HIDE DEF request, held
  <2>4. Called(c, request, "forgetting", held)
    BY <2>1 DEF request, held
  <2>5. Others(c) /\ pc'[c] = "forgetting" /\ arg'[c] = request /\ kept'[c] = held
    BY <2>4, CalledIs
  <2>6. CallType(c)'
    BY <2>2, <2>3, <2>5 DEF CallType
  <2> QED
    BY <2>5, <2>6, CallFrame
<1>9. CASE ForgetInStore(c) \/ ForgetFigure(c)
  <2>1. PICK from \in {"forgetting", "forgot"}, to \in {"forgot", "handed over", "refused", "answered"} :
          Continues(c, from, to)
    BY <1>9 DEF ForgetInStore, ForgetFigure, HandOver
  <2>2. /\ Others(c) /\ pc[c] = from /\ pc'[c] = to
        /\ to \in {"forgot", "handed over"} => kept'[c] = kept[c] /\ arg'[c] = arg[c]
    BY <2>1, ContinuesIs DEF Resting
  <2>3. CallType(c)'
    BY <1>0, <2>1, <2>2 DEF CallType
  <2> QED
    BY <2>2, <2>3, CallFrame
<1>10. CASE Authorize(c)
  <2> DEFINE held == [kept[c] EXCEPT !.brings = Lists(file)]
  <2>1. PICK from \in {"switched", "undone", "handed over"},
             to \in {"fetching", "refetching", "landing"} :
          /\ <<from, to>> \in {<<"switched", "fetching">>, <<"undone", "refetching">>,
                               <<"handed over", "landing">>}
          /\ Takes(c, from, to, held)
    BY <1>10 DEF Authorize
  <2> HIDE DEF held
  <2>2. Others(c) /\ pc[c] = from /\ pc'[c] = to /\ kept'[c] = held /\ arg'[c] = arg[c]
    BY <2>1, TakesIs DEF Resting
  <2>3. Lists(file) \subseteq CatalogType
    BY <1>0, ListsType
  <2>4. /\ kept[c] \in Leaving => held \in Leaving
        /\ kept[c] \in Taking => held \in Taking
        /\ kept[c] \in Losing => held \in Losing
    BY <2>3 DEF held, Leaving, Taking, Losing
  <2>5. CallType(c)'
    BY <1>0, <2>1, <2>2, <2>4 DEF CallType
  <2> QED
    BY <2>2, <2>5, CallFrame
<1>11. CASE Land(c)
  <2>1. PICK from \in {"fetching", "refetching", "landing"},
             to \in {"resolving", "refused", "answered"} :
          /\ to = "resolving" => from = "fetching"
          /\ Continues(c, from, to)
    BY <1>11 DEF Land
  <2>2. /\ Others(c) /\ pc[c] = from /\ pc'[c] = to
        /\ to = "resolving" => kept'[c] = kept[c] /\ arg'[c] = arg[c]
    BY <2>1, ContinuesIs DEF Resting
  <2>3. CallType(c)'
    BY <1>0, <2>1, <2>2 DEF CallType
  <2> QED
    BY <2>2, <2>3, CallFrame
<1>12. CASE AskUsage(c)
  <2> DEFINE request == [method |-> "usage.refresh"]
  <2>1. Spends(file, None) # None /\ Called(c, request, "measuring", Spends(file, None))
    BY <1>12 DEF AskUsage
  <2> HIDE DEF request
  <2>2. Others(c) /\ pc'[c] = "measuring" /\ kept'[c] = Spends(file, None)
    BY <2>1, CalledIs
  <2>3. Spends(file, None) \in Owners
    BY <1>0, <2>1, ServingIs
  <2>4. CallType(c)'
    BY <2>2, <2>3 DEF CallType
  <2> QED
    BY <2>2, <2>4, CallFrame
<1> QED
  BY <1>1, <1>2, <1>3, <1>4, <1>5, <1>6, <1>7, <1>8, <1>9, <1>10, <1>11, <1>12 DEF Switching

LEMMA CallStep ==
  ASSUME TypeInv, [Next]_vars
  PROVE  CallInv'
<1>1. CASE UNCHANGED caller
  BY <1>1 DEF TypeInv, CallInv, CallType, caller
<1>2. CASE \E c \in Callers : Setting(c) \/ Switching(c)
  BY <1>2, SettingCallStep, SwitchingCallStep
<1>3. CASE \E t \in Clients : Serving(t)
  <2>1. UNCHANGED caller
    BY <1>3 DEF Serving, Route, Forward, Resolve, Send, Record
  <2> QED
    BY <1>1, <2>1
<1>4. CASE Login
  <2>1. UNCHANGED <<pc, arg, kept, before>>
    BY <1>4 DEF Login
  <2> QED
    BY <2>1 DEF TypeInv, CallInv, CallType
<1>5. CASE Restart
  BY <1>5 DEF Restart, CallInv, CallType
<1>6. CASE UNCHANGED vars
  BY <1>1, <1>6 DEF vars
<1> QED
  BY <1>2, <1>3, <1>4, <1>5, <1>6 DEF Next

(* The steps of a call that move the configuration, the policy or the list *)
(* at most.                                                                *)
Quiet(c) ==
  \/ Setting(c) \/ MoveSection(c) \/ AskSelect(c) \/ ResolveMapping(c) \/ SetMapping(c)
  \/ SetCeiling(c) \/ AskForget(c) \/ Authorize(c) \/ Land(c) \/ AskUsage(c)

LEMMA QuietIs ==
  ASSUME NEW c, Quiet(c)
  PROVE  /\ UNCHANGED <<file, figures, nameless, listed, opened, up>>
         /\ UNCHANGED <<at, route, session, as, since, owed, strayed>>
<1> USE DEF daemon, store, lists, convs, turn, past
<1>1. CASE AskTiers(c) \/ CheckTiers(c) \/ EditTiers(c) \/ ApplyTiers(c)
  BY <1>1 DEF AskTiers, CheckTiers, EditTiers, ApplyTiers
<1>2. CASE AskEffort(c) \/ EditEffort(c) \/ ApplyEffort(c)
  BY <1>2 DEF AskEffort, EditEffort, ApplyEffort
<1>3. CASE AskConsent(c) \/ EditConsent(c) \/ ApplyConsent(c) \/ WriteConfig(c)
  BY <1>3 DEF AskConsent, EditConsent, ApplyConsent, WriteConfig
<1>4. CASE MoveSection(c) \/ AskSelect(c) \/ ResolveMapping(c) \/ SetMapping(c) \/ SetCeiling(c)
  BY <1>4 DEF MoveSection, AskSelect, ResolveMapping, SetMapping, SetCeiling
<1>5. CASE AskForget(c) \/ Authorize(c) \/ Land(c) \/ AskUsage(c)
  BY <1>5 DEF AskForget, Authorize, Land, AskUsage
<1> QED
  BY <1>1, <1>2, <1>3, <1>4, <1>5 DEF Quiet, Setting

(* The steps of a turn, which move neither file nor the policy.            *)
LEMMA ServingSteps ==
  ASSUME NEW t, Serving(t)
  PROVE  UNCHANGED <<file, config, policy, catalog, up, owed, drifted>> /\ UNCHANGED caller
  BY DEF Serving, Route, Forward, Resolve, Send, Record, daemon, store, lists, convs, past

(* Every other step.                                                       *)
LEMMA StepIs ==
  ASSUME [Next]_vars
  PROVE  \/ \E c \in Callers : Quiet(c)
         \/ \E c \in Callers : \/ RenameInStore(c) \/ RenameBack(c) \/ SelectInStore(c)
                               \/ DropSessions(c) \/ UndoSelect(c) \/ ForgetInStore(c)
                               \/ ForgetFigure(c) \/ RecordUsage(c)
         \/ \E t \in Clients : Serving(t)
         \/ Login \/ Restart \/ UNCHANGED vars
  BY DEF Next, Switching, Quiet

LEMMA LoginIs ==
  ASSUME Kept(file), Login
  PROVE  \E name \in Names, owner \in Owners :
           /\ IndexOf(file, name) = 0
           /\ file' = SelectIfNoneServes(Appended(file, name, Codex, Grant(owner, owner, owner)), name)
<1>1. PICK owner \in DOMAIN Menu, label \in Labels \cup {None} :
        /\ IndexByAccount(file, owner) = 0
        /\ IndexOf(file, AddName(file, Grant(owner, owner, owner), label)) = 0
        /\ file' = Added(file, Grant(owner, owner, owner), label)
  BY DEF Login
<1> DEFINE grant == Grant(owner, owner, owner)
           name == AddName(file, grant, label)
<1>2. owner \in Owners /\ owner # None
  BY <1>1, MenuAssumption, NoneAssumption DEF Names
<1>3. grant.account = owner
  BY DEF Grant
<1>4. name \in Names
  <2>1. name = IF label # None THEN label ELSE owner
    BY <1>1, <1>2, <1>3 DEF AddName, NameFor
  <2> QED
    BY <1>1, <1>2, <2>1 DEF Names
<1>5. file' = SelectIfNoneServes(Appended(file, name, Codex, grant), name)
  BY <1>1, <1>3 DEF Added, Put, Either
<1> QED
  BY <1>1, <1>2, <1>4, <1>5

(* Every verb keeps the file a file.                                       *)
LEMMA FileStep ==
  ASSUME TypeInv, [Next]_vars
  PROVE  FileInv'
<1> SUFFICES Kept(file')
  BY DEF FileInv, Kept, Stored
<1>0. Kept(file) /\ file \in FileType
  BY DEF TypeInv, FileInv, Kept
<1>1. ASSUME UNCHANGED file PROVE Kept(file')
  BY <1>0, <1>1
<1>2. ASSUME NEW c \in Callers, RenameInStore(c) PROVE Kept(file')
  <2>1. PICK from \in Stored(file), to \in Names :
          CanRename(file, from, to) /\ file' = Renamed(file, from, to)
    BY <1>2 DEF RenameInStore
  <2>2. from \in Names
    BY <1>0, <2>1, StoredNames
  <2> QED
    BY <1>0, <2>1, <2>2, RenamedIs
<1>3. ASSUME NEW c \in Callers, RenameBack(c) PROVE Kept(file')
  <2>1. /\ pc[c] = "moving"
        /\ file' = IF CanRename(file, arg[c].to, arg[c].from)
                   THEN Renamed(file, arg[c].to, arg[c].from) ELSE file
    BY <1>3 DEF RenameBack, Continues, Takes
  <2>2. arg[c].from \in Names /\ arg[c].to \in Names
    BY <2>1 DEF TypeInv, CallInv, CallType, RenameRequests
  <2> QED
    BY <1>0, <2>1, <2>2, RenamedIs
<1>4. ASSUME NEW c \in Callers, SelectInStore(c) \/ UndoSelect(c) PROVE Kept(file')
  <2>1. file' = file \/ \E name \in Stored(file) : file' = Selected(file, name)
    BY <1>4 DEF SelectInStore, UndoSelect, daemon, store
  <2> QED
    BY <1>0, <2>1, SelectedIs
<1>5. ASSUME NEW c \in Callers, ForgetInStore(c) PROVE Kept(file')
  <2> DEFINE i == IF arg[c].account = None THEN SelectedIndex(file)
                  ELSE IndexOf(file, arg[c].account)
  <2>1. file' = IF i = 0 THEN file ELSE Removed(file, i)
    BY <1>5 DEF ForgetInStore
  <2>2. i # 0 => i \in 1..Len(file.accounts)
    BY <1>0, ServingIs, IndexOfIs
  <2> HIDE DEF i
  <2> QED
    BY <1>0, <2>1, <2>2, RemovedIs
<1>6. ASSUME Login PROVE Kept(file')
  BY <1>0, <1>6, LoginIs, AppendedIs
<1>7. ASSUME NEW c \in Callers, Quiet(c) \/ DropSessions(c) \/ ForgetFigure(c) \/ RecordUsage(c)
      PROVE  Kept(file')
  BY <1>1, <1>7, QuietIs DEF DropSessions, ForgetFigure, HandOver, RecordUsage, store
<1>8. ASSUME NEW t \in Clients, Serving(t) PROVE Kept(file')
  BY <1>1, <1>8, ServingSteps
<1>9. ASSUME Restart \/ UNCHANGED vars PROVE Kept(file')
  BY <1>1, <1>9 DEF Restart, vars, daemon, store
<1> QED
  BY <1>2, <1>3, <1>4, <1>5, <1>6, <1>7, <1>8, <1>9, StepIs

(* What a call puts in the configuration file or in force is of its form.  *)
LEMMA PolicyStep ==
  ASSUME TypeInv, [Next]_vars
  PROVE  PolicyInv'
<1> SUFFICES IsConfiguration(config') /\ policy' \in Policies
  BY DEF PolicyInv, IsConfiguration
<1>0. IsConfiguration(config) /\ policy \in Policies /\ \A c \in Callers : CallType(c)
  BY DEF TypeInv, PolicyInv, CallInv
<1> DEFINE Goal == IsConfiguration(config') /\ policy' \in Policies
<1>1. ASSUME UNCHANGED <<config, policy>> PROVE Goal
  BY <1>0, <1>1
<1>2. \A tiers \in Mappings : [policy EXCEPT !.tiers = tiers] \in Policies
  BY <1>0 DEF Policies
<1>3. \A ceiling \in Ceilings : [policy EXCEPT !.ceiling = ceiling] \in Policies
  BY <1>0 DEF Policies
<1>4. \A consent \in BOOLEAN : [policy EXCEPT !.consent = consent] \in Policies
  BY <1>0 DEF Policies
<1>5. ASSUME NEW c \in Callers, ApplyTiers(c) \/ SetMapping(c) PROVE Goal
  <2>1. UNCHANGED config /\ policy' = [policy EXCEPT !.tiers = kept[c].tiers]
    BY <1>5 DEF ApplyTiers, SetMapping, store
  <2>2. kept[c].tiers \in Mappings
    <3>1. CASE ApplyTiers(c)
      <4>1. pc[c] = "applying" /\ arg[c].method = "tiers.set"
        BY <3>1 DEF ApplyTiers, Within
      <4> QED
        BY <1>0, <4>1 DEF CallType, EffortRequests, ConsentRequests
    <3>2. CASE SetMapping(c)
      BY <1>0, <3>2 DEF SetMapping, Continues, Takes, CallType, Taking
    <3> QED
      BY <1>5, <3>1, <3>2
  <2> QED
    BY <1>0, <1>2, <2>1, <2>2
<1>6. ASSUME NEW c \in Callers, ApplyEffort(c) PROVE Goal
  <2> DEFINE ceiling == IF arg[c].persist THEN EffortFor(config, ServingName(file))
                        ELSE arg[c].effort
  <2>1. /\ pc[c] = "applying" /\ arg[c].method = "effort.set" /\ UNCHANGED config
        /\ policy' = [policy EXCEPT !.ceiling = ceiling]
    BY <1>6 DEF ApplyEffort, Within, store
  <2>2. arg[c] \in EffortRequests
    BY <1>0, <2>1 DEF CallType, TierRequests, ConsentRequests
  <2>3. arg[c].effort \in Ceilings
    BY <2>2 DEF EffortRequests
  <2>4. ceiling \in Ceilings
    BY <1>0, <2>3, ReadsType
  <2> HIDE DEF ceiling
  <2> QED
    BY <1>0, <1>3, <2>1, <2>4
<1>7. ASSUME NEW c \in Callers, SetCeiling(c) PROVE Goal
  <2>1. /\ pc[c] = "capping" /\ UNCHANGED config
        /\ policy' = [policy EXCEPT !.ceiling = kept[c].ceiling]
    BY <1>7 DEF SetCeiling, Continues, Takes, store
  <2>2. kept[c].ceiling \in Ceilings
    BY <1>0, <2>1 DEF CallType, Taking
  <2> QED
    BY <1>0, <1>3, <2>1, <2>2
<1>8. ASSUME NEW c \in Callers, ApplyConsent(c) PROVE Goal
  <2>1. /\ pc[c] = "applying" /\ arg[c].method = "cross_account_tiers.set" /\ UNCHANGED config
        /\ policy' = [policy EXCEPT !.consent = arg[c].enabled]
    BY <1>8 DEF ApplyConsent, Within, store
  <2>2. arg[c] \in ConsentRequests
    BY <1>0, <2>1 DEF CallType, TierRequests, EffortRequests
  <2>3. arg[c].enabled \in BOOLEAN
    BY <2>2 DEF ConsentRequests
  <2> QED
    BY <1>0, <1>4, <2>1, <2>3
<1>9. ASSUME NEW c \in Callers, WriteConfig(c) PROVE Goal
  BY <1>0, <1>9 DEF WriteConfig, Continues, Takes, CallType
<1>10. ASSUME NEW c \in Callers, MoveSection(c) PROVE Goal
  <2>1. /\ pc[c] = "moving" /\ UNCHANGED policy /\ CanMoveSection(config, arg[c].to)
        /\ config' = IF arg[c].from \in DOMAIN config.sections
                     THEN MovedSection(config, arg[c].from, arg[c].to) ELSE config
    BY <1>10 DEF MoveSection, Continues, Takes
  <2>2. arg[c].to \in Names
    BY <1>0, <2>1 DEF CallType, RenameRequests
  <2> QED
    BY <1>0, <2>1, <2>2, MovedSectionIs
<1>11. ASSUME NEW c \in Callers,
              \/ AskTiers(c) \/ CheckTiers(c) \/ EditTiers(c) \/ AskEffort(c) \/ EditEffort(c)
              \/ AskConsent(c) \/ EditConsent(c)
       PROVE  Goal
  <2>1. UNCHANGED daemon
    BY <1>11 DEF AskTiers, CheckTiers, EditTiers, AskEffort, EditEffort, AskConsent, EditConsent
  <2> QED
    BY <1>1, <2>1 DEF daemon, store
<1>12. ASSUME NEW c \in Callers,
              \/ AskSelect(c) \/ ResolveMapping(c) \/ AskForget(c) \/ Authorize(c) \/ Land(c)
              \/ AskUsage(c) \/ RenameInStore(c) \/ RenameBack(c) \/ SelectInStore(c)
              \/ DropSessions(c) \/ UndoSelect(c) \/ ForgetInStore(c) \/ ForgetFigure(c)
              \/ RecordUsage(c)
       PROVE  Goal
  <2>1. UNCHANGED <<config, policy>>
    <3>1. CASE AskSelect(c) \/ ResolveMapping(c) \/ AskForget(c) \/ Authorize(c) \/ Land(c)
               \/ AskUsage(c)
      BY <3>1 DEF AskSelect, ResolveMapping, AskForget, Authorize, Land, AskUsage, daemon, store
    <3>2. CASE RenameInStore(c) \/ RenameBack(c) \/ SelectInStore(c) \/ DropSessions(c)
      BY <3>2 DEF RenameInStore, RenameBack, SelectInStore, DropSessions, store
    <3>3. CASE UndoSelect(c) \/ ForgetInStore(c) \/ ForgetFigure(c) \/ RecordUsage(c)
      BY <3>3 DEF UndoSelect, ForgetInStore, ForgetFigure, HandOver, RecordUsage, daemon, store
    <3> QED
      BY <1>12, <3>1, <3>2, <3>3
  <2> QED
    BY <1>1, <2>1
<1>13. ASSUME NEW t \in Clients, Serving(t) PROVE Goal
  BY <1>1, <1>13, ServingSteps
<1>14. ASSUME Login \/ UNCHANGED vars PROVE Goal
  BY <1>1, <1>14 DEF Login, vars, daemon, store
<1>15. ASSUME Restart PROVE Goal
  <2>1. PICK list \in Lists(file) \cup {Fallback} :
          policy' = StartPolicy(file, config, list) /\ UNCHANGED config
    BY <1>15 DEF Restart, store
  <2>2. list \in CatalogType
    BY <2>1, ListsType DEF TypeInv, FileInv, Kept
  <2> QED
    BY <1>0, <2>1, <2>2, StartIs
<1> QED
  BY <1>5, <1>6, <1>7, <1>8, <1>9, <1>10, <1>11, <1>12, <1>13, <1>14, <1>15
     DEF Next, Setting, Switching

(* A figure is of an account.                                              *)
LEMMA FiledIs ==
  ASSUME NEW who \in Owners, NEW name \in MaybeName, Filed(who, name), ListInv, Kept(file)
  PROVE  figures' \in [Names -> MaybeOwner] /\ nameless' \in MaybeOwner
<1> DEFINE under == IF name # None THEN name ELSE ServingName(file)
<1>1. under \in Names \cup {None}
  BY ServingNameType DEF MaybeName
<1>2. IF under = None THEN nameless' = who /\ UNCHANGED figures
      ELSE figures' = [figures EXCEPT ![under] = who] /\ UNCHANGED nameless
  BY DEF Filed
<1> HIDE DEF under
<1> QED
  BY <1>1, <1>2 DEF ListInv, MaybeOwner

LEMMA ListStep ==
  ASSUME TypeInv, [Next]_vars
  PROVE  ListInv'
<1>0. ListInv /\ Kept(file) /\ file \in FileType /\ TurnInv /\ \A c \in Callers : CallType(c)
  BY DEF TypeInv, FileInv, Kept, CallInv
<1>1. ASSUME UNCHANGED lists PROVE ListInv'
  BY <1>0, <1>1 DEF ListInv, lists
<1>2. ASSUME NEW c \in Callers, Land(c) PROVE ListInv'
  <2>1. /\ pc[c] \in {"fetching", "refetching", "landing"}
        /\ catalog' \in kept[c].brings \cup {catalog} /\ UNCHANGED <<figures, nameless>>
    BY <1>2 DEF Land, Continues, Takes
  <2>2. kept[c].brings \subseteq CatalogType
    BY <1>0, <2>1 DEF CallType, Leaving, Taking, Losing
  <2> QED
    BY <1>0, <2>1, <2>2 DEF ListInv
<1>3. ASSUME NEW c \in Callers, DropSessions(c) \/ ForgetFigure(c) PROVE ListInv'
  <2>1. /\ UNCHANGED catalog /\ nameless' \in {None, nameless}
        /\ \/ UNCHANGED figures
           \/ figures' = [n \in Names |-> IF n = Forgotten(c) THEN None ELSE figures[n]]
    BY <1>3 DEF DropSessions, ForgetFigure, HandOver
  <2>2. None \in MaybeOwner
    BY DEF MaybeOwner
  <2> QED
    BY <1>0, <2>1, <2>2 DEF ListInv
<1>4. ASSUME NEW c \in Callers, RecordUsage(c) PROVE ListInv'
  <2>1. /\ pc[c] = "measuring" /\ UNCHANGED catalog
        /\ Filed(kept[c], None) \/ UNCHANGED <<figures, nameless>>
    BY <1>4 DEF RecordUsage, Continues, Takes
  <2>2. kept[c] \in Owners /\ None \in MaybeName
    BY <1>0, <2>1 DEF CallType, MaybeName
  <2> QED
    BY <1>0, <2>1, <2>2, FiledIs DEF ListInv
<1>5. ASSUME NEW t \in Clients, Serving(t) PROVE ListInv'
  <2>1. CASE UNCHANGED lists
    BY <1>1, <2>1
  <2>2. CASE Record(t)
    <3> DEFINE name == IF route[t].relayed # None THEN route[t].relayed ELSE route[t].pin
    <3>1. /\ at[t] = "answering" /\ UNCHANGED catalog
          /\ Filed(as[t], name) \/ UNCHANGED <<figures, nameless>>
      BY <2>2 DEF Record
    <3>2. as[t] \in Owners /\ name \in MaybeName
      BY <1>0, <3>1 DEF TurnInv, TurnType, Routes
    <3> HIDE DEF name
    <3> QED
      BY <1>0, <3>1, <3>2, FiledIs DEF ListInv
  <2> QED
    BY <1>5, <2>1, <2>2 DEF Serving, Route, Forward, Resolve, Send, daemon
<1>6. ASSUME Restart PROVE ListInv'
  <2>1. /\ catalog' \in Lists(file) \cup {Fallback}
        /\ figures' = [n \in Names |-> None] /\ nameless' = None
    BY <1>6 DEF Restart, NoFigures
  <2>2. Lists(file) \cup {Fallback} \subseteq CatalogType
    BY <1>0, ListsType
  <2>3. catalog' \in CatalogType
    BY <2>1, <2>2
  <2> QED
    BY <2>1, <2>3 DEF ListInv, MaybeOwner
<1>7. ASSUME NEW c \in Callers, Setting(c) PROVE ListInv'
  <2>1. UNCHANGED lists
    <3> USE DEF daemon
    <3>1. CASE AskTiers(c) \/ CheckTiers(c) \/ EditTiers(c) \/ ApplyTiers(c) \/ WriteConfig(c)
      BY <3>1 DEF AskTiers, CheckTiers, EditTiers, ApplyTiers, WriteConfig
    <3>2. CASE AskEffort(c) \/ EditEffort(c) \/ ApplyEffort(c)
      BY <3>2 DEF AskEffort, EditEffort, ApplyEffort
    <3>3. CASE AskConsent(c) \/ EditConsent(c) \/ ApplyConsent(c)
      BY <3>3 DEF AskConsent, EditConsent, ApplyConsent
    <3> QED
      BY <1>7, <3>1, <3>2, <3>3 DEF Setting
  <2> QED
    BY <1>1, <2>1
<1>8. ASSUME NEW c \in Callers,
             \/ AskSelect(c) \/ ResolveMapping(c) \/ SetMapping(c) \/ SetCeiling(c)
             \/ AskForget(c) \/ Authorize(c) \/ AskUsage(c) \/ RenameInStore(c) \/ MoveSection(c)
             \/ RenameBack(c) \/ SelectInStore(c) \/ UndoSelect(c) \/ ForgetInStore(c)
      PROVE  ListInv'
  <2>1. UNCHANGED lists
    <3> USE DEF daemon
    <3>1. CASE AskSelect(c) \/ ResolveMapping(c) \/ SetMapping(c) \/ SetCeiling(c) \/ AskForget(c)
      BY <3>1 DEF AskSelect, ResolveMapping, SetMapping, SetCeiling, AskForget
    <3>2. CASE Authorize(c) \/ AskUsage(c) \/ RenameInStore(c) \/ MoveSection(c) \/ RenameBack(c)
      BY <3>2 DEF Authorize, AskUsage, RenameInStore, MoveSection, RenameBack
    <3>3. CASE SelectInStore(c) \/ UndoSelect(c) \/ ForgetInStore(c)
      BY <3>3 DEF SelectInStore, UndoSelect, ForgetInStore
    <3> QED
      BY <1>8, <3>1, <3>2, <3>3
  <2> QED
    BY <1>1, <2>1
<1>9. ASSUME Login \/ UNCHANGED vars PROVE ListInv'
  BY <1>1, <1>9 DEF Login, vars, daemon
<1> QED
  BY <1>2, <1>3, <1>4, <1>5, <1>6, <1>7, <1>8, <1>9 DEF Next, Switching

-----------------------------------------------------------------------------
(* Turns.                                                                  *)

LEMMA TurnFrame ==
  ASSUME TurnInv, UNCHANGED <<at, route, session, as, opened>>,
         listed' \in Sessions \cup {None}, DOMAIN since' = Clients
  PROVE  TurnInv'
  BY DEF TurnInv, TurnType

(* What a step of a turn leaves of the others.                             *)
OtherTurns(t) ==
  /\ DOMAIN at' = Clients /\ DOMAIN route' = Clients /\ DOMAIN since' = Clients
  /\ session' \in [Clients -> Sessions \cup {None}] /\ as' \in [Clients -> MaybeOwner]
  /\ \A u \in Clients \ {t} : /\ at'[u] = at[u] /\ route'[u] = route[u] /\ as'[u] = as[u]
                              /\ session'[u] = session[u] /\ since'[u] = since[u]

LEMMA OneTurn ==
  ASSUME TurnInv, NEW t \in Clients, OtherTurns(t), TurnType(t)',
         listed' \in Sessions \cup {None}, opened' \in [Sessions -> Endpoints \cup {None}],
         \A u \in Clients \ {t} : session[u] \in Sessions /\ at[u] = "answering" =>
                                    opened'[session[u]] \in Endpoints
  PROVE  TurnInv'
<1>1. ASSUME NEW u \in Clients, u # t PROVE TurnType(u)'
  <2>1. TurnType(u)
    BY DEF TurnInv
  <2>2. /\ at'[u] = at[u] /\ route'[u] = route[u] /\ as'[u] = as[u]
        /\ session'[u] = session[u]
    BY <1>1 DEF OtherTurns
  <2>3. at[u] = "answering" /\ session[u] \in Sessions => opened'[session[u]] \in Endpoints
    BY <1>1
  <2> QED
    BY <2>1, <2>2, <2>3 DEF TurnType
<1> QED
  BY <1>1 DEF TurnInv, OtherTurns

LEMMA DoneIs ==
  ASSUME TurnInv, NEW t \in Clients, Done(t)
  PROVE  /\ OtherTurns(t) /\ TurnType(t)'
         /\ at'[t] = "idle" /\ session'[t] = None /\ since'[t] = {}
  BY NoneAssumption DEF TurnInv, Done, OtherTurns, TurnType, MaybeOwner

LEMMA EndpointIs ==
  ASSUME TurnInv, Kept(file), NEW s \in Sessions
  PROVE  /\ Endpoint(s) \in Endpoints
         /\ opened[s] # None => Endpoint(s) = opened[s]
         /\ opened[s] = None => Endpoint(s).socket = None
         /\ [Endpoint(s) EXCEPT !.socket = None] \in Endpoints
<1>1. KindOf(file, None) \in {"grant", "key"}
  <2>1. SelectedIndex(file) # 0 => SelectedIndex(file) \in 1..Len(file.accounts)
    BY ServingIs DEF Kept
  <2> QED
    BY <2>1, FileIs DEF KindOf, PositionOf, Kept
<1>2. opened[s] \in Endpoints \cup {None}
  BY DEF TurnInv
<1>3. Endpoint(s) = IF opened[s] = None THEN [kind |-> KindOf(file, None), socket |-> None]
                    ELSE opened[s]
  BY DEF Endpoint
<1>4. Endpoint(s) \in Endpoints
  BY <1>1, <1>2, <1>3 DEF Endpoints
<1>5. [Endpoint(s) EXCEPT !.socket = None] \in Endpoints
  BY <1>4 DEF Endpoints
<1> QED
  BY <1>3, <1>4, <1>5

LEMMA RoutingType ==
  ASSUME TypeInv, NEW asked
  PROVE  Routing(asked) \in Routes
<1> DEFINE pin == IF asked \in Tiers THEN policy.tiers[asked].account ELSE None
           claims == RelayingClaimants(file, policy.tiers, asked)
<1>1. pin \in MaybeName
  BY DEF TypeInv, PolicyInv, Policies, Mappings, MaybeName
<1>2. file \in FileType
  BY DEF TypeInv, FileInv, Kept
<1>3. claims \subseteq MaybeName
  BY <1>2, RelayedByType DEF RelayingClaimants
<1>4. RelayedBy(file, pin) \in MaybeName
  BY <1>2, RelayedByType
<1>5. Routing(asked) = [pin     |-> pin,
                        relayed |-> IF claims # {} THEN CHOOSE n \in claims : TRUE
                                    ELSE RelayedBy(file, pin)]
  BY DEF Routing
<1> HIDE DEF pin, claims
<1>6. claims # {} => (CHOOSE n \in claims : TRUE) \in MaybeName
  BY <1>3
<1> QED
  BY <1>1, <1>4, <1>5, <1>6 DEF Routes

LEMMA TurnStep ==
  ASSUME TypeInv, [Next]_vars
  PROVE  TurnInv'
<1>0. /\ TurnInv /\ Kept(file) /\ file \in FileType
      /\ listed \in Sessions \cup {None} /\ DOMAIN since = Clients
  BY DEF TypeInv, FileInv, Kept, TurnInv
<1>1. ASSUME NEW c \in Callers, Quiet(c) PROVE TurnInv'
  BY <1>0, <1>1, QuietIs, TurnFrame
<1>2. ASSUME NEW c \in Callers,
             \/ RenameInStore(c) \/ RenameBack(c) \/ SelectInStore(c) \/ DropSessions(c)
             \/ UndoSelect(c) \/ ForgetInStore(c) \/ ForgetFigure(c) \/ RecordUsage(c)
      PROVE  TurnInv'
  <2>1. /\ UNCHANGED <<at, route, session, as, opened>>
        /\ listed' \in {None, listed}
        /\ UNCHANGED since \/ Serves(file')
    <3> USE DEF convs, turn
    <3>1. CASE RenameInStore(c) \/ RenameBack(c) \/ SelectInStore(c) \/ DropSessions(c)
      BY <3>1 DEF RenameInStore, RenameBack, SelectInStore, DropSessions
    <3>2. CASE UndoSelect(c) \/ ForgetInStore(c) \/ ForgetFigure(c) \/ RecordUsage(c)
      BY <3>2 DEF UndoSelect, ForgetInStore, ForgetFigure, HandOver, RecordUsage, daemon
    <3> QED
      BY <1>2, <3>1, <3>2
  <2>2. DOMAIN since' = Clients
    BY <1>0, <2>1 DEF Serves
  <2> QED
    BY <1>0, <2>1, <2>2, TurnFrame
<1>3. ASSUME NEW t \in Clients, Route(t) PROVE TurnInv'
  <2>1. PICK asked : LET how == Routing(asked)
                     IN  /\ Moves(t, "idle", IF how.relayed # None THEN "relaying" ELSE "routed")
                         /\ route' = [route EXCEPT ![t] = how]
    BY <1>3 DEF Route
  <2> DEFINE how == Routing(asked)
             to == IF how.relayed # None THEN "relaying" ELSE "routed"
  <2>2. /\ at[t] = "idle" /\ at' = [at EXCEPT ![t] = to] /\ route' = [route EXCEPT ![t] = how]
        /\ since' = [since EXCEPT ![t] = owed] /\ UNCHANGED <<session, as, listed, opened>>
    BY <1>3, <2>1 DEF Route, Moves, daemon, convs
  <2>3. how \in Routes
    BY RoutingType
  <2>4. session[t] = None
    BY <1>0, <2>2 DEF TurnInv, TurnType
  <2> HIDE DEF how
  <2>5. TurnType(t)'
    BY <1>0, <2>2, <2>3, <2>4 DEF TurnType, TurnInv
  <2>6. OtherTurns(t)
    BY <1>0, <2>2 DEF OtherTurns, TurnInv
  <2> QED
    BY <1>0, <2>2, <2>5, <2>6, OneTurn DEF TurnInv, TurnType
<1>4. ASSUME NEW t \in Clients, Forward(t) PROVE TurnInv'
  <2> DEFINE who == Spends(file, route[t].relayed)
  <2>1. /\ at[t] = "relaying" /\ UNCHANGED <<listed, opened>>
        /\ \/ Done(t)
           \/ /\ who # None
              /\ at' = [at EXCEPT ![t] = "answering"] /\ as' = [as EXCEPT ![t] = who]
              /\ UNCHANGED <<route, session, since>>
    BY <1>4 DEF Forward, Moves, daemon, convs
  <2>2. route[t] \in Routes /\ route[t].relayed # None /\ session[t] = None
    BY <1>0, <2>1 DEF TurnInv, TurnType
  <2>3. who \in MaybeOwner
    BY <1>0, <2>2, SpendsType DEF Routes, MaybeName, MaybeOwner
  <2> HIDE DEF who
  <2>4. OtherTurns(t) /\ TurnType(t)'
    <3>1. CASE Done(t)
      BY <1>0, <3>1, DoneIs
    <3>2. CASE ~Done(t)
      <4>1. OtherTurns(t)
        BY <1>0, <2>1, <2>3, <3>2 DEF OtherTurns, TurnInv
      <4>2. at'[t] = "answering" /\ as'[t] = who /\ route'[t] = route[t] /\ session'[t] = None
        BY <1>0, <2>1, <2>2, <3>2 DEF TurnInv
      <4>3. who \in Owners
        BY <2>1, <2>3, <3>2 DEF MaybeOwner
      <4> QED
        BY <2>2, <4>1, <4>2, <4>3 DEF TurnType
    <3> QED
      BY <3>1, <3>2
  <2>5. ASSUME NEW u \in Clients \ {t}, session[u] \in Sessions, at[u] = "answering"
        PROVE  opened'[session[u]] \in Endpoints
    BY <1>0, <2>1, <2>5, NoneAssumption DEF TurnInv, TurnType
  <2>6. listed' \in Sessions \cup {None} /\ opened' \in [Sessions -> Endpoints \cup {None}]
    BY <1>0, <2>1 DEF TurnInv
  <2> QED
    BY <1>0, <2>4, <2>5, <2>6, OneTurn
<1>5. ASSUME NEW t \in Clients, Resolve(t) PROVE TurnInv'
  <2>1. PICK s \in Sessions :
          /\ IF listed # None THEN s = listed ELSE \A u \in Clients : session[u] # s
          /\ session' = [session EXCEPT ![t] = s] /\ listed' = s
          /\ opened' = IF listed # None THEN opened ELSE [opened EXCEPT ![s] = None]
    BY <1>5 DEF Resolve
  <2>2. /\ at[t] = "routed" /\ at' = [at EXCEPT ![t] = "resolved"]
        /\ UNCHANGED <<route, as, since>>
    BY <1>5 DEF Resolve, Moves
  <2>3. route[t] \in Routes /\ route[t].relayed = None
    BY <1>0, <2>2 DEF TurnInv, TurnType
  <2>4. OtherTurns(t)
    BY <1>0, <2>1, <2>2 DEF OtherTurns, TurnInv
  <2>5. TurnType(t)'
    BY <1>0, <2>1, <2>2, <2>3 DEF TurnType, TurnInv
  <2>6. opened' \in [Sessions -> Endpoints \cup {None}]
    BY <1>0, <2>1 DEF TurnInv
  <2>7. ASSUME NEW u \in Clients \ {t}, session[u] \in Sessions, at[u] = "answering"
        PROVE  opened'[session[u]] \in Endpoints
    <3>1. opened[session[u]] \in Endpoints
      BY <1>0, <2>7, NoneAssumption DEF TurnInv, TurnType
    <3> QED
      BY <1>0, <2>1, <2>7, <3>1 DEF TurnInv
  <2> QED
    BY <1>0, <2>1, <2>4, <2>5, <2>6, <2>7, OneTurn
<1>6. ASSUME NEW t \in Clients, Send(t) PROVE TurnInv'
  <2> DEFINE s == session[t]
             socket == Endpoint(s).socket
             reused == socket # None /\ socket.pin = route[t].pin
             who == IF reused THEN socket.as ELSE Spends(file, route[t].pin)
             closed == [Endpoint(s) EXCEPT !.socket = None]
  <2>1. /\ at[t] = "resolved" /\ opened' = [opened EXCEPT ![s] = closed] /\ UNCHANGED listed
        /\ \/ Done(t)
           \/ /\ reused \/ Spends(file, route[t].pin) # None
              /\ at' = [at EXCEPT ![t] = "answering"] /\ as' = [as EXCEPT ![t] = who]
              /\ UNCHANGED <<route, session, since>>
    BY <1>6 DEF Send, Moves
  <2>2. s \in Sessions /\ route[t].relayed = None /\ route[t] \in Routes
    BY <1>0, <2>1 DEF TurnInv, TurnType
  <2>3. Endpoint(s) \in Endpoints /\ closed \in Endpoints
    <3> HIDE DEF s
    <3> QED
      BY <1>0, <2>2, EndpointIs
  <2>4. reused \/ Spends(file, route[t].pin) # None => who \in Owners
    <3>1. Spends(file, route[t].pin) \in MaybeOwner
      BY <1>0, <2>2, SpendsType DEF Routes, MaybeName, MaybeOwner
    <3>2. socket # None => socket.as \in Owners
      BY <2>3 DEF Endpoints, Sockets
    <3> QED
      BY <3>1, <3>2 DEF MaybeOwner
  <2> HIDE DEF s, who, closed, reused
  <2>5. opened' \in [Sessions -> Endpoints \cup {None}] /\ opened'[s] \in Endpoints
    BY <1>0, <2>1, <2>2, <2>3 DEF TurnInv
  <2>6. OtherTurns(t) /\ TurnType(t)'
    <3>1. CASE Done(t)
      BY <1>0, <3>1, DoneIs
    <3>2. CASE ~Done(t)
      <4>1. OtherTurns(t)
        BY <1>0, <2>1, <2>4, <3>2 DEF OtherTurns, TurnInv, MaybeOwner
      <4>2. at'[t] = "answering" /\ as'[t] = who /\ route'[t] = route[t] /\ session'[t] = s
        BY <1>0, <2>1, <3>2 DEF TurnInv, s
      <4> QED
        BY <2>1, <2>2, <2>4, <2>5, <3>2, <4>1, <4>2 DEF TurnType
    <3> QED
      BY <3>1, <3>2
  <2>7. ASSUME NEW u \in Clients \ {t}, session[u] \in Sessions, at[u] = "answering"
        PROVE  opened'[session[u]] \in Endpoints
    <3>1. opened[session[u]] \in Endpoints
      BY <1>0, <2>7, NoneAssumption DEF TurnInv, TurnType
    <3> QED
      BY <1>0, <2>1, <2>3, <2>7, <3>1 DEF TurnInv
  <2> QED
    BY <1>0, <2>1, <2>5, <2>6, <2>7, OneTurn
<1>7. ASSUME NEW t \in Clients, Record(t) PROVE TurnInv'
  <2> DEFINE s == session[t]
             new == [pin |-> route[t].pin, as |-> as[t]]
             open == [opened[s] EXCEPT !.socket = new]
  <2>1. /\ at[t] = "answering" /\ Done(t) /\ UNCHANGED listed
        /\ UNCHANGED opened \/ (s # None /\ opened' = [opened EXCEPT ![s].socket = new])
    BY <1>7 DEF Record
  <2>2. OtherTurns(t) /\ TurnType(t)'
    BY <1>0, <2>1, DoneIs
  <2>3. s # None => s \in Sessions /\ opened[s] \in Endpoints /\ new \in Sockets
    BY <1>0, <2>1 DEF TurnInv, TurnType, Routes, Sockets
  <2>4. s # None => open \in Endpoints
    <3> HIDE DEF new
    <3> QED
      BY <2>3 DEF Endpoints
  <2>5. opened' = opened \/ (s # None /\ opened' = [opened EXCEPT ![s] = open])
    <3> HIDE DEF new
    <3> QED
      BY <2>1
  <2> HIDE DEF s, open
  <2>6. opened' \in [Sessions -> Endpoints \cup {None}]
    BY <1>0, <2>3, <2>4, <2>5 DEF TurnInv
  <2>7. ASSUME NEW u \in Clients \ {t}, session[u] \in Sessions, at[u] = "answering"
        PROVE  opened'[session[u]] \in Endpoints
    <3>1. opened[session[u]] \in Endpoints
      BY <1>0, <2>7, NoneAssumption DEF TurnInv, TurnType
    <3> QED
      BY <1>0, <2>3, <2>4, <2>5, <2>7, <3>1 DEF TurnInv
  <2> QED
    BY <1>0, <2>1, <2>2, <2>6, <2>7, OneTurn
<1>8. ASSUME Login PROVE TurnInv'
  <2>1. UNCHANGED <<at, route, session, as, listed, opened>> /\ DOMAIN since' = Clients
    BY <1>8 DEF Login, Serves, convs
  <2> QED
    BY <1>0, <2>1, TurnFrame
<1>9. ASSUME Restart PROVE TurnInv'
  BY <1>9, NoneAssumption DEF Restart, TurnsEnd, TurnInv, TurnType, MaybeOwner
<1>10. ASSUME UNCHANGED vars PROVE TurnInv'
  BY <1>0, <1>10, TurnFrame DEF vars, daemon, convs, turn
<1> QED
  BY <1>1, <1>2, <1>3, <1>4, <1>5, <1>6, <1>7, <1>8, <1>9, <1>10, StepIs DEF Serving

LEMMA TypeInit ==
  ASSUME Init
  PROVE  TypeInv
<1>1. file \in FileType /\ Kept(file) /\ IsConfiguration(config)
  BY FilesAssumption, ConfigsAssumption DEF Init, Kept
<1>2. catalog \in CatalogType
  BY <1>1, ListsType DEF Init
<1>3. policy \in Policies
  BY <1>1, <1>2, StartIs DEF Init
<1>4. CallInv
  BY DEF Init, CallInv, CallType
<1>5. ListInv
  BY <1>2 DEF Init, ListInv, MaybeOwner
<1>6. TurnInv
  BY NoneAssumption DEF Init, TurnInv, TurnType, MaybeOwner
<1> QED
  BY <1>1, <1>3, <1>4, <1>5, <1>6 DEF TypeInv, FileInv, PolicyInv

LEMMA TypeStep ==
  ASSUME TypeInv, [Next]_vars
  PROVE  TypeInv'
<1>1. CallInv' /\ FileInv' /\ PolicyInv' /\ ListInv' /\ TurnInv'
  BY CallStep, FileStep, PolicyStep, ListStep, TurnStep
<1> QED
  BY <1>1 DEF TypeInv

LEMMA Typed ==
  ASSUME TypeInv
  PROVE  TypeOK
<1>1. file.selected \in Names \cup {None} /\ Stored(file) \subseteq Names
  BY FileIs, StoredNames DEF TypeInv, FileInv, Kept
<1>2. DOMAIN config.sections \subseteq Names /\ config.consent \in BOOLEAN
  BY DEF TypeInv, PolicyInv, IsConfiguration
<1>3. /\ \A t \in Tiers : /\ policy.tiers[t].model \in Models
                          /\ policy.tiers[t].account \in Names \cup {None}
      /\ policy.consent \in BOOLEAN
  BY DEF TypeInv, PolicyInv, Policies, Mappings, MaybeName
<1>4. /\ catalog.models \subseteq Models
      /\ figures \in [Names -> Owners \cup {None}] /\ nameless \in Owners \cup {None}
  BY DEF TypeInv, ListInv, CatalogType, MaybeOwner
<1>5. /\ listed \in Sessions \cup {None} /\ as \in [Clients -> Owners \cup {None}]
      /\ \A t \in Clients : at[t] = "answering" => as[t] # None
  BY NoneAssumption DEF TypeInv, TurnInv, TurnType, MaybeOwner, Names
<1> QED
  BY <1>1, <1>2, <1>3, <1>4, <1>5 DEF TypeOK

(* The two files, the policy, the lists and the turns keep their form      *)
(* through whatever the callers, the turns, a login and a restart do: an   *)
(* answer under way always has an account it is made as.                   *)
THEOREM TypeCorrect == Spec => []TypeOK
<1>1. Init => TypeInv
  BY TypeInit
<1>2. TypeInv /\ [Next]_vars => TypeInv'
  BY TypeStep
<1>3. TypeInv => TypeOK
  BY Typed
<1> QED
  BY <1>1, <1>2, <1>3, PTL DEF Spec

-----------------------------------------------------------------------------
(* Whose figures are kept.  A name a figure is filed under spends as the   *)
(* figure's account, stored or not, unless it strayed.                     *)
HeadInv == \A n \in Names \ strayed : figures[n] \in {None, Spends(file, n)}

LEMMA FiledIsOwn ==
  ASSUME NEW who, NEW name \in MaybeName, Filed(who, name), HeadInv, ListInv, Kept(file),
         file' = file
  PROVE  HeadInv'
<1> DEFINE under == IF name # None THEN name ELSE ServingName(file)
<1>1. under \in Names \cup {None}
  BY ServingNameType DEF MaybeName
<1>2. IF under = None THEN UNCHANGED <<figures, strayed>>
      ELSE /\ figures' = [figures EXCEPT ![under] = who]
           /\ strayed' = IF Spends(file, under) = who THEN strayed \ {under}
                         ELSE strayed \cup {under}
  BY DEF Filed
<1> HIDE DEF under
<1>3. \A n \in Names : Spends(file, n)' = Spends(file, n)
  OBVIOUS
<1>4. SUFFICES ASSUME NEW n \in Names \ strayed' PROVE figures'[n] \in {None, Spends(file, n)}
  BY <1>3 DEF HeadInv
<1>5. CASE n = under
  BY <1>1, <1>2, <1>4, <1>5, NoneAssumption DEF ListInv
<1>6. CASE n # under
  BY <1>1, <1>2, <1>4, <1>6 DEF HeadInv, ListInv
<1> QED
  BY <1>5, <1>6

LEMMA HeadStep ==
  ASSUME TypeInv, HeadInv, [Next]_vars
  PROVE  HeadInv'
<1>0. /\ ListInv /\ TurnInv /\ Kept(file) /\ file \in FileType
      /\ \A c \in Callers : CallType(c)
  BY DEF TypeInv, FileInv, Kept, CallInv
<1> DEFINE Spent(n) == Spends(file', n)
<1>1. SUFFICES \A n \in Names \ strayed' : figures'[n] \in {None, Spent(n)}
  BY DEF HeadInv
<1> DEFINE Goal == \A n \in Names \ strayed' : figures'[n] \in {None, Spent(n)}
<1>2. ASSUME UNCHANGED figures, strayed \subseteq strayed',
             \A n \in Names \ strayed' : Spent(n) = Spends(file, n) \/ Spends(file, n) = None
      PROVE  Goal
  BY <1>2 DEF HeadInv
<1> HIDE DEF Spent
<1>3. ASSUME UNCHANGED file PROVE \A n \in Names : Spent(n) = Spends(file, n)
  BY <1>3 DEF Spent
<1>4. ASSUME NEW c \in Callers, Quiet(c) PROVE Goal
  BY <1>2, <1>3, <1>4, QuietIs
<1>5. ASSUME NEW c \in Callers, RenameInStore(c) PROVE Goal
  <2>1. PICK from \in Stored(file), to \in Names :
          /\ CanRename(file, from, to) /\ file' = Renamed(file, from, to) /\ UNCHANGED figures
          /\ strayed' = IF from = to THEN strayed ELSE strayed \cup {from}
    BY <1>5 DEF RenameInStore, lists
  <2>2. from \in Names
    BY <1>0, <2>1, StoredNames
  <2>3. /\ \A n \in Names : from = to \/ n \notin {from, to} => Spent(n) = Spends(file, n)
        /\ from # to => Spends(file, to) = None
    BY <1>0, <2>1, <2>2, RenamedIs DEF Spent
  <2> QED
    BY <1>2, <2>1, <2>3
<1>6. ASSUME NEW c \in Callers, RenameBack(c) PROVE Goal
  <2> DEFINE from == arg[c].from
             to == arg[c].to
  <2>1. /\ pc[c] = "moving" /\ UNCHANGED figures
        /\ file' = IF CanRename(file, to, from) THEN Renamed(file, to, from) ELSE file
        /\ strayed' = IF from = to THEN strayed ELSE strayed \cup {to}
    BY <1>6 DEF RenameBack, Continues, Takes, lists
  <2>2. from \in Names /\ to \in Names
    BY <1>0, <2>1 DEF CallType, RenameRequests
  <2> HIDE DEF from, to
  <2>3. CASE CanRename(file, to, from)
    <3>1. /\ \A n \in Names : from = to \/ n \notin {from, to} => Spent(n) = Spends(file, n)
          /\ from # to => Spends(file, from) = None
      BY <1>0, <2>1, <2>2, <2>3, RenamedIs DEF Spent
    <3> QED
      BY <1>2, <2>1, <3>1
  <2>4. CASE ~CanRename(file, to, from)
    BY <1>2, <1>3, <2>1, <2>4
  <2> QED
    BY <2>3, <2>4
<1>7. ASSUME NEW c \in Callers, SelectInStore(c) \/ UndoSelect(c) PROVE Goal
  <2>1. /\ file' = file \/ \E name \in Stored(file) : file' = Selected(file, name)
        /\ UNCHANGED <<figures, strayed>>
    BY <1>7 DEF SelectInStore, UndoSelect, daemon, store, lists
  <2>2. \A n \in Names : Spent(n) = Spends(file, n)
    BY <1>0, <1>3, <2>1, SelectedIs DEF Spent
  <2> QED
    BY <1>2, <2>1, <2>2
<1>8. ASSUME NEW c \in Callers, ForgetInStore(c) PROVE Goal
  <2> DEFINE i == IF arg[c].account = None THEN SelectedIndex(file)
                  ELSE IndexOf(file, arg[c].account)
  <2>1. /\ file' = IF i = 0 THEN file ELSE Removed(file, i)
        /\ strayed' = IF i = 0 THEN strayed ELSE strayed \cup {file.accounts[i].name}
        /\ UNCHANGED figures
    BY <1>8 DEF ForgetInStore, lists
  <2>2. i # 0 => i \in 1..Len(file.accounts)
    BY <1>0, ServingIs, IndexOfIs
  <2> HIDE DEF i
  <2>3. CASE i = 0
    BY <1>2, <1>3, <2>1, <2>3
  <2>4. CASE i # 0
    <3>1. \A m \in Names \ {file.accounts[i].name} : Spent(m) = Spends(file, m)
      BY <1>0, <2>1, <2>2, <2>4, RemovedIs DEF Spent
    <3> QED
      BY <1>2, <2>1, <2>4, <3>1
  <2> QED
    BY <2>3, <2>4
<1>9. ASSUME NEW c \in Callers, ForgetFigure(c) PROVE Goal
  <2>1. /\ UNCHANGED file
        /\ figures' = [n \in Names |-> IF n = Forgotten(c) THEN None ELSE figures[n]]
        /\ strayed' = strayed \ {Forgotten(c)}
    BY <1>9 DEF ForgetFigure, HandOver, store
  <2>2. \A n \in Names : Spent(n) = Spends(file, n)
    BY <1>3, <2>1
  <2> QED
    BY <2>1, <2>2 DEF HeadInv
<1>10. ASSUME NEW c \in Callers, DropSessions(c) PROVE Goal
  <2>1. UNCHANGED <<file, figures, strayed>>
    BY <1>10 DEF DropSessions, store
  <2> QED
    BY <1>2, <1>3, <2>1
<1>11. ASSUME NEW c \in Callers, RecordUsage(c) PROVE Goal
  <2>1. /\ UNCHANGED file
        /\ Filed(kept[c], None) \/ UNCHANGED <<figures, strayed>>
    BY <1>11 DEF RecordUsage, store
  <2>2. CASE UNCHANGED <<figures, strayed>>
    BY <1>2, <1>3, <2>1, <2>2
  <2>3. CASE Filed(kept[c], None)
    <3>1. HeadInv'
      BY <1>0, <2>1, <2>3, FiledIsOwn DEF MaybeName
    <3> QED
      BY <3>1 DEF HeadInv, Spent
  <2> QED
    BY <2>1, <2>2, <2>3
<1>12. ASSUME NEW t \in Clients, Serving(t) PROVE Goal
  <2>1. UNCHANGED file
    BY <1>12, ServingSteps
  <2>2. CASE UNCHANGED <<figures, strayed>>
    BY <1>2, <1>3, <2>1, <2>2
  <2>3. CASE Record(t)
    <3> DEFINE name == IF route[t].relayed # None THEN route[t].relayed ELSE route[t].pin
    <3>1. at[t] = "answering" /\ (Filed(as[t], name) \/ UNCHANGED <<figures, strayed>>)
      BY <2>3 DEF Record
    <3>2. name \in MaybeName
      BY <1>0, <3>1 DEF TurnInv, TurnType, Routes
    <3> HIDE DEF name
    <3>3. CASE Filed(as[t], name)
      <4>1. HeadInv'
        BY <1>0, <2>1, <3>2, <3>3, FiledIsOwn
      <4> QED
        BY <4>1 DEF HeadInv, Spent
    <3> QED
      BY <2>2, <3>1, <3>3
  <2> QED
    BY <1>12, <2>2, <2>3 DEF Serving, Route, Forward, Resolve, Send, daemon, lists, past
<1>13. ASSUME Login PROVE Goal
  <2>1. PICK name \in Names, owner \in Owners :
          /\ IndexOf(file, name) = 0
          /\ file' = SelectIfNoneServes(Appended(file, name, Codex, Grant(owner, owner, owner)), name)
    BY <1>0, <1>13, LoginIs
  <2>2. \A n \in Names \ {name} : Spent(n) = Spends(file, n)
    BY <1>0, <2>1, AppendedIs DEF Spent
  <2>3. Spends(file, name) = None
    BY <1>0, <2>1, SpendsIs
  <2>4. UNCHANGED <<figures, strayed>>
    BY <1>13 DEF Login, lists
  <2> QED
    BY <1>2, <2>2, <2>3, <2>4
<1>14. ASSUME Restart PROVE Goal
  BY <1>14 DEF Restart, NoFigures
<1>15. ASSUME UNCHANGED vars PROVE Goal
  BY <1>2, <1>3, <1>15 DEF vars, daemon, store, lists, past
<1> QED
  BY <1>4, <1>5, <1>6, <1>7, <1>8, <1>9, <1>10, <1>11, <1>12, <1>13, <1>14, <1>15, StepIs

(* However logins, renames, switches, answers and requests for usage       *)
(* overlap, a figure under a stored name is of the account that name is of *)
(* -- except under a name that was renamed or forgotten meanwhile, or that *)
(* an answer of another account was filed under.                           *)
THEOREM FiguresAreOwn == Spec => []HeadroomIsOwn
<1>1. Init => TypeInv /\ HeadInv
  BY TypeInit DEF Init, HeadInv
<1>2. TypeInv /\ HeadInv /\ [Next]_vars => TypeInv' /\ HeadInv'
  BY TypeStep, HeadStep
<1>3. TypeInv /\ HeadInv => HeadroomIsOwn
  BY StoredNames DEF HeadInv, HeadroomIsOwn, TypeInv, FileInv
<1> QED
  BY <1>1, <1>2, <1>3, PTL DEF Spec

-----------------------------------------------------------------------------
(* Who turns are made as.                                                  *)

(* The account that serves is owed, and whatever is owed may be what any   *)
(* turn under way is made as.                                              *)
OwedInv == /\ Spends(file, None) \in owed
           /\ \A t \in Clients : at[t] # "idle" => owed \subseteq since[t]

(* What an unpinned turn of a session is made as, or comes to be: its      *)
(* socket's account, or that of a turn under way, which parks its socket.  *)
Carries(s, x) ==
  \/ /\ opened[s] # None /\ opened[s].socket # None
     /\ opened[s].socket.pin = None /\ opened[s].socket.as = x
  \/ \E u \in Clients : /\ at[u] = "answering" /\ session[u] = s
                        /\ route[u].pin = None /\ as[u] = x

CarryInv ==
  \A s \in Sessions, x \in Owners :
    Carries(s, x) => /\ s = listed => x \in owed
                     /\ \A t \in Clients : session[t] = s => x \in since[t]

(* What the steps of calls do to it.                                       *)
LEMMA OwingIs ==
  ASSUME TypeInv, NEW c \in Callers,
         \/ RenameInStore(c) \/ RenameBack(c) \/ SelectInStore(c) \/ DropSessions(c)
         \/ UndoSelect(c) \/ ForgetInStore(c) \/ ForgetFigure(c) \/ RecordUsage(c)
  PROVE  /\ UNCHANGED <<at, route, session, as, opened>>
         /\ \/ Serves(file') /\ UNCHANGED listed
            \/ /\ UNCHANGED <<since, owed, listed>> /\ Spends(file', None) = Spends(file, None)
            \/ UNCHANGED <<since, file>> /\ listed' = None /\ Switched(file)
<1>0. Kept(file) /\ \A d \in Callers : CallType(d)
  BY DEF TypeInv, FileInv, CallInv
<1> USE DEF convs, turn
<1>1. CASE SelectInStore(c) \/ ForgetInStore(c)
  BY <1>1 DEF SelectInStore, ForgetInStore
<1>2. CASE DropSessions(c) \/ ForgetFigure(c) \/ RecordUsage(c)
  BY <1>2 DEF DropSessions, ForgetFigure, HandOver, RecordUsage, store
<1>3. CASE UndoSelect(c)
  BY <1>3 DEF UndoSelect, daemon, store
<1>4. CASE RenameInStore(c)
  <2>1. PICK from \in Stored(file), to \in Names :
          CanRename(file, from, to) /\ file' = Renamed(file, from, to)
    BY <1>4 DEF RenameInStore
  <2>2. from \in Names
    BY <1>0, <2>1, StoredNames
  <2>3. Spends(file', None) = Spends(file, None)
    BY <1>0, <2>1, <2>2, RenamedIs
  <2> QED
    BY <1>4, <2>3 DEF RenameInStore
<1>5. CASE RenameBack(c)
  <2>1. /\ pc[c] = "moving"
        /\ file' = IF CanRename(file, arg[c].to, arg[c].from)
                   THEN Renamed(file, arg[c].to, arg[c].from) ELSE file
    BY <1>5 DEF RenameBack, Continues, Takes
  <2>2. arg[c].from \in Names /\ arg[c].to \in Names
    BY <1>0, <2>1 DEF CallType, RenameRequests
  <2>3. Spends(file', None) = Spends(file, None)
    BY <1>0, <2>1, <2>2, RenamedIs
  <2> QED
    BY <1>5, <2>3 DEF RenameBack
<1> QED
  BY <1>1, <1>2, <1>3, <1>4, <1>5

LEMMA OwedStep ==
  ASSUME TypeInv, OwedInv, [Next]_vars
  PROVE  OwedInv'
<1>0. DOMAIN at = Clients /\ DOMAIN since = Clients
  BY DEF TypeInv, TurnInv
<1>1. ASSUME UNCHANGED <<file, owed, at, since>> PROVE OwedInv'
  BY <1>1 DEF OwedInv
<1>2. ASSUME Serves(file'), UNCHANGED at PROVE OwedInv'
  BY <1>0, <1>2 DEF OwedInv, Serves
<1>3. ASSUME NEW c \in Callers, Quiet(c) PROVE OwedInv'
  BY <1>1, <1>3, QuietIs
<1>4. ASSUME NEW c \in Callers,
             \/ RenameInStore(c) \/ RenameBack(c) \/ SelectInStore(c) \/ DropSessions(c)
             \/ UndoSelect(c) \/ ForgetInStore(c) \/ ForgetFigure(c) \/ RecordUsage(c)
      PROVE  OwedInv'
  <2>1. UNCHANGED at
    BY <1>4, OwingIs
  <2>2. CASE Serves(file')
    BY <1>2, <2>1, <2>2
  <2>3. CASE UNCHANGED <<since, owed>> /\ Spends(file', None) = Spends(file, None)
    BY <2>1, <2>3 DEF OwedInv
  <2>4. CASE UNCHANGED <<since, file>> /\ Switched(file)
    BY <2>1, <2>4 DEF OwedInv, Switched
  <2> QED
    BY <1>4, <2>2, <2>3, <2>4, OwingIs
<1>5. ASSUME NEW t \in Clients, Serving(t) PROVE OwedInv'
  <2>1. UNCHANGED <<file, owed>>
    BY <1>5, ServingSteps
  <2>2. CASE Done(t)
    BY <1>0, <2>1, <2>2 DEF Done, OwedInv
  <2>3. CASE Route(t)
    <3>1. at[t] = "idle" /\ since' = [since EXCEPT ![t] = owed]
          /\ \E to : at' = [at EXCEPT ![t] = to]
      BY <2>3 DEF Route, Moves
    <3> QED
      BY <1>0, <2>1, <3>1 DEF OwedInv
  <2>4. CASE UNCHANGED since /\ at[t] # "idle" /\ \E to : at' = [at EXCEPT ![t] = to]
    BY <1>0, <2>1, <2>4 DEF OwedInv
  <2> QED
    BY <1>5, <2>2, <2>3, <2>4 DEF Serving, Forward, Resolve, Send, Record, Moves
<1>6. ASSUME Login PROVE OwedInv'
  <2>1. Serves(file') /\ UNCHANGED at
    BY <1>6 DEF Login
  <2> QED
    BY <1>2, <2>1
<1>7. ASSUME Restart PROVE OwedInv'
  BY <1>7 DEF Restart, TurnsEnd, Switched, OwedInv, store
<1>8. ASSUME UNCHANGED vars PROVE OwedInv'
  BY <1>1, <1>8 DEF vars, daemon, store, turn, past
<1> QED
  BY <1>3, <1>4, <1>5, <1>6, <1>7, <1>8, StepIs

LEMMA CarryStep ==
  ASSUME TypeInv, OwedInv, CarryInv, [Next]_vars
  PROVE  CarryInv'
<1>0. /\ TurnInv /\ Kept(file) /\ file \in FileType
      /\ DOMAIN at = Clients /\ DOMAIN route = Clients /\ DOMAIN since = Clients
      /\ session \in [Clients -> Sessions \cup {None}] /\ as \in [Clients -> MaybeOwner]
      /\ \A t \in Clients : at[t] \in {"idle", "routed", "relaying"} => session[t] = None
      /\ opened \in [Sessions -> Endpoints \cup {None}]
  BY DEF TypeInv, FileInv, Kept, TurnInv, TurnType
<1>1. ASSUME UNCHANGED <<at, route, session, as, opened>>,
             \A t \in Clients : at[t] # "idle" => since[t] \subseteq since'[t],
             listed' = None \/ (listed' = listed /\ owed \subseteq owed')
      PROVE  CarryInv'
  <2>1. \A s \in Sessions, x \in Owners : Carries(s, x)' => Carries(s, x)
    BY <1>1 DEF Carries
  <2>2. \A t \in Clients, s \in Sessions : session[t] = s => at[t] # "idle"
    BY <1>0, NoneAssumption
  <2> QED
    BY <1>1, <2>1, <2>2, NoneAssumption DEF CarryInv
<1>2. ASSUME NEW c \in Callers, Quiet(c) PROVE CarryInv'
  BY <1>1, <1>2, QuietIs
<1>3. ASSUME UNCHANGED <<at, route, session, as, opened, listed>>, Serves(file') PROVE CarryInv'
  <2>1. owed \subseteq owed' /\ \A t \in Clients : at[t] # "idle" => since[t] \subseteq since'[t]
    BY <1>3 DEF Serves
  <2> QED
    BY <1>1, <1>3, <2>1
<1>4. ASSUME NEW c \in Callers,
             \/ RenameInStore(c) \/ RenameBack(c) \/ SelectInStore(c) \/ DropSessions(c)
             \/ UndoSelect(c) \/ ForgetInStore(c) \/ ForgetFigure(c) \/ RecordUsage(c)
      PROVE  CarryInv'
  <2>1. UNCHANGED <<at, route, session, as, opened>>
    BY <1>4, OwingIs
  <2>2. CASE Serves(file') /\ UNCHANGED listed
    BY <1>3, <2>1, <2>2
  <2>3. CASE UNCHANGED <<since, owed, listed>>
    BY <1>1, <2>1, <2>3
  <2>4. CASE UNCHANGED since /\ listed' = None
    BY <1>1, <2>1, <2>4
  <2> QED
    BY <1>4, <2>2, <2>3, <2>4, OwingIs
<1>5. ASSUME NEW t \in Clients, Route(t) PROVE CarryInv'
  <2>1. PICK to, how :
          /\ to \in {"relaying", "routed"} /\ at[t] = "idle" /\ at' = [at EXCEPT ![t] = to] /\ route' = [route EXCEPT ![t] = how]
          /\ since' = [since EXCEPT ![t] = owed]
          /\ UNCHANGED <<session, as, listed, opened, owed>>
    BY <1>5 DEF Route, Moves, daemon, convs, past
  <2>2. session[t] = None
    BY <1>0, <2>1
  <2>3. \A s \in Sessions, x \in Owners : Carries(s, x)' => Carries(s, x)
    BY <1>0, <2>1 DEF Carries
  <2> QED
    BY <1>0, <2>1, <2>2, <2>3, NoneAssumption DEF CarryInv
<1>6. ASSUME NEW t \in Clients, Done(t), UNCHANGED <<opened, listed, owed>> PROVE CarryInv'
  <2>1. \A s \in Sessions, x \in Owners : Carries(s, x)' => Carries(s, x)
    BY <1>0, <1>6 DEF Carries, Done
  <2> QED
    BY <1>0, <1>6, <2>1, NoneAssumption DEF CarryInv, Done
<1>7. ASSUME NEW t \in Clients, Forward(t) PROVE CarryInv'
  <2>1. /\ at[t] = "relaying" /\ UNCHANGED <<listed, opened, owed>>
        /\ \/ Done(t)
           \/ /\ \E who : as' = [as EXCEPT ![t] = who]
              /\ at' = [at EXCEPT ![t] = "answering"] /\ UNCHANGED <<route, session, since>>
    BY <1>7 DEF Forward, Moves, daemon, convs, past
  <2>2. session[t] = None
    BY <1>0, <2>1
  <2>3. CASE ~Done(t)
    <3>1. \A s \in Sessions, x \in Owners : Carries(s, x)' => Carries(s, x)
      BY <1>0, <2>1, <2>2, <2>3, NoneAssumption DEF Carries
    <3> QED
      BY <1>0, <2>1, <2>3, <3>1 DEF CarryInv
  <2> QED
    BY <1>6, <2>1, <2>3
<1>8. ASSUME NEW t \in Clients, Resolve(t) PROVE CarryInv'
  <2>1. PICK s \in Sessions :
          /\ IF listed # None THEN s = listed ELSE \A u \in Clients : session[u] # s
          /\ session' = [session EXCEPT ![t] = s] /\ listed' = s
          /\ opened' = IF listed # None THEN opened ELSE [opened EXCEPT ![s] = None]
    BY <1>8 DEF Resolve
  <2>2. /\ at[t] = "routed" /\ at' = [at EXCEPT ![t] = "resolved"]
        /\ UNCHANGED <<route, as, since, owed>>
    BY <1>8 DEF Resolve, Moves, past
  <2>3. ASSUME NEW r \in Sessions, NEW x \in Owners, Carries(r, x)'
        PROVE  Carries(r, x) /\ (r = s => s = listed)
    <3>1. CASE opened'[r] # None /\ opened'[r].socket # None
               /\ opened'[r].socket.pin = None /\ opened'[r].socket.as = x
      <4>1. opened'[r] = opened[r] /\ (r = s => listed # None)
        BY <1>0, <2>1, <3>1
      <4> QED
        BY <2>1, <3>1, <4>1 DEF Carries
    <3>2. CASE \E u \in Clients : /\ at'[u] = "answering" /\ session'[u] = r
                                  /\ route'[u].pin = None /\ as'[u] = x
      <4>1. PICK u \in Clients : /\ at'[u] = "answering" /\ session'[u] = r
                                 /\ route'[u].pin = None /\ as'[u] = x
        BY <3>2
      <4>2. u # t
        BY <1>0, <2>2, <4>1
      <4>3. at[u] = "answering" /\ session[u] = r /\ route[u].pin = None /\ as[u] = x
        BY <1>0, <2>1, <2>2, <4>1, <4>2
      <4> QED
        BY <2>1, <4>3 DEF Carries
    <3> QED
      BY <2>3, <3>1, <3>2 DEF Carries
  <2>4. owed \subseteq since[t]
    BY <2>2 DEF OwedInv
  <2> SUFFICES ASSUME NEW r \in Sessions, NEW x \in Owners, Carries(r, x)'
               PROVE  /\ r = listed' => x \in owed'
                      /\ \A u \in Clients : session'[u] = r => x \in since'[u]
    BY DEF CarryInv
  <2>5. /\ Carries(r, x) /\ (r = s => s = listed)
        /\ r = listed => x \in owed
        /\ \A u \in Clients : session[u] = r => x \in since[u]
    BY <2>3 DEF CarryInv
  <2> QED
    BY <1>0, <2>1, <2>2, <2>4, <2>5
<1>9. ASSUME NEW t \in Clients, Send(t) PROVE CarryInv'
  <2> DEFINE s == session[t]
             socket == Endpoint(s).socket
             pin == route[t].pin
             reused == socket # None /\ socket.pin = pin
             who == IF reused THEN socket.as ELSE Spends(file, pin)
             closed == [Endpoint(s) EXCEPT !.socket = None]
  <2>1. /\ at[t] = "resolved" /\ opened' = [opened EXCEPT ![s] = closed]
        /\ UNCHANGED <<listed, owed>>
        /\ \/ Done(t)
           \/ /\ at' = [at EXCEPT ![t] = "answering"] /\ as' = [as EXCEPT ![t] = who]
              /\ UNCHANGED <<route, session, since>>
    BY <1>9 DEF Send, Moves, past
  <2>2. s \in Sessions /\ s # None
    BY <1>0, <2>1, NoneAssumption DEF TurnInv, TurnType
  <2>3. closed.socket = None
    <3> HIDE DEF s
    <3>1. Endpoint(s) \in Endpoints
      BY <1>0, <2>2, EndpointIs
    <3> QED
      BY <3>1 DEF Endpoints
  <2>4. reused /\ pin = None /\ who \in Owners => Carries(s, who)
    <3> HIDE DEF s
    <3>1. opened[s] # None => Endpoint(s) = opened[s] /\ opened[s] \in Endpoints
      BY <1>0, <2>2, EndpointIs
    <3>2. opened[s] = None => socket = None
      BY <1>0, <2>2, EndpointIs
    <3> QED
      BY <3>1, <3>2 DEF Carries
  <2>5. owed \subseteq since[t] /\ Spends(file, None) \in owed
        /\ \A u \in Clients : session[u] = s => owed \subseteq since[u]
    BY <1>0, <2>1, <2>2 DEF OwedInv
  <2>6. ~reused /\ pin = None => who = Spends(file, None)
    OBVIOUS
  <2> HIDE DEF reused, who, closed
  <2>7. \A x \in Owners, r \in Sessions :
          Carries(r, x)' => \/ Carries(r, x)
                            \/ ~Done(t) /\ r = s /\ pin = None /\ x = who
    <3>1. SUFFICES ASSUME NEW x \in Owners, NEW r \in Sessions, Carries(r, x)'
                   PROVE  Carries(r, x) \/ (~Done(t) /\ r = s /\ pin = None /\ x = who)
      OBVIOUS
    <3>2. CASE opened'[r] # None /\ opened'[r].socket # None
               /\ opened'[r].socket.pin = None /\ opened'[r].socket.as = x
      <4>1. r # s
        BY <1>0, <2>1, <2>2, <2>3, <3>2
      <4>2. opened'[r] = opened[r]
        BY <1>0, <2>1, <4>1
      <4> QED
        BY <3>2, <4>2 DEF Carries
    <3>3. CASE \E u \in Clients : /\ at'[u] = "answering" /\ session'[u] = r
                                  /\ route'[u].pin = None /\ as'[u] = x
      <4>1. PICK u \in Clients : /\ at'[u] = "answering" /\ session'[u] = r
                                 /\ route'[u].pin = None /\ as'[u] = x
        BY <3>3
      <4>2. CASE u # t
        <5>1. at[u] = "answering" /\ session[u] = r /\ route[u].pin = None /\ as[u] = x
          BY <1>0, <2>1, <4>1, <4>2 DEF Done
        <5> QED
          BY <5>1 DEF Carries
      <4>3. CASE u = t
        BY <1>0, <2>1, <4>1, <4>3 DEF Done
      <4> QED
        BY <4>2, <4>3
    <3> QED
      BY <3>1, <3>2, <3>3 DEF Carries
  <2>8. ASSUME NEW x \in Owners, NEW r \in Sessions, Carries(r, x)'
        PROVE  /\ r = listed => x \in owed
               /\ \A u \in Clients : session[u] = r => x \in since[u]
    <3>1. CASE Carries(r, x)
      BY <3>1 DEF CarryInv
    <3>2. CASE r = s /\ pin = None /\ x = who
      <4>1. CASE reused
        <5>1. Carries(r, x)
          BY <2>4, <2>8, <3>2, <4>1
        <5> QED
          BY <5>1 DEF CarryInv
      <4>2. CASE ~reused
        BY <2>5, <2>6, <3>2, <4>2
      <4> QED
        BY <4>1, <4>2
    <3> QED
      BY <2>7, <2>8, <3>1, <3>2
  <2>9. ASSUME NEW u \in Clients, NEW r \in Sessions, session'[u] = r
        PROVE  session[u] = r /\ since'[u] = since[u]
    <3>1. CASE Done(t)
      <4>1. u # t
        BY <1>0, <2>9, <3>1, NoneAssumption DEF Done
      <4> QED
        BY <1>0, <2>9, <3>1, <4>1 DEF Done
    <3>2. CASE ~Done(t)
      BY <2>1, <2>9, <3>2
    <3> QED
      BY <3>1, <3>2
  <2> QED
    BY <2>1, <2>8, <2>9 DEF CarryInv
<1>10. ASSUME NEW t \in Clients, Record(t) PROVE CarryInv'
  <2> DEFINE s == session[t]
             new == [pin |-> route[t].pin, as |-> as[t]]
  <2>1. /\ at[t] = "answering" /\ Done(t) /\ UNCHANGED <<listed, owed>>
        /\ UNCHANGED opened \/ (s # None /\ opened' = [opened EXCEPT ![s].socket = new])
    BY <1>10 DEF Record
  <2>2. CASE UNCHANGED opened
    BY <1>6, <2>1, <2>2
  <2>3. CASE s # None /\ opened' = [opened EXCEPT ![s].socket = new]
    <3>1. s \in Sessions /\ opened[s] \in Endpoints
      BY <1>0, <2>1, <2>3 DEF TurnInv, TurnType
    <3>2. \A r \in Sessions : r # s => opened'[r] = opened[r]
      BY <1>0, <2>3
    <3>3. opened'[s].socket.pin = route[t].pin /\ opened'[s].socket.as = as[t]
      <4>1. new.pin = route[t].pin /\ new.as = as[t]
        OBVIOUS
      <4> HIDE DEF new
      <4>2. opened'[s].socket = new
        BY <1>0, <2>3, <3>1 DEF Endpoints
      <4> QED
        BY <4>1, <4>2
    <3>4. ASSUME NEW r \in Sessions, NEW x \in Owners, Carries(r, x)' PROVE Carries(r, x)
      <4>1. CASE opened'[r] # None /\ opened'[r].socket # None
                 /\ opened'[r].socket.pin = None /\ opened'[r].socket.as = x
        <5>1. CASE r = s
          <6>1. route[t].pin = None /\ as[t] = x
            BY <3>3, <4>1, <5>1
          <6> QED
            BY <2>1, <5>1, <6>1 DEF Carries
        <5>2. CASE r # s
          BY <3>2, <4>1, <5>2 DEF Carries
        <5> QED
          BY <5>1, <5>2
      <4>2. CASE \E u \in Clients : /\ at'[u] = "answering" /\ session'[u] = r
                                    /\ route'[u].pin = None /\ as'[u] = x
        BY <1>0, <2>1, <4>2 DEF Carries, Done
      <4> QED
        BY <3>4, <4>1, <4>2 DEF Carries
    <3>5. ASSUME NEW u \in Clients, NEW r \in Sessions, session'[u] = r
          PROVE  session[u] = r /\ since'[u] = since[u]
      <4>1. u # t
        BY <1>0, <2>1, <3>5, NoneAssumption DEF Done
      <4> QED
        BY <1>0, <2>1, <3>5, <4>1 DEF Done
    <3> QED
      BY <2>1, <3>4, <3>5 DEF CarryInv
  <2> QED
    BY <2>1, <2>2, <2>3
<1>11. ASSUME Login PROVE CarryInv'
  <2>1. UNCHANGED <<at, route, session, as, opened, listed>> /\ Serves(file')
    BY <1>11 DEF Login, convs
  <2> QED
    BY <1>3, <2>1
<1>12. ASSUME Restart PROVE CarryInv'
  <2>1. /\ \A s \in Sessions : opened'[s] = None
        /\ \A t \in Clients : at'[t] = "idle"
    BY <1>12 DEF Restart, TurnsEnd
  <2>2. \A s \in Sessions, x \in Owners : ~Carries(s, x)'
    BY <2>1 DEF Carries
  <2> QED
    BY <2>2 DEF CarryInv
<1>13. ASSUME UNCHANGED vars PROVE CarryInv'
  BY <1>1, <1>13 DEF vars, daemon, convs, turn, past
<1> QED
  BY <1>2, <1>4, <1>5, <1>7, <1>8, <1>9, <1>10, <1>11, <1>12, <1>13, StepIs DEF Serving

(* A turn that nothing pins is made as an account that served when it      *)
(* began or came to serve while it was under way: no conversation keeps,   *)
(* past the answer to a switch, a socket that spends the account before.   *)
THEOREM TurnsAreMadeAsOwed == Spec => []ServedAsOwed
<1> DEFINE Inv == TypeInv /\ OwedInv /\ CarryInv
<1>1. Init => Inv
  <2>1. Init => CarryInv
    BY DEF Init, CarryInv, Carries
  <2> QED
    BY <2>1, TypeInit DEF Init, OwedInv
<1>2. Inv /\ [Next]_vars => Inv'
  BY TypeStep, OwedStep, CarryStep
<1>3. Inv => ServedAsOwed
  <2> SUFFICES ASSUME Inv, NEW t \in Clients, at[t] = "answering", route[t].pin = None,
                      route[t].relayed = None
               PROVE  as[t] \in since[t]
    BY DEF ServedAsOwed
  <2>1. session[t] \in Sessions /\ as[t] \in Owners
    BY DEF TypeInv, TurnInv, TurnType
  <2>2. Carries(session[t], as[t])
    BY DEF Carries
  <2> QED
    BY <2>1, <2>2 DEF CarryInv
<1> QED
  BY <1>1, <1>2, <1>3, PTL DEF Spec

-----------------------------------------------------------------------------
(* One caller.  What follows is of a control socket that one front-end     *)
(* uses at a time; what two at once do to each other is in the README.     *)

(* Consent is in force as it is written, but for the step between.         *)
ConsentInv(c) ==
  /\ \/ policy.consent = config.consent
     \/ pc[c] = "applying" /\ arg[c] \in ConsentRequests
  /\ pc[c] = "writing" =>
       IF arg[c] \in ConsentRequests
       THEN kept[c].now /\ kept[c].config.consent = arg[c].enabled
       ELSE kept[c].config.consent = config.consent
  /\ pc[c] = "applying" /\ arg[c] \in ConsentRequests => config.consent = arg[c].enabled

(* What a call computed still stands: nobody else moves what it read.      *)
ReadInv(c) ==
  /\ pc[c] = "checking tiers" =>
       kept[c] = [policy.tiers EXCEPT ![arg[c].tier] = As(arg[c].value)]
  /\ pc[c] = "editing" /\ arg[c] \in TierRequests =>
       kept[c].tiers = [policy.tiers EXCEPT ![arg[c].tier] = As(arg[c].value)]
  /\ pc[c] \in {"mapping", "capping"} =>
       /\ kept[c].tiers = Resolved(config, arg[c].account)
       /\ kept[c].ceiling = EffortFor(config, arg[c].account)
  /\ pc[c] = "capping" => policy.tiers = kept[c].tiers

(* The mapping in force is in step with what the files say of the account  *)
(* that serves -- at each point of a call, up to what it has yet to do.    *)
EditedStands(c, name) ==
  LET r == arg[c]
      k == kept[c]
  IN  IF ~k.now THEN InStep(policy, k.config, name)
      ELSE /\ r \in TierRequests => /\ TiersInStep(k.tiers, k.config, name)
                                    /\ policy.ceiling = EffortFor(k.config, name)
                                    /\ r.persist
           /\ r \in EffortRequests => TiersInStep(policy.tiers, k.config, name) /\ r.persist
           /\ r \in ConsentRequests => InStep(policy, k.config, name)

WrittenStands(c, name) ==
  LET r == arg[c]
      k == kept[c]
  IN  /\ r \in TierRequests /\ r.persist =>
           TiersInStep(k.tiers, config, name) /\ policy.ceiling = EffortFor(config, name)
      /\ r \in EffortRequests /\ r.persist => TiersInStep(policy.tiers, config, name)
      /\ r \in ConsentRequests => InStep(policy, config, name)

Settled == Resting \cup {"checking tiers", "editing", "measuring", "selecting", "forgetting",
                         "dropping", "undone", "refetching"}

StepInv(c) ==
  LET name == ServingName(file)
      r    == arg[c]
      k    == kept[c]
  IN  /\ pc[c] \in Settled => InStep(policy, config, name)
      /\ pc[c] = "selecting"  => k.previous = name
      /\ pc[c] = "forgetting" => k.serving = name
      /\ pc[c] = "editing" /\ r \notin ConsentRequests =>
           r.persist /\ k.now = (r.account \in {None, name})
      /\ pc[c] = "writing" => EditedStands(c, name)
      /\ pc[c] = "applying" => WrittenStands(c, name)
      /\ pc[c] = "moving" => /\ r.from # r.to => name # r.from
                             /\ InStep(policy, config, IF name = r.to THEN r.from ELSE name)
      /\ pc[c] \in {"switched", "fetching", "resolving", "undoing"} =>
           InStep(policy, config, k.previous)
      /\ pc[c] = "forgot" =>
           /\ InStep(policy, config, k.serving)
           /\ name = k.serving \/ (Forgotten(c) = k.serving /\ k.serving # None)
      /\ pc[c] \notin {"handed over", "landing"}

ForceInv(c) == up /\ ~drifted => StepInv(c)

(* What may yet be refused has moved nothing, or knows the way back.       *)
Untouched(c) == before[c].policy = policy /\ before[c].config = config

BeforeInv(c) ==
  /\ pc[c] \in {"checking tiers", "selecting", "forgetting", "moving", "undone", "refetching",
                "measuring"} =>
       Untouched(c) /\ before[c].serving \in {None, Spends(file, None)}
  /\ pc[c] = "selecting" => kept[c].previous \in {None, ServingName(file)}
  /\ pc[c] \in {"switched", "fetching", "resolving", "undoing"} =>
       /\ Untouched(c) /\ kept[c].previous \in Stored(file) \cup {None}
       /\ kept[c].previous # None =>
            before[c].serving \in {None, Spends(file, kept[c].previous)}

One(c) == ConsentInv(c) /\ ReadInv(c) /\ ForceInv(c) /\ BeforeInv(c)


LEMMA SettledIs ==
  ASSUME NEW c, pc'[c] \in Settled \ {"selecting", "forgetting", "editing"},
         up' /\ ~drifted' => InStep(policy', config', ServingName(file'))
  PROVE  ForceInv(c)'
  BY DEF ForceInv, StepInv, Settled, Resting

LEMMA EndsOne ==
  ASSUME NEW c, pc'[c] \in Resting, policy'.consent = config'.consent,
         up' /\ ~drifted' => InStep(policy', config', ServingName(file'))
  PROVE  One(c)'
<1>1. ForceInv(c)'
  BY SettledIs DEF Settled, Resting
<1>2. ConsentInv(c)' /\ ReadInv(c)' /\ BeforeInv(c)'
  BY DEF ConsentInv, ReadInv, BeforeInv, Resting
<1> QED
  BY <1>1, <1>2 DEF One

(* Before a call, and through every step that touches neither.             *)
LEMMA AtRest ==
  ASSUME NEW c, One(c), pc[c] \in Resting
  PROVE  /\ policy.consent = config.consent
         /\ up /\ ~drifted => InStep(policy, config, ServingName(file))
  BY DEF One, ConsentInv, ForceInv, StepInv, Settled, Resting

LEMMA InForceIs ==
  ASSUME NEW f, NEW p, NEW c
  PROVE  /\ InForce(f, p, c).serving = Spends(f, None)
         /\ InForce(f, p, c).policy = p /\ InForce(f, p, c).config = c
  BY DEF InForce

LEMMA AskedBefore ==
  ASSUME NEW c, before'[c] = InForce(file, policy, config), UNCHANGED <<policy, config>>,
         Spends(file', None) = Spends(file, None)
  PROVE  /\ before'[c].policy = policy' /\ before'[c].config = config'
         /\ before'[c].serving = Spends(file', None)
  BY InForceIs

LEMMA ConsentStands ==
  ASSUME NEW c, One(c), pc[c] \notin {"writing", "applying"},
         pc'[c] \notin {"writing", "applying"}, UNCHANGED <<policy, config>>
  PROVE  ConsentInv(c)' /\ policy.consent = config.consent
  BY DEF One, ConsentInv

LEMMA TiersOne ==
  ASSUME TypeInv, NEW c \in Callers, One(c),
         AskTiers(c) \/ CheckTiers(c) \/ EditTiers(c) \/ ApplyTiers(c)
  PROVE  One(c)'
<1>0. /\ CallInv /\ CallType(c) /\ Kept(file) /\ ServingName(file) \in MaybeName
      /\ IsConfiguration(config) /\ policy \in Policies
  BY ServingNameType DEF TypeInv, CallInv, FileInv, PolicyInv, MaybeName
<1>1. CASE AskTiers(c)
  <2>1. PICK tier \in Tiers, value \in Values, account \in Stored(file) \cup {None},
             persist \in Persists :
          /\ Called(c, [method |-> "tiers.set", tier |-> tier, value |-> value,
                        account |-> account, persist |-> persist], "checking tiers",
                    [policy.tiers EXCEPT ![tier] = [model |-> value.model,
                                                    account |-> value.account,
                                                    defaulted |-> FALSE]])
          /\ UNCHANGED <<daemon, turn, past>>
    BY <1>1 DEF AskTiers
  <2> DEFINE request == [method |-> "tiers.set", tier |-> tier, value |-> value,
                         account |-> account, persist |-> persist]
             new == [policy.tiers EXCEPT ![tier] = As(value)]
  <2>2. UNCHANGED <<file, config, policy, up, drifted>>
    BY <2>1 DEF daemon, store, past
  <2>3. Called(c, request, "checking tiers", new)
    BY <2>1 DEF As
  <2>4. request.tier = tier /\ request.value = value
    OBVIOUS
  <2> HIDE DEF request
  <2>5. new = [policy.tiers EXCEPT ![request.tier] = As(request.value)]
    BY <2>4
  <2> HIDE DEF new
  <2>6. /\ pc[c] \in Resting /\ pc'[c] = "checking tiers" /\ arg'[c] = request /\ kept'[c] = new
        /\ before'[c] = InForce(file, policy, config) /\ up
    BY <1>0, <2>3, CalledIs
  <2>7. ConsentInv(c)'
    BY <2>2, <2>6, ConsentStands DEF Resting
  <2>8. ReadInv(c)'
    BY <2>2, <2>5, <2>6 DEF ReadInv
  <2>9. ForceInv(c)'
    BY <2>2, <2>6, AtRest, SettledIs DEF Settled, Resting
  <2>10. BeforeInv(c)'
    <3>1. before'[c].serving = Spends(file, None) /\ before'[c].policy = policy
          /\ before'[c].config = config
      <4>1. before'[c] = InForce(file, policy, config)
        BY <2>6
      <4> QED
        BY <4>1, InForceIs
    <3> QED
      BY <2>2, <2>6, <3>1 DEF BeforeInv, Untouched
  <2> QED
    BY <2>7, <2>8, <2>9, <2>10 DEF One
<1>2. CASE CheckTiers(c)
  <2> DEFINE now == AppliesNow(arg[c].account)
             valid == /\ Matters(arg[c])
                      /\ now => Validates(catalog, ValidatedModels(file, kept[c]))
             to == IF valid THEN After(arg[c]) ELSE "refused"
             held == [tiers |-> kept[c], now |-> now]
  <2>1. Takes(c, "checking tiers", to, held) /\ UNCHANGED <<file, config, policy, up, drifted>>
    BY <1>2 DEF CheckTiers, daemon, store, past
  <2>2. /\ to \in {"editing", "applying", "refused"}
        /\ to = "editing" => arg[c].persist
        /\ to = "applying" => ~arg[c].persist
    BY DEF After
  <2>3. held.tiers = kept[c] /\ held.now = (arg[c].account \in {None, ServingName(file)})
    BY DEF AppliesNow
  <2> HIDE DEF valid, now, held, to
  <2>4. /\ pc[c] = "checking tiers" /\ pc'[c] = to
        /\ to \in {"editing", "applying"} => /\ kept'[c] = held /\ arg'[c] = arg[c]
                                             /\ before'[c] = before[c]
    BY <1>0, <2>1, TakesIs DEF Resting
  <2>5. arg[c] \in TierRequests
    BY <1>0, <2>4 DEF CallType
  <2>6. arg[c] \notin ConsentRequests /\ arg[c] \notin EffortRequests
    BY <2>5 DEF TierRequests, ConsentRequests, EffortRequests
  <2>7. /\ policy.consent = config.consent
        /\ up /\ ~drifted => InStep(policy, config, ServingName(file))
        /\ kept[c] = [policy.tiers EXCEPT ![arg[c].tier] = As(arg[c].value)]
    BY <2>4 DEF One, ConsentInv, ReadInv, ForceInv, StepInv, Settled
  <2>8. CASE to = "refused"
    <3>1. pc'[c] \in Resting /\ policy'.consent = config'.consent
          /\ (up' /\ ~drifted' => InStep(policy', config', ServingName(file')))
      BY <2>1, <2>4, <2>7, <2>8 DEF Resting
    <3> QED
      BY <3>1, EndsOne
  <2>9. CASE to = "editing"
    <3>1. pc'[c] = "editing" /\ kept'[c] = held /\ arg'[c] = arg[c] /\ arg[c].persist
      BY <2>2, <2>4, <2>9
    <3>2. ConsentInv(c)' /\ BeforeInv(c)'
      BY <2>1, <2>7, <3>1 DEF ConsentInv, BeforeInv
    <3>3. ReadInv(c)'
      BY <2>1, <2>3, <2>7, <3>1 DEF ReadInv
    <3>4. ForceInv(c)'
      <4>1. arg'[c].persist /\ kept'[c].now = (arg'[c].account \in {None, ServingName(file')})
        BY <2>1, <2>3, <3>1
      <4> QED
        BY <2>1, <2>7, <3>1, <4>1 DEF ForceInv, StepInv, Settled, Resting
    <3> QED
      BY <3>2, <3>3, <3>4 DEF One
  <2>10. CASE to = "applying"
    <3>1. pc'[c] = "applying" /\ kept'[c] = held /\ arg'[c] = arg[c] /\ ~arg[c].persist
      BY <2>2, <2>4, <2>10
    <3>2. ConsentInv(c)' /\ BeforeInv(c)' /\ ReadInv(c)'
      BY <2>1, <2>6, <2>7, <3>1 DEF ConsentInv, BeforeInv, ReadInv
    <3>3. ForceInv(c)'
      BY <2>1, <2>6, <3>1 DEF ForceInv, StepInv, Settled, Resting, WrittenStands
    <3> QED
      BY <3>2, <3>3 DEF One
  <2> QED
    BY <2>2, <2>8, <2>9, <2>10
<1>3. CASE EditTiers(c)
  <2> DEFINE name == ServingName(file)
             r == arg[c]
             under == IF r.account # None THEN r.account
                      ELSE ShadowingTier(config, name, r.tier)
             new == SetTier(config, under, r.tier, r.value)
             held == [tiers |-> kept[c].tiers, now |-> kept[c].now, config |-> new]
  <2>1. /\ r.method = "tiers.set" /\ Takes(c, "editing", "writing", held)
        /\ UNCHANGED <<file, config, policy, up, drifted>>
    BY <1>3 DEF EditTiers, Within, daemon, store, past
  <2>2. held.tiers = kept[c].tiers /\ held.now = kept[c].now /\ held.config = new
    OBVIOUS
  <2> HIDE DEF held
  <2>3. pc[c] = "editing" /\ pc'[c] = "writing" /\ arg'[c] = r /\ kept'[c] = held
    BY <1>0, <2>1, TakesIs DEF Resting
  <2>4. r \in TierRequests /\ r \notin ConsentRequests /\ r \notin EffortRequests
        /\ kept[c].now \in BOOLEAN
    BY <1>0, <2>1, <2>3 DEF CallType, TierRequests, EffortRequests, ConsentRequests
  <2>5. r.account \in MaybeName /\ r.tier \in Tiers /\ r.value \in Mapped
    BY <2>4, MappingAssumption DEF TierRequests
  <2>6. under \in Names \cup {None}
    BY <1>0, <2>5 DEF ShadowingTier, MaybeName
  <2>7. /\ policy.consent = config.consent
        /\ kept[c].tiers = [policy.tiers EXCEPT ![r.tier] = As(r.value)]
        /\ up /\ ~drifted => /\ InStep(policy, config, name) /\ r.persist
                             /\ kept[c].now = (r.account \in {None, name})
    BY <2>3, <2>4 DEF One, ConsentInv, ReadInv, ForceInv, StepInv, Settled
  <2>8. /\ IsConfiguration(new) /\ new.consent = config.consent
        /\ EffortFor(new, name) = EffortFor(config, name)
        /\ under # None /\ under # name => TiersFor(new, name) = TiersFor(config, name)
        /\ \/ under # None /\ under = name
           \/ under = None /\ SectionOf(config, name).tiers[r.tier] = Unset
           => TiersFor(new, name) = [TiersFor(config, name) EXCEPT ![r.tier] = r.value]
    <3>1. name \in Names \cup {None} /\ r.tier \in Tiers /\ r.value \in Mapped
      BY <1>0, <2>5 DEF MaybeName
    <3> HIDE DEF under, name, r
    <3> QED
      BY <1>0, <2>6, <3>1, SetTierIs
  <2>9. ConsentInv(c)' /\ ReadInv(c)' /\ BeforeInv(c)'
    <3> HIDE DEF new
    <3> QED
      BY <2>1, <2>2, <2>3, <2>4, <2>7, <2>8 DEF ConsentInv, ReadInv, BeforeInv
  <2>10. ASSUME up, ~drifted, kept[c].now
         PROVE  TiersInStep(kept[c].tiers, new, name) /\ policy.ceiling = EffortFor(new, name)
    <3>1. r.account \in {None, name} /\ InStep(policy, config, name)
      BY <2>7, <2>10
    <3>2. \/ under # None /\ under = name
          \/ under = None /\ SectionOf(config, name).tiers[r.tier] = Unset
      <4>1. CASE r.account # None
        BY <3>1, <4>1
      <4>2. CASE r.account = None /\ SectionOf(config, name).tiers[r.tier] = Unset
        BY <4>2 DEF ShadowingTier
      <4>3. CASE r.account = None /\ SectionOf(config, name).tiers[r.tier] # Unset
        <5>1. under = name
          BY <4>3 DEF ShadowingTier
        <5>2. name # None
          <6>1. Nothing.tiers[r.tier] = Unset
            BY <2>5 DEF Nothing
          <6> QED
            BY <1>0, <4>3, <6>1, SectionIs, NoneAssumption
        <5> QED
          BY <5>1, <5>2
      <4> QED
        BY <4>1, <4>2, <4>3
    <3>3. TiersFor(new, name) = [TiersFor(config, name) EXCEPT ![r.tier] = r.value]
      BY <2>8, <3>2
    <3>4. TiersInStep(policy.tiers, config, name) /\ policy.ceiling = EffortFor(config, name)
          /\ policy.tiers \in Mappings
      BY <1>0, <3>1 DEF InStep, Policies
    <3> HIDE DEF new, name, r
    <3>5. TiersInStep([policy.tiers EXCEPT ![r.tier] = As(r.value)], new, name)
      BY <1>0, <2>5, <2>8, <3>3, <3>4, SetInStep
    <3> QED
      BY <2>7, <2>8, <3>4, <3>5
  <2>11. ASSUME up, ~drifted, ~kept[c].now PROVE InStep(policy, new, name)
    <3>1. r.account \notin {None, name} /\ InStep(policy, config, name)
      BY <2>7, <2>11
    <3>2. under # None /\ under # name
      BY <3>1
    <3>3. TiersFor(new, name) = TiersFor(config, name)
      BY <2>8, <3>2
    <3> HIDE DEF new, name
    <3> QED
      BY <2>8, <3>1, <3>3, ReadAlike DEF InStep
  <2>12. ForceInv(c)'
    <3>1. /\ pc'[c] = "writing" /\ arg'[c] = r /\ kept'[c].config = new
          /\ kept'[c].now = kept[c].now /\ kept'[c].tiers = kept[c].tiers
      BY <2>2, <2>3
    <3> HIDE DEF new, r
    <3>2. ASSUME up, ~drifted PROVE EditedStands(c, ServingName(file))'
      <4>1. r.persist
        BY <2>7, <3>2
      <4>2. kept[c].now => /\ TiersInStep(kept[c].tiers, new, name)
                           /\ policy.ceiling = EffortFor(new, name)
        BY <2>10, <3>2
      <4>3. ~kept[c].now => InStep(policy, new, name)
        BY <2>11, <3>2
      <4> QED
        BY <2>1, <2>4, <3>1, <4>1, <4>2, <4>3 DEF EditedStands
    <3> QED
      BY <2>1, <3>1, <3>2 DEF ForceInv, StepInv, Settled, Resting
  <2> QED
    BY <2>9, <2>12 DEF One
<1>4. CASE ApplyTiers(c)
  <2>1. /\ pc[c] = "applying" /\ arg[c].method = "tiers.set" /\ pc'[c] = "answered"
        /\ policy' = [policy EXCEPT !.tiers = kept[c].tiers]
        /\ drifted' = (drifted \/ ~arg[c].persist) /\ UNCHANGED <<file, config, up>>
    BY <1>0, <1>4, ContinuesIs DEF ApplyTiers, Within, store
  <2>2. arg[c] \in TierRequests /\ arg[c] \notin ConsentRequests
    BY <1>0, <2>1 DEF CallType, TierRequests, EffortRequests, ConsentRequests
  <2>3. /\ policy'.tiers = kept[c].tiers /\ policy'.ceiling = policy.ceiling
        /\ policy'.consent = policy.consent
    BY <1>0, <2>1 DEF Policies
  <2>4. policy'.consent = config'.consent
    BY <2>1, <2>2, <2>3 DEF One, ConsentInv
  <2>5. up' /\ ~drifted' => InStep(policy', config', ServingName(file'))
    BY <2>1, <2>2, <2>3 DEF One, ForceInv, StepInv, WrittenStands, InStep
  <2> QED
    BY <2>1, <2>4, <2>5, EndsOne DEF Resting
<1> QED
  BY <1>1, <1>2, <1>3, <1>4

LEMMA EffortOne ==
  ASSUME TypeInv, NEW c \in Callers, One(c), AskEffort(c) \/ EditEffort(c) \/ ApplyEffort(c)
  PROVE  One(c)'
<1>0. /\ CallInv /\ CallType(c) /\ Kept(file) /\ ServingName(file) \in MaybeName
      /\ IsConfiguration(config) /\ policy \in Policies
  BY ServingNameType DEF TypeInv, CallInv, FileInv, PolicyInv, MaybeName
<1>1. CASE AskEffort(c)
  <2>1. PICK effort \in Efforts \cup {None}, account \in Stored(file) \cup {None},
             persist \in Persists :
          /\ Called(c, [method |-> "effort.set", effort |-> effort, account |-> account,
                        persist |-> persist],
                    After([method |-> "effort.set", effort |-> effort, account |-> account,
                           persist |-> persist]),
                    [now |-> AppliesNow(account)])
          /\ UNCHANGED <<daemon, turn, past>>
    BY <1>1 DEF AskEffort
  <2> DEFINE request == [method |-> "effort.set", effort |-> effort, account |-> account,
                         persist |-> persist]
             held == [now |-> AppliesNow(account)]
             to == After(request)
  <2>2. UNCHANGED <<file, config, policy, up, drifted>>
    BY <2>1 DEF daemon, store, past
  <2>3. Called(c, request, to, held)
    BY <2>1
  <2>4. /\ held.now = (request.account \in {None, ServingName(file)})
        /\ to = IF request.persist THEN "editing" ELSE "applying"
        /\ request \notin TierRequests /\ request \notin ConsentRequests
    BY DEF AppliesNow, After, TierRequests, ConsentRequests
  <2> HIDE DEF request, held, to
  <2>5. /\ pc[c] \in Resting /\ pc'[c] = to /\ arg'[c] = request /\ kept'[c] = held /\ up
    BY <1>0, <2>3, CalledIs
  <2>6. /\ policy.consent = config.consent
        /\ ~drifted => InStep(policy, config, ServingName(file))
    BY <2>5, AtRest
  <2>7. ConsentInv(c)' /\ ReadInv(c)' /\ BeforeInv(c)'
    BY <2>2, <2>4, <2>5, <2>6 DEF ConsentInv, ReadInv, BeforeInv
  <2>8. ForceInv(c)'
    <3>1. CASE request.persist
      BY <2>2, <2>4, <2>5, <2>6, <3>1 DEF ForceInv, StepInv, Settled, Resting
    <3>2. CASE ~request.persist
      BY <2>2, <2>4, <2>5, <3>2 DEF ForceInv, StepInv, Settled, Resting, WrittenStands
    <3> QED
      BY <3>1, <3>2
  <2> QED
    BY <2>7, <2>8 DEF One
<1>2. CASE EditEffort(c)
  <2> DEFINE name == ServingName(file)
             r == arg[c]
             under == IF r.account # None THEN r.account ELSE ShadowingEffort(config, name)
             new == SetEffort(config, under, r.effort)
             held == [now |-> kept[c].now, config |-> new]
  <2>1. /\ r.method = "effort.set" /\ Takes(c, "editing", "writing", held)
        /\ UNCHANGED <<file, config, policy, up, drifted>>
    BY <1>2 DEF EditEffort, Within, daemon, store, past
  <2>2. held.now = kept[c].now /\ held.config = new
    OBVIOUS
  <2> HIDE DEF held
  <2>3. pc[c] = "editing" /\ pc'[c] = "writing" /\ arg'[c] = r /\ kept'[c] = held
    BY <1>0, <2>1, TakesIs DEF Resting
  <2>4. r \in EffortRequests /\ r \notin ConsentRequests /\ r \notin TierRequests
        /\ kept[c].now \in BOOLEAN
    BY <1>0, <2>1, <2>3 DEF CallType, TierRequests, EffortRequests, ConsentRequests
  <2>5. r.account \in MaybeName /\ r.effort \in Ceilings
    BY <2>4 DEF EffortRequests
  <2>6. under \in Names \cup {None} /\ name \in Names \cup {None}
    BY <1>0, <2>5 DEF ShadowingEffort, MaybeName
  <2>7. /\ policy.consent = config.consent
        /\ up /\ ~drifted => /\ InStep(policy, config, name) /\ r.persist
                             /\ kept[c].now = (r.account \in {None, name})
    BY <2>3, <2>4 DEF One, ConsentInv, ForceInv, StepInv, Settled
  <2>8. /\ IsConfiguration(new) /\ new.consent = config.consent
        /\ TiersFor(new, name) = TiersFor(config, name)
        /\ under # None /\ under # name => EffortFor(new, name) = EffortFor(config, name)
    <3> HIDE DEF under, name, r
    <3> QED
      BY <1>0, <2>5, <2>6, SetEffortIs
  <2> HIDE DEF new
  <2>9. ConsentInv(c)' /\ ReadInv(c)' /\ BeforeInv(c)'
    BY <2>1, <2>2, <2>3, <2>4, <2>7, <2>8 DEF ConsentInv, ReadInv, BeforeInv
  <2>10. ASSUME up, ~drifted PROVE EditedStands(c, ServingName(file))'
    <3>1. InStep(policy, config, name) /\ r.persist
          /\ kept[c].now = (r.account \in {None, name})
      BY <2>7, <2>10
    <3>2. TiersInStep(policy.tiers, new, name)
      BY <2>8, <3>1, ReadAlike DEF InStep
    <3>3. ~kept[c].now => InStep(policy, new, name)
      <4>1. SUFFICES ASSUME ~kept[c].now PROVE InStep(policy, new, name)
        OBVIOUS
      <4>2. under # None /\ under # name
        BY <3>1, <4>1
      <4>3. EffortFor(new, name) = EffortFor(config, name)
        BY <2>8, <4>2
      <4> QED
        BY <3>1, <3>2, <4>3 DEF InStep
    <3> HIDE DEF name, under, r
    <3>4. arg'[c] = r /\ kept'[c].now = kept[c].now /\ kept'[c].config = new
          /\ ServingName(file') = name
      BY <2>1, <2>2, <2>3 DEF name
    <3> QED
      BY <2>1, <2>4, <3>1, <3>2, <3>3, <3>4 DEF EditedStands
  <2>11. ForceInv(c)'
    BY <2>1, <2>3, <2>10 DEF ForceInv, StepInv, Settled, Resting
  <2> QED
    BY <2>9, <2>11 DEF One
<1>3. CASE ApplyEffort(c)
  <2> DEFINE ceiling == IF arg[c].persist THEN EffortFor(config, ServingName(file))
                        ELSE arg[c].effort
  <2>1. /\ pc[c] = "applying" /\ arg[c].method = "effort.set" /\ pc'[c] = "answered"
        /\ policy' = [policy EXCEPT !.ceiling = ceiling]
        /\ drifted' = (drifted \/ ~arg[c].persist) /\ UNCHANGED <<file, config, up>>
    BY <1>0, <1>3, ContinuesIs DEF ApplyEffort, Within, store
  <2>2. arg[c] \in EffortRequests /\ arg[c] \notin ConsentRequests
    BY <1>0, <2>1 DEF CallType, TierRequests, EffortRequests, ConsentRequests
  <2> HIDE DEF ceiling
  <2>3. /\ policy'.tiers = policy.tiers /\ policy'.ceiling = ceiling
        /\ policy'.consent = policy.consent
    BY <1>0, <2>1 DEF Policies
  <2>4. policy'.consent = config'.consent
    BY <2>1, <2>2, <2>3 DEF One, ConsentInv
  <2>5. up' /\ ~drifted' => InStep(policy', config', ServingName(file'))
    BY <2>1, <2>2, <2>3 DEF One, ForceInv, StepInv, WrittenStands, InStep, ceiling
  <2> QED
    BY <2>1, <2>4, <2>5, EndsOne DEF Resting
<1> QED
  BY <1>1, <1>2, <1>3

LEMMA ConsentOne ==
  ASSUME TypeInv, NEW c \in Callers, One(c),
         AskConsent(c) \/ EditConsent(c) \/ ApplyConsent(c) \/ WriteConfig(c)
  PROVE  One(c)'
<1>0. /\ CallInv /\ CallType(c) /\ Kept(file) /\ ServingName(file) \in MaybeName
      /\ IsConfiguration(config) /\ policy \in Policies
  BY ServingNameType DEF TypeInv, CallInv, FileInv, PolicyInv, MaybeName
<1>1. CASE AskConsent(c)
  <2>1. PICK enabled \in BOOLEAN :
          /\ Called(c, [method |-> "cross_account_tiers.set", enabled |-> enabled], "editing", None)
          /\ UNCHANGED <<daemon, turn, past>>
    BY <1>1 DEF AskConsent
  <2> DEFINE request == [method |-> "cross_account_tiers.set", enabled |-> enabled]
  <2>2. UNCHANGED <<file, config, policy, up, drifted>>
    BY <2>1 DEF daemon, store, past
  <2>3. request \in ConsentRequests /\ request \notin TierRequests
    BY <2>1 DEF ConsentRequests, TierRequests
  <2>4. Called(c, request, "editing", None)
    BY <2>1
  <2> HIDE DEF request
  <2>5. /\ pc[c] \in Resting /\ pc'[c] = "editing" /\ arg'[c] = request /\ up
    BY <1>0, <2>4, CalledIs
  <2>6. /\ policy.consent = config.consent
        /\ ~drifted => InStep(policy, config, ServingName(file))
    BY <2>5, AtRest
  <2>7. ConsentInv(c)' /\ ReadInv(c)' /\ BeforeInv(c)'
    BY <2>2, <2>3, <2>5, <2>6 DEF ConsentInv, ReadInv, BeforeInv
  <2>8. ForceInv(c)'
    BY <2>2, <2>3, <2>5, <2>6 DEF ForceInv, StepInv, Settled, Resting
  <2> QED
    BY <2>7, <2>8 DEF One
<1>2. CASE EditConsent(c)
  <2> DEFINE name == ServingName(file)
             r == arg[c]
             new == SetCrossAccountTiers(config, r.enabled)
             held == [now |-> TRUE, config |-> new]
  <2>1. /\ r.method = "cross_account_tiers.set" /\ Takes(c, "editing", "writing", held)
        /\ UNCHANGED <<file, config, policy, up, drifted>>
    BY <1>2 DEF EditConsent, Within, daemon, store, past
  <2>2. held.now = TRUE /\ held.config = new
    OBVIOUS
  <2> HIDE DEF held
  <2>3. pc[c] = "editing" /\ pc'[c] = "writing" /\ arg'[c] = r /\ kept'[c] = held
    BY <1>0, <2>1, TakesIs DEF Resting
  <2>4. r \in ConsentRequests /\ r \notin TierRequests /\ r \notin EffortRequests
    BY <1>0, <2>1, <2>3 DEF CallType, TierRequests, EffortRequests, ConsentRequests
  <2>5. r.enabled \in BOOLEAN
    BY <2>4 DEF ConsentRequests
  <2>6. /\ policy.consent = config.consent
        /\ up /\ ~drifted => InStep(policy, config, name)
    BY <2>3 DEF One, ConsentInv, ForceInv, StepInv, Settled
  <2>7. /\ new.consent = r.enabled
        /\ TiersFor(new, name) = TiersFor(config, name)
        /\ EffortFor(new, name) = EffortFor(config, name)
    BY <1>0, <2>5, SetConsentIs
  <2> HIDE DEF new
  <2>8. ConsentInv(c)' /\ ReadInv(c)' /\ BeforeInv(c)'
    BY <2>1, <2>2, <2>3, <2>4, <2>6, <2>7 DEF ConsentInv, ReadInv, BeforeInv
  <2>9. ASSUME up, ~drifted PROVE EditedStands(c, ServingName(file))'
    <3>1. InStep(policy, new, name)
      BY <2>6, <2>7, <2>9, ReadAlike DEF InStep
    <3> HIDE DEF name, r
    <3>2. arg'[c] = r /\ kept'[c].now = TRUE /\ kept'[c].config = new
          /\ ServingName(file') = name
      BY <2>1, <2>2, <2>3 DEF name
    <3> QED
      BY <2>1, <2>4, <3>1, <3>2 DEF EditedStands
  <2>10. ForceInv(c)'
    BY <2>1, <2>3, <2>9 DEF ForceInv, StepInv, Settled, Resting
  <2> QED
    BY <2>8, <2>10 DEF One
<1>3. CASE ApplyConsent(c)
  <2>1. /\ pc[c] = "applying" /\ arg[c].method = "cross_account_tiers.set" /\ pc'[c] = "answered"
        /\ policy' = [policy EXCEPT !.consent = arg[c].enabled]
        /\ UNCHANGED <<file, config, up, drifted>>
    BY <1>0, <1>3, ContinuesIs DEF ApplyConsent, Within, store, past
  <2>2. arg[c] \in ConsentRequests
    BY <1>0, <2>1 DEF CallType, TierRequests, EffortRequests, ConsentRequests
  <2>3. /\ policy'.tiers = policy.tiers /\ policy'.ceiling = policy.ceiling
        /\ policy'.consent = arg[c].enabled
    BY <1>0, <2>1 DEF Policies
  <2>4. policy'.consent = config'.consent
    BY <2>1, <2>2, <2>3 DEF One, ConsentInv
  <2>5. up' /\ ~drifted' => InStep(policy', config', ServingName(file'))
    BY <2>1, <2>2, <2>3 DEF One, ForceInv, StepInv, WrittenStands, InStep
  <2> QED
    BY <2>1, <2>4, <2>5, EndsOne DEF Resting
<1>4. CASE WriteConfig(c)
  <2> DEFINE to == IF kept[c].now THEN "applying" ELSE "answered"
  <2>1. /\ Continues(c, "writing", to) /\ config' = kept[c].config
        /\ UNCHANGED <<file, policy, up, drifted>>
    BY <1>4 DEF WriteConfig, past
  <2>2. /\ pc[c] = "writing" /\ pc'[c] = to
        /\ to = "applying" => kept'[c] = kept[c] /\ arg'[c] = arg[c]
    BY <1>0, <2>1, ContinuesIs DEF Resting
  <2>3. /\ policy.consent = config.consent
        /\ IF arg[c] \in ConsentRequests
           THEN kept[c].now /\ kept[c].config.consent = arg[c].enabled
           ELSE kept[c].config.consent = config.consent
        /\ up /\ ~drifted => EditedStands(c, ServingName(file))
    BY <2>2 DEF One, ConsentInv, ForceInv, StepInv
  <2>4. CASE kept[c].now
    <3>1. pc'[c] = "applying" /\ kept'[c] = kept[c] /\ arg'[c] = arg[c]
      BY <2>2, <2>4
    <3>2. ConsentInv(c)' /\ ReadInv(c)' /\ BeforeInv(c)'
      BY <2>1, <2>3, <3>1 DEF ConsentInv, ReadInv, BeforeInv
    <3>3. up /\ ~drifted => WrittenStands(c, ServingName(file))'
      BY <2>1, <2>3, <2>4, <3>1 DEF EditedStands, WrittenStands
    <3>4. ForceInv(c)'
      BY <2>1, <3>1, <3>3 DEF ForceInv, StepInv, Settled, Resting
    <3> QED
      BY <3>2, <3>4 DEF One
  <2>5. CASE ~kept[c].now
    <3>1. pc'[c] \in Resting
      BY <2>2, <2>5 DEF Resting
    <3>2. policy'.consent = config'.consent
      BY <2>1, <2>3, <2>5
    <3>3. up' /\ ~drifted' => InStep(policy', config', ServingName(file'))
      BY <2>1, <2>3, <2>5 DEF EditedStands
    <3> QED
      BY <3>1, <3>2, <3>3, EndsOne
  <2> QED
    BY <2>4, <2>5
<1> QED
  BY <1>1, <1>2, <1>3, <1>4

LEMMA RenameOne ==
  ASSUME TypeInv, NEW c \in Callers, One(c), RenameInStore(c) \/ MoveSection(c) \/ RenameBack(c)
  PROVE  One(c)'
<1>0. /\ CallInv /\ CallType(c) /\ Kept(file) /\ ServingName(file) \in MaybeName
      /\ IsConfiguration(config)
  BY ServingNameType DEF TypeInv, CallInv, FileInv, PolicyInv, MaybeName
<1>1. CASE RenameInStore(c)
  <2>1. PICK from \in Stored(file), to \in Names :
          /\ CanRename(file, from, to) /\ file' = Renamed(file, from, to)
          /\ Called(c, [method |-> "accounts.rename", from |-> from, to |-> to], "moving", None)
          /\ UNCHANGED <<config, policy, up, drifted>>
    BY <1>1 DEF RenameInStore
  <2> DEFINE request == [method |-> "accounts.rename", from |-> from, to |-> to]
  <2>2. Called(c, request, "moving", None) /\ request.from = from /\ request.to = to
    BY <2>1
  <2> HIDE DEF request
  <2>3. /\ pc[c] \in Resting /\ pc'[c] = "moving" /\ arg'[c] = request /\ up
        /\ before'[c] = InForce(file, policy, config)
    BY <1>0, <2>2, CalledIs
  <2>4. from \in Names /\ from \in Stored(file)
    BY <1>0, <2>1, StoredNames
  <2>5. /\ Spends(file', None) = Spends(file, None)
        /\ from # to => to \notin Stored(file) /\ ServingName(file') # from
        /\ ServingName(file') = IF ServingName(file) = from THEN to ELSE ServingName(file)
    BY <1>0, <2>1, <2>4, RenamedIs
  <2>6. ServingName(file) \in Stored(file) \cup {None} /\ None \notin Names
    BY <1>0, ServingIs, NoneAssumption DEF Kept
  <2>7. (IF ServingName(file') = to THEN from ELSE ServingName(file')) = ServingName(file)
    <3>1. from # to => ServingName(file) # to
      BY <2>1, <2>5, <2>6
    <3> QED
      BY <2>5, <3>1
  <2>8. /\ policy.consent = config.consent
        /\ ~drifted => InStep(policy, config, ServingName(file))
    BY <2>3, AtRest
  <2>9. ConsentInv(c)' /\ ReadInv(c)'
    BY <2>1, <2>3, <2>8 DEF ConsentInv, ReadInv
  <2>10. BeforeInv(c)'
    <3>1. /\ before'[c].policy = policy' /\ before'[c].config = config'
          /\ before'[c].serving = Spends(file', None)
      BY <2>1, <2>3, <2>5, AskedBefore
    <3> QED
      BY <2>3, <3>1 DEF BeforeInv, Untouched
  <2>11. ForceInv(c)'
    <3>1. arg'[c].from = from /\ arg'[c].to = to
      BY <2>2, <2>3
    <3> QED
      BY <2>1, <2>3, <2>5, <2>7, <2>8, <3>1 DEF ForceInv, StepInv, Settled, Resting
  <2> QED
    BY <2>9, <2>10, <2>11 DEF One
<1>2. CASE MoveSection(c)
  <2> DEFINE from == arg[c].from
             to == arg[c].to
             name == ServingName(file)
             was == IF name = to THEN from ELSE name
  <2>1. /\ pc[c] = "moving" /\ pc'[c] = "answered" /\ CanMoveSection(config, to)
        /\ config' = IF from \in DOMAIN config.sections
                     THEN MovedSection(config, from, to) ELSE config
        /\ UNCHANGED <<file, policy, up, drifted>>
    BY <1>0, <1>2, ContinuesIs DEF MoveSection, past
  <2>2. from \in Names /\ to \in Names
    BY <1>0, <2>1 DEF CallType, RenameRequests
  <2>3. /\ policy.consent = config.consent
        /\ up /\ ~drifted => /\ from # to => name # from
                             /\ InStep(policy, config, was)
    BY <2>1 DEF One, ConsentInv, ForceInv, StepInv
  <2>4. to \notin DOMAIN config.sections
    BY <2>1 DEF CanMoveSection
  <2>5. /\ config'.consent = config.consent
        /\ (from # to => name # from) => /\ TiersFor(config', name) = TiersFor(config, was)
                                         /\ EffortFor(config', name) = EffortFor(config, was)
    <3>1. CASE from \in DOMAIN config.sections
      <4>1. from # to
        BY <2>4, <3>1
      <4> HIDE DEF from, to, name
      <4>2. /\ config'.consent = config.consent
            /\ TiersFor(config', to) = TiersFor(config, from)
            /\ EffortFor(config', to) = EffortFor(config, from)
            /\ \A n : n \notin {from, to} => /\ TiersFor(config', n) = TiersFor(config, n)
                                             /\ EffortFor(config', n) = EffortFor(config, n)
        BY <1>0, <2>1, <2>2, <3>1, MovedSectionIs
      <4> QED
        BY <4>1, <4>2
    <3>2. CASE from \notin DOMAIN config.sections
      <4>1. config' = config
        BY <2>1, <3>2
      <4>2. SectionOf(config, from) = SectionOf(config, to)
        BY <2>4, <3>2 DEF SectionOf
      <4>3. TiersFor(config, from) = TiersFor(config, to)
            /\ EffortFor(config, from) = EffortFor(config, to)
        BY <4>2 DEF TiersFor, EffortFor
      <4> HIDE DEF from, to, name
      <4> QED
        BY <4>1, <4>3
    <3> QED
      BY <3>1, <3>2
  <2> HIDE DEF from, to, was
  <2>6. up' /\ ~drifted' => InStep(policy', config', ServingName(file'))
    <3>1. SUFFICES ASSUME up, ~drifted PROVE InStep(policy, config', name)
      BY <2>1
    <3>2. InStep(policy, config, was) /\ TiersFor(config', name) = TiersFor(config, was)
          /\ EffortFor(config', name) = EffortFor(config, was)
      BY <2>3, <2>5, <3>1
    <3> HIDE DEF name
    <3> QED
      BY <3>2, ReadAlike DEF InStep
  <2>7. policy'.consent = config'.consent
    BY <2>1, <2>3, <2>5
  <2> QED
    BY <2>1, <2>6, <2>7, EndsOne DEF Resting
<1>3. CASE RenameBack(c)
  <2> DEFINE from == arg[c].from
             to == arg[c].to
             name == ServingName(file)
  <2>1. /\ pc[c] = "moving" /\ pc'[c] = "refused"
        /\ file' = IF CanRename(file, to, from) THEN Renamed(file, to, from) ELSE file
        /\ drifted' = (drifted \/ (name = to /\ ~CanRename(file, to, from)))
        /\ UNCHANGED <<config, policy, up>>
    BY <1>0, <1>3, ContinuesIs DEF RenameBack
  <2>2. from \in Names /\ to \in Names
    BY <1>0, <2>1 DEF CallType, RenameRequests
  <2>3. /\ policy.consent = config.consent
        /\ up /\ ~drifted => InStep(policy, config, IF name = to THEN from ELSE name)
    BY <2>1 DEF One, ConsentInv, ForceInv, StepInv
  <2>4. CanRename(file, to, from) =>
          ServingName(file') = IF name = to THEN from ELSE name
    <3> HIDE DEF from, to
    <3> QED
      BY <1>0, <2>1, <2>2, RenamedIs
  <2>5. ~CanRename(file, to, from) => ServingName(file') = name
    BY <2>1
  <2> HIDE DEF from, to, name
  <2>6. up' /\ ~drifted' => InStep(policy', config', ServingName(file'))
    <3>1. CASE CanRename(file, to, from)
      BY <2>1, <2>3, <2>4, <3>1
    <3>2. CASE ~CanRename(file, to, from)
      BY <2>1, <2>3, <2>5, <3>2
    <3> QED
      BY <3>1, <3>2
  <2> QED
    BY <2>1, <2>3, <2>6, EndsOne DEF Resting
<1> QED
  BY <1>1, <1>2, <1>3

LEMMA ForgetOne ==
  ASSUME TypeInv, NEW c \in Callers, One(c),
         \/ AskForget(c) \/ ForgetInStore(c) \/ ForgetFigure(c) \/ AskUsage(c) \/ RecordUsage(c)
  PROVE  One(c)'
<1>0. /\ CallInv /\ CallType(c) /\ Kept(file) /\ file \in FileType
      /\ ServingName(file) \in MaybeName /\ None \notin Names
  BY ServingNameType, NoneAssumption DEF TypeInv, CallInv, FileInv, MaybeName, Kept
<1>1. CASE AskForget(c)
  <2>1. PICK account :
          /\ Called(c, [method |-> "accounts.forget", account |-> account], "forgetting",
                    [serving |-> ServingName(file), brings |-> {}])
          /\ UNCHANGED <<daemon, turn, past>>
    BY <1>1 DEF AskForget
  <2> DEFINE request == [method |-> "accounts.forget", account |-> account]
             held == [serving |-> ServingName(file), brings |-> {}]
  <2>2. UNCHANGED <<file, config, policy, up, drifted>>
    BY <2>1 DEF daemon, store, past
  <2>3. Called(c, request, "forgetting", held) /\ held.serving = ServingName(file)
    BY <2>1
  <2> HIDE DEF request, held
  <2>4. /\ pc[c] \in Resting /\ pc'[c] = "forgetting" /\ kept'[c] = held /\ up
        /\ before'[c] = InForce(file, policy, config)
    BY <1>0, <2>3, CalledIs
  <2>5. /\ policy.consent = config.consent
        /\ ~drifted => InStep(policy, config, ServingName(file))
    BY <2>4, AtRest
  <2>6. ConsentInv(c)' /\ ReadInv(c)'
    BY <2>2, <2>4, <2>5 DEF ConsentInv, ReadInv
  <2>7. ForceInv(c)'
    BY <2>2, <2>3, <2>4, <2>5 DEF ForceInv, StepInv, Settled, Resting
  <2>8. BeforeInv(c)'
    <3>1. /\ before'[c].policy = policy' /\ before'[c].config = config'
          /\ before'[c].serving = Spends(file', None)
      BY <2>2, <2>4, AskedBefore
    <3> QED
      BY <2>4, <3>1 DEF BeforeInv, Untouched
  <2> QED
    BY <2>6, <2>7, <2>8 DEF One
<1>2. CASE ForgetInStore(c)
  <2> DEFINE name == arg[c].account
             i == IF name = None THEN SelectedIndex(file) ELSE IndexOf(file, name)
             to == IF name # None /\ i = 0 THEN "refused" ELSE "forgot"
  <2>1. /\ Continues(c, "forgetting", to)
        /\ file' = IF i = 0 THEN file ELSE Removed(file, i)
        /\ UNCHANGED <<config, policy, up, drifted>>
    BY <1>2 DEF ForgetInStore
  <2>2. i # 0 => i \in 1..Len(file.accounts)
    BY <1>0, ServingIs, IndexOfIs
  <2>3. i # 0 => file.accounts[i].name = IF name = None THEN ServingName(file) ELSE name
    BY <1>0, ServingIs, IndexOfIs
  <2>4. /\ pc[c] = "forgetting" /\ pc'[c] = to
        /\ to = "forgot" => kept'[c] = kept[c] /\ arg'[c] = arg[c]
    <3> HIDE DEF to
    <3> QED
      BY <1>0, <2>1, ContinuesIs DEF Resting
  <2>5. /\ policy.consent = config.consent
        /\ up /\ ~drifted => /\ InStep(policy, config, ServingName(file))
                             /\ kept[c].serving = ServingName(file)
    BY <2>4 DEF One, ConsentInv, ForceInv, StepInv, Settled
  <2>6. CASE to = "refused"
    <3>1. i = 0
      BY <2>6
    <3> HIDE DEF i, to
    <3>2. file' = file
      BY <2>1, <3>1
    <3> QED
      BY <2>1, <2>4, <2>5, <2>6, <3>2, EndsOne DEF Resting
  <2>7. CASE to = "forgot"
    <3>1. pc'[c] = "forgot" /\ kept'[c] = kept[c] /\ arg'[c] = arg[c]
      BY <2>4, <2>7
    <3>2. ConsentInv(c)' /\ ReadInv(c)' /\ BeforeInv(c)'
      BY <2>1, <2>5, <3>1 DEF ConsentInv, ReadInv, BeforeInv
    <3>3. ASSUME up, ~drifted
          PROVE  \/ ServingName(file') = kept[c].serving
                 \/ Forgotten(c)' = kept[c].serving /\ kept[c].serving # None
      <4>1. CASE i = 0 \/ file.accounts[i].name # ServingName(file)
        <5>1. ServingName(file') = ServingName(file)
          <6> HIDE DEF i
          <6> QED
            BY <1>0, <2>1, <2>2, <4>1, RemovedIs
        <5> QED
          BY <2>5, <3>3, <5>1
      <4>2. CASE i # 0 /\ file.accounts[i].name = ServingName(file)
        <5>1. ServingName(file) # None
          <6>1. file.accounts[i].name \in Names
            BY <1>0, <2>2, <4>2, FileIs
          <6> QED
            BY <1>0, <4>2, <6>1
        <5>2. Forgotten(c)' = IF name # None THEN name ELSE kept[c].serving
          BY <3>1 DEF Forgotten
        <5> QED
          BY <2>3, <2>5, <3>3, <4>2, <5>1, <5>2
      <4> QED
        BY <4>1, <4>2
    <3>4. ForceInv(c)'
      <4> HIDE DEF i, to, name
      <4> QED
        BY <2>1, <2>5, <3>1, <3>3 DEF ForceInv, StepInv, Settled, Resting
    <3> QED
      BY <3>2, <3>4 DEF One
  <2> QED
    BY <2>6, <2>7
<1>3. CASE ForgetFigure(c)
  <2> DEFINE handed == Forgotten(c) = kept[c].serving /\ Forgotten(c) # None
             to == IF handed THEN "handed over" ELSE "answered"
  <2>1. /\ Continues(c, "forgot", to) /\ drifted' = (drifted \/ handed)
        /\ UNCHANGED <<file, config, policy, up>>
    BY <1>3 DEF ForgetFigure, HandOver, store
  <2>2. handed \in BOOLEAN
    OBVIOUS
  <2>3. pc[c] = "forgot" /\ pc'[c] = to
    <3> HIDE DEF to
    <3> QED
      BY <1>0, <2>1, ContinuesIs
  <2>4. policy.consent = config.consent
    BY <2>3 DEF One, ConsentInv
  <2>5. CASE handed
    <3>1. pc'[c] = "handed over" /\ drifted'
      BY <2>1, <2>3, <2>5
    <3> QED
      BY <2>1, <2>4, <3>1 DEF One, ConsentInv, ReadInv, BeforeInv, ForceInv
  <2>6. CASE ~handed
    <3>1. pc'[c] = "answered" /\ (~drifted' => ~drifted)
      BY <2>1, <2>3, <2>6
    <3>2. up /\ ~drifted => InStep(policy, config, ServingName(file))
      BY <2>3, <2>6 DEF One, ForceInv, StepInv
    <3> HIDE DEF handed, to
    <3>3. pc'[c] \in Resting
      BY <3>1 DEF Resting
    <3>4. policy'.consent = config'.consent
      BY <2>1, <2>4
    <3>5. up' /\ ~drifted' => InStep(policy', config', ServingName(file'))
      BY <2>1, <3>1, <3>2
    <3> QED
      BY <3>3, <3>4, <3>5, EndsOne
  <2> QED
    BY <2>5, <2>6
<1>4. CASE AskUsage(c)
  <2>1. /\ Called(c, [method |-> "usage.refresh"], "measuring", Spends(file, None))
        /\ UNCHANGED <<daemon, turn, past>>
    BY <1>4 DEF AskUsage
  <2> DEFINE request == [method |-> "usage.refresh"]
  <2>2. UNCHANGED <<file, config, policy, up, drifted>>
    BY <2>1 DEF daemon, store, past
  <2> HIDE DEF request
  <2>3. Called(c, request, "measuring", Spends(file, None))
    BY <2>1 DEF request
  <2>4. /\ pc[c] \in Resting /\ pc'[c] = "measuring" /\ up
        /\ before'[c] = InForce(file, policy, config)
    BY <1>0, <2>3, CalledIs
  <2>5. /\ policy.consent = config.consent
        /\ ~drifted => InStep(policy, config, ServingName(file))
    BY <2>4, AtRest
  <2>6. ConsentInv(c)' /\ ReadInv(c)' /\ ForceInv(c)'
    BY <2>2, <2>4, <2>5, SettledIs DEF ConsentInv, ReadInv, Settled
  <2>7. BeforeInv(c)'
    <3>1. /\ before'[c].policy = policy' /\ before'[c].config = config'
          /\ before'[c].serving = Spends(file', None)
      BY <2>2, <2>4, AskedBefore
    <3> QED
      BY <2>4, <3>1 DEF BeforeInv, Untouched
  <2> QED
    BY <2>6, <2>7 DEF One
<1>5. CASE RecordUsage(c)
  <2>1. PICK to \in Resting : Continues(c, "measuring", to)
    BY <1>5 DEF RecordUsage, Resting
  <2>2. pc[c] = "measuring" /\ pc'[c] \in Resting
    BY <1>0, <2>1, ContinuesIs
  <2>3. UNCHANGED <<file, config, policy, up, drifted>>
    BY <1>5 DEF RecordUsage, store
  <2>4. /\ policy.consent = config.consent
        /\ up /\ ~drifted => InStep(policy, config, ServingName(file))
    BY <2>2 DEF One, ConsentInv, ForceInv, StepInv, Settled
  <2> QED
    BY <2>2, <2>3, <2>4, EndsOne
<1> QED
  BY <1>1, <1>2, <1>3, <1>4, <1>5

LEMMA SelectOne ==
  ASSUME TypeInv, NEW c \in Callers, One(c),
         \/ AskSelect(c) \/ SelectInStore(c) \/ Authorize(c) \/ Land(c) \/ ResolveMapping(c)
         \/ SetMapping(c) \/ SetCeiling(c) \/ DropSessions(c) \/ UndoSelect(c)
  PROVE  One(c)'
<1>0. /\ CallInv /\ CallType(c) /\ Kept(file) /\ file \in FileType
      /\ ServingName(file) \in MaybeName /\ None \notin Names
      /\ IsConfiguration(config) /\ policy \in Policies
  BY ServingNameType, NoneAssumption DEF TypeInv, CallInv, FileInv, PolicyInv, MaybeName, Kept
<1>1. CASE AskSelect(c)
  <2>1. PICK account :
          /\ Called(c, [method |-> "accounts.select", account |-> account], "selecting",
                    [previous |-> ServingName(file), brings |-> {}])
          /\ UNCHANGED <<daemon, turn, past>>
    BY <1>1 DEF AskSelect
  <2> DEFINE request == [method |-> "accounts.select", account |-> account]
             held == [previous |-> ServingName(file), brings |-> {}]
  <2>2. UNCHANGED <<file, config, policy, up, drifted>>
    BY <2>1 DEF daemon, store, past
  <2>3. Called(c, request, "selecting", held) /\ held.previous = ServingName(file)
    BY <2>1
  <2> HIDE DEF request, held
  <2>4. /\ pc[c] \in Resting /\ pc'[c] = "selecting" /\ kept'[c] = held /\ up
        /\ before'[c] = InForce(file, policy, config)
    BY <1>0, <2>3, CalledIs
  <2>5. /\ policy.consent = config.consent
        /\ ~drifted => InStep(policy, config, ServingName(file))
    BY <2>4, AtRest
  <2>6. ConsentInv(c)' /\ ReadInv(c)'
    BY <2>2, <2>4, <2>5 DEF ConsentInv, ReadInv
  <2>7. ForceInv(c)'
    BY <2>2, <2>3, <2>4, <2>5 DEF ForceInv, StepInv, Settled, Resting
  <2>8. BeforeInv(c)'
    <3>1. /\ before'[c].policy = policy' /\ before'[c].config = config'
          /\ before'[c].serving = Spends(file', None)
      BY <2>2, <2>4, AskedBefore
    <3> QED
      BY <2>2, <2>3, <2>4, <3>1 DEF BeforeInv, Untouched
  <2> QED
    BY <2>6, <2>7, <2>8 DEF One
<1>2. CASE SelectInStore(c)
  <2> DEFINE name == arg[c].account
             stored == name \in Stored(file)
             to == IF stored THEN "switched" ELSE "refused"
             previous == kept[c].previous
  <2>1. /\ Continues(c, "selecting", to)
        /\ file' = IF stored THEN Selected(file, name) ELSE file
        /\ UNCHANGED <<config, policy, up, drifted>>
    BY <1>2 DEF SelectInStore
  <2>2. /\ pc[c] = "selecting" /\ pc'[c] = to
        /\ to = "switched" => /\ kept'[c] = kept[c] /\ arg'[c] = arg[c]
                              /\ before'[c] = before[c]
    <3> HIDE DEF to
    <3> QED
      BY <1>0, <2>1, ContinuesIs DEF Resting
  <2>3. /\ policy.consent = config.consent
        /\ up /\ ~drifted => /\ InStep(policy, config, ServingName(file))
                             /\ previous = ServingName(file)
        /\ Untouched(c) /\ before[c].serving \in {None, Spends(file, None)}
        /\ previous \in {None, ServingName(file)}
    BY <2>2 DEF One, ConsentInv, ForceInv, StepInv, Settled, BeforeInv
  <2>4. CASE ~stored
    BY <2>1, <2>2, <2>3, <2>4, EndsOne DEF Resting
  <2>5. CASE stored
    <3>1. /\ pc'[c] = "switched" /\ kept'[c] = kept[c] /\ before'[c] = before[c]
          /\ file' = Selected(file, name)
      BY <2>1, <2>2, <2>5
    <3>2. /\ Stored(file') = Stored(file)
          /\ \A n \in Names : Spends(file', n) = Spends(file, n)
      <4> HIDE DEF name
      <4> QED
        BY <1>0, <2>5, <3>1, SelectedIs DEF stored
    <3> HIDE DEF stored, to
    <3>3. ConsentInv(c)' /\ ReadInv(c)'
      BY <2>1, <2>3, <3>1 DEF ConsentInv, ReadInv
    <3>4. ForceInv(c)'
      BY <2>1, <2>3, <3>1 DEF ForceInv, StepInv, Settled, Resting
    <3>5. previous # None => /\ previous \in Stored(file)
                             /\ Spends(file', previous) = Spends(file, None)
      <4>1. previous # None => /\ previous = ServingName(file) /\ previous \in Names
                               /\ previous \in Stored(file)
        BY <1>0, <2>3, ServingIs
      <4>2. previous # None => Spends(file, previous) = Spends(file, None)
        BY <1>0, <4>1, SpendsIs
      <4> QED
        BY <3>2, <4>1, <4>2
    <3>6. BeforeInv(c)'
      BY <2>1, <2>3, <3>1, <3>2, <3>5 DEF BeforeInv, Untouched
    <3> QED
      BY <3>3, <3>4, <3>6 DEF One
  <2> QED
    BY <2>4, <2>5
<1>3. CASE Authorize(c)
  <2> DEFINE held == [kept[c] EXCEPT !.brings = Lists(file)]
  <2>1. PICK from \in {"switched", "undone", "handed over"},
             to \in {"fetching", "refetching", "landing"} :
          /\ <<from, to>> \in {<<"switched", "fetching">>, <<"undone", "refetching">>,
                               <<"handed over", "landing">>}
          /\ Takes(c, from, to, held)
    BY <1>3 DEF Authorize
  <2> HIDE DEF held
  <2>2. /\ pc[c] = from /\ pc'[c] = to /\ kept'[c] = held /\ arg'[c] = arg[c]
        /\ before'[c] = before[c]
    BY <1>0, <2>1, TakesIs DEF Resting
  <2>3. UNCHANGED <<file, config, policy, up, drifted>>
    BY <1>3 DEF Authorize, daemon, store, past
  <2>4. policy.consent = config.consent
    BY <2>1, <2>2 DEF One, ConsentInv
  <2>5. ConsentInv(c)' /\ ReadInv(c)'
    BY <2>1, <2>2, <2>3, <2>4 DEF ConsentInv, ReadInv
  <2>6. kept[c] \in Leaving => held.previous = kept[c].previous
    BY DEF held, Leaving
  <2>7. pc[c] = "switched" => kept[c] \in Leaving
    BY <1>0 DEF CallType
  <2>8. ForceInv(c)'
    <3>1. CASE to = "fetching"
      BY <2>1, <2>2, <2>3, <2>6, <2>7, <3>1 DEF One, ForceInv, StepInv, Settled, Resting
    <3>2. CASE to = "refetching"
      BY <2>1, <2>2, <2>3, <3>2 DEF One, ForceInv, StepInv, Settled, Resting
    <3>3. CASE to = "landing"
      BY <2>1, <2>2, <2>3, <3>3 DEF One, ForceInv, StepInv
    <3> QED
      BY <2>1, <3>1, <3>2, <3>3
  <2>9. BeforeInv(c)'
    <3>1. CASE to = "fetching"
      BY <2>1, <2>2, <2>3, <2>6, <2>7, <3>1 DEF One, BeforeInv, Untouched
    <3>2. CASE to # "fetching"
      BY <2>1, <2>2, <2>3, <3>2 DEF One, BeforeInv, Untouched
    <3> QED
      BY <3>1, <3>2
  <2> QED
    BY <2>5, <2>8, <2>9 DEF One
<1>4. CASE Land(c)
  <2>1. PICK from \in {"fetching", "refetching", "landing"},
             to \in {"resolving", "refused", "answered"} :
          /\ <<from, to>> \in {<<"fetching", "resolving">>, <<"refetching", "refused">>,
                               <<"landing", "answered">>}
          /\ Continues(c, from, to)
    BY <1>4 DEF Land
  <2>2. /\ pc[c] = from /\ pc'[c] = to
        /\ to = "resolving" => /\ kept'[c] = kept[c] /\ arg'[c] = arg[c]
                               /\ before'[c] = before[c]
    BY <1>0, <2>1, ContinuesIs DEF Resting
  <2>3. UNCHANGED <<file, config, policy, up, drifted>>
    BY <1>4 DEF Land, store, past
  <2>4. policy.consent = config.consent
    BY <2>1, <2>2 DEF One, ConsentInv
  <2>5. CASE to = "resolving"
    <3>1. pc[c] = "fetching" /\ pc'[c] = "resolving" /\ kept'[c] = kept[c]
          /\ before'[c] = before[c]
      BY <2>1, <2>2, <2>5
    <3>2. ConsentInv(c)' /\ ReadInv(c)'
      BY <2>3, <2>4, <3>1 DEF ConsentInv, ReadInv
    <3>3. ForceInv(c)'
      BY <2>3, <3>1 DEF One, ForceInv, StepInv, Settled, Resting
    <3>4. BeforeInv(c)'
      BY <2>3, <3>1 DEF One, BeforeInv, Untouched
    <3> QED
      BY <3>2, <3>3, <3>4 DEF One
  <2>6. CASE to # "resolving"
    <3>1. pc'[c] \in Resting /\ pc[c] \in {"refetching", "landing"}
      BY <2>1, <2>2, <2>6 DEF Resting
    <3>2. up /\ ~drifted => InStep(policy, config, ServingName(file))
      BY <3>1 DEF One, ForceInv, StepInv, Settled
    <3> QED
      BY <2>3, <2>4, <3>1, <3>2, EndsOne
  <2> QED
    BY <2>5, <2>6
<1>5. CASE ResolveMapping(c)
  <2> DEFINE name == arg[c].account
             to == IF Accepts(file, config, catalog, name) THEN "mapping" ELSE "undoing"
             held == [tiers |-> Resolved(config, name), ceiling |-> EffortFor(config, name),
                      previous |-> kept[c].previous, brings |-> {}]
  <2>1. /\ Takes(c, "resolving", to, held) /\ UNCHANGED <<file, config, policy, up, drifted>>
        /\ to \in {"mapping", "undoing"}
        /\ held.tiers = Resolved(config, name) /\ held.ceiling = EffortFor(config, name)
        /\ held.previous = kept[c].previous
    BY <1>5 DEF ResolveMapping, daemon, store, past
  <2> HIDE DEF to, held
  <2>2. /\ pc[c] = "resolving" /\ pc'[c] = to /\ kept'[c] = held /\ arg'[c] = arg[c]
        /\ before'[c] = before[c]
    BY <1>0, <2>1, TakesIs DEF Resting
  <2>3. policy.consent = config.consent
    BY <2>2 DEF One, ConsentInv
  <2>4. ConsentInv(c)' /\ ReadInv(c)'
    BY <2>1, <2>2, <2>3 DEF ConsentInv, ReadInv
  <2>5. ForceInv(c)'
    BY <2>1, <2>2 DEF One, ForceInv, StepInv, Settled, Resting
  <2>6. BeforeInv(c)'
    BY <2>1, <2>2 DEF One, BeforeInv, Untouched
  <2> QED
    BY <2>4, <2>5, <2>6 DEF One
<1>6. CASE SetMapping(c)
  <2>1. /\ pc[c] = "mapping" /\ pc'[c] = "capping" /\ kept'[c] = kept[c] /\ arg'[c] = arg[c]
        /\ policy' = [policy EXCEPT !.tiers = kept[c].tiers]
        /\ UNCHANGED <<file, config, up, drifted>>
    BY <1>0, <1>6, ContinuesIs DEF SetMapping, Resting, store, past
  <2>2. policy'.tiers = kept[c].tiers /\ policy'.consent = policy.consent
    BY <1>0, <2>1 DEF Policies
  <2>3. ConsentInv(c)' /\ ReadInv(c)'
    BY <2>1, <2>2 DEF One, ConsentInv, ReadInv
  <2>4. ForceInv(c)' /\ BeforeInv(c)'
    BY <2>1 DEF ForceInv, StepInv, Settled, Resting, BeforeInv
  <2> QED
    BY <2>3, <2>4 DEF One
<1>7. CASE SetCeiling(c)
  <2>1. /\ pc[c] = "capping" /\ pc'[c] = "dropping"
        /\ policy' = [policy EXCEPT !.ceiling = kept[c].ceiling]
        /\ drifted' = (arg[c].account # ServingName(file))
        /\ UNCHANGED <<file, config, up>>
    BY <1>0, <1>7, ContinuesIs DEF SetCeiling, store
  <2>2. /\ policy'.tiers = policy.tiers /\ policy'.consent = policy.consent
        /\ policy'.ceiling = kept[c].ceiling
    BY <1>0, <2>1 DEF Policies
  <2>3. /\ policy'.tiers = Resolved(config, arg[c].account)
        /\ policy'.ceiling = EffortFor(config, arg[c].account)
    BY <2>1, <2>2 DEF One, ReadInv
  <2>4. InStep(policy', config, arg[c].account)
    BY <1>0, <2>3, ResolvedIs DEF InStep
  <2>5. ForceInv(c)'
    BY <2>1, <2>4, SettledIs DEF Settled
  <2>6. ConsentInv(c)' /\ ReadInv(c)' /\ BeforeInv(c)'
    BY <2>1, <2>2 DEF One, ConsentInv, ReadInv, BeforeInv
  <2> QED
    BY <2>5, <2>6 DEF One
<1>8. CASE DropSessions(c)
  <2>1. /\ pc[c] = "dropping" /\ pc'[c] = "answered"
        /\ UNCHANGED <<file, config, policy, up, drifted>>
    BY <1>0, <1>8, ContinuesIs DEF DropSessions, store
  <2>2. /\ policy.consent = config.consent
        /\ up /\ ~drifted => InStep(policy, config, ServingName(file))
    BY <2>1 DEF One, ConsentInv, ForceInv, StepInv, Settled
  <2> QED
    BY <2>1, <2>2, EndsOne DEF Resting
<1>9. CASE UndoSelect(c)
  <2> DEFINE previous == kept[c].previous
  <2>1. \/ /\ Continues(c, "undoing", "undone") /\ previous \in Stored(file)
           /\ file' = Selected(file, previous) /\ UNCHANGED <<config, policy, up, drifted>>
        \/ /\ Continues(c, "undoing", "stranded") /\ drifted' = TRUE
           /\ UNCHANGED <<file, config, policy, up>>
    BY <1>9 DEF UndoSelect, daemon, store
  <2>2. pc[c] = "undoing"
    BY <1>0, <2>1, ContinuesIs
  <2>3. /\ policy.consent = config.consent
        /\ up /\ ~drifted => InStep(policy, config, previous)
        /\ Untouched(c)
        /\ previous # None => before[c].serving \in {None, Spends(file, previous)}
    BY <2>2 DEF One, ConsentInv, ForceInv, StepInv, BeforeInv
  <2>4. CASE Continues(c, "undoing", "undone") /\ previous \in Stored(file)
             /\ file' = Selected(file, previous) /\ UNCHANGED <<config, policy, up, drifted>>
    <3>1. pc'[c] = "undone" /\ before'[c] = before[c]
      BY <1>0, <2>4, ContinuesIs DEF Resting
    <3>2. ServingName(file') = previous /\ Spends(file', None) = Spends(file, previous)
          /\ previous # None
      <4>1. previous \in Names
        BY <1>0, <2>4, StoredNames
      <4> HIDE DEF previous
      <4> QED
        BY <1>0, <2>4, <4>1, SelectedIs
    <3>3. ConsentInv(c)' /\ ReadInv(c)'
      BY <2>3, <2>4, <3>1 DEF ConsentInv, ReadInv
    <3>4. ForceInv(c)'
      BY <2>3, <2>4, <3>1, <3>2, SettledIs DEF Settled
    <3>5. BeforeInv(c)'
      BY <2>3, <2>4, <3>1, <3>2 DEF BeforeInv, Untouched
    <3> QED
      BY <3>3, <3>4, <3>5 DEF One
  <2>5. CASE Continues(c, "undoing", "stranded") /\ drifted' = TRUE
             /\ UNCHANGED <<file, config, policy, up>>
    <3>1. pc'[c] = "stranded"
      BY <1>0, <2>5, ContinuesIs
    <3> QED
      BY <2>3, <2>5, <3>1, EndsOne DEF Resting
  <2> QED
    BY <2>1, <2>4, <2>5
<1> QED
  BY <1>1, <1>2, <1>3, <1>4, <1>5, <1>6, <1>7, <1>8, <1>9

(* A step of someone else, and a login.                                    *)
LEMMA StillOne ==
  ASSUME NEW c, One(c), UNCHANGED <<pc, arg, kept, before, config, policy, up>>,
         Kept(file), Stored(file) \subseteq Stored(file'),
         \A n \in Stored(file) : Spends(file', n) = Spends(file, n),
         \/ /\ ServingName(file') = ServingName(file) /\ Spends(file', None) = Spends(file, None)
            /\ ~drifted' => ~drifted
         \/ ServingName(file) = None /\ Spends(file, None) = None /\ drifted'
  PROVE  One(c)'
<1>1. ConsentInv(c)' /\ ReadInv(c)'
  BY DEF One, ConsentInv, ReadInv
<1>2. ForceInv(c)'
  <2>1. SUFFICES ASSUME up, ~drifted' PROVE StepInv(c)'
    BY DEF ForceInv
  <2>2. ~drifted /\ ServingName(file') = ServingName(file)
    BY <2>1
  <2>3. StepInv(c)
    BY <2>1, <2>2 DEF One, ForceInv
  <2> DEFINE name == ServingName(file)
  <2>4. /\ name' = name /\ Forgotten(c)' = Forgotten(c)
        /\ pc'[c] = pc[c] /\ arg'[c] = arg[c] /\ kept'[c] = kept[c]
    BY <2>2 DEF Forgotten
  <2>5. EditedStands(c, name)' = EditedStands(c, name)
    BY <2>4 DEF EditedStands
  <2>6. WrittenStands(c, name)' = WrittenStands(c, name)
    BY <2>4 DEF WrittenStands
  <2> HIDE DEF name
  <2> QED
    BY <2>3, <2>4, <2>5, <2>6 DEF StepInv, name
<1>3. BeforeInv(c)'
  BY DEF One, BeforeInv, Untouched
<1> QED
  BY <1>1, <1>2, <1>3 DEF One

LEMMA LoginOne ==
  ASSUME TypeInv, NEW c, One(c), Login
  PROVE  One(c)'
<1>1. /\ UNCHANGED <<pc, arg, kept, before, config, policy, up>>
      /\ drifted' = (drifted \/ SelectedIndex(file) = 0)
  BY DEF Login
<1>2. Kept(file) /\ file \in FileType
  BY DEF TypeInv, FileInv, Kept
<1>3. PICK name \in Names, owner \in Owners :
        /\ IndexOf(file, name) = 0
        /\ file' = SelectIfNoneServes(Appended(file, name, Codex, Grant(owner, owner, owner)), name)
  BY <1>2, LoginIs
<1>4. /\ Stored(file') = Stored(file) \cup {name}
      /\ \A n \in Names \ {name} : Spends(file', n) = Spends(file, n)
      /\ SelectedIndex(file) # 0 => /\ ServingName(file') = ServingName(file)
                                    /\ Spends(file', None) = Spends(file, None)
  BY <1>2, <1>3, AppendedIs
<1>5. name \notin Stored(file) /\ Stored(file) \subseteq Names
  BY <1>2, <1>3, StoredIs, StoredNames
<1>6. SelectedIndex(file) = 0 => ServingName(file) = None /\ Spends(file, None) = None
  BY <1>2, ServingIs
<1>7. \A n \in Stored(file) : Spends(file', n) = Spends(file, n)
  BY <1>4, <1>5
<1> QED
  BY <1>1, <1>2, <1>4, <1>6, <1>7, StillOne

LEMMA RestartOne ==
  ASSUME TypeInv, NEW c \in Callers, One(c), Restart
  PROVE  One(c)'
<1>1. PICK list \in Lists(file) \cup {Fallback} : policy' = StartPolicy(file, config, list)
  BY DEF Restart
<1>2. UNCHANGED <<file, config>> /\ pc'[c] = "idle"
  BY DEF Restart, store
<1>3. list \in CatalogType /\ IsConfiguration(config)
  BY <1>1, ListsType DEF TypeInv, FileInv, PolicyInv, Kept
<1>4. InStep(policy', config, ServingName(file)) /\ policy'.consent = config.consent
  BY <1>1, <1>3, StartIs
<1> QED
  BY <1>2, <1>4, EndsOne DEF Resting

LEMMA OneInit ==
  ASSUME Init, NEW c \in Callers
  PROVE  One(c)
<1>1. pc[c] = "idle"
  BY DEF Init
<1>2. catalog \in CatalogType /\ IsConfiguration(config) /\ policy = StartPolicy(file, config, catalog)
  BY TypeInit DEF Init, TypeInv, ListInv, PolicyInv
<1>3. InStep(policy, config, ServingName(file)) /\ policy.consent = config.consent
  BY <1>2, StartIs
<1> QED
  BY <1>1, <1>3 DEF One, ConsentInv, ReadInv, ForceInv, StepInv, Settled, Resting, BeforeInv

LEMMA OneStep ==
  ASSUME TypeInv, NEW c, Callers = {c}, One(c), [Next]_vars
  PROVE  One(c)'
<1>0. c \in Callers /\ Kept(file)
  BY DEF TypeInv, FileInv
<1>1. CASE Setting(c)
  BY <1>0, <1>1, TiersOne, EffortOne, ConsentOne DEF Setting
<1>2. CASE Switching(c)
  BY <1>0, <1>2, RenameOne, SelectOne, ForgetOne DEF Switching
<1>3. ASSUME NEW t \in Clients, Serving(t) PROVE One(c)'
  <2>1. UNCHANGED <<file, config, policy, up, drifted>> /\ UNCHANGED <<pc, arg, kept, before>>
    BY <1>3, ServingSteps DEF caller
  <2> QED
    BY <1>0, <2>1, StillOne
<1>4. CASE Login
  BY <1>4, LoginOne
<1>5. CASE Restart
  BY <1>0, <1>5, RestartOne
<1>6. CASE UNCHANGED vars
  <2>1. UNCHANGED <<file, config, policy, up, drifted>> /\ UNCHANGED <<pc, arg, kept, before>>
    BY <1>6 DEF vars, daemon, store, caller, past
  <2> QED
    BY <1>0, <2>1, StillOne
<1> QED
  BY <1>1, <1>2, <1>3, <1>4, <1>5, <1>6 DEF Next

(* Where front-ends take turns at the control socket, what is in force     *)
(* between two calls is what the next start would put in force: consent,   *)
(* effort and mapping, whatever set them, selected, renamed, forgot, was   *)
(* refused or undone, and whenever a login landed or the daemon restarted. *)
THEOREM PersistedChangesAreInForce ==
  ASSUME NEW CONSTANT only, Callers = {only}
  PROVE  Spec => []PersistedIsInForce
<1> DEFINE Inv == TypeInv /\ One(only)
<1>1. Init => Inv
  BY TypeInit, OneInit
<1>2. Inv /\ [Next]_vars => Inv'
  BY TypeStep, OneStep
<1>3. Inv => PersistedIsInForce
  <2> SUFFICES ASSUME Inv, up, ~drifted, pc[only] \in Resting
               PROVE  /\ policy.consent = config.consent
                      /\ InStep(policy, config, ServingName(file))
    BY DEF PersistedIsInForce, InStep, TiersInStep
  <2> QED
    BY AtRest
<1> QED
  BY <1>1, <1>2, <1>3, PTL DEF Spec

-----------------------------------------------------------------------------
(* Refusals.                                                               *)

LEMMA Refuses ==
  ASSUME TypeInv, NEW c \in Callers, Setting(c) \/ Switching(c),
         pc[c] \notin Resting, pc'[c] = "refused"
  PROVE  \/ CheckTiers(c) \/ RenameBack(c) \/ SelectInStore(c) \/ ForgetInStore(c)
         \/ Land(c) \/ RecordUsage(c)
<1>0. CallInv
  BY DEF TypeInv
<1>1. ~(AskTiers(c) \/ AskEffort(c) \/ AskConsent(c) \/ AskUsage(c))
  BY DEF AskTiers, AskEffort, AskConsent, AskUsage, Called
<1>2. ~(RenameInStore(c) \/ AskSelect(c) \/ AskForget(c))
  BY DEF RenameInStore, AskSelect, AskForget, Called
<1>3. ASSUME NEW to, NEW from, NEW what, Takes(c, from, to, what) PROVE to = "refused"
  BY <1>0, <1>3, TakesIs
<1>4. ~(EditTiers(c) \/ EditEffort(c) \/ EditConsent(c))
  BY <1>3 DEF EditTiers, EditEffort, EditConsent
<1>5. ~(ApplyTiers(c) \/ ApplyEffort(c) \/ ApplyConsent(c) \/ WriteConfig(c) \/ MoveSection(c))
  BY <1>3 DEF ApplyTiers, ApplyEffort, ApplyConsent, WriteConfig, MoveSection, Continues
<1>6. ~(ResolveMapping(c) \/ SetMapping(c) \/ SetCeiling(c) \/ DropSessions(c) \/ UndoSelect(c))
  BY <1>3 DEF ResolveMapping, SetMapping, SetCeiling, DropSessions, UndoSelect, Continues
<1>7. ~(Authorize(c) \/ ForgetFigure(c))
  BY <1>3 DEF Authorize, ForgetFigure, HandOver, Continues
<1> QED
  BY <1>1, <1>2, <1>4, <1>5, <1>6, <1>7 DEF Setting, Switching

LEMMA RefusedStep ==
  ASSUME TypeInv, NEW c \in Callers, One(c), Setting(c) \/ Switching(c),
         pc[c] \notin Resting, pc'[c] = "refused"
  PROVE  /\ before[c].serving \in {None, Spends(file', None)}
         /\ before[c].policy = policy' /\ before[c].config = config'
<1>0. CallInv /\ CallType(c) /\ Kept(file) /\ BeforeInv(c)
  BY DEF TypeInv, CallInv, FileInv, One
<1>1. ASSUME pc[c] \in {"checking tiers", "selecting", "forgetting", "moving", "refetching",
                        "measuring"},
             UNCHANGED <<policy, config>>, Spends(file', None) = Spends(file, None)
      PROVE  /\ before[c].serving \in {None, Spends(file', None)}
             /\ before[c].policy = policy' /\ before[c].config = config'
  BY <1>0, <1>1 DEF BeforeInv, Untouched
<1>2. CASE CheckTiers(c)
  BY <1>1, <1>2 DEF CheckTiers, Takes, daemon, store
<1>3. CASE RenameBack(c)
  <2>1. /\ pc[c] = "moving" /\ UNCHANGED <<policy, config>>
        /\ file' = IF CanRename(file, arg[c].to, arg[c].from)
                   THEN Renamed(file, arg[c].to, arg[c].from) ELSE file
    BY <1>3 DEF RenameBack, Continues, Takes
  <2>2. arg[c].from \in Names /\ arg[c].to \in Names
    BY <1>0, <2>1 DEF CallType, RenameRequests
  <2>3. Spends(file', None) = Spends(file, None)
    BY <1>0, <2>1, <2>2, RenamedIs
  <2> QED
    BY <1>1, <2>1, <2>3
<1>4. CASE SelectInStore(c)
  <2>1. /\ pc[c] = "selecting" /\ UNCHANGED <<policy, config>>
        /\ pc'[c] = IF arg[c].account \in Stored(file) THEN "switched" ELSE "refused"
        /\ file' = IF arg[c].account \in Stored(file) THEN Selected(file, arg[c].account) ELSE file
    BY <1>0, <1>4, ContinuesIs DEF SelectInStore
  <2>2. file' = file
    BY <2>1
  <2> QED
    BY <1>1, <2>1, <2>2
<1>5. CASE ForgetInStore(c)
  <2> DEFINE name == arg[c].account
             i    == IF name = None THEN SelectedIndex(file) ELSE IndexOf(file, name)
  <2>1. /\ pc[c] = "forgetting" /\ UNCHANGED <<policy, config>>
        /\ pc'[c] = IF name # None /\ i = 0 THEN "refused" ELSE "forgot"
        /\ file' = IF i = 0 THEN file ELSE Removed(file, i)
    BY <1>0, <1>5, ContinuesIs DEF ForgetInStore
  <2> HIDE DEF i
  <2>2. file' = file
    BY <2>1
  <2> QED
    BY <1>1, <2>1, <2>2
<1>6. CASE Land(c)
  <2>1. pc[c] = "refetching"
    BY <1>0, <1>6, ContinuesIs DEF Land
  <2> QED
    BY <1>1, <1>6, <2>1 DEF Land, store
<1>7. CASE RecordUsage(c)
  <2>1. pc[c] = "measuring"
    BY <1>0, <1>7, ContinuesIs DEF RecordUsage
  <2> QED
    BY <1>1, <1>7, <2>1 DEF RecordUsage, store
<1> QED
  BY <1>2, <1>3, <1>4, <1>5, <1>6, <1>7, Refuses

(* A call that is refused leaves the daemon where it was when the call     *)
(* came: the account that serves, the mapping, the ceiling, consent and    *)
(* the configuration file -- through a select undone after the list was    *)
(* fetched, and a rename put back -- whatever turns and logins do          *)
(* meanwhile, where no other front-end calls.                              *)
THEOREM RefusalsMoveNothing ==
  ASSUME NEW CONSTANT only, Callers = {only}
  PROVE  Spec => RefusedMovesNothing
<1> DEFINE Inv == TypeInv /\ One(only)
           Kind == \A c \in Callers :
                     (pc[c] \notin Resting /\ pc'[c] = "refused") =>
                       /\ before[c].serving \in {None, Spends(file', None)}
                       /\ before[c].policy = policy' /\ before[c].config = config'
<1>1. Init => Inv
  BY TypeInit, OneInit
<1>2. Inv /\ [Next]_vars => Inv'
  BY TypeStep, OneStep
<1>3. Inv /\ [Next]_vars => [Kind]_vars
  <2> SUFFICES ASSUME Inv, Next, pc[only] \notin Resting, pc'[only] = "refused"
               PROVE  /\ before[only].serving \in {None, Spends(file', None)}
                      /\ before[only].policy = policy' /\ before[only].config = config'
    OBVIOUS
  <2>1. CASE Setting(only) \/ Switching(only)
    BY <2>1, RefusedStep
  <2>2. ASSUME UNCHANGED pc PROVE FALSE
    BY <2>2 DEF Resting
  <2>3. ASSUME NEW t \in Clients, Serving(t) PROVE UNCHANGED pc
    BY <2>3, ServingSteps DEF caller
  <2>4. ASSUME Login PROVE UNCHANGED pc
    BY <2>4 DEF Login
  <2>5. ASSUME Restart PROVE FALSE
    BY <2>5 DEF Restart
  <2> QED
    BY <2>1, <2>2, <2>3, <2>4, <2>5 DEF Next
<1> QED
  BY <1>1, <1>2, <1>3, PTL DEF Spec, RefusedMovesNothing
=============================================================================
