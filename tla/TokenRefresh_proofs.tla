------------------------ MODULE TokenRefresh_proofs ------------------------
(***************************************************************************)
(* Proofs about TokenRefresh, for every number of requests, accounts, pins *)
(* and names, whatever the operator does meanwhile.                        *)
(***************************************************************************)
EXTENDS TokenRefresh, Items_proofs, FiniteSetTheorems

-----------------------------------------------------------------------------
(* The credential file as a value.                                         *)

GrantType == [kind : {"grant"}, account : Owners \cup {None}, access : Token, refresh : Token]
Credentials == GrantType \cup {Key(Secret)}
EntryType == [name : Names, provider : Providers, credential : Credentials]
FileType == [selected : Names \cup {None}, accounts : Seq(EntryType)]

(* The credentials a file holds.                                           *)
Held(f) == {f.accounts[i].credential : i \in 1..Len(f.accounts)}

(* No account has two entries.                                             *)
One(f) ==
  \A i, j \in 1..Len(f.accounts) :
    /\ f.accounts[i].credential.account # None
    /\ f.accounts[i].credential.account = f.accounts[j].credential.account
    => i = j

(* A file is a list of entries.                                            *)
LEMMA FileIs ==
  ASSUME NEW f \in FileType
  PROVE  /\ f.selected \in Names \cup {None} /\ f.accounts \in Seq(EntryType)
         /\ Len(f.accounts) \in Nat /\ DOMAIN f.accounts = 1..Len(f.accounts)
         /\ \A i \in 1..Len(f.accounts) : /\ f.accounts[i] \in EntryType
                                          /\ f.accounts[i].name \in Names
                                          /\ f.accounts[i].provider \in Providers
                                          /\ f.accounts[i].credential \in Credentials
<1>1. f.selected \in Names \cup {None} /\ f.accounts \in Seq(EntryType)
  BY DEF FileType
<1>2. /\ Len(f.accounts) \in Nat /\ DOMAIN f.accounts = 1..Len(f.accounts)
      /\ \A i \in 1..Len(f.accounts) : f.accounts[i] \in EntryType
  BY <1>1, LenProperties
<1>3. \A e \in EntryType :
        e.name \in Names /\ e.provider \in Providers /\ e.credential \in Credentials
  BY DEF EntryType
<1> QED
  BY <1>1, <1>2, <1>3

(* The entry of a name is the first that has it.                           *)
LEMMA IndexOfIs ==
  ASSUME NEW f \in FileType, NEW name
  PROVE  \/ /\ IndexOf(f, name) = 0
            /\ \A i \in 1..Len(f.accounts) : f.accounts[i].name # name
         \/ /\ IndexOf(f, name) \in 1..Len(f.accounts)
            /\ f.accounts[IndexOf(f, name)].name = name
<1> DEFINE I == {i \in 1..Len(f.accounts) : f.accounts[i].name = name}
<1>1. IndexOf(f, name) = IF I # {} THEN CHOOSE x \in I : \A y \in I : x <= y ELSE 0
  BY Zenon DEF IndexOf, SelectInSeq, Min
<1>2. I \subseteq Nat
  OBVIOUS
<1>3. I # {} => IndexOf(f, name) \in I
  <2> HIDE DEF I
  <2>1. I # {} => \E x \in I : \A y \in I : x <= y
    BY <1>2, LeastNumber
  <2> QED
    BY <1>1, <2>1
<1>4. CASE I = {}
  <2>1. IndexOf(f, name) = 0
    BY <1>1, <1>4
  <2> QED
    BY <1>4, <2>1
<1>5. CASE I # {}
  <2> DEFINE found == IndexOf(f, name)
  <2>1. found \in I
    BY <1>3, <1>5
  <2> HIDE DEF found
  <2>2. found \in 1..Len(f.accounts) /\ f.accounts[found].name = name
    BY <2>1
  <2> QED
    BY <2>2 DEF found
<1> QED
  BY <1>4, <1>5

(* The entry of an account is the first whose credential carries its id.   *)
LEMMA IndexByAccountIs ==
  ASSUME NEW f \in FileType, NEW account
  PROVE  \/ /\ IndexByAccount(f, account) = 0
            /\ account # None =>
                 \A i \in 1..Len(f.accounts) : f.accounts[i].credential.account # account
         \/ /\ IndexByAccount(f, account) \in 1..Len(f.accounts) /\ account # None
            /\ f.accounts[IndexByAccount(f, account)].credential.account = account
<1> DEFINE I == {i \in 1..Len(f.accounts) : f.accounts[i].credential.account = account}
<1>1. IndexByAccount(f, account) =
        IF account = None THEN 0
        ELSE IF I # {} THEN CHOOSE x \in I : \A y \in I : x <= y ELSE 0
  BY Zenon DEF IndexByAccount, SelectInSeq, Min
<1>2. I \subseteq Nat
  OBVIOUS
<1>3. I # {} /\ account # None => IndexByAccount(f, account) \in I
  <2> HIDE DEF I
  <2>1. I # {} => \E x \in I : \A y \in I : x <= y
    BY <1>2, LeastNumber
  <2> QED
    BY <1>1, <2>1
<1>4. CASE account = None
  <2>1. IndexByAccount(f, account) = 0
    BY <1>1, <1>4
  <2> QED
    BY <1>4, <2>1
<1>5. CASE account # None /\ I = {}
  <2>1. IndexByAccount(f, account) = 0
    BY <1>1, <1>5
  <2> QED
    BY <1>5, <2>1
<1>6. CASE account # None /\ I # {}
  <2> DEFINE found == IndexByAccount(f, account)
  <2>1. found \in I
    BY <1>3, <1>6
  <2> HIDE DEF found
  <2>2. /\ found \in 1..Len(f.accounts)
        /\ f.accounts[found].credential.account = account
    BY <2>1
  <2> QED
    BY <1>6, <2>2 DEF found
<1> QED
  BY <1>4, <1>5, <1>6

(* The entry that serves is one of the file's, if it has any.              *)
LEMMA SelectedIndexIs ==
  ASSUME NEW f \in FileType
  PROVE  SelectedIndex(f) \in 0..Len(f.accounts)
<1>1. f.accounts # << >> => 1 \in 1..Len(f.accounts)
  BY FileIs, EmptySeq
<1>2. Len(f.accounts) \in Nat
  BY FileIs
<1> QED
  BY <1>1, <1>2, IndexOfIs DEF SelectedIndex, Either

(* There is always a name that nothing has: fewer entries are filed than   *)
(* there are names to assign.                                              *)
LEMMA NameForIs ==
  ASSUME NEW f \in FileType, NEW grant \in GrantType, Len(f.accounts) < Len(Assigned)
  PROVE  NameFor(f, grant) \in Names
<1> DEFINE m == Len(Assigned)
           n == Len(f.accounts)
           I == {i \in 1..m : IndexOf(f, Assigned[i]) = 0}
           free == SelectInSeq(Assigned, LAMBDA name : IndexOf(f, name) = 0)
           at == [i \in 1..m |-> IndexOf(f, Assigned[i])]
<1>1. m \in Nat /\ n \in Nat /\ n < m /\ DOMAIN Assigned = 1..m
  BY AssignedAssumption, FileIs, LenProperties
<1>2. free = IF I # {} THEN CHOOSE x \in I : \A y \in I : x <= y ELSE 0
  BY Zenon DEF SelectInSeq, Min
<1>3. I # {}
  <2>1. SUFFICES ASSUME I = {} PROVE FALSE
    OBVIOUS
  <2>2. \A i \in 1..m : at[i] \in 1..n /\ f.accounts[at[i]].name = Assigned[i]
    BY <2>1, IndexOfIs
  <2>3. at \in [1..m -> 1..n]
    BY <2>2
  <2> HIDE DEF at, m, n
  <2>4. /\ IsFiniteSet(1..m) /\ Cardinality(1..m) = m
        /\ IsFiniteSet(1..n) /\ Cardinality(1..n) = n
    <3>1. \A k \in Nat : IsFiniteSet(1..k) /\ Cardinality(1..k) = k
      <4> SUFFICES ASSUME NEW k \in Nat PROVE IsFiniteSet(1..k) /\ Cardinality(1..k) = k
        OBVIOUS
      <4>1. /\ IsFiniteSet(1..k)
            /\ Cardinality(1..k) = IF 1 > k THEN 0 ELSE k - 1 + 1
        <5>1. 1 \in Int /\ k \in Int
          OBVIOUS
        <5> QED
          BY <5>1, FS_Interval, Zenon
      <4> QED
        BY <4>1
    <3> QED
      BY <1>1, <3>1
  <2>5. \E i, j \in 1..m : i # j /\ at[i] = at[j]
    BY <1>1, <2>3, <2>4, FS_PigeonHole
  <2> QED
    BY <1>1, <2>2, <2>5, AssignedAssumption
<1>4. free \in I
  <2>1. I \subseteq Nat
    OBVIOUS
  <2> HIDE DEF I, free
  <2>2. \E x \in I : \A y \in I : x <= y
    BY <1>3, <2>1, LeastNumber
  <2> QED
    BY <1>2, <1>3, <2>2
<1>5. Assigned[free] \in ToSet(Assigned)
  BY <1>1, <1>4 DEF ToSet
<1>6. NameFor(f, grant) = IF grant.account # None THEN grant.account ELSE Assigned[free]
  BY Zenon DEF NameFor
<1>7. grant.account \in Owners \cup {None}
  BY DEF GrantType
<1> QED
  BY <1>5, <1>6, <1>7 DEF Names

-----------------------------------------------------------------------------
(* What the store's verbs make of the file.                                *)

(* A verb adds one entry at most and one credential at most, and gives no  *)
(* account a second entry.                                                 *)
Changed(f, g, credential) ==
  /\ g \in FileType /\ Len(g.accounts) <= Len(f.accounts) + 1
  /\ One(f) => One(g)
  /\ Held(g) \subseteq Held(f) \cup {credential}

(* A credential's account has no entry, or this one.                       *)
HomeIs(f, i, credential) ==
  credential.account # None =>
    \A j \in 1..Len(f.accounts) :
      j # i => f.accounts[j].credential.account # credential.account \/ ~One(f)

(* Writing a credential into an entry changes nothing else.                *)
LEMMA HoldingIs ==
  ASSUME NEW f \in FileType, NEW i \in 1..Len(f.accounts), NEW credential \in Credentials
  PROVE  LET g == Holding(f, i, credential)
         IN  /\ g \in FileType /\ Len(g.accounts) = Len(f.accounts)
             /\ g.accounts[i].credential = credential
             /\ \A j \in 1..Len(f.accounts) : j # i => g.accounts[j] = f.accounts[j]
<1> DEFINE entry == [f.accounts[i] EXCEPT !.credential = credential]
           entries == [f.accounts EXCEPT ![i] = entry]
           g == Holding(f, i, credential)
<1>1. f.accounts[i] \in EntryType /\ f.accounts \in Seq(EntryType)
  BY FileIs
<1>2. entry \in EntryType /\ entry.credential = credential
  BY <1>1 DEF EntryType
<1> HIDE DEF entry
<1>3. /\ entries \in Seq(EntryType) /\ Len(entries) = Len(f.accounts)
      /\ entries[i] = entry
      /\ \A j \in 1..Len(f.accounts) : j # i => entries[j] = f.accounts[j]
  BY <1>1, <1>2, ExceptSeq
<1>4. g = [f EXCEPT !.accounts = entries]
  BY DEF Holding, entry
<1> HIDE DEF entries, g
<1>5. g \in FileType /\ g.accounts = entries
  BY <1>3, <1>4 DEF FileType
<1> QED
  BY <1>2, <1>3, <1>5 DEF g

(* Written where its account is, or where no entry is its account's, a     *)
(* credential gives no account a second entry.                             *)
LEMMA HoldingKeeps ==
  ASSUME NEW f \in FileType, NEW i \in 1..Len(f.accounts), NEW credential \in Credentials,
         HomeIs(f, i, credential)
  PROVE  LET g == Holding(f, i, credential)
         IN  Changed(f, g, credential) /\ credential \in Held(g)
<1> DEFINE g == Holding(f, i, credential)
<1>1. /\ g \in FileType /\ Len(g.accounts) = Len(f.accounts)
      /\ g.accounts[i].credential = credential
      /\ \A j \in 1..Len(f.accounts) : j # i => g.accounts[j] = f.accounts[j]
  BY HoldingIs
<1> HIDE DEF g
<1>2. Len(f.accounts) \in Nat
  BY FileIs
<1>3. One(f) => One(g)
  BY <1>1 DEF One, HomeIs
<1>4. \A j \in 1..Len(g.accounts) : g.accounts[j].credential \in Held(f) \cup {credential}
  BY <1>1 DEF Held
<1>5. Held(g) \subseteq Held(f) \cup {credential} /\ credential \in Held(g)
  BY <1>1, <1>4 DEF Held
<1> QED
  BY <1>1, <1>2, <1>3, <1>5 DEF Changed, g

(* An entry at the end, for an account that has none.                      *)
LEMMA AppendedKeeps ==
  ASSUME NEW f \in FileType, NEW name \in Names, NEW provider \in Providers,
         NEW credential \in Credentials, HomeIs(f, 0, credential)
  PROVE  LET g == Appended(f, name, provider, credential)
         IN  Changed(f, g, credential) /\ credential \in Held(g)
<1> DEFINE entry == Entry(name, provider, credential)
           entries == Append(f.accounts, entry)
           n == Len(f.accounts)
           g == Appended(f, name, provider, credential)
<1>1. n \in Nat /\ f.accounts \in Seq(EntryType)
  BY FileIs
<1>2. entry \in EntryType /\ entry.credential = credential
  BY DEF Entry, EntryType
<1> HIDE DEF entry
<1>3. /\ entries \in Seq(EntryType) /\ Len(entries) = n + 1
      /\ \A j \in 1..n : entries[j] = f.accounts[j]
      /\ entries[n + 1] = entry
  BY <1>1, <1>2, AppendProperties
<1>4. g = [f EXCEPT !.accounts = entries]
  BY DEF Appended, entry
<1> HIDE DEF entries, g
<1>5. g \in FileType /\ g.accounts = entries
  BY <1>3, <1>4 DEF FileType
<1>6. \A j \in 1..(n + 1) : j = n + 1 \/ (j \in 1..n /\ j # 0)
  BY <1>1
<1>7. One(f) => One(g)
  <2> SUFFICES ASSUME One(f), NEW j \in 1..(n + 1), NEW k \in 1..(n + 1),
                      g.accounts[j].credential.account # None,
                      g.accounts[j].credential.account = g.accounts[k].credential.account
               PROVE  j = k
    BY <1>3, <1>5 DEF One
  <2>1. \A m \in 1..n : f.accounts[m].credential.account # None =>
          f.accounts[m].credential.account # credential.account
    <3>1. \A m \in 1..n : m # 0
      OBVIOUS
    <3> QED
      BY <3>1 DEF HomeIs
  <2>2. CASE j \in 1..n /\ k \in 1..n
    BY <1>3, <1>5, <2>2 DEF One
  <2>3. CASE j = n + 1 /\ k \in 1..n
    BY <1>2, <1>3, <1>5, <2>1, <2>3
  <2>4. CASE j \in 1..n /\ k = n + 1
    BY <1>2, <1>3, <1>5, <2>1, <2>4
  <2> QED
    BY <1>6, <2>2, <2>3, <2>4
<1>8. \A j \in 1..(n + 1) : g.accounts[j].credential \in Held(f) \cup {credential}
  BY <1>2, <1>3, <1>5, <1>6 DEF Held
<1>9. Held(g) \subseteq Held(f) \cup {credential}
  BY <1>3, <1>5, <1>8 DEF Held
<1>10. credential \in Held(g)
  <2>1. n + 1 \in 1..Len(g.accounts) /\ g.accounts[n + 1].credential = credential
    BY <1>1, <1>2, <1>3, <1>5
  <2> QED
    BY <2>1 DEF Held
<1> QED
  BY <1>1, <1>3, <1>5, <1>7, <1>9, <1>10 DEF Changed, g

(* A change of the entries' names, or of the selection, changes no         *)
(* credential.                                                             *)
LEMMA RelabeledKeeps ==
  ASSUME NEW f \in FileType, NEW g \in FileType, Len(g.accounts) = Len(f.accounts),
         \A j \in 1..Len(f.accounts) : g.accounts[j].credential = f.accounts[j].credential
  PROVE  Len(g.accounts) <= Len(f.accounts) + 1 /\ (One(f) => One(g)) /\ Held(g) = Held(f)
<1>1. Len(f.accounts) \in Nat
  BY FileIs
<1>2. One(f) => One(g)
  BY DEF One
<1>3. Held(g) = Held(f)
  <2>1. \A c : c \in Held(g) <=> \E j \in 1..Len(f.accounts) : c = g.accounts[j].credential
    BY DEF Held
  <2>2. \A c : c \in Held(f) <=> \E j \in 1..Len(f.accounts) : c = f.accounts[j].credential
    BY DEF Held
  <2>3. \A c : c \in Held(g) <=> c \in Held(f)
    BY <2>1, <2>2
  <2> QED
    BY <2>3
<1> QED
  BY <1>1, <1>2, <1>3

(* So a verb that ends with one changes what it would without.             *)
LEMMA ChangedThenRelabeled ==
  ASSUME NEW f \in FileType, NEW g, NEW credential, Changed(f, g, credential),
         NEW h \in FileType, Len(h.accounts) = Len(g.accounts),
         \A j \in 1..Len(g.accounts) : h.accounts[j].credential = g.accounts[j].credential
  PROVE  Changed(f, h, credential) /\ (credential \in Held(g) => credential \in Held(h))
  BY RelabeledKeeps DEF Changed

(* Naming an entry.                                                        *)
LEMMA NamedIs ==
  ASSUME NEW f \in FileType, NEW i \in 1..Len(f.accounts), NEW name \in Names
  PROVE  LET entries == [f.accounts EXCEPT ![i].name = name]
         IN  /\ entries \in Seq(EntryType) /\ Len(entries) = Len(f.accounts)
             /\ \A j \in 1..Len(f.accounts) :
                  entries[j].credential = f.accounts[j].credential
<1> DEFINE entry == [f.accounts[i] EXCEPT !.name = name]
<1>1. f.accounts[i] \in EntryType /\ f.accounts \in Seq(EntryType)
  BY FileIs
<1>2. entry \in EntryType /\ entry.credential = f.accounts[i].credential
  BY <1>1 DEF EntryType
<1> HIDE DEF entry
<1>3. LET entries == [f.accounts EXCEPT ![i] = entry]
      IN  /\ entries \in Seq(EntryType) /\ Len(entries) = Len(f.accounts)
          /\ entries[i] = entry
          /\ \A j \in 1..Len(f.accounts) : j # i => entries[j] = f.accounts[j]
  BY <1>1, <1>2, ExceptSeq
<1> QED
  BY <1>2, <1>3 DEF entry

(* Selecting a name of the file's, or none.                                *)
LEMMA SelectKeeps ==
  ASSUME NEW f \in FileType, NEW g, NEW credential, Changed(f, g, credential),
         NEW name \in Names
  PROVE  LET h == [g EXCEPT !.selected = name]
             k == SelectIfNoneServes(g, name)
         IN  /\ Changed(f, h, credential) /\ Changed(f, k, credential)
             /\ credential \in Held(g) => credential \in Held(k)
<1> DEFINE h == [g EXCEPT !.selected = name]
<1>1. h \in FileType /\ h.accounts = g.accounts
  BY DEF Changed, FileType
<1> HIDE DEF h
<1>2. Changed(f, h, credential) /\ (credential \in Held(g) => credential \in Held(h))
  BY <1>1, ChangedThenRelabeled
<1>3. SelectIfNoneServes(g, name) \in {g, h}
  BY DEF SelectIfNoneServes, h
<1> QED
  BY <1>2, <1>3 DEF h

(* A login's grant, or a rotation's that founds a file, goes over its      *)
(* account's entry, else over the name's, else to the end.                 *)
LEMMA PutKeeps ==
  ASSUME NEW f \in FileType, NEW name \in Names, NEW grant \in GrantType
  PROVE  LET g == Put(f, name, grant)
         IN  Changed(f, g, grant) /\ grant \in Held(g)
<1> DEFINE i == Either(IndexByAccount(f, grant.account), IndexOf(f, name))
           held == Holding(f, i, grant)
           named == [held EXCEPT !.accounts[i].name = name]
           appended == Appended(f, name, Codex, grant)
<1>0. grant \in Credentials
  BY DEF Credentials
<1>1. i \in 0..Len(f.accounts) /\ Len(f.accounts) \in Nat
  BY IndexOfIs, IndexByAccountIs, FileIs DEF Either
<1>2. HomeIs(f, i, grant)
  <2>1. CASE IndexByAccount(f, grant.account) = 0
    BY <2>1, IndexByAccountIs DEF HomeIs
  <2>2. CASE IndexByAccount(f, grant.account) # 0
    <3>1. i = IndexByAccount(f, grant.account)
      BY <2>2 DEF Either
    <3>2. i \in 1..Len(f.accounts) /\ f.accounts[i].credential.account = grant.account
      BY <2>2, <3>1, IndexByAccountIs
    <3> HIDE DEF i
    <3> QED
      BY <3>2 DEF HomeIs, One
  <2> QED
    BY <2>1, <2>2
<1>3. Put(f, name, grant) = SelectIfNoneServes(IF i = 0 THEN appended ELSE named, name)
  BY DEF Put
<1> HIDE DEF i
<1>4. CASE i = 0
  BY <1>0, <1>2, <1>3, <1>4, AppendedKeeps, SelectKeeps, CodexAssumption
<1>5. CASE i # 0
  <2>1. i \in 1..Len(f.accounts)
    BY <1>1, <1>5
  <2>2. Changed(f, held, grant) /\ grant \in Held(held)
    BY <1>0, <1>2, <2>1, HoldingKeeps
  <2>3. held \in FileType /\ Len(held.accounts) = Len(f.accounts)
    BY <1>0, <2>1, HoldingIs
  <2> HIDE DEF held
  <2> DEFINE entries == [held.accounts EXCEPT ![i].name = name]
  <2>4. /\ entries \in Seq(EntryType) /\ Len(entries) = Len(held.accounts)
        /\ \A j \in 1..Len(held.accounts) :
             entries[j].credential = held.accounts[j].credential
    BY <2>1, <2>3, NamedIs
  <2>5. named = [held EXCEPT !.accounts = entries]
    OBVIOUS
  <2> HIDE DEF entries, named
  <2>6. named \in FileType /\ named.accounts = entries
    BY <2>3, <2>4, <2>5 DEF FileType
  <2>7. Changed(f, named, grant) /\ grant \in Held(named)
    BY <2>2, <2>4, <2>6, ChangedThenRelabeled
  <2>8. Put(f, name, grant) = SelectIfNoneServes(named, name)
    BY <1>3, <1>5
  <2> QED
    BY <2>7, <2>8, SelectKeeps
<1> QED
  BY <1>4, <1>5

(* A key goes over the entry of its name, or to the end.                   *)
LEMMA KeyAddedKeeps ==
  ASSUME NEW f \in FileType, NEW name \in Names, NEW provider \in Providers
  PROVE  Changed(f, KeyAdded(f, name, provider, Secret), Key(Secret))
<1> DEFINE i == IndexOf(f, name)
           key == Key(Secret)
<1>1. key \in Credentials /\ key.account = None
  BY DEF Credentials, Key
<1>2. HomeIs(f, 0, key) /\ HomeIs(f, i, key)
  BY <1>1 DEF HomeIs
<1>3. i = 0 \/ i \in 1..Len(f.accounts)
  BY IndexOfIs
<1>4. KeyAdded(f, name, provider, Secret) =
        SelectIfNoneServes(IF i = 0 THEN Appended(f, name, provider, key)
                           ELSE Holding(f, i, key), name)
  BY DEF KeyAdded
<1> HIDE DEF i, key
<1>5. CASE i = 0
  BY <1>1, <1>2, <1>4, <1>5, AppendedKeeps, SelectKeeps DEF key
<1>6. CASE i # 0
  BY <1>1, <1>2, <1>3, <1>4, <1>6, HoldingKeeps, SelectKeeps DEF key
<1> QED
  BY <1>5, <1>6

(* Renaming an account.                                                    *)
LEMMA RenamedKeeps ==
  ASSUME NEW f \in FileType, NEW from, NEW to \in Names, CanRename(f, from, to),
         NEW credential
  PROVE  Changed(f, Renamed(f, from, to), credential)
<1> DEFINE i == IndexOf(f, from)
           entries == [f.accounts EXCEPT ![i].name = to]
           g == Renamed(f, from, to)
<1>1. i \in 1..Len(f.accounts)
  BY IndexOfIs DEF CanRename
<1>2. /\ entries \in Seq(EntryType) /\ Len(entries) = Len(f.accounts)
      /\ \A j \in 1..Len(f.accounts) : entries[j].credential = f.accounts[j].credential
  <2> HIDE DEF i
  <2> QED
    BY <1>1, NamedIs
<1>3. g = [selected |-> IF SelectedIndex(f) = i THEN to ELSE f.selected, accounts |-> entries]
  BY DEF Renamed
<1> HIDE DEF i, entries, g
<1>4. g \in FileType /\ g.accounts = entries
  BY <1>2, <1>3, FileIs DEF FileType
<1> QED
  BY <1>2, <1>4, RelabeledKeeps DEF Changed, g

(* Removing an entry.                                                      *)
LEMMA RemovedKeeps ==
  ASSUME NEW f \in FileType, NEW i \in 1..Len(f.accounts), NEW credential
  PROVE  Changed(f, Removed(f, i), credential)
<1> DEFINE s == f.accounts
           n == Len(s)
           rest == RemoveAt(s, i)
           g == [selected |-> IF f.selected # f.accounts[i].name THEN f.selected
                              ELSE IF rest = << >> THEN None ELSE rest[1].name,
                 accounts |-> rest]
<1>1. n \in Nat /\ s \in Seq(EntryType) /\ \A j \in 1..n : s[j] \in EntryType
  BY FileIs
<1>2. i \in 1..n
  OBVIOUS
<1>3. /\ rest \in Seq(EntryType) /\ Len(rest) = n - 1
      /\ \A j \in 1..(n - 1) : rest[j] = IF j < i THEN s[j] ELSE s[j + 1]
  <2> DEFINE before == SubSeq(s, 1, i - 1)  after == SubSeq(s, i + 1, n)
  <2>1. /\ before \in Seq(EntryType) /\ Len(before) = i - 1
        /\ \A j \in 1..(i - 1) : before[j] = s[j]
    <3>1. \A j \in 1..(i - 1) : s[j] \in EntryType
      BY <1>1
    <3>2. i - 1 \in Int /\ 1 \in Int
      BY <1>1
    <3>3. /\ before \in Seq(EntryType)
          /\ Len(before) = IF 1 <= i - 1 THEN (i - 1) - 1 + 1 ELSE 0
          /\ \A j \in 1..((i - 1) - 1 + 1) : before[j] = s[1 + j - 1]
      BY <3>1, <3>2, SubSeqProperties
    <3> HIDE DEF before, s, n
    <3>4. \A j \in 1..(i - 1) : j \in 1..((i - 1) - 1 + 1) /\ 1 + j - 1 = j
      BY <1>1
    <3>5. (IF 1 <= i - 1 THEN (i - 1) - 1 + 1 ELSE 0) = i - 1
      BY <1>1
    <3> QED
      BY <3>3, <3>4, <3>5
  <2>2. /\ after \in Seq(EntryType) /\ Len(after) = n - i
        /\ \A j \in 1..(n - i) : after[j] = s[i + j]
    <3>1. \A j \in (i + 1)..n : s[j] \in EntryType
      BY <1>1
    <3>2. i + 1 \in Int /\ n \in Int
      BY <1>1
    <3>3. /\ after \in Seq(EntryType)
          /\ Len(after) = IF i + 1 <= n THEN n - (i + 1) + 1 ELSE 0
          /\ \A j \in 1..(n - (i + 1) + 1) : after[j] = s[(i + 1) + j - 1]
      BY <3>1, <3>2, SubSeqProperties
    <3> HIDE DEF after, s, n
    <3>4. \A j \in 1..(n - i) : j \in 1..(n - (i + 1) + 1) /\ (i + 1) + j - 1 = i + j
      BY <1>1
    <3>5. (IF i + 1 <= n THEN n - (i + 1) + 1 ELSE 0) = n - i
      BY <1>1, <1>2
    <3> QED
      BY <3>3, <3>4, <3>5
  <2>3. rest = before \o after
    BY DEF RemoveAt
  <2> HIDE DEF before, after, rest, s, n
  <2>4. /\ rest \in Seq(EntryType) /\ Len(rest) = Len(before) + Len(after)
        /\ \A j \in 1..(Len(before) + Len(after)) :
             rest[j] = IF j <= Len(before) THEN before[j] ELSE after[j - Len(before)]
    BY <2>1, <2>2, <2>3, ConcatProperties
  <2>5. i \in Int /\ n \in Int /\ Len(before) + Len(after) = n - 1
    BY <1>1, <2>1, <2>2
  <2>6. ASSUME NEW j \in 1..(n - 1) PROVE rest[j] = IF j < i THEN s[j] ELSE s[j + 1]
    <3>1. CASE j < i
      <4>1. j \in 1..(i - 1) /\ j \in 1..(Len(before) + Len(after)) /\ j <= Len(before)
        BY <1>2, <2>1, <2>5, <3>1
      <4> QED
        BY <2>1, <2>4, <3>1, <4>1
    <3>2. CASE ~ (j < i)
      <4>1. j - (i - 1) \in 1..(n - i) /\ i + (j - (i - 1)) = j + 1
        BY <2>5, <3>2
      <4>2. rest[j] = after[j - (i - 1)]
        BY <2>1, <2>4, <2>5, <3>2
      <4> QED
        BY <2>2, <3>2, <4>1, <4>2
    <3> QED
      BY <3>1, <3>2
  <2> QED
    BY <2>4, <2>5, <2>6
<1> HIDE DEF rest, s, n
<1>4. \A j \in 1..(n - 1) : \E k \in 1..n : rest[j] = s[k] /\ (k = j \/ k = j + 1)
                                            /\ (k = j <=> j < i)
  <2> SUFFICES ASSUME NEW j \in 1..(n - 1)
               PROVE  \E k \in 1..n : rest[j] = s[k] /\ (k = j \/ k = j + 1)
                                      /\ (k = j <=> j < i)
    OBVIOUS
  <2>1. j \in 1..n /\ j + 1 \in 1..n /\ j # j + 1
    BY <1>1
  <2> QED
    BY <1>3, <2>1
<1>5. g \in FileType /\ g.accounts = rest
  <2>1. rest # << >> => rest[1].name \in Names
    <3>1. rest # << >> => 1 \in 1..Len(rest)
      BY <1>3, EmptySeq, LenProperties
    <3>2. \A j \in 1..Len(rest) : rest[j] \in EntryType
      BY <1>3, LenProperties
    <3> QED
      BY <3>1, <3>2 DEF EntryType
  <2> QED
    BY <1>3, <2>1, FileIs DEF FileType
<1> HIDE DEF g
<1>6. Len(g.accounts) <= Len(f.accounts) + 1
  BY <1>1, <1>3, <1>5 DEF s, n
<1>7. Held(g) \subseteq Held(f)
  <2>1. \A j \in 1..Len(g.accounts) : \E k \in 1..n : g.accounts[j] = s[k]
    BY <1>3, <1>4, <1>5
  <2> QED
    BY <2>1 DEF Held, s, n
<1>8. One(f) => One(g)
  <2> SUFFICES ASSUME One(f), NEW j \in 1..(n - 1), NEW k \in 1..(n - 1),
                      rest[j].credential.account # None,
                      rest[j].credential.account = rest[k].credential.account
               PROVE  j = k
    BY <1>3, <1>5 DEF One
  <2>1. PICK p \in 1..n : rest[j] = s[p] /\ (p = j \/ p = j + 1) /\ (p = j <=> j < i)
    BY <1>4
  <2>2. PICK q \in 1..n : rest[k] = s[q] /\ (q = k \/ q = k + 1) /\ (q = k <=> k < i)
    BY <1>4
  <2>3. p = q
    BY <2>1, <2>2 DEF One, s, n
  <2> QED
    BY <1>1, <1>2, <2>1, <2>2, <2>3
<1>9. Changed(f, g, credential)
  BY <1>5, <1>6, <1>7, <1>8 DEF Changed
<1>10. Removed(f, i) = IF rest = << >> THEN NoFile ELSE g
  BY <1>5 DEF Removed, Written, g, rest, s
<1>11. Changed(f, NoFile, credential)
  <2>1. /\ NoFile \in FileType /\ NoFile.accounts = << >> /\ Len(NoFile.accounts) = 0
    BY DEF NoFile, FileType
  <2> QED
    BY <1>1, <2>1 DEF Changed, One, Held, s, n
<1> QED
  BY <1>9, <1>10, <1>11

-----------------------------------------------------------------------------
(* The types.                                                              *)

Exchanging == {"sent", "saving"}

FileInv ==
  /\ file \in FileType /\ issued \in 0..MaxTokens /\ verbs \in 0..MaxVerbs
  /\ Len(file.accounts) <= verbs

RequestInv ==
  /\ due \subseteq Token
  /\ refused \in [Sources -> Token \cup {None}]
  /\ holder \in [Sources -> Requests \cup {None}]
  /\ pc \in [Requests -> {"new", "reading", "waiting", "sent", "saving", "token",
                          "done", "failed"}]
  /\ source \in [Requests -> Sources]
  /\ read \in [Requests -> GrantType \cup {NoGrant}]
  /\ \A r \in Requests : pc[r] \in Exchanging => read[r] \in GrantType /\ verbs # 0

LockInv ==
  \A s \in Sources : \A r \in Requests :
    holder[s] = r <=> source[r] = s /\ pc[r] \in Exchanging

TypeInv == FileInv /\ RequestInv /\ LockInv

(* The types, and the locks with their holders, are what TypeOK says.      *)
LEMMA TypeInvIsEnough == TypeInv => TypeOK
<1> SUFFICES ASSUME TypeInv PROVE TypeOK
  OBVIOUS
<1>1. file \in FileType
  BY DEF TypeInv, FileInv
<1>2. file.selected \in Names \cup {None} /\ DOMAIN file.accounts = 1..Len(file.accounts)
  BY <1>1, FileIs
<1>3. \A i \in DOMAIN file.accounts :
        /\ file.accounts[i].name \in Names /\ file.accounts[i].provider \in Providers
        /\ file.accounts[i].credential \in Credentials
  BY <1>1, FileIs
<1> QED
  BY <1>2, <1>3 DEF TypeInv, RequestInv, LockInv, Exchanging, TypeOK, Credentials, GrantType

(* A grant read through a source is one the file holds.                    *)
LEMMA LoadIs ==
  ASSUME file \in FileType, NEW s, Load(s) # NoGrant
  PROVE  /\ Load(s) \in GrantType /\ Load(s) \in Held(file) /\ Len(file.accounts) # 0
<1> DEFINE i == EntryOf(s)
<1>1. i \in 0..Len(file.accounts) /\ Len(file.accounts) \in Nat
  BY IndexOfIs, SelectedIndexIs, FileIs DEF EntryOf
<1> HIDE DEF i
<1>2. /\ i # 0 /\ file.accounts[i].credential.kind = "grant"
      /\ Load(s) = file.accounts[i].credential
  BY DEF Load, CanHold, IsGrant, i
<1>3. i \in 1..Len(file.accounts)
  BY <1>1, <1>2
<1>4. file.accounts[i].credential \in Credentials
  BY <1>3, FileIs
<1>5. Key(Secret).kind # "grant"
  BY DEF Key
<1>6. Load(s) \in GrantType
  BY <1>2, <1>4, <1>5 DEF Credentials
<1> QED
  BY <1>1, <1>2, <1>3, <1>6 DEF Held

(* Where a rotation is saved over an entry, that is its account's, or no   *)
(* entry is.                                                               *)
LEMMA TargetIs ==
  ASSUME file \in FileType, NEW grant, NEW s,
         NEW target \in {SaveTarget(file, grant), SaveForTarget(file, s, grant)}
  PROVE  /\ target \in 0..Len(file.accounts) /\ HomeIs(file, target, grant)
         /\ \/ target # 0 /\ file.accounts[target].credential.account = grant.account
            \/ grant.account # None =>
                 \A i \in 1..Len(file.accounts) :
                   file.accounts[i].credential.account # grant.account
<1> DEFINE home == IndexByAccount(file, grant.account)
<1>1. /\ home \in 0..Len(file.accounts) /\ Len(file.accounts) \in Nat
      /\ SelectedIndex(file) \in 0..Len(file.accounts)
      /\ IndexOf(file, s) \in 0..Len(file.accounts)
  BY IndexByAccountIs, SelectedIndexIs, IndexOfIs, FileIs
<1>2. CASE home = 0
  <2>1. grant.account # None =>
          \A i \in 1..Len(file.accounts) : file.accounts[i].credential.account # grant.account
    BY <1>2, IndexByAccountIs
  <2> QED
    BY <1>1, <1>2, <2>1 DEF SaveTarget, SaveForTarget, Either, HomeIs
<1>3. CASE home # 0
  <2>1. /\ home \in 1..Len(file.accounts)
        /\ file.accounts[home].credential.account = grant.account
    BY <1>3, IndexByAccountIs
  <2>2. target = home
    BY <1>3 DEF SaveTarget, SaveForTarget, Either
  <2> HIDE DEF home
  <2> QED
    BY <2>1, <2>2 DEF HomeIs, One
<1> QED
  BY <1>2, <1>3

(* A rotation is kept, and then adds at most one entry to an empty file,   *)
(* or lost, and then nothing is written.                                   *)
LEMMA SaveWrites ==
  ASSUME TypeInv, NEW r \in Requests, Save(r)
  PROVE  /\ file' \in FileType /\ Len(file'.accounts) <= verbs
         /\ \/ /\ Changed(file, file', read[r]) /\ read[r] \in Held(file')
               /\ renewed' = renewed
            \/ /\ file' = file /\ renewed' = [renewed EXCEPT ![source[r]] = {}]
<1> DEFINE s == source[r]
           grant == read[r]
           target == IF s = Serving THEN SaveTarget(file, grant)
                     ELSE SaveForTarget(file, s, grant)
<1>1. /\ file \in FileType /\ Len(file.accounts) \in Nat /\ Len(file.accounts) <= verbs
      /\ verbs \in 0..MaxVerbs /\ verbs # 0
      /\ grant \in GrantType /\ grant \in Credentials
  BY FileIs DEF TypeInv, FileInv, RequestInv, Exchanging, Save, Credentials
<1>2. target \in 0..Len(file.accounts) /\ HomeIs(file, target, grant)
  BY <1>1, TargetIs
<1>3. \/ /\ CanHold(file, target) /\ file' = Holding(file, target, grant)
         /\ renewed' = renewed
      \/ /\ file.accounts = << >> /\ file' = Put(file, NameFor(file, grant), grant)
         /\ renewed' = renewed
      \/ /\ file' = file /\ renewed' = [renewed EXCEPT ![s] = {}]
  BY DEF Save
<1> HIDE DEF target, s, grant
<1>4. CASE CanHold(file, target) /\ file' = Holding(file, target, grant) /\ renewed' = renewed
  <2>1. target \in 1..Len(file.accounts)
    BY <1>2, <1>4 DEF CanHold
  <2>2. file' \in FileType /\ Len(file'.accounts) = Len(file.accounts)
    BY <1>1, <1>4, <2>1, HoldingIs
  <2>3. Changed(file, file', grant) /\ grant \in Held(file')
    BY <1>1, <1>2, <1>4, <2>1, HoldingKeeps
  <2> QED
    BY <1>1, <1>4, <2>2, <2>3 DEF s, grant
<1>5. CASE /\ file.accounts = << >> /\ file' = Put(file, NameFor(file, grant), grant)
           /\ renewed' = renewed
  <2>1. Len(file.accounts) = 0
    BY <1>5, EmptySeq
  <2>2. Len(Assigned) \in Nat /\ MaxVerbs <= Len(Assigned) /\ MaxVerbs \in Nat
    BY AssignedAssumption, BoundAssumption, LenProperties
  <2>3. Len(file.accounts) < Len(Assigned)
    BY <1>1, <2>1, <2>2
  <2>4. NameFor(file, grant) \in Names
    BY <1>1, <2>3, NameForIs
  <2>5. Changed(file, file', grant) /\ grant \in Held(file')
    BY <1>1, <1>5, <2>4, PutKeeps
  <2>6. file' \in FileType /\ Len(file'.accounts) <= Len(file.accounts) + 1
    BY <2>5 DEF Changed
  <2>7. Len(file'.accounts) \in Nat
    BY <2>6, FileIs
  <2> QED
    BY <1>1, <1>5, <2>1, <2>5, <2>6, <2>7 DEF s, grant
<1> QED
  BY <1>1, <1>3, <1>4, <1>5 DEF s, grant

(* A grant is of its account and was issued by now.                        *)
Issued(grant, now) ==
  grant.account = AccountOf(grant.refresh.owner) /\ grant.access.n <= now

(* A verb of the operator's writes at most one credential, a key or a      *)
(* grant newly issued, and touches no request.                             *)
LEMMA OperatorWrites ==
  ASSUME TypeInv, Operate
  PROVE  /\ file' \in FileType /\ verbs' \in 0..MaxVerbs /\ Len(file'.accounts) <= verbs'
         /\ verbs' # 0
         /\ UNCHANGED <<due, refused, holder, request, history>>
         /\ \/ /\ issued' = issued /\ Changed(file, file', Key(Secret))
            \/ /\ issued' = issued + 1 /\ issued' \in 0..MaxTokens
               /\ \E grant \in GrantType :
                    /\ Changed(file, file', grant)
                    /\ grant.access.n = issued' /\ Issued(grant, issued')
<1>1. /\ file \in FileType /\ Len(file.accounts) \in Nat /\ Len(file.accounts) <= verbs
      /\ verbs \in 0..MaxVerbs /\ issued \in 0..MaxTokens
      /\ MaxVerbs \in Nat /\ MaxTokens \in Nat
  BY FileIs, BoundAssumption DEF TypeInv, FileInv
<1>2. ASSUME NEW new, NEW credential, Verb(new), Changed(file, new, credential)
      PROVE  /\ file' \in FileType /\ verbs' \in 0..MaxVerbs /\ Len(file'.accounts) <= verbs'
             /\ verbs' # 0
             /\ UNCHANGED <<due, refused, holder, request, history>>
             /\ Changed(file, file', credential)
  <2>1. /\ verbs < MaxVerbs /\ verbs' = verbs + 1 /\ file' = new
        /\ UNCHANGED <<due, refused, holder, request, history>>
    BY <1>2 DEF Verb
  <2>2. file' \in FileType /\ Len(file'.accounts) <= Len(file.accounts) + 1
    BY <1>2, <2>1 DEF Changed
  <2>3. Len(file'.accounts) \in Nat
    BY <2>2, FileIs
  <2> QED
    BY <1>1, <1>2, <2>1, <2>2, <2>3
<1>3. ASSUME NEW owner \in Owners, NEW label \in Labels \cup {None}, Login(owner, label)
      PROVE  /\ issued' = issued + 1 /\ issued' \in 0..MaxTokens
             /\ \E grant \in GrantType : /\ Verb(Added(file, grant, label))
                                         /\ Changed(file, Added(file, grant, label), grant)
                                         /\ grant.access.n = issued' /\ Issued(grant, issued')
  <2> DEFINE token == [owner |-> owner, n |-> issued + 1]
             grant == Grant(AccountOf(owner), token, token)
  <2>1. /\ issued < MaxTokens /\ issued' = issued + 1 /\ verbs < MaxVerbs
        /\ Verb(Added(file, grant, label))
    BY <1>3 DEF Login, Verb
  <2>2. token \in Token
    BY <1>1, <2>1 DEF Token
  <2>3. AccountOf(owner) \in Owners \cup {None}
    BY DEF AccountOf
  <2>4. /\ grant \in GrantType /\ grant.access.n = issued' /\ Issued(grant, issued')
    BY <1>1, <2>1, <2>2, <2>3 DEF Grant, GrantType, Issued
  <2> HIDE DEF token, grant
  <2>5. AddName(file, grant, label) \in Names
    <3>1. CASE label # None
      BY <3>1 DEF AddName, Names
    <3>2. CASE label = None /\ IndexByAccount(file, grant.account) # 0
      BY <1>1, <3>2, IndexByAccountIs, FileIs DEF AddName
    <3>3. CASE label = None /\ IndexByAccount(file, grant.account) = 0
      <4>1. Len(Assigned) \in Nat /\ MaxVerbs <= Len(Assigned)
        BY AssignedAssumption, LenProperties
      <4>2. Len(file.accounts) < Len(Assigned)
        BY <1>1, <2>1, <4>1
      <4> QED
        BY <1>1, <2>4, <3>3, <4>2, NameForIs DEF AddName
    <3> QED
      BY <3>1, <3>2, <3>3
  <2>6. Changed(file, Added(file, grant, label), grant)
    BY <1>1, <2>4, <2>5, PutKeeps DEF Added
  <2>7. issued' \in 0..MaxTokens
    BY <1>1, <2>1
  <2> QED
    BY <2>1, <2>4, <2>6, <2>7
<1>4. ASSUME NEW name \in Labels, NEW provider \in Providers, AddKey(name, provider)
      PROVE  /\ issued' = issued /\ Verb(KeyAdded(file, name, provider, Secret))
             /\ Changed(file, KeyAdded(file, name, provider, Secret), Key(Secret))
  <2>1. name \in Names
    BY DEF Names
  <2> QED
    BY <1>1, <1>4, <2>1, KeyAddedKeeps DEF AddKey
<1>5. ASSUME NEW name \in Names, Select(name)
      PROVE  /\ issued' = issued /\ Verb([file EXCEPT !.selected = name])
             /\ Changed(file, [file EXCEPT !.selected = name], Key(Secret))
  <2>1. Changed(file, file, Key(Secret))
    BY <1>1 DEF Changed
  <2> QED
    BY <1>1, <1>5, <2>1, SelectKeeps DEF Select
<1>6. ASSUME NEW from \in Names, NEW to \in Labels, Rename(from, to)
      PROVE  /\ issued' = issued /\ Verb(Renamed(file, from, to))
             /\ Changed(file, Renamed(file, from, to), Key(Secret))
  <2>1. to \in Names
    BY DEF Names
  <2> QED
    BY <1>1, <1>6, <2>1, RenamedKeeps DEF Rename
<1>7. ASSUME Clear \/ \E name \in Names : Forget(name)
      PROVE  \E i : /\ issued' = issued /\ Verb(Removed(file, i))
                    /\ Changed(file, Removed(file, i), Key(Secret))
  <2>1. PICK i \in 0..Len(file.accounts) :
          i # 0 /\ Verb(Removed(file, i)) /\ issued' = issued
    BY <1>1, <1>7, SelectedIndexIs, IndexOfIs DEF Clear, Forget
  <2>2. i \in 1..Len(file.accounts)
    BY <1>1, <2>1
  <2> QED
    BY <1>1, <2>1, <2>2, RemovedKeeps
<1>8. CASE \E owner \in Owners, label \in Labels \cup {None} : Login(owner, label)
  <2>1. PICK owner \in Owners, label \in Labels \cup {None} : Login(owner, label)
    BY <1>8
  <2>2. PICK grant \in GrantType : /\ Verb(Added(file, grant, label))
                                   /\ Changed(file, Added(file, grant, label), grant)
                                   /\ grant.access.n = issued' /\ Issued(grant, issued')
    BY <1>3, <2>1
  <2> QED
    BY <1>2, <1>3, <2>1, <2>2
<1>9. CASE ~ \E owner \in Owners, label \in Labels \cup {None} : Login(owner, label)
  <2>1. \E new : issued' = issued /\ Verb(new) /\ Changed(file, new, Key(Secret))
    BY <1>4, <1>5, <1>6, <1>7, <1>9 DEF Operate
  <2> QED
    BY <1>2, <2>1
<1> QED
  BY <1>8, <1>9

(* Every step keeps the types, and the locks with their holders.           *)
LEMMA TypeStep ==
  ASSUME TypeInv, [Next]_vars
  PROVE  TypeInv'
<1>1. ASSUME NEW r \in Requests, NEW s \in Sources, Ask(r, s) PROVE TypeInv'
  BY <1>1 DEF TypeInv, FileInv, RequestInv, LockInv, Exchanging, Ask, Goes,
              OutsideUnchanged, operator, history
<1>2. ASSUME NEW r \in Requests, AccessToken(r) \/ AccountId(r) PROVE TypeInv'
  <2>1. /\ \E where \in {"failed", "waiting", "token", "done"} :
             pc' = [pc EXCEPT ![r] = where]
        /\ pc[r] \notin Exchanging
        /\ UNCHANGED <<file, due, issued, verbs, refused, holder, source, read>>
    BY <1>2 DEF AccessToken, AccountId, Goes, OutsideUnchanged, operator, Exchanging
  <2> QED
    BY <2>1 DEF TypeInv, FileInv, RequestInv, LockInv, Exchanging
<1>3. ASSUME NEW r \in Requests, Recheck(r) PROVE TypeInv'
  <2> DEFINE grant == Load(source[r])
  <2>1. UNCHANGED <<file, due, issued, verbs, refused, source>> /\ pc[r] = "waiting"
        /\ holder[source[r]] = None
    BY <1>3 DEF Recheck, OutsideUnchanged, operator
  <2>2. CASE /\ UNCHANGED <<read, holder>>
             /\ \E where \in {"failed", "token"} : pc' = [pc EXCEPT ![r] = where]
    BY <2>1, <2>2 DEF TypeInv, FileInv, RequestInv, LockInv, Exchanging
  <2>3. CASE /\ grant # NoGrant /\ read' = [read EXCEPT ![r] = grant]
             /\ holder' = [holder EXCEPT ![source[r]] = r]
             /\ pc' = [pc EXCEPT ![r] = "sent"]
    <3>1. grant \in GrantType /\ verbs # 0
      <4>1. grant \in GrantType /\ Len(file.accounts) # 0 /\ Len(file.accounts) \in Nat
        BY <2>3, LoadIs, FileIs DEF TypeInv, FileInv
      <4> QED
        BY <4>1 DEF TypeInv, FileInv
    <3> HIDE DEF grant
    <3>2. RequestInv'
      BY <2>1, <2>3, <3>1 DEF TypeInv, RequestInv, Exchanging
    <3>3. LockInv'
      <4> SUFFICES ASSUME NEW s \in Sources, NEW q \in Requests
                   PROVE  holder'[s] = q <=> source[q] = s /\ pc'[q] \in Exchanging
        BY <2>1 DEF LockInv
      <4>1. CASE s = source[r]
        <5>1. holder'[s] = r /\ holder[s] = None
          BY <2>1, <2>3, <4>1 DEF TypeInv, RequestInv
        <5>2. q # r => ~ (source[q] = s /\ pc[q] \in Exchanging)
          BY <5>1, NoneAssumption DEF TypeInv, LockInv
        <5> QED
          BY <2>3, <4>1, <5>1, <5>2 DEF TypeInv, RequestInv, Exchanging
      <4>2. CASE s # source[r]
        BY <2>1, <2>3, <4>2 DEF TypeInv, RequestInv, LockInv, Exchanging
      <4> QED
        BY <4>1, <4>2
    <3> QED
      BY <2>1, <3>2, <3>3 DEF TypeInv, FileInv
  <2> QED
    BY <1>3, <2>2, <2>3 DEF Recheck, Goes
<1>4. ASSUME NEW r \in Requests, NEW where \in {"failed", "token"}, pc[r] \in Exchanging,
             Unlock(r), pc' = [pc EXCEPT ![r] = where], UNCHANGED <<source, read>>
      PROVE  LockInv'
  <2> SUFFICES ASSUME NEW s \in Sources, NEW q \in Requests
               PROVE  holder'[s] = q <=> source[q] = s /\ pc'[q] \in Exchanging
    BY <1>4 DEF LockInv
  <2>1. CASE s = source[r]
    <3>1. holder'[s] = None /\ holder[s] = r
      BY <1>4, <2>1 DEF Unlock, TypeInv, RequestInv, LockInv
    <3>2. q # r => ~ (source[q] = s /\ pc[q] \in Exchanging)
      BY <3>1 DEF TypeInv, LockInv
    <3> QED
      BY <1>4, <3>1, <3>2, NoneAssumption DEF TypeInv, RequestInv, Exchanging
  <2>2. CASE s # source[r]
    BY <1>4, <2>2 DEF Unlock, TypeInv, RequestInv, LockInv
  <2> QED
    BY <2>1, <2>2
<1>5. ASSUME NEW r \in Requests, RefuseGrant(r) \/ FailTransiently(r) PROVE TypeInv'
  <2>1. LockInv'
    BY <1>4, <1>5 DEF RefuseGrant, FailTransiently, Goes, Exchanging
  <2>2. refused' \in [Sources -> Token \cup {None}]
    BY <1>5 DEF RefuseGrant, FailTransiently, TypeInv, RequestInv, Exchanging, GrantType
  <2>3. /\ pc' = [pc EXCEPT ![r] = "failed"] /\ holder' = [holder EXCEPT ![source[r]] = None]
        /\ UNCHANGED <<file, due, issued, verbs, source, read>>
    BY <1>5 DEF RefuseGrant, FailTransiently, Goes, Unlock, OutsideUnchanged, operator
  <2> QED
    BY <2>1, <2>2, <2>3 DEF TypeInv, FileInv, RequestInv, Exchanging
<1>6. ASSUME NEW r \in Requests, Cancel(r) PROVE TypeInv'
  <2>1. /\ pc' = [pc EXCEPT ![r] = "failed"] /\ pc[r] \in {"waiting", "sent"}
        /\ UNCHANGED <<file, due, issued, verbs, refused, source, read>>
    BY <1>6 DEF Cancel, Goes, OutsideUnchanged, operator
  <2>2. CASE pc[r] = "sent"
    <3>1. LockInv'
      BY <1>4, <1>6, <2>1, <2>2 DEF Cancel, Goes, Exchanging
    <3>2. holder' = [holder EXCEPT ![source[r]] = None]
      BY <1>6, <2>2 DEF Cancel, Unlock
    <3> QED
      BY <2>1, <3>1, <3>2 DEF TypeInv, FileInv, RequestInv, Exchanging
  <2>3. CASE pc[r] # "sent"
    <3>1. holder' = holder
      BY <1>6, <2>3 DEF Cancel
    <3> QED
      BY <2>1, <2>3, <3>1 DEF TypeInv, FileInv, RequestInv, LockInv, Exchanging
  <2> QED
    BY <2>2, <2>3
<1>7. ASSUME NEW r \in Requests, Exchange(r) PROVE TypeInv'
  <2> DEFINE owner == read[r].refresh.owner
             fresh == [owner |-> owner, n |-> issued']
  <2>1. PICK refresh \in {fresh, read[r].refresh} :
          read' = [read EXCEPT ![r] = Grant(AccountOf(owner), fresh, refresh)]
    BY <1>7 DEF Exchange
  <2>2. /\ issued < MaxTokens /\ issued' = issued + 1 /\ pc[r] = "sent"
        /\ pc' = [pc EXCEPT ![r] = "saving"]
        /\ UNCHANGED <<file, due, verbs, refused, holder, source>>
    BY <1>7 DEF Exchange, Goes
  <2>3. read[r].refresh \in Token /\ owner \in Owners
    BY <2>2 DEF TypeInv, RequestInv, Exchanging, GrantType, Token
  <2>4. issued' \in 1..MaxTokens /\ issued' \in 0..MaxTokens
    BY <2>2, BoundAssumption DEF TypeInv, FileInv
  <2>5. fresh \in Token
    BY <2>3, <2>4 DEF Token
  <2>6. Grant(AccountOf(owner), fresh, refresh) \in GrantType
    BY <2>1, <2>3, <2>5 DEF Grant, GrantType, AccountOf
  <2>7. RequestInv'
    BY <2>1, <2>2, <2>6 DEF TypeInv, RequestInv, Exchanging
  <2>8. LockInv'
    BY <2>2 DEF TypeInv, RequestInv, LockInv, Exchanging
  <2> QED
    BY <2>2, <2>4, <2>7, <2>8 DEF TypeInv, FileInv
<1>8. ASSUME NEW r \in Requests, Save(r) PROVE TypeInv'
  <2>1. file' \in FileType /\ Len(file'.accounts) <= verbs
    BY <1>8, SaveWrites
  <2>2. PICK where \in {"failed", "token"} : pc' = [pc EXCEPT ![r] = where]
    BY <1>8 DEF Save, Goes
  <2>3. /\ pc[r] = "saving" /\ Unlock(r)
        /\ UNCHANGED <<due, issued, verbs, refused, source, read>>
    BY <1>8 DEF Save, operator
  <2>4. LockInv'
    BY <1>4, <2>2, <2>3 DEF Exchanging
  <2>5. RequestInv'
    BY <2>2, <2>3 DEF TypeInv, RequestInv, Exchanging, Unlock
  <2> QED
    BY <2>1, <2>3, <2>4, <2>5 DEF TypeInv, FileInv
<1>9. ASSUME Operate PROVE TypeInv'
  <2>1. /\ file' \in FileType /\ verbs' \in 0..MaxVerbs /\ Len(file'.accounts) <= verbs'
        /\ verbs' # 0 /\ issued' \in 0..MaxTokens
        /\ UNCHANGED <<due, refused, holder, request, history>>
    BY <1>9, OperatorWrites DEF TypeInv, FileInv
  <2> QED
    BY <2>1 DEF TypeInv, FileInv, RequestInv, LockInv, request
<1>10. ASSUME Lapse PROVE TypeInv'
  <2>1. PICK i \in DOMAIN file.accounts :
          /\ IsGrant(file.accounts[i])
          /\ due' = due \cup {file.accounts[i].credential.access}
    BY <1>10 DEF Lapse
  <2>2. file.accounts[i].credential \in Credentials
    BY FileIs DEF TypeInv, FileInv
  <2>3. Key(Secret).kind # "grant"
    BY DEF Key
  <2>4. file.accounts[i].credential.access \in Token
    BY <2>1, <2>2, <2>3 DEF Credentials, GrantType, IsGrant
  <2> QED
    BY <1>10, <2>1, <2>4 DEF Lapse, TypeInv, FileInv, RequestInv, LockInv, operator, request
<1>11. ASSUME UNCHANGED vars PROVE TypeInv'
  BY <1>11 DEF vars, TypeInv, FileInv, RequestInv, LockInv, operator, request
<1> QED
  BY <1>1, <1>2, <1>3, <1>5, <1>6, <1>7, <1>8, <1>9, <1>10, <1>11 DEF Next, Authorize

(* There is no file at first, and no request holds a lock.                 *)
LEMMA TypeInit == Init => TypeInv
<1> SUFFICES ASSUME Init PROVE TypeInv
  OBVIOUS
<1>1. NoFile \in FileType /\ Len(NoFile.accounts) = 0
  BY DEF NoFile, FileType
<1>2. FileInv
  BY <1>1, BoundAssumption DEF Init, FileInv
<1>3. RequestInv
  BY DEF Init, RequestInv, Sources, Exchanging
<1>4. LockInv
  BY NoneAssumption DEF Init, LockInv, Exchanging
<1> QED
  BY <1>2, <1>3, <1>4 DEF TypeInv

(* Every variable has its type; a source's lock is held by the one request *)
(* of it that is at the exchange (tokens.rs, `refresh`).                   *)
THEOREM TypeCorrect == Spec => []TypeOK
<1>1. TypeInv /\ [Next]_vars => TypeInv'
  BY TypeStep
<1> QED
  BY <1>1, TypeInit, TypeInvIsEnough, PTL DEF Spec

-----------------------------------------------------------------------------
(* One entry per account.                                                  *)

(* Whatever is written gives no account a second entry.                    *)
LEMMA OneStep ==
  ASSUME TypeInv, One(file), [Next]_vars
  PROVE  One(file')
<1>1. CASE \E r \in Requests : Save(r)
  BY <1>1, SaveWrites DEF Changed
<1>2. CASE Operate
  BY <1>2, OperatorWrites DEF Changed
<1>3. CASE ~Operate /\ ~ \E r \in Requests : Save(r)
  <2>1. file' = file
    BY <1>3 DEF Next, Authorize, Ask, AccessToken, Recheck, RefuseGrant, FailTransiently,
                Exchange, AccountId, Cancel, OutsideUnchanged, Lapse, vars
  <2> QED
    BY <2>1
<1> QED
  BY <1>1, <1>2, <1>3

(* An absent file has no entries.                                          *)
LEMMA OneInit == Init => One(file)
  BY DEF Init, NoFile, One

(* docs/proxy-behavior.md 8.1: whatever the operator and the refreshes do, *)
(* an account is stored once.                                              *)
THEOREM AccountsAreStoredOnce == Spec => []OneEntryPerAccount
<1>1. TypeInv /\ One(file) => OneEntryPerAccount
  BY FileIs DEF TypeInv, FileInv, One, OneEntryPerAccount, AccountAt
<1>2. TypeInv /\ One(file) /\ [Next]_vars => (TypeInv /\ One(file))'
  BY TypeStep, OneStep
<1>3. Init => TypeInv /\ One(file)
  BY TypeInit, OneInit
<1> QED
  BY <1>1, <1>2, <1>3, PTL DEF Spec

-----------------------------------------------------------------------------
(* Where a rotation lands.                                                 *)

(* A request leaves the saving of its grant by saving it.                  *)
LEMMA SavesIsSave ==
  ASSUME TypeInv, [Next]_vars, NEW r \in Requests, Saves(r)
  PROVE  Save(r)
<1>1. pc[r] = "saving" /\ pc'[r] # "saving"
  BY DEF Saves
<1>2. ASSUME NEW q \in Requests, NEW s \in Sources, Ask(q, s) PROVE pc'[r] = pc[r]
  BY <1>1, <1>2 DEF Ask, Goes, TypeInv, RequestInv
<1>3. ASSUME NEW q \in Requests,
             \/ AccessToken(q) \/ Recheck(q) \/ RefuseGrant(q) \/ FailTransiently(q)
             \/ Exchange(q) \/ AccountId(q) \/ Cancel(q)
      PROVE  pc'[r] = pc[r]
  <2>1. pc[q] # "saving" /\ \E where : pc' = [pc EXCEPT ![q] = where]
    BY <1>3 DEF AccessToken, Recheck, RefuseGrant, FailTransiently, Exchange, AccountId,
                Cancel, Goes
  <2> QED
    BY <1>1, <2>1 DEF TypeInv, RequestInv
<1>4. ASSUME NEW q \in Requests, Save(q) PROVE q = r
  <2>1. \E where : pc' = [pc EXCEPT ![q] = where]
    BY <1>4 DEF Save, Goes
  <2> QED
    BY <1>1, <2>1 DEF TypeInv, RequestInv
<1>5. ASSUME Operate PROVE pc' = pc
  BY <1>5, OperatorWrites DEF request
<1>6. ASSUME Lapse \/ UNCHANGED vars PROVE pc' = pc
  BY <1>6 DEF Lapse, vars, request
<1> QED
  BY <1>1, <1>2, <1>3, <1>4, <1>5, <1>6 DEF Next, Authorize

(* store.rs `save`: as long as its account is stored, a rotation changes   *)
(* no other account's entry, whoever serves by then.                       *)
THEOREM RotationsLandHome == Spec => RotationLandsHome
<1> DEFINE Home ==
      \A r \in Requests :
        Saves(r) /\ (\E i \in DOMAIN file.accounts :
                       read[r].account # None /\ AccountAt(i) = read[r].account)
        => \A i \in DOMAIN file.accounts :
             AccountAt(i) # read[r].account => file'.accounts[i] = file.accounts[i]
<1>1. ASSUME TypeInv, [Next]_vars PROVE Home
  <2> SUFFICES ASSUME NEW r \in Requests, Saves(r), read[r].account # None,
                      NEW h \in DOMAIN file.accounts, AccountAt(h) = read[r].account,
                      NEW i \in DOMAIN file.accounts, AccountAt(i) # read[r].account
               PROVE  file'.accounts[i] = file.accounts[i]
    OBVIOUS
  <2> DEFINE target == IF source[r] = Serving THEN SaveTarget(file, read[r])
                       ELSE SaveForTarget(file, source[r], read[r])
  <2>1. Save(r)
    BY <1>1, SavesIsSave
  <2>2. /\ file \in FileType /\ read[r] \in Credentials
        /\ DOMAIN file.accounts = 1..Len(file.accounts)
    BY <1>1, <2>1, FileIs
       DEF TypeInv, FileInv, RequestInv, Exchanging, Credentials, Save
  <2>3. target \in 1..Len(file.accounts) /\ AccountAt(target) = read[r].account
    <3>1. target \in {SaveTarget(file, read[r]), SaveForTarget(file, source[r], read[r])}
      OBVIOUS
    <3> HIDE DEF target
    <3>2. /\ target \in 0..Len(file.accounts)
          /\ target # 0 /\ AccountAt(target) = read[r].account
      BY <2>2, <3>1, TargetIs DEF AccountAt
    <3> QED
      BY <2>2, <3>2
  <2>4. file.accounts # << >>
    BY <2>2, EmptySeq
  <2>5. file' = file \/ file' = Holding(file, target, read[r])
    BY <2>1, <2>4 DEF Save
  <2> HIDE DEF target
  <2>6. i # target
    BY <2>3
  <2>7. Holding(file, target, read[r]).accounts[i] = file.accounts[i]
    BY <2>2, <2>3, <2>6, HoldingIs
  <2> QED
    BY <2>5, <2>7
<1>2. TypeInv /\ [Next]_vars => [Home]_vars
  BY <1>1
<1>3. TypeInv /\ [Next]_vars => TypeInv'
  BY TypeStep
<1> QED
  BY <1>2, <1>3, TypeInit, PTL DEF Spec, RotationLandsHome

-----------------------------------------------------------------------------
(* A refused grant.                                                        *)

(* A source remembers a token it was refused, once it was refused any.     *)
RefusedInv ==
  /\ everRefused \in [Sources -> SUBSET Token]
  /\ \A s \in Sources : /\ IsFiniteSet(everRefused[s])
                        /\ everRefused[s] = {} \/ refused[s] \in everRefused[s]

(* A refusal is remembered by its source; nothing else touches what a      *)
(* source remembers.                                                       *)
LEMMA RefusedStep ==
  ASSUME TypeInv, RefusedInv, [Next]_vars
  PROVE  RefusedInv'
<1>1. ASSUME NEW r \in Requests, RefuseGrant(r) PROVE RefusedInv'
  <2> DEFINE s == source[r]
             token == read[r].refresh
  <2>1. s \in Sources /\ token \in Token
    BY <1>1 DEF RefuseGrant, TypeInv, RequestInv, Exchanging, GrantType
  <2>2. /\ refused' = [refused EXCEPT ![s] = token]
        /\ everRefused' = [everRefused EXCEPT ![s] = @ \cup {token}]
    BY <1>1 DEF RefuseGrant
  <2> HIDE DEF s, token
  <2>3. IsFiniteSet(everRefused[s] \cup {token})
    BY <2>1, FS_AddElement DEF RefusedInv
  <2> QED
    BY <2>1, <2>2, <2>3 DEF TypeInv, RequestInv, RefusedInv
<1>2. CASE UNCHANGED <<refused, everRefused>>
  BY <1>2 DEF RefusedInv
<1>3. CASE ~ (\E r \in Requests : RefuseGrant(r)) /\ ~Operate
  <2>1. UNCHANGED <<refused, everRefused>>
    BY <1>3 DEF Next, Authorize, Ask, AccessToken, Recheck, FailTransiently, Exchange, Save,
                AccountId, Cancel, Lapse, vars, history
  <2> QED
    BY <1>2, <2>1
<1>4. CASE Operate
  BY <1>2, <1>4, OperatorWrites DEF history
<1> QED
  BY <1>1, <1>3, <1>4

(* Nothing is refused at first.                                            *)
LEMMA RefusedInit == Init => RefusedInv
  BY FS_EmptySet DEF Init, RefusedInv

(* Only the recheck under the lock sends a request to the server, with a   *)
(* grant the file holds then, and with no other at the exchange.           *)
LEMMA SendsIsRecheck ==
  ASSUME TypeInv, [Next]_vars, NEW r \in Requests, Sends(r)
  PROVE  /\ read'[r] = Load(source[r]) /\ Load(source[r]) # NoGrant
         /\ MayExchange(source[r], Load(source[r]))
         /\ holder[source[r]] = None
<1>1. pc[r] = "waiting" /\ pc'[r] = "sent"
  BY DEF Sends
<1>2. ASSUME NEW q \in Requests, NEW s \in Sources, Ask(q, s) PROVE FALSE
  BY <1>1, <1>2 DEF Ask, Goes, TypeInv, RequestInv
<1>3. ASSUME NEW q \in Requests,
             \/ AccessToken(q) \/ RefuseGrant(q) \/ FailTransiently(q) \/ Exchange(q)
             \/ Save(q) \/ AccountId(q) \/ Cancel(q)
      PROVE  FALSE
  <2>1. \E where \in {"failed", "waiting", "token", "saving", "done"} :
          pc' = [pc EXCEPT ![q] = where]
    BY <1>3 DEF AccessToken, RefuseGrant, FailTransiently, Exchange, Save, AccountId,
                Cancel, Goes
  <2> QED
    BY <1>1, <2>1 DEF TypeInv, RequestInv
<1>4. ASSUME Operate \/ Lapse \/ UNCHANGED vars PROVE FALSE
  <2>1. pc' = pc
    BY <1>4, OperatorWrites DEF Lapse, vars, request
  <2> QED
    BY <1>1, <2>1
<1>5. PICK q \in Requests : Recheck(q)
  BY <1>2, <1>3, <1>4 DEF Next, Authorize
<1>6. q = r
  <2>1. \E where : pc' = [pc EXCEPT ![q] = where]
    BY <1>5 DEF Recheck, Goes
  <2> QED
    BY <1>1, <2>1 DEF TypeInv, RequestInv
<1>7. /\ read' = [read EXCEPT ![r] = Load(source[r])] /\ Load(source[r]) # NoGrant
      /\ MayExchange(source[r], Load(source[r])) /\ holder[source[r]] = None
  <2>1. CASE \E where \in {"failed", "token"} : Goes(r, where)
    BY <1>1, <2>1 DEF Goes, TypeInv, RequestInv
  <2>2. CASE ~ \E where \in {"failed", "token"} : Goes(r, where)
    BY <1>5, <1>6, <2>2 DEF Recheck
  <2> QED
    BY <2>1, <2>2
<1> QED
  BY <1>7 DEF TypeInv, RequestInv

(* tokens.rs, `refused`: a refused grant is never tried again, by a        *)
(* request that waited meanwhile either.                                   *)
THEOREM RefusedGrantsAreNotRetried == Spec => RefusedNotRetried
<1> DEFINE NotRetried ==
      \A r \in Requests :
        Sends(r) /\ Cardinality(everRefused[source[r]]) = 1
        => read'[r].refresh \notin everRefused[source[r]]
<1>1. ASSUME TypeInv, RefusedInv, [Next]_vars PROVE NotRetried
  <2> SUFFICES ASSUME NEW r \in Requests, Sends(r), Cardinality(everRefused[source[r]]) = 1
               PROVE  read'[r].refresh \notin everRefused[source[r]]
    OBVIOUS
  <2>1. source[r] \in Sources
    BY <1>1 DEF TypeInv, RequestInv
  <2>2. PICK token : everRefused[source[r]] = {token}
    BY <1>1, <2>1, FS_Singleton DEF RefusedInv
  <2>3. refused[source[r]] = token
    BY <1>1, <2>1, <2>2 DEF RefusedInv
  <2>4. read'[r].refresh # refused[source[r]]
    BY <1>1, SendsIsRecheck DEF MayExchange
  <2> QED
    BY <2>2, <2>3, <2>4
<1>2. TypeInv /\ RefusedInv /\ [Next]_vars => [NotRetried]_vars
  BY <1>1
<1>3. TypeInv /\ RefusedInv /\ [Next]_vars => (TypeInv /\ RefusedInv)'
  BY TypeStep, RefusedStep
<1>4. Init => TypeInv /\ RefusedInv
  BY TypeInit, RefusedInit
<1> QED
  BY <1>2, <1>3, <1>4, PTL DEF Spec, RefusedNotRetried

-----------------------------------------------------------------------------
(* A grant is exchanged once.                                              *)

(* Grants are of their accounts and issued by now: those in the file, at   *)
(* the exchange, and exchanged.                                            *)
IssuedInv ==
  /\ renewed \in [Sources -> SUBSET GrantType]
  /\ \A g \in Held(file) : g \in GrantType => Issued(g, issued)
  /\ \A r \in Requests : pc[r] \in Exchanging => Issued(read[r], issued)
  /\ \A s \in Sources : \A g \in renewed[s] : Issued(g, issued)

(* A grant that is yet to be saved is nowhere else.                        *)
NewInv ==
  \A r \in Requests : pc[r] = "saving" =>
    /\ \A g \in Held(file) : g \in GrantType => g.access # read[r].access
    /\ \A s \in Sources : \A g \in renewed[s] : g.access # read[r].access
    /\ \A q \in Requests : q # r /\ pc[q] \in Exchanging => read[q].access # read[r].access

(* A grant a source has exchanged is out of the file, unless what came of  *)
(* it is about to be saved.                                                *)
SpentInv ==
  \A s \in Sources : \A g \in renewed[s] :
    g.account # None /\ g \in Held(file) =>
      \E r \in Requests :
        holder[s] = r /\ pc[r] = "saving" /\ read[r].account = g.account

ExchangeInv == IssuedInv /\ NewInv /\ SpentInv

(* Nothing is exchanged at first.                                          *)
LEMMA ExchangeInit == Init => ExchangeInv
<1> SUFFICES ASSUME Init PROVE ExchangeInv
  OBVIOUS
<1>1. Held(file) = {}
  BY DEF Init, NoFile, Held
<1>2. \A r \in Requests : pc[r] \notin Exchanging /\ pc[r] # "saving"
  BY DEF Init, Exchanging
<1>3. renewed = [s \in Sources |-> {}]
  BY DEF Init
<1> QED
  BY <1>1, <1>2, <1>3 DEF ExchangeInv, IssuedInv, NewInv, SpentInv

(* What is written holds one grant of its account: what was written.       *)
LEMMA OnlyOneOf ==
  ASSUME NEW f \in FileType, One(f), NEW grant, NEW g \in Held(f), grant \in Held(f),
         g.account # None, g.account = grant.account
  PROVE  g = grant
  BY DEF One, Held

(* A request that saves nothing and exchanges nothing, and leaves the      *)
(* exchange if it was at it.                                               *)
LEMMA ExchangeLeft ==
  ASSUME TypeInv, ExchangeInv, NEW r \in Requests, pc[r] # "saving",
         NEW where \in {"failed", "reading", "waiting", "token", "done"},
         pc' = [pc EXCEPT ![r] = where],
         UNCHANGED <<file, issued, read, renewed>>,
         holder' = holder \/ (pc[r] = "sent" /\ Unlock(r))
  PROVE  ExchangeInv'
<1>1. \A q \in Requests : /\ pc'[q] \in Exchanging => pc[q] \in Exchanging
                          /\ pc'[q] = "saving" <=> pc[q] = "saving"
  BY DEF TypeInv, RequestInv, Exchanging
<1>2. IssuedInv'
  BY <1>1 DEF ExchangeInv, IssuedInv
<1>3. NewInv'
  BY <1>1 DEF ExchangeInv, NewInv
<1>4. ASSUME NEW s \in Sources, NEW q \in Requests, holder[s] = q, pc[q] = "saving"
      PROVE  holder'[s] = q
  <2>1. q # r
    BY <1>4
  <2>2. source[r] = s /\ pc[r] = "sent" => holder[s] = r
    BY DEF TypeInv, LockInv, Exchanging
  <2> QED
    BY <1>4, <2>1, <2>2 DEF Unlock, TypeInv, RequestInv
<1>5. SpentInv'
  BY <1>1, <1>4 DEF ExchangeInv, SpentInv
<1> QED
  BY <1>2, <1>3, <1>5 DEF ExchangeInv

(* A request takes a grant of the file to the exchange.                    *)
LEMMA ExchangeEntered ==
  ASSUME TypeInv, ExchangeInv, NEW r \in Requests, pc[r] = "waiting",
         holder[source[r]] = None, Load(source[r]) # NoGrant,
         read' = [read EXCEPT ![r] = Load(source[r])],
         holder' = [holder EXCEPT ![source[r]] = r],
         pc' = [pc EXCEPT ![r] = "sent"],
         UNCHANGED <<file, issued, renewed>>
  PROVE  ExchangeInv'
<1>1. PICK grant \in GrantType : grant = Load(source[r]) /\ grant \in Held(file)
  BY LoadIs DEF TypeInv, FileInv
<1>2. read'[r] = grant /\ pc'[r] = "sent"
      /\ \A q \in Requests : q # r => read'[q] = read[q] /\ pc'[q] = pc[q]
  BY <1>1 DEF TypeInv, RequestInv
<1>3. IssuedInv'
  BY <1>1, <1>2 DEF ExchangeInv, IssuedInv
<1>4. NewInv'
  BY <1>1, <1>2 DEF ExchangeInv, NewInv
<1>5. ASSUME NEW s \in Sources, NEW q \in Requests, holder[s] = q
      PROVE  holder'[s] = q
  BY <1>5, NoneAssumption DEF TypeInv, RequestInv
<1>6. SpentInv'
  BY <1>2, <1>5 DEF ExchangeInv, SpentInv
<1> QED
  BY <1>3, <1>4, <1>6 DEF ExchangeInv

(* A grant is exchanged for a new one.                                     *)
LEMMA ExchangeMade ==
  ASSUME TypeInv, ExchangeInv, NEW r \in Requests, Exchange(r)
  PROVE  ExchangeInv'
<1> DEFINE old == read[r]
           fresh == [owner |-> old.refresh.owner, n |-> issued']
<1>1. PICK refresh \in {fresh, old.refresh} :
        read' = [read EXCEPT ![r] = Grant(AccountOf(old.refresh.owner), fresh, refresh)]
  BY DEF Exchange
<1>2. /\ issued' = issued + 1 /\ pc[r] = "sent" /\ pc' = [pc EXCEPT ![r] = "saving"]
      /\ renewed' = [renewed EXCEPT ![source[r]] = @ \cup {old}]
      /\ UNCHANGED <<file, holder, source>>
  BY DEF Exchange, Goes
<1>3. /\ issued \in Nat /\ source[r] \in Sources /\ old \in GrantType
      /\ holder[source[r]] = r
  BY <1>2 DEF TypeInv, FileInv, RequestInv, LockInv, Exchanging
<1>4. PICK new : /\ read' = [read EXCEPT ![r] = new]
                 /\ new.access.n = issued' /\ new.account = old.account
                 /\ new.account = AccountOf(new.refresh.owner)
  <2> DEFINE new == Grant(AccountOf(old.refresh.owner), fresh, refresh)
  <2>1. new.access.n = issued' /\ new.account = AccountOf(old.refresh.owner)
        /\ new.refresh = refresh
    BY DEF Grant
  <2>2. refresh.owner = old.refresh.owner
    BY <1>1
  <2>3. old.account = AccountOf(old.refresh.owner)
    BY <1>2 DEF ExchangeInv, IssuedInv, Issued, Exchanging
  <2> QED
    BY <1>1, <2>1, <2>2, <2>3
<1>5. /\ read'[r] = new /\ pc'[r] = "saving"
      /\ \A q \in Requests : q # r => read'[q] = read[q] /\ pc'[q] = pc[q]
  BY <1>2, <1>4 DEF TypeInv, RequestInv
<1>6. Issued(old, issued)
  BY <1>2 DEF ExchangeInv, IssuedInv, Exchanging
<1>7. \A g \in GrantType : g.access.n \in Nat
  BY DEF GrantType, Token
<1>8. \A g \in GrantType : Issued(g, issued) => Issued(g, issued') /\ g.access # new.access
  BY <1>2, <1>3, <1>4, <1>7 DEF Issued
<1>9. /\ renewed' \in [Sources -> SUBSET GrantType]
      /\ \A s \in Sources : \A g \in renewed'[s] : g = old \/ g \in renewed[s]
      /\ \A s \in Sources : s # source[r] => renewed'[s] = renewed[s]
  BY <1>2, <1>3 DEF ExchangeInv, IssuedInv
<1>10. \A s \in Sources : \A g \in renewed[s] : g \in GrantType
  BY DEF ExchangeInv, IssuedInv
<1>11. \A q \in Requests : pc[q] \in Exchanging => read[q] \in GrantType
  BY DEF TypeInv, RequestInv
<1> HIDE DEF old, fresh
<1>12. \A q \in Requests : pc'[q] \in Exchanging => Issued(read'[q], issued')
  <2>1. Issued(new, issued')
    BY <1>2, <1>3, <1>4 DEF Issued
  <2> QED
    BY <1>5, <1>8, <1>11, <2>1 DEF ExchangeInv, IssuedInv
<1>13. IssuedInv'
  <2>1. \A g \in Held(file') : g \in GrantType => Issued(g, issued')
    BY <1>2, <1>8 DEF ExchangeInv, IssuedInv
  <2>2. \A s \in Sources : \A g \in renewed'[s] : Issued(g, issued')
    BY <1>3, <1>6, <1>8, <1>9, <1>10 DEF ExchangeInv, IssuedInv
  <2> QED
    BY <1>9, <1>12, <2>1, <2>2 DEF IssuedInv
<1>14. NewInv'
  <2> SUFFICES ASSUME NEW q \in Requests, pc'[q] = "saving"
               PROVE  /\ \A g \in Held(file') : g \in GrantType => g.access # read'[q].access
                      /\ \A s \in Sources : \A g \in renewed'[s] : g.access # read'[q].access
                      /\ \A p \in Requests : p # q /\ pc'[p] \in Exchanging =>
                           read'[p].access # read'[q].access
    BY DEF NewInv
  <2>1. CASE q = r
    <3>1. \A g \in Held(file') : g \in GrantType => g.access # new.access
      BY <1>2, <1>8 DEF ExchangeInv, IssuedInv
    <3>2. \A s \in Sources : \A g \in renewed'[s] : g.access # new.access
      BY <1>3, <1>6, <1>8, <1>9, <1>10 DEF ExchangeInv, IssuedInv
    <3>3. \A p \in Requests : p # r /\ pc'[p] \in Exchanging => read'[p].access # new.access
      BY <1>5, <1>8, <1>11 DEF ExchangeInv, IssuedInv
    <3> QED
      BY <1>5, <2>1, <3>1, <3>2, <3>3
  <2>2. CASE q # r
    <3>1. pc[q] = "saving" /\ read'[q] = read[q] /\ read[q] \in GrantType
          /\ Issued(read[q], issued)
      BY <1>5, <1>11, <2>2 DEF ExchangeInv, IssuedInv, Exchanging
    <3>2. \A g \in Held(file') : g \in GrantType => g.access # read'[q].access
      BY <1>2, <3>1 DEF ExchangeInv, NewInv
    <3>3. read[r].access # read[q].access
      BY <1>2, <2>2, <3>1 DEF ExchangeInv, NewInv, Exchanging
    <3>4. \A s \in Sources : \A g \in renewed'[s] : g.access # read'[q].access
      BY <1>9, <3>1, <3>3 DEF ExchangeInv, NewInv, old
    <3>5. \A p \in Requests : p # q /\ pc'[p] \in Exchanging =>
            read'[p].access # read'[q].access
      <4>1. new.access # read[q].access
        BY <1>8, <3>1
      <4> QED
        BY <1>5, <3>1, <4>1 DEF ExchangeInv, NewInv
    <3> QED
      BY <3>2, <3>4, <3>5
  <2> QED
    BY <2>1, <2>2
<1>15. SpentInv'
  <2> SUFFICES ASSUME NEW s \in Sources, NEW g \in renewed'[s], g.account # None,
                      g \in Held(file)
               PROVE  \E q \in Requests : /\ holder[s] = q /\ pc'[q] = "saving"
                                          /\ read'[q].account = g.account
    BY <1>2 DEF SpentInv
  <2>1. CASE s = source[r] /\ g = old
    BY <1>3, <1>4, <1>5, <2>1
  <2>2. CASE g \in renewed[s]
    <3>1. PICK q \in Requests : /\ holder[s] = q /\ pc[q] = "saving"
                                /\ read[q].account = g.account
      BY <2>2 DEF ExchangeInv, SpentInv
    <3>2. q # r
      BY <1>2, <3>1
    <3> QED
      BY <1>5, <3>1, <3>2
  <2> QED
    BY <1>9, <2>1, <2>2
<1> QED
  BY <1>13, <1>14, <1>15 DEF ExchangeInv


(* A rotation is saved, and what it replaces leaves the file; or lost.     *)
LEMMA ExchangeSaved ==
  ASSUME TypeInv, One(file), ExchangeInv, NEW r \in Requests, Save(r)
  PROVE  ExchangeInv'
<1> DEFINE grant == read[r]
<1>1. /\ pc[r] = "saving" /\ source[r] \in Sources /\ grant \in GrantType
      /\ holder[source[r]] = r /\ Issued(grant, issued)
  BY DEF Save, TypeInv, RequestInv, LockInv, Exchanging, ExchangeInv, IssuedInv
<1>2. PICK where \in {"failed", "token"} : pc' = [pc EXCEPT ![r] = where]
  BY DEF Save, Goes
<1>3. /\ holder' = [holder EXCEPT ![source[r]] = None]
      /\ UNCHANGED <<issued, source, read>>
  BY DEF Save, Unlock, operator
<1>4. /\ \A q \in Requests : /\ pc'[q] \in Exchanging => q # r /\ pc[q] \in Exchanging
                             /\ pc'[q] = "saving" <=> q # r /\ pc[q] = "saving"
      /\ \A s \in Sources : s # source[r] => holder'[s] = holder[s]
  BY <1>2, <1>3 DEF TypeInv, RequestInv, Exchanging
<1>5. ASSUME NEW s \in Sources, NEW q \in Requests, q # r, holder[s] = q
      PROVE  holder'[s] = q
  BY <1>1, <1>4, <1>5
<1> HIDE DEF grant
<1>6. /\ renewed' \in [Sources -> SUBSET GrantType]
      /\ \A s \in Sources : renewed'[s] \subseteq renewed[s]
      /\ Held(file') \subseteq Held(file) \cup {grant}
  BY <1>1, SaveWrites DEF Changed, ExchangeInv, IssuedInv, grant
<1>7. IssuedInv'
  BY <1>1, <1>3, <1>4, <1>6 DEF ExchangeInv, IssuedInv
<1>8. NewInv'
  <2> SUFFICES ASSUME NEW q \in Requests, q # r, pc[q] = "saving"
               PROVE  /\ \A g \in Held(file') : g \in GrantType => g.access # read[q].access
                      /\ \A s \in Sources : \A g \in renewed'[s] : g.access # read[q].access
                      /\ \A p \in Requests : p # q /\ pc'[p] \in Exchanging =>
                           read[p].access # read[q].access
    BY <1>3, <1>4 DEF NewInv
  <2>1. grant.access # read[q].access
    BY <1>1 DEF ExchangeInv, NewInv, Exchanging, grant
  <2> QED
    BY <1>4, <1>6, <2>1 DEF ExchangeInv, NewInv
<1>9. SpentInv'
  <2> SUFFICES ASSUME NEW s \in Sources, NEW g \in renewed'[s], g.account # None,
                      g \in Held(file')
               PROVE  \E q \in Requests : /\ q # r /\ holder[s] = q /\ pc[q] = "saving"
                                          /\ read[q].account = g.account
    BY <1>3, <1>4, <1>5 DEF SpentInv
  <2>1. g \in renewed[s] /\ g # grant
    BY <1>1, <1>6 DEF ExchangeInv, NewInv, grant
  <2>2. g \in Held(file)
    BY <1>6, <2>1
  <2>3. PICK q \in Requests : /\ holder[s] = q /\ pc[q] = "saving"
                              /\ read[q].account = g.account
    BY <2>1, <2>2 DEF ExchangeInv, SpentInv
  <2>4. SUFFICES ASSUME q = r PROVE FALSE
    BY <2>3
  <2>5. s = source[r]
    BY <2>3, <2>4 DEF TypeInv, LockInv
  <2>6. CASE Changed(file, file', grant) /\ grant \in Held(file')
    <3>1. file' \in FileType /\ One(file')
      BY <2>6 DEF Changed
    <3> QED
      BY <2>1, <2>3, <2>4, <2>6, <3>1, OnlyOneOf DEF grant
  <2>7. CASE renewed' = [renewed EXCEPT ![source[r]] = {}]
    BY <1>1, <2>5, <2>7 DEF ExchangeInv, IssuedInv
  <2> QED
    BY <2>6, <2>7, SaveWrites DEF grant
<1> QED
  BY <1>7, <1>8, <1>9 DEF ExchangeInv

(* The operator writes nothing a source has exchanged: a key, or a grant   *)
(* newly issued.                                                           *)
LEMMA ExchangeOperated ==
  ASSUME TypeInv, ExchangeInv, Operate
  PROVE  ExchangeInv'
<1>1. /\ issued \in Nat /\ issued' \in Nat /\ issued <= issued'
      /\ UNCHANGED <<holder, pc, source, read, renewed>>
  BY OperatorWrites DEF request, history, TypeInv, FileInv
<1>2. PICK new : /\ Held(file') \subseteq Held(file) \cup {new}
                 /\ new \in GrantType =>
                      /\ Issued(new, issued')
                      /\ \A g \in GrantType : Issued(g, issued) => g.access # new.access
  <2>1. CASE issued' = issued /\ Changed(file, file', Key(Secret))
    <3>1. Key(Secret) \notin GrantType
      BY DEF Key, GrantType
    <3>2. Held(file') \subseteq Held(file) \cup {Key(Secret)}
      BY <2>1 DEF Changed
    <3> QED
      BY <3>1, <3>2
  <2>2. CASE /\ issued' = issued + 1
             /\ \E grant \in GrantType :
                  /\ Changed(file, file', grant)
                  /\ grant.access.n = issued' /\ Issued(grant, issued')
    <3>1. PICK grant \in GrantType : /\ Changed(file, file', grant)
                                     /\ grant.access.n = issued' /\ Issued(grant, issued')
      BY <2>2
    <3>2. Held(file') \subseteq Held(file) \cup {grant}
      BY <3>1 DEF Changed
    <3>3. ASSUME NEW g \in GrantType, Issued(g, issued) PROVE g.access # grant.access
      <4>1. g.access.n \in Nat /\ g.access.n <= issued
        BY <3>3 DEF GrantType, Token, Issued
      <4> QED
        BY <1>1, <2>2, <3>1, <4>1
    <3> QED
      BY <3>1, <3>2, <3>3
  <2> QED
    BY <2>1, <2>2, OperatorWrites
<1>3. /\ \A g \in GrantType : Issued(g, issued) => Issued(g, issued')
      /\ \A r \in Requests : pc[r] \in Exchanging => read[r] \in GrantType
      /\ \A s \in Sources : \A g \in renewed[s] : g \in GrantType
  <2>1. \A g \in GrantType : g.access.n \in Nat
    BY DEF GrantType, Token
  <2> QED
    BY <1>1, <2>1 DEF Issued, TypeInv, RequestInv, ExchangeInv, IssuedInv
<1>4. IssuedInv'
  BY <1>1, <1>2, <1>3 DEF ExchangeInv, IssuedInv
<1>5. NewInv'
  <2> SUFFICES ASSUME NEW r \in Requests, pc[r] = "saving",
                      NEW g \in Held(file'), g \in GrantType
               PROVE  g.access # read[r].access
    BY <1>1 DEF ExchangeInv, NewInv
  <2>1. CASE g = new
    BY <1>2, <1>3, <2>1 DEF ExchangeInv, IssuedInv, Exchanging
  <2>2. CASE g \in Held(file)
    BY <2>2 DEF ExchangeInv, NewInv
  <2> QED
    BY <1>2, <2>1, <2>2
<1>6. SpentInv'
  <2> SUFFICES ASSUME NEW s \in Sources, NEW g \in renewed[s], g \in Held(file')
               PROVE  g \in Held(file)
    BY <1>1 DEF ExchangeInv, SpentInv
  <2>1. g \in GrantType /\ Issued(g, issued)
    BY <1>3 DEF ExchangeInv, IssuedInv
  <2> QED
    BY <1>2, <2>1
<1> QED
  BY <1>4, <1>5, <1>6 DEF ExchangeInv

(* Every step keeps what is exchanged out of the file.                     *)
LEMMA ExchangeStep ==
  ASSUME TypeInv, One(file), ExchangeInv, [Next]_vars
  PROVE  ExchangeInv'
<1>1. ASSUME NEW r \in Requests, NEW s \in Sources, Ask(r, s) PROVE ExchangeInv'
  <2>1. /\ pc[r] = "new" /\ UNCHANGED <<file, issued, read, renewed, holder>>
        /\ \E where \in {"failed", "reading", "done"} : pc' = [pc EXCEPT ![r] = where]
    BY <1>1 DEF Ask, Goes, OutsideUnchanged, operator, history
  <2> QED
    BY <2>1, ExchangeLeft
<1>2. ASSUME NEW r \in Requests, AccessToken(r) \/ AccountId(r) PROVE ExchangeInv'
  <2>1. /\ pc[r] # "saving" /\ UNCHANGED <<file, issued, read, renewed, holder>>
        /\ \E where \in {"failed", "waiting", "token", "done"} :
             pc' = [pc EXCEPT ![r] = where]
    BY <1>2 DEF AccessToken, AccountId, Goes, OutsideUnchanged, operator, history
  <2> QED
    BY <2>1, ExchangeLeft
<1>3. ASSUME NEW r \in Requests, Recheck(r) PROVE ExchangeInv'
  <2>1. /\ pc[r] = "waiting" /\ holder[source[r]] = None
        /\ UNCHANGED <<file, issued, renewed>>
    BY <1>3 DEF Recheck, OutsideUnchanged, operator, history
  <2>2. CASE /\ UNCHANGED <<read, holder>>
             /\ \E where \in {"failed", "token"} : pc' = [pc EXCEPT ![r] = where]
    BY <2>1, <2>2, ExchangeLeft
  <2>3. CASE /\ Load(source[r]) # NoGrant /\ read' = [read EXCEPT ![r] = Load(source[r])]
             /\ holder' = [holder EXCEPT ![source[r]] = r]
             /\ pc' = [pc EXCEPT ![r] = "sent"]
    BY <2>1, <2>3, ExchangeEntered
  <2> QED
    BY <1>3, <2>2, <2>3 DEF Recheck, Goes
<1>4. ASSUME NEW r \in Requests, RefuseGrant(r) \/ FailTransiently(r) \/ Cancel(r)
      PROVE  ExchangeInv'
  <2>1. /\ pc[r] # "saving" /\ UNCHANGED <<file, issued, read, renewed>>
        /\ pc' = [pc EXCEPT ![r] = "failed"]
        /\ holder' = holder \/ (pc[r] = "sent" /\ Unlock(r))
    BY <1>4 DEF RefuseGrant, FailTransiently, Cancel, Goes, OutsideUnchanged, operator, history
  <2> QED
    BY <2>1, ExchangeLeft
<1>5. ASSUME Lapse \/ UNCHANGED vars PROVE ExchangeInv'
  <2>1. UNCHANGED <<file, issued, holder, pc, source, read, renewed>>
    BY <1>5 DEF Lapse, vars, operator, request, history
  <2> QED
    BY <2>1 DEF ExchangeInv, IssuedInv, NewInv, SpentInv
<1> QED
  BY <1>1, <1>2, <1>3, <1>4, <1>5, ExchangeMade, ExchangeSaved, ExchangeOperated
     DEF Next, Authorize

(* docs/proxy-behavior.md 8, single-flight: however many requests wait for *)
(* a grant, and whatever the operator does, a source exchanges it once, as *)
(* long as what comes of it is kept.                                       *)
THEOREM GrantsAreExchangedOnce == Spec => RefreshCollapses
<1> DEFINE Once ==
      \A r \in Requests :
        Sends(r) /\ read'[r].account # None => read'[r] \notin renewed[source[r]]
<1>1. ASSUME TypeInv, ExchangeInv, [Next]_vars PROVE Once
  <2> SUFFICES ASSUME NEW r \in Requests, Sends(r), read'[r].account # None,
                      read'[r] \in renewed[source[r]]
               PROVE  FALSE
    OBVIOUS
  <2> DEFINE s == source[r]
             grant == Load(s)
  <2>1. read'[r] = grant /\ grant # NoGrant /\ holder[s] = None
    BY <1>1, SendsIsRecheck
  <2>2. grant \in Held(file)
    BY <1>1, <2>1, LoadIs DEF TypeInv, FileInv
  <2>3. s \in Sources
    BY <1>1 DEF TypeInv, RequestInv
  <2> HIDE DEF grant
  <2>4. \E q \in Requests : holder[s] = q
    BY <1>1, <2>1, <2>2, <2>3 DEF ExchangeInv, SpentInv
  <2> QED
    BY <2>1, <2>4, NoneAssumption
<1>2. TypeInv /\ ExchangeInv /\ [Next]_vars => [Once]_vars
  BY <1>1
<1>3. TypeInv /\ One(file) /\ ExchangeInv /\ [Next]_vars
      => (TypeInv /\ One(file) /\ ExchangeInv)'
  BY TypeStep, OneStep, ExchangeStep
<1>4. Init => TypeInv /\ One(file) /\ ExchangeInv
  BY TypeInit, OneInit, ExchangeInit
<1> QED
  BY <1>2, <1>3, <1>4, PTL DEF Spec, RefreshCollapses
=============================================================================
