------------------------------ MODULE Accounts ------------------------------
(***************************************************************************)
(* The credential file as a value (proxy/src/auth/store.rs, StoredFile),   *)
(* and what each verb of the store makes of it.  A verb reads, changes and *)
(* replaces the whole file under the store's lock: one step, for everyone  *)
(* who takes that lock.                                                    *)
(*                                                                         *)
(* A credential is a grant, with an access and a refresh token and the id  *)
(* of its account -- None where it carries no id -- or a key.  A position  *)
(* in the file is 0 where the code has no entry.                           *)
(***************************************************************************)
EXTENDS Naturals, SequencesExt

CONSTANTS
  None,      \* no selection, no account id, no refresh token, no label
  Assigned,  \* the names a nameless grant is given: account-1, account-2, ...
  Codex      \* the provider of every grant

Grant(account, access, refresh) ==
  [kind |-> "grant", account |-> account, access |-> access, refresh |-> refresh]

Key(secret) ==
  [kind |-> "key", account |-> None, access |-> secret, refresh |-> None]

Entry(name, provider, credential) ==
  [name |-> name, provider |-> provider, credential |-> credential]

NoFile == [selected |-> None, accounts |-> << >>]

IsGrant(entry) == entry.credential.kind = "grant"

-----------------------------------------------------------------------------
(* Finding an entry.                                                       *)

IndexOf(file, name) == SelectInSeq(file.accounts, LAMBDA e : e.name = name)

(* The entry of the account the backend knows by this id.                  *)
IndexByAccount(file, account) ==
  IF account = None THEN 0
  ELSE SelectInSeq(file.accounts, LAMBDA e : e.credential.account = account)

Either(i, j) == IF i # 0 THEN i ELSE j

(* The entry that serves turns: the selected one, failing that the first.  *)
SelectedIndex(file) ==
  IF file.accounts = << >> THEN 0 ELSE Either(IndexOf(file, file.selected), 1)

(* The name of a grant that nothing else names.                            *)
NameFor(file, grant) ==
  IF grant.account # None THEN grant.account
  ELSE Assigned[SelectInSeq(Assigned, LAMBDA n : IndexOf(file, n) = 0)]

-----------------------------------------------------------------------------
(* Changing it.  An empty file is removed, and its selection with it.      *)

Written(file) == IF file.accounts = << >> THEN NoFile ELSE file

Holding(file, i, credential) == [file EXCEPT !.accounts[i].credential = credential]

(* What put and add_key end with.  The entry is in the file by then, so    *)
(* something always serves and the selection is left as it was: a first    *)
(* credential serves because it is first, not because it is selected.      *)
SelectIfNoneServes(file, name) ==
  IF SelectedIndex(file) = 0 THEN [file EXCEPT !.selected = name] ELSE file

Appended(file, name, provider, credential) ==
  [file EXCEPT !.accounts = Append(@, Entry(name, provider, credential))]

(* As Put, were an account known by the name it is filed under.            *)
PutByName(file, name, grant) ==
  LET i == IndexOf(file, name)
  IN  SelectIfNoneServes(IF i = 0 THEN Appended(file, name, Codex, grant)
                         ELSE Holding(file, i, grant), name)

(* Over the entry of the same account, which takes the new name; else over *)
(* the entry of that name; else as a new entry.                            *)
Put(file, name, grant) ==
  LET i == Either(IndexByAccount(file, grant.account), IndexOf(file, name))
  IN  SelectIfNoneServes(IF i = 0 THEN Appended(file, name, Codex, grant)
                         ELSE [Holding(file, i, grant) EXCEPT !.accounts[i].name = name], name)

Removed(file, i) ==
  LET rest == RemoveAt(file.accounts, i)
  IN  Written([selected |-> IF file.selected # file.accounts[i].name THEN file.selected
                            ELSE IF rest = << >> THEN None ELSE rest[1].name,
               accounts |-> rest])

-----------------------------------------------------------------------------
(* The verbs: when each is refused is its Can.                             *)

(* A login.  A label naming an account with another id is refused.         *)
CanAdd(file, grant, label) ==
  LET i == IndexOf(file, label)
  IN  label # None /\ i # 0
        => file.accounts[i].credential.account \in {None, grant.account}

AddName(file, grant, label) ==
  LET i == IndexByAccount(file, grant.account)
  IN  IF label # None THEN label
      ELSE IF i # 0 THEN file.accounts[i].name ELSE NameFor(file, grant)

Added(file, grant, label) == Put(file, AddName(file, grant, label), grant)

(* A key replaces nothing but a key of the same provider.                  *)
CanAddKey(file, name, provider) ==
  LET i == IndexOf(file, name)
  IN  i # 0 => ~IsGrant(file.accounts[i]) /\ file.accounts[i].provider = provider

KeyAdded(file, name, provider, secret) ==
  LET i == IndexOf(file, name)
  IN  SelectIfNoneServes(IF i = 0 THEN Appended(file, name, provider, Key(secret))
                         ELSE Holding(file, i, Key(secret)), name)

CanRename(file, from, to) ==
  IndexOf(file, from) # 0 /\ IndexOf(file, to) \in {0, IndexOf(file, from)}

(* The selection is by name and follows.                                   *)
Renamed(file, from, to) ==
  LET i == IndexOf(file, from)
  IN  [selected |-> IF SelectedIndex(file) = i THEN to ELSE file.selected,
       accounts |-> [file.accounts EXCEPT ![i].name = to]]

(* As SaveTarget, were the account serving now the one that was read.      *)
SaveTargetBySelection(file, grant) == SelectedIndex(file)

(* A refresh of the account that serves turns: where its grant goes.       *)
SaveTarget(file, grant) ==
  Either(IndexByAccount(file, grant.account), SelectedIndex(file))

(* A refresh of a pinned account.                                          *)
SaveForTarget(file, name, grant) ==
  Either(IndexByAccount(file, grant.account), IndexOf(file, name))

(* A grant is only ever written over a grant.                              *)
CanHold(file, i) == i # 0 /\ IsGrant(file.accounts[i])
=============================================================================
