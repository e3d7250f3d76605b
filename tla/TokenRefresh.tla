---------------------------- MODULE TokenRefresh ----------------------------
(***************************************************************************)
(* Authorizing requests (proxy/src/auth/authorize.rs, tokens.rs) against a *)
(* credential file the operator edits meanwhile (Accounts), with tokens    *)
(* that expire and are exchanged at the authorization server.              *)
(*                                                                         *)
(* A request is authorized through a source of tokens: Serving, for the    *)
(* account that serves turns at the time, or one source for each name a    *)
(* tier is pinned to.  A source has a lock, held over the exchange, and    *)
(* remembers the last refresh token the server refused it.  Every read of  *)
(* the file is a step: the operator, or another request, may come between. *)
(*                                                                         *)
(* Abstractions.  A token is the account it was issued for and a number.   *)
(* Time is the set of access tokens that are due.  Whether the server      *)
(* still honours a refresh token is its own choice at every exchange, and  *)
(* an exchange always brings an access token.  A verb, or a read, that     *)
(* cannot have the file changes nothing and is left out.                   *)
(***************************************************************************)
EXTENDS Accounts, FiniteSets

CONSTANTS
  Requests,   \* the requests to be authorized; bounds the model
  Owners,     \* the accounts the backend has
  Anonymous,  \* those whose grants carry no account id
  Labels,     \* what an operator calls an account
  Pins,       \* the names tiers are pinned to
  Providers,  \* whom a key is spent against
  Secret,     \* a key
  Serving,    \* the source of the account that serves turns
  MaxTokens,  \* how many token pairs are issued; bounds the model
  MaxVerbs    \* how many verbs the operator uses; bounds the model

ASSUME AnonymousAssumption == Anonymous \subseteq Owners
ASSUME BoundAssumption == MaxTokens \in Nat /\ MaxVerbs \in Nat
ASSUME CodexAssumption == Codex \in Providers
ASSUME NoneAssumption  == None \notin Owners \cup Labels \cup Requests \cup ToSet(Assigned)
ASSUME ServingAssumption == Serving \notin Pins
(* The code counts on until a name is free; here no more are filed than    *)
(* there are.                                                              *)
ASSUME AssignedAssumption ==
  /\ Assigned \in Seq(ToSet(Assigned)) /\ MaxVerbs <= Len(Assigned)
  /\ \A i, j \in DOMAIN Assigned : Assigned[i] = Assigned[j] => i = j

Names   == Owners \cup Labels \cup ToSet(Assigned)
Sources == Pins \cup {Serving}
Token   == [owner : Owners, n : 1..MaxTokens]

VARIABLES
  file,      \* the credential file
  due,       \* the access tokens at or past the refresh margin
  issued,    \* how many token pairs the server has issued
  verbs,     \* how many verbs the operator has used
  refused,   \* of each source: the refresh token the server refused it
  holder,    \* of each source: the request holding its refresh lock
  pc, source, read,  \* of each request: where it is, its source, the grant it read
  bearer, header,    \* of each request: the token and the account id it goes out with
  everRefused, renewed  \* history, of each source: the refresh tokens refused; the grants
                        \* exchanged since a rotation was last lost

operator == <<issued, verbs>>
history  == <<everRefused, renewed>>
request  == <<pc, source, read, bearer, header>>
vars == <<file, due, operator, refused, holder, request, history>>

AccountOf(owner) == IF owner \in Anonymous THEN None ELSE owner

-----------------------------------------------------------------------------
(* Reading the store through a source.                                     *)

EntryOf(s) == IF s = Serving THEN SelectedIndex(file) ELSE IndexOf(file, s)

NoGrant == Grant(None, None, None)

(* load: the grant of the source's account, NoGrant without one.           *)
Load(s) ==
  LET i == EntryOf(s)
  IN  IF CanHold(file, i) THEN file.accounts[i].credential ELSE NoGrant

NeedsRefresh(grant) == grant.access \in due

Goes(r, where) == pc' = [pc EXCEPT ![r] = where]

(* The request leaves the exchange, and its source's lock.                 *)
Unlock(r) == holder' = [holder EXCEPT ![source[r]] = None]

(* Nothing of the file, the server or the operator changes.                *)
OutsideUnchanged == UNCHANGED <<file, due, operator>>

-----------------------------------------------------------------------------
(* A request.                                                              *)

(* authorize: what kind of credential the account holds.  A key goes out   *)
(* as it is, with no account.                                              *)
Ask(r, s) ==
  /\ pc[r] = "new"
  /\ source' = [source EXCEPT ![r] = s]
  /\ LET i == EntryOf(s) IN
       \/ i = 0 /\ Goes(r, "failed") /\ UNCHANGED bearer
       \/ i # 0 /\ IsGrant(file.accounts[i]) /\ Goes(r, "reading") /\ UNCHANGED bearer
       \/ /\ i # 0 /\ ~IsGrant(file.accounts[i])
          /\ bearer' = [bearer EXCEPT ![r] = file.accounts[i].credential.access]
          /\ Goes(r, "done")
  /\ OutsideUnchanged /\ UNCHANGED <<refused, holder, read, header, history>>

(* access_token: the grant is read, and not read as the kind was.          *)
AccessToken(r) ==
  /\ pc[r] = "reading"
  /\ LET grant == Load(source[r]) IN
       \/ /\ grant = NoGrant \/ grant.refresh = refused[source[r]]
          /\ Goes(r, "failed") /\ UNCHANGED bearer
       \/ /\ grant # NoGrant /\ grant.refresh # refused[source[r]]
          /\ IF NeedsRefresh(grant) THEN Goes(r, "waiting") /\ UNCHANGED bearer
             ELSE Goes(r, "token") /\ bearer' = [bearer EXCEPT ![r] = grant.access]
  /\ OutsideUnchanged /\ UNCHANGED <<refused, holder, source, read, header, history>>

(* As MayExchange, were a refusal not looked for again under the lock.     *)
MayExchangeAgain(s, grant) == NeedsRefresh(grant)

MayExchange(s, grant) == NeedsRefresh(grant) /\ grant.refresh # refused[s]

(* refresh, up to the exchange: whoever held the lock may have done the    *)
(* work, or been refused.  The lock is let go unless there is a request to *)
(* make.                                                                   *)
Recheck(r) ==
  /\ pc[r] = "waiting" /\ holder[source[r]] = None
  /\ LET grant == Load(source[r])
         sends == grant # NoGrant /\ MayExchange(source[r], grant)
     IN
       \/ /\ grant = NoGrant \/ (NeedsRefresh(grant) /\ ~sends)
          /\ Goes(r, "failed") /\ UNCHANGED <<bearer, read, holder>>
       \/ /\ grant # NoGrant /\ ~NeedsRefresh(grant)
          /\ bearer' = [bearer EXCEPT ![r] = grant.access]
          /\ Goes(r, "token") /\ UNCHANGED <<read, holder>>
       \/ /\ sends
          /\ read' = [read EXCEPT ![r] = grant]
          /\ holder' = [holder EXCEPT ![source[r]] = r]
          /\ Goes(r, "sent") /\ UNCHANGED bearer
  /\ OutsideUnchanged /\ UNCHANGED <<refused, source, header, history>>

(* The server refuses the grant, for good.                                 *)
RefuseGrant(r) ==
  /\ pc[r] = "sent"
  /\ refused' = [refused EXCEPT ![source[r]] = read[r].refresh]
  /\ everRefused' = [everRefused EXCEPT ![source[r]] = @ \cup {read[r].refresh}]
  /\ Goes(r, "failed") /\ Unlock(r)
  /\ OutsideUnchanged /\ UNCHANGED <<source, read, bearer, header, renewed>>

(* As FailTransiently, were the lock kept.                                 *)
FailHoldingLock(r) ==
  /\ pc[r] = "sent"
  /\ Goes(r, "failed")
  /\ OutsideUnchanged /\ UNCHANGED <<refused, holder, source, read, bearer, header, history>>

(* It cannot be reached, fails in passing, or answers unreadably.          *)
FailTransiently(r) ==
  /\ pc[r] = "sent"
  /\ Goes(r, "failed") /\ Unlock(r)
  /\ OutsideUnchanged /\ UNCHANGED <<refused, source, read, bearer, header, history>>

(* As Exchange, were the lock let go before the grant is saved.            *)
ExchangeLetsGo(r) ==
  /\ pc[r] = "sent" /\ issued < MaxTokens
  /\ issued' = issued + 1
  /\ LET owner == read[r].refresh.owner
         fresh == [owner |-> owner, n |-> issued']
     IN  read' = [read EXCEPT ![r] = Grant(AccountOf(owner), fresh, fresh)]
  /\ renewed' = [renewed EXCEPT ![source[r]] = @ \cup {read[r]}]
  /\ Goes(r, "saving") /\ Unlock(r)
  /\ UNCHANGED <<file, due, verbs, refused, source, bearer, header, everRefused>>

(* It issues a new access token, with a new refresh token or without.      *)
Exchange(r) ==
  /\ pc[r] = "sent" /\ issued < MaxTokens
  /\ issued' = issued + 1
  /\ LET owner == read[r].refresh.owner
         fresh == [owner |-> owner, n |-> issued']
     IN  \E refresh \in {fresh, read[r].refresh} :
           read' = [read EXCEPT ![r] = Grant(AccountOf(owner), fresh, refresh)]
  /\ renewed' = [renewed EXCEPT ![source[r]] = @ \cup {read[r]}]
  /\ Goes(r, "saving")
  /\ UNCHANGED <<file, due, verbs, refused, holder, source, bearer, header, everRefused>>

(* save, or save_for through the slot of a pinned account.  An empty file  *)
(* takes the grant of the first as a new account.  Without an entry for    *)
(* it, or a file to write, the rotation is lost.                           *)
Save(r) ==
  /\ pc[r] = "saving"
  /\ LET s      == source[r]
         grant  == read[r]
         target == IF s = Serving THEN SaveTarget(file, grant)
                   ELSE SaveForTarget(file, s, grant)
         founds == s = Serving /\ file.accounts = << >>
     IN
       \/ /\ CanHold(file, target)
          /\ file' = Holding(file, target, grant)
          /\ bearer' = [bearer EXCEPT ![r] = grant.access] /\ Goes(r, "token")
          /\ UNCHANGED renewed
       \/ /\ founds
          /\ file' = Put(file, NameFor(file, grant), grant)
          /\ bearer' = [bearer EXCEPT ![r] = grant.access] /\ Goes(r, "token")
          /\ UNCHANGED renewed
       \/ /\ renewed' = [renewed EXCEPT ![s] = {}]
          /\ Goes(r, "failed") /\ UNCHANGED <<file, bearer>>
  /\ Unlock(r)
  /\ UNCHANGED <<due, operator, refused, source, read, header, everRefused>>

(* account_id: the file is read once more, for the header.                 *)
AccountId(r) ==
  /\ pc[r] = "token"
  /\ header' = [header EXCEPT ![r] = Load(source[r]).account]
  /\ Goes(r, "done")
  /\ OutsideUnchanged /\ UNCHANGED <<refused, holder, source, read, bearer, history>>

(* The client goes away while the request waits for the lock or the server: *)
(* the future is dropped, and a lock it holds with it.                     *)
Cancel(r) ==
  /\ pc[r] \in {"waiting", "sent"}
  /\ IF pc[r] = "sent" THEN Unlock(r) ELSE UNCHANGED holder
  /\ Goes(r, "failed")
  /\ OutsideUnchanged /\ UNCHANGED <<refused, source, read, bearer, header, history>>

-----------------------------------------------------------------------------
(* The operator, through the CLI or the daemon, and time.                  *)

Verb(new) ==
  /\ verbs < MaxVerbs /\ verbs' = verbs + 1
  /\ file' = new
  /\ UNCHANGED <<due, refused, holder, request, history>>

Login(owner, label) ==
  LET token == [owner |-> owner, n |-> issued + 1]
      grant == Grant(AccountOf(owner), token, token)
  IN  /\ issued < MaxTokens /\ issued' = issued + 1
      /\ CanAdd(file, grant, label)
      /\ Verb(Added(file, grant, label))

AddKey(name, provider) ==
  /\ CanAddKey(file, name, provider)
  /\ Verb(KeyAdded(file, name, provider, Secret)) /\ UNCHANGED issued

Select(name) ==
  /\ IndexOf(file, name) # 0
  /\ Verb([file EXCEPT !.selected = name]) /\ UNCHANGED issued

Rename(from, to) ==
  /\ CanRename(file, from, to)
  /\ Verb(Renamed(file, from, to)) /\ UNCHANGED issued

Forget(name) ==
  /\ IndexOf(file, name) # 0
  /\ Verb(Removed(file, IndexOf(file, name))) /\ UNCHANGED issued

Clear ==
  /\ SelectedIndex(file) # 0
  /\ Verb(Removed(file, SelectedIndex(file))) /\ UNCHANGED issued

(* An access token comes within the margin of its expiry.                  *)
Lapse ==
  /\ \E i \in DOMAIN file.accounts :
       /\ IsGrant(file.accounts[i]) /\ ~NeedsRefresh(file.accounts[i].credential)
       /\ due' = due \cup {file.accounts[i].credential.access}
  /\ UNCHANGED <<file, operator, refused, holder, request, history>>

-----------------------------------------------------------------------------
Init ==
  /\ file = NoFile /\ due = {} /\ issued = 0 /\ verbs = 0
  /\ refused = [s \in Sources |-> None] /\ holder = [s \in Sources |-> None]
  /\ pc = [r \in Requests |-> "new"] /\ source = [r \in Requests |-> Serving]
  /\ read = [r \in Requests |-> NoGrant]
  /\ bearer = [r \in Requests |-> None] /\ header = [r \in Requests |-> None]
  /\ everRefused = [s \in Sources |-> {}] /\ renewed = [s \in Sources |-> {}]

Authorize(r) ==
  \/ AccessToken(r) \/ Recheck(r)
  \/ RefuseGrant(r) \/ FailTransiently(r) \/ Exchange(r) \/ Save(r)
  \/ AccountId(r)

Operate ==
  \/ \E owner \in Owners, label \in Labels \cup {None} : Login(owner, label)
  \/ \E name \in Labels, provider \in Providers : AddKey(name, provider)
  \/ \E name \in Names : Select(name) \/ Forget(name)
  \/ \E from \in Names, to \in Labels : Rename(from, to)
  \/ Clear

Next ==
  \/ \E r \in Requests : (\E s \in Sources : Ask(r, s)) \/ Authorize(r) \/ Cancel(r)
  \/ Operate
  \/ Lapse

(* The daemon runs the tasks it has, tokio's mutex is fair, and a request  *)
(* to the authorization server ends: it is answered, or it fails.          *)
Fairness ==
  \A r \in Requests :
    /\ WF_vars(AccessToken(r) \/ RefuseGrant(r) \/ FailTransiently(r) \/ Exchange(r)
                 \/ Save(r) \/ AccountId(r))
    /\ SF_vars(Recheck(r))

Spec == Init /\ [][Next]_vars
FairSpec == Spec /\ Fairness

-----------------------------------------------------------------------------
(* Properties.                                                             *)

Sends(r) == pc[r] = "waiting" /\ pc'[r] = "sent"
Saves(r) == pc[r] = "saving" /\ pc'[r] # "saving"

AccountAt(i) == file.accounts[i].credential.account

(* Every variable has its type; the locks are held by requests that are at *)
(* the exchange, one per source.                                           *)
TypeOK ==
  /\ file.selected \in Names \cup {None}
  /\ \A i \in DOMAIN file.accounts :
       /\ file.accounts[i].name \in Names /\ file.accounts[i].provider \in Providers
       /\ file.accounts[i].credential \in
            [kind : {"grant"}, account : Owners \cup {None}, access : Token, refresh : Token]
              \cup {Key(Secret)}
  /\ due \subseteq Token
  /\ refused \in [Sources -> Token \cup {None}]
  /\ pc \in [Requests -> {"new", "reading", "waiting", "sent", "saving", "token",
                          "done", "failed"}]
  /\ \A s \in Sources : \A r \in Requests :
       holder[s] = r <=> source[r] = s /\ pc[r] \in {"sent", "saving"}

(* docs/proxy-behavior.md 8.1: an account is stored once; a second entry   *)
(* would leave "two entries sharing one refresh-token family".             *)
OneEntryPerAccount ==
  \A i, j \in DOMAIN file.accounts :
    AccountAt(i) # None /\ AccountAt(i) = AccountAt(j) => i = j

(* store.rs `save`: resolved by selection, a refresh "would drop one       *)
(* account's rotated grant into another's entry".  As long as its account  *)
(* is stored, under whatever name, a rotation changes no other entry.      *)
RotationLandsHome ==
  [][\A r \in Requests :
       Saves(r) /\ (\E i \in DOMAIN file.accounts :
                      read[r].account # None /\ AccountAt(i) = read[r].account)
       => \A i \in DOMAIN file.accounts :
            AccountAt(i) # read[r].account => file'.accounts[i] = file.accounts[i]]_vars

(* proxy-behavior.md 8, "single-flight": however many requests wait for    *)
(* one due grant, a source exchanges it successfully at most once, unless  *)
(* what came of it could not be kept.                                      *)
RefreshCollapses ==
  [][\A r \in Requests :
       Sends(r) /\ read'[r].account # None => read'[r] \notin renewed[source[r]]]_vars

(* tokens.rs, `refused`: "a new grant is tried, and the refused one is     *)
(* never retried", by the requests that were waiting either: as long as    *)
(* the server has refused the source no other grant: one is remembered.    *)
RefusedNotRetried ==
  [][\A r \in Requests :
       Sends(r) /\ Cardinality(everRefused[source[r]]) = 1
       => read'[r].refresh \notin everRefused[source[r]]]_vars

(* Nobody waits for good: a request that holds a grant to refresh is       *)
(* answered with a token or refused.                                       *)
EveryRequestEnds ==
  \A r \in Requests : pc[r] = "reading" ~> pc[r] \in {"done", "failed"}
=============================================================================
