------------------------------- MODULE Control -------------------------------
(***************************************************************************)
(* The control socket (proxy/src/control/handler.rs) and what its methods  *)
(* move while turns are served: the selected account in the credential     *)
(* file, the configuration file, the live policy (policy.rs), the model    *)
(* list (catalog.rs), the quota figures (usage.rs) and the sessions; and   *)
(* the daemon's start from the two files (main.rs).                        *)
(*                                                                         *)
(* A caller has one call at a time.  A step of a method is what it does    *)
(* between two points where something it uses may have moved: an await, or *)
(* the next access to another of the stores.  Methods of two callers, the  *)
(* steps of turns, a login that completes in the background and a restart  *)
(* come in any order.                                                      *)
(*                                                                         *)
(* Abstractions.  The access token of a credential is the account it       *)
(* spends.  A list is fetched, or not: a failure keeps the one in force.   *)
(* A setter names a stored account, or none. There is one conversation; a   *)
(* session it no longer uses gives its name to the next.                   *)
(***************************************************************************)
EXTENDS TierMapping

CONSTANTS
  Callers,   \* the front-ends of the control socket
  Clients,   \* each has one turn at a time, one after the other
  Sessions,  \* names for the sessions of the conversation
  Owners,    \* the accounts the backend has
  Labels,    \* other names an account can be filed under
  Menu,      \* the models the backend offers an account, where it lists any
  Hidden,    \* the models it does not list
  Files,     \* the credential files the daemon may find at its first start
  Configs,   \* the configuration files it may find
  Methods,   \* the methods called; bounds the model
  Values,    \* what a caller points a tier at
  Efforts,   \* what a caller caps effort at
  Persists,  \* whether changes are persisted: BOOLEAN, or one of its members
  MaxCalls   \* how many calls are made; bounds the model

ASSUME CallsAssumption   == MaxCalls \in Nat
ASSUME PersistAssumption == Persists \subseteq BOOLEAN

Names == Owners \cup Labels

(* What a table says of a tier; the configuration file.                    *)
Mapped == [model : Models, account : Names \cup {None}]
Tables == [tiers : [Tiers -> Mapped \cup {Unset}], effort : Efforts \cup {None}]
IsConfiguration(c) ==
  /\ c = [shared |-> c.shared, sections |-> c.sections, consent |-> c.consent]
  /\ c.shared \in Tables /\ c.consent \in BOOLEAN
  /\ DOMAIN c.sections \subseteq Names /\ c.sections \in [DOMAIN c.sections -> Tables]

(* The credential file.                                                    *)
Providers   == {Codex} \cup UNION {{f.accounts[i].provider : i \in DOMAIN f.accounts} : f \in Files}
Credentials == [kind : {"grant", "key"}, account : Owners \cup {None},
                access : Owners, refresh : Owners \cup {None}]
EntryType   == [name : Names, provider : Providers, credential : Credentials]
FileType    == [selected : Names \cup {None}, accounts : Seq(EntryType)]
Stored(f)   == {f.accounts[i].name : i \in DOMAIN f.accounts}

(* A selection that names no entry is left by a login that relabels the    *)
(* selected account, which is not a step of this module.                   *)
ASSUME NoneAssumption    == None \notin Names \cup Sessions
ASSUME FilesAssumption   == \A f \in Files : f \in FileType /\ f.selected \in Stored(f) \cup {None}
ASSUME ConfigsAssumption == \A c \in Configs : IsConfiguration(c)
ASSUME MappingAssumption ==
  /\ Values \subseteq Mapped /\ Unset \notin Mapped
  /\ DefaultTiers \in [Tiers -> Models] /\ Preferred \in Seq(Models)
ASSUME MenuAssumption ==
  DOMAIN Menu \subseteq Owners /\ \A owner \in DOMAIN Menu : Menu[owner] \subseteq Models

VARIABLES
  file,      \* the credential file
  config,    \* the configuration file
  policy,    \* the live policy: tiers, ceiling, consent
  catalog,   \* the list in force
  figures,   \* of each name: whose figure is filed under it
  nameless,  \* whose figure no account could be named for
  listed,    \* the session of the conversation
  opened,    \* of each session: the kind of its endpoint, and its socket
  up,        \* whether the daemon runs
  calls,     \* how many calls were made
  pc, arg, kept,       \* of each caller: where its call is, what it asked, what it holds
  at, route, session,  \* of each turn: where it is, how it is routed, its session
  as,                  \* the account it is made as
  drifted, before, owed, since, strayed \* history, see below

store  == <<file, config>>
lists  == <<catalog, figures, nameless>>
convs  == <<listed, opened>>
daemon == <<store, policy, lists, convs, up>>
caller == <<calls, pc, arg, kept, before>>
turn   == <<at, route, session, as, since>>
past   == <<drifted, owed, strayed>>
vars   == <<daemon, caller, turn, past>>

-----------------------------------------------------------------------------
(* Reading the credential store.                                           *)

PositionOf(f, name) == IF name = None THEN SelectedIndex(f) ELSE IndexOf(f, name)

(* The name of the account that serves turns; the id the backend knows an  *)
(* account by, which a key has not; whose credential it is.                *)
ServingName(f)     == IF SelectedIndex(f) = 0 THEN None ELSE f.accounts[SelectedIndex(f)].name
AccountId(f, name) == IF PositionOf(f, name) = 0 THEN None
                      ELSE f.accounts[PositionOf(f, name)].credential.account
Spends(f, name)    == IF PositionOf(f, name) = 0 THEN None
                      ELSE f.accounts[PositionOf(f, name)].credential.access

(* What a fetch as the account serving turns may bring.                    *)
Lists(f) ==
  IF Spends(f, None) \in DOMAIN Menu
  THEN LET menu == Menu[Spends(f, None)]
       IN  {Fetched(menu, menu \ Hidden, AccountId(f, None))}
  ELSE {}

-----------------------------------------------------------------------------
(* History.  `drifted`: the mapping in force is no longer meant to be the  *)
(* one the next start would resolve -- a change was not persisted, another *)
(* account took over without a select, a select or a rename that was       *)
(* refused could not be undone.  `before`: what was in force when a call   *)
(* came.  `owed`: the accounts a turn that begins now may be made as: the  *)
(* one serving, and those whose sessions a switch has yet to drop.         *)
(* `since`: those a turn under way may be made as.  `strayed`: the names   *)
(* that have, or may be given to an account that finds, the figure of      *)
(* another: filed late, left behind by a rename, yet to be forgotten.      *)

InForce(f, p, c) == [serving |-> Spends(f, None), policy |-> p, config |-> c]

(* The selection moves, or may have.                                       *)
Serves(f) ==
  /\ owed' = owed \cup {Spends(f, None)}
  /\ since' = [t \in Clients |-> IF at[t] = "idle" THEN {}
                               ELSE since[t] \cup {Spends(f, None)}]

(* A switch has dropped the sessions of whoever served before.             *)
Switched(f) == owed' = {Spends(f, None)}

-----------------------------------------------------------------------------
(* The daemon's start.                                                     *)

StartPolicy(f, c, list) ==
  [tiers   |-> Substituted(list, Resolved(c, ServingName(f))),
   ceiling |-> EffortFor(c, ServingName(f)),
   consent |-> c.consent]

(* Refused for a mapping that does not resolve, or names unknown models.   *)
CanStart(f, c, list) ==
  /\ Resolves(c, ServingName(f))
  /\ Validates(list, ValidatedModels(f, StartPolicy(f, c, list).tiers))

NoFigures == figures' = [n \in Names |-> None] /\ nameless' = None

TurnsEnd ==
  /\ at' = [t \in Clients |-> "idle"] /\ route' = [t \in Clients |-> None]
  /\ session' = [t \in Clients |-> None] /\ as' = [t \in Clients |-> None]
  /\ since' = [t \in Clients |-> {}]

(* What was asked over the socket, and the turns under way, are gone.      *)
Restart ==
  /\ up
  /\ \E list \in Lists(file) \cup {Fallback} :
       /\ up' = CanStart(file, config, list)
       /\ policy' = StartPolicy(file, config, list) /\ catalog' = list
  /\ NoFigures
  /\ listed' = None /\ opened' = [s \in Sessions |-> None]
  /\ pc' = [c \in Callers |-> "idle"]
  /\ kept' = [c \in Callers |-> None] /\ before' = [c \in Callers |-> None]
  /\ TurnsEnd
  /\ drifted' = FALSE /\ strayed' = {} /\ Switched(file)
  /\ arg' = [c \in Callers |-> None]
  /\ UNCHANGED <<store, calls>>

-----------------------------------------------------------------------------
(* A call, and its frame: what it moves is said step by step.              *)

Resting == {"idle", "answered", "refused", "stranded"}

Called(c, request, where, what) ==
  /\ up /\ pc[c] \in Resting /\ calls < MaxCalls
  /\ request.method \in Methods
  /\ calls' = calls + 1
  /\ arg' = [arg EXCEPT ![c] = request]
  /\ before' = [before EXCEPT ![c] = InForce(file, policy, config)]
  /\ kept' = [kept EXCEPT ![c] = what]
  /\ pc' = [pc EXCEPT ![c] = where]

(* A step of it, and what it holds then; all is let go when it ends.       *)
Takes(c, from, to, what) ==
  LET ends == to \in Resting
  IN  /\ pc[c] = from
      /\ pc' = [pc EXCEPT ![c] = to]
      /\ kept' = [kept EXCEPT ![c] = IF ends THEN None ELSE what]
      /\ arg' = [arg EXCEPT ![c] = IF ends THEN None ELSE @]
      /\ before' = [before EXCEPT ![c] = IF ends THEN None ELSE @]
      /\ UNCHANGED calls

Continues(c, from, to) == Takes(c, from, to, kept[c])

Within(c, from, method) == pc[c] = from /\ arg[c].method = method

(* write_target: whether a change takes effect on this daemon now; whether *)
(* it would change anything.                                               *)
AppliesNow(account) == account \in {None, ServingName(file)}
Matters(request) == AppliesNow(request.account) \/ request.persist
After(request) == IF request.persist THEN "editing" ELSE "applying"

(* write_config: the document was edited, and is written.                  *)
WriteConfig(c) ==
  /\ Continues(c, "writing", IF kept[c].now THEN "applying" ELSE "answered")
  /\ config' = kept[c].config
  /\ UNCHANGED <<file, policy, lists, convs, up, turn, past>>

-----------------------------------------------------------------------------
(* tiers.set: the mapping in force is read, and what it becomes.           *)

AskTiers(c) ==
  \E tier \in Tiers, value \in Values, account \in Stored(file) \cup {None}, persist \in Persists :
    /\ value.account # None => policy.consent
    /\ Called(c, [method |-> "tiers.set", tier |-> tier, value |-> value,
                  account |-> account, persist |-> persist], "checking tiers",
              [policy.tiers EXCEPT ![tier] = [model |-> value.model, account |-> value.account,
                                              defaulted |-> FALSE]])
    /\ UNCHANGED <<daemon, turn, past>>

(* Refused where the list in force has not got a model of the new mapping. *)
CheckTiers(c) ==
  LET now   == AppliesNow(arg[c].account)
      valid == /\ Matters(arg[c])
               /\ now => Validates(catalog, ValidatedModels(file, kept[c]))
  IN  /\ Takes(c, "checking tiers", IF valid THEN After(arg[c]) ELSE "refused",
               [tiers |-> kept[c], now |-> now])
      /\ UNCHANGED <<daemon, turn, past>>

(* As EditTiers, were a section of the serving account never looked for.   *)
EditTiersShared(c) ==
  /\ Within(c, "editing", "tiers.set")
  /\ Takes(c, "editing", "writing",
           [tiers |-> kept[c].tiers, now |-> kept[c].now,
            config |-> SetTier(config, arg[c].account, arg[c].tier, arg[c].value)])
  /\ UNCHANGED <<daemon, turn, past>>

(* Written where the value is read from.                                   *)
EditTiers(c) ==
  LET under == IF arg[c].account # None THEN arg[c].account
               ELSE ShadowingTier(config, ServingName(file), arg[c].tier)
  IN  /\ Within(c, "editing", "tiers.set")
      /\ Takes(c, "editing", "writing",
               [tiers |-> kept[c].tiers, now |-> kept[c].now,
                config |-> SetTier(config, under, arg[c].tier, arg[c].value)])
      /\ UNCHANGED <<daemon, turn, past>>

ApplyTiers(c) ==
  /\ Within(c, "applying", "tiers.set")
  /\ Continues(c, "applying", "answered")
  /\ policy' = [policy EXCEPT !.tiers = kept[c].tiers]
  /\ drifted' = (drifted \/ ~arg[c].persist)
  /\ UNCHANGED <<store, lists, convs, up, turn, owed, strayed>>

-----------------------------------------------------------------------------
(* effort.set                                                              *)

AskEffort(c) ==
  \E effort \in Efforts \cup {None}, account \in Stored(file) \cup {None}, persist \in Persists :
    LET request == [method |-> "effort.set", effort |-> effort,
                    account |-> account, persist |-> persist]
    IN  /\ Matters(request)
        /\ Called(c, request, After(request), [now |-> AppliesNow(account)])
        /\ UNCHANGED <<daemon, turn, past>>

EditEffort(c) ==
  LET under == IF arg[c].account # None THEN arg[c].account
               ELSE ShadowingEffort(config, ServingName(file))
  IN  /\ Within(c, "editing", "effort.set")
      /\ Takes(c, "editing", "writing",
               [now |-> kept[c].now, config |-> SetEffort(config, under, arg[c].effort)])
      /\ UNCHANGED <<daemon, turn, past>>

(* Once it is written, what is in force is read back.                      *)
ApplyEffort(c) ==
  /\ Within(c, "applying", "effort.set")
  /\ Continues(c, "applying", "answered")
  /\ policy' = [policy EXCEPT !.ceiling =
                  IF arg[c].persist THEN EffortFor(config, ServingName(file)) ELSE arg[c].effort]
  /\ drifted' = (drifted \/ ~arg[c].persist)
  /\ UNCHANGED <<store, lists, convs, up, turn, owed, strayed>>

-----------------------------------------------------------------------------
(* cross_account_tiers.set: not revoked while a tier in force is pinned.   *)

AskConsent(c) ==
  \E enabled \in BOOLEAN :
    /\ enabled \/ \A t \in Tiers : policy.tiers[t].account = None
    /\ Called(c, [method |-> "cross_account_tiers.set", enabled |-> enabled], "editing", None)
    /\ UNCHANGED <<daemon, turn, past>>

EditConsent(c) ==
  /\ Within(c, "editing", "cross_account_tiers.set")
  /\ Takes(c, "editing", "writing",
           [now |-> TRUE, config |-> SetCrossAccountTiers(config, arg[c].enabled)])
  /\ UNCHANGED <<daemon, turn, past>>

ApplyConsent(c) ==
  /\ Within(c, "applying", "cross_account_tiers.set")
  /\ Continues(c, "applying", "answered")
  /\ policy' = [policy EXCEPT !.consent = arg[c].enabled]
  /\ UNCHANGED <<store, lists, convs, up, turn, past>>

-----------------------------------------------------------------------------
(* accounts.rename: the store first, and back if the section cannot move.  *)

RenameInStore(c) ==
  \E from \in Stored(file), to \in Names :
    /\ CanRename(file, from, to)
    /\ Called(c, [method |-> "accounts.rename", from |-> from, to |-> to], "moving", None)
    /\ file' = Renamed(file, from, to)
    /\ strayed' = IF from = to THEN strayed ELSE strayed \cup {from}
    /\ UNCHANGED <<config, policy, lists, convs, up, turn, drifted, owed>>

MoveSection(c) ==
  LET from == arg[c].from
      to   == arg[c].to
  IN  /\ Continues(c, "moving", "answered")
      /\ CanMoveSection(config, to)
      /\ config' = IF from \in DOMAIN config.sections
                   THEN MovedSection(config, from, to) ELSE config
      /\ UNCHANGED <<file, policy, lists, convs, up, turn, past>>

RenameBack(c) ==
  LET from == arg[c].from
      to   == arg[c].to
  IN  /\ Continues(c, "moving", "refused")
      /\ ~CanMoveSection(config, to)
      /\ file' = IF CanRename(file, to, from) THEN Renamed(file, to, from) ELSE file
      /\ drifted' = (drifted \/ (ServingName(file) = to /\ ~CanRename(file, to, from)))
      /\ strayed' = IF from = to THEN strayed ELSE strayed \cup {to}
      /\ UNCHANGED <<config, policy, lists, convs, up, turn, owed>>

-----------------------------------------------------------------------------
(* Asking for the list again as the account serving turns: authorized, and *)
(* landing later, or not at all.                                           *)

Authorize(c) ==
  /\ \/ Takes(c, "switched", "fetching", [kept[c] EXCEPT !.brings = Lists(file)])
     \/ Takes(c, "undone", "refetching", [kept[c] EXCEPT !.brings = Lists(file)])
     \/ Takes(c, "handed over", "landing", [kept[c] EXCEPT !.brings = Lists(file)])
  /\ UNCHANGED <<daemon, turn, past>>

Land(c) ==
  /\ \/ Continues(c, "fetching", "resolving")
     \/ Continues(c, "refetching", "refused")
     \/ Continues(c, "landing", "answered")
  /\ catalog' \in kept[c].brings \cup {catalog}
  /\ UNCHANGED <<store, policy, figures, nameless, convs, up, turn, past>>

-----------------------------------------------------------------------------
(* accounts.select                                                         *)

Selected(f, name) == [f EXCEPT !.selected = name]

AskSelect(c) ==
  \E name \in Names :
    /\ Called(c, [method |-> "accounts.select", account |-> name], "selecting",
              [previous |-> ServingName(file), brings |-> {}])
    /\ UNCHANGED <<daemon, turn, past>>

SelectInStore(c) ==
  LET name   == arg[c].account
      stored == name \in Stored(file)
  IN  /\ Continues(c, "selecting", IF stored THEN "switched" ELSE "refused")
      /\ file' = IF stored THEN Selected(file, name) ELSE file
      /\ Serves(file')
      /\ UNCHANGED <<config, policy, lists, convs, up, drifted, strayed>>
      /\ UNCHANGED <<at, route, session, as>>

(* put_mapping_in_force: what the file says of the account, judged by a    *)
(* list that may be another's only where that cannot be told.              *)
Accepts(f, c, list, name) ==
  /\ Resolves(c, name)
  /\ IsStaleFor(list, AccountId(f, None)) \/ Validates(list, ValidatedModels(f, Resolved(c, name)))

ResolveMapping(c) ==
  LET name == arg[c].account
  IN  /\ Takes(c, "resolving",
               IF Accepts(file, config, catalog, name) THEN "mapping" ELSE "undoing",
               [tiers |-> Resolved(config, name), ceiling |-> EffortFor(config, name),
                previous |-> kept[c].previous, brings |-> {}])
      /\ UNCHANGED <<daemon, turn, past>>

SetMapping(c) ==
  /\ Continues(c, "mapping", "capping")
  /\ policy' = [policy EXCEPT !.tiers = kept[c].tiers]
  /\ UNCHANGED <<store, lists, convs, up, turn, past>>

SetCeiling(c) ==
  /\ Continues(c, "capping", "dropping")
  /\ policy' = [policy EXCEPT !.ceiling = kept[c].ceiling]
  /\ drifted' = (arg[c].account # ServingName(file))
  /\ UNCHANGED <<store, lists, convs, up, turn, owed, strayed>>

(* As DropSessions, were the conversations kept.                           *)
KeepSessions(c) ==
  /\ Continues(c, "dropping", "answered")
  /\ nameless' = None
  /\ Switched(file)
  /\ UNCHANGED <<store, policy, catalog, figures, convs, up, turn, drifted, strayed>>

DropSessions(c) ==
  /\ Continues(c, "dropping", "answered")
  /\ nameless' = None
  /\ listed' = None /\ Switched(file)
  /\ UNCHANGED <<store, policy, catalog, figures, opened, up, turn, drifted, strayed>>

(* As UndoSelect, were the refusal returned as it is.                      *)
LeaveSelected(c) ==
  /\ Continues(c, "undoing", "refused")
  /\ UNCHANGED <<daemon, turn, past>>

(* Back to the account that served; the sessions stay as they are.         *)
UndoSelect(c) ==
  LET previous == kept[c].previous
  IN  \/ /\ Continues(c, "undoing", "undone")
         /\ previous \in Stored(file)
         /\ file' = Selected(file, previous) /\ Serves(file')
         /\ UNCHANGED <<config, policy, lists, convs, up, drifted, strayed>>
         /\ UNCHANGED <<at, route, session, as>>
      \/ /\ Continues(c, "undoing", "stranded")
         /\ previous \notin Stored(file)
         /\ drifted' = TRUE
         /\ UNCHANGED <<daemon, turn, owed, strayed>>

-----------------------------------------------------------------------------
(* accounts.forget: the account named, or the one serving turns.           *)

AskForget(c) ==
  \E name \in Stored(file) \cup {None} :
    /\ Called(c, [method |-> "accounts.forget", account |-> name], "forgetting",
              [serving |-> ServingName(file), brings |-> {}])
    /\ UNCHANGED <<daemon, turn, past>>

Forgotten(c) == IF arg[c].account # None THEN arg[c].account ELSE kept[c].serving

(* A name that is gone is refused; nothing to clear is not.                *)
ForgetInStore(c) ==
  LET name == arg[c].account
      i    == IF name = None THEN SelectedIndex(file) ELSE IndexOf(file, name)
  IN  /\ Continues(c, "forgetting", IF name # None /\ i = 0 THEN "refused" ELSE "forgot")
      /\ file' = IF i = 0 THEN file ELSE Removed(file, i)
      /\ strayed' = IF i = 0 THEN strayed ELSE strayed \cup {file.accounts[i].name}
      /\ Serves(file')
      /\ UNCHANGED <<config, policy, lists, convs, up, drifted>>
      /\ UNCHANGED <<at, route, session, as>>

(* What goes with the account; the rest only if it was the one serving.    *)
HandOver(c) ==
  LET handed == Forgotten(c) = kept[c].serving /\ Forgotten(c) # None
  IN  /\ Continues(c, "forgot", IF handed THEN "handed over" ELSE "answered")
      /\ nameless' = IF handed THEN None ELSE nameless
      /\ IF handed THEN listed' = None /\ Switched(file) ELSE UNCHANGED <<listed, owed>>
      /\ drifted' = (drifted \/ handed)
      /\ UNCHANGED <<store, policy, catalog, opened, up, turn>>

(* As ForgetFigure, were the figure left behind.                           *)
KeepFigure(c) ==
  /\ HandOver(c)
  /\ strayed' = strayed \ {Forgotten(c)}
  /\ UNCHANGED figures

ForgetFigure(c) ==
  /\ HandOver(c)
  /\ figures' = [n \in Names |-> IF n = Forgotten(c) THEN None ELSE figures[n]]
  /\ strayed' = strayed \ {Forgotten(c)}

-----------------------------------------------------------------------------
(* Figures: filed under a name, failing that under whoever serves now.     *)

Filed(who, name) ==
  LET under == IF name # None THEN name ELSE ServingName(file)
  IN  IF under = None THEN nameless' = who /\ UNCHANGED <<figures, strayed>>
      ELSE /\ figures' = [figures EXCEPT ![under] = who]
           /\ strayed' = IF Spends(file, under) = who THEN strayed \ {under}
                         ELSE strayed \cup {under}
           /\ UNCHANGED nameless

(* usage.refresh                                                           *)
AskUsage(c) ==
  /\ Spends(file, None) # None
  /\ Called(c, [method |-> "usage.refresh"], "measuring", Spends(file, None))
  /\ UNCHANGED <<daemon, turn, past>>

RecordUsage(c) ==
  /\ \/ Continues(c, "measuring", "answered") /\ Filed(kept[c], None)
     \/ Continues(c, "measuring", "refused") /\ UNCHANGED <<figures, nameless, strayed>>
  /\ UNCHANGED <<store, policy, catalog, convs, up, turn, drifted, owed>>

-----------------------------------------------------------------------------
(* login: the grant that was authorized in a browser lands in the store.   *)
(* Of an account that is not there, under a name that is free; a login     *)
(* that relabels an account is TokenRefresh's.                             *)

Login ==
  \E owner \in DOMAIN Menu, label \in Labels \cup {None} :
    LET grant == Grant(owner, owner, owner)
    IN  /\ up /\ calls < MaxCalls /\ "login" \in Methods
        /\ IndexByAccount(file, owner) = 0
        /\ IndexOf(file, AddName(file, grant, label)) = 0
        /\ calls' = calls + 1
        /\ file' = Added(file, grant, label) /\ Serves(file')
        /\ drifted' = (drifted \/ SelectedIndex(file) = 0)
        /\ UNCHANGED <<config, policy, lists, convs, up, pc, arg, kept, before, strayed>>
        /\ UNCHANGED <<at, route, session, as>>

-----------------------------------------------------------------------------
(* A turn.                                                                 *)

Moves(t, from, to) == at[t] = from /\ at' = [at EXCEPT ![t] = to]

Done(t) ==
  /\ at' = [at EXCEPT ![t] = "idle"]
  /\ route' = [route EXCEPT ![t] = None] /\ session' = [session EXCEPT ![t] = None]
  /\ as' = [as EXCEPT ![t] = None] /\ since' = [since EXCEPT ![t] = {}]

(* How a turn goes that asks for the word of a tier, or for the id the     *)
(* client was handed at launch.                                            *)
Routing(asked) ==
  LET pin    == IF asked \in Tiers THEN policy.tiers[asked].account ELSE None
      claims == RelayingClaimants(file, policy.tiers, asked)
  IN  [pin     |-> pin,
       relayed |-> IF claims # {} THEN CHOOSE n \in claims : TRUE ELSE RelayedBy(file, pin)]

(* One snapshot of the policy for the whole turn.                          *)
Route(t) ==
  /\ up /\ at[t] = "idle"
  /\ \E how \in {Routing(asked) : asked \in {q \in Tiers \cup Models :
                                             ~Ambiguous(file, policy.tiers, q)}} :
       /\ Moves(t, "idle", IF how.relayed # None THEN "relaying" ELSE "routed")
       /\ route' = [route EXCEPT ![t] = how]
  /\ since' = [since EXCEPT ![t] = owed]
  /\ UNCHANGED <<daemon, caller, past, session, as>>

Forward(t) ==
  LET who == Spends(file, route[t].relayed)
  IN  /\ up /\ at[t] = "relaying"
      /\ \/ who = None /\ Done(t)
         \/ /\ who # None
            /\ Moves(t, "relaying", "answering") /\ as' = [as EXCEPT ![t] = who]
            /\ UNCHANGED <<route, session, since>>
      /\ UNCHANGED <<daemon, caller, past>>

Resolve(t) ==
  /\ up /\ Moves(t, "routed", "resolved")
  /\ \E s \in Sessions :
       /\ IF listed # None THEN s = listed ELSE \A u \in Clients : session[u] # s
       /\ session' = [session EXCEPT ![t] = s] /\ listed' = s
       /\ opened' = IF listed # None THEN opened ELSE [opened EXCEPT ![s] = None]
  /\ UNCHANGED <<store, policy, lists, up, caller, route, as, since, past>>

(* The endpoint of a conversation is that of the account serving turns     *)
(* when its first turn is sent.                                            *)
KindOf(f, name) ==
  IF PositionOf(f, name) = 0 THEN "grant" ELSE f.accounts[PositionOf(f, name)].credential.kind

Endpoint(s) ==
  IF opened[s] = None THEN [kind |-> KindOf(file, None), socket |-> None] ELSE opened[s]

(* An open socket keeps the account it was dialed as, and serves the pin   *)
(* it was dialed for; a credential of another kind is refused.             *)
Send(t) ==
  LET s      == session[t]
      socket == Endpoint(s).socket
      pin    == route[t].pin
      reused == socket # None /\ socket.pin = pin
      dials  == Spends(file, pin) # None /\ KindOf(file, pin) = Endpoint(s).kind
  IN  /\ up /\ at[t] = "resolved"
      /\ opened' = [opened EXCEPT ![s] = [Endpoint(s) EXCEPT !.socket = None]]
      /\ \/ ~reused /\ ~dials /\ Done(t)
         \/ /\ reused \/ dials
            /\ Moves(t, "resolved", "answering")
            /\ as' = [as EXCEPT ![t] = IF reused THEN socket.as ELSE Spends(file, pin)]
            /\ UNCHANGED <<route, session, since>>
      /\ UNCHANGED <<store, policy, lists, listed, up, caller, past>>

(* The answer: a figure rides it, and its socket is parked; or it breaks.  *)
Record(t) ==
  LET s == session[t]
  IN  /\ up /\ at[t] = "answering" /\ Done(t)
      /\ \/ /\ Filed(as[t], IF route[t].relayed # None THEN route[t].relayed ELSE route[t].pin)
            /\ opened' = IF s = None \/ opened[s].kind = "key" THEN opened
                         ELSE [opened EXCEPT ![s].socket = [pin |-> route[t].pin, as |-> as[t]]]
         \/ UNCHANGED <<figures, nameless, strayed, opened>>
      /\ UNCHANGED <<store, policy, catalog, listed, up, caller, drifted, owed>>

-----------------------------------------------------------------------------
Init ==
  /\ file \in Files /\ config \in Configs
  /\ catalog \in Lists(file) \cup {Fallback}
  /\ CanStart(file, config, catalog) /\ up = TRUE
  /\ policy = StartPolicy(file, config, catalog)
  /\ figures = [n \in Names |-> None] /\ nameless = None
  /\ listed = None /\ opened = [s \in Sessions |-> None]
  /\ calls = 0 /\ pc = [c \in Callers |-> "idle"]
  /\ arg = [c \in Callers |-> None] /\ kept = [c \in Callers |-> None]
  /\ at = [t \in Clients |-> "idle"] /\ route = [t \in Clients |-> None]
  /\ session = [t \in Clients |-> None] /\ as = [t \in Clients |-> None]
  /\ drifted = FALSE /\ before = [c \in Callers |-> None] /\ strayed = {}
  /\ owed = {Spends(file, None)} /\ since = [t \in Clients |-> {}]

Setting(c) ==
  \/ AskTiers(c) \/ CheckTiers(c) \/ EditTiers(c) \/ ApplyTiers(c)
  \/ AskEffort(c) \/ EditEffort(c) \/ ApplyEffort(c)
  \/ AskConsent(c) \/ EditConsent(c) \/ ApplyConsent(c)
  \/ WriteConfig(c)

Switching(c) ==
  \/ RenameInStore(c) \/ MoveSection(c) \/ RenameBack(c)
  \/ AskSelect(c) \/ SelectInStore(c) \/ ResolveMapping(c) \/ SetMapping(c) \/ SetCeiling(c)
  \/ DropSessions(c) \/ UndoSelect(c)
  \/ AskForget(c) \/ ForgetInStore(c) \/ ForgetFigure(c)
  \/ Authorize(c) \/ Land(c)
  \/ AskUsage(c) \/ RecordUsage(c)

Serving(t) == Route(t) \/ Forward(t) \/ Resolve(t) \/ Send(t) \/ Record(t)

Next ==
  \/ \E c \in Callers : Setting(c) \/ Switching(c)
  \/ \E t \in Clients : Serving(t)
  \/ Login \/ Restart

Spec == Init /\ [][Next]_vars

-----------------------------------------------------------------------------
(* Properties.                                                             *)

(* The two files, the policy and the lists are of their form.              *)
TypeOK ==
  /\ file.selected \in Names \cup {None} /\ Stored(file) \subseteq Names
  /\ DOMAIN config.sections \subseteq Names /\ config.consent \in BOOLEAN
  /\ \A t \in Tiers : /\ policy.tiers[t].model \in Models
                      /\ policy.tiers[t].account \in Names \cup {None}
  /\ policy.consent \in BOOLEAN /\ catalog.models \subseteq Models
  /\ figures \in [Names -> Owners \cup {None}] /\ nameless \in Owners \cup {None}
  /\ listed \in Sessions \cup {None} /\ as \in [Clients -> Owners \cup {None}]
  /\ \A t \in Clients : at[t] = "answering" => as[t] # None

(* Between calls, what is in force is what the file would have in force at *)
(* the next start: a persisted change is written where it is read from,    *)
(* and what one account states shadows what all share.                     *)
PersistedIsInForce ==
  (up /\ ~drifted /\ \A c \in Callers : pc[c] \in Resting) =>
    LET name == ServingName(file)
    IN  /\ policy.consent = config.consent /\ policy.ceiling = EffortFor(config, name)
        /\ \A t \in Tiers :
             LET live == policy.tiers[t]  written == Resolved(config, name)[t]
             IN  live.defaulted = written.defaulted /\ (~live.defaulted => live = written)

(* A call that is refused leaves the daemon where it was: the account that *)
(* serves, the mapping and the two files' say on it -- through a switch    *)
(* that got as far as fetching the other account's list, and a rename that *)
(* got as far as the store.                                                *)
RefusedMovesNothing ==
  [][\A c \in Callers :
       (pc[c] \notin Resting /\ pc'[c] = "refused") =>
         /\ before[c].serving \in {None, Spends(file', None)}
         /\ before[c].policy = policy' /\ before[c].config = config']_vars

(* A turn that no tier pins is made as the account that serves when it     *)
(* begins or comes to serve while it is under way: once a switch has       *)
(* answered, no session's socket still spends the account before.          *)
ServedAsOwed ==
  \A t \in Clients :
    (at[t] = "answering" /\ route[t].pin = None /\ route[t].relayed = None)
      => as[t] \in since[t]

(* A figure under the name of a stored account is that account's, unless   *)
(* the name changed hands while it was being asked for, was renamed, or is *)
(* being forgotten with it.                                                *)
HeadroomIsOwn ==
  \A n \in Stored(file) \ strayed : figures[n] \in {None, Spends(file, n)}
=============================================================================
