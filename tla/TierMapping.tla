----------------------------- MODULE TierMapping -----------------------------
(***************************************************************************)
(* The tier mapping as a value: what the configuration file says of an     *)
(* account (proxy/src/config.rs), what the setters of the control socket   *)
(* make of the file (config/edit.rs, judged by the values it reads as      *)
(* afterwards), and what the catalog has to say about it (catalog.rs,      *)
(* upstream/relay.rs).                                                     *)
(*                                                                         *)
(* A table of the file holds a value, or Unset, for each tier, and an      *)
(* effort, or None.  A model is a model value; an effort ceiling too, as   *)
(* nothing here compares two.                                              *)
(***************************************************************************)
EXTENDS Accounts, FiniteSets

CONSTANTS
  Tiers,        \* opus, sonnet, haiku, fable
  Models,       \* the ids of models
  Marked,       \* those that carry a [1m] marker
  DefaultTiers, \* what each tier maps to when nothing is written
  Preferred,    \* the defaults to fall back to, best first
  Relayed,      \* the provider whose turns are relayed
  Unset         \* a tier a table does not name

(* A model, and the account the tier is pinned to, or None.                *)
TierValue(model, account) == [model |-> model, account |-> account]

Nothing == [tiers |-> [t \in Tiers |-> Unset], effort |-> None]

-----------------------------------------------------------------------------
(* Reading the file: an account's own section over the shared tables.      *)

SectionOf(config, account) ==
  IF account \in DOMAIN config.sections THEN config.sections[account] ELSE Nothing

TiersFor(config, account) ==
  [t \in Tiers |-> LET own == SectionOf(config, account).tiers[t]
                   IN  IF own # Unset THEN own ELSE config.shared.tiers[t]]

EffortFor(config, account) ==
  LET own == SectionOf(config, account).effort
  IN  IF own # None THEN own ELSE config.shared.effort

(* resolve: refused for a pin without consent, and for a marked model.     *)
Resolves(config, account) ==
  LET tiers == TiersFor(config, account)
  IN  \A t \in Tiers : tiers[t] # Unset =>
        (tiers[t].account # None => config.consent) /\ tiers[t].model \notin Marked

(* As Resolved, were an unset tier left as it is.                          *)
ResolvedBare(config, account) ==
  [t \in Tiers |-> LET value == TiersFor(config, account)[t] IN
     IF value = Unset THEN [model |-> Unset, account |-> None, defaulted |-> TRUE]
     ELSE [model |-> value.model, account |-> value.account, defaulted |-> FALSE]]

Resolved(config, account) ==
  [t \in Tiers |-> LET value == TiersFor(config, account)[t] IN
     IF value = Unset
     THEN [model |-> DefaultTiers[t], account |-> None, defaulted |-> TRUE]
     ELSE [model |-> value.model, account |-> value.account, defaulted |-> FALSE]]

-----------------------------------------------------------------------------
(* Writing it: where the value is read from.                               *)

Table(config, account) ==
  IF account = None THEN config.shared ELSE SectionOf(config, account)

WithTable(config, account, table) ==
  IF account = None THEN [config EXCEPT !.shared = table]
  ELSE [config EXCEPT !.sections = [n \in DOMAIN @ \cup {account} |->
                                      IF n = account THEN table ELSE @[n]]]

SetTier(config, account, tier, value) ==
  WithTable(config, account, [Table(config, account) EXCEPT !.tiers[tier] = value])

SetEffort(config, account, effort) ==
  WithTable(config, account, [Table(config, account) EXCEPT !.effort = effort])

SetCrossAccountTiers(config, enabled) == [config EXCEPT !.consent = enabled]

(* Refused where the destination already has a section.                    *)
CanMoveSection(config, to) == to \notin DOMAIN config.sections

MovedSection(config, from, to) ==
  [config EXCEPT !.sections = [n \in (DOMAIN @ \ {from}) \cup {to} |->
                                 IF n = to THEN @[from] ELSE @[n]]]

(* The serving account, where its section already states the tier; the     *)
(* effort likewise.                                                        *)
ShadowingTier(config, serving, tier) ==
  IF SectionOf(config, serving).tiers[tier] # Unset THEN serving ELSE None

ShadowingEffort(config, serving) ==
  IF SectionOf(config, serving).effort # None THEN serving ELSE None

-----------------------------------------------------------------------------
(* Who relays.                                                             *)

(* The entry a pin names, or the one serving, where its turns are relayed. *)
RelayedBy(file, pin) ==
  LET i == IF pin = None THEN SelectedIndex(file) ELSE IndexOf(file, pin)
  IN  IF i # 0 /\ file.accounts[i].provider = Relayed THEN file.accounts[i].name ELSE None

(* The models the list in force is a menu for.                             *)
ValidatedModels(file, tiers) ==
  {tiers[t].model : t \in {u \in Tiers : tiers[u].account = None
                                         /\ RelayedBy(file, None) = None}}

(* account_for: the account a turn for this model is relayed as, or None.  *)
Claimants(tiers, model) == {tiers[t].account : t \in {u \in Tiers : tiers[u].model = model}}

RelayingClaimants(file, tiers, model) ==
  {RelayedBy(file, pin) : pin \in Claimants(tiers, model)} \ {None}

(* Refused where several accounts claim a model and one of them relays.    *)
Ambiguous(file, tiers, model) ==
  RelayingClaimants(file, tiers, model) # {} /\ Cardinality(Claimants(tiers, model)) > 1

-----------------------------------------------------------------------------
(* The list of models in force, and whose it is.                           *)

Fallback == [models |-> {}, visible |-> {}, authoritative |-> FALSE, of |-> None]

Fetched(menu, listed, account) ==
  [models |-> menu, visible |-> listed, authoritative |-> TRUE, of |-> account]

(* Nothing is stale for an account, or of a list, without an id.           *)
IsStaleFor(catalog, account) ==
  catalog.of # None /\ account # None /\ catalog.of # account

Validates(catalog, models) == catalog.authoritative => models \subseteq catalog.models

(* What is mapped to, and withheld from the picker.                        *)
Unlisted(catalog, models) ==
  IF catalog.authoritative THEN models \cap (catalog.models \ catalog.visible) ELSE {}

(* A default the account has not got gives way to one that it has: the     *)
(* best preferred, failing that any that is offered.                       *)
Substitutes(catalog) ==
  LET best == SelectInSeq(Preferred, LAMBDA m : m \in catalog.visible)
  IN  IF best # 0 THEN {Preferred[best]} ELSE catalog.visible

Substituted(catalog, tiers) ==
  IF ~catalog.authoritative \/ Substitutes(catalog) = {} THEN tiers
  ELSE [t \in Tiers |-> IF tiers[t].defaulted /\ tiers[t].model \notin catalog.models
                        THEN [tiers[t] EXCEPT !.model = CHOOSE m \in Substitutes(catalog) : TRUE]
                        ELSE tiers[t]]
=============================================================================
