# A formal model of codex-cc-proxy

The proxy lets a Messages API client (Claude Code) be answered by a Responses
backend. The client is stateless from turn to turn: it replays the whole
conversation in every request. The proxy is not: it recognises the conversation,
keeps what the backend holds of it, and uploads only what is new when that is
safe. Most of what can silently go wrong in this program follows from that
memory, so the model starts there.

Paths below are relative to the repository; `§` refers to
`docs/proxy-behavior.md`.

## 1. Inventory

| Part | Source | State | Operations | Hard behaviour |
|---|---|---|---|---|
| Ingress handler | `crates/proxy/src/ingress.rs` | a turn's locals, its event stream | `messages`, `frame_stream`, `close_turn`, `count_tokens`, `models` | reads of session state separated by other turns' writes; a client that disconnects at any await; failures before and after the first byte |
| Session memory | `crates/proxy/src/session.rs`, `crates/core/src/session.rs` | baseline, confirmed, last request, last response id, one lock each | `seed_if_unconfirmed`, `previous`, `remember_request`, `remember_response`, `advance`, `reconcile`, `plan` | check-then-act across locks; items the client can never replay |
| Session store | `crates/proxy/src/session.rs` | the list of sessions, most recently used first | `resolve`, `lookup`, `best_match`, `clear` | identity derived from content; 64 sessions; idle sweep |
| Conduit, pool | `crates/proxy/src/upstream/{conduit,pool,websocket}.rs` | the parked connection, the latch, what each connection saw and whose credential opened it | `send`, `pump`, `park`, `prewarm` | stale sockets and one retry, policy closes, fallback for life, two turns parking, a pump task beside the handler |
| HTTP transport | `crates/proxy/src/upstream/http.rs` | none | `stream` | body that breaks mid-turn |
| Credential store | `crates/proxy/src/auth/store.rs` | one file: accounts, kinds, selection; a lock file | `load`, `save`, `save_for`, `add`, `add_key`, `select`, `rename`, `remove`, `clear` | CLI, daemon and hand edits rewriting one file; crash between write and rename |
| Token refresh, authorization | `crates/proxy/src/auth/{tokens,authorize}.rs` | refused token, single-flight lock, a source per pinned account | `access_token`, `refresh`, `authorize` | the store moving during a round trip; two sources for one grant |
| Login flow | `crates/proxy/src/auth/{daemon_login,login,flow,pkce}.rs` | the flow in flight, the callback port | `start`, `cancel`, the flow's task | spawn before remember, cancel, timeout and callback racing |
| Control plane | `crates/proxy/src/control/*`, `policy.rs`, `config/edit.rs` | live policy, configuration file | `tiers.set`, `effort.set`, `cross_account_tiers.set`, `accounts.*`, `usage.refresh` | read-modify-write in steps, awaits inside a switch, rollback |
| Catalog, usage | `crates/proxy/src/{catalog,usage}.rs` | the list in force and whose it is; figures by account | `refresh`, `record_for`, `forget` | out-of-order fetches, figures that land late |
| Response translation | `crates/core/src/translate/response.rs`, `anthropic/{aggregate,stream}.rs` | the open block, indices, pending searches | `push`, `finish`, `aggregate` | any order of events, failure inside a block |
| Request translation | `crates/core/src/translate/request.rs` | none | `translate_request` | stateless, but what the client hands back of a response has to line up with what the turn retained |
| Relay | `crates/proxy/src/upstream/relay.rs` | none of its own | `account_for`, `forward` | which account a turn may be spent as |
| Daemon lifetime | `crates/proxy/src/daemon.rs`, `control/mod.rs`, the run loop of `main.rs` | a stop asked for, a permit | `request`, `release`, `wait`, `handle_connection` | a stop answered before anyone waits for it, answers of several connections, a restart |
| Estimator, recorder, SSE decoder | `estimate.rs`, `recorder.rs`, `crates/core/src/sse.rs` | a ratio; a directory; a partial line | | chunk boundaries, concurrent calibration and pruning |
| CLI, rendering, doctor, probes, supervisor, configuration parsing | the rest | none shared | | sequential |

How they interact. A request enters `messages`, which takes one policy snapshot,
translates, asks the store for a session, and from there works on that session's
memory and conduit. The conduit asks the authorizer for credentials each time it
dials or posts; the authorizer reads the credential file. The conduit hands back
a stream fed by a pump task; the handler's stream translates it, and closes the
turn when it ends. The control socket selects accounts, moves the policy, clears
the store and refreshes the catalog beside all of that, on the same
multi-threaded runtime.

What makes each part correct, in a sentence: the backend always answers the
conversation the client sent; a conversation stays in its own session; a socket
carries one turn, of its own account; a grant is never lost, spent as somebody
else or written over another; a login ends and frees its port; what the daemon
reports is what it does; the client's stream is well formed.

## 2. Modules

| Module | Models | State and actions |
|---|---|---|
| `Items` | `crates/core/src/session.rs` | pure operators: `Extends`, `Delta`, `Reconciles`, `Reconcile`, `PlansDelta` |
| `ConversationService` | nothing in the code: the promise | a turn is asked, at most once heard as asked, ends |
| `SessionTurns` | ingress handler, session memory, conduit, pool, pump, and the backend as far as they rely on it | below |
| `SessionStore` | `SessionStore` of `proxy/src/session.rs`, and of a turn only when it resolves, claims and closes | below |
| `Accounts` | the credential file as a value, `auth/store.rs` | pure operators: one per verb, and what each refuses |
| `TokenRefresh` | `auth/authorize.rs`, `auth/tokens.rs`, over `Accounts` | below |
| `ClientStream` | the frames of `anthropic/stream.rs`, and the client that reads them (external) | `Reads`, what a reader makes of one more frame |
| `ResponseTranslator` | `core/src/translate/response.rs`, and the end of the stream in `frame_stream` | below |
| `MessageBody` | `anthropic/aggregate.rs` | the same frames as a fold: `Fold`, `Body` |
| `Efforts` | `effort_for`, `nearest_supported`, the order of `responses.rs` | pure operators |
| `RequestTranslator` | `core/src/translate/request.rs`, `non_input_fields_match` | pure operators, one per function |
| `Echo` | the turn after: what the client makes of a response, translated and compared | composes `ResponseTranslator`, `RequestTranslator`, `Items` |
| `AccountBook` | nothing in the code: what the store promises | a verb happens at once or not at all |
| `CredentialFile` | one write of the file: `update`, `lock`, `replace_if_unchanged`, `write` | below |
| `TierMapping` | tier resolution of `config.rs`, `config/edit.rs`, `catalog.rs`, the routing of `relay.rs` | pure operators over `Accounts` |
| `Control` | `control/handler.rs`, `policy.rs`, and a turn as far as they move under it | below |
| `LoginFlow` | `auth/daemon_login.rs`, `auth/login.rs` | below |
| `Daemon` | `control/mod.rs`, `daemon.rs`, the run loop; extends `LoginFlow` | below |
| `SessionTurns_proofs`, `SessionStore_proofs`, `TokenRefresh_proofs`, `CredentialFile_proofs`, `Control_proofs`, `Daemon_proofs`, `Translation_proofs` | | the theorems about each; `Translation_proofs` is about `ResponseTranslator`, `Efforts` and `Echo` |
| `Items_proofs` | | induction, and the lemmas about conversations that those share |
| `MCSessionTurns`, `MCSessionStore`, `MCTokenRefresh`, `MCEcho`, `MCControl`, `MCCredentialFile`, `MCDaemon` | | what TLC needs: symmetry, functions as constants |

How they compose. `SessionTurns` and `SessionStore` are two views of one handler:
the first takes one session apart, the second the list of them. `TokenRefresh` is
what the conduit's dials and posts go through, and `ResponseTranslator` what its
events come out as; each is composed with the turn only through the steps `Dial`,
`PostOverHttp` and `ReturnItem` of `SessionTurns`, which say no more of them than
that they succeed or fail. `Echo` closes the circle the other way: what a turn
retained and what the client hands back meet in the comparison of `Items`.
`Accounts` is the credential file as a value; `TokenRefresh` and `Control` change
it in one step per verb, and `CredentialFile` shows that a step is what the store
makes of a verb (it implements `AccountBook`). `Daemon` is `LoginFlow` inside the
process that serves it.

### SessionTurns

One session, any number of turns. A step is what one task does under one lock or
between two awaits. `pc[t]` is where the handler of turn t is, `pump[t]` where
the task draining its connection is; both run at once.

- Session memory: `baseline`, `confirmed`, `lastFields` (of `last_request` only
  the non-input fields matter), `lastResponse`. Each is read and written in a
  step of its own, as each has a lock of its own: `Snapshot` and
  `ReadLastRequest`, `ReadLastResponse` are three steps, `CheckConfirmed` and
  `Claim` two, `RememberResponse`, `Advance`, `Confirm` three.
- Conduit: `slot`, `latched`, and `conn[k]` with its three attributes. `Take`
  takes the slot, drops a connection of another account and plans the upload.
  `StaleConnection` is the one retry, `PolicyClose` and `DialFails` latch.
- Stream: `NameResponse`, `ReturnItem`, then one of `Complete`, `Fail`,
  `Truncate`, `Break`; `Park` ends the stream after a terminal event. The
  handler sees the end of the stream only after the pump has parked or dropped
  the connection, because the channel closes with the pump task; a refusal in
  the preamble it sees at once.
- `Disconnect` drops the handler at any await. A connection carrying an open
  stream is closed at once in the model; the code closes it when the next event
  finds no receiver, so the model shortens the wait and nothing else.
- Backend: `heard[t]`, the conversation it answers turn t for, and `held[t]`,
  the response it can be asked to continue, on which connection. A delta whose
  previous response the connection does not hold can only be refused.

Abstractions. Items are compared by canonical content (server id stripped,
arguments parsed), so equality is `=`. Of a request, `input` is a sequence of
items and every other field one value. A response returns reasoning, an answer,
or both in that order. A turn dials at most one connection and receives at most
one response, so both are named after it. The translation done before `resolve`
and the one that is sent give the same items. An HTTP body that breaks after its
terminal event is a `Disconnect` at that point: neither closes the turn.
`response.incomplete` is `Complete` when it carries an answer. The estimator,
captures, usage figures and frames are left out; `prewarm` is called by nothing
in the daemon. Whether a previous response of a failed turn is held is the
backend's business: the model never lets it be.

### SessionStore

`store` is the list, most recently used first; `idle` the sessions an hour has
passed for; baselines and `confirmed` per session. `Resolve` is the whole of
`resolve` under its lock: sweep, match, move or insert, truncate. `Claim` is what
the handler does next; `Close` and `Drop` are the two ends a turn has as far as
the store can tell. `GoIdle` lets an hour pass, from the back of the list, since
resolve alone touches a session. `Clear` is an account switch, at any moment. A
session that left the list lives on in the turns that hold it.

`Window` says whether a request may resolve between another's resolve and its
claim; the code allows it.

### TokenRefresh

`file` is the credential file, and a verb of the operator one step on it
(`Accounts`), since everybody who takes the store's lock reads, changes and
replaces it under that lock. `pc[r]` is where a request is between two reads of
the file: `Ask` reads the kind of credential, `AccessToken` the grant, `Recheck`
the grant again under the source's lock, `Save` writes what the exchange brought,
`AccountId` reads the account id for the header. `source[r]` is `Serving` or the
name a tier is pinned to; each source has its own lock (`holder`) and its own
memory of a refusal (`refused`), as `rebind` builds them. `Exchange`,
`RefuseGrant` and `FailTransiently` are the three answers of the authorization
server, and `Cancel` drops the request's future, and its lock, at either await.
`Lapse` is time. Whether the server still honours a refresh token is its choice
at every exchange, so no property rests on a rotated token being refused.

Abstractions. Verbs are issued by a login whose authorization succeeded, never
while another verb holds the lock. A file that cannot be read or replaced fails
its request; only `Save`, where that loses a rotation, has the disjunct. An
exchange without an access token, an unreadable expiry and the refresh count are
left out.

### CredentialFile

`at[w]` is where in `update` a writer is, each in a process that may hold others.
`Lock` waits for the lock, `Read` takes the file (`raw`) and applies the verb to a
`copy`, `Compare` looks at the file again and either goes on or starts over, up to
`Attempts` times. `Remove` takes the file away; `Open`, `Fill` and `Rename` are
the three steps of the write, in a pending file of the process's own. `Answer`
lets the lock go with the outcome. `LockFails`, `Breaks`, and the failing
disjuncts of `Fill` and `Rename` are the errors of the file system. `Edit` is a
writer that takes no lock and replaces the file in one step, at any moment; `Die`
takes a process with its lock. The disk is left as it is: a pending file cut
short stays behind.

Abstractions. A verb adds or removes one name; what it makes of an entry is
`Accounts`. Two files are equal when their shape and accounts are: an edit that
writes back the very bytes is no edit. The edits touch names of their own, so
that what is theirs and what is the verbs' can be told apart.

### Control and TierMapping

One step of a method is what it does between two points where something it uses
may have moved: an await, or the next access to another of the stores. `pc[c]`,
`arg[c]` and `kept[c]` are the call a caller has under way, what it asked and
what it read. `tiers.set` is `AskTiers`, `CheckTiers`, `EditTiers`,
`WriteConfig`, `ApplyTiers`; `accounts.select` is `AskSelect`, `SelectInStore`,
`Authorize`, `Land`, `ResolveMapping`, `SetMapping`, `SetCeiling`,
`DropSessions`, or from a refusal `UndoSelect`, `Authorize`, `Land`. Beside the
calls: a turn (`Route`, `Forward` or `Resolve` and `Send`, `Record`), a login
that completes, and a restart from the two files as they are. A turn's
credential is whose account it spends, so `as[t]` is what it is made as.

The history variables say what a run of the daemon owes: `drifted` that the
mapping in force is not meant to be the file's (a change not persisted, an
account that took over without a select, a refused select or rename that could
not be undone); `owed` and `since` which accounts may serve a turn; `strayed` the
names under which a figure may be another's. They are the exceptions of the
properties, and each is a case of section 5 or what the operator asked for.

### LoginFlow and Daemon

A flow is a number, which stands for its URL and its state. `stage[f]` follows
the flow from `begin` through the listener, the callback and the exchange to the
task's end; `current` is the flow a caller joins; `at[c]`, `work[c]`, `reply[c]`
are where a connection is in `start`. Binding, spawning and remembering are
three steps, as the task runs from the moment it is spawned. `Callback(f, g)` is
the tab of any flow somebody was given the URL of. `Cancelled`, `TimeOut`,
`Fails` and `Store` race; `Clear` and `DropListener` end the task. The CLI's own
login has the same callback and no timer.

`Daemon` adds the stop: `requested`, the permit that `notify_one` stores, the run
loop from before it waits until it returns, and `Start`, a supervisor's. `Answer`
writes and flushes one line and only then looks at the flag, which is the
daemon's and not the connection's. `Exit` takes every flow, connection and answer
not yet written with it.

### ResponseTranslator, MessageBody, RequestTranslator, Echo

`t` is the translator, a record with the fields of the struct that decide what
is sent; one operator per method, composed as the methods call one another. Each
`Push` sends one frame: the client's reader reads it (the field `reader`) and
`folded` folds it as `aggregate` does, so the state is what a reader knows and
not the frames there were. An action is an event of the backend. The backend is
any that streams a call's fragments in order and either all or none of them
before the call is done; otherwise its events mix as they like, calls may go
unnamed until done, and the stream ends anywhere, with a terminal event or
without. `returned` are the items `close_turn` keeps; `mixed` and `split` say
whether the backend let items overlap.

`Echo` adds no state. For every completed response of that model and every kind
of tool result it makes the client's next messages, translates them, and compares
them with the baseline the turn left.

Abstractions. The stream ends at its terminal event, as `pump` makes it; over
HTTP, where nothing does, a body that breaks after it would add an error frame.
A fragment is a number; text and thinking are all alike. A JSON document is the
value it stands for, so `parse` and `to_string` are inverses, except where
arguments were cut short. A search that opens a page adds sources only and is
left out, with usage, the schemas of tools and the names of files.

## 3. Runs

| Run | Question | Bounds | Result |
|---|---|---|---|
| `turns_serial` | does the backend always answer what was asked? | 3 turns, one after another | holds |
| `turns_overlap` | who owns a connection, whose credential is it, is a full upload faithful? | 2 turns at once, 2 messages, 2 accounts | holds |
| `turns_liveness` | does every request end; is the session the service it stands for? | 2 turns | holds |
| `turns_wrong_delta` | the first question, with requests that overlap | 2 turns at once | violated |
| `store` | does a follow-up find its session; do conversations stay apart; is eviction fair? | 4 turns, 2 messages, 2 sessions | holds |
| `refresh` | where do rotated grants land, who exchanges what, what is left alone? | 2 requests, 3 accounts (one pinned, one without an id), 1 label, 4 token pairs, 3 verbs | holds |
| `refresh_liveness` | does a refresh lock ever stay behind? | 2 requests, 2 accounts, 2 providers of keys, 3 token pairs, 2 verbs | holds |
| `credential_file` | is a write of the file atomic, whoever else writes or dies? | 2 processes, 2 names, 1 of the edits, 2 verbs, 2 edits, 1 death, 2 attempts | holds |
| `translator` | can the client read what the translator sends, is it what the backend said, and does the next turn continue it? | 2 calls of 2 fragments, 2 searches, 2 deltas, 5 kinds of result | holds |
| `control` | is what the socket says in force, and what turns are made as? | 1 caller with 2 calls, 1 turn at a time, 3 accounts (one a key that is relayed), 2 tiers, 2 models, 2 sessions, logins, restarts | holds |
| `daemon` | who holds the callback port, what are callers told, does an answered stop happen? | 2 callers (one may stop the daemon), the CLI, 2 authorizations, 2 starts | holds |
| `stop_unanswered` | is the caller who asks for a stop always answered? | 2 callers, 1 authorization, 1 start | violated |

Properties, and what each would catch:

- `TypeOK`: types, and the transport in use fits the handler's step; a retry
  keeping its delta breaks it.
- `OpenHasOneOwner`: an open connection is parked or carries one turn; never
  both, two, or neither.
- `AccountIsolation`: a turn is carried only by a connection its own account
  opened.
- `DeltaOnProducer`: at the moment a delta goes up, its connection is the one
  that saw the response it continues.
- `FullSendIsFaithful`: whatever other turns did to the session, what a full
  upload says is, to the client, what the client sent.
- `HeardAsAsked`: the same for every upload, deltas included.
- `BaselineIsHeld`: between turns, the conversation held on the parked connection
  is the session's baseline, which is why a delta measured against the one
  continues the other.
- `ConfirmedMovesOnlyOnClose`: after a turn completed, only a turn that closes
  moves the baseline.
- `FollowUpFindsItsSession`, `NoStrangers`, `EvictsLeastRecentlyUsed`: as named.
- `OneEntryPerAccount`: through logins, labels, keys, renames and rotations, no
  account id is ever stored twice.
- `RotationLandsHome`: as long as its account is stored, under whatever name, a
  rotation changes no other account's entry.
- `RefreshCollapses`: one source exchanges one grant once, however many wait.
- `RefusedNotRetried`: a refused grant is not exchanged again, by those waiting
  for the lock either. A source remembers one refusal, so the property ends when
  it has had two; section 5 says what follows.
- `EveryRequestEnds`: no failure leaves the refresh lock behind.
- `ClientCanRead`: a reader that insists on the block protocol accepts every
  frame, and a message that was begun has ended when the stream is closed.
- `CallsAreWhole`: a call that is done has a last block with its arguments
  whole, and is one block if the backend keeps its items apart.
- `ClosesProperly`: the stop reason is the one that what was sent warrants, and
  every search that ran comes once, after the rest, with its result right after
  it.
- `BodyIsWhatAStreamShows`: a client that asked for one body gets the blocks and
  the stop reason the stream's reader gets, and an error where that one cannot go
  on, or where a call's arguments were cut short.
- `NextTurnIsADelta`: of a response whose items came one after another, what the
  client hands back reconciles with what the turn retained, so that the next turn
  goes up as each call's output, once and in order, and what the client added;
  the other fields change only when the results made a deferred tool known.
- `EditsSurvive`: a write drops no edit that landed before it compared.
- `ImplementsBook`: refinement of `AccountBook`; `TypeOK` of `CredentialFile`
  adds that the file is never one cut short.
- `EveryVerbAnswers`: the lock of the file is never left behind.
- `PersistedIsInForce`: between calls, what is in force is what the next start
  would read from the file, unless something was meant not to be.
- `RefusedMovesNothing`: a call that ends in a refusal leaves the serving
  account, the policy and the configuration as it found them.
- `ServedAsOwed`: once a switch has answered, no turn that begins is made as the
  account before, on whatever socket.
- `HeadroomIsOwn`: a figure filed under a stored account is that account's, but for
  the names that changed hands meanwhile.
- `NamedAsTold`: an account is added under the name that everyone holding its URL
  was told.
- `JoinsTheWaiting`: what callers join is a flow that waits, and a waiting flow is
  not forgotten.
- `PortComesFree`: a flow of the daemon lets the port go, whatever the browser
  does.
- `AnsweredStopHappens`: a stop somebody was told of happens, also when it was
  answered before the run loop waits. `StopIsAnswered` is the converse, which
  does not hold (section 5).
- `EveryTurnEnds`: a request is answered, refused or dropped, and its stream is
  not left open.
- `ImplementsService`: refinement of `ConversationService`.

Bounds. Two turns reach every race of two handlers and their pumps: two takers,
two that park, a close between another's two reads. Three serial turns reach a
follow-up of a follow-up, a retry after a refusal, a latch in the middle; the
shapes a fourth adds are those of the third over a longer baseline. One message
value is enough where the items of different turns are already distinct by the
turn that produced them; two are there where conversations must differ. Two
accounts are a pin and the rest. With four requests over a store of two, the
list overflows, a session is matched from either place, and an evicted one is
asked for again. Two requests reach every race for a refresh lock and between two
reads of the file; three verbs reach a login, a second one and a switch, rename
or forget, in the middle of an exchange. Three fixed names stand for
`account-1`, `account-2`, ...: at most three grants are without an id. Two calls
of two fragments reach every way their events interleave around a block, and a
fragment too many or too few; `MaxDeltas` puts text on both sides of a call. Two
verbs, two edits and two attempts reach an edit in each of a write's windows, a
start over, giving up, and a second writer behind the lock; one death reaches
every point of a write, with the pending file left behind. Two authorizations are
a flow and the one that a cancel, a timeout or a stale tab makes way for; a third
repeats the second. Two calls of one caller are a change and what undoes, shadows
or follows it; two callers at once lose each other's changes (section 5), so the
run has one, beside turns, logins and restarts.
Deadlock is not checked: the bounded set of requests runs out.

Serial means `Overlap = FALSE`: a request comes when the previous one has been
served entirely. That is how one conversation of the client behaves, and
`HeardAsAsked`, `BaselineIsHeld`, `ConfirmedMovesOnlyOnClose` and the refinement
need it; section 5 says what happens without.

Fairness (`turns_liveness`): weak fairness of what the runtime runs by itself --
the handler's own steps and parking -- and of two things the network owes: an
attempt is answered or fails, and an open stream ends. The code has no timeouts,
so the second half is an assumption about the environment: a TCP peer that is
gone is eventually reported, and a backend that answers finishes. Requests,
disconnects and the window guard get none.

`refresh_liveness` gives each request weak fairness of its own steps, the answer
of the authorization server among them, and strong fairness of taking the lock:
`refresh_lock` is tokio's mutex, which queues its waiters. That the server
answers is again an assumption, as the client sets no timeout. `MaxTokens` bounds
the exchanges that succeed, so one that is at the bound fails.

`credential_file` gives each writer weak fairness of its own steps in a write. The
lock is a blocking one, and the verbs are bounded, so a writer that waits is let
in after finitely many others; a file system that fails is not obliged to.

`daemon` gives weak fairness to what the runtime polls: a connection's write,
which ends one way or the other, and its bringing a flow up; a flow's timer,
cancel and end; the run loop. Nobody owes a callback, a request or a restart.

## 4. Proofs

TLC checks the runs above; TLAPS checks these theorems, which speak of every value
of the constants: any number of turns, sessions, accounts, requests, callers,
writers, calls, and every bound. Every safety property of a passing run is one of
them, and every action property.

How the proofs go about sequences. The provers cannot apply an induction theorem
that takes a predicate, so `Items_proofs` proves induction over *sets*
(`LeastNumber` from the library's well-founded relations, then `NumberInduction`
and `SequenceInduction`): a set of numbers that has 0 and with each the next has
all of them, and the set is chosen to be those of which the claim holds. What the
code does to a list is written as a recursive function (`ClientView`, `Without`,
`EmitSearches`, `Only`, `TranslateBlocks`) whose equation is proved and not assumed
(`KeepingExists`, `EmittingExists`, `TranslatingExists`). The one list operator
taken from a library, `FlattenSeq`, is used in the proofs for one message and for
four (`FlattenedOne`, `FlattenedFour`). `Items_proofs` then has what the rest needs: a view of a
conversation is the view of its parts (`ViewOfConcat`), a delta completes the
baseline it was measured against (`DeltaCompletes`), reconciling changes nothing
the client can see (`ReconcileIsFaithful`).

### SessionTurns

However requests overlap:

- `TypeCorrect`: `Spec => []TypeOK`
- `OneOwner`: `Spec => []OpenHasOneOwner`
- `AccountsIsolated`: `Spec => []AccountIsolation`
- `DeltasOnProducer`: `Spec => []DeltaOnProducer`
- `FullSendsAreFaithful`: `Spec => []FullSendIsFaithful`

from the assumption that the sentinels are none of the turns or fields, and that
`Overlap` is a Boolean. The first four are one inductive invariant,
`ConnectionInv`. Ownership is not inductive by itself. That the slot's connection
is free when `Take` hands it over needs `ParkedIsFree`; that `Dial` opens a
connection nobody has needs to know that turn t's connection is not open before t
dialed it (`Undialed`); that a turn whose stream began is past its dial, and one
that has not sent has no stream, is `PathInv`. `AccountIsolation` and
`DeltaOnProducer` then follow the connection from hand to hand (`SameCarriage`,
`NewCarriage`): while a turn is between `Take` and its first event no other step
changes what its connection saw, because only its owner's pump could, and it has
one owner. `FreshIsFull` is why the retry is safe: a connection the turn dialed
itself carries a full upload. `FaithInv` carries the fifth: whatever baseline a
turn found, what it sends is to the client what it asked (`InputIsAsked`), since
clients ask only what they can replay (`Replays`).

Where requests come one after another, `Overlap = FALSE`, which is how one
conversation of the client behaves (section 3):

- `BackendHearsTheClient`: `Spec => []HeardAsAsked`
- `BaselineHeldBetweenTurns`: `Spec => []BaselineIsHeld`
- `ClaimsOnlyUnconfirmed`: `Spec => ConfirmedMovesOnlyOnClose`
- `SessionImplementsService`: `Spec => ImplementsService`

`TurnsInv` adds to the two above: `SerialInv`, one turn is served at a time and
its stream is where its handler is; `LatchInv`, a latched session has no
connection left and what a turn was told of its response it was told by its
ending; `MemoryInv`, what a turn read of the session's memory is what is there;
`HeldInv`, the response the session would continue is held whole, by a turn that
is over; `CloseInv`, what the closing turn is about to make the baseline is what
was heard. The lemma the rest is for is `ConversationIsInput`: a delta is appended
to exactly the baseline it was measured against, so the backend hears the input
whether it came in full or not. Without the hypothesis the first of the four is
false; `turns_wrong_delta` is the counterexample. The step of the refinement: the
handler's first step is the service's `Ask`, the backend's acceptance its `Hear`,
the end of a turn however it ends its `End`, and the rest stutters.

### SessionStore

- `TypeCorrect`: `Spec => []TypeOK`
- `EvictionIsByLeastRecentUse`: `Spec => EvictsLeastRecentlyUsed`
- `FollowUpsAreFound`: `Spec => []FollowUpFindsItsSession`
- `NoStrangersWhenClaimsAreUninterrupted`: `Spec => []NoStrangers`, given
  `Window = FALSE`

The list is kept in the order of last use (`Ordered(store, Later)`), so what
`truncate` cuts off was used before all that stays. `ClientInv` is what is known of
a client: it asks what it could see, what goes up is that to it, and a turn returns
an answer or nothing. `OpeningInv` says that whoever is past the claim shares the
first message of the baseline in its session; it needs that one request at a time
stands between its resolve and its claim (`OneClaims`), which is the hypothesis,
and false without it (section 5).

### TokenRefresh

- `TypeCorrect`: `Spec => []TypeOK`
- `AccountsAreStoredOnce`: `Spec => []OneEntryPerAccount`
- `RotationsLandHome`: `Spec => RotationLandsHome`
- `RefusedGrantsAreNotRetried`: `Spec => RefusedNotRetried`
- `GrantsAreExchangedOnce`: `Spec => RefreshCollapses`

`TypeInv` says of the lock that its holder is the one request of its source at the
exchange. `AccountsAreStoredOnce` goes verb by verb over the list: which position a
verb writes at is a least one, and nobody else has the id. `RefusedInv`: a source
that was refused anything remembers one of the tokens it was refused. A second
exchange of one grant needs the grant back in the file, hence `ExchangeInv`: every
grant in the file, in a request's hands or exchanged was issued (`IssuedInv`); one
yet to be saved is nowhere else (`NewInv`); one that was exchanged is out of the
file, unless its successor is about to be saved (`SpentInv`). `AssignedAssumption`
stands for the code's counting on until `account-n` is free: the model has as many
such names as there are verbs.

### CredentialFile

- `FileStaysWhole`: `Spec => []TypeOK`
- `WritesKeepEdits`: `Spec => EditsSurvive`
- `FileImplementsBook`: `Spec => ImplementsBook`

The invariant has four parts. `LockHeld`: whoever is past the lock holds it, so
there is one. `Prepared`: because of that, and because edits leave the verbs'
names alone, the verbs' names in the file are as the writer read them, and its
copy is its verb applied to them. `Filled`: what is about to be moved over the
file is that copy, so the file is never one cut short. `Seen`: what the copy
lacks of the edits landed late. The step of the refinement is then that `Rename`
and `Remove` are the book's `Happen`, `Read` its `Refuse` when the change is
refused, `Die` its `Vanish`, and every other step a stutter.

### Control

However many front-ends call at once:

- `TypeCorrect`: `Spec => []TypeOK`
- `TurnsAreMadeAsOwed`: `Spec => []ServedAsOwed`
- `FiguresAreOwn`: `Spec => []HeadroomIsOwn`

and of one front-end at a time, `Callers = {only}`, beside turns, logins and
restarts:

- `PersistedChangesAreInForce`: `Spec => []PersistedIsInForce`
- `RefusalsMoveNothing`: `Spec => RefusedMovesNothing`

The assumptions on the constants say that the files a start may find are files:
entries of named accounts, tables over the tiers, a selection that names an
entry or nothing; and that the models the program has built in are models. A
selection that names no entry is possible in the code, by a login that relabels
(section 5); with one, a rename to the missing name makes another account serve
while the mapping stays, so these files are left out of `Control` by
`FilesAssumption`. `TypeInv` follows what each call holds from step to step
(`CallType`) and what a turn's place says of its route and its session.
`CarryInv`: whatever account a session's socket spends, or a turn under way is
made as, is owed to whoever may still be served by it, so that forgetting the
sessions is what ends the debt. `HeadInv` states `HeadroomIsOwn` of every name
and not of the stored ones, as a login makes a stored one of any.

For the last two the invariant `One(c)` says at each point of each call what has
been done and what is still owed: `ConsentInv`, consent in force and in the file
differ only between the write and the apply; `ReadInv`, what a call computed still
follows from what it read; `ForceInv`, the mapping in force agrees with the
configuration *as read for the account that will serve when the call ends*, which
during a select is the account before, during a rename the old name, and while a
change is being written the configuration it is about to write (`SetInStep`: a
tier set in the mapping and in the table it is read from stays in step, where
`ShadowingTier` found that table); `BeforeInv`, a call that can still be refused
has moved nothing or holds the way back. Two callers break the first step of it
already: section 5.

### LoginFlow and Daemon

- `OneFlowHoldsThePort`: `Spec => []TypeOK`, which says that one flow holds it
- `AccountsAreNamedAsTold`: `Spec => []NamedAsTold`
- `LoginsJoinTheWaitingFlow`: `Spec => []JoinsTheWaiting`

`NamedAsTold` speaks of two flows' labels only through `starter`, hence `Named`:
what is stored, told or about to be told of a flow is its starter's name.
`JoinsTheWaiting` needs that the flow a connection brings up is its own and
stands where the connection does (`InHand`), so that remembering it does not
forget another that waits, and that what is current was begun by the daemon
(`CurrentStands`).

### ResponseTranslator, Efforts and Echo

- `TypeCorrect`: `Spec => []TypeOK`
- `EveryFrameIsReadable`: `Spec => []ClientCanRead`
- `CallsAreForwardedOnce`: `Spec => []CallsAreWhole`
- `MessagesCloseProperly`: `Spec => []ClosesProperly`
- `BodiesInventNothing`: `Spec => []BodyIsWhatAStreamShows`

all from `TurnInv`, in three layers. What a frame makes of the reader and of the
fold, one lemma per frame (`StartIsRead` to `ErrorIsRead`). What a method of the
translator sends from a state in which its open block and index are the reader's
(`Live`), one lemma per method; `SearchesAreEmitted` is by induction over the
searches that wait. What then holds of a stream: `PhaseInv`, translator, reader and
fold agree (`Alike`: the fold failed where the reader did, or where arguments do
not parse); `SearchInv`, a search that ran waits until the message closes;
`CallInv`, the open block of a call spells as many fragments as were streamed, and
the last block of a call that is done is whole.

`EffortIsSupported`, the effort sent is one the model states, and
`EffortIsAllowed`, it is above what the client or the operator allowed only if the
model takes nothing that low, and then it is the least there is; for every
request, ceiling and list. There are eight levels, so that a set of them has a
highest and a lowest is by cases and not by induction.

The turn after the response:

- `WhatIsReadIsRetained`: `Spec => []EchoInv`
- `NextTurnGoesUpAsADelta`: `Spec => []NextTurnIsADelta`

The property speaks of a response that is over; what makes it inductive is to say
of every moment of the stream how the blocks the client has read and the items
the turn has retained stand to each other. As long as nothing came between the
events of one item (`Undisturbed`), they stand in one of three ways (`LinesUp`). A
message is open: its block is the last one, and all before it is translated to
what was retained (`InMessage`). A call is: the same, but the text before its
block belongs to a message already done, so *that* is made an item by the call
(`InCall`). Neither is (`Between`): what was read, with the text that is left over
made an item, is what of the retained items a client can replay, which is
`Shown(read) = Kept(returned)`. A text may be left over only after the message
that was retained last, and not after a call, hence `CalledSince`; without it a
second message would be thought an item of its own where the client makes one of
both. `Finished` keeps the equation past the end of the stream, the searches that
close the message included, since the client hands none of them back
(`RestAddsNothing`). One lemma per event preserves it.

The rest is about operators. `AddedGoesUp`: when what is handed back is what of the
retained items can be replayed, whatever is added reconciles and goes up as a
delta of just that. `AnswerIsTranslated`: an answer is translated to an output for
each call, each with what must follow it, and the client's message; this is by
induction over the calls and for any result whatever, and so is `NextGoesUp`,
which puts the two together. `CallsAreShown` and `CallsAreKept`: the calls
answered are the calls retained, in order. Only the last conjunct, that nothing
but a discovery changes the other fields, goes through the five kinds of result
(`OneResultDiscovers`).

### Only model-checked

Liveness, which is beyond the prover here: `EveryTurnEnds`, `EveryRequestEnds`,
`EveryVerbAnswers`, `PortComesFree`, `AnsweredStopHappens`.

## 5. Where the code and its own words part

1. `turns_wrong_delta`. The baseline is copied at `ingress.rs:386` and
   `previous()` read at `ingress.rs:452`. If another turn of the session closes
   and parks in between, the delta is measured against the old baseline and
   continues the new response: every check of `plan_upload` passes and the
   backend hears the other turn's items again. §4.3 promises that every
   ambiguity resolves toward the full send. It takes two requests of one session
   at once, which §3.1 calls harmless.
2. `stop_unanswered`. `handle_connection` looks at the daemon's flag after every
   answer (`control/mod.rs:182`), so an answer to anybody, flushed after
   `shutdown` was requested, releases the run loop while the caller who asked is
   not answered yet. `daemon.rs:46-50`: "the run loop is released only once that
   answer has been written".

Seen while modelling, without a run.

Turns and sessions:

- `remember_request` (`ingress.rs:484`) comes before the refusal is noticed
  (`ingress.rs:498`). A request refused with changed fields becomes the one its
  retry is compared with, and the retry goes up as a delta on a response asked
  for with the old fields, against `websocket.rs:340-342`.
- A new session is in the store, matching everything, from `ingress.rs:309` until
  it is claimed at `ingress.rs:406`; the comment there says "immediately". With
  `Window = TRUE` a request of another conversation joins it.
- A stream that ends with `response.failed` closes the turn like any other
  (`ingress.rs:619`), and moves a confirmed baseline, against §4.3, "A turn only
  enters the baseline once the backend has accepted it".
- With overlapping turns `seed_if_unconfirmed` can overwrite a baseline that was
  confirmed between its check and its lock (`session.rs:147`), the race its
  comment excludes.
- A session whose only turn runs longer than an hour is swept while it is served:
  only `resolve` touches it (`session.rs:190`).
- Any failure to connect latches the session to HTTP for its life
  (`conduit.rs:164`), a credential that could not be refreshed included.

Credentials:

- `save` falls back to the selected entry (`store.rs:720`) also for a grant that
  has an account id, so an account forgotten during its refresh has its grant
  written over the account that serves turns. §8.1: "Only a grant carrying no
  account id falls back to the selection"; the code's own refusal for this case
  (`store.rs:735-743`) is reached only when the selected entry is a key.
- A login under a label renames the account's entry (`store.rs:385`) but not the
  selection, which is by name. If the renamed account was selected and not first,
  turns move to the first one; and a later rename of any account to the old name
  takes the selection with it (`store.rs:949-957`).
- §8.1 says a refused grant is never retried, "whether it comes back by a switch
  or by a login"; `refused` holds one token (`tokens.rs:246`), so after a second
  account is refused a switch back to the first retries it.
- A login whose label names an entry holding a key passes the guard of `add`
  (`store.rs:895-899`): the key is replaced by the grant, or, when the account is
  already stored, two entries answer to one name, which §8.1 says is refused.
- `put` and `add_key` ask whether anything is selected after adding the entry
  (`store.rs:403`, `881`), when something always is: the first account serves by
  being first, and a store never selects it by name.
- A tier pinned to the serving account has a source of its own, so one grant can
  be exchanged twice at once, the arrangement §8.1 keeps out of the store.
- The token and the account id of one request are two reads of the file
  (`authorize.rs:218`, `227`); a switch in between pairs one account's token with
  another's id.
- A request dropped while its exchange is under way loses a rotation the server
  has made.

Control plane:

- Two setters lose each other's change: each edits the configuration it read and
  writes it whole, without lock or comparison (`handler.rs:966-984`), and puts a
  mapping in force that it read before the other's (`handler.rs:684`, `824`).
- A refused select goes back to the account before, but not to the sessions
  (`handler.rs:1264-1272`): one opened in between keeps the other account's
  socket. Cleared or not, `api.md:781` reads as if nothing had happened.
- `accounts.forget` of the serving account hands turns to the next one and leaves
  the mapping in force as it was (`handler.rs:1482-1507`).
- A rename whose section cannot move puts the name back and does not look whether
  that worked (`handler.rs:1190`): a login that took the old name in between keeps
  it, and the account stays under the new one, where another's section stands.
- The figure of a forgotten account goes after the account does
  (`handler.rs:1466-1480`): a login that takes the name in between shows it until
  then, and has its own removed.
- A select does not substitute defaults the account's list lacks, as the start
  does (`main.rs:1136-1138`), and a list of an account without an id is never
  stale (`handler.rs:1383`).
- Consent can be revoked while the file still pins a tier that another account's
  section shadows: only live pins are looked at (`handler.rs:1329`).
- `tiers.set` writes a model the next start refuses, when its name carries the
  marker the resolution rejects.
- An unpinned turn's figure is filed under the account that serves when it lands.
- The edits of the file take a commented-out key for no key, and a table header
  with a comment for no header (`config/edit.rs:382-407`): the key or the table
  is then there twice.

Logins and the daemon:

- A login task that is over before it is remembered (`daemon_login.rs:128`)
  clears nothing, and the flow remembered after it is joined by every later
  login, until one cancels it. If another flow waited by then, remembering drops
  its sender and cancels it.
- A connection that says nothing holds `accept_callback` in its read until the
  timer, and the CLI's login has no timer.
- The tab of an earlier flow, come back late, ends the flow that waits: the state
  does not match, and the flow is over, not the tab.
- If the write of the stop's answer breaks, nothing releases the run loop until
  another caller is answered.

Translation:

- Calls whose events interleave come out as two blocks with one id; a stream that
  just ends inside a call is closed as a turn that stopped for it, with the
  arguments cut off. A client that asked for one body gets an error there.
- A call without arguments is "" in what the turn retained and `{}` in what the
  client hands back, so the next turn never goes up as a delta; nor does it after
  two texts without a call between them, which the client hands back as one
  message.
- `anthropic/mod.rs:164-166` says other roles fold into `instructions`;
  `request.rs:169-176` says why they do not.
- §5's table maps `response.completed` and `.done`; the code knows the first only.

## 6. Not modelled

- Configuration parsing, rendering, the CLI beside its login, the doctor and its
  probes, the supervisor unit, JWT and PKCE: they move data from one shape to
  another, or run once, and have no state another actor shares.
- The SSE decoder, the estimator and the recorder: a splitter, an average under
  one lock, files nobody reads back.
- Of modelled parts: the ingress's `count_tokens` and `models`, the relay's
  rewritten request, the reporting methods of the control socket (`status`,
  `models`, `capture`), the preamble's length (`ingress.rs:826`), `prewarm`, and
  whether a backend still holds a response that failed (`ingress.rs:770`), which
  is the backend's business.
- Two callers of the control socket at once are in `Control` and in no run, for
  what section 5 says of them.
- `Echo` goes one turn on from the first. That the turn after that lines up again
  is the same comparison over a longer baseline: `BaselineHeldBetweenTurns` is
  about any number of turns, but of items without content, and no theorem
  composes the two.
