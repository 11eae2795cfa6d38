# Formal models of the joining service

The joining service admits agents (Ed25519 keys) to Holochain networks: it runs
the auth methods a deployment configures, keeps a join session per agent and
network, tells an hc-auth server and the linkers about the agents it admits, and
hands out linker URLs, DNA modifiers and membrane proofs. This directory holds
TLA+ models of it, the TLC configurations that check them, and proofs that the
TLA+ proof system checks.

## 1. Inventory

Sources are relative to `src/`. "State" is what a component keeps between calls.

| Component | State | Operations | Interacts with |
|---|---|---|---|
| Request handlers (`src/app.ts`) | none of its own; what a handler has read lives in its local variables across its awaits | join, verify, status, resume, provision, reconnect, send-link | session store, auth plugins, hc-auth, linkers, network store |
| Session stores (`src/session/`) | sessions with their challenges, an agent index, link tokens, event times, claims | create, get, update, delete, findByAgentKey, findAnyByAgentKey, reserveEvents, claim, expiry | handlers, Didit method |
| Auth methods (`src/auth-methods/`) | invite codes still valid; rate windows of the delegating partners | createChallenges, verifyChallengeResponse, restore | handlers, hc-auth, email transport |
| Emailed Didit links (`didit-with-email.ts`, `routes/didit-links.ts`) | in the session: link tokens, Didit session, progress; event times | send, continue, refresh, webhook-free polling, resend, limits | session store, Didit, email transport |
| hc-auth client (`src/hc-auth/client.ts`) | none; the server keeps a record per key: none, pending, authorized, blocked | requestAuth, transition, getRecord, setVerified, ensureAuthorized | handlers, `hc_auth_approval` |
| Linker auth client (`src/linker-auth/client.ts`) | none | authorize an agent at every linker | handlers |
| Linker registration (`routes/linker-heartbeat.ts`, `routes/admin-linkers.ts`, `linker-registration/`) | invites with a use list, linkers with capabilities, URL, last heartbeat, TTL | heartbeat, deregister, admin create/revoke/patch/delete | KV store, URL provider |
| Network registration (`routes/admin-networks.ts`, `network-registration/`) | network configurations, keyed by `happ_id` | register (or replace), delete, look-up by join and provision | handlers |
| Allowed agents (`routes/admin-agents.ts`, `agent-registration/`) | a set of keys | add, remove, has | `agent_allow_list` |
| URL providers (`src/urls/`) | none | static and registered linkers merged | provision, reconnect |
| Client and UI (`src/client/`, `src/ui/`) | the state of one joining flow, the number of the current run | start, submit, poll, cancel | the HTTP API |
| CLI and key tools (`src/cli/`, `holo-keyutil/`) | files | sequential operator commands | hc-auth, lair |

What makes the system hard:

* **No transactions.** A handler reads a session, awaits another server and
  writes back what it made of the session it read. Meanwhile a second request of
  the same agent may have completed, rejected, replaced or deleted it. The three
  session stores answer such a late write differently: the memory store ignores
  the expiry and shares the challenge objects with every reader, SQLite gives
  copies and prunes expired rows, the KV store is several keys with stale reads.
* **Three sources of truth** for one admission: the session, the hc-auth record
  (which its operator changes at will) and the linkers.
* **Partial failure.** Each ready step may fail after the others succeeded, an
  invite code may be spent by a join that then fails, and a call may take effect
  and lose its answer.
* **Restart.** Invite codes and rate windows live in process memory, SQLite
  sessions do not.

Properties that make each component correct:

* handlers and stores: a session is ready only after every configured check was
  really passed and every required ready step ran; decided sessions do not
  become pending again, removed ones do not come back; one live session per
  agent and network; attempts are limited; completions are not lost; a blocked
  agent is not served; every request is answered, an approved agent is let in;
* invite codes: one code, one session; a failed join gives its code back;
* Didit links: progress never goes backwards, a session is billed and an email
  is sent within the limits whatever the order of two handlers;
* linker registration: invites are used at most so often, a revoked invite and a
  deleted linker stay so, an old heartbeat does not overwrite a newer one;
* networks: one network per DNA hash, provisioning uses the registered one;
* UI: an abandoned run never changes the state of the current one.

`PROJECT.json` lists the hazards behind these, each at its line.

## 2. Modules and plan

In order of importance. The proofs about a module are in the module of its name
with `Proofs` at the end; those about NetworkRegistration, DelegatedVerification
and the compositions are in `RegistriesProofs` and `SessionsAndFlowProofs`.

1. **JoinService** (+ abstract `SessionLife`, `JoinServiceProofs`): handlers,
   memory and SQLite stores, auth methods, hc-auth, linkers, restarts. Run by
   `MCJoinService`.
2. **EventLimits** (+ `EventLimitsProofs`): the quotas of emails, Continue
   presses and billed sessions over the one-step stores and over KV. Run by
   `MCEventLimits`.
3. **LinkerRegistration** (+ `LinkerRegistrationProofs`): heartbeat, deregistration and the admin routes as
   read-modify-writes of a KV store, and the URL merge.
4. **NetworkRegistration**: networks and allowed agents against joins and
   provisions.
5. **DelegatedVerification**: the checks and the rate window of a partner.
6. **LinkChallenge** (+ `LinkChallengeProofs`): one emailed link with its requests, Didit's sessions and
   the merge of two writers.
7. **KvSessions** (+ `KvSessionsProofs`): the session store whose operations are
   several KV calls.
8. **JoiningFlow** (+ `JoiningFlowProofs`): the browser's flow against what it sees of the service.

`MCRegistries` composes 3 to 5 and `MCSessionsAndFlow` 6 to 8. The parts a
composition holds share no state: `part` is chosen in `Init`, and a behaviour
moves that part while the others stay in one initial state. So one run checks
the parts side by side, without their product. What the parts do share with
JoinService is abstracted on each side: a join that becomes ready is the
`notify` call of LinkerRegistration, `CreateSession` of NetworkRegistration and
`Finish` of LinkChallenge; the service that JoiningFlow talks to is an
abstraction of JoinService and LinkChallenge (`ServeJoin`, `ServiceMoves`), held
to the same abstract specification: JoinService and the flow's service both
implement `SessionLife`, and both refinements are proved.

Open:

* JoiningFlow's service and JoinService meet in `SessionLife`, that is in the
  status of a session and the checks behind it; that every *answer* a client gets
  from JoinService is one `ServeJoin` and its like allow is not stated;
* JoinService over KvSessions in one behaviour: its state space is beyond a run.

## 3. JoinService

### State and actions

The module follows one agent key. Sessions of different agents share only the
invite codes, and two requests of one agent contend for a code exactly as two
agents do. `status`, `net`, `held`, `done`, `tries`, `aged` are the fields of a
stored session that the properties tell apart (`SessionData` in
`session/store.ts`); `index` is `MemorySessionStore.agentIndex`; `codes` is
`InviteCodeAuthMethod.validCodes`; `record` is hc-auth's record of the key.
`req` holds the requests in flight, each with its program point and its local
variables. `passed`, `steps`, `evals`, `codeOf`, `barred` are history variables:
no guard reads them.

A handler is cut where it awaits something that can be overtaken. The names of
the program points tell the handler: `j_` join, `n_` the ready path
`notifyReady`, `c_` `completeIfSatisfied`, `v_` verify, `s_` status, `p_`
provision, `r_` reconnect.

| Code | Actions |
|---|---|
| `POST /v1/join` | `Join` (lookup, 409 on a ready session), `JoinDelete`, `JoinRecord`, `JoinRequestAuth`, `JoinRefused`, `JoinAssemble`, `JoinCreate`, `JoinCreateFails` |
| `notifyReady`, `notifyHcAuth`, `notifyLinkers` | `NotifyGet`, `NotifyRequest`, `NotifyTransition`, `NotifyVerified`, `NotifyLinkers` |
| `completeIfSatisfied` | `Complete`, `MakeReady` |
| `POST .../verify` | `Verify`, `VerifyCheck`, `VerifyPlugin`, `VerifyAnswer` |
| `GET .../status`, `POST /v1/join/resume` | `StatusPoll`, `StatusRecord`, `StatusPass`, `StatusReject`, `Resume` |
| `GET .../provision` | `Provision`, `ProvisionRecord`, `ProvisionReject`, `ProvisionServe` |
| `POST /v1/reconnect` | `Reconnect`, `ReconnectRecord`, `ReconnectScope`, `ReconnectAnswer` |
| stores | `Remove`, `FindByAgentKey`, `PruneCandidate`, `SetStatus`, `KeepStatus`, `WriteChallenges`, `Create`, `PruneExpired` |
| hc-auth operator, clock, process | `Approve`, `Block`, `Unblock`, `Age`, `Restart` |

The one point where the two stores differ most is `Shared`: `get()` of the
memory store copies the session object but not the challenge objects in it, so
two handlers work on the same completions and attempt counts; a SQLite read is a
copy, and the whole list is written back.

Definitions introduced by a comment "Mutant:" are variants of the definition
that follows them with a plausible mistake; no behaviour uses them. They exist
to see that the properties notice the mistake.

`SessionLife` is what the sessions promise, without requests and stores: create,
pass a check, admit when the checks passed admit, reject, drop. Whom the checks
admit is its variable `asked`, sets of checks of which an agent passes one each,
fixed from the start. `LifeCycle` in `JoinService` says that the handlers
implement it: `status` and `passed` map to themselves, and `asked` is one set per
entry of `auth_methods`, each with the partner's word in it that stands for any
(`AdmittedAsAsked` proves that this says what `Admits` says).

### Runs

All runs use the module `MCJoinService`. Two request slots give every pairwise
interleaving of handlers, three also what a third does between them; the properties
relate one session to one or two requests, and no handler waits for another. Two
sessions are one and its replacement; where there is one, a join still replaces it
and then fails, and late writes still meet it removed. The request slots are
interchangeable (symmetry) in every safety run. `AttemptLimit` is 1 in place of 5:
the attempts are only compared with the limit. The bounds in the guards are marked
`\* bound` in the module: a join starts only when a session id is left for it, and
`tries` and `evals` saturate one above the limit.

| Run | Instance | Shows |
|---|---|---|
| JoinApproval | memory, one session, three requests, `hc_auth_approval` and `email_code`, hc-auth required | polls, answers, completions, rejections and revocations race over shared challenge objects: a ready session was approved (`ReadyOnlyIfAdmitted`) and written through to hc-auth (`ReadyStepsRan`), answers sent together are counted together (`AttemptsBounded`), no completion is lost (`CompletionKept`), and a request all through which the record was blocked gets neither a provision nor linker URLs (`BlockedNotProvisioned`, `BlockedNotReconnected`) |
| JoinInvite | SQLite, any_of {invite_code, email_code}, linkers required | stale copies written back, one invite code contended for, linker failures: `InviteBacksOneSession`, `InviteNotLost`, `ReadyStepsRan`, and the refinement `LifeCycle` |
| JoinLive | memory, one session, two networks, any_of {hc_auth_approval, delegated_verification}, hc-auth and linkers required, restarts, fairness | every request is answered (`RequestsAnswered`); a session of an agent that stays authorized does not stay pending (`ApprovedIsDecided`) |
| JoinRace | two joins at once | violates `OneLiveSession` |
| JoinGuess | SQLite, two answers at once | violates `AttemptsBounded` |
| JoinRevoked | SQLite, approval already given | violates `RevocationChecked` |

The last three are disagreements between the code and its documents:

* **JoinRace**: nothing ties the lookup of `POST /v1/join` to the `create` after
  its awaits; two joins of one agent create two sessions, though
  `JOINING_SERVICE_API.md:321` allows one live session per network.
* **JoinGuess**: over a store whose reads are copies the attempt is counted on a
  copy and saved after the plugin answered; answers sent together are counted
  once.
* **JoinRevoked**: provision looks for a revocation only when the *session*
  holds an `hc_auth_approval` challenge. A join that hc-auth had authorized
  already, or that a partner vouched for, holds none.

Some more differences are modelled as the code has them, without a run.
`invite-code.ts:10` remembers used invite codes in process memory only, so a
code is valid again after a restart, and `InviteBacksOneSession` is checked in
JoinInvite, which has no restart. The ready path of a join without an approval
challenge runs `ensureAuthorized` (`app.ts:209`), which moves the record to
authorized: if the operator has blocked the key since the join read it, the
block is undone. Further:
`JOINING_SERVICE_API.md:1203` says a blocked agent's join is rejected at once,
while the code gives it an approval challenge and rejects it at the first poll
(`JoinRecord`; the comment at `hc-auth-approval.ts:33` wants it so); `:1202`
says an authorized agent's join succeeds at once, which does not hold where the
approval is one of an `any_of` group (`Eligible`, `app.ts:832`). And a re-join
deletes the pending session before its own checks (`app.ts:712`), so a refused
re-join leaves the agent without a session.

### Fairness

`HandlersRun` is weak fairness of the next step of each request: the runtime
resumes a handler whose await has settled, and every await settles because the
calls to hc-auth, the linkers and the other servers carry a timeout.
`ClientsPoll` is strong fairness of a status poll per pending session: the
client library polls until the session is decided (strong, because a poll needs
a free slot and the other slot's requests take it in between). `ServersAnswer`
says that hc-auth and the linkers do not fail every single time they are asked.
Only `ApprovedIsDecided` needs the last two; no fairness is assumed of joins,
the operator or the clock.

### Proofs

The assumptions are those of the module: `ConfigAssumption` (the values a
configuration can have) and `EntriesAreDisjoint` (a method stands in one entry
of `auth_methods`). All theorems are for any number of requests, sessions,
networks and codes, for either store and for every method set.

* `JoinServiceProofs!TypeCorrect`: `Spec => [](TypeOK /\ ControlOK)`.
  `TypeOK` alone is not inductive: `done[req[r].sid]` makes sense only when the
  request has a session. `ControlOK` says what a request holds at each program
  point (a session that was born, a network, a method, the invariant that a
  join's completed challenges are the spent code), one lemma per family of
  handlers, one step per action.
* `JoinServiceProofs!Admission`: `Spec => []ReadyOnlyIfAdmitted`. The stored
  status says nothing about the checks, so the inductive invariant adds
  `Evidence`: for each session, what is recorded as completed was really passed
  and the challenges it holds, with what it passed already, *cover*
  `auth_methods` (`Covers`); for each request, the same of the copies it
  carries, and that a request on the ready path carries a satisfied list. That
  is why a stale write is harmless: every copy of the list, old or new, is
  evidence in itself. `Frame` states once what any step may do to the sessions
  (passed checks only grow, held challenges do not change), and each request
  other than the moving one keeps its evidence under `Frame`.
* `JoinServiceProofs!CompletionInMemory`: over the memory store
  `Spec => CompletionKept`, because `ViewDone` is the stored list itself.
* `JoinServiceProofs!Implementation`: `Spec => LifeCycle`, the refinement of
  `SessionLife`, from the same invariant: every step is a step of it or leaves
  `status` and `passed` alone.

* `JoinServiceProofs!StepsBeforeReady`: `Spec => []ReadyStepsRan`. Its invariant
  `StepsInv` adds what a request on the ready path has run so far: at each of its
  points the steps before it are recorded for its session (`StepsRecorded`), so
  the last of them may store the status.
* `JoinServiceProofs!RevokedNotProvisioned` and `!RevokedNotReconnected`: the
  answer goes out from a point that is reached only from a record that was not
  blocked. `barred` says of a request that the record has been blocked since it
  began, so while it is set the request has not passed that point (`BarredInv`).
* `JoinServiceProofs!CodesNotLost`: `Spec => []InviteNotLost`: each code is valid,
  or carried by a request that spent it, or stored with a session. The invariant
  `CodesKept` adds that only a join that has assembled its challenges and has not
  ended carries one, so no other step can drop it. `JoinServiceProofs!OneSessionPerCode`
  adds that these three exclude each other and that no two requests carry one code
  (`CodesApart`). Its hypothesis `~MayRestart` is needed: a restart makes every
  configured code valid again.
* `JoinServiceProofs!AttemptsInMemory`: over the memory store
  `Spec => []AttemptsBounded`. The answers that have reached the plugin are not
  bounded by what the step can see: the invariant `AttemptsCounted` counts with
  them the requests that are about to ask it (`Asking`), all of which have raised
  `tries` already. Over SQLite the property is false (run JoinGuess).
* `JoinServiceProofs!OneLiveOneByOne`: with one request at a time
  `Spec => []OneLiveSession`, over either store. A session is over when a newer one
  of its network is stored (`InOrder`), and a join that has passed its lookup leaves
  none but the one it is about to delete (`Cleared`). With two joins at once it is false (run JoinRace).

Only model-checked here: liveness (`RequestsAnswered`, `ApprovedIsDecided`), as
temporal properties under fairness are out of the prover's reach.

## 4. EventLimits

### State and actions

`didit-with-email.ts` limits four things by events in the session store: emails
to an address (`didit_email:`), emails for an agent key (`didit_agent:`), presses
of a challenge's Continue button (`didit_continue:`) and billed Didit sessions
(`didit_billed:` for each, `didit_create` for all). Each use is one call of
`reserveEvents` with a list of keys, a time-to-live and a callback that looks at
the earlier events. A member of `Reservation` is one such call, with what comes
after it: the email that is sent, or the events given back.

| Code | Model |
|---|---|
| the keys, `ttlMs` and callback of each caller | `Kind`, `Keys`, `Ttl`, `MustWait` (with `Limited`, `Spaced`, `Cap`, `Gap`) |
| `reserveEvents` of memory and SQLite | `Reserve`, one step |
| `reserveEvents` of KV | `Begin`, then `Put`, `List` and `Withdraw` once per key, in the order of the keys |
| `sendLink` | `Send`, `SendFails` (gives the events back: one step, or `Withdraw` per key on KV) |
| a KV call fails or the process stops | `Stop` |
| expiry and pruning | `Lapse`: an event goes at some time after it can no longer be read. `Window("create")` is the shorter of the two times-to-live its key is used with |
| clock | `Tick` |

`store` is chosen in `Init` from the constant `Stores` and never changes, so one
run covers both kinds of store. `eventCount`, the reading of the billed sessions,
is a reservation (`"open"`) that refuses itself: on KV it puts and deletes an
event, which the other reservations can see.

What the model takes for granted:

* KV lists a new key at once. Cloudflare can take 60 seconds or more,
  and `session/store.ts` and `JOINING_SERVICE_API.md:1284` say the limits are
  soft there for this reason. What is shown for KV is that nothing *else* makes
  them soft: the protocol of put, list, withdraw is right.
* The KV calls of one reservation take at most `Delay` (a guard of `Tick`). An
  event that lapses between the call's own time and its listing is missed, so
  the limits hold for windows that are shorter by `Delay`, and the properties
  are stated so. `Delay = 0` gives the windows of the documents.
* One clock for all instances of the service.
* The memory store keeps its events in the process; a restart forgets them
  (documented: "each process counts its own"). `removeEvents` of KV forgets
  reservations beyond the latest 100 (`MAX_RESERVATIONS_KEPT`); their events then
  stay, which only refuses more. Two reservations of one key at one millisecond
  in one process give back each other's event, which is the same count.

### Properties and runs

`LimitKept`: for each limited key, the recorded reservations in any window up to
the time of a reservation are at most the limit. `SpacingKept`: emails to one
address, and presses of one button, are their interval apart in either order.
`RefusedLeavesNothing`: a refused reservation and an email that failed leave no
event. `BilledCapKept`, an action property: the step that lets Continue go on to
open a session is never taken while the daily limit of sessions was recorded as
billed in the last day. Only recorded reservations count: on KV two requests that
find the same session billed at the same moment may both withdraw.

Emails to one address are limited to one in the run, so their spacing follows
there from `LimitKept`; the run exercises `SpacingKept` on Continue presses, and
the theorem `SpacingHolds` has both for any limits.

| Run | Instance | Shows |
|---|---|---|
| EventsKept | three reservations, both kinds of store, limits of 1 (2 Continue presses an hour), windows of 3 ticks, `Delay` 1, clock to 3 | all four hold |

Three reservations are two that fill a limit or race for it and a third that
meets what they left; limits are only compared with counts. `MaxTime` is a window,
so events lapse within the run. Deadlock is not checked: each reservation is
made once and the clock stops at the bound.

The hypothesis of `BilledCapHolds` below, `LinkTtl >= Day`, is a boundary of the
code: `applyRecorded` records a billed session for `link_ttl_seconds`
(`didit-with-email.ts:405`), and Continue counts the billed sessions of 24
hours. With links that live shorter than a day (any positive number of seconds is
accepted) the count forgets sessions it should still hold, against
`JOINING_SERVICE_API.md:1283`. The default of 7 days is not affected.

A second boundary is found by the proof alone: `limitWait` compares the resend
interval with the emails of the last 24 hours, so an interval above a day is
enforced for a day only. `SpacingHolds` has the hypothesis `GapsFit` for it.

### Proofs

`EventLimitsProofs`, for any number of reservations, any limits and windows and
either kind of store, from `LimitsAssumption` alone unless said:

* `TypeCorrect`: `TypeOK` and `Bookkeeping`: at each point of a reservation,
  which of its events are stored or have lapsed. `NothingIsLeft` follows.
* `LimitsHold`: `Spec => []LimitKept`. The recorded reservations are not an
  inductive bound: on KV two that have both listed may become recorded later.
  The invariant bounds the reservations that have *passed* the key: recorded, or
  listing with this key behind them and no wait so far. A passed reservation has
  its event stored or lapsed (it puts before it lists), so the next one to pass
  has counted all of them in its window (`PassedIsSeen`, `LimitedMove`).
* `SpacingHolds`: the same for the intervals, assuming `GapsFit`.
* `BilledCapHolds`: `Spec => BilledCapKept`, assuming `LinkTtl >= Day`.

`StepKeeps` collects one lemma per action; `Move` is all that the counting
lemmas know of a step.

## 5. The registries: LinkerRegistration, NetworkRegistration, DelegatedVerification

### LinkerRegistration

The pool of linkers lives in Workers KV, whatever the session store is:
`linker_invite:<token>` and `registered_linker:<pubkey>`, without transactions.
A call keeps what it has read in `call[c]` and acts on that copy; two calls may
be in flight.

| Code | Actions |
|---|---|
| `POST /v1/linkers/heartbeat` | `ReceiveHeartbeat`, then `ReadInvite`, `Register`, `CountUse` for an unknown linker, `Renew` for a known one |
| `DELETE /v1/linkers/:pubkey` | `Deregister`, `Delete` |
| admin routes | `CreateInvite`; `DeleteInvite`, `Revoke`; `PatchLinker`, `Patch`; `DeleteLinker`, `Delete` |
| `KvUrlProvider`, `notifyLinkers` | `ListLinkers`, `GetListed` per name, `Merged`, `Authorize` |
| a KV call fails | `Stop` |
| clock and `expirationTtl` | `Tick` |

A heartbeat carries any timestamp within the tolerance of the clock when it
arrives, which covers delayed, repeated and reordered ones. `disturbed` is a
history variable: the entries on which two calls overlapped, a registration
lapsed under a call, or a registration stopped before its use was written.
`DYNAMIC_LINKER_REGISTRATION.md:195-199` accepts that `max_uses` may be exceeded
then. The properties claim an entry only while it is not disturbed, except
`LeaseKept`, which holds whatever races.

* `HeartbeatsInOrder`: an old timestamp never replaces a newer one.
* `BackOnlyByInvite`: a linker that left, lapsed or was deleted comes back only
  through an invite that stands, is in time and has a use left.
* `UsesCounted`: every linker of the pool is counted in its invite, and the
  count keeps to `max_uses`.
* `LeaseKept`: a registration ends `ttl_seconds` after its last heartbeat, up to
  the tolerance and the time of a call, or a minute after an admin change.

So these properties do not catch the overlaps themselves. One of them is not
accepted by any document, and the run **InviteRevived** shows it: a first heartbeat
reads the invite, an admin revokes it, and the heartbeat writes it back with its use
counted (`linker-heartbeat.ts:95`); the invite stands again and lets further linkers
in, though `:276` says that revoking prevents new linkers from using it
(`RevokedStays`).

Met while modelling, as the code has it: in the same way a deleted linker comes back
through a heartbeat or PATCH that had read it before (against `:274`); the
high-water mark of the timestamps goes with the entry; `notifyLinkers`
(`app.ts:167`) sends `config.linker_auth.capabilities` to every linker and
`toLinkerRegistration` (`types.ts:28`) drops the capabilities of the entry,
though `:210` and `:291` say an invite's capabilities scope what is sent.

### NetworkRegistration

`networks` is the registered `NetworkRecord` per `happ_id`, reduced to its DNA
hashes and `allowed_agents`; `agents` are the agents allowed at runtime;
`session` the status of each agent in each network. A configuration is chosen in
`Init`: which store, whether `agent_allow_list` is an auth method, and which
admin routes exist.

On the memory and SQLite stores every store call is a promise that is already
resolved, and a request arrives as an event of its own, so a handler is not
interleaved: `RegisterNetwork` checks and puts in one step. Over KV the check
lists the other networks and reads them one by one: `RegisterNetwork`,
`CheckNext`, `PutChecked`.

| Code | Actions |
|---|---|
| `POST /v1/admin/networks` | `RegisterNetwork`, `CheckNext`, `PutChecked` |
| `DELETE /v1/admin/networks/:happ_id` | `DeleteNetwork`, `DropNetwork` |
| `/v1/admin/allowed-agents` | `RegisterAgent`, `PutAllowed`, `DeleteAgent`, `DropAgent` |
| join of a network and its challenge | `JoinNetwork` (reads the record), `CreateSession`, `SignNonce` |
| provision | `Provision`, with a proof per DNA hash of the record as it now is |

`DnaOfOneNetwork`: registered networks share no hash with each other or with
the configuration. `ProofsOfOneNetwork`: no agent holds proofs for one hash
through two networks. `ProofsOnlyAdmitted`: whoever holds a proof for a network
was let in by some record of it, however it was replaced since. Registrations
that overlap on KV are exempt (`raced`): `JOINING_SERVICE_API.md:885` says so.
`ProofsOfOneNetwork` also exempts hashes an admin took from a network (`freed`):
a deletion, or a re-registration with other hashes, lets another network use the
hash, and an agent of both gets two proofs for it. `registered_at` and networks
without any `dna_hash` are left out.

### DelegatedVerification

`Request` is `validateDelegatedVerification` from the rate window to the count.
The order matters: the window is looked at before the claims, a new window is
stored even when the request is refused, and only accepted requests count.
`Restart` forgets the windows. `BurstBounded` says that two bursts at the edge of
a window are the worst case: twice the limit in any time as long as a window.
`LimitedOnlyAfterLimit` says that requests refused for another reason use up
nothing. The code differs from its document in two points that are modelled as
they are: `allowed_claims` is asked only for the required claims (a partner may
attest any other claim as well, against `DELEGATED_VERIFICATION.md:47`), and
`:48` calls the limit one of requests.

### Proofs

All theorems are for any numbers of linkers, networks, partners, agents, hashes
and calls in flight, from `LinkerAssumption` and `DelegatedAssumption`;
NetworkRegistration needs no assumption on its configurations. Each of the three
has one inductive invariant (`Inv`, `NetworksInv`, `DelegatedInv`), with one lemma
per action, from which its theorems follow.

* `LinkerRegistrationProofs`: `LeasesEnd`, `UsesAreCounted`, and the action
  properties `HeartbeatsMonotonic`, `InviteNeeded`. `UsesCounted`
  is not inductive, because a registration is stored before its use is counted and
  both are written from copies. `Counted` adds the call that has yet to count,
  `CallOK` says when a copy still is the stored entry, and `Alone` that an entry
  which is not `disturbed` is touched by one call at most.
* `RegistriesProofs`, of networks: `OneNetworkPerDna`, `OneProofPerDna`,
  `ProofsNeedAdmission`. A registration over KV has looked at some of the networks
  and not at the others; `CheckOK` says that those it has looked at are still
  apart from it, or both are `raced`. `ProofsKeep` ties the hash of a proof to its
  network, unless it was freed.
* `RegistriesProofs`, of partners: `BurstsAreBounded`, `RefusalsAreEarned`. The
  count of the window last opened is the number of joins accepted since, and an
  interval that ends when it opens and is no longer than a window holds at most
  one limit of them (`WindowKept`): what an interval holds is at most the one sum
  plus the other. The windows before need not be remembered.
* `RegistriesProofs`, of the composition: `PartsBehave`, a behaviour of
  `MCRegistries` is one of each of its three parts, so that all of these theorems
  speak of what the run checks; `PartsTypeCorrect` follows from it.

### Run

**RegistriesKept** (`MCRegistries`) checks the ten properties. Bounds: two
calls in flight, two linkers, one invite of two uses, a clock of three ticks with
a TTL of two and one tick of tolerance and latency. `MCTraffics` splits the
linkers' behaviours into three kinds, chosen in `Init`: heartbeats with
deregistration, revocation and deletion; heartbeats with admin changes;
heartbeats with a join that authorizes its agent. Each bounds its time and how
many entries are disturbed (`overlaps`, at most one: an undisturbed linker next
to a disturbed one is the case the properties speak of). Two linkers are what it
takes to use up an invite; a third would only find it used up. Two networks, one
agent that joins and one that does not, three hashes of which one is static; two
joins of one agent are what a double proof takes. A partner with a limit of two,
a window of two minutes and six minutes: three windows.
Linkers, networks and calls are symmetric. Deadlock is not checked, as the
clocks stop at their bounds and an invite is created once.

## 6. Sessions and the flow: LinkChallenge, KvSessions, JoiningFlow

### LinkChallenge

One join with one emailed link. `chal` is the stored `LinkChallengeData` with its
`DiditAttempt`, `joinStatus` the session's status, `verif` what Didit holds for the
email. A request holds its challenge object `press[c].cs`, waits for Didit, and
saves. Each wait for Didit is cut where Didit reads and where its answer arrives
(`Ask` and `ApplyPress` or `ApplyPoll`, `ReadRow` and `JudgeRow` for each row of a
list, `CreateAtDidit` and `Opened`), so an answer may be late, or not come at all
(`Unavailable`). Waits for the store are not cut: a call of it, and what the code
does up to the next wait for Didit, is one step.

`store` is chosen in `Init`. On SQLite each request has a copy of what it read. On
the memory store `get` copies the session but not its challenges
(`memory-store.ts:34`), so the requests that read it after the same save hold one
object. `age` says which: how many saves ago the request's object was the stored
one. What a request makes of its object, whether it saves or not, the other
holders of that object have too, and the store if the age is 0 (`Sharing`,
`InStore`, `Alter`); a save puts a merged object in its place, and all in flight
grow older (`Save`). An answer is applied to the attempt the object has when it
comes (`Applied`), which need not be the one that was asked for (`asked`).

| Code | Actions |
|---|---|
| `continue` | `Press`, `Ask`, `ApplyPress`, `List`, then `ReadRow` and `JudgeRow` per row, `NoneSettles`, `CreateAtDidit`, `Opened` |
| `refresh` (status, resume, a repeated join, the done page) | `Poll`, `Ask`, `ApplyPoll` |
| `resend` | `Resend`, `Mailed` |
| `completeIfSatisfied` | `Finish` |
| `mergeLinkProgress`, `laterProgress` | `Merged`, `Later`, in every save |
| `MemorySessionStore.get`, `update` | `Shared`, `Sharing`, `InStore`, `Holding`, in every step that changes a challenge |
| expiry, replacement | `Drop` |
| Didit, its reviewers, another key with the same email | `Verify`, `Purge`, `OtherOpens` |

* `ProgressKept` (action property), over both stores: no step undoes a completion,
  replaces the recorded Didit session by one recorded earlier, or a read of it by
  one applied earlier.
* `TokensKept`, over both: every token whose email was sent keeps opening the join.
* `OnlyOwnApproval`: a join completes only once a session of its email is approved
  at Didit that names this key, though another key may hold or take over the email's
  session meanwhile, and is ready only when complete. Over SQLite that session is
  the one recorded; over the memory store it may be another of this key's, as below.
* `StateOfAttempt`, over SQLite: after every merge the state shown is that of the
  session recorded, never a mixture of two writers, and the status recorded is one
  that session had (`StatusOfSession`), never that of another.

One run shows where the code departs from its documents:

* **LinkMemory** violates `StatusOfSession` over the memory store. A done-page read
  waits for Didit's decision of d1. A press that has read d1 as open asks Didit for a
  session; d1 is declined, and the press gets d2, which it records on the object
  both hold (`didit-with-email.ts:375`). The late answer about d1 is then applied to
  `link.attempt`, now d2 (`:390`), and saved: d2 is stored as declined. In the same
  way d2 may be stored as approved, with the join complete, after d1 was approved,
  or as gone, and then no poll reads it again. `session/store.ts:32` has the status
  as that of the session's last read.

Taken for granted: an approval at Didit is not reversed. What the code allows
and the properties therefore do not deny: of two reads of one Didit session the
one whose answer comes later wins, even if Didit answered it earlier, so the
state may go back until the next read; a rejection for `max_sessions_per_email`
made on a stale copy can overwrite a ready session; the cap itself can be passed
when a session ends between `List` and `CreateAtDidit`. And a session may miss the
count of billed ones (`counted`), against `JOINING_SERVICE_API.md:1283`: it counts
when a read moves its status to a billed one (`didit-with-email.ts:402`), and one that
a press takes up from Didit's list in review (`:328`), left by an earlier join of the
key and email (`Before`), has that status before its first read.

### KvSessions

A session in KV is `session:<id>`, `agent:<key>:<happ>` and one key per link
token. A store call reads, then makes the writes of `todo[c]` one at a time; each
key has its own end (`kvOptions`). `Join`, `RefusedJoin` and `Update` are the
handlers' calls, `StopWriting` a call that fails between two writes,
`PassSecond` the clock with KV's expiry.

`LiveIsFound` and `LinksOpen` are about sessions that hold a link, whose keys end
together: the index leads to the live session of an agent, and each of its
tokens to the session. They claim nothing of a scope in which two calls
overlapped, or one stopped or took time (`mixed`), and that is why one call in
flight is enough in MCSessionsAndFlow; the theorems have any number of scopes, with
calls of other scopes writing in between. What happens in such a scope is known: a
stop between two puts leaves a session nobody finds, and a stale update can demote
a ready session.

**KvHoldsOne** violates `AgentHoldsOne` (`session/store.ts`: an agent may hold at
most one live session per network) for sessions without a link, with no overlap
at all. Each update of a pending session starts its time-to-live anew, but the
index entry is written again only with a new status: it lapses first, the next
join finds nothing and creates a second session beside the live one.

The hash index of a ready session still ends when the pending one would have;
a ready session's link opens nothing, so no property is about it.

### JoiningFlow

`flow`, `shown`, `answering`, `active`, `connected`, `claims` and `runs` are the
fields of the element (`flowStatus`, `currentChallenge`,
`pendingChallengeResolve`, `activeSession`, `isConnected`, `collectedClaims`,
`run`). `loops` are the calls of `start` and `executeJoin` that have not
returned: JavaScript cannot cancel them, so a restart leaves the old one waiting
and its answer comes back later. A loop is cut at each await (`pc`); the serve
actions answer it and `Take`, with `Turn`, runs it to its next await.

`svc` is the agent's session as a client sees it: its number, its status, the
methods it made challenges of and those completed. What a join does is taken from
`app.ts`: a pending session with a link is answered as a resume when it is of the
same email (`Resumes`), and replaced only by a session that is made; any other
pending session is gone before the join is found not eligible or fails
(`Replaced`). `NoChallenge` says which methods may give a join no challenge,
because the agent is not on the list or is approved already, or the email is not
sent; `Eligible` refuses the join where an entry needed one. An answer may be lost
after the session has moved (`Replies`), a ready step may fail and leave the
session pending (`svc' \in {svc, Settled(svc)}`), and any session may vanish.

| Code | Actions |
|---|---|
| `start`, `connectedCallback`, retry | `Start` by `Connect` and `Restart`; `Disconnect` |
| `executeJoin` | `Take`, `Turn`, `PollOrTimeOut`, `Prompted`, `Wake` |
| `forRun`, `failIfCurrent`, `handleError`, `endChallenges` | `Current`, `Stops`, `HandleError`, `EndChallenges` |
| claims form, dialog | `SubmitClaims`, `Cancel`, `Respond`, `AskResend`, `TakeResent` |
| client library and service | `ServeJoin`, `ServeVerify`, `ServePoll`, `ServeProvision`, `ServeOther`, `ServeNothing`, `ServiceMoves` |

`OneOutcome`: a start ends with at most one `join-complete` or `join-error`
event, and at most one loop belongs to the current run, whatever earlier ones
left behind. `DialogOfTheLoop`: while the current loop waits for the person, the
button of the dialog settles that loop's promise and the dialog shows its prompt;
once the flow is over no dialog is left open, not even by a late resend. Between the
two a dialog may stay while the loop does something else: a poll for a session with
nothing left to do (`joining-flow.ts:265`) leaves it as it was, so after a completed
link whose ready step failed the link's dialog is still open, with its resend and its
cancel (`kept` in `Turn`). A signature that is refused ends the flow as any other
error does (`ServeOther`).

One exception stands in `DialogOfTheLoop`, and the proof made it precise. The
answer to a resend is dropped when the *session* has changed
(`joining-flow.ts:353`), not the run. A flow that starts again and resumes the
same session can be asking for an email code when the answer comes, and its
prompt is then covered by the link. It takes an any_of entry with a prompt in it:
the first flow must have had that behind it to reach the link. The dialog then
offers no way to answer the prompt its loop waits for, and the loop does not poll.

`ServiceLife` keeps the assumed service honest: each session of it is a behaviour
of `SessionLife`, as those of JoinService are. `PassedSeen` counts as passed what
gave no challenge (`open`, and an approval already given), the rest is what the
session has completed. The property is written as the initial states and steps of
`SessionLife`, over all session numbers, because TLC takes no quantifier over
whole specifications; the theorem `SessionOfFlow` has that form.

Modelled as the code has it: a service whose only interactive method is
`hc_auth_approval` stops at a claims form without inputs (`needsInteractiveClaims`,
`joining-flow.ts:153`, counts it, `getInteractiveMethods` of the form does not),
where `UI_PLAN.md:33` wants "Pending approval..." with polling; and
`hasPrefilledClaims` looks a claim up under its method's name, while the form
and the service use `email` for the two email methods.

### Run

**SessionsAndFlow** (`MCSessionsAndFlow`) checks the ten properties. Bounds: for the
link either store, two requests, two Didit sessions, two tokens, three moves at
Didit and a clock of one tick, which is one read interval; two requests are the two
writers of a merge, or the two holders of one object, and the second Didit session
the one recorded later. `MaxMoves` lets Didit take a session to a decision, or the
other key take it over in between. For KV one agent and network, two sessions, two
tokens and a clock of four lifetimes. For the flow five configurations (sequential
and any_of methods, with and without prefilled claims and a signer; what each branch
of `Turn` takes), two loops, three runs, two sessions; two loops are the current and
an abandoned one, and two sessions one and its replacement. A link together with an
approval that is no alternative to it is left to the theorems: its states alone are
as many as the run has. The ids of the three parts stand in for each other, so that
the symmetry is one of three pairs. Deadlock is not checked: clocks, ids and runs
end at their bounds. An earlier join may have left a session in review (`Before`);
Didit's sessions then move once more. The run has 1.7 million states. LinkMemory is
the same instance with one store and the link alone.

### Proofs

* `LinkChallengeProofs`, from `LinkAssumption`, for any numbers of requests, Didit
  sessions and tokens and either store: `OwnApprovalOnly`, `StateIsOfAttempt`,
  `TokensStay` and the action property `ProgressStays`. What a request holds may be
  saved over the stored challenge at any time, so the invariant asks the same of
  both (`Sound`): a completion has a session that is approved and the key's own
  behind it, and with copies the state is that of the attempt recorded. A request
  only ever *advances* the object it holds (`Advance`), and the merge takes one side
  whole and adds tokens, so no save goes back; that those who share an object hold
  the same (`Objects`) carries this to the memory store. What an answer of Didit says
  stays true of the session it was asked for, however late it is applied, because
  approvals stay (`Tells`). With copies that session is the recorded one. Over the
  memory store nothing says so, which is why `StateOfAttempt` stops there and
  `OnlyOwnApproval` names any session of the key.
* `JoiningFlowProofs`, from `FlowAssumption`, for any setups, loops, runs and
  sessions: `OneEventPerFlow` and `DialogIsOfTheLoop`. `RunsKept` says
  that one loop at most speaks for the current run and that the fields of the
  element are those it set; `DialogKept` whose promise is open. The second needs
  more than the flow knows: a link is shown only when the prompts left in the
  session are alternatives (`LinkReached`), and that stays so because the service
  only completes challenges, so every view has what is left and more
  (`ViewsKept`). `ServicePromises` is the refinement (`ServiceLife`), and
  `SessionOfFlow` the same for each session as a whole specification. A session
  that settles has completed a challenge of each entry that has one; that an entry
  without any needs none is not in the session, so the invariant adds that a
  session which is or may become ready is eligible (`EligibleKept`).

* `KvSessionsProofs`, from `KvAssumption`, for any scopes, session ids, token hashes,
  lifetimes and calls in flight: `SessionsAreFound` (`LiveIsFound`) and
  `LinksFindSessions` (`LinksOpen`). Between two writes of a call neither holds, so
  `Settled` speaks of the keys as they *will be*: for a scope with a call in flight
  there is a map that its pending writes lead to (`Outcome`), and that map is
  `Good`. Making the first write leaves that map as it was (`OutcomeTail`).
  `Good` is stronger than what the reads need: the index entry and the links of a
  live session end no earlier than it does, also those of a ready one, because
  provision can reject it and its links are then looked at again. Calls of other
  scopes write in between; `Owned` says that every key, stored or pending, belongs
  to one scope, because an id is given out once. `KvAssumption` has finitely many
  token hashes: a session holds a list of them. `OneWithLinks`: where every session
  holds a link, `AgentHoldsOne` holds too, so what KvHoldsOne finds takes a plain
  session, whose end moves.
* `SessionsAndFlowProofs`: `PartsBehave`, a behaviour of `MCSessionsAndFlow` is one
  of each of its parts, and `PartsTypeCorrect`.

No fairness is assumed in sections 5 and 6, and no liveness is claimed: an admin,
a person and Didit may stop at any time.

## 7. What is proved and what is only checked

Every property of the passing runs is the conclusion of a theorem for every value
of the constants, except `RequestsAnswered` and `ApprovedIsDecided`: liveness under
fairness is out of the prover's reach, and TLC checks it in JoinLive.

A theorem is about a module by itself. The compositions `MCRegistries` and
`MCSessionsAndFlow` only put modules that share no variable side by side; that a
behaviour of theirs is one of each module, with stuttering, is the theorem
`PartsBehave` of `RegistriesProofs` and of `SessionsAndFlowProofs`.

Some theorems have hypotheses that the code needs, each given above with its
theorem: `Store = "memory"` (`CompletionInMemory`, `AttemptsInMemory`),
`~MayRestart` (`OneSessionPerCode`), one request at a time (`OneLiveOneByOne`),
`GapsFit` (`SpacingHolds`), `LinkTtl >= Day` (`BilledCapHolds`), `LinkConfig =
{TRUE}` (`OneWithLinks`). The bounds that
keep the runs finite (`MaxTime`, `MaxMoves`, `MaxRuns` and so on) are constants
of the models, and the theorems hold whatever they are.

The inductive invariants were checked by TLC on the instances of the runs before
they were proved. A property that is only checked holds for the instance
described there; the arguments why a larger one adds nothing are the ones given
with the bounds, not proofs.

## 8. Not modelled

* Keys, signatures, timestamps of requests other than heartbeats, and the shape of
  requests: a request that fails them changes nothing.
* Stale reads of KV, which Cloudflare allows for a minute or more. They would
  make every property of the KV modules false by themselves, and the documents say
  the guarantees are best effort there.
* The KV store's `claim` (two calls of the Cache API) and `findAnyByAgentKey`; the
  link token indices of the memory and SQLite stores, which change with the
  session in one step; the link of a session inside JoinService (`replacesLink`,
  `sendLinks`), which LinkChallenge and KvSessions take up from their side.
* Email transports, the gateway proxy and the client's wrappers for discovery,
  resume and reconnect: one request each, no state.
* The rendering of the UI, the text in its inputs, the resend clock, and the
  Shoelace form and dialog, which repeat the plain ones.
* Configuration parsing and validation: the constants are valid configurations.
* The command line and the key tools: sequential, one file or one request at a
  time.
* Membrane proofs beyond who gets one for which DNA; how long a refused
  reservation is told to wait; the contents of pages and emails.
