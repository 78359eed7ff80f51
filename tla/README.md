# A TLA+ model of the microagency gateway

microagency is a gateway between an agent and the MCP servers ("upstreams") it
may use. It authenticates callers, keeps the upstream credentials to itself,
asks an operator or a policy before calls cross to an upstream, and records what
crossed in an audit log. This directory models the parts of it in which order,
failure and concurrency decide whether those promises hold, checks them with TLC
on small instances and proves the central ones with TLAPS for all instances.

Paths below are relative to the repository. `PROJECT.json` maps every definition
to the lines it models and lists the hazards the properties are aimed at.

## 1. The system

| component | state | operations | what is hard about it |
|---|---|---|---|
| decision ledger, `internal/mcp/decisionledger.go` | JSONL file of hash-chained decisions, signed anchor, per-grant usage in memory | authorize, refuse, load, verify | the budget is checked, appended, anchored and counted in steps that fail one by one; crashes between them; a file that is lost or rolled back |
| audit log, `internal/mcp/auditlog.go`, run store of `server.go` | JSONL file, hash chain head, head anchor every 64 lines, bounded window, totals, run ids | record a run, save an anchor, replay at start, verify | concurrent writers, torn writes, the anchor saved outside the lock, the verifier reading a moving file |
| in-flight reads, `internal/mcp/inflight.go` | map from call key to a shared execution | join, run detached, collect, expire, sweep | single flight against expiry and sweeping, cancellation, the capacity fallback, rebinding a connection |
| connections, `userconnections.go`, `oauthadd.go`, `upstreampersist.go`, `gateway.go` | upstream record, registration file, stored credential, pending OAuth flows, template with version | start, callback (take, commit, save token, save registration), revoke, delete, enable, disable, reload, token rotation | callbacks on the network while operators act; three stores written one after the other |
| authorization server, `internal/auth/authserver.go`, `revocation.go`, `auth.go` | pending requests, codes, the denylist and its file; signed stateless tokens | authorize, consent, sign-in callback, code and refresh grants, revoke, validate | concurrent refreshes, failed saves, restarts, expiry, a change of the local principal |
| self-service, `userconnections.go`, `oauthadd.go` | templates with versions and OAuth clients, reservations, hourly starts | edit template, start, discover, register a client, callback | a request reads template, counts, quota and client at four different times |
| registry and administration, `admin.go`, `upstreampersist.go`, `gateway.go` | the record in memory and the registration in `upstreams.json`, field by field | add, import, reauthorize, set policy, enable, refresh, disable, revoke, delete, reload | memory first, file second; whole records written by callbacks; listing without the lock |
| client registration, `clientregistration.go`, `authclients.go` | table of registered clients and its file | register, expire, mark used, load | caps and expiry under load, a file written in place |
| federated sign-in, `federation.go`, `ssoaudience.go`, `jwks.go`, `ssoidentities.go` | pending sign-ins, key set, audience rules in a file, recorded identities | authorize, callback, exchange, check, record, edit rules | key rotation and refresh outside the lock, rules edited during a sign-in |
| invocation gate, `gateway.go`, `fused.go`, `ambiguity.go`, `findtools.go`, `minimizehook.go` | snapshot of the record, placeholder bindings, audit records | snapshot, gate, resolve, dial, scrub, record; discovery beside it | a snapshot used after the state moved on; two places that compute one relation |
| operation grants, `grant.go` | a pure policy | validate, evaluate | many fields, default deny |
| references, `refstore`, `budget`, `tools.go` | files of parked results with owner and time | put, get, sweep, reduce, read back | sweeping under running requests, handles, torn files |
| programs, `program.go` | broker of a sandboxed program | requests, replays, budgets, final status | repeated, late and over-budget requests |
| upstream calls, `gateway/client.go`, `auth/oauthclient.go`, `auth/delegation.go`, `mcp/delegation.go` | sessions per caller, rotating token, per-caller derived tokens, service-account key | call, handshake, refresh, derive, add, update, revoke | concurrent first calls, single-use refresh tokens, a cached token of another caller |
| secret store and custody of its data key, `internal/secretstore`, `internal/custody` | credential file (plain or sealed), locator, a record per protector, the operator's key file | open (resolve, mint, adopt, seal), save, delete, migrate, purge | two files and an external protector changed one after the other; settings that changed since the last start; faulty protectors |
| mediation, operator tokens, ranking, minimizers, engines, sandbox, pages, CLI | mostly none | see `PROJECT.json` | content or external, not state |

How they interact. A request is authenticated by `ResourceServer.Validate`
(tokens, which a sign-in of a registered client obtained), dispatched by
`server.go`, resolved to a snapshot of the upstream record (registry,
connections), gated (invocation, grants, decision ledger), possibly answered from
the in-flight map, sent in the caller's session over the upstream's bearer (whose
rotation writes the stored credential), scrubbed, parked as a reference if it is
large, and recorded as a run (audit log). A reduce reads references and may run a
program, whose broker makes calls of its own. The operator's console and the
principal's portal change connections, templates and grants concurrently with
all of that; a restart rebuilds everything from the files.

## 2. Modules

| module | models | extended by |
|---|---|---|
| `DecisionLedger` | authorizing a governed call: evaluation, lock, budget check, append, anchor, count, crossing; crash, restart, loss of the file | `MCDecisionLedger`, `DecisionLedgerProofs` |
| `AuditLog` | run ids, window and totals, chained lines, anchors, replay, two-step verification | `MCAuditLog`, `AuditLogProofs` |
| `Inflight` | `inflight.do` with its goroutine, sweeping, capacity, cancellation, rebinding | `MCInflight`, `InflightProofs` |
| `Connections` | one principal-owned OAuth connection: template, flows, record, registration, credential, operator requests, rotation, restart | `MCConnections`, `OAuthProofs` |
| `SelfService` | templates and their clients, quota, reservations, requests to connect up to the commit | `MCConnections`, `OAuthProofs` |
| `UpstreamDiscovery` | pure: where an upstream's OAuth metadata is found and which of it is usable | `SelfService` |
| `Registry` | one connection's record and registration under operator handlers, field by field; reload | `MCRegistry`, `UpstreamProofs` |
| `TokenGrants` | consent, code, pair, refresh, denylist with its file, validation, restart as another principal | `MCTokenGrants`, `OAuthProofs` |
| `ClientRegistration`, `AudienceRules` | the client table; the audience rules and their editors | `SignIn` |
| `SignIn` | federated sign-in over both, with the key set and the recorded identities | `MCSignIn`, `StoredStateProofs` |
| `Grants` | pure: which grant lists are valid and what a grant admits | `Invocation` |
| `Invocation` | one call from its name to its recorded outcome, discovery, the operator's edits | `MCInvocation`, `InvocationProofs` |
| `ProgramBroker` | the broker of one governed program | `References` |
| `References` | parked results, reduce, programs | `MCReferences`, `ReferencesProofs` |
| `UpstreamCalls` | sessions and bearers of concurrent calls over one connection | `Delegation` |
| `Delegation` | a delegated connection under an operator, its key and token sources, restart | `MCDelegation`, `UpstreamProofs` |
| `CredentialStore` | abstract: what a credential file promises | instantiated by `SecretStore` |
| `SecretStore` | the file store, its data key with locator, protectors and key file; `up`, `doctor`, `secret-store migrate`, `purge --full` as processes that may stop anywhere | `MCSecretStore`, `StoredStateProofs` |

Four of the runs are compositions: `MCConnections` of a connection's life with the
requests that make one, `SignIn` of clients, audience and sign-ins, `References` of
the store, reduce and the program's broker, `Delegation` of calls with the
administration of what they use.

Conventions. One action per critical section: what the code does under one lock
hold is one step, what it does between two is open to everybody else. A failing
write is an outcome passed to the action (`\E o \in Outcomes`); which outcomes an
instance allows is a constant. Hashes and signatures are the value they commit
to (a chain hash is the sequence it chains), so "hashes equal" means "histories
equal" and no collision is modelled. Time is a bounded counter. Variables and
fields that no code keeps (`crossed`, `dead`, `acked`, `expect`, `could`,
`completed`, `declared`, `replaced`, ...) are history the properties
speak of; no guard reads them, except as bounds.
Definitions introduced by "A mutant:" are deliberately wrong variants of the
definition that follows; they are used by no specification and serve to show
that a property notices the bug.

### DecisionLedger

`Evaluate` is `invokeUpstream` up to the call of `authorizeDecision`: it reads the
clock and fixes the record. `Authorize` and `Refuse` take `decisionMu`, check the
three budgets (`RequestsLeft`, `BytesLeft`, `RateLeft`) and append; `SaveAnchor`
signs and saves the anchor under the same lock hold; `Counted` updates the usage;
`Cross` is the call leaving the gateway. A caller may wait up to `MaxDelay` ticks
between its evaluation and the lock. `Restart` is `loadDecisionLedger`: the chain is
walked, the anchor compared, the usage rebuilt (`Loaded`), and the ledger is trusted
or not (`LedgerTrusted`). A file that is there and cannot be opened is trusted like
none at all, with empty head and usage, and so is an empty file; `Forgets` says when
such a start loses a history, and the ghost `forgotten` counts them. `DiskLoss` says
what may happen to the file between two processes.

### AuditLog

`putRun`/`addRunLocked` fix id, window and totals under `mu`; `writeAuditLine`
appends under `auditMu`; `saveAuditAnchor` runs after it is released.
`loadAudit(n)` is the replay of the first `n` lines: any error of the open or of the
scanner ends it where it is, in silence. `Scan` and `AnchorVerdict` are the two halves of
`VerifyAudit`, which reads without a lock.

### Inflight

`Request` is a caller with its key and connection; `Join`, `Detach`, `RunInline`
are the branches of `do` under `f.mu`; `Settle` and `Close` are the end of the
goroutine; `Deliver` and `Cancel` the two cases of the caller's select.

### Connections and SelfService

`Connections` has one connection after its template was chosen: a flow goes through
`putOAuthFlow`, `TakeFlow`, `Commit`, `SaveToken`, `persistRegistrationRecord`; an
operator or user request through its handler's steps (`adminRevokeUpstream`,
`RevokeUpstream`, `revokeRegistration`, `DeleteSecret`, ...). Each bearer may rotate
its token at any time (`Rotate`). Generations are kept as the code keeps them, since
they are what the commits are guarded by; `dead` is the set of grants a completed
revocation or deletion has ended.

`SelfService` has what comes before. A request reads the template (`ReadTemplate`),
counts (`selfServiceCounts`), reserves (`reserveConnectionStart`), probes and finds the
authorization server (`probeUpstreamOAuth`, with the pure `UpstreamDiscovery`), chooses
or registers a client and stores it (`startUpstreamOAuth`), comes back
(`TakeStart`) and commits (`CommitStart`), with every other actor free to move between
any two. An edit stores the client, writes the template, rolls back or finishes, and
cancels pending flows in as many steps.

### Registry

The record in memory (`mem`, `live`) and the registration on disk (`reg`, `saved`)
are two copies of the same decisions, written one after the other by every handler.
The fields of a policy are the elements of `Fields`, so that the six pairs of set and
persist handlers are instances of `SetField` and `PersistField`. A request is a stage
in `req`: adding (`adminAddUpstream`, `registerUpstream` or, for a reauthorization,
`RebindUpstream`, then `persistRegistrationRecord` and `applyReadOnly`), enabling and
refreshing (which list the tools between two locks), disabling, revoking, deleting.
`expect` holds, for each field, the values an operator who saw the acknowledgements
may expect in the file: one if no two requests contend, more while they do.
`ReloadUpstreams` is the restart.

### SignIn

`ClientRegistration` is the client table with its rate windows, caps, expiry of unused
clients and file, `AudienceRules` the rule file with editors that read and write it in
two steps. `SignIn` puts a federated sign-in on top: `authorize` of a registered
client, `ssoCallback` taking the pending sign-in once, `Exchange`, `Key` and `refresh`
(the key set is read under its lock and fetched outside it), `validateIDToken`,
`recordFederatedIdentity`, `grantCode`, which fails when the exchange does not match its
request. A start (`Start`) needs an audience (`validateFederationAudience`) and the
provider's secret, supplied or stored (`resolveSSOClientSecret`: a stored secret is that
of one of `Providers` and is refused for another); one that fails at the provider's
discovery (`StartFails`) has already stored the secret it was given. The identities file
is written in place, and a torn one is loaded as empty.

### Grants and Invocation

`Grants` is `grant.go` as operators: `ValidateOperationGrant` and
`EvaluateOperationGrant` over documents given as functions from pointers to leaves.
`Invocation` follows one call through `CallTool`, `SnapshotUpstream`, the gates in the
code's order (`GateAnswer`, one answer per early return), `Authorize`
(`ResolveOutbound` comes before it, so grants are evaluated on resolved arguments),
the gates of `proxyCall` (`ProxyGate`), `Dial`, `Respond` and `Return`. `Dial` has three
outcomes: the request leaves, the call shares an execution of its in-flight key
(`InflightKey`, reads only, over the executions in `flights`), or its bearer fails before
anything is sent; all three are recorded with the host, as in `proxyCall`. Placeholders are
triples of caller, connection name and secret. Two ghosts belong to them: `era` numbers
the registrations of a name (`RegisterUpstream`), `surfaced` holds the answers in which a
caller was shown a secret. `call.could` records whether the registry
at the moment of the snapshot would have allowed what leaves. An operator edits the
registry between any two steps.

### References and ProgramBroker

A payload is the set of callers whose data it holds, which is all `OwnDataOnly` needs.
`ParkResult` is the budget's decision and `Put`, with its trailing sweep; a write that
fails or is cut off by a crash leaves nothing, or any beginning of the file (`Remains`),
and only a file with its whole frame is read, or removed once expired (`Framed`, `Read`). A reduce is a
job that resolves its references one by one (`Resolve`), starts an engine or a program
(`Start`), ends inline, parked or failed (`RunInlines`, `RunParks`, `RunFails`), and reads
a small parked output back (`FinalizeReduce`); sweeps run under it at any `Put`.
`ProgramBroker` serves a program's requests one at a time, as its mutex does: `Replay`
of a seen id, the refusals, `FindTools`, `BrokeredCall`, and the final `ProgramStatus`.

### UpstreamCalls and Delegation

A goroutine of `Calls` goes from `Begin` (session looked up and, for the first call of a
scope, the handshake claimed) to a bearer and to its answer; a handshake is two requests,
`initialize` and a notification with a session lookup and a bearer of its own, which is
sent without a token if none is to be had (`After`). Any answer may bring a session id,
which replaces the scope's (`AnswerWithSession`). The OAuth bearer holds its
mutex over the refresh (`StartRefresh`, `Refresh`, `RefreshFails`); `provider` knows which
refresh token is live and whether a spent one was presented. A delegated bearer is
served from the cache, joins a derivation or leads one (`UseCached`, `Join`, `Lead`,
`Derive`). `Delegation` adds the operator's requests: build a source, store the key,
register (enabled, or not yet when only discovered) or rebind, persist, mark read-only,
swap the source (`SetDelegation`), drop the cache.

### TokenGrants

A grant is an authorization request on its way to a code and a redemption; a
pair is what `issueTokens` mints; a refresh request goes through `grantRefresh`,
`Consume` and `IssueForRefresh`. Tokens are stateless, so the only state behind
them is the denylist `ids` and its file `stored`.

### SecretStore

A command is a process with one step per file it replaces and per protector it
calls. `Selected` is `resolveKeySource` over all settings (`Settings`); a start
then goes through `dataKey` and `recordLocator`, or `create`, `SaveVerified` and
`SaveManifest`, and `NewEncryptedFile` with `Migrated`, the sealing of a plaintext
file. `Read` and `Write` are the two halves of `File.Save` and `File.Delete`.
`MigrateKeyCustody` loads the source's key; `Transfer`, `VerifyTarget`, `Commit`,
`DeleteTarget`, `DeleteSource` are the steps of `custody.Transfer`.
`DeleteKeyCustody` and `doPurge` are `purge --full`. `Exit`, enabled everywhere,
is the normal end, an error return or a crash; a failed call that took effect is
the call followed by `Exit`. Key material is a model value: sealing is the key the
file names, and reading needs that key. `BackendOf` says which record a protector
really reads and writes, since two helper paths may front one backend.

## 3. What the runs check

| run | instance | result |
|---|---|---|
| `ledger_budgets` | two callers, three grants of which a behaviour uses one: one request per two ticks, bytes for one of three requests, one request; a wait of one tick, failing appends and anchor saves, crashes, a rolled-back or missing file, one start that cannot open it; two ticks, three lines | once per forgotten history, budgets hold, and the rate over the window less the wait; crossings are anchored and verification is sound but for that; the anchor only grows until then |
| `audit_chain` | two writers, four records, anchor every two, window of two; failed and torn writes, failing signatures and saves, two restarts that may stop reading anywhere, one truncation | ids unique while starts read the whole file, an unfaulted log verifies, truncation under a running gateway is caught, residual window bounded |
| `inflight` | two callers, two keys, a map of one entry, two executions, one rebind, one tick, TTL 1; fair | single flight, no replayed failure, bounded staleness after a rebind, every call returns |
| `connections` | three scenes: two handlers; one handler and a template edit; two requests to connect and the operator's edits. Two flows, failing stores, rotation, one restart; quota 1 by default and 2 at most, one start per hour | a revoked or deleted grant is neither callable nor reloadable; no reservation outlives its request; nothing commits outside the template of the moment |
| `registry` | two handlers, three requests of any kind, six policy fields with two values, failing writes and dials, one restart | a policy decision that was carried out stays in the file; the tools offered are those of the connection that is called |
| `registry_reauth` | one handler: read-only, revoke, restart, reauthorize | **violated**: the connection is callable without its restrictions (`upstreampersist.go:505`) |
| `tokens` | both modes, two subjects, one consent, two refresh requests, three pairs, a revocation, a restart, failing saves, two ticks | one trade per refresh token, one chain per consent, the identity kept, revocations kept but for the leeway after expiry |
| `signin` | two sources, one client at a time, two ids, two sign-ins, two signing keys, two providers, two edits, a malformed rule, one damaged rule file, torn client and identity writes, failing starts, one restart, two ticks, in three scenes that spend these bounds differently | whoever gets a code is admitted by the rules in force at its callback; a client that completed a sign-in is kept |
| `invocation` | two callers, two connections, one secret, two calls, one operator step, one re-registration, five registries to start with, nine grant lists, governed and not | what leaves was allowed by the registry of one moment and by a grant for its resolved arguments; placeholders go back only to the caller they were shown to and the name they came from; every outcome has its one record; discovery and the ambiguity gate agree |
| `references` | two callers, three handles, a store of two, TTL 1, three ticks, one fault; a program with two calls, three bytes, one search and four request ids | a caller reads its own data only, a handle keeps its value, a request crosses once, call and byte budgets hold |
| `delegation` | two callers with one email, two goroutines, two session scopes, one cached token, two sessions, two rotations, two accounts, two token sources, one fault, one operator | sessions and derived tokens are never used for another caller, no spent refresh token is presented unless an answer or a save was lost, nobody waits for a derivation or refresh that is not being made |
| `custody` | one command at a time, a keyring and two helpers with a backend each, a key file, three keys, one name with two values, a protector that may keep junk | the key of an encrypted store is never lost, and the file behaves as `CredentialStore` |

Bounds. Every limit of the code binds within the bounds: the ledger's budgets
are exhausted after two calls, anchors come due every second line, the window
evicts the third run, the in-flight map holds fewer entries than there are keys,
the store sweeps the third reference, the session table and the derived-token cache
evict, the client table, quotas, hourly starts and program budgets fill, the
clock passes the TTLs, and three keys allow one that was lost, one in use and
one of another custodian. Two of each actor are enough for every
pairwise interleaving; the theorems cover more. In `inflight` an execution ends
within the tick it began in (`RunBound`), so that the fair run stays small;
`SingleFlight` and `ErrorsNotReplayed` are proved without that bound.
Scenes (`MCConnections`, `Spent` of `MCSignIn`) and constraints
(`ProgramsAlone` of `MCReferences`, `OneGrant` of `MCDecisionLedger`,
`SessionsOfOAuth` and `FewEpochs` of `MCDelegation`) keep apart what shares no state: a
program's broker touches no reference while it runs, grants are counted one by one,
and sessions are kept alike whatever the bearer is. Two more constraints cut pairs of
what one already shows, and the theorems cover what they cut: `PlainSecondCall` of
`MCInvocation` (the second call is a plain one of the tool that can meet the first one's
placeholder and execution) and `FewAtOnce` of `MCDelegation` (over a delegated connection
one handshake at a time, and one call beside an operator's request).
Deadlock is checked for `custody` and `references`, where something can always be
started; elsewhere it is not, because every counter is bounded: a run ends when its
clock, its records and its requests are used up, which says nothing about the program.
Symmetry is used for interchangeable actors only, and never with the liveness property.

Fairness (`Inflight`). Strong fairness is assumed of each caller's own steps, weak
fairness of each detached goroutine: the Go scheduler runs every runnable goroutine,
`sync.Mutex` is granted to whoever keeps asking for it, and the execution itself is
ended by `inflightRunTimeout`. None is assumed of clients giving up, of rebinds or of
the clock.

### Other disagreements the models show

The following were found with the same models under other constants or properties, or
while translating the code; each is a statement of the repository, or a reasonable
expectation of its operator, that the code does not keep. "Read" marks those which lie
below the level of the models.

| model and instance | what happens | statement or code |
|---|---|---|
| `DecisionLedger`, `Restart` with a file that cannot be opened, `RequestBudgetHeld` with `forgotten` read as 0 | an open error other than "not there" sets no load error: head and usage are empty, the ledger is trusted, the budgets start over and the next record, number 1, replaces the anchor | `decisionledger.go:207-217` against `docs/operation-grants.md:130-131` ("If the ledger, signer, anchor, or existing chain is unavailable, the call does not cross the gateway") and `142-143` ("restarting the gateway does not replenish a grant") |
| `DecisionLedger`, `"emptied"` in `DiskLoss`, the same | an existing, empty ledger is accepted before the anchor is read, and the budget starts over | `decisionledger.go:256` against `docs/operation-grants.md:142-143` |
| `DecisionLedger`, `RateDespiteWaits` over the whole window | a caller that waited for the lock counts with an old time; two calls in one window of a one-per-window grant (over the window less `MaxDelay` the rate does hold) | `docs/security-model.md:65` |
| `AuditLog`, `loadAudit` of a part of the file, `RunIdsUnique` without `~unread` | any error of the open or of the scanner is taken for the end of the history: run ids are issued again and the chain is forked | `auditlog.go:184-187` against `auditlog.go:177-178` ("so new run ids don't collide with history") |
| `AuditLog`, a restart or overlapping saves, `ResidualWindow` without its `slipped` guard | more than `auditAnchorEvery` lines can be cut unnoticed | `docs/audit.md:103`, `auditlog.go:112` |
| `AuditLog`, cut before a restart and grown again | the log is reported as anchored although the anchored history is gone; heights are compared, never `Head` | `auditlog.go:228` |
| `AuditLog`, verification between an append and an anchor save | a whole log is reported as truncated | `auditlog.go:235` |
| `AuditLog`, failing signature | an unsigned anchor replaces the good one | `auditlog.go:135` |
| `Inflight`, a full map, caller gives up (`told.kind = "canceled"` with `told.run = 0`) | the call ran under its caller's context and ended with it, yet the caller reads "the call was not aborted" | `gateway.go:997` |
| `Connections`, a delete during a callback | the callback writes registration and credential of a deleted connection back | `oauthadd.go:425` against `upstreampersist.go:436-438` |
| `Connections`, failing secret store | a callback overwrites the tombstone while the credential is still stored | `upstreampersist.go:400` |
| `Connections`, disable during a reauthorization | the callback writes the registration back as enabled | `upstreampersist.go:244` |
| `SelfService`, template deleted and put again | the version number is reused and an old flow commits | `userconnections.go:715` |
| `SelfService`, two requests, or a reservation that lapses before its flow | the count is stale when the reservation is made: more connections than the template's quota | `userconnections.go:39-42` |
| `SelfService`, an edit that fails after a flow started | the client is rolled back, the flow keeps the new one; clearing the template's client leaves the user's stored copy | `userconnections.go`, `oauthadd.go` |
| `Registry`, crash after `persistRegistrationRecord` | a connection added as read-only is reloaded writable: the flag is written separately | `admin.go:339` |
| `Registry`, two `adminSetReadOnly` at once, memory against file | the two stores are written in different orders and stay different until a restart | `admin.go` |
| `Registry`, enable and revoke at once, no authentication | `markRegistrationEnabled` after `revokeRegistration` makes a revoked connection durable as enabled | `upstreampersist.go` |
| `Registry`, a name added again after its reload failed | it runs without the policy of the file, which stays; a minimization policy in memory survives removal, by name | `upstreampersist.go`, `gateway.go` |
| `TokenGrants`, a session that refreshes | each refresh mints a new 30-day token, so a disabled account's session has no 30-day end | `authserver.go:810` against `docs/public-mode.md:239-242` |
| `TokenGrants`, `Stalls = TRUE`, `RefreshOnce` | two requests parse a token just before its expiry and consume it just after | `authserver.go:724` |
| `TokenGrants`, `Leeway = 1`, `RevokedRefused` without its interval | the denylist drops a token at its expiry, and the validator takes it for 30 seconds more: a revoked access token is admitted again in between | `revocation.go:62-66`, `auth.go:144-157` against `docs/connect-clients.md:27-28` ("cuts off `/mcp` access immediately") |
| `AudienceRules`, two editors, `AdmissionCurrent` | each request builds its own mutex, so one of two concurrent edits is lost | `mcp/ssoaudience.go:20-22` |
| `ClientRegistration`, windows that end at different times | registrations of an hour across windows exceed `PerHour` | `clientregistration.go:69-70` |
| `ClientRegistration`, a torn write and a restart | the table is written in place; every client is lost | `authclients.go` |
| `SignIn`, a client that expires between `authorize` and `grantCode` | it gets tokens and is not kept | `clientregistration.go:73-76` |
| `SignIn`, `StartFails` | a start whose provider cannot be reached has already stored the secret it was given | `sso.go:71` |
| `SignIn`, a torn `sso-identities.json` | the file is written in place; one that does not parse is loaded as empty | `ssoidentities.go:36-39` |
| `SignIn`, concurrent misses or failing fetches | several fetches within the refresh interval, and an older answer may replace a newer | `jwks.go:20-23` |
| `Grants`, a rule on a container | the walk stops at a governed pointer, so scalars below it need no rule of their own | `grant.go:351-387` against `docs/operation-grants.md:70-72` |
| `Invocation`, `EgressGoverned` without `NamedByResource` | a leaf that only a resource of the grant names is let by with any value, a URL included | `grant.go:356-365` against `docs/operation-grants.md:69-71` ("every scalar leaf must be covered by an exact JSON pointer and an exact value, a bounded regular expression, or a URL target") |
| `Invocation`, `Dial("shared")` and `Dial("unsent")` | a read that was answered from an execution of another call, and a call whose bearer failed, are recorded as egress although they sent nothing | `gateway.go:989-1002`, `1070`, `gateway/client.go:235-236` against `gateway.go:914` |
| `Invocation`, outcomes `"rehydrated"` and `"notice"` | a small off-platform result, and the notice of a truncated one, are returned inline before `scrubInbound` | `gateway.go:1035-1050` against `docs/security-model.md:84-85` |
| `Invocation`, a connection removed and added again, `PlaceholderScoped` for the same `era` only | placeholders and minimization are keyed by its name and outlive it: what one upstream answered is sent to another that got its name | `minimizehook.go` |
| `References`, clock moving back, or equal times | the sweep after a put may remove the file just put | `filestore.go:67` |
| `References`, a failing write | `os.WriteFile` may leave a short file, which `Get` neither serves nor removes | `filestore.go:129`, `95` |
| `References`, crashes | an empty file is never swept; an output that could not be read back stays counted | `filestore.go` |
| `ProgramBroker` | a replay delivers its bytes again without charging them | `tools.go:96` |
| `UpstreamCalls`, three callers | at the cap a scope with a handshake is dropped first, which may hold no session, so that sessions exceed `maxSessionScopes` | `gateway/client.go` |
| `UpstreamCalls` | a second call of a scope goes out without a session while the first is in its handshake; the leader's cancellation fails those who joined it; the notification of a handshake goes out without a token when none can be derived | `gateway/client.go:361-362`, `auth/delegation.go` |
| `Delegation`, disable during a derivation | the derivation ends after `DropCache` and caches its token | `auth/delegation.go:273-276`, `gateway.go:503-505` |
| `Delegation`, an update, between its two locks or beside another update | the bearer that calls use and the source that a disable or revocation drops differ, for a moment or, after two concurrent updates, for good | `mcp/delegation.go:316-320` |
| `Delegation`, adding a read-only connection | it is callable for writes until it is marked, after it was registered and persisted | `mcp/delegation.go:381-397` |
| `Delegation`, a failed retry of an add | it deletes the key of the connection that is there | `mcp/delegation.go:383-385` against `353-355` |
| `Delegation`, a rotation of the key alone | drops the discovery subject and un-revokes; if the rebind fails, the new key stays with the old record | `mcp/delegation.go` |
| `SecretStore`, two helpers on one backend, `KeyKept` | the migration deletes the only record | `custody.go:495` against `docs/secret-store-custody.md:194-197` |
| `SecretStore`, `SyncFails = TRUE`, `KeyKept` | the commit fails after its rename, and the cleanup deletes the record the locator now names | `custody.go:473-478` |
| `SecretStore`, one process: the locator of an encrypted store names a holder of its key | a record left by a start that stopped early is adopted by `recordLocator` before the store was opened with it | `datakey.go:191-192` |
| `SecretStore`, two processes, `KeyKept` | two first starts at once, or a start during a purge, leave a store whose key is gone | `datakey.go:404-406` |
| `SecretStore`, two processes, `StorePromise` | `doctor` or a second start seals the file between the read and the write of a running gateway, which puts plaintext back | `doctor.go:203`, `secretstore.go:339-341` |
| Read | a failed non-strict persist is answered 200; `allow_private_destination` is not persisted, and an update of a delegated connection uses the public client even if its destination is private | `admin.go`, `mcp/delegation.go` |

## 4. What is proved

The proofs are in modules of their own and hold for every value of the constants
that satisfies the named assumptions of the component's module.

* `DecisionLedgerProofs`: `RequestBudgetTheorem`, `ByteBudgetTheorem`,
  `CrossingsAnchoredTheorem`, `AnchorExtendsTheorem`, for any callers, grants,
  limits and waits, and any loss of the file. A start that forgets the history is
  counted, not excluded: each is worth one more budget. The budgets are not
  inductive: what memory has counted, what the anchor commits to and what has
  begun move in different steps. `IInv` ties them together: everything begun or
  cleared is, but for a budget per forgotten history (`Lost`), within the anchored
  history *and* within the counters of a process that trusts its ledger
  (`BudgetInv`), also when the record of the one caller that holds the lock is added,
  and until something is forgotten that process's head extends the anchor (`HeadInv`).
* `VerificationSoundTheorem`, from the same invariant: a
  ledger reported as anchored holds the anchored history itself, and that already
  accounts for whatever has begun.
* `RateDespiteWaitsTheorem`, for any wait `MaxDelay`. A rate cannot be counted like a
  budget: what memory knows of a window is what pruning left, and a caller prunes at its
  own timestamp, which may be older than the clock and than the entries of others.
  `RateInv` therefore speaks of every set `W` of instants at once (`WindowInv`):
  what has begun at instants of `W` is, but for one rate per forgotten history, within
  the anchored history, is within `Times` as long as no prune can have touched `W`
  (`Uncut`), and is within the rate when `W` is narrow enough for whoever is charged next
  (`Close`). `WaitInv` bounds the wait; `TimesInv` says that the entry the lock's holder
  adds is new, so a count rises exactly when a call is cleared. A restart needs
  `RebuiltTimes`: the entries rebuilt from a history are one per authorization.
* `InflightProofs`: `SingleFlightTheorem` and `ErrorsNotReplayedTheorem`, from
  the invariant that every running execution is the one its key lists, and no
  listed execution has failed. `StaleConnectionBoundedTheorem` adds `AgeInv`: how
  long after its connection was replaced a snapshot, a running execution and a
  finished one may still be in use (0, `MaxLag`, `RunBound + MaxLag`), which the
  TTL extends once more at the delivery. It holds for any of the three bounds; the
  run has the smallest at which each of them is used.
* `OAuthProofs`, tokens the gateway issues: `InvariantTheorem` and from it `RefreshOnceTheorem`,
  `ConsentOnceTheorem`, `LocalPrincipalTheorem`, `RevokedRefusedTheorem`. The
  invariant says that until it expires, whatever was revoked, traded in or is
  being traded in is in the denylist and in its file (`DenyInv`), that pairs
  descend from earlier pairs and from used-up consents (`DescentInv`), and that
  what can still be issued locally is the current principal's (`PrincipalInv`).
  What `DenyInv` leaves open, an expired access token within the leeway, is just what
  `RevokedRefused` excepts; a refresh token is parsed without leeway.
  `RefreshOnceTheorem` assumes `~Stalls`: no request's token expires between its
  parsing and its `Consume`.
* `StoredStateProofs`, the secret store: `InvariantTheorem`, `KeyKeptTheorem` and
  `StorePromiseTheorem`. The types hold without condition. The other two assume
  `Undisturbed`: one command at a time (the code has no lock across processes),
  different backends behind different protectors, and directory syncs that do
  not fail. `KeyKept` alone is not inductive: a migration deletes a record that
  holds the key, and only the order of its steps tells that another one does.
  `IInv` says where the key is in each phase: in the key file or where the
  locator says (`StoreInv`), in the protector a start is using before it seals
  anything (`OpenInv`), in source *and* target from the verification to the
  deletion, with the locator on the right one of the two (`MoveInv`). The
  refinement is `PromiseStep`: every step is a `Put`, a `Seal`, a `Purge` or a
  stutter of `CredentialStore`, with `entries <- store.entries`,
  `sealedBy <- store.key`.
* `ReferencesProofs`: `InvariantTheorem` and `OwnDataOnlyTheorem`, for any callers,
  handles, sizes, limits and clock, and any behaviour of the broker. `OwnDataOnly`
  speaks of what a reduce answers; that follows only if the files it may read hold
  their owner's data (`ParkedForItsOwner`), what a job has read so far is its
  caller's (`JobsHoldOwnData`), and the output a job reads back without a second
  check of the owner is still the file it parked or gone (`OutputsOwned`). The
  last rests on handles not being drawn again while a reduce names them
  (`Drawn`: 71 random bits). `HandleStableTheorem` is an
  action property of the same invariant.
* Also in `ReferencesProofs`, the broker: `RequestOnceTheorem` and
  `ProgramBudgetTheorem`, from `BrokerInv`. The number of ids that crossed is the
  broker's count of calls (`CallsCounted`, a cardinality, since neither a count nor a
  set alone bounds the other), every answer given is the one kept under its id
  (`AnswersKept`), and the bytes delivered are the bytes charged.
* `UpstreamProofs`, calls and delegation: `SessionPrivateTheorem`, `NoReuseTheorem`,
  `ActsAsCallerTheorem`, `WaitersLedTheorem`, for any callers, goroutines, session cap and
  operators. Session ids are minted in order, each for one scope, and everything
  that holds one belongs to that scope (`MintedInOrder`, `SessionsOwned`); whoever
  is in a refresh holds the bearer's mutex and the token the server takes next, until
  an answer or a save is lost (`TokenCurrent`); a derivation under way has one leader, who
  takes everyone that joined along when it ends in any way (`Flights`); a token under way acts as its caller
  (`RequestOK`); and no call uses a source that is not built (`SourcesBuilt`), so
  that building one cannot change what a call acts as.
* `InvocationProofs`: `EgressWasAllowedTheorem`, `EgressGovernedTheorem`,
  `PlaceholderScopedTheorem`, `OutcomeRecordedTheorem`, `DiscoveryAgreesTheorem`, for
  any connections, grants, documents, callers and edits. The assumption
  (`InvocationAssumption`) types the documents and grants and says that the
  records a process starts with are ones its own validation accepts. Between the
  snapshot and the dial the call is in the hands of gates that run later, so the
  invariant says that the gates still ahead allow no more than the snapshot's
  moment did (`GatesNarrow`: time passing only takes grants away), and that past them
  the one grant of a governed call admits the document *after* resolution
  (`CrossesUnderGrant`); that a placeholder is bound only to a caller who was shown
  the secret (`BindingsSurfaced`); and that what was resolved stays in that scope on the
  way to the dial (`ResolvedInScope`). `EgressGoverned` compares the walk with a leaf-by-leaf
  reference; `DiscoveryAgrees` is a lemma about the operators: the index and the gate
  are computed by different code from the same record.
* `AuditLogProofs`: `RunIdsUniqueTheorem`, `UnfaultedVerifiesTheorem`,
  `TruncationCaughtTheorem`, `ResidualWindowTheorem`, for any writers, interval, window
  and number of records, cuts and restarts. `IInv` says that the lines of the file,
  the runs not yet written and the erased records share no id or record and lie below
  the counters (`LinesNumbered`, `RunsNumbered`; the bound by `seq` holds only while
  the gateway runs, and a restart restores it from the largest id); that the hash in
  memory is that of the last line of an unfaulted file (`ChainKept`); and that the
  anchor in the store, or the only one on its way, is the last that fell due, while no
  more lines are in the file than were chained (`AnchorsInTurn`). That a hash commits to
  every line before it is an induction along the file, done as an argument about
  the first line that would contradict it (`CommitsToLines`, with `LeastNatural` from
  the well-foundedness of the naturals).

* `OAuthProofs`, connections: `RevocationHoldsTheorem`, for any flows, handlers,
  restarts and failing steps. A grant passes from a flow to the credential, the
  registration, the record and the bearer in different steps, so that it is not
  callable *now* says nothing of the next step. `RevocationInv` says that a grant which
  is over (revoked, or covered by a request that has begun to revoke it) was obtained
  under an earlier generation than the record's, in whatever flow or bearer it is
  (`Generations`), which is what `commitSelfServiceOAuth` and `saveUpstreamTokenAtKey`
  compare; that nothing precedes the first flow (`FirstFlow`: without a record there is
  no generation to compare); and that, as long as no deletion has removed a tombstone or
  left a credential, there is a record to check against (`SettledOK`).
* `OAuthProofs`, self-service: `ReservationsLiveTheorem` and the action property
  `CommitsWithinTemplateTheorem`, for any quota, requests, templates and edits. They
  are about `SelfSpec`, the requests and edits without the connection they make, which
  `MCConnections` runs beside `Connections`. A request carries what it read; `SelfInv`
  says that while the version it read is the current one, so are the template and, from
  the probe on, the client (`StartOK`), because an edit takes effect with a new version
  (`TemplateStep`) and numbers its client, so that neither a rollback nor a restart
  brings a replaced one back (`ClientsOK`). That only the commit connects is
  `OnlyCommitConnects`.
* `UpstreamProofs`, the registry: `PolicyKeptTheorem` and `ToolsOfConnectionTheorem`,
  for any handlers, fields and values. `PolicyInv` adds to `PolicyKept` what each
  request may still write, stage by stage (`RequestKept`, `AsksAt`), and that of two
  requests under way for one field neither is taken at its word (`Uncontended`), since
  the acknowledgement of one would otherwise exclude what the other has written.
* `StoredStateProofs`, clients: `UsedKeptTheorem`, for any caps, lifetimes, sources and
  restarts. A restart replaces the table by the file, so `UsedInv` compares the two: they
  are equal while the last write succeeded and the issuer is the same, and a sweep
  takes out of either only what was never used. Ids are not issued again, so
  registering cannot replace a used client.
* `StoredStateProofs`, sign-in: `AdmissionCurrentTheorem`, for any rules, claims, keys,
  sign-ins, damage and restarts, if one edit is made at a time; with two it is false of
  the code (see above). `RulesOK` says that what is declared is what the file holds, in
  the spelling it is loaded in, and that an edit in progress has read just that;
  `AudienceInv` that a callback in progress has seen the present declaration. The
  assumption that `Lower` is idempotent makes stored rules load as they are.

The invariants `IInv` and their like are the proofs' own; they are not among the runs'
invariants, which state what the code promises. TLC was asked about them first, on the
runs' instances. Type correctness, or as much of it as a proof needs, is a part of
them and so is proved, not model-checked, for those modules.

Only model-checked:

* `CallsReturn`: liveness under fairness is out of the prover's reach.
* The composition of `Connections` and `SelfService` in `MCConnections`: each is proved
  for its own steps, and the scenes of the run show them side by side.

The proofs also asked for an order where the code has one: `ClientFor`, `Outcome`,
`Selected` and `Probe` had been written with `CASE`, whose overlapping arms TLA+ leaves
open and TLC takes in order; the first that applies decides now, as in the code.

## 5. Not modelled

* Content: what minimizers detect, redaction, ranking and text scoring, the SQL and jq
  engines, rendering of pages, reports and listings. They are functions of their
  input without state of their own; what decides *whether* they run is modelled.
* Start-up and command line: flags, `doctor`'s reports (its effect on the store is in
  `SecretStore`), wiring and routing.
* External programs and services: sandbox, WASM runtime, tunnel, Vault, mediation's
  enforcing program, the identity and OAuth providers beyond what they may answer.
* Operator tokens: three commands that rewrite one file; left for a later module.
* Within modelled components: legacy unchained audit lines, the permission checks of
  key files and helpers, custody posture reports, decoding of frames and metadata
  (reduced to what is accepted), more than one connection at a time except in
  `Invocation` (connections share no state but the file, which is rewritten under one
  lock), more than one call at a time in `Invocation` (calls meet in the ledger,
  the in-flight map, the audit log, sessions and bearers, which have modules of their
  own), cryptographic strength.

## 6. Plan

Modelled, in the order of importance the plan had: decision ledger, audit log,
in-flight reads, connections, tokens, secret store; then invocation with
grants, references with programs, sign-in with clients and audience, self-service with
discovery, the registry, and upstream calls with delegation. Next:

1. Operator tokens, with two commands at once and authentication beside them.
2. Composition of `Invocation` with `UpstreamCalls` for two concurrent calls, in place
   of the ledger's and the upstream's free choice.
