# RouteGlass in TLA+

RouteGlass measures the network between a visitor's browser and a set of nodes.
A **server** (one Go process, SQLite) holds sessions, tests and nodes and signs
test grants; an **agent** on each node (one Go process) serves the measurements
against those grants and keeps an outbound WebSocket to the server; the
**browser** drives a test against both. This directory models the parts of that
program whose correctness depends on order, failure or counting, checks them
with TLC on small instances, and proves the central results with TLAPS.

Line numbers refer to the files of the repository. `PROJECT.json` lists the
components, the runs, the mutants that show what each property is good for, the
lines every definition stands for, the findings, the hazards and the theorems.

## 1. Inventory

| Component | State | Operations | What makes it correct |
|---|---|---|---|
| Quota ledger (`internal/agent/agent.go`) | `ledger{byNonce, active, day, daily}` under a mutex, `quota.json` | `reserve`, the closure it returns, `load`, `persistLocked`, called by `download` and `upload` | the daily quota survives restarts; slots and streams are neither leaked nor double-counted; a grant moves no more than its caps |
| Control channel (`agent.control`, `server.control`) | the registry `controls`, a node's row (`status`, `tls_ready`), a send channel and two goroutines per connection | connect, heartbeat, ping, route command, disconnect, `deleteNode` | the row and the registry describe the connection that exists; a node that stays connected becomes usable |
| Access sessions and tests (`server.go`, `store.go`) | `access_sessions`, `tests`, `test_node_results`, `invites` and their foreign keys | sign-in by code or invite, `createTest`, `probes`, `grants`, `results`, logout, revocation, `Cleanup` | an invite opens one session; rate limit and cooldown; a session that is ended is ended; old rows can be removed |
| Node registration (`createJoin`, `server.join`, `agent.join`) | `join_tokens`, `nodes`, the agent's `agent.json` | create a token, exchange it, save the identity | a token registers one node; the registered key is the one the agent has |
| Route jobs (`route`, `routeexec.Run`, `api.route`) | the command queue, `route_hops`, `tests.status` | queue, run traceroute, store, poll | the browser shows the hops of the node it asked about |
| Agent TLS (`tlsprovider`, `Run`, `renewLoop`) | certificate and key file, the live certificate, `tlsReady` | load, renew | `tlsReady` means a valid certificate is served; a renewal never destroys a working pair |
| Updater (`updater.go`) | executable, `.bak`, `.new`, lock, database backups, the unit's state | replace, roll back | an update that fails leaves the old version running on the old database |
| Administration | `admins`, `admin_sessions`, `settings`, the first-password file | `ensureAdmin`, `adminLogin`, `adminPassword`, `rotateAccess` | the shown password works; a changed one is changed |
| Rate limiter, access codes | `limits`; a generation and the clock | `allowAttempt`, `clearAttempts`; `AccessCode`, `VerifyAccessCode` | attempts per window; validity of a code |
| Browser speed test (`test-engine.ts`) | bytes reserved per grant, streams | `measureDownload`, `measureUpload`, `runNodeTest` | the engine never asks for more than its grant allows |
| Client address, scores | none | `ClientIP`, `Calculate`, `median`, `jitter` | functions of their arguments |

How they interact: the browser calls the server over HTTP and each agent over
HTTPS; `grants` reads the node's row that the control channel maintains and signs
what the agent's ledger later enforces; `route` puts a command in the channel of
the registered connection, and the agent's answer comes back through the reader
goroutine of that connection into the tables the browser polls. The server is one
process with one database connection (`SetMaxOpenConns(1)`), so statements are
atomic and totally ordered, and handlers interleave between statements. The agent
and the server crash and restart independently; systemd restarts both.

What is hard, and where, is the list of hazards in `PROJECT.json`: the day's
rollover under requests in flight, crashes between memory, disk and reply,
overlapping handlers of one node, goroutines that outlive their handler,
check-then-act across statements, and steps of a sequence of which one fails.

## 2. The modules

Each module is written to be proved about as well as checked: constants with named
assumptions, one action per operation or statement, invariants as conjunctions of
named parts, no `RECURSIVE` operator. `MC<Module>` instantiates a module for TLC,
`<Module>Proofs` holds its theorems; those of the two modules about a node, `NodeControl`
and `NodeJoin`, are together in `NodeProofs`, which is why their definitions have no name
in common.

| Module | Section | Composes | Checked by | Proved in |
|---|---|---|---|---|
| `DailyQuota`, `QuotaLedger` | 3 | the agent's handlers, its ledger and its file | `QuotaLedger` | `QuotaLedgerProofs` |
| `NodeControl` | 4 | both ends of the control channel | `NodeControl`, `NodeOverlap` | `NodeProofs` |
| `SessionStore` | 5 | handlers over the tables and their foreign keys; `OneTime` | `SessionStore`, `SessionLogout` | `SessionStoreProofs` |
| `NodeJoin` | 6 | server, agent and installer; `OneTime` | `NodeJoin` | `NodeProofs` |
| `TestRun` | 7 | page, server and the agents' route jobs | `TestRun` | `TestRunProofs` |
| `SpeedTest` | 8 | the page's streams and the agent's grants; `DailyQuota` | `SpeedTest` | `SpeedTestProofs` |
| `SignIn` | 9 | limiter, codes, rotation and the page | `SignIn`, `SignInWrite` | `SignInProofs` |
| `TlsRenewal` | 10 | the agent, two files and two providers | `TlsRenewal` | `TlsRenewalProofs` |
| `Updater` | 11 | updater, systemd unit and database | `Updater` | `UpdaterProofs` |

A property that a theorem proves for every value of the constants may be left out of
the runs: type invariants, and in sections 3, 5, 7 and 8 the properties named as proved
there. TLC has agreed to each of them on the instances of the runs. Conversely every
safety property that a passing run checks is proved: what is model-checked only is
liveness (section 13).

Two promises are specifications of their own, each implemented in two places.
`DailyQuota` is a budget that admissions only take from: the ledger of a day, and the
agent's account of a single grant. `OneTime` is a secret that is good once
(`ConsumeOneTime`): an invite, and a join token. It says more than that no secret is
exchanged twice: what a secret was exchanged for never changes, a product comes of one
secret, and a secret that was taken or whose time was over is never good again, also
when nothing came of it. What could still be added is in section 13.

## 3. The quota ledger

`QuotaLedger` models `ledger` as the variables `day`, `daily`, `byNonce` and
`active`, and `quota.json` as `file`. An absent map entry is `Unused` or 0; the
empty `day` of a ledger that has seen no reservation is `NoDay`. Each handler
goroutine has a program counter:

| Action | Code |
|---|---|
| `Authorize` | `authorize` and the byte checks of `download` and `upload` (`agent.go:311-340`, `438-442`, `470-474`) |
| `Refuse`, `Charge` | `reserve` from the lock to the answer or to `persistLocked` (`341-377`), the rollover included |
| `Persist`, `PersistFails` | `persistLocked` with its rename, or its error and the roll-back (`378-388`, `412-425`) |
| `Admit` | `reserve` returns and the handler starts serving |
| `Release` | the deferred closure (`389-397`) |
| `Crash`, `Restart` | the process goes, `New` and `load` bring it back (`400-410`) |
| `Issue`, `Expire`, `Midnight` | `grants` of the server, `grant.Verify`, the clock |

Between `Charge` and `Admit` a handler holds the mutex, so no other handler moves
the ledger, but the process can be killed and the clock can pass midnight: that
is why these are steps of their own. Writing `quota.json.tmp` is part of
`Persist`, since nothing ever reads that file.

A release closure decrements the `usage` entry it captured. A rollover replaces
`byNonce`, so after one the closure decrements an entry nobody else sees; it does
touch the *new* `active` map, under the same test key. `Release` says exactly
that. `admitted`, `moved`, `forgotten` and `straddled` are written only for the
properties.

`straddled` is what the concurrency limit cannot be asked of: the tests that had a
request in flight at a rollover and have never been without one since. The rollover
forgets them, and when a test of them makes another request, the release of its old one
deletes the entry of the new. `ConcurrencyWithinDay` is about all other tests: of those
no more than `max_concurrent_tests` are in flight, also beside ones that straddle, and a
test is asked of again as soon as its last request has ended once.

`DailyQuota` is the abstract promise: per day, at most `Limit` bytes are
admitted. The refinement maps `today` and `admitted` to themselves.

### Runs

| Run | Instance | Shows |
|---|---|---|
| `QuotaLedger` | 2 handlers, 2 grants (one without a test), 1 slot, 1 stream, limit 2, 2 days | concurrency and caps under midnight, crashes and failed writes, the refinement of `DailyQuota`, and that slots come back |

In this instance requests move one unit down and none up: the ledger adds both into
the same counters, so uploads of a unit would only double the states. The theorems
cover any caps in both directions.

*Bounds.* One unit of bytes is one request; with caps of 1 and a limit of 2 every
comparison of `reserve` that counts streams, downloads or the day is taken both ways. Two days suffice because a grant lives
60 seconds and so meets one midnight at most (the guard of `Midnight` says that),
and the ledger only compares days for equality. Two handlers let one be stale or
waiting while the other moves; the theorems cover any number of them.

*Fairness* (`FairSpec`). `sync.Mutex` does not starve, so a handler that waits for
it gets it (strong fairness of the steps that take it); file operations return;
systemd restarts the agent (`Restart=on-failure`); time passes; and transfers
end, which is an assumption about clients: no timeout in the code enforces it.
Deadlock is not checked in these runs, because the bounded system does stop: the
last day ends and every grant expires.

### Proofs

`QuotaLedgerProofs` proves every safety property of the run, the refinement, and
`TypeOK`, `DailyQuotaHolds`, `FileCoversAdmitted`, `MemoryAgreesWithFile`,
`SlotsNeverLeak` and `FileNeverForgets` beside, for any number of grants, tests, handlers and days, any caps and limits. The
argument has four layers, each an inductive invariant that uses those below it:

1. `BaseInv` - shape of the variables; mutual exclusion of the handlers that hold
   the mutex; a call carries a real grant from `authorized` on and is dated
   between day 1 and the ledger's day; the ledger's day never exceeds the clock.
   Mutual exclusion is what makes `Charge`, `Persist` and `Admit` of one
   reservation adjacent as far as the ledger is concerned.
2. `QuotaInv` - `DailyQuotaHolds` is not inductive: it needs that the file covers
   what was admitted, that file and memory agree when the mutex is free and differ
   by exactly the reservation in progress when it is not (`CountersAgree`), and
   that the file is never ahead of the ledger.
3. `SlotsInv` and `StreamsExact` - counting: cardinalities of sets of handlers
   grow and shrink by one with each step, by the library's theorems on finite sets.
   `ConcurrencyWithinDay` follows since of a test that does not straddle the entry of
   the map is the number of its requests in flight: every such test is in the map, whose
   size `reserve` limits, and what a stale release takes away belongs to one that does.
4. `GrantInv` - what is charged to a grant is what was moved under it, plus the
   reservation in progress; its caps follow.

The file properties are action properties, proved from the same invariants. The
refinement proof maps `Admit` to the abstract `Admit` (its guard is
`DailyQuotaHolds` after the step), `Midnight` to `Midnight`, and every other step
to stuttering.

*Assumptions.* `LedgerAssumption`: finite sets, positive caps, `NoGrant` and
`NoTest` outside them. Beyond the module: the clock is monotone; a crash kills
the process but not the machine (`persistLocked` does not `fsync`); `load` can
read the file it finds (an unreadable one counts as none).

Liveness (`SlotsComeBack`) is model-checked only: it needs fairness, which the
prover does not reach.

## 4. The control channel

`NodeControl` models one node. For each connection it has the handler of the
server (`accepted`, `stored`, `serving`, `leaving`, `offline`), its reader
goroutine, which the handler never waits for, the heartbeat the reader is
applying, the heartbeats underway, and the length of `cc.send`. The agent has one
connection at a time; either end may notice a broken connection arbitrarily late,
so handlers of several connections of the node overlap. Each database statement,
`controls.Store` and `controls.Delete` is an action of its own, in the order of the
code: the defers of `control` run as *mark offline*, then *delete the entry*, then
*close*.

| Action | Code (`server.go` unless said otherwise) |
|---|---|
| `Dial`, `Hangup`, `Heartbeat`, `AgentRestart`, `TlsChange` | `controlLoop`, `control`, `Run`, `renewLoop` of `agent.go` |
| `Register`, `MarkOnline` | 1121, 1123 |
| `WriteCommand`, `WriteFails` | 1162-1175 |
| `MarkOffline`, `Unregister` | 1124; 1122 and 1119 |
| `ReadHeartbeat`, `ApplyHeartbeat`, `ReadFails` | 1126-1134 |
| `RouteLoad`, `RouteSend` | `route`: 675-692, the channel found in the registry; 693-701, the send to it |
| `DeleteNode` | 966-981 |
| `ServerCrash`, `ServerStart` | no defers run; 84-117 |
| `Cut` | the network |

| Run | Instance | Shows |
|---|---|---|
| `NodeControl` | 2 connections, 1 loss, 1 server crash, 1 route request | three safety properties, and that the node ends up online with its certificate reported |
| `NodeOverlap` | 2 connections, 1 loss | finding: the newer connection loses its registry entry |

`ChanCap` is 1 instead of 8: only "full" and "not full" matter. `overlap` collects
the connections that have lived alongside another, which is the condition under
which registry and row describe the connection that exists.

`route` finds a channel and sends to it in two steps, and the handler may leave between
them: the channel such a request holds (`aim`) becomes `Gone`, and its command is
answered 202 and lost. `RegistryNamesHandler` is therefore about what `route` finds, not
about what it sends.

*Fairness.* Goroutines run; both tickers tick, so every served connection is
written to and a broken one is found out; the agent redials for ever
(`controlLoop` has no other exit); the server is restarted. Nothing is assumed of
the network, but the number of losses is bounded: the liveness properties are
about what happens once it is quiet.

*Bounds.* Two connections overlap as handlers do: one old, one new. One loss is what it
takes for that: the agent redials while the old handler has noticed nothing, and then
either may be the one that returns last; the server's crash loses the connections once
more, without any deferred call. A second loss adds no kind of overlap that these lack,
and with it the liveness check takes eight times as long. The safety properties are proved
for any number of connections, losses and crashes.

### Proofs

The first half of `NodeProofs` proves the type invariant and the three safety properties for
any number of connections and route requests, any channel capacity and any number of
losses and crashes. `AloneIsRegistered` is not inductive: the handler it speaks of has to be
alone from its first step on. `ControlInv` therefore follows a handler outside
`overlap` through its life: while it is there no other handler of the node is
(`AloneIsAlone`), from `controls.Store` to `controls.Delete` the entry is its own
(`AloneHasEntry`), from the UPDATE of `MarkOnline` on the row is online unless the
node was deleted (`AloneIsOnline`), and a deleted node's row is blank
(`DeletedIsBlank`). `RegistryNamesHandler` is part of it. `TlsFromThisConnection`
is an action property, proved from the same invariant. The two liveness properties
are model-checked only.

## 5. Sessions, tests and results

`SessionStore` models the tables `access_sessions`, `invites`, `tests` and what
refers to a test (`test_node_results`, `route_hops`), with the foreign keys that
`store.Open` switches on. A row's `row` says whether it is there; `used` that its
random id was drawn, since ids never come back. A request's handler is a program
counter in `req`; each database statement of a handler is one action, because
the pool has one connection and a handler holds it for one statement only. `results`
and `hops` are the tests the two tables refer to; nothing depends on how many rows a
test has.

| Action | Code (`server.go` unless said otherwise) |
|---|---|
| `SignInByCode`; `ConsumeInvite`, `OpenSession`, `OpenFails` | `accessCode`; `accessInvite`, `ConsumeOneTime`, `newAccess` |
| `BeginCreate`, `CountTests`, `CheckCooldown`, `InsertTest` | `createTest` (512-541) |
| `BeginStore`, `CheckOwner`, `StoreResult` | `testOwned`, then the INSERT of `probes` or `results` |
| `StoreHops` | a `route_result` read by `control` (1135-1152) |
| `BeginLogout`, `Logout` | `accessLogout` (498-510) |
| `Revoke`, `Cleanup`, `CreateInvite`, `Tick` | `revokeSession`; `store.go:85-100`; `createInvite`; the clock |

`Delete` has no cascade, as the schema has none: `Logout` therefore deletes
nothing when the session has a test, and answers 204 all the same (`loggedOut`
records the answer). `Cleanup` is a transaction whose first failing statement
rolls everything back, hence its guards. Nothing in the repository calls it; the
model lets it run at any time, since it is what the store offers for retention, so
that the other properties do not depend on its staying uncalled.

| Run | Instance | Shows |
|---|---|---|
| `SessionStore` | 2 requests, 1 session, 1 invite, 4 tests, limit 2 in a window of 2, 3 instants | references, invites that implement `OneTime`; rate limit and cooldown are exceeded by what is underway at most |
| `SessionLogout` | 1 session, 1 test | finding: 204, and the session stays valid |

*Bounds.* One session suffices: rows of two sessions never meet but in `Cleanup`, whose
guards are about all of them. `Requests` is the number of handlers between two statements at once;
two are what a race needs, and the bounds of `RateBounded` and `CooldownBounded`
are stated in their number: with one request at a time they are the limits the
code means to keep. Durations keep their order (cooldown below window, lifetime no
longer than retention); the clock stops at `LastTick`, so deadlock is not checked.
No fairness is assumed: all properties are about safety.

### Proofs

`SessionStoreProofs` proves every property of the passing run, and `InviteOpensOnce` and
`UnusedLogoutEnds` beside, for any number of sessions, invites, tests and requests and
any durations with `Lifetime <= Retention`:

- `StoreInv` - a row's id has been drawn (`IdsUsed`), every reference holds
  (`ReferencesHold`), and a session expires no later than a lifetime after each of
  its tests was created (`TestsOutlive`). From the last follows a lemma the others
  use: `Cleanup` as it stands removes no test, since when one is old its session has
  long expired, is deleted first, and the foreign key refuses that (section 12).
- `InviteInv` - an invite that has a session or a request that opens one is used,
  and only one of the two exists (`InviteOpensOnce`).
- `InvitesAreOneTime` - `CreateInvite` issues, `ConsumeInvite` takes, `OpenSession`
  exchanges, `OpenFails` abandons, and a tick lapses the invites that expire with it;
  every other step leaves all invites as they are. That `ConsumeInvite` finds an
  invite nobody carries, and `OpenSession` one that only its request carries, is
  `InviteInv`; that the session is new, `IdsUsed`.
- `RateInv` and `CooldownInv` - a budget shared by the tests of a window and the
  requests that have passed the check but not inserted: a check that succeeds
  finds the window below the limit, an insert turns such a request into a test,
  time only takes tests out of the window. `RateBounded` and `CooldownBounded`
  alone are not inductive: they say nothing of the requests underway.
- `UnusedLogoutEnds` is inductive on top of `StoreInv`.

*Assumptions.* `StoreAssumption`: finite sets, `None` outside them, natural
durations, `Lifetime <= Retention` (30 minutes and 30 days). The clock is monotone.

## 6. Registration

`NodeJoin` models `createJoin`, which makes a node and its only token in one
transaction, `join` of the server, one action per statement, and the agent from
`agent.json` on: a process without an identity draws a key at each start
(`New`), so the key names the attempt and the server's handler of it may outlive
the process.

| Action | Code |
|---|---|
| `CreateJoin`, `Expire`, `DeleteRow` | `server.go:863-899`, the token's ten minutes, `966-981` |
| `SelectToken`, `ConsumeToken`, `UpdateNode`, `InsertNode`, `HandlerFails` | `join` of the server (1042-1085) |
| `StartJoined`, `StartJoining`, `Answered`, `Rejected`, `Save`, `AgentFails` | `New`, `Run`, `join` of the agent (87-133, 152-160, 249-293) |
| `Install` | `write_agent_config` of `install.sh` (234-262) |

| Run | Instance | Shows |
|---|---|---|
| `NodeJoin` | 2 hosts, 2 tokens, 3 attempts, 2 failures | a token registers one key, and implements `OneTime`; a saved identity is the server's; a consumed token becomes an identity on a host where nothing fails |

*Bounds and fairness.* `Keys` bounds the attempts, `MaxFaults` the failures; the
bounded system stops, so deadlock is not checked. `FairJoinSpec` says that processes
and handlers run and that systemd restarts the agent (`Restart=on-failure`), which
is what `SpentTokenJoins` needs; nothing forces a failure or a deletion. Two hosts
with two tokens and three keys let a second host present a token, and a host try
again with a new key, while the handler of the first attempt is still underway.

### Proofs

The second half of `NodeProofs` proves the type invariant and both safety properties for any
number of hosts, tokens, attempts and failures. `JoinInv` ties the three places an
identity is in: a handler past the UPDATE of `join_tokens` has marked its token
(`SpentIsUsed`), so there is one such handler per token (`TokenRegistersOnce`); the
node of a registered attempt is gone or carries its key (`RegisteredHasRow`); what
an agent holds in memory or on disk is a registered attempt's (`HeldIsRegistered`);
and no two hosts hold the same key (`HeldOnce`), which each draws anew.
`SavedKeyStaysRegistered` follows.

So does the refinement of `OneTime`: `CreateJoin` issues, `Expire` lapses, `ConsumeToken`
takes a token that no handler has, `UpdateNode` or `InsertNode` exchanges it for the key
of its handler, and a handler that fails in between abandons it. All else stutters:
neither the deletion of the node nor what becomes of the answer and of the agent gives a
token another fate.

`SpentTokenJoins` is a liveness property and model-checked only, but the safety it rests
on is proved: `SpentHeldTheorem` says that, as long as nothing has failed, a consumed
token has a handler that goes on or has registered the node, and an agent that waits for
its answer or has saved it (`SpentIsHeld`). Its invariant `HoldInv` adds to `JoinInv`
that a handler about to insert has no row to collide with (`InsertingAbsent`), so the
INSERT cannot fail on one; that an agent that is joining has saved nothing
(`JoiningUnsaved`); and that no attempt that was not refused has lost its agent
(`AttemptsHeld`). What is left to fairness is that handler and agent go on. It is
assumed that keys do not collide and that no two hosts share an `agent.json`.

## 7. A test

`TestRun` composes `TestPage` and `runNodeTest` of the browser with what the server
stores of a test and with the route jobs its agents run. The page is a chain of
awaits, and `pc` names the one it is in; between two awaits nothing can come in, so
an action reaches from one to the next. The user may cancel at any of them: the
abort is a flag, and what matters is where the code looks at it.

| Action | Code |
|---|---|
| `CreateTest`, `CreateFails` | `app.tsx:156-158` with `createTest` and `nodes` of `api.ts` |
| `ProbeNext`, `Probed`, `SubmitProbe`, `SubmitProbeFails`, `Choose` | the first loop, `app.tsx:160-172`; `probes` of the server |
| `TestNext`, `Finish` | the second loop and what follows it, `174-189` |
| `Granted`, `Latency`, `LatencyFails`; `DownloadGranted`, `Download`, `DownloadFails`; `UploadGranted`, `Upload`, `UploadFails` | `runNodeTest` (`test-engine.ts:152-173`) up to the answer of each grant, and to the end of each measurement |
| `AskRoute`, `AskRouteLost`, `PollStatus`, `PollHops` | `api.route`; `getTest` reads the status and the hops in two statements |
| `Submitted`, `SubmitFails`; `StoreResult`, `MarkComplete` | `submitNodeResult`; the two statements of `results` |
| `Answer`, `AnswerError`, `LoseJob`, `InsertHop`, `EndRoute` | `route_result` in both `control`s: the DELETE, one INSERT per hop, the status |
| `RequestFails`, `Hang`, `Abort` | any request; the cancel button, or leaving the page |

A request that fails for the page may have reached the server all the same
(`SubmitProbeFails`, `AskRouteLost`, `SubmitFails`). No request has a time limit, so one
may also never be settled (`Hang`): only an abort ends that, and only of a request made
with the signal, which those of `api.ts` are not. The download has its time cap. A
result is described by how its parts came about: `full`; `short`, a download whose
streams failed or were refused when some bytes had come, which `measureDownload` returns
like any other (`test-engine.ts:100-107`); `cut` by the abort; or `deaf`, a download that
began after the abort and so never hears it. The model starts where `createTest` is allowed,
which today it is not for the page as shipped (section 12).

| Run | Instance | Shows |
|---|---|---|
| `TestRun` | 2 nodes, 2 candidates, 2 polls, 1 hop | four safety properties, and that the run ends unless a request hangs |

*Bounds.* Two nodes are what it takes for one to be misled by what another has left in
`tests.status`; two polls, for one that is not the last; one hop, for a page that reads
the route before the INSERT, or between it and the status. The theorems cover any number
of each.

*Fairness.* The page goes on with an await that settles, the download has its time cap,
and the server's handlers run. Nothing is asked of the agents, and no request need ever
be settled: `TestEnds` says that the run has ended for good or is hung for good, and that
a cancelled one is hung only in a request made without the signal. Whatever fails, is
lost or comes late does not keep it.

`TestRunProofs` proves the type invariant, the four safety properties of the run, and
`StoredIsKept`: the server never has a complete result of a node that the page does not
show. That needs that a results handler is at work only for nodes in
`localResults`; `CancelCostsOneGrant` that a late grant leaves the page at an await from
which only aborted steps follow; `OnlyCancelCuts` that a draft or a result is cut only
if the signal was aborted, and that after a result that was cut the loop turns to no
other node; `WholeRouteOnceEnded` that a job that
is `done` has stored all of its trace, and that a snapshot called `own` was taken after
that; `CutShortHasCause` that an ended route in the status comes from a job whose result
is not marked yet or never will be (`StatusCause`), carried over to the snapshot being
read and to the result (`SnapshotCause`, `RouteCause`).
`TestEnds` is model-checked only.

## 8. A speed test against its grant

`SpeedTest` is one call of `measureDownload` or `measureUpload` with the part of the
agent that enforces its grant. Streams share `reserved` across awaits; the agent has
`charged` (`u.Down` or `u.Up`) and as many streams in use (`u.Streams`) as it has
handlers, those included that the browser is done with and whose deferred release has
still to run (`late`). A request the browser has given up may yet arrive (`astray`).
The quota of the day belongs to `QuotaLedger`: here the agent may refuse for it at any
time.

| Action | Code |
|---|---|
| `Ask`, `EndStream`, `Receive`, `Uploaded`, `Fail` | `test-engine.ts:76-97`, `130-147` |
| `TimeUp`, `Abort` | `98`, `67-68`; `131` |
| `ReturnDownload`, `ReturnUpload` | `100-107` (`allSettled`), `148` (`all`) |
| `Admit`, `AdmitAstray`, `Refuse`, `Release` | `reserve` and its closure (`agent.go:341-398`) as `download` and `upload` use them |

| Run | Instance | Shows |
|---|---|---|
| `SpeedTest` | 3 streams or 2 workers, 3 at once, cap 7 in blocks of 2 | three safety properties, and that a download ends |

An upload of which a worker has failed returns while the others go on (`Promise.all`):
the outcome is `thrown`, the streams are not done, and what they still ask for counts
against the same grant. That is within `NeverAsksTooMuch`; nothing says they stop.

*Bounds.* A cap that blocks do not divide, so that the last request is shorter; as many
streams as the grant allows, so that one late release is enough to refuse a request.
*Fairness.* The browser's loops run and its timer fires. Nothing is assumed of the
network or the agent; an upload therefore may hang, and only the download is said to
end.

`SpeedTestProofs` proves the type invariant, the three safety properties, and the
refinement of `DailyQuota` by the agent's account of the grant (`GrantIsQuota`), for any
number of streams and workers, any cap and any size of a block. `NeverAsksTooMuch`,
`ReportedIsCharged` and the half of `OnlyLateReleasesRefuse` about bytes are about sums
over the streams. `Total(S, n)` is such a sum, the number of pairs of a stream in `S` and
a unit of its `n`: adding a stream adds a set of pairs, disjoint from the rest, and the
library's facts about cardinalities do what would otherwise take an induction over the
streams. The invariant (`Balanced`) is that what the agent has charged, and what it may
still charge for requests asked or given up but on their way (`Owing`), is within
`reserved`; and that what the browser has received, and what is left of the requests
served, is within `charged`. So a request that arrives, late as it may be, finds room in
the cap. The half about streams needs that a stream which asks is not being served, so
that fewer than all are. `DownloadEnds` is model-checked only.

## 9. Signing in with the access code

`SignIn` has the limiter's map, `accessCode` in the steps between which others may come
in, `rotateAccess`, and the page that keeps the token of the answer. A code is the pair
of generation and window it is computed from.

| Action | Code (`server.go` unless said otherwise) |
|---|---|
| `Attempt`, `Refuse`, with `AllowAttempt`, `Pruned` | 444-456, `allowAttempt` |
| `Verify`, `VerifyGone` | 457-462, `VerifyAccessCode`; `Setting` answers 0 when its statement fails |
| `ClearAttempts`, `NewAccess`, `NewAccessFails` | `clearAttempts`, `newAccess`, 464-469; `api.ts:103-121` |
| `RotateRead`, `RotateWrite`, `RotateAnswer`, `RotateGone` | 829-836 |
| `CreateTest` | 512-521 and `request` of `api.ts` |

| Run | Instance | Shows |
|---|---|---|
| `SignIn` | 2 clients, 1 sign-in underway, 2 administrators, 2 attempts a window of 3 instants, grace 1, pruning above 1 entry, 7 instants | four safety properties |
| `SignInWrite` | 1 of each | finding: the page that has signed in may not start a test |

*Bounds.* Windows of the code and of the limiter are as long as each other, as in the
code, but the limiter's start with an attempt; seven instants hold two changes of the
code's window and two windows of the limiter. Pruning above one entry makes every
attempt of a second client prune. Two administrators are what it takes for rotations to
overlap, which is `overlapped`: a rotation that is slow writes an older generation back
over newer ones, and the code they revoked signs in again. `RevokedIsRefused` excepts
that; section 12 names it. No fairness is assumed. Clock instants are whole, as `at.Unix()` is; `at.Sub(boundary)` is finer by
less than a second.

`guesses` is what the limiter should count: the attempts of a client within the last
window since it last signed in, each with its time and its number at that time.

`SignInProofs` proves the type invariant and the four safety properties for any number of
clients, sign-ins, administrators and codes, any maximum, window and pruning threshold,
and any grace shorter than the window, from `SignInAssumption` alone. The invariant has
three parts beside the types:

- `Limiter` ties each bucket to `guesses`. A bucket counts every attempt since it was
  started (`BucketCounts`), so a full one within its window stands for as many attempts:
  `RefusedForCause`. What remains of attempts before it was started lacks the one that
  started the bucket before, which is a window old by then, so fewer than the maximum are
  left; and a client without a bucket, its bucket pruned or cleared, has fewer than the
  maximum too (`NoBucketFewGuesses`). The sum is `GuessesBounded`.
- `OneRotation`, unless rotations overlapped: the only one underway has read the
  generation it replaces, what was revoked is below the current generation, and a request
  past the check does not carry a revoked one. `RevokedIsRefused` follows.
- The clock starts in the second window, so that there is a window before.

`AcceptedIfDisplayed` is arithmetic on windows: the quotient of an instant is the window
it is in (`WindowIs`), and one less for an instant up to a window earlier that is before
the start of the window (`WindowAgo`).

## 10. The agent's certificate

`TlsRenewal` names a certificate and its key by one value, so the two files may hold
halves of different ones; a certificate is fresh, due or expired. `Run` and a tick of
`renewLoop` are sequences of steps over `certFile`, `keyFile`, `cert` and `tlsReady`.

| Action | Code |
|---|---|
| `Start`, `StartLoad`, `Tick`, `TickLoad`, `Reload` | `agent.go:162-186`, `216-248`, with `Files.Load` and `ACME.Load` |
| `Obtain`, `WriteCert`, `WriteKey`, `RenewFails` | `ACME.Renew` (`tls.go:112-132`) |
| `Age`, `Operator`, `Crash` | time, the operator of the provider `files`, the process |

| Run | Instance | Shows |
|---|---|---|
| `TlsRenewal` | both providers, 4 certificates | two action properties, and that the endpoint becomes ready again |

*Bounds.* Four names suffice for the two files, the one served and a new one; names that
nothing refers to are used again, so renewals never stop. *Fairness.* The agent runs and
systemd restarts it; each step of a renewal, tried for ever, succeeds some time. A
certificate does not become due within the check that obtains it (days against
seconds). `ReadyAgain` is about a process that stays up from some time on.

`TlsRenewalProofs` proves the type invariant, `ExpiredIsWithdrawn` and `ValidIsServed`
for any set of certificates. The invariant says that
a renewal writes a certificate the key on disk does not go with, that a tick which
renews has seen the pair that is on disk until then (`RenewalState`), and that with ACME
a valid pair on disk is the one in service from the end of a check on (`StaysServed`).
`ReadyAgain` is model-checked only.

## 11. Updating

`Updater` follows `routeglass update` on Linux: a binary is its version's number, a file
of the database the version that last wrote it. The systemd unit runs beside it,
migrates and writes its database, and goes down if its version is not `sound`.

| Action | Code (`updater.go` unless said otherwise) |
|---|---|
| `Begin`, `Stage`, `EarlyFails` | `Run` (29-92) |
| `StopUnit`, `MoveAway`, `MoveAwayFails`, `Backup`, `BackupFails`, `MoveIn`, `StartUnit`, `Check`, `Commit` | `replaceManagedService`, `backupDatabase`, `copyFile` |
| `RollBack`, `UndoStop`, `UndoRemove`, `UndoMove`, `UndoData`, `UndoStart` | the closure `rollback` (125-138), whose steps drop their errors |
| `Kill`, `Reboot`, `RemoveLock` | the process, the machine, the operator |
| `Write`, `Die`, `Restart` | the unit: `Type=simple`, `Restart=on-failure` |

| Run | Instance | Shows |
|---|---|---|
| `Updater` | 3 versions, 2 failures | a binary is never lost, results are true, old code never meets new data |

*Bounds.* Three versions are two updates one after the other, so the second starts from
what a killed first one left; two failures are one that starts a roll-back and one in
it. No fairness: all properties are about safety. `torn` names the cases in which a
roll-back does not restore the database: it was interrupted, could not stop the unit or
copy a file back, or found a log that the saved database does not have.

`previous` is the version an update found in place and `missed` the steps of its
roll-back, of those two that matter to the binary, whose error `rollback` dropped: `stop`
and `move`. What `EndsAsItSays` asks of "rolled back" is conditional on them: with the
rename done, the version from before is in place; with the unit stopped too, it is the
one last started. Unconditionally, as the documents promise it, it is not so (section
12). A reboot, an operator or systemd may come in between.

`UpdaterProofs` proves the type invariant and the three properties for any number of
versions and failures. The invariant lists, for each step of an update, where the
binaries are and which version may have written the database last; the saved copy is
never newer than the binary moved away. `History` ties the binary moved away to
`previous` from one end of an update to the other.

## 12. Findings

`PROJECT.json` quotes the lines of the three that a run shows: an older connection's exit
can make a connected node unreachable for route jobs; the logout of a session that has
run a test does not end it; and the page reads the token its writes need under a name the
server does not give it, so no test can be started.

Met while modelling, without a run:

- *Quota.* At midnight UTC `active` and `byNonce` are emptied under requests in flight:
  for a moment more than `max_concurrent_tests` run at once, and a grant that outlives
  midnight, or a restart, has its caps anew (`README.md:114`, `SECURITY.md:42`). Agents
  enforce no cooldown and no per-session limit, although both places list them; the
  server's `createTest` has both.
- *Control channel.* A heartbeat read before the connection broke is written with
  `status='online'` after the handler has marked the node offline (`server.go:1134`,
  `1124`), and a killed server leaves nodes online: with nobody connected, a node stays
  online, is offered for grants and cannot be deleted. A route command sent when its
  handler has just left is answered 202 and lost (`server.go:688`, `696`).
- *Sessions.* Concurrent requests of one session pass the cooldown's check together
  (`server.go:528`); `CooldownBounded` and `RateBounded` say by how much. `Cleanup`
  stops at the first expired session that has run a test (`store.go:91`), so it would
  remove no old tests; nothing calls it, and `history_days` is not read, although
  `README.md:220` calls retention configurable.
- *Joining.* A failure between the server's registration and the agent's rename leaves a
  node registered with a key nobody has, and a spent token in `agent.json`
  (`agent.go:118`, `285`; `README.md:95`). Installing again on a host with an
  `agent.json` ignores the new token (`install.sh:235`), although
  `docs/backup-upgrade.md:23` says a lost identity may be replaced by a new join.
- *Cancelling a test.* `measureDownload` listens for the abort when its grant has come
  (`test-engine.ts:68`) and nothing looks at the signal after the last node
  (`app.tsx:184`): a cancelled test may go on for the download's duration, be stored as
  complete with an upload of 0, and bring the user who has gone home to the results page.
  `web/src/i18n.ts:12` has "This test stopped before completion." `OnlyCancelCuts` and
  `CancelCostsOneGrant` bound what happens.
- *Measuring.* A download whose streams fail or are refused when some bytes have come is
  submitted and stored as complete with the rate it had till then
  (`test-engine.ts:101`); an upload that fails loses its node. No request but a download
  has a time limit, so a test may hang, and cancelling does not end it in a request of
  `api.ts`, whose `request` takes no signal (`api.ts:30`). When one upload worker fails
  the other goes on under the next node's measurement (`test-engine.ts:148`).
- *Rotating.* Two rotations at once write one generation, and one that is slow between
  its two statements writes an older generation back over two that were answered
  (`server.go:833`): the code those revoked last signs in again, which
  `internal/auth/auth_test.go:28` calls "rotated generation accepted".
- *Certificates.* `docs/agent-tls.md:37` says that files "are atomically replaced" and
  that renewal "retries with bounded exponential backoff and jitter": the pair is two
  renames, and a renewal is tried again after an hour. Between the two a pair may stay
  torn; `Load` then answers no expiry (`agent.go:231`), and while renewals fail the
  certificate loaded before stays in service and ready after it has expired, although
  `docs/agent-tls.md:39` says that an expired one removes the address from selection.
- *Updating.* `docs/backup-upgrade.md:40-41` and `README.md:177` say that the updater
  waits for readiness and restores if that fails. It asks systemd once, at once, about a
  `Type=simple` unit: a version that goes down a moment later is reported as updated,
  its backups removed. A roll-back drops the error of the rename that brings the old
  binary back (`updater.go:128`) and says "update rolled back" with no binary in place,
  although both documents promise the old version. It leaves a log (`-wal`) that the saved
  database did not have, and removes a saved copy that it could not copy back. A unit it
  cannot stop it takes for the old version it meant to start. A killed update leaves its
  lock. The steps' order differs from the document's: the service is stopped before the
  database is saved.
- *Administration.* `README.md:77` says that the first login requires a password change;
  `requireAdmin` never looks at `MustChange`. `adminPassword` leaves the other sessions
  of the account.

## 13. What is not modelled

- *Administration*, in part: `ensureAdmin`, `adminLogin` and `adminPassword`. Login uses
  the limiter of section 9 with other numbers; the rest are sequences of statements of
  one actor.
- *Client address and scores*: functions of their arguments over addresses and real
  numbers, which TLA+ would only repeat.
- *User interface*: rendering, theme, translation, the globe and the route map; and the
  generated bundle under `internal/server/webdist`, which is the build of `web/` and
  four fifths of the repository's JavaScript. Of `web/src` the models cover what has
  state beyond a component's own: `TestPage`, `test-engine.ts` and the requests of
  `api.ts`. The page stays mounted when "Test" is chosen again during the test of a
  chosen node (`app.tsx:195`): its run is aborted and no other begins; that is a matter
  of the router and of React's effects.
- *Installer, uninstaller, command line, static files*: effects of external programs, or
  pure input and output.
- Cryptography is perfect: signatures, hashes and codes do not collide.
- Failures of the server's database where the code drops a statement's error: the status
  of a connection (`server.go:1123`, `1124`), a route's hops (`1150`), the status of a
  test (`661`), the generation of the access code (`834`). There a statement of a live
  request is taken to succeed; where the code looks at the error, the models let it fail.

Hazards without a property, left to reviewers: a client that stops reading holds its slot
(`agent.go:187`; `SlotsComeBack` assumes that transfers end); a killed server leaves nodes
online (`server.go:111`); a torn pair keeps its expired certificate in service
(`agent.go:231`); overlapped rotations revive a revoked code (`server.go:833`); an upload worker outlives its measurement (`test-engine.ts:148`;
`NeverAsksTooMuch` only keeps it within its grant); `byNonce` keeps an entry for every grant
of the day (`agent.go:368`); the backoff of `controlLoop` is never reset (`agent.go:511`),
a delay that `EventuallyOnline` abstracts from; `ensureAdmin` writes the password file
before the account (`server.go:189`), three steps before anything is served; an
`agent.json` with a spent token survives a new installation (`install.sh:235`, section 6).

Out of the provers' reach and left to TLC: every liveness property (`SlotsComeBack`,
`EventuallyOnline`, `EventuallyTlsReady`, `SpentTokenJoins`, `TestEnds`, `DownloadEnds`,
`ReadyAgain`), since each rests on fairness and so on `ENABLED`. The three findings of
section 12 that a run shows are counterexamples, for which an instance is enough.
