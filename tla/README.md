# DNSLeaf in TLA+

DNSLeaf is a filtering DNS forwarder in Go: one process that answers DNS over
UDP, TCP, TLS and HTTPS, keeps block rules and blocklists, serves a web panel,
optionally an HTTP and a SOCKS proxy and a console on the terminal, and stores
its configuration in `config.json` and its runtime state in `stats.json`.

This directory holds specifications of the parts of it where goroutines, failures
and time meet, model-checked with TLC and, where they are safety properties,
proved with TLAPS. Paths below are relative to the repository's root (`src/`
in `PROJECT.json`).

## 1. The system

| Component | State | Operations | Interacts with |
|---|---|---|---|
| Configuration and its lock (`config.go`, `auth.go`) | `cfg`, `cfgMu`, `config.json` | `configGuard` (clone, handle, validate, save or undo), `saveConfig` | everyone reads `cfg` under `cfgMu` |
| Loaders (`main.go`, `lifecycle.go`, `blocklists.go`) | `progress` | gravity run, start-up load of remote lists | hold `cfgMu.Lock` while they download |
| Block policy and blocklists (`blocklists.go`, `policy_api.go`) | `Blocked` and `Blocklists` in `cfg`; `blocked`, `blockedSrc`, `blockedPat`, `gravity`, `gravityByList` under `blockMu` | rebuild, refresh, load in two stages at start-up, add and remove a manual rule, `blockDecision` | edited by policy handlers and loaders, read by queries |
| Resolver (`dns_server.go`, `dns_policy.go`) | rate and anomaly windows, client counters | `resolveDNS` | holds `cfgMu.RLock` from start to reply |
| Response cache (`upstream.go`) | `cache` under `cacheMu` | `getCached`, `setCache`, `clearCache` | queries of all clients; commits clear it |
| Upstreams (`upstream.go`, `clients_api.go`) | `Upstreams`, `UpstreamEndpoints`, `DisabledUpstreams`, `unhealthyUpstreams` | `forward`, `monitorUpstreams`, `handleUpstreams` | queries, monitor and requests meet here |
| Persistence (`config.go`) | statistics, query log, audit log, client counters, each under a mutex of its own; `stateSaveCh`, `stateStopCh` | `requestPersistentSave`, `persistentStateLoop`, `savePersistentState`, `loadPersistentState` | every handler and query asks for saves; `Stop` waits for the last |
| Lifecycle (`lifecycle.go`, `main.go`) | registered servers, `stopping`, readiness counters, `errCh` | `Start`, `Stop`, signals | binds, starts and closes every server |
| Accounts (`auth.go`, `runtime_api.go`) | users in `cfg`, `sessions`, `loginAttempts` | login, logout, `requireAuth`, `handleUsers` | edits go through `configGuard` |
| Local console (`console.go`) | the screen | commands, `quit` | takes `cfgMu.Lock` itself; `Stop` ends it |
| Proxies (`proxy.go`) | listeners | accept and relay | registered late, closed by `Stop` |
| Remote console, command line (`console.go`, `cli.go`) | none, or the files of a running server | HTTP client; one-shot user commands | not modelled |
| Status, metrics, backup, certificates, web panel | none of their own | reads, formatting, browser code | not modelled |

What is hard here, and the place in the code, is the list of hazards in
`PROJECT.json`. In short:

* *One lock for everything.* A query holds the read lock while upstreams are
  slow, a loader holds the write lock while lists are downloaded, and Go's
  `RWMutex` parks a reader that arrives after a waiting writer: who nests locks
  stops the server.
* *Partial failure of a request.* The handler has edited memory before the
  reply is validated and written; some of what it edited is not in `cfg`.
* *Coalescing and copying.* Save requests share a one-slot channel; the worker
  copies four sections under four mutexes; processes are killed.
* *Start against stop.* Signals, failing servers and the user's `quit` meet a
  `Start` that is still binding, registering and opening the console.
* *An index edited in place.* Some requests edit it, others rebuild it, start-up
  fills it in two stages with requests between them, and positions of one array
  are kept in another.
* *Shared tables with limits and clocks.* Sessions, failed logins and cached
  answers expire, fill up, and are used by requests that overlap.

## 2. The modules

Every operation of a modelled component that changes state is an action of its
module; the comment above each says what it stands for, and `PROJECT.json`
names its lines. Operators marked "A mutant" are not part of a specification: each
is a definition with a plausible bug, under which TLC finds the property that
`PROJECT.json` pairs it with violated.

**`DurableState`**, **`StatePersistence`** - `stats.json`. The abstract module
says what the file promises: sections only show what memory shows, a save never
takes back what memory and file share, and the file is all that survives a
process. The detailed one has the handlers (`AddStat`, `TrackClient`, `AddLog`,
`ClearPart`, `AddAudit`), the channel of capacity one (`token`), the worker with
its debounce, drain, one copy per section, replacement or failure, `Stop`, a
crash at any moment and a restart from a file that may be unreadable. A section
is the set of changes whose effect it shows.

**`RWMutex`** - Go's lock as its users see it: `holds` counts the read locks,
`writer` is who announced itself, `parked` are the readers behind it. External;
modelled from how the standard library documents it and the code relies on it.

**`ConfigStore`** - the abstract specification of the configuration, with no lock,
clone or goroutine in it: a request edits, checks and saves in one step (`Commit`)
while no query is under way, a query finds one configuration from `Begin` to `End`,
the gravity run and the loader save what is in force (`Persist`), and an entry
edited but not saved is accounted for (`Stray`). `Agreement` is what follows for
memory, file and kept answers.

**`ConfigTransactions`** - everybody who takes `cfgMu`: queries, the readiness
probe, mutating requests with every kind of handler (edits a manual rule,
edits something else, rebuilds, starts gravity, refuses before or after an
edit), their commit and undo, the gravity run, the start-up loader, the
console's commands. The configuration is the set of its entries; `Invalid` are
those `validateConfig` refuses. Two history variables account for what the code
knowingly leaves behind: `leaked`, the entries edited by a refused request or an
unsaved command, and `stale`, the rules whose index an undone request edited.
It implements `ConfigStore` (`ImplementsConfigStore`): the configuration in force,
`CfgInForce`, is the clone from a request's first edit until its commit or undo, so
those edits are no step of the store and the commit is one. `Waits`, `Works` and
`Knotted` say who waits for the lock, who is about to give it back, and which two
waits are for oneself; `WaitsAreServed` relates them.

**`Lifecycle`** - `Start` step by step (bind each socket, register, start or
launch each server, wait, open the console), `Stop` (`sync.Once`, close the
listed servers, stop the console, flush), the goroutine of each server and
proxy, the signal, and `main`'s two ways out.

**`Accounts`** - a login is three steps (`LoginChecked`, then `LoginFails` or
`LoginSucceeds`, then `LoginStores`), because `loginMu` and `sessMu` are released
between them; logins overlap. An edit of an account is one step: it holds
`cfgMu.Lock`, and `Change` includes `configGuard`'s refusal, commit and undo,
the sessions revoked staying revoked in either case, and the look-up of the
session for the audit log (`Record`, `author`). Times are what is left of them.

**`Resolver`** - the order of the decisions for a query and the cache all
queries share. What a client may not ask (profile, schedule, list) is the set
`denied`; it changes at commits, which wait for queries and clear the cache, and
when a schedule turns or a list is loaded, which does neither. `getCached` is two
steps, its look at the clock (`ReadClock`) and, once it has `cacheMu`, its look at
the cache (`Lookup`): between them time passes and other queries store. The age of
an answer is a difference of two clock readings, which may be negative; `Seconds`
divides it as Go does, towards zero, and `Elapsed` converts it to a `uint32`.

**`Upstreams`** - `forward` collects its targets one by one under `healthMu`
and tries them in any order, while the monitor probes the list it copied and
requests edit the list. `listed` counts how often an address is listed, since
nothing keeps it from being added twice; endpoints are listed but not probed;
a conditional-forwarding rule names upstreams without listing them.

**`BlockPolicy`** - what is blocked, and for whom. The configuration (`manual`,
`lists`) and the index derived from it: the map of rules (`blocked`) with the
source of each (`label`), the sorted array of the names of remote lists
(`gravity`, a set, positions being computed from it) and the positions of each
list in it (`index`). `AddRule` and `RemoveRule` edit the index in place;
`AddList`, `PatchList`, `RemoveList` and `EditGroups` rebuild it; each is
committed or undone by `Commit`, which leaves the index alone. `Refresh` is a
gravity run or reload, `Start` a new process with its local lists, `LoadRemote`
its background load, which merges. `BlockDecision` is `blockDecision` for a client
limited to a set of lists; what its profile, the allowlist and the schedules
themselves say of a name are parameters, over which the properties quantify. Four
history variables account for what is true of the index: `loaded` and `served`
(what lists have put there), `lost` (what a DELETE took from a list), `undone`.
Assumed: a list has one identity for its name and its source, no two share one,
and none is called `config` or `regex`; what a source yields in one load, from the
network, the file or the copy under `gravity/`, is any of a set of contents.

How they fit together: `ConfigTransactions` implements `ConfigStore`, and that is
the store the other modules see. `Accounts`, `Resolver` and `Upstreams` rely on
it where they make an edit one step guarded by "no query is under way" (`Commit`),
and `BlockPolicy` where every operation is one step. `IndexMatchesConfig` of
`ConfigTransactions` sees the manual rules under every interleaving,
`BlockPolicy` every list and label between them; `Resolver` takes the outcome as
the set `denied`. `Lifecycle` treats the final flush as one step;
`StatePersistence` shows what that step does and that it ends.

## 3. The runs

| Run | Shows | Instance |
|---|---|---|
| `persistence` | no save request is lost, the last save covers what `Stop` found, `stats.json` is a `DurableState`; everything asked for reaches the file unless a failure is reported or the process killed; `Stop` returns | two requests at once, one clearable section, crashes, one restart, unreadable files |
| `config` | queries are stable; memory, file, index and cache agree but for what is accounted for; all of it is a `ConfigStore`; whoever waits for the lock waits for somebody at work, but for the two knots | a query, a probe, two requests, a command, gravity, loader; a rule, another entry, an invalid one |
| `config_liveness` | queries and requests are answered, a gravity run ends | the same without console and probe |
| `lifecycle` | no server escapes `Stop`, exits are clean, readiness is not early; every signal or failure ends a daemon; with a console every `Stop` after its event loop began does | UDP, TCP, web, a SOCKS proxy, with and without console |
| `accounts` | sessions carry current rights, an administrator remains, only administrators edit and the audit log names who did, live sessions make way last, guesses are bounded | two names, two clients, two logins, two sessions, one failure entry |
| `resolver` | no blocked name and no blocked address is answered; no cached answer is served dead, or with less than its age leaves it, unless it overtook the query | two clients, names, queries and addresses, a cache of one, a clock of four ticks, two to a second |
| `upstreams` | a query fails only when every upstream failed it, exclusion is earned and ends, queries end | an upstream, named by a rule too, and an endpoint, each listed up to twice |
| `block_policy` | for an unlimited client the index says what configuration and lists say; a limited client is not judged by other lists and does not escape its own | two names and a pattern, two local lists that overlap, two remote ones, contents that change or cannot be read, a built-in rule |
| `readyz_deadlock`, `console_deadlock`, `poisoned_config`, `console_never_ends` | see section 6 | the smallest instance that shows it |

Bounds. Two of each actor are enough for the interleavings these properties
speak of: each names one actor and what any other does to it, and the actors of a
kind are interchangeable. Tables are as small as they can be while filling up
(a cache of one, two sessions for three tokens, one failure entry for two
clients), so the limits are met all the time. Every other bound is a constant
with "bound" or the code's own limit in its comment: `MaxRestarts`, `MaxListed`,
`MaxTTL`, `MaxClock`, `Window`, `Block`, `Life`. Handlers run once per behaviour in
`StatePersistence` (a second run of the same handler is another handler). Times
are in ticks; the code only compares them, and the instances have every order of
the expiries. `Resolver` also counts seconds: with two ticks to a second an age can
be a part of one, and the clock goes on until an answer stored at its start
has expired. Its `Uint32` is the number of values of a `uint32`, `2^32` in the code
and four in the instance, above the TTLs as in the code; the proofs are for any. In `block_policy` a state after an undone request is told apart by
the configuration alone (`VIEW Told`): no property but the type invariant, which
is proved, speaks of it, and what ends it rebuilds the index without looking at
it. Two names are enough for a position to shift when the smaller one comes or
goes. The deadlock check is off where a process may really have ended
(`persistence`, `lifecycle`, `console_never_ends`), where the instance contains
the deadlocks of section 6 (`config`, `readyz_deadlock`, `console_deadlock`) and
in `upstreams`, where after `Stop` and the monitor's end nothing need happen.

Fairness. It is weak fairness of what a running goroutine does next: the Go
scheduler runs every runnable goroutine, exchanges with upstreams, probes and
downloads have timeouts, and timers fire. Locks are fair as `sync.RWMutex` is: a
parked reader gets its turn when the writer leaves, a writer when the readers
that were before it do. There is no fairness on arrivals, on failures, on
success of anything, on crashes or on what users and the network do. In
`StatePersistence` it is `WF_vars(Work \/ Exit)`: the worker, and `Stop` waiting
for it, go on while the process lives; crash and restart come when they like. Whether a
save fails is never fair either: `EventuallyDurable` accepts a reported failure.

## 4. Proofs

| Module | Theorems | Argument |
|---|---|---|
| `StatePersistenceProofs` | `TypeCorrect`, `NoRequestIsLost`, `StopAlwaysFlushes`, `Implementation`, `FileNeverForgets`, `WorkerAdvances` | `CopyInv`: what was copied lies between the file and memory, and covers what was asked for while no request is waiting. `NoLostRequest` alone is not inductive, since it does not say how old a copy may be. The same invariant makes each step a `DurableState` step (`DurableStep`). If the file can always be read, memory knows all the file shows (`Kept`), so a save takes nothing from it. For the worker's way, `Rank`: its place in the round, the sections left to copy, and the round a waiting request still asks for. |
| `ConfigTransactionsProofs` | `TypeCorrect`, `QueriesAreStable`, `ConfigurationIsDurable`, `FileIsValid`, `IndexFollowsConfig`, `CacheFollowsConfig`, `Implementation`, `AgreementInherited`, `WaitsEndInWork`, `KnotsAreForGood`, `OnlyLeaksPoison` | `Locked` ties what each goroutine holds to where it stands and excludes readers while a writer edits; `Committed` says that the clone, while there is one, is the configuration the file and the cache agree with. With it each step of a goroutine is one step of `ConfigStore` or none (`StoreStep`). For the waits, `Announced`: who announced itself stands where a writer does until it leaves, and readers are parked only behind a writer; so whenever somebody waits, somebody works or is in a knot. A knot keeps the lock from everybody whose unlock could undo it, so no step ends it (`KnottedStep`). |
| `ConfigStoreProofs` | `StoreAgrees` | `Agreement` is inductive: what keeps it is that commits drop the answers. `AgreementInherited` carries it over to `ConfigTransactions` along `Implementation`. |
| `LifecycleProofs` | `TypeCorrect`, `StopSilences`, `ExitsClean`, `ReadinessIsMeant`, `ReadinessCountsTwo`, `ReportsNeverBlock`, `StopReachesConsole`, `OrphansStay` | a server whose socket is open is in the list until `Stop` copies it and in the copy afterwards (`ServingTracked`, `RegisteredTracked`, `OpenTracked`). For readiness: the counter is the number of DNS servers that have started, so two of at most two are all (`Counted`). For `errCh`: a goroutine reports once, as it ends, and is not spawned twice (`Pending`, `ProxiesWait`). For the console: an event loop that was there before Stop came to it has lost its screen afterwards (`Reached`). |
| `AccountsProofs` | `TypeCorrect`, `RightsAreCurrent`, `PanelIsAdministered`, `EditsAreAuthorized`, `LiveSessionsMakeWayLast`, `ThrottleHolds` | names are unique, sessions and logins verified carry accounts as they are; the tables are finite, which the bounds on them need. For the throttle, `GInv`: failures come in rounds of at most one per login goroutine, each round but the last has waited for a block to end, and what is left of a block and the logins it still lets fail are counted with the round (`Guessed`). |
| `ResolverProofs` | `TypeCorrect`, `PolicyPrevails`, `RepliesAreAlive`, `OvertakenAreServedDead`, `CacheStaysChecked` | `PendingAllowed`: unless pass-through is on, a query that goes on is one the policy allows, and policy and pass-through change with no query under way. The cache holds no blocked address, since what is stored was checked and a commit clears it; that its table is finite is what the bound on it needs. For the TTLs: what was stored and what was read of the clock is past (`Past`), and the cache has one answer for a key (`OneEach`), so what a lookup serves is that answer, aged by the difference of the two readings (`Served`). If the difference is not negative, an answer that has not expired has seconds left (`WholeSeconds`); if it is, by less than a second, it counts as none (`PartOfASecond`), and by more it wraps (`Wrapped`). |
| `UpstreamsProofs` | `TypeCorrect`, `FailuresAreUnanimous`, `ExclusionIsEarned`, `QueriesAdvance`, `RoundsAdvance`, `ForgottenUpstreamsStay` | `Accounted`: each upstream that was enabled all along is still to be read, still to be tried, or was tried. The list and the health meet in it: when the monitor excludes an upstream, the claim about it ends. For the way of a query, `Nearer`: its own steps lower what it has to read, to try or to do, entry by entry, and no goroutine has two queries (`OneEach`). For the monitor's rounds: between two nothing is owed (`Rested`). |
| `BlockPolicyProofs` | `IndexCorrect`, `TypeCorrect`, `UnlimitedCorrect`, `LimitsCorrect`, `OwnListsCorrect`, `LimitsOnlyRelax` | every list's positions are those of its names in the array as it is (`IndexRight`), the array holds the names of the remote lists (`GravityRight`), every rule is there and labelled with a source that has it (`RulesRight`), and unless a request was undone the labels are those of the configuration (`RulesCurrent`). Positions of different names differ (`PositionInjective`), which is what keeps limits apart. `LimitsOnlyRelax` is of `BlockDecision` itself, in any state. |

Each holds for every value of the constants that the named assumptions of the
module admit: they say that limits are positive, that the special values are no
ordinary ones, and that the orders in which `Start` binds and registers name the
servers they should, each once. TLC evaluates the assumptions in every run.

Only model-checked: the liveness properties (`EventuallyDurable`, `StopReturns`,
`QueriesAnswered`, `RequestsAnswered`, `GravityEnds`, `DaemonStops`,
`StopEndsConsole`, `QueriesEnd`, `ListedRecover`), since the prover has no rules
for fairness and `ENABLED`, and the violations of section 6. Every invariant and
every other action property of the runs is proved. For some of the liveness
properties the part that is safety is proved: `WaitsEndInWork` (nobody who waits
is forgotten) for `QueriesAnswered` and `RequestsAnswered`, `StopReachesConsole`
for `StopEndsConsole`, and, as variants, `QueriesAdvance` for `QueriesEnd`,
`RoundsAdvance` for `ListedRecover` and `WorkerAdvances` for `EventuallyDurable`
and `StopReturns`. Three invariants are proved and left out of the runs, being
implied by what is in them or part of an invariant there: `DiskIsValid`,
`CacheIsChecked` and `Agreement`. These theorems assume more than their modules:
`ReadinessIsMeant` at most two DNS servers (section 6), `ReadinessCountsTwo`,
`ReportsNeverBlock` and `ThrottleHolds` finitely many servers or login goroutines,
`FileNeverForgets` that `stats.json` can be read (`ReadErrors = FALSE`, which is
an instance of the module). Nothing here needs induction over data, and no module
declares a RECURSIVE operator, which the prover's SMT backend does not take.

## 5. What is not modelled

* What a section, an entry, a record or a message holds, and all parsing,
  formatting and logging. The clock: that a wait ends is shown, how long it is
  (20 s per list under the write lock, five for a shutdown) is not.
* What an address, a profile, the allowlist or a schedule says of a client or a
  name: parameters of `BlockDecision`, `denied` in `Resolver`. Renaming a list.
* The rate limiter, the anomaly detector and the tables of clients
  (`dns_policy.go`): counters in windows, whose product with a cache or an index
  is out of reach of a run that shows more than the counters do; a refusal by the
  limiter is among the local answers of `Resolver`.
* The console's blocklist and whitelist commands as edits of the index: they
  never get past `saveConfig` (section 6, `console_deadlock`).
* `handleLog` and the like as readers; the JSON of any reply.
* A query's DNS records: a cached answer has one TTL. Ageing also lowers the
  field of the OPT pseudo-record, which is no TTL (`upstream.go:123`).
* The Windows fallback of `atomicWriteFile` (remove, then rename), which has a
  moment without a file.
* Requests that outlive the five-second shutdown window.
* Two processes on the same files (`cli.go` beside a server).
* The remote console, proxies' relaying, TLS certificates, the web panel, DHCP
  and ARP look-ups.

## 6. Findings

Four runs end in a violation, each of a statement of the repository about itself.
A run shows one behaviour of a small instance; what the theorems add is said with it.

* `readyz_deadlock` - `GET /api/readyz` takes `cfgMu.RLock` inside
  `configGuard`'s. A writer between the two stops it, the probe and everybody
  behind them for good: `KnotsAreForGood` proves that no step of anybody unties it,
  and `WaitsEndInWork` that it and the next are the only ways to be stuck on the lock.
* `console_deadlock` - `runCommand` holds `cfgMu.Lock` and its editing commands
  call `saveConfig`, which takes `cfgMu.RLock`.
* `console_never_ends` - a signal between the making of the console and its event
  loop stops everything but the event loop, which then runs with nothing left to
  end it but Control-C (`OrphansStay`). A Stop that begins once the loop runs is not
  exposed to it (`StopReachesConsole`).
* `poisoned_config` - a reply that is not 2xx leaves its edits in memory; one
  that is invalid makes every later commit fail. `OnlyLeaksPoison`: nothing else
  does; every invalid entry a request starts from was left that way.

Seen while modelling and kept in the properties as exceptions, without a run of
their own: an undone request leaves the block index as it edited it
(`auth.go:222`, `stale` in `IndexMatchesConfig`); readiness counts to two, so with
DNS over TLS one of three servers may be missing (`api_core.go:71`, why
`ReadyMeansStarted` is about UDP and TCP alone); an upstream that was excluded
and then removed from the list, but is still named by a conditional-forwarding
rule, is never probed again (`upstream.go:299`, why `ListedRecover` asks that it
stays listed; `ForgottenUpstreamsStay` proves it of every instance); eight failed
logins are the limit, but each login in flight when the eighth fails may still be tried (`runtime_api.go:178`, the bound of
`GuessesBounded`); with pass-through the policy applies before it, unlike the
order `docs/ARCHITECTURE.md:11` gives; and the overtaken answers below.

`docs/CONFIGURATION.md:50` says that cached responses are returned with TTLs reduced
by their age. `getCached` reads the clock before it takes `cacheMu`
(`upstream.go:21`). When its goroutine is held up in between for a second or more,
and another query stores an answer a second or more after the reading, the age
comes out negative, wraps as a `uint32` (`upstream.go:32`), and the answer, though
just stored, is served with every TTL set to 0. `CachedRepliesAreAlive` excepts
these lookups (`Overtaken`) and no others; `OvertakenAreServedDead` proves that it
happens to each of them.

The audit log names nobody for an administrator who renames, demotes or removes
the own account or changes the own password: the session is revoked before
`addAudit` looks it up (`main.go:540`, the second case of `OnlyAdminsEdit`).

Of the block policy, each an exception a property of `BlockPolicy` states:

* A rule has one label, that of the local list loaded last (`blocklists.go:643`).
  A client limited to one of two local lists with the same name is not blocked it
  when the other's label stayed, and a manual rule that such a list repeats does
  not apply to the client either: `foreign` in `OwnListsApply`.
* An exact entry labelled with an unselected list ends the search
  (`blocklists.go:706`), so a manual pattern that matches the name too is not
  reached: `foreign` again.
* Patterns of remote lists have no label and apply to no limited client, not even
  to one limited to that list: `OwnListsApply` promises its names only.
* A list chosen by a profile decides before the global allowlist, but only for
  names in the array, that is, of remote lists or shared with one
  (`blocklists.go:691`). The positions of local lists are dropped by the remote
  load of start-up, so such a name may be decided differently after a restart and
  after a rebuild: `loaded` in `OwnListsApply` is of remote lists there. It is the
  only way a limit blocks what would pass without it (`LimitsOnlyRelax`).
* `DELETE /api/blocked` takes a local list's rule with the manual one until a
  rebuild (`policy_api.go:63`): `lost`.
* A built-in rule that was deleted, and `blocklist_file` once no list is left, are
  back at the next start (`config.go:574`, `config.go:581`): `Start`.

## 7. Plan

Done, in this order: persistence, configuration, lifecycle, accounts, resolver
and cache, upstreams, block policy; liveness of the persistence worker across
crashes and restarts; proofs of every safety property the runs check; the
configuration's abstract specification and its implementation; the safety behind
the findings and some of the liveness properties. Left, in order of weight:

1. The second process: a command of `cli.go` beside a running server, two writers
   of `config.json` and `stats.json`.
2. Requests in flight during `Stop`, and the final flush against them:
   `Lifecycle` composed with `StatePersistence`.
3. A module that composes `Resolver` with `Upstreams`, with `forward` as the
   abstract "anything" of the former, and with `BlockPolicy` in place of `denied`.
4. An abstract specification of the block policy, the set of rules in force for
   each client, with `BlockPolicy` shown to implement it where it does.
