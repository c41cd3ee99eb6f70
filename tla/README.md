# PulseWeaver: a TLA+ verification project

PulseWeaver is a forward-auth sidecar. Devices announce the IP address they are
on (heartbeats, pairing, the web UI); a reverse proxy asks `verify-ip` whether
a client address may reach a host; the answer comes from an in-memory cache of
what SQLite stores. This directory models the part of the backend
(`src/internal`) where that can go wrong: the registry, the two rules that
disable addresses behind the handlers' backs, the cache and the decision; and
what surrounds it: accounts and sessions, device credentials and pairing codes,
the catalog of hosts and groups, the access log from the decision to the hourly
statistics, and the pages that read all this while it changes.

## 1. Inventory

| Component (package) | State | Operations | Talks to |
|---|---|---|---|
| device registry (`device`) | `devices`, `addresses`, events | register/refresh/disable an address, create/enable/disable/delete/update a device, API keys | address observers: lease, policy, maxaddr; device observer: policy |
| rules (`rule`) | `device_rules` | enable/disable the lease rule and the limit rule | rule observers: lease, maxaddr |
| max active addresses (`maxaddr`) | two bounded channels, one listener | queue a trigger, enforce | reads rule and device, calls `DisableAddresses` |
| address leases (`lease`) | `address_leases`, two bounded channels, one listener | upsert, clear, set expiry; expiry job | reads rule, calls `DisableAddresses` |
| policy cache (`policy`) | `ipSet`, `networkPolicies`, refresh channel of capacity 1 | signal, periodic refresh, initialise | reads device, useraccess, networkpolicies |
| policy decision (`policy`, `httpserver`) | none of its own | client address of a request, `VerifyAccess`, `Decide`, simulate, audit page | geoip, decision observer |
| user access (`useraccess`) | grants per user | set, delete with the user | policy |
| hosts (`hosts`) | hosts, groups, members | reconcile hosts, reconcile groups | policy |
| network policies (`networkpolicies`) | policies with CIDR and host access | create, update, delete, set access | policy |
| users and sessions (`auth`) | users, sessions | login, promote, demote, delete, bootstrap | user observers: useraccess, device, *inside* the transaction |
| pairing (`devicepairing`) | pairing codes | create, replace, invalidate, claim | device (keys) |
| access log (`accesslog`) | channel, batch, `access_log` | queue a decision, flush; list by pages, histogram | geoip |
| address history (`device`) | `address_events` | one event per change; kinds, gaps, chart, ranking | - |
| roll-up, retention (`rollup`, `scheduler`) | hourly aggregates, watermark | roll up, delete old rows; dashboards from rows or buckets | accesslog, device |
| scheduler (`scheduler`) | job list | tick | lease, rollup, retention |
| geoip, HTTP server, other queries, web UI | files, none | download/reload, route, read | - |

How they interact. A handler commits one `BEGIN IMMEDIATE` transaction and only
then calls its observers in the order of registration (`app/app.go:173-197`).
Observers never block: they put a value into a channel or drop it. One
goroutine per service empties the channel. The database survives a restart, the
channels and the cache do not. `DeleteUser` is the exception: it calls its
observers before it commits.

What is hard here, then, is the gap between commit and notification, dropped or
reordered notifications, listeners that do their work in several database
accesses, a refresh that reads three tables one after the other, a decision
that takes the cache's lock twice, plans computed from reads outside their
transaction, pages and bars read one statement at a time, and restarts
anywhere. `PROJECT.json` lists
each such place as a hazard, with the property that would notice it going
wrong. What makes each component correct:

- registry: a frozen (disabled or deleted) device never has an enabled address;
- limit: a device above its limit never goes unnoticed, and comes down;
- leases: the table agrees with the registry once events are applied; a
  deadline never outlives its rule nor exceeds its TTL; idle addresses expire;
- cache: a difference from the database is always about to be repaired;
- decision: an address shared by users reaches only what each may reach; the
  longest prefix decides; the proxy itself is never let in; nobody but the
  trusted proxy speaks for another address; the audit page shows what is decided;
- accounts: there is one superadmin and it can always log in; a plain user never
  has a password or a session; a changed password opens nothing;
- statistics: a row is counted before it is pruned and stays counted; retries
  and restarts neither lose nor repeat an hour; every accepted decision counts;
  rows and buckets give the same numbers;
- credentials: a code yields one key, the newest code and the last key are the
  only ones that work, what was revoked stays revoked;
- catalog: a plan applied to rows that changed since leaves sound rows and what
  its author asked for;
- reading: a walk neither skips nor repeats a row that stays, the bars of a
  histogram partition its window, the history tells the state of every address.

## 2. Modules

| Module | Models | Extends |
|---|---|---|
| `Registry` | `device`: state of devices and addresses, one operator per transaction | |
| `MaxAddr` | `maxaddr` and the limit half of `rule` | `Registry` |
| `PolicyCache` | `policy/lifecycle.go`, `refreshCache`, and every handler that feeds the cache (device, useraccess, hosts, networkpolicies, `auth.DeleteUser`) | `Registry` |
| `Lease` | `lease`, the lease half of `rule`, the expiry job | `Registry` |
| `Decision` | `verify-ip` from the headers to the response and the event: client address, token, `Decide`; `buildIPSet`, `buildNetworkPolicyCache`; simulation and the audit page | |
| `AccessLog` | `accesslog`: the sink's channel, buffer, flushes and drain; pruning | |
| `Traffic` | `scheduler`, `rollup` with its dashboards, and the life of the process, composed with the sink | `AccessLog` |
| `Paging` | the access log's list (`filterx` filters, sort and cursors) and histogram (`timebucket`), read while rows change | |
| `History` | `address_events` and the history views built from them | `Registry` |
| `Lapse` | the history and the lease service together: every transaction writes its event and tells the lease service | `History`, with an instance of `Lease` |
| `Catalog` | `hosts`: the two reconciles with their reads, plans and transactions | |
| `Credentials` | abstract: what keys and codes promise | |
| `Pairing` | `devicepairing` and the API keys of `device`; refines `Credentials` | |
| `Users` | `auth`: accounts, roles, passwords, sessions, principals in flight | |
| `MaxAddrProofs`, `PolicyCacheProofs`, `LeaseProofs`, `DecisionProofs`, `TrafficProofs`, `PagingProofs` | the theorems | the module named |
| `AuthProofs`, `TableProofs` | the theorems | `Users` and `Pairing`; `Catalog`, `History` and `Lapse` |
| `MC*` | instances for TLC | the module named |

Definitions have the names of the functions they model; `PROJECT.json` maps each
to its lines. Definitions marked *Variant* are deliberate mistakes (a
notification left out, an off-by-one in a capacity, a guard dropped). No
specification uses them: they replace the correct definition when a property is
tested for its ability to fail.

**Registry.** `device` and `addr` are the status of the rows; `older` is the
order of `updated_at` among the enabled addresses of a device, the only thing
enforcement reads of that column. It has operators, not a specification of its
own: each module that extends it adds what happens after the commit.

**MaxAddr.** `inflight[r]` is a handler between commit and notification;
`events` and `ruleEvents` are the channels; `job` is the listener with
`enforce`'s local variables. `GetMaxActiveAddresses`, `GetEnabledAddresses` and
`EvictExcess` are its three accesses, between which anything may happen.
`EnforceFails` is a database error, `Restart` wipes everything in memory. The
history variable `lost` holds the devices whose last trigger got lost that way;
a new trigger takes the device out again.

**PolicyCache.** Tables, the handlers' progress (`req`), the refresh token
(`signal`), the listener (`pc`, `snap`) and the snapshot (`cache`). `Db` is what
`refreshCache` would read at this moment; the reads of its three parts are three
actions. `DeleteUser` spans several steps and holds the write lock (`writer`)
meanwhile; its changes become visible at the commit, its signals at once. Two
history variables record why a part of the cache may be stale although nothing
is under way: `missed` (changed without a later signal, by the code's design or
oversight) and `failed` (a database error got in between). Reading the part
clears both.

**Lease.** Times are relative: a lease, a queued rule event and a lease about to
be written hold the time left, and `Tick` takes one from each. So the clock
needs no bound. A handler's events are announced one at a time, in any order,
and each may be lost, either to a full queue or because the request's context
was cancelled. The queue for rule events is shared with events of the limit
rule, which the listener skips; they only fill the queue and are covered by that
loss. History: `lost` and `raced` (an event was committed while an earlier one
about the same address or device was still unannounced).

**Decision.** An address is a number of `Width` bits, a prefix a range. What
parsing, unmapping and host normalisation make of a text is given by the
functions `Canon` and `NormaliseHost`, which the instances choose such that
several spellings meet and one is invalid. `AddEntry` is one turn of
`buildIPSet`'s loop, over any entries in any order. `Justified` is the reference
definition, written without accumulators or sorting: what each user behind the
address may reach alone, or the policies of the longest matching prefix.
`Decide` is two steps, `LookupIP` and `MatchPolicies`, between which `Publish`
may replace the caches. Before them `HandleForwardAuthIP` refuses early data, a
missing or wrong token and an address that does not parse, and
`ClientIPFromRealIP` says which address is judged: the peer's, or the header's if
the peer is written exactly as the trusted proxy. The record `check` ends with
the status and the event that the observers get; the headers and the geo data of
an event are left out. `buildUserIPs` is the audit page's cell of a user at an
address, computed from the published snapshot.

**AccessLog and Traffic.** `AccessLog` has the sink's state and steps and no
specification of its own; `Traffic` adds the process, the scheduler goroutine and
the tables the jobs write. `tick` is the statement the scheduler is at, with the
local variables of the job; each database statement is one action, so a flush, an
error, a cancellation or a crash fits between any two. A bucket holds the set of
rows it counted, which tells a replaced count from an added one. A slot is a part
of an hour: a retention cutoff can fall inside an hour, as in the code. Events
are at most one slot in the channel or the buffer, and a tick takes at most one
(`Advance`): the flush interval is two seconds and a slot is many minutes. The
sink's `select` after cancellation may take any ready case, so `Receive` and
`FlushTick` stay enabled while the process stops and then use the cancelled
context. Three history variables: `lost` (dropped, or in a batch that could not
be inserted), `late` (inserted after its hour had been rolled up) and `owed`
(hours whose traffic was counted but not passed by the cursor when the process
ended). The lease expiry job, first in every tick, appears as one more way for a
tick to fail, and address events, which retention deletes too, as a statement
that may fail. The dashboards are operators over the tables:
`GetSummaryStats` and `GetAttributionSplit` count rows for windows of up to a day
and buckets for longer ones. The other widgets (series, top IPs, services)
dispatch in the same way and group by other columns.

**Users.** Each service method is one transaction. What is not atomic is a
request: the middleware copies user, session and role into a principal, and the
handler acts on the copy later, in any order with other requests. A password is
the number of the change that set it; a session remembers, as history, the last
password it has proved to know. `BootstrapAdmin` is also the restart.

**Pairing and Credentials.** A code and a key are fresh numbers, the row of a code
knows whether its expiry is before it, now or past (`Tick` moves it on), and
`issued` remembers for which device and code a key was minted. Every method is one
transaction under SQLite's write lock, so racing or retried claims are steps in
some order. `Credentials` is the abstract specification: codes are new, open or
closed, keys are spent. The mapping makes a code open while its row is pending and
its time has not come; expiry, which the code never stores, is thus a step of the
abstract specification that the clock takes.

**Catalog.** `host`, `group` and `member` are the three tables; `req[r]` is a
request with the desired image, what it has read and its plan. Reading and applying
are different steps, so plans go stale. Row ids are SQLite's: the largest plus one,
so that the id of a deleted row returns, and a stale plan can meet another host
under the id it remembers. Unique names and foreign keys make a transaction fail.
Images in which two groups have one name are part of the specification and of the
theorems (`SameNames`); the run leaves them out, because they nearly always fail and
double its states.

**Paging.** One statement per page and per bar. A row has its time, its deny reason
(NULL if it was allowed) and its contributors, which is what the filters and sorts
tell apart; NULL sorts first, as in SQLite. A window may name both ends, one or none.
The zero time, which the list takes for an open end and the histogram for the year 1
(`access_log_view.go:361-366`), is not among them. The sink inserts rows up to
`FlushDelay` late and with reused ids, retention prunes. History variables hold the
rows that were there at every statement (`stable`) or at some (`ever`), and what the
walk returned.

**History.** It adds the event log to the transactions of `Registry`. Which addresses
the expiry job and the limit service disable, and when, is left open: they may list
any address that exists, in whatever state it is by the time it is disabled. The views
are operators over the log that retention left: `eventKind`, the gap since the
device's last renewal, `ttlRisk`, the chart (`riskDeviceBuckets`) and the ranking by
percentile, with its thresholds, its order and its limit, and the readout of one
device, which has none of them. The clock counts parts of a second (`Second`).
`julianday` differences are binary fractions of a day: `Short` has the pairs of
instants for which the difference comes out below the whole seconds between them and
is cut to one less. Nothing is assumed about `Short`.

**Lapse.** The composition of `History` and `Lease`, which share the registry. A step
that changes the registry is one step of both modules; announcing, queueing, applying
and losing lease events, the read of the expiry job and the restart are steps of
`Lease` alone (`BehindTheRegistry`); retention is one of `History` alone. The lease
table is thus as late and as wrong as `Lease` lets it be, and the expiry job disables
what it read before (`ExpireListed`). Two history variables: `moved` has the devices
whose rule has changed since their last renewal, or had a rule event under way at that
renewal, and `early` the devices with an address that has been expired out of time since the
last renewal. An expiry is in time if the lease that the job read is still the one of
the last renewal: no event about the address was lost or overtaken or is under way, and
the lease has not been extended since.

## 3. Runs

| Run | Checks | Instance |
|---|---|---|
| `maxaddr` | `TypeOK`, `FrozenDeviceHasNoAccess`, `CapEnforced`, `StaleReadsCovered`, `CapEventuallyHolds` | 1 device, 2 addresses, 2 handlers, limits 1 and 2, queues of 2 and 1 |
| `cache_devices` | `TypeOK`, `CacheConverges` | 1 device, 1 address, 2 users, 2 handlers |
| `cache_access` | `CacheConverges`, `AccessConverges`, `PendingReadsConverge`, `CacheCatchesUp` | 1 user, group, host, policy, network and handler, next to `DeleteUser` |
| `lease` | `TypeOK`, `LeaseFollowsAddress`, `LeasesAreBounded`, `NoRuleNoExpiry`, `LeasesExpire` | 1 address, 1 handler next to the scheduler, TTLs 1 and 2, queues of 2 and 1 |
| `decision` | `DecisionIsJustified`, `OnlyVouchedRequestsPass`, `AuditShowsTheDecision` | 2 users, 2 hosts, up to 2 entries per address, addresses of 2 bits (rows hold two of them, in two spellings; for the others policies alone decide), 4 overlapping prefixes, 3 at a time, a trusted proxy, 16 requests |
| `traffic` | `CoveredHoursAreCounted`, `RetriesCompleteAttribution`, `ZoomingAgrees`, `DecisionsAreCounted` | 2 decisions, 6 slots in 3 hours, rows kept 1 day and buckets 2 (a day is one hour), a channel of 1, batches of 2, chunks of 2 hours, 2 attribution kinds, 1 error, 1 shutdown or crash |
| `users` | `OneSuperAdmin`, `OnlyAdminsLogIn`, `SessionsKnowThePassword` | 3 accounts, 3 sessions, 2 requests in flight, 4 passwords |
| `pairing` | `TypeOK`, `OneKeyPerCode`, `OnlyTheLastKeyOpens`, `ClaimableCodesAreShown`, `RevokedForGood`, `KeepsThePromise` | 2 devices, 2 codes, 3 keys |
| `catalog` | `CatalogIsSound`, `HostsConverge`, `GroupsConverge` | 2 requests, 2 names of hosts and of groups, ids 1 and 2, images of up to 2 entries, linked to nothing or to both ids, no two groups of an image with one name |
| `paging` | `WalkIsComplete`, `HistogramIsExact` | 3 rows at a time, 4 instants, pages of 1 or 2, both sorts and directions, 4 filters, 3 windows (with both ends, the first only and neither), 2 bucket widths |
| `history` | `HistoryTellsTheState`, `ViewsAgreeOnTheLate` | 2 devices with 2 and 1 addresses, 4 events, clock steps of 5 and 8 units of half a second under a TTL of 3 s, differences of 4 s that are read as 3, the 50th percentile, 1 renewal to qualify and 1 place in the ranking |
| `lapses` | `LapsesShow` | 1 device, 1 address, 1 handler next to the scheduler, 4 events, 3 instants, a TTL of 1 s, queues of 1 |

What they show. `maxaddr`: whatever is dropped, fails or restarts, a device is
above its limit only while somebody is about to act on it or after its trigger
was lost. `cache_devices` and `cache_access`: the token of capacity 1 is enough,
since a signal that arrives during a refresh stays in the channel; the one
transaction that signals too early is saved, for the grants, by the write lock;
the tick repairs the rest. `lease`: two queues served in any order and a TTL read
before the row is written still leave every lease bounded by the rule of today.
`decision`: deny wins in whatever order the rows of a shared address arrive, a
header counts for nothing unless the proxy sent it, and the audit page agrees with
the decision for every user who is subject to a list.
`traffic`: the order of the jobs, the seed of the cursor and REPLACE together
keep every count, although retention cuts through hours and the two roll-ups
commit separately, and a window gives the same numbers from rows and from buckets.
`users`: reading the row again inside the transaction is what makes the stale
principals harmless. `pairing`: the row's status, tested and changed under the
write lock, is all that single use needs. `catalog`: the order of deletes, creates
and updates keeps the rows sound under any stale plan, and a plan that is not stale
yields exactly its image. `paging`: the row id as last sort key and the treatment
of NULL in the keyset predicate make the order total; the inclusive end of the
window belongs to the last bar only. `history`: every path that switches
an address writes its event; the test by percentile selects the devices of which more
renewals than the rest of the percentile are late, and the ranking leaves out none that
is later than one it shows. `lapses`: however late, lost or overtaken the lease events
are, an address that is expired in time has been silent for a TTL, and as only signs of
life count as renewals, the history says so.

The bounds. Devices share nothing but the queues and the listener, so one
device exercises the reads of `enforce`; a second would only delay. Two
concurrent processes suffice for one to overtake the other: two handlers, or a
handler and the scheduler, or a handler and `DeleteUser`. Two addresses with
limits 1 and 2 have an excess with and without the protected address as the
oldest. Queues of one and two elements fill up, so that drops happen. In the
cache one row of each table is enough for it to change between two reads;
hand-over needs two users. In `cache_access` the part of the addresses stays
empty; the tick reads the three parts alike, and the policies that
`CreatePolicy` does not announce exercise it. TTLs 1 and 2 let a rule be raised
and lowered under a running lease. In `traffic` (`MaxTime`, `MaxEvents`,
`MaxFaults`, `MaxStops`) two decisions fill the channel, fall into one hour or
two and into both halves of an hour, and three hours make a chunk and a rest;
the error and the stop may hit any statement. In `users` (`MaxPasswords`) two
requests are in flight together, each account can get a password and one can
change it. In `pairing` (`MaxCodes`, `MaxKeys`) one code replaces another and a key
can be minted by each and once by an administrator. In `catalog` (`MaxId`,
`MaxImage`) two rows let one be kept while another is deleted and its id given
away. In `paging` (`MaxTime`, `MaxId`) three rows on pages of one or two have equal
sort values on both sides of a page's edge, and NULL among them. In `history`
(`MaxEvents`, `MaxTime`) four events make up to three gaps of one device, or one of
each; the clock steps make gaps of 0, 1, 2, 5, 6 and 7 s and, where the difference
falls short, 3 s, below, at and above the TTL. Devices are listed with all or half of
their renewals late, and both devices qualify for the one place together, with equal
and with different ratios. Four events cannot pass a sample floor above one for two
devices, so the floor excludes nobody in the run; the theorem covers every floor.
In `lapses` four
events are two renewals, an expiry and the renewal that ends the lapse; with one
address the queues of one fill up and drop, and another address could only make the
premises of `LapsesShow` rarer. Every action waits once the log is full (`Room`), and
states are told apart without the record of lost rule events (the view
`WithoutRuleHistory`), which neither `Next` nor the property reads. The theorems of section 5
remove the bounds for every property that needs no fairness.

Fairness. Listener, ticker and scheduler are goroutines that run as long as the
process does; a handler that has committed always reaches its notification,
because nothing in between blocks. Each gets weak fairness. Nothing is assumed
about the arrival of requests, about errors or about restarts: the liveness
properties have the premise that from some point on only these processes act
(`Settling`), or that nothing new is announced. `Traffic` also assumes that the
clock goes on and that a supervisor starts the process again; errors and stops
are bounded there, as no promise survives a database that always fails.

The deadlock check is off in `pairing`, `catalog`, `history` and `lapses`, where the bounds end a behaviour: no code or key is left, no image fits the ids that are
left, or the log and the clock are at their end.

## 4. Where the code and its documentation disagree

The models contain these differences and record them; no run has a property for
them, and the properties exempt what is recorded:

- `policy/cache.go:43-44` says that a refresh "atomically replaces both in-memory
  caches (IP set and network policies)". `Decide` reads them under two locks
  (`policy/access.go:55`): with a replacement in between it can miss an address in the
  old IP set and let it in by a policy that only the new snapshot has, which neither
  snapshot allows. In `Decision` this takes a `LookupIP`, a `Publish` and a
  `MatchPolicies`; `torn` records it;
- `lease/expiry_job.go:18` says that the job "disables addresses whose time-based
  lease has expired". It reads them in one access and disables them in another
  (`expiry_job.go:37`, `48`) without a second look: a rule event or a heartbeat that
  the listener applies in between extends the lease, and the address is disabled while
  its lease is running, until the next heartbeat. In the history such an expiry follows
  a renewal by less than a TTL, and the renewal after it is shown as "ok"; `early`
  records it;
- `app/app.go:196` says that "policy cache refreshes on any policy mutation";
  `CreatePolicy` (`networkpolicies/service.go:48`) notifies nobody. `missed` records
  it, and the tick repairs it (`CacheCatchesUp`);
- `DeleteUser` signals before it commits, so a refresh may read the addresses of the
  user as they were, and no signal follows (`auth/service.go:357`, against
  `device/service.go:366-368`); `missed` records it;
- the process may end between the two statements of a roll-up chunk; the
  attributions of the chunk are then never written, although everything up to the
  last bucket is taken as covered (`rollup/job.go:48-49`); `owed` records it;
- after the cancellation the sink's select may still choose the ticker, and the batch
  goes into a cancelled context (`accesslog/sink.go:92`, against the comment in
  `accesslog/sink_test.go:122`); `lost` records it;
- the limit keeps the address whose event it processes rather than the newest
  one, so of two queued registrations the newer may be evicted
  (`maxaddr/service.go:124`, `docs/Connecting-Devices.md:228`);
- overlapping `UpdateDevice` calls write all columns, so one may restore the old
  owner unannounced (`device/service.go:298`); `missed` records it;
- events announced in another order than they were committed may leave a lease
  row for a disabled address (`lease/repository.go:50-52`), until its next event;
  `raced` records it;
- the expiry job trusts the lease table: a heartbeat that commits just before the job
  runs, and whose lease is extended just after or never, because its event is lost,
  does not save its address; the next heartbeat enables it again. `early` records it;
- the gap between two renewals is a difference of fractions of a day cast to seconds:
  a renewal exactly at the TTL may be read as a second before it
  (`device/address_history_view.go:166`);
- `IntersectionApplied` compares with the first restricted user only
  (`policy/cache.go:30`, `164`);
- a row flushed after its hour was rolled up is never counted; `late` records it;
- a stale reconcile plan names rows by id, and ids come back: it may delete or
  regroup a host that its author never saw (`hosts/reconcile_hosts.go:81`,
  `reconcile_groups.go:80`). `HostsConverge` therefore speaks of hosts that are still
  the same;
- the bars of the histogram are separate statements, and rows arrive up to two
  seconds late, so their sum need not be the total of the list
  (`accesslog/access_log_histogram_view.go:50-53`); a walk without an explicit window
  moves its default window from page to page;
- a manual disable counts as a renewal and can hide a lapse
  (`device/address_history_view.go:74-89`); after retention the oldest event left is
  shown as "created" whatever it was; the risk of a past gap is judged by the rule of
  today; the count of late renewals takes gaps of at least the TTL, the ranking
  gaps above it;
- a user who bypasses the list and shares an address with a restricted one is shown
  no effective hosts there; the audit shows access at the trusted proxy's address,
  which `Decide` refuses;
- a window above 24 hours leaves out its first hour if it starts inside it, and the
  hour in progress (`rollup/traffic_reads.go:14`);
- `policy/observer.go:39` says that contributors are there "on allow or
  host-denied"; a decision by a network policy has none;
- the peer is compared with the trusted proxy before it is unmapped
  (`httpserver/middleware.go:147`): a proxy that connects in the mapped spelling is
  not trusted, which fails closed;
- a pairing code can be created for a deleted device; it can never be claimed.

Met while reading, in code that is not modelled: a device can be given to a user who
was deleted meanwhile, after which the fleet page hides it while its addresses stay in
the cache (`queries/fleet_view.go:111-114`); suggestions for hosts miss an hour that is
complete but not rolled up yet (`queries/host_suggestions.go:128-155`); up to
24 hours the country statistics include the end of the window
(`accesslog/country_stats_view.go:43`) and the other widgets do not
(`rollup/traffic_reads.go:83`), though all are meant to agree for a given window
(`rollup/rollup.go:21-22`).

## 5. Proofs

All theorems hold for any sets of devices, addresses, handlers, users, groups,
policies, requests, rows and filters, any limits, TTLs and retentions, any queue
capacities of at least 1, any bound on the clock, the ids and the number of errors
and stops, given the ASSUMEs of the modules. The ones that are more than the type of
a constant: `Address` is finite, which cardinalities need; the ids of addresses and
devices differ in `Lease`, because they index one set of events (they are keys of
different tables); the aggregates of `Traffic` are kept at least as long as the rows,
which `config` enforces.

Steps that need an induction over a finite set or a prefix of the numbers take a
smallest or greatest element instead. The lemmas that provide it (`LeastExists`,
`LastExists`, `GreatestExists`) rest on the library's theorem that the strict subset
ordering on finite sets is well founded.

**`MaxAddrProofs`**: `TypeCorrect`, `FrozenDevice`, `CapIsEnforced`,
`StaleReadsAreCovered`. The inductive invariant is
`TypeOK /\ FrozenDeviceHasNoAccess /\ CapEnforced /\ StaleReadsCovered`.
`CapEnforced` alone is not inductive: when the listener finishes a pass, its
device stops being "in the job", and one must know that the device is not above
its limit then. `StaleReadsCovered` says so: the limit and the list that were
read still bound what is stored, or somebody else's trigger is waiting. The two
arguments that carry the proof are lemmas. `StillOverCap`: an action that
only disables addresses or raises the limit cannot put a device above its
limit. `StillCovered`: any commit that could do so leaves a trigger behind. For
the eviction, the addresses kept are contained in the list minus the victims,
whose cardinality is the limit that was read.

**`PolicyCacheProofs`**: `TypeCorrect`, `CacheDoesConverge`,
`AccessDoesConverge`, `PendingReadsDoConverge`. The inductive invariant is
`TypeOK /\ CacheConverges /\ AccessConverges /\ PendingReadsConverge`. The last
one says of the snapshot being built what the first says of the cache, and that
a `DeleteUser` that has used up its signal can still rely on a refresh that has
yet to read the grants, because it holds the write lock. The proof treats
handlers that notify alike (`HandlerConverges`, `CommitConverges`): whatever they
change, they leave a pending notification. It then goes through the handlers
that do not notify (`QuietCommits`: what they change is not in `Db`), deletion
and refresh.

**`AuthProofs`**, about `Users`: `TypeCorrect`, `SuperAdminStays`, `UsersStayOut`,
`OldPasswordsOpenNothing`. The inductive invariant adds two facts to `TypeOK` and
the three properties, which also need each other: a promotion may leave the
sessions alone only because a user who is not an administrator has none.
`InFlight`: the session of a request in flight is still its user's, and only the
bootstrapped account's principal says superadmin, so the rule against acting on
oneself protects that account. `Blank`: an account that does not exist yet is not
deleted and has no password, so that creating it makes a plain user.

**`AuthProofs`**, about `Pairing`: `PairingTypes`, `CodesAreSpentOnce`,
`YoungestKeyOpens`, `OpenCodesAreShown`, `RevocationIsFinal` and
`PairingImplementsCredentials`. The inductive invariant is `PairingTypeOK`, the three
invariants and two facts. `RowsExist`: exactly the codes created so far have a row, so
that a new code meets none. `KeysUseUpCodes`: the code of a minted key is used, so
that a claim, which wants it pending, mints the first key of its code. The refinement
is proved action by action: every step is one step of `Credentials` or leaves its
variables alone, except that a tick closes the code whose time it takes past the
expiry.

**`LeaseProofs`**: `LeaseTypes`, `LeasesFollowAddresses`, `LeasesStayBounded`,
`NoRuleLeavesNoExpiry`. The inductive invariant is
`TypeOK /\ OneUnannounced /\ LeaseFollowsAddress /\ LeaseFollowsRule`. The two
properties about deadlines speak of a moment with nothing under way and cannot be
carried through the moments in between. `LeaseFollowsRule` says of a device's
deadlines what `LeaseFollowsAddress` says of the rows: the newest event about the
rule that is not applied yet agrees with the rule, or, if there is none, the rows do
and so does the row the listener is about to write with a TTL it read earlier.
`OneUnannounced`: of two events about the same row between commit and notification,
the second has marked it as raced, so an event that is announced for a row that is
still trusted is the row's only one. The queue lemmas say what the newest event about
a row is after an append and after the head is taken.

**`DecisionProofs`**: `DecisionsAreJustified`, `RequestsAreVouchedFor`, `AuditIsTrue`.
The inductive invariant adds four facts to the first two properties. `Building` is
the loop invariant of `buildIPSet`: an accumulator bypasses the list if all its
contributors do, and otherwise holds the hosts that each contributor may reach alone.
`Published` says the same of every entry of the snapshot, and that its prefixes are
sorted, the most specific first. `Phase` and `Pending` describe a request between the
two reads of `Decide`: it already knows that no user has the address, and no refresh
has come in between unless it is marked torn. The first matching prefix of a sorted
list is the longest one because the set of matching positions has a least element.
`AuditIsTrue` needs only `Published`.

**`PagingProofs`**: `WalksAreComplete`, `HistogramsAreExact`. What makes the walk
inductive is `ListOK`: the cursor cuts the rows that stay into the ones returned and
the ones behind it, exactly. The lemmas behind it say that the order of the list is
total and transitive wherever NULL falls among the values, that the SQL predicate of
a cursor is that order (`KeysetIsBehind`), and that a page, being a finite set, has a
last row, which becomes the next cursor. For the histogram, `HistogramOK` keeps every
row that was ever there in a finite set and the rows that stay inside the window and
the filter; each of the latter falls into exactly one bucket.

**`TrafficProofs`**: `RolledHoursAreCounted`, `RetriesComplete`,
`ZoomingChangesNothing`. The inductive invariant is the conjunction of
- `Types`;
- `Timing`: an event on its way to the table, and a tick under way, are at most a
  slot old, so a row that a tick prunes is of an hour before the one the tick began
  in, which the roll-up before it has passed;
- `Phase`: where the cursor and the range are at each statement of a tick;
- `GoneIsCounted`: a row that is gone was counted and is behind the cursor, or its
  bucket has expired too; without it, the statement that replaces a bucket by the
  rows that are left could take a pruned row out of the count;
- `CoveredHoursAreCounted` itself;
- `AttributionOK`: attributions are complete behind the cursor, behind the cursor a
  restart will take, and for the kinds already written of the chunk under way;
- `TrafficSound`, `AttributionSound`: a bucket holds only rows of its hour and group.

Completeness and soundness together say that a bucket of an intact hour holds
exactly its rows. `ZoomingChangesNothing` follows: both paths count the same set of
rows, and the rows of a window are the disjoint union of those of its parts.

**`TableProofs`**, about `Catalog`: `CatalogStaysSound`, `HostsReachTheImage`,
`GroupsReachTheImage`. `CatalogIsSound` is inductive: the transactions check what the
unique and foreign keys check and cascade the rest, whatever plan they are given.
Convergence needs what a request has established before its transaction, and
`CatalogIInv` adds it. `HostsPlanned`: a new host's name was not among the rows read,
so that a row that was to be deleted cannot come back under its id and its name; every
kept id was read; and the rows read are the table as long as nobody has committed
(`clean`). `GroupsPlanned` says the same of a request that reads groups, then members,
and plans: a group the plan leaves alone is as desired. `HostsApplied` and
`GroupsApplied` say what the transactions do to the tables, on ids that `NewId` and
`Inserted` are shown to keep apart.

**`TableProofs`**, about `History`: `HistoryTells`, `LatesAgree`. The views read what
retention has left, and nothing about that is inductive; the invariant `HistoryIInv`
speaks of the whole log. `Chronological`: ids follow times, so gaps are not negative.
`LogTells`, `FirstIsOn`, `OnIsHeartbeat`: the last event of an address has its state,
the first one switched it on, and only heartbeats do that. The state told by the last
event that is not a refresh is the state told by the last event, because the first
event that differed would not be a refresh. For `LatesAgree` the rows of a sample are
put in the order the view ranks them in: the rows in time come first, so the rank of
the last of them is their number, and the percentile is above the TTL exactly if that
rank is below it. The page of the ranking is the first `TuningLimit` rows of an order
that is total because device ids differ and transitive because ratios of positive
numbers are (`RatioOrder`, `RankingOrder`); that a finite set has as many rows before
its k-th one as its rank says is `FirstOfOrder`. The proof needs `ttlRisk` to take the
first branch that applies, as SQL does; TLA+'s `CASE` promises less, so it is a chain
of `IF`s.

**`TableProofs`**, about `Lapse`: `LapsesShowUp`. A step of `Lapse` is a step of `Lease`
and one of `History` (`LapseIsLease`, `LapseIsHistory`), so that the types of the lease
service are those of `LeaseProofs`, instantiated, and `HistoryIInv` stays. The invariant
`LapseIInv` adds four facts that relate the two. `RuleIsTtl`: both go by one rule.
`RulesArrived`: no rule event is under way for a device whose rule has not moved.
`LeasesRunFull`: if the last renewal of a device was at address b, its event is the last
one about b and has reached the listener, and the rule has not moved, then the lease of
b, or the one the listener is about to write, runs until a TTL after that renewal or
longer; a lease only starts when its event is applied, and the clock takes from both
alike. `ExpiriesAreLate`: so an address that has been expired since, in time, was not
expired before that instant. The lemmas in between follow one event from its commit to
its queue and to the table (`CommitReached`, `AnnounceReached`, `SendReached`,
`QueueShrinks`). When the last renewal's address is off and everything after it is an
expiry, the gap to the next renewal is a TTL or more, and `GapSeconds` may cut a second
only from a gap above it, as the clock has moved on.

Only model-checked: the four properties that need fairness (`CapEventuallyHolds`,
`CacheCatchesUp`, `LeasesExpire`, `DecisionsAreCounted`), which are out of the prover's
reach. Every invariant and action property of the passing runs is a theorem.

## 6. Not modelled

- Generated bindings (`internal/httpapi/*.gen.go`, more than half of the Go lines of
  the repository), test utilities and the web UI: no logic of the program's own.
  Measured against all Go lines the map is therefore small; it covers about
  29 % of what is written by hand and is not a test utility.
- HTTP handlers whose only work is to turn a request into a call and an error into a
  status; routing, body validation, rate limits, logging.
- geoip: download of a database file and its reload. `Reload` closes readers that a
  lookup may still hold (`geoip/lookup.go:93`); what happens then is up to the
  library. No decision depends on the result.
- Names, icons and other profile columns of devices, users, groups and policies; the
  ranges a CIDR may lie in (`networkpolicies/network_policy.go:58-116`).
- Ignored host suggestions and the suggestions themselves.
- Pages that are one projection of the tables (fleet, users, posture, policy
  summaries, countries), the total of the access log's list, the listing part of the
  address history.
- SQLite itself: a transaction is one step. Where a transaction spans steps
  (`DeleteUser`) the write lock is explicit; rowids, NULL and constraints appear where
  the code depends on them.

## 7. Plan

1. done: `Registry`, `MaxAddr`, `PolicyCache`, `Lease`, `Decision` with the request
   path and the audit page, `AccessLog`, `Traffic` with the dashboards, `Users`,
   `Pairing` and `Credentials`, `Catalog`, `Paging`, `History` and `Lapse`; proofs of
   all their safety properties.
2. An abstract specification of "eventually consistent copy" that `PolicyCache`
   refines.
3. The access pages (user list, policy summaries) against the cache; the ranges of
   CIDRs as pure operators.
