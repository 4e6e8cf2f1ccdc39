# Verification of ironDHCP

TLA+ specifications of ironDHCP, a DHCP server in Go whose leases live in a
PostgreSQL database that several servers may share (active/active), with a web
interface in React. The specifications are written from the Go source, the SQL
migrations, the statements in `internal/storage` and the TypeScript of
`web/src`; paths below are relative to the repository.

Contents: [the system](#1-the-system), [the plan](#2-plan),
[the modules](#3-the-modules), [the runs](#4-the-runs),
[the proofs](#5-the-proofs), [where code and documents differ](#6-where-the-code-and-what-is-said-of-it-differ),
[what is left out](#7-what-is-not-modelled).

## 1. The system

One process (`cmd/godhcp/main.go`) loads `config.yaml`, opens a connection pool
to PostgreSQL, runs the migrations, copies the reservations of the configuration
into the database, and starts the DHCP servers (one UDP socket per interface,
one goroutine per packet), two expiry workers, the API server, the event
broadcaster and the Git poller. Several processes may use one database.

| component | state | operations | interacts with |
|---|---|---|---|
| **Advisory locks** `storage/postgres.go` | session locks inside PostgreSQL; the idle connections of the pool | `WithAdvisoryLock` = lock, run fn, unlock | called by the allocator around every write of a lease; each statement takes any idle connection of the pool |
| **Leases table** `storage/leases.go`, `migrations/001` | rows (id, ip, mac, state, expires_at, updated_at), `UNIQUE(ip, subnet)` | one SQL statement per function | allocator, handlers, workers, API; no transactions |
| **Allocator** `dhcp/allocator.go` | local variables of a request only | `AllocateIP` (existing lease, reservation, pools in order: expired rows first, then never used addresses), `RenewLease`, `ReleaseLease`, `DeclineLease` | leases table, reservations, advisory locks, cache |
| **Message handlers** `dhcp/handler.go` | one goroutine per packet | DISCOVER, REQUEST, RELEASE, DECLINE, INFORM | allocator, leases table, broadcaster |
| **Expiry workers** `dhcp/server.go`, `dhcp/expiry_worker.go` | a ticker | mark expired rows; delete rows expired or released for 90 days (`server.go:315-316`) | leases table, while handlers are between two statements |
| **Lease cache** `storage/cache.go` | LRU list, index by MAC, index by IP, counters | `Put`, `Remove*`, `Get*`, `ExpireOld`, eviction at capacity | written by the allocator, never read by it |
| **Subnets** `dhcp/server.go` | `s.subnets`, listeners | `findSubnetForRequest`, `ReloadSubnets`, start and stop | replaced by a Git sync while handlers read it, without a lock |
| **Git synchronisation** `gitops/*.go`, `storage/git_sync.go` | the clone, the applied configuration, `git_sync_log` rows | poll, pull, validate, apply, log | poller goroutine and API request may sync at once; changes reservations one by one, then calls the reload function `main.go` has set: API server first, DHCP server if it was started |
| **Activity events** `events/broadcaster.go`, `api/handlers.go`, `web/src/pages/Activity.tsx` | an event counter, a queue of 100, the clients with a channel of 10 each; the page's EventSource and its latest 100 events | `BroadcastDHCPEvent`, `Register`, `Unregister`, the loop, `handleActivityStream`, the EventSource | packet handlers publish; each open Activity page subscribes |
| **Schema** `storage/init.go`, `migrations/*.sql` | tables | `runMigrations` at every start | everything that uses the database |
| **API and authentication** `api/*.go` | token table, 24 h expiry | login, validation, clean-up, one handler per endpoint | reads the database, triggers syncs, answers the web interface |
| **Web interface** `web/src` | localStorage's token; in each tab the token in memory, a page with its data, and the calls in flight | login, logout, navigation, an interval per page, reloads, filter, manual sync | requests to the API, of which any may fail, be late, or answer 401 |
| **Configuration** `config/*.go` | none | load, defaults, validation | start-up and, partly, Git sync |
| **Life cycle** `cmd/godhcp/main.go` | the order of starts and stops; whether there is a web interface, and whether the DHCP server started | start, signal, stop | all of the above |
| **Metrics, logging, build** | output only | | |

What is hard in it, and what has to be right:

* *Locks through a pool.* A PostgreSQL advisory lock belongs to the session it
  was taken in, but `pool.Exec` uses any idle connection. A session may take a
  lock it holds again; the unlock may run in another session; the pool may close
  the session that holds the lock. Correct: at least two servers exclude each
  other, and no call waits for ever.
* *Check, then act.* Every handler reads in one statement and writes in another;
  other handlers, other servers and the expiry workers run in between, servers
  die in between, and a query may succeed though its answer is lost. Correct: an
  address in force keeps its client, an address changes hands only by being
  deleted, a renewal touches only the client's own row.
* *The protocol.* Packets are lost, delayed, duplicated, and broadcast to all
  servers; clients reboot and ask for the address they remember. Correct: two clients do not
  use one address, and a user's address has a row of that user — as far as the
  server acknowledges the address of the lease it has allocated or renewed.
* *Loops.* Expired rows, addresses and pools are tried in turn with error paths
  that skip or stop. Correct: a client is refused only when nothing is free;
  every packet is done with.
* *Half-applied changes and concurrent syncs* (Git). Correct: a sync that says it
  succeeded is in force where there is something to reload, and the reservations
  are those of the file the server has loaded.
* *Answers and pages.* An interval does not wait for the previous request, a page
  may be left while its requests are on their way and entered again, one of two
  requests may fail, a token may die at any time, and tabs share it. Correct: a
  page shows data of its own visit, in the end the present ones; nothing says
  "Loading..." for ever; a session ends only when it should.
* *A stream that is always ending.* The HTTP server's `WriteTimeout` ends every
  event stream after ten seconds, queues are bounded, and the loop may end first.
  Correct: a publisher's events stay in order across reconnections, no channel is
  used after its end, a handler whose page is gone goes too.
* *Indexes that must agree* (cache), *a shared slice replaced under its readers*
  (subnets).

`PROJECT.json` lists the hazards with their lines and the properties that cover
them, and says of the others why none does.

## 2. Plan

| order | modules | state |
|---|---|---|
| 1 | `LockTable`, `AdvisoryLock`: locks through pooled connections; proofs in `AdvisoryLockProofs` | done |
| 2 | `LeaseStore`, `DhcpServer`, abstract `Assignment`: the DHCP service; proofs in `DhcpProofs` and, for a table from which nothing is deleted, `DhcpAllocationProofs` | done |
| 3 | `GitSync`, abstract `Deployment`: poller and API syncs at once, apply step by step, failures, restarts, the log; proofs in `GitSyncProofs`, those about log and reservations in `GitRecordProofs` | done |
| 4 | `WebInterface`: tabs, tokens, pages, calls, the API's answers; proofs in `WebInterfaceProofs` | done |
| 5 | `ActivityStream`, abstract `ActivityFeed`: publishers, broadcaster, stream handlers, the page; proofs in `ActivityStreamProofs` | done |
| 6 | the lease cache | not built: the allocator writes it and nothing reads it, so that what its indexes say decides nothing |
| 7 | life cycle, reload of subnets under readers | partly, in `GitSync`: which parts of a process run decides what its reload function reaches (`reach`), and what a restart loses is in the modules above; otherwise starts and stops come in a fixed order. The reload is one assignment without a lock, where the outcome of a race is not the program's |
| 8 | configuration rules | not built: pure checks of one file at start; `GitSync` takes their outcome as `Config[c]`, with the networks and entries that do not parse |

`DhcpServer` composes `LeaseStore` and `LockTable`. `WebInterface` holds the
pages with the API and its tokens, since a 401 relates them; `ActivityStream`
holds the whole way of an event from the goroutine that publishes it to the page.
The others meet in the database and in fixed calls: what one sees of another is a
constant or a choice of its environment (`GitSync`'s reservations are a constant
of `DhcpServer`; a manual sync of `WebInterface` is a request that ends one way or
the other at any later time; a publisher of `ActivityStream` is any packet handler).

## 3. The modules

**`LockTable`** is PostgreSQL's view of advisory locks: `held[c][k]` counts how
often session `c` holds key `k`. External to the repository.

**`AdvisoryLock`** is `WithAdvisoryLock`. A caller goes idle → calling → blocked →
inside → leaving → idle: waiting for a connection, waiting in
`pg_advisory_lock`, running fn, about to run the deferred unlock. `SendLock`,
`Body` and `Unlock` need a connection of the caller's own pool that no other
statement occupies; only a blocked caller occupies one, since other statements
end without waiting. `Recycle` is the pool closing an idle connection
(`MaxConnLifetime`, `MaxConnIdleTime`), `Victim` the deadlock detector, `Crash`
the death of a process. `via` and `lost` are history variables: the session a
caller was granted through, and the callers whose hold has left the table while
they are inside.

**`LeaseStore`** has the leases table of one subnet and one operator per SQL
statement. `UNIQUE(ip, subnet)` makes the table a function from addresses to
rows. Times are kept relative to now: `ttl` is the distance to `expires_at`
(not below `-Oldest`), `age` the distance from `updated_at` (not above
`Retention + 1`), so the state space is finite without a clock. The column
`allocated_by`, which every query names but no listed migration creates, is
taken as present.

**`DhcpServer`** is the service of one subnet. A handler is a goroutine with a
stage `pc`, its packet `req` and its local variables `job`; every SQL statement
is one action. `job.fn` says which function runs under the lock: `claim`
(allocateFromPool's loop over expired leases), `search` (findNeverUsedIP),
`renew` (RenewLease), `reserved` (createLeaseForReservation). The lock is keyed
by the bytes of the address, of which Go has two forms (4 and 16 bytes), so the
two allocation loops lock different keys for one address: `Key` keeps that.
`Passes` is the check under the lock, `Written` the statement after it,
`NextPool` and `Return` the ways a loop goes on. `Expire` and `Delete` are the
workers' statements, `QueryFails` a broken connection (with the write possibly
done), `Crash` the death of a server, `Tick` the passing of time. The clients
(external, RFC 2131) send to any set of idle handlers — none when a packet is
lost, several when it is broadcast or duplicated — and listen only to the answer
to their last packet. `offer` and `bound` are what each client has chosen and
uses. A client may also ask for an address it was not offered, as after a reboot
(`Remembers`, pairs of a client and an address; `NoIP` is a REQUEST without one,
which `handleRequest` refuses). `Present` are the clients that come: a reservation
may be for one that never does. In `bound`, the history `own` says whether the
acknowledged address is that of the lease allocated or renewed for the packet:
where the requested address has no row, `handleRequest` allocates any address and
acknowledges the requested one (`handler.go:240-266`).

**`Assignment`** is the promise: an address belongs to one client at a time, what
is in force is never taken away, an address changes hands only by being
forgotten, and none goes to a client while set aside for another.
`DhcpServer!Implements` refines it with `owner` the `mac` column and `inForce`
the active rows not past their expiry.

**`GitSync`** is `SyncService.Sync` and all it calls. A syncer is a poller or the
goroutine of an API request; nothing keeps two from running in one server, and
several servers share the reservations and the log. `pc` is the stage, `job` the
local variables: `commit` is `commitInfo`, `file` the commit whose file
`validateConfig` found in the clone (which another sync may have moved since the
pull), `known` the `existingMap`, `next` the place in the file, `row` whether the
row of the log is still there. Each statement of `applyConfig` is one action
(`Upsert`, `Delete`), whose error is ignored as in the code; then `Show` and
`Reload` are the reload function, `Record` sets `currentHash`, and `Finish` is
`finalizeSyncLog`. `reach[s]` is what the reload function of a server reaches,
chosen when the server starts: `"none"` without the web interface, for then
`main.go` sets no function; `"api"` where the DHCP server failed to start and
`dhcpServer` is nil (`main.go:151-157`, `180`); `"all"` otherwise. In the first two
cases `Reload` changes no subnets and the sync goes on to success. `running` is the
configuration of the DHCP server's subnets, `shown` that of the API server, 0 the
one of `config.yaml`.

The commits of the branch are numbered. `Config[c]` says of the file of commit `c`
whether `validateConfig` accepts it, has the networks of its subnets, and lists its
reservations with the network they stand under. A reservation's row is its address,
its network and a text (hostname, description, boot options), and UNIQUE is on
address and network. `Bad` stands for a string that Go or PostgreSQL does not
parse: `applyConfig` drops the errors of `ParseCIDR`, `ParseMAC` and `ParseIP`
(`sync.go:243-247`), so that the one statement with such a value fails
(`Storable`) while the rest of the file is stored; `ReloadSubnets` refuses the file
as a whole if one network does not parse (`Parses`). Whether a row is left as it is
depends on its address and text and not on its network (`Same`,
`sync.go:257-259`). The commit of a failed row of the log is not kept, since no
property reads it. `Pull` moves HEAD and the files of the clone in one step, as
go-git is taken to do; a sync that reads the clone in the middle of another one's
pull is not in the model. `Breaks` is a failing or cancelled call;
`Restart` keeps the clone and the reservations and, by migration 003, loses the
log. Two history variables: `reloaded`, the commits a server has put into force
since it started, and `overlap`, the servers in which two syncs have run at once.
The processes are on different hosts: the clone's path is fixed
(`/tmp/irondhcp-git`), and two processes of one host would share it.

**`Deployment`** is the promise about what a server runs: the configuration of
`config.yaml`, or a published one that can be used, whole, and never newer than
what the server has fetched; the last one fetched at the moment it is put into
force, unless syncs of the server have got in each other's way since it started.
`able` are the servers that can change what they run.
`GitSync!Implements` refines it with `published` the branch, `fetched` the clones,
`inForce` the subnets' configuration, `able` the servers whose reload function
reaches a DHCP server and `muddled` the history `overlap`: a pull
maps to `Fetch`, a reload to `Deploy`, the start of a second sync to `Muddle`, and
the seven other stages of a sync to stutters.

**`WebInterface`** is the browser with its tabs, and what the API server answers.
`stored` is localStorage's token, `memory[t]` the one of tab `t`'s `APIClient`,
`page[t]` the page with its React state, `shown[t]` the data it holds. A `call` is
one run of an asynchronous function of a page: `fetch` is its `fetchData`, `sync`
and `refresh` the two parts of `handleManualSync`, `login` is `handleSubmit`.
`req[s]` has the state of each of its requests: sent, running at the server,
answered, refused, failed. Actions are the points at which the functions stop and
go on: `Navigate`, `Load`, `Logout`, `Submit`, `ManualSync`, `Choose` are the
user's, `Tick` is the interval of a page (started whether or not the last load
is back) and `Refilter` React's effect; `Serve`, `handleLogin`, `handleGitSync`,
`SyncEnds` are the server; `Reject` is what `fetch` does to any 401, and
`LoggedIn`, `LoginFails`, `SyncAnswered`, `SyncFails`, `Settle`, `Discard` are the
functions going on. `mounted` says that the page of a call is still there: leaving
a page does not stop its calls, but what they set is ignored (answers nobody will
read are made equal to failures, as the pages do the same with both). Requests go
out with the token of the moment they are sent, and ask for it in localStorage if
memory has none. On the dashboard `Promise.all` goes on at the first failure,
while the other answer may still be a 401; on the Git page each request catches
its own.

Of the data only the age is kept: `version` grows when leases, subnets or
reservations change, and an answer carries the version it was made of. Two
histories: `entered`, the version at the mount of a page, and `overlaps`, which
says that a load has had another one of the same page in flight beside it. An
absent list arrives as `null`: that of the log where GitOps is off, and the
`dns_servers` of a subnet without any (`NullDns`); rendering it throws, and the
page is then `"blank"`, which is left by a `Load` only. A token is new, valid or
dead; a server without authentication is the case in which none dies.

`Load` goes to another page than the one shown. Loading a page again is `Load` of
another one and back; without the restriction a user who reloads for ever would
refute every liveness property.

**`ActivityStream`** follows an event: `draft` (numbered under the mutex by
`BroadcastDHCPEvent`), `queue` (the channel `broadcast`), `channel[c]` (of the
client), `wire[c]` (written to the connection), `events` (the list of the page).
`Broadcast` drops it at a full queue, `Relay` at a full channel. A connection's
`handler` goes free → registering → streaming → leaving → gone. `late[c]` says
that its `WriteTimeout` has passed: what is written from then on is lost, which
`Flush` does not report, so that the handler may go on or notice it at a later
`Write`; `cancelled[c]` that its context is done. `Stop` is the end of the loop,
which closes the channels; a handler that then wants to register or unregister
stays where it is. The page's EventSource is off, connecting, open or, after an
answer other than 200, failed for good. The model ends with the process: `Stop` is
not undone. A new process starts its `eventCounter` at 0 again
(`broadcaster.go:54-62`), and the EventSource of a page that is still open connects
to it and appends its events behind those of the old one, whose numbers may be the
same; the order `EventsInOrder` speaks of is that of one process. `due` is a history: the ids given to the
page's client and not yet on the page. Other pages are other clients, whose
channels share nothing with this one, so there is one page; its former connections
on their way out are there.

**`ActivityFeed`** is the promise to the reader of the page: the list grows at its
end by an event that has been numbered, that it does not show yet, and that no
later event of the same publisher is in the list; it loses its oldest event only,
when it is full, or everything when the page is left. `ActivityStream!Implements`
refines it with the counter and the page's list: `Receive` maps to `Show`, `Close`
to `Clear`, the numbering to `Number`, and all queues, channels, connections and
losses between them to stutters.

**`MCAdvisoryLock`**, **`MCDhcpServer`**, **`MCGitSync`**, **`MCWebInterface`**,
**`MCActivityStream`** hold the instances TLC checks.

Operators whose comment begins with *Mutant* are broken variants of a definition
(a dropped guard, a missing reset); they are used by no specification and serve
to show that a property notices the corresponding mistake in the code.

## 4. The runs

| run | question | bounds |
|---|---|---|
| `LockPools` | `IInv` (types, one session per key, counts cover the callers), `Exclusion`, `CallsReturn` under `RecyclingSpec` | 2 servers with pools of 2 and 1 connections and 1 and 2 callers, 2 keys; no new call for a key some session holds twice (`MaxHeld = 2`) |
| `DhcpOneAddress` | `IInv`, `Implements`, `RenewsOwnRow` with crashes, lost queries, deletions and clients that ask for anything | 2 servers, 2 clients, 1 address, packets up to 1 tick old |
| `DhcpTwoPools` | `NoConflict`, `UserOwnsRow`, their invariant `NothingDeleted`, `RefusedOnlyWhenFull`, `Implements` before any row is deleted | 2 servers, pools of 1 and 2 addresses, one of them reserved for a client that does not come; 2 clients, which also ask for the first address without an offer |
| `DhcpFinish` | `HandlersFinish` under `FairSpec`, with crashes, lost sessions and failing queries | 1 server, 2 connections, 1 client, 2 pools that share one of 2 addresses, `MaxHeld = 2` |
| `DhcpNeverReclaimed`, `DhcpReservedRefused`, `DhcpWrongOffer` | violations, see section 6 | 2 clients, 1 or 2 addresses |
| `GitSync` | `IInv`, `SuccessMeansReloaded`, `AuditCovers`, `ReservationsFollow` and their invariants `Audited` and `Synced`, `NoRollback`, `Implements`, `Converges` under `FairSpec` | 1 server with poller and one API request, whose reload function reaches everything, the API server only or nothing; 3 commits, 2 networks; one failure, cancellation or restart |
| `GitMovedAddress` | a violation, see section 6 | 1 server, the poller, 2 commits, no failures |
| `WebPages` | `IInv`, `FreshSinceMount`, `FilterApplied`, `NeverBack`, `SpinnersStop`, `CatchesUp`, `DeadTokenDropped` under `FairSpec` | 1 tab on all pages, 1 token, 2 calls at once, 2 versions, the second with a `null` list, GitOps off, 1 fault |
| `WebTabs` | `IInv`, `SpinnerBacked`, `SessionKept` | a tab on the Git page and one on the activity page, 2 tokens (symmetric), 2 calls at once, GitOps on |
| `ActivityStream` | `IInv`, `EventsInOrder`, `ChannelsSafe`, `NothingLost`, `Implements`, `HandlersLeave`, `EventsArrive` under `FairSpec` | 2 publishers, 2 connections, queue and channels of 1, a list of 2, 2 events |

Why the bounds are enough to meet the interesting cases: re-entrance needs two
callers and one connection, an unlock in the wrong session two connections, a
deadlock two keys and a lock left behind; a race for an address needs two handlers in two servers, and
its outcomes concern one address at a time, so `DhcpOneAddress` uses one and
lets everything fail, while `DhcpTwoPools` lets the loops skip, move on to the
next pool and run out. `DhcpFinish` has what may keep a packet from being done
with: two connections, so that a hold is left behind in the wrong session and
the next handler waits for it; two pools and a shared address, so that a loop goes
on to the next address and to the next pool; queries that fail at any place, also
after their write was done. One tick of lease time and one of retention already give
an active, an expired, and a deletable row. `RowId` has five values; `BIGSERIAL`
ids are never used again as long as a handler may remember one, which
`UnusedIds` says. Symmetry is used for clients (addresses where there is one
pool, and the two servers, swapped, in `DhcpTwoPools`), in runs without liveness
only. In `GitSync` the three commits are a first one with two reservations; one
with a network that does not parse, which gives one client another address and
leaves no usable one for the other, so that part of it is stored and it cannot be
reloaded; and one that renumbers the subnet, changes a text with it, and has an entry
whose client does not parse. A sync can be overtaken twice, fail after the table has
changed, and be skipped. No file of the run is refused by `validateConfig`: a refused
file ends a sync as a file does that cannot be read, which is one of the faults, and
the proofs are about both. One fault at
any place is what a retry has to survive; two syncs are the least that overlap.
`AuditCovers` and `ReservationsFollow` speak of a server that has the database
for itself, and are only claimed of that. In `WebPages` two calls at once are the
least that overlap, whether both are of the page or one outlives it; one change of
the data tells new from old, one fault is a lost request or a restart, and one
token is valid and then dead (a second session is the business of `WebTabs`, where
two tabs and two tokens are the least in which one tab's 401 meets another's
login). Symmetry of tokens is used there, which has no liveness property. In
`ActivityStream` queues of one are full at every second event, two events of one
publisher have an order, two publishers number in one order and queue in the
other, and two connections let an old one be on its way out.

`NoConflict` and `UserOwnsRow` are checked with `Deletes = FALSE`, and this is a
real restriction: once rows are deleted, a client may be offered an address that
is another's row (`AllocatedToClient` below). They are about answers that name the
address of the client's own lease (`own`), whatever the clients ask for. The
exception is the code's: a REQUEST for an address without a row makes
`handleRequest` allocate any address and acknowledge the requested one
(`handler.go:266`), which has no row of the client then and can be given to
another. `DhcpTwoPools` meets this case, as both clients come back with one address.
Section 5 proves them, under the same restriction, for all values of the other
constants.

**Fairness.** `FairSpec` asks strong fairness of a caller's or a handler's next step. The Go
scheduler runs every goroutine that can run; pgxpool hands out connections in
the order they were asked for; PostgreSQL queues lock requests and its deadlock
detector runs after `deadlock_timeout`. A step that is enabled again and again
(a free connection, a free lock) is therefore taken. In `DhcpServer` it is joined
by weak fairness of `Recycle` for every connection that may be closed: a hold that
was left in the wrong session ends with its connection, which pgxpool closes after
`MaxConnLifetime` (an hour by default; `postgres.go` sets no other). Nothing is asked of
clients, time, crashes or workers. In `GitSync`, `FairSpec` asks weak fairness of
the steps of a sync (each is one call that returns, `MaxFaults` of which fail)
and of the start of the pollers' syncs, which a ticker triggers for ever; nothing
is asked of API requests, pushes or restarts. In `WebInterface` it asks that
requests are answered or fail, that a promise that is settled is handled and an
effect runs, as the event loop does; an interval fires for ever, and its fairness
is strong only because `Place` bounds the calls at once in the model and not in
the browser. In `ActivityStream` it asks that what stays ready in a `select` is
taken some day (Go chooses at random among what is ready), that a handler that can
run does, and that the browser delivers what it received and connects again.
Nothing is asked of the user, of the time-outs, of expiring tokens, of publishing
or of failures. `RecyclingSpec` adds that a pool closes every
connection some day, which pgxpool does after `MaxConnLifetime`; without it
`CallsReturn` is false, because a lock released in the wrong session stays held.

## 5. The proofs

`tlapm` checks them for all values of the constants, under the assumptions the
modules name: `LockAssumption` (each connection and each caller belongs to a
server, finitely many callers), `StoreAssumption` and `NoRowAssumption`
(finitely many addresses, positive durations), `DhcpAssumption` (at least one
pool, none empty, sets of addresses).

*`AdvisoryLockProofs`*. `TypeCorrect`, `InvariantHolds`, and `ExclusionHolds`: two callers inside
under one key were granted through the same connection unless one of them lost
its hold. `Exclusion` is not inductive; `IInv` adds `SoleSession` (a key is held
by one session at most, which `Grantable` keeps), `Backed` (a session's count is
at least the number of callers whose hold it is) and `OwnPool`. `Backed` is the
heart: two unlost callers have counts in two sessions, so by `SoleSession` the
sessions are one. An `Unlock` in the wrong session may lower a count only when
the session holds the key for a caller of its own; the history variable `lost`
records whose hold is gone, and a lemma on cardinalities moves `Holders` by one
with the count.

*`DhcpProofs`*. `TypeCorrect`, `InvariantHolds`; `RenewalsSafe`: an UPDATE by a remembered id never
changes a row of another client; `ImplementsAssignment`: the service implements
`Assignment`. The inductive invariant `IInv` has three parts beside the types:
`UniqueIds` (the primary key), `Ready` (what a handler reads at a stage has been
set, and what its check under the lock found of reservations still holds when it
writes) and `Owns` (an id about to be renewed is that of a row of the client, or
of none, which `UnusedIds` preserves when rows are deleted and created). The
step lemmas are one per action, each with one step per conjunct of `IInv`; the
refinement maps every action to `Assign`, `Extend`, `End`, `Forget` or a stutter.

*`DhcpAllocationProofs`* is about a table from which nothing has been deleted yet
(`~Deletes`). The worker deletes a row 90 days after it expired or was released, so
this is the time until the first row of an installation gets that old; with
deletions the properties are false, as `DhcpWrongOffer` shows for the first, and the
hypothesis cannot be dropped. It is the only one: servers crash, queries fail, and
clients ask for any address. `AllocatedLeaseIsOwn` (`AllocatedToClient`): an allocated lease is the
client's own, in spite of `expiredLeases[0]`; its invariant `HandlersBacked` says
why: each lease a handler wants to claim still has its row, so that the INSERT of
the claim fails, and every address a handler has found, made or is about to renew
has a row of its client. `UsersOwnRows` and `NoTwoUsers` rest on `ClientsBacked`:
what a client was offered has a row of that client, and so has what it uses, unless
`handleRequest` has acknowledged another address than that of the lease (`own` is
false); so two clients with one address are never both rightly told so. Rows never change clients here (`Stays`,
one lemma for each statement), so that a fact about a row survives whatever others
do; what remains is that a step of a handler hands its fact on to its answer, and
the answer to the client. `RefusalsJustified`: a server whose queries do not fail
turns a client away only when nothing is left for it, however others fail. Its
invariant `PassedOverFull` says that the pools before the present one, and the
addresses of the present one that are not to be tried any more, are taken or
reserved for others, which stays true while rows stay. `WithoutDeletions` states
the three invariants as `DhcpTwoPools` checks them (`NothingDeleted`).

*`GitSyncProofs`*, under `SyncAssumption` (each syncer belongs to a server, at
least one commit, well-formed configurations). `InvariantHolds`;
`SuccessImpliesReloaded`: in a server whose reload function reaches a DHCP server, a
sync that ends in success has its commit or a later one put into force, whatever
other syncs do between its steps (elsewhere it is a success with nothing reloaded,
section 6); `NeverRollsBack`. The first rests on `Ready`, what each stage
knows: the commit is not after the file that was read, nor the file after the
clone, because a pull only moves the clone forward; and on `Applied`: a server's
`currentHash` is never after what it has put into force, which is what makes it
right to skip a sync. `NeverRollsBack` rests on `Alone`: without overlap the file
a sync has read is still what the clone is at, hence not before what is in force.
`QuietKeeps` and `StepKeeps` take care of what a step of one sync leaves alone, so
that each action's lemma has only its own stage to show.
`ImplementsDeployment`: the servers implement `Deployment`. `Ready` says of the file
that was read that it is valid and not newer than the clone, `Alone` that without
overlap it is the clone's; the reload then is a `Deploy` of a usable commit, and
every other step a `Fetch`, `Muddle`, `Restart`, `Publish` or a stutter, whatever
failed before it.

*`GitRecordProofs`* is about a server that has the database for itself (with
others, a restart of one drops the log of all, and their syncs change each other's
reservations). `LogAccounts` (`AuditCovers`): what it has put into force is in the
log. The invariant `Audited` (`AuditHolds`) says where: in a row that nobody will
write to any more, or in the hands of a sync that is about to record it or to
complete its row, which is still there, and whose commit is not after the file it
has read. A sync that is skipped has read no file and vouches for nothing, which
is why `Audited` says when `file` is 0. `ReservationsAgree` (`ReservationsFollow`):
as long as nothing fails and no syncs overlap, the reservations are those of the
file the API server has (`shown`, also where the DHCP server refused to reload it):
every entry that can be stored is, with its address, network and text, and no other
client has a row; for any number of commits, valid or not, and any number of
reservations. It has three hypotheses on the history of the configuration, which
nothing in the code enforces. `OneEach`: no file that is applied has two
reservations for one client (the INSERT of the second one is refused).
`NeverMoved`: no address of a network is given to another client, in one file or in
two (`GitMovedAddress` shows what happens otherwise). `NeverRenumbered`: a
reservation that is put under another network changes its address or a text with
it, for `applyConfig` compares nothing else, and leaves the row under the old
network. They hold of the history the run checks. The
invariant `Synced` (`SyncedHolds`) has the loop invariant of `applyConfig` as its
heart (`Applying`): of an entry the loop has gone through, the row is stored if it
can be, and `existingMap` has lost its client; of every other client `existingMap`
has the row the table has. Around it: every row is wanted by a file
that has been applied (`RowsWanted`), by which `NeverMoved` rules out that
UNIQUE(ip, subnet) refuses a statement (`WantedAccepted`), and `NeverRenumbered`
that a row is taken for unchanged which is not (`SameHolds`); an entry that cannot
be stored leaves the table as it is; and the table follows what is shown, once
nobody is between the first statement and the reload — where nothing is reloaded
at all, nothing is ever shown. `SmoothBefore` and `Sole`
show that a state without faults and overlaps is reached only from such states, in
which a single sync runs.

*`WebInterfaceProofs`*, under `WebAssumption` (at least one place for a call and
one version, sets of pages, tokens apart from their absence). `InvariantHolds`;
from its invariant `SpinnersBacked`, `FilterStaysApplied` and `NothingStale`; then
the action properties `NeverGoesBack` and `SessionsKept`. None of the properties
is inductive: that a page which loads has a call that will end it needs that a
call knows its page. `IInv` says this from both sides. `CallMatches`: a call that
is still mounted is of the page its tab shows, and has asked what that page asks;
its token has been issued, is not valid if it is refused, and is one if a login
was answered. `TabMatches`: a page that is loading or syncing has a call of its
own, exactly one sync stands behind the button, its data and the answers on their
way to it are between its mount and now, and are in order where loads do not
overlap. `NeverGoesBack` is what `overlaps` is for: the load that brings older
data has met another one. `SessionsKept` needs the tokens' part: a valid token in
memory or in localStorage is not the one a 401 was about. The lemmas follow who
disturbs what: `CallKept` and `TabKept` say what a call or a tab keeps when
neither its page nor its requests change; a step of the server is one answer; a
mount replaces one tab's page and leaves its former calls without one; a load that
settles is split by whether the page can be rendered.

*`ActivityStreamProofs`*, under `StreamAssumption` (positive capacities).
`InvariantHolds`, and from it `EventsStayInOrder`, `ChannelsStaySafe`,
`NothingIsLost`. `EventsInOrder` is a statement about the end of a pipe, and its
invariant `InLine` one about every part of it: drafts have different numbers not
above the counter; queue, channels, wire and list are each in order, and each
before the parts that feed it (`Before`), for events of one publisher only, since
two may overtake each other between mutex and queue. What makes it hold over
reconnections is `Connections`: a place that is free is clean, and the wire of a
connection that is not the page's is empty. `NothingLost` and `ChannelsSafe` rest
on the same facts on handlers: only a registered one is in the map, and only the
page's can be without its deadline and not given up. `ImplementsFeed`: the
page implements `ActivityFeed`; of all steps only `Receive` has something to show,
and `InLine` gives it: what is first on the wire has a number, and comes after all
that is on the page.

Only model-checked: `CallsReturn`, `HandlersFinish`, `Converges`, `SpinnersStop`,
`CatchesUp`, `DeadTokenDropped`, `HandlersLeave` and `EventsArrive`, since liveness under fairness is beyond the prover. Every
invariant and action property that the passing runs check is proved.

## 6. Where the code and what is said of it differ

Each has a run whose counterexample shows it.

* `DhcpNeverReclaimed`: "LRU: expired leases first"; the claim of an expired
  lease inserts a second row for the address, which the unique constraint
  refuses. Expired addresses come back only when the worker deletes the row.
* `DhcpReservedRefused`: a reservation's address is read as `a.b.c.d/32` and
  parsed with `net.ParseIP`, which gives nil: a client with a reservation gets no
  lease at all.
* `DhcpWrongOffer`: after a successful claim of any element of the list, the
  first one is returned.
* `GitMovedAddress`: "applies the new configuration atomically"; the insertions
  come before the deletions, so a commit that gives a reserved address to another
  client fails the unique constraint for it. The error is only logged, the sync
  is a success, and the commit is skipped from then on: the reservation is missing
  until another commit or a restart.

Seen while modelling and not given a run:

* *Locks.* The comment on `AcquireAdvisoryLock` says the lock prevents concurrent
  allocations; two handlers of one server can be given one session and both enter
  (`Exclusion` says when). The lock may be released in a session that does not
  hold it and so stay held (`RecyclingSpec` is there because of it).
* *Leases.* Two servers that serve one DISCOVER leave the client with two leases;
  `handleRequest` acknowledges the requested address when another was allocated, so
  that two clients that ask for one address without a row may both be acknowledged
  it, with no more than a warning in the log (`handler.go:246-252`): this is what
  `NoConflict` and `UserOwnsRow` except.
* *Git.* The reload function is set only where the web interface is enabled, and
  does nothing for the DHCP server if that failed to start: there a sync changes the
  reservations, is recorded as a success, and the subnets stay those of
  `config.yaml` (`SuccessMeansReloaded` is about the other servers). A reservation
  whose subnet is renumbered, and nothing else, keeps its row under the old network
  (`sync.go:257-259`). Of a file with one network that does not parse the
  reservations of the others are stored before `ReloadSubnets` refuses it, and an
  entry whose client or address does not parse is left out with no more than a line
  in the server's log. Syncs that overlap may leave an older commit
  in force until the next push, the slower one reloading what it read while
  `currentHash` is that of the other (`NoRollback` and `Converges` except them); a
  sync whose reload fails leaves its reservations in the table; every start of any
  server drops the log of all. `GetRecentGitSyncLogs` scans the columns of a row in
  progress, which are NULL, into Go strings: while a sync runs, or after one was
  cut off, the log cannot be read (`InProgress`).
* *Sessions in the browser.* A 401 clears the tokens whichever token it was about
  (`client.ts:50`): a late answer to a request of the last session, or of another
  tab, ends the new one (`SessionKept` excepts it). The route guard is rendered
  with the layout and not again, so a tab whose token is gone stays on its page and
  asks without one; a page without an interval never finds out that its token died
  (`DeadTokenDropped` is about the others).
* *Pages.* When two loads of a page overlap, the older answer may come last, and
  stays until the next tick (`NeverBack` says that this is the only way back). Where
  GitOps is off the log arrives as `null` and the Git page goes blank at
  `GitSync.tsx:152`, although it has a text for that case at line 118;
  `Subnets.tsx:101` does the same for a subnet without `dns_servers`.
* *Activity.* `WriteTimeout` ends each stream after ten seconds, and what is written
  between that and the handler's notice is lost (`NothingLost` excepts it). The
  page says "Disconnected" from the first end of a stream on, though events go on
  arriving: nothing sets `isConnected` again (`Activity.tsx:50`). Once the loop has
  ended, `Register` and `Unregister` wait for ever (`HandlersLeave` is about the
  time before).

## 7. What is not modelled

Option building, INFORM (it changes nothing), interface selection and socket
errors; the statistics queries; `UpdateLease`, which only the reservation path
would reach; metrics, which nothing updates; logging; builds and deployment.
Overlapping subnets and several subnets are left out: the table is keyed by
subnet, and no step reads another subnet's rows. Of the Git synchronisation: what
`validateConfig` looks for in a file, the first clone, a clone read in the middle of
another sync's pull, a history of the branch
that is rewritten, and the ids that a log gives out again after it was dropped, by
which a sync of another server would complete a row that is not its own.

Of the web interface: the search box of the leases (another dependency of the
effect that `Choose` stands for), the sidebar, scrolling and time formats, which
touch no other state; the back button, which goes where `Navigate` and `Load` go;
React's strict mode, which mounts twice in development only; the files of the
application as the API server sends them. Of the events: their contents, and
`BroadcastGitSyncEvent`, which nothing calls.

Not modelled as components, for the reasons of section 2: the lease cache
(`storage/cache.go`; its index by address keeps entries of former addresses, and
`Get` moves list elements under the read lock, but no answer depends on it), the
configuration rules (among them the allocator's loop over a pool that ends at
255.255.255.255, which does not end, `dhcp/allocator.go:243`: the modules take
pools as sets of addresses), and of the process life cycle what is not in `GitSync`: the order of starts and
stops, and `ReloadSubnets` under the handlers that read the subnets.
