# Formal models of agos-proxy

TLA+ modules, TLC configurations and TLAPS proofs about `agos-proxy`, an HTTP
proxy that serves one model name (`<proxy>/<route>`) from a fallback chain of
upstream models.  Paths such as `src/router/mod.rs` are relative to the
repository.

## 1. The system

| Part | State | Operations | Meets the others through |
|---|---|---|---|
| Store (`src/storage`) | SQLite: profiles, providers, masks, proxies, routes, `route_entries` (status, `cooldown_until`, `capabilities`, price, priority), `usage_log`, `response_cache` | one statement per call under one mutex | every other part; the CLI opens it from another process |
| Schema (`src/storage/schema.rs`) | tables and columns present, `PRAGMA foreign_keys`, the master key | create, add columns, rebuild `route_entries`, make a key | every `Store::open` |
| Router (`src/router`) | a round-robin counter per route | resolve a model string to an ordered list of targets; run a buffered request through it; classify a failure and act on it | store, handlers |
| HTTP handlers (`src/server/handlers.rs`, `native.rs`) | one task per request, one pump task per committed stream | buffered and SSE versions of chat, completions, Responses, Anthropic and Google; embeddings | router, store, upstreams, client |
| SSE parser (`src/server/sse.rs`) and line reader (`native.rs`) | bytes of a half-received frame | feed, finish, classify, decode | probe and pump of a stream |
| Adapters and translator (`src/adapter`, `src/translator`) | the text and calls of a Responses stream so far | parse a client's request, build an upstream's, decode and render answers | handlers |
| Health prober (`src/health`) | the snapshot of one probe cycle | every 30 s: collect sick entries, ping, decide, write; prune | store, rate limiter |
| Rate limiter (`src/server/ratelimit.rs`) | a sliding window per profile | check, prune | authentication middleware, prober |
| Response cache (`cache_get`, `cache_put`) | rows with an expiry | look up, store, prune | buffered chat handler, prober |
| CLI (`src/cli`) | what a command read before it asked its questions | one or a few store calls per command; export, import, bootstrap | store, from its own process |
| Masks, crypto, prompt cache policy | none | rewrite requests; encrypt columns | handlers, store |

What is hard in it: a request works for seconds on a snapshot of the chain
while other requests, the prober and the operator change the same rows by blind
`UPDATE`s; a failure is acted upon long after it happened, or never; an attempt
can be dropped by a timeout or by its client at any `await`, in the middle of
writing its usage row; a stream is handed from the probe to a pump with bytes
half parsed, and cut by the network anywhere; a route is resolved, and a name
looked up, by several reads of a store that is edited in between; commands of
the CLI write what they read before they asked a question; several processes
open, and upgrade, one database.

What makes each part correct:

* failover: no target skipped, repeated or forgotten; an error only when the
  chain is exhausted; every request ends;
* entry health: only failing traffic demotes a Healthy entry; a recovered
  upstream gets back to Healthy; a parked key rests while another is warm;
* usage log: at most one row per attempt, none for an entry that is gone;
* streams: what the client reads is a prefix of what the upstream sent, nothing
  is lost or repeated between probe and pump, however the bytes are cut;
* translation: what the client said arrives once, in order and in its role; what
  the upstream said comes back; a turn of Codex is closed by its last event;
* expansion of nested routes: terminates, keeps the order of the chain, and
  never reaches a provider the caller may not use; round robin is fair;
* cache: an answer is served only while fresh, and only for the same request;
* limiter: never more than the ceiling in any window of 60 s;
* store and CLI: no dangling row, no foreign row changed, and what a command
  promises (a position, an egress, a faithful copy, nothing left of a failure);
* migration: whatever interrupts it, no row is lost and the next open succeeds.

## 2. Modules

| Module | What it is |
|---|---|
| `Failover` | one route's chain under buffered and SSE requests, the prober and the operator |
| `FailoverClaims` | a statement of the documentation the code does not keep |
| `Relay` | abstract: what the client of a stream is promised |
| `StreamRelay` | one SSE attempt from the upstream's frames to the client; implements `Relay` |
| `RateLimiter` | the sliding window of a profile and the middleware that asks it |
| `ResponseCache` | what a handler reads of its route before and after it forwards: identity, clamp, cache |
| `Gateway` | `RateLimiter` and `ResponseCache` composed: a request on its way in |
| `Store` | the methods of the store as operators on its tables, with keys, cascades and errors |
| `Console` | the commands of the CLI on `Store`, one statement at a time where they ask between |
| `Portable` | export, import and bootstrap, call by call, on `Console` |
| `Catalog` | everything that edits the store, composed, and its properties |
| `RouteGraph` | resolution of nested routes read by read, while `Console` edits; strategies |
| `Migration` | `Store::open` by several processes on one file, with crashes |
| `Framing` | bytes to payloads: the SSE parser and the line reader |
| `Requests` | a request from a client's dialect to an upstream's |
| `Answers` | stream decoders and renderers of all dialects |
| `Wire` | `Framing`, `Requests` and `Answers` composed: one attempt on the wire |
| `MCFailover`, `MCGateway`, `MCCatalog`, `MCRouteGraph`, `MCMigration`, `MCWire` | instances for TLC |
| `FailoverProofs`, `StreamProofs`, `GatewayProofs`, `RouteGraphProofs`, `MigrationProofs`, `CatalogProofs`, `WireProofs` | theorems |
| `StoreProofs` | lemmas about `Store` and `Console`, for `CatalogProofs` and `RouteGraphProofs` |

A module that composes others has their variables and adds none, or only what
ties them together: a request enters `ResponseCache` only after `RateLimiter`
let it in; a walk of `RouteGraph` reads the tables `Console` writes.  `Failover`
and `StreamRelay` meet at one step, the attempt, which each tells from its side.

Every module also holds operators that its specification does not use: a
variant, next to its original and named for what it does wrong, of a definition
with a plausible bug, with which each property was seen to fail.

### `Failover`: correspondence with the code

A step is one store call or one await, because the store's mutex is held for one
statement only and every await lets other tasks run.

* **Store.** `status`, `vision` and `cooldown` are columns of `route_entries`;
  `okRows` and `failRows` count rows of `usage_log` by request and entry.
  `"unborn"` and `"removed"` say that the row does not exist.  Writes are blind
  (`UPDATE ... WHERE id`): on a row that is gone they do nothing; a usage row
  for such an entry is refused by the foreign key (`Record`).
* **Request.** `phase` is the handler's program counter, `targets` and `next`
  its snapshot and loop index, `failures` and `mark` the vector of
  `execute_with_failover` and the index of the loop that acts upon it.  The SSE
  handlers remember the one failure between its row and its demotion.
* **Resolution.** `Live` is `expand_inner` on a flat chain, `Candidates` is
  `warm_first`, `StrategyOrder` the four strategies and `EscalatedOrder` the
  escalation sort of the chat handler.  Round robin and weighted both rotate
  the chain; the model allows every rotation.
* **Buffered surfaces.** `BufferedSuccess`, `BufferedFailure`,
  `BufferedTimeout`, then `ApplyFailure` and `Park` per failure.  The attempt
  that a timeout drops may already have handed its usage row to the blocking
  pool, so `DroppedRow` may write it, as a success or as a failure.
* **SSE surfaces.** Failures are acted upon one by one (`StreamFailure` writes
  the row, `StreamDemote` the status), a commit starts the pump, whose outcome
  is `StreamEnd`, `PumpFailure`+`PumpDemote` or `PumpAbandoned`.  The native
  surfaces log but never demote.
* **Abandon.** The 120 s request timeout or a disconnecting client drops the
  handler at an await.  Acting on the failures of a buffered chain has no await
  and cannot be dropped.
* **Prober.** `ProbeCollect` takes the snapshot, `ProbeEntry` decides on the
  snapshot's status and writes it if it differs from the snapshot's.
* **Operator.** `AddEntry`, `RemoveEntry`.  No code path ever writes
  `Disabled`, so no entry becomes disabled.

Abstracted: what a request says (only whether it carries an image), what an
upstream answers (only the class of its failure), token counts, latencies and
messages; of the capabilities only `vision`, the one that changes at run time;
nested routes (`RouteGraph`) and cached answers (`ResponseCache`).

### `Relay` and `StreamRelay`: correspondence with the code

`Failover` knows of a stream only that it is pumped and how it ends.
`StreamRelay` opens that step: one attempt whose upstream answered 2xx, in
`probe_stream` and `pump_stream` of `src/server/handlers.rs`.

* **Upstream.** `said` lists the kinds of the frames decoded so far, `half`
  says that the parser holds the start of another, `ended` that the body is
  over.  `Chunk` is one network chunk and the frames `SseParser::feed` completes
  with it, from none to all; `EndWithFrame` and `End` are the end of the body,
  with `SseParser::finish` yielding one more frame or none; `Idle` and
  `Transport` are the other outcomes of `next_chunk`.
* **Attempt.** `phase` is the position in the two functions, `pending` the queue
  of decoded frames (as their numbers), `spoke` is `!first_chunk`, `failure` the
  variable of that name and `row` the usage row.  `"sentinel"` is the await
  between the last event of a translated stream and the `[DONE]` that the proxy
  adds to it.
* **Client.** `channel` is the bounded channel, `read` what the client got.  A
  send waits for room, and is lost once the receiver is dropped (`Leave`).
* **Promise.** An item is a frame number and a part.  `Shown` says which items
  of a stream a client should see: everything up to the terminal frame that the
  mode renders, and a `[DONE]` after a translated stream.  `Relay` is a reader
  who gets these one by one; the refinement maps `read` to the items read, the
  report of a broken connection left out.

Frames are their kind only; text, tokens, the rest of the handler (retry,
demotion of the entry, which is `Failover`'s) and how bytes become frames are
abstracted.  The streams of the Responses surface and the native pump are in
`Wire`; the one of legacy completions is not modelled.

### `RateLimiter`, `ResponseCache`, `Gateway`: correspondence with the code

* **Gate.** `Authenticate` reads the profile's ceiling and takes the time stamp,
  `Check` is `RateLimiter::check` under its mutex: between the two other
  requests may overtake, so stamps enter `window` out of order and eviction,
  which only looks at the front, may keep old ones.  `Prune` is the prober's.
  `accepted` and `latest` are ghosts: every hit that ever passed, and the
  latest instant the limiter was used with.
* **Handler.** `call[q]` holds the locals of a handler.  `Resolve` reads the
  chain and the identity by name, `Economy` looks the same name up again for
  clamp and lifetime, clamps, and hashes what is deterministic; `Lookup` is
  `cache_get`, `Put` is `cache_put` under the lifetime read before the attempts.
  `torn` says that the name meant another route at the second look.
* **Operator.** Renames, identity, economy settings, deletions with their
  cascade, the ceiling; one statement each, between any two steps of requests.

Abstracted: a body is its kind (plain, creative for tools or a temperature,
escalated, stream, native) with the identity and the clamp applied; how the
attempts fare is `Failover`'s.  One profile and one model name: the tables are
keyed by them.

### `Store`, `Console`, `Portable`, `Catalog`: correspondence with the code

* **Store.** A table is a function from ids to the columns that relate rows:
  names, owners, sharing, bindings, priorities.  A method is the set of its
  outcomes, empty when SQLite or the method reports an error: `Legal` are the
  unique indexes, references and the `CHECK`, `Doomed` the cascades, `SetNull`
  the `ON DELETE SET NULL`.  Equal priorities may be read in any order.
* **Console.** A command that asks nothing between reading and writing is one
  action (`Run`); one that prompts, or writes several statements, is a `job`,
  with other commands in between and `Interrupt` at any point.  `job.alone`
  says that nobody else wrote meanwhile.
* **Portable.** A bundle is the sequence of store calls that recreate it; import
  and bootstrap run it call by call (`ScriptStep`, then `RefStep` for nested
  routes), and a failed bootstrap deletes its profile (`Compensate`).

### `RouteGraph`: correspondence with the code

`expand_inner` reads the store at every level: its stack is `frames` (what is
left of each chain that has been read) and `visited`, and each step is one read:
`FindProxy`, `FindRoute`, `Enter`, `Leaf`, `NestedOwner` and `NestedShared`,
`Leave`.  `Resolve` is `warm_first`, the strategy and the round-robin counter.
`Edit` is any command of `Console`, `Health` a write of the router or the
prober.  `offered` is a ghost: what the caller might use at some time during the
walk.  `Flattening` is the reference: the list a graph stands for, computed in
one go by recursion on the depth.

### `Migration`: correspondence with the code

A file is its tables, columns, entries (status and shape), usage rows and master
key.  A process goes through `Store::open` statement by statement: `Open` (the
pragmas), `CreateTable`, `Describe` and `AddColumn` (`ensure_column`),
`NormaliseStatus`, `DescribeEntries`, `SuspendKeys`, `Rebuild` (one
transaction), `RestoreKeys`, `ReadKey`, `InsertKey`.  A statement that SQLite
refuses fails the open, and the process starts again; `Crash` may happen
anywhere.  Processes that are through work on the file meanwhile.

### `Framing`, `Requests`, `Answers`, `Wire`: correspondence with the code

* **Framing.** A byte is a tuple; field names, line ends and the two halves of a
  payload are all that matters, with a cut between the halves splitting a
  character in a `wide` one.  `Feed` and `Flush` are `SseParser`, `Lines` and
  `Lossy` the reader of the native pump; `Drain` is the loop of both, over a turn
  of its own (`TakeFrame`, `TakeLine`).
* **Requests.** `ParseRequest` is `parse_request` of the four surfaces,
  `BuildNativeRequest` the body for the four kinds of upstreams; texts and
  images are atoms, calls are ids.  The Responses surface converts its tools and
  gathers `extra` anew; the other three leave `tools` in `extra` as they came, each
  in the shape of its dialect.  The name of a tool inside namespaces is its path,
  which the code joins by dots.  `Refuses` is what an adapter bails on.
* **Answers.** `Decode` gives no event or one per frame, `Render` what a surface
  makes of it, `Accumulate` the state of the Responses renderer, `FinishStream`
  its closing events.
* **Wire.** `Parse`, `Build`, then `AnswerWhole` or `AnswerStream`; `Chunk`
  delivers any number of bytes, `End` is the end of the body wherever it comes,
  `Break` a broken connection.  The surface `"compat"` is `handlers.rs`, the
  four others `native.rs`.

## 3. Runs

| Run | Instance | Question |
|---|---|---|
| `failover` | 2 entries, 2 image requests on any of the four surfaces, the failure classes an upstream can produce, round robin, the operator, clock 0..1 | is every target accounted for, does a buffered request act only when all have failed, does a throttled key rest and nothing but a 429 park it, can a stale probe demote, is an attempt logged once and never for a removed entry? |
| `failover_liveness` | 2 entries, 2 requests on chat and SSE, requests that cannot be built among the failures, priority order, fairness | does every request end, does a recovered entry come back? |
| `stream_relay` | every stream of up to 3 frames, passed through and translated, a channel of 1, fairness | does the relay implement the promise, does a refused attempt leave a trace, does a success row tell the truth, does every attempt end? |
| `gateway` | 3 requests, 2 of them completions, 2 routes, 2 edits, clock 0..2, a window of 1 | does the ceiling hold, is a refusal recent, is a cached answer exact, fresh and filed where it belongs? |
| `route_graph` | 2 profiles, 3 routes nested as a diamond, depth 3, 3 walks, 1 edit or change of health | is a walk the flattening of its graph, does it use only what was offered, is round robin fair? |
| `catalog` | 2 profiles with shared masks, providers and routes, 4 names, chains of up to 4, 1 job and 1 command in any place of it | does a command leave others' rows alone, are moves exact, does an edit keep the egress, is a copy faithful, does a failed seed leave nothing? |
| `migration` | 3 processes, 1 crash, 2 statements of work, 3 kinds of old files, fairness | is an open store sound, is history kept, do all get it open? |
| `wire` | 5 surfaces, 4 kinds of upstreams, 6 layouts of frames, streams of up to 6 frames cut at every byte | does the request arrive whole, its tools included, does the text come back, are frames whole, is a turn closed? |
| `claim_jump` | as `failover`, 1 entry | section 6 |
| `claim_identity` | as `gateway`, smaller | section 6 |
| `claim_wire`, `claim_tools` | as `wire` | section 6 |

Why the bounds are enough.  *Failover*: an entry's row is written by requests
and the prober independently of other entries, so one entry with two writers and
a prober shows every race of blind writes; two entries are needed for "the next
target" and for a chain that is partly cooling; a clock of 0..1 with a cooldown
of 1 has entries that are warm, cooling and warm again; a rotation of two entries
is either order, so the sorts of the other strategies, `RouteGraph`'s, would add no
snapshot.  *Streams*: three frames
are one the probe decides on, one behind it in the same chunk or the next, and
one that ends the stream; a channel of one is full as often as possible.
*Gateway*: a ceiling of two and three hits fill the window and overtake each
other; a window of 1 in a clock of 0..2 has stamps inside, at and past the
boundary; two completions race for one answer, and one edit falls between the
two lookups and another before the store.  *Resolution*: a diamond and the
cycles an edit makes of it are all the shapes three routes have; the depth of 3
is reached by a cycle.  Three walks make a rotation wrap around.  *Catalog*: a job
with one command in it is every stale read; two commands in one job add no
third party.  *Migration*: two processes race for each statement while a third
works.  *Wire*: any two bytes come together or apart, and every pair of dialects
meets; tools come in the shape of each dialect, and in namespaces inside
namespaces; `MaxNamespaces` of 3 opens one level more than these have (64 is
what `serde_json` parses).

`CHECK_DEADLOCK FALSE`: attempts, walks and requests end, the bounds on edits,
clock and work run out, and once every request is done and every entry Healthy
nothing remains to happen, in the model as in an idle proxy.

Fairness (`Fairness` in `Failover`): a handler that can move does, because
every await on an upstream is bounded (the attempt timeout, the HTTP client's
30 s, the idle timeout).  This assumes a client that reads what it is sent: the
pump's channel is bounded and its `send` is not under the idle timeout.  The
prober's ticker restarts a cycle for ever, and a ping is strongly fair: store
errors may cut cycles short, but not every cycle before the same entry.
Disconnections, the operator, the clock and the outcome of pings are under no
fairness; `Recovery` is conditional on pings that succeed from some time on.

In `StreamRelay` the attempt moves when it can, since an await on the upstream
ends by a chunk, by the idle window or by the HTTP client's total time, and the
client reads as long as it stays.  The upstream need not say anything.

In `Migration` a process gets its turn at every statement (SQLite's busy
timeout), and one whose open failed or that died is started again; `AllOpen`
says that restarting is all the operator ever has to do.

## 4. Proofs

Every theorem holds for all values of the constants that satisfy the
assumptions of its module; the runs of section 3 show the same formulas on the
instances.  An invariant is proved by three facts: `Init` establishes the
inductive one, a step of `[Next]_vars` keeps it (one lemma per action or group
of actions), and it implies the invariant in question; an action property
follows from the same inductive invariant, one step at a time.

**`FailoverProofs`**, for any finite set of entries, any set of requests, any
priorities, prices, strategy, failures and hints:

* `Bookkeeping`: `IInv`, which is `TypeOK` and, for every request,
  `RequestInv`.  `TypeOK` is not inductive: to see that the current
  target is an entry one must know that the index is inside the snapshot, and
  for that how `next`, `failures`, `mark` and `phase` fit together, which is
  what `RequestInv` says for each phase.
* `TypeCorrectness`, `HandlersInChain`, `FailuresAccounted` follow from it, and
  so does the action property `NoEarlyError`.
* `ProbesOfSickOnly` and `ProbesNeverDemote`: `ProbedInv` says that an entry the
  prober holds is not Healthy.  It is inductive because between the collection
  and the ping only failures write the row, and they never promote.
* `ThrottlingRespected`: `ThrottleInv` says that a handler that has not begun has
  no answer, and that one that parks has a 429 before it.  That a snapshot of an
  able chain is all of its warm entries, or all of it, needs that a listing of a
  set leaves nothing out (`ListingCovers`: an injection between finite sets of
  one cardinality).
* `NoRowIsOrphaned` and `LoggedAtMostOnce`: `RowsInv` ties the rows of a request
  to its phase: no row yet for the targets still to come, at most one for
  those already tried.  It needs that the snapshot lists an entry once.

**`StreamProofs`**, for streams of any length over a channel of any capacity:

* `Bookkeeping`, `TypeCorrectness`, `RefusalLeavesNoTrace`: `IInv` adds to the
  types that the parser's queue holds the consecutive numbers of the frames not
  yet handled (`QueueInv`), and what each phase implies (`PhaseInv`).
* `SuccessTellsTheTruth`: a second layer on `IInv` says that what was sent so far
  is what the handled frames show, up to the first that ends the stream.
* `RelayRefines`: `StreamRelay` implements `Relay`.  A third layer describes
  what was sent item by item, so that each step of the client maps to one
  reading step of `Relay`, and every other step to a stutter.

**`GatewayProofs`**, for any number of requests, routes, edits, ceilings and
lifetimes:

* `CacheBookkeeping`: `CacheInv` says of each handler (`CallSound`) that the row
  it may file belongs to the route it answers from unless the name moved, and
  that what it hashed is what it sends; of each row (`RowSound`) the same of its
  answer.  `NothingFiledTwice` and `FiledWhereItBelongs` are parts of it;
  `ExactHits` follows, because a hit's row has the hash of the request.
* `WindowBookkeeping`: the limiter's `CeilingHolds` counts what was accepted,
  while the code counts what is in a deque whose stamps are out of order.
  `WindowInv` connects them: every accepted hit that still counts has a place of
  its own in the window, an injection that eviction and pruning preserve because
  they drop stamps that no longer count.  `CeilingAlwaysHolds` compares
  cardinalities along it; `RefusalsAreRecent` needs only that whatever is in the
  window was accepted.
* `GatewayIsTyped`: the two halves side by side, with the clock they share.

**`MigrationProofs`**, for any number of processes, crashes, tables, columns and
sound old files:

* `MigrationBookkeeping`: `ConnSound` says for each phase of a process what the
  statements before it established, about its connection and about the file;
  `Grows` is what any process does to the file meanwhile (columns and key stay,
  readable statuses stay readable), and keeps every other process's `ConnSound`.
* `FileStaysSound`, `OpenStoreIsSound`, `HistoryIsKept` follow.  The last is the
  hazard the migration's comments are written around: the old table is dropped
  only by a process whose own connection has foreign keys off.

**`StoreProofs`** holds the lemmas about the store that the next two need: for any
store that is `Sound` (its tables have their columns, and every row is one SQLite
accepts), each method of `Store` has only sound outcomes, and each leaves the
store `Evolves`: ids that are given out are not given out again, and the column
that says whose a row is stays what it was.  A delete is the long case: that no
row is left dangling rests on `Doomed` being closed under every reference that
cascades.  Its section on lists has what the proofs about chains need, such as
`OrderIsForced`: a list that enumerates a set without repetition, sorted by a key
that is strict over the beginning, has that beginning in one order only (a
pigeonhole argument on cardinalities).

**`CatalogProofs`**, for any sound store, names and number of commands and jobs:

* `CatalogTypeCorrect`, `CommandsKeepOthers`: `TypeOK` alone says nothing of the
  ids a job read before its prompt and writes afterwards.  `IInv` adds
  `HoldsOwn`: each such id was given out, and whatever row has it *now* belongs to
  the profile of the job (`Holds`).  This survives any other command, a deletion
  included, because `AUTOINCREMENT` never reuses an id (a profile's is its random
  token, taken to be new) and no statement rewrites an owner column:
  `OwnersStay` is derived from `Evolves`, once for all commands. The scripts
  hold the proxy and route they last created and the references still to be
  resolved.
* `EditsKeepEgress`: `KnowsStore` says what a job still knows of the store while
  nobody interferes.
* `FailedSeedsLeaveNothing`: its part for scripts, `Grown`, says that the store is
  the one the bootstrap started from plus rows of its own new profile; deleting a
  profile takes exactly those (`GrownIsTakenBack`), and all of them even when
  others wrote meanwhile (`DeletedProfileIsGone`).
* `MovesAreExact`: `MoveInv` says how far the renumbering has come: the entries
  between the wanted position and an index `c` have their new priority, the others
  their old one, and what is left to write is the rest of the chain.  After each
  write the priorities before the position are distinct and smallest, so
  `OrderIsForced` gives the beginning of every list SQLite may return; after the
  last write it gives the whole list, which `MovedItems` compares with the
  intended one place by place.

**`RouteGraphProofs`**, for any store, limit of the depth, strategies and edits:

* `WalkBookkeeping`: `WalkSound` says, for each phase of a walk, what it has
  already verified (`PhaseSound`) and that everything it kept was offered
  (`PathSound`).  `Covers` is the key: `offered` always includes what the store
  offers now, so a read that finds a provider or route usable, or its owner the
  caller, adds only what was offered, even when the next read is of another
  store.  Nothing is assumed of the store for this.  `PathsAreSimple` and
  `NothingForeign` follow.
* `GraphTypeCorrect`: the same bookkeeping gives the shape of the path; the tables
  stay sound under every edit by `StoreProofs`.
* `RoundRobinIsFair`: `TurnInv` gives the positions that have led a list in
  closed form, consecutive around the list with the counter at the next one;
  arithmetic modulo a length that may have shrunk does the rest.
* `WalksAreFlattenings`: the code descends and comes back, with a path to stop at
  cycles; `Flattening` knows no path, only how deep one may still nest.  `FlatInv`
  ties them together while nobody edits: to each frame of the stack belongs the
  set of lists its remaining rows stand for, followed by what the frame below
  stands for (`IsStack`); and what was found so far, with any list that is still
  due, is a list of the route (`Leads`).  A read that opens a frame, drops a row or
  closes a frame only moves the boundary between found and due.  When the code
  refuses to go on, none can be due: a route too deep has no list at level 0,
  and the routes of a cycle have none at any level (`CyclesHaveNone`, an induction
  over the levels), because the entry that closes it has none.

**`WireProofs`**, for every stream, layout and division into chunks:

* `FramesStayWhole`: the difficulty is that a reader knows nothing of payloads: it
  looks for line ends in whatever has come, as often as something comes.
  `Marks` says where in the upstream's bytes each payload begins and with which
  byte the reader in question has it (its blank line for `SseParser`, its own
  line end for the native pump), and that no end lies between.  `ReaderSound` is
  the inductive invariant: the buffer is a window on those bytes, from just after
  an end to the last byte that came, without an end inside (`NoEnd`), and the
  payloads read are those with their mark before it.  One turn of the loop moves
  the window past the first end in it (`TurnIs`); as many turns as it holds ends of
  lines are enough (`LoopIs`, by their cardinality).  That the bytes of an upstream
  have such marks is an induction over the frames (`MarksAre`).  A half that a cut
  damaged is like the one that was sent in all that the readers look at (`Like`).
* `TurnsAreClosed`: what the client of the Responses surface has been sent is
  always `OpenRead` (`response.created`, then pieces of text) or `ClosedRead` (the
  same, then `Terminal`: the message, the calls, `response.completed`), and it is
  closed exactly when the renderer has finished.  `TurnGood` says so of the
  renderer after any payloads, and `LineIs` that one more keeps it, whatever the
  decoder of the upstream makes of a frame (`DecodeIs`: nothing, or one event).  That
  mingled calls come out whole is `CallsSound`: the slot of an index is the
  fragments of that index, joined in their order; `AbsorbIs` keeps it when a fragment
  opens slots in between.  For OpenAI upstreams those fragments are the ones said
  before the finish (`SaidNext`).  Here `ReadSound` of the theorem above is needed
  again: only because a chunk holds nothing but payloads of the answer, never a
  mixture of two, can each payload be looked up in it.
* `TextStaysCarried`: the text a client has been sent `Resembles`, piece by piece,
  what the first `k` frames show (`SaidText`), where `k` is how far the reader is
  (`Holding` again); what the first `k` frames show is the front of what all of them
  do.  `TextGood` is that of a reader after any payloads.  The next payload adds the
  text of its frame, no more and no less (on the Anthropic surface a frame that ends
  another provider's stream shows none: `Hidden`, section 6), in `NativeStep`,
  `CompatStep` and `ResponsesStep` (`DecodeTells` for the decoders, `RenderShows` and
  `OpenAIChunkShows` for the renderers), and when compat has left its read loop the
  frames it never reads have none (`NothingAfter`).  Two cases need `k` to be exact.
  When the upstream closes with a payload in the buffer, that payload can only be
  the next one (`RestNext`), and when every byte had come there is none.  And compat
  decodes no chunk by itself, so that nothing it reads was damaged (`FeedKeeps`); on
  a native surface a damaged piece stands in the place of the one that was sent.
  `BodyRead` says the same of a whole answer, from `translate_response` to each
  surface's rendering of it (`TranslatedIs`, `RenderedShows`, `StreamedShows`).

Assumptions.  The constants have their types; `Entries` of `Failover` is finite;
the channel holds at least one item; there is some kind of request; the prober
prunes no stamp younger than the window (30 minutes, `WINDOW`); a migration
starts on a sound file, knows at least one table and column, and declares
`target_route_id`; a stream is a list of frames, whose sentinel `[DONE]` holds
nothing; it says its text in the frames its dialect has for it and none after its
end (`SpeechAssumption`, which `TextStaysCarried` alone needs: what follows a
finish reason is dropped by the Responses renderer, what follows `[DONE]` by
compat), and the parts and calls of a body are lists (`BodiesAssumption`);
commands start on a store SQLite accepts (`IsStore`, `Consistent`), an
empty one for instance.

Only model-checked:

* liveness (`EveryRequestEnds`, `Recovery`, `StreamEnds`, `AllOpen`), which is
  out of the prover's reach;
* `RequestIsWhole` of `Wire`: it holds only of requests that follow their dialect
  (a tool's answer after its call), which the instance gives and no constant's
  assumption says, and it is stated with `SelectSeq`, whose parameter is an
  operator, of which the installed provers can use no lemma;
* `ImportIsFaithful` of `Catalog`: a bundle is a sequence of calls made from sets
  of rows, and that replaying it recreates them needs what every prefix of those
  calls has made of a store, with the names the import had to change.

What is defined by recursion is reasoned about as a function: that all numbers
have a property is an induction over the set of those that have it, which the
library's well-founded minimum gives (`Induction` in `RouteGraphProofs`).  The
theorems that take an operator stay out of reach, and so do `RECURSIVE`
operators: the loops of `Framing`, and `ConvertTools` of `Requests`, which opens
namespaces level by level, are recursive functions.

## 5. Not modelled

`PROJECT.json` has every component with what is left of it.

* Out of a model checker's reach: AES-GCM, the SHA of a cached request.
* Pure text: the wording rules that recognise an image refusal, the parser of a
  retry hint (`Failover` takes any hint), URL and header rewriting of masks,
  JSON parsing, sampling parameters.
* No state: terminal prompts and tables, the read-only dashboard, the chat
  client, HTTP headers, metrics, model listings, embeddings, the renderer of
  legacy completion streams, the sums of usage reports.
* Unreachable: `src/adapter/outbound/prompt_cache.rs` (section 6).
* Tuning columns of a route (strategy, economy, identity) as commands: they are
  inputs of `RouteGraph` and edits of `ResponseCache`.
* A store error at the collection of a probe cycle: `Recovery` assumes none.

## 6. What the code does otherwise than it says

With a run:

* `claim_jump` (`docs/failover.md:92`, an Unhealthy entry "does not jump
  straight back to Healthy"): a probe decided on a Degraded snapshot does that
  to an entry marked Unhealthy during the ping.
* `claim_identity` (`README.md:113`, the identity is prepended to every
  request): the handlers of streams never call `inject_identity_into_messages`
  (`src/server/handlers.rs:461`).
* `claim_tools` (`docs/providers.md:169`, "Tool/function calling is supported
  through the translator where the provider supports it", and
  `src/translator/mod.rs:8-13`): a request that goes to an Anthropic or Google
  upstream loses its tools and the calls of its history
  (`outbound/anthropic.rs:34-83`, `outbound/google.rs:91-136`), as
  `docs/tutorials/codex-cli.md:73-75` concedes.
* `claim_wire` (`docs/providers.md:239-241`, `outbound/responses.rs:10-11`: a
  streamed request to a Responses upstream is served from its answer): the
  native surfaces look for `data:` lines in the JSON, find none, send no text
  and log a success.

Found while modelling, without a run of their own.

Failover and streams:

* the buffered loop drops its failures when a later target succeeds
  (`docs/architecture.md:237`, "On failure: that model is marked unhealthy and the
  next one is tried immediately"), so an entry that always fails stays Healthy, and
  first, as long as another answers; `ActsWhenExhausted` states what the code does;
* of a chain that is cooling as a whole `warm_first` puts the soonest first
  (`docs/reference/environment.md:124`, "falling back to the soonest-expiring one if
  everything is cooling"), and then the economy strategy sorts again by price
  (`src/router/mod.rs:326`), round robin and weighted rotate it away;
* no usage row when the client of a stream hangs up (`src/server/handlers.rs:928`,
  "records exactly one usage row");
* a stream whose upstream stalls is closed without an SSE error event
  (`docs/reference/environment.md:104`); only a broken connection is reported;
* a 429 parks an entry on the buffered surfaces only; the SSE handlers demote
  and do not park (`docs/reference/environment.md:118`);
* a cooldown is overwritten by a later, shorter one of a request in flight;
* a 429 of a request in flight turns Unhealthy into Degraded without a probe
  (`docs/failover.md:91`);
* an attempt that times out leaves no usage row (`src/domain/model.rs:417`);
* the native SSE pump logs nothing for a transport error and a success when its
  client has gone (`docs/failover.md:128`); it has no idle guard and takes an
  in-band error for a success;
* an image refusal clears `vision` and does not mark the entry Unhealthy
  (`docs/failover.md:54`);
* the resolution the server uses never sets a target's prompt-cache policy
  (`src/router/mod.rs:261`), so `prompt_cache::apply` never runs;
* the HTTP client's total timeout of 30 s covers bodies (`src/server/mod.rs:213`),
  so a stream longer than that is cut, the idle timeout of 60 s cannot fire, and
  setting it to 0 does not let a provider be slower
  (`docs/reference/environment.md:93`, `src/server/handlers.rs:766`);
* a frame without content (a ping, `message_start`) commits an attempt, so an
  error right behind it reaches the client; `src/server/handlers.rs:499` says the
  first frames "must carry real content before the 200 goes out";
* a lone `[DONE]` with a byte behind it in its chunk commits an empty success
  (`src/server/handlers.rs:806`);
* `message_start` renders a role-only chunk, although
  `src/server/handlers.rs:1047` says it renders nothing.

Dialects:

* the native pump decodes each chunk by itself (`String::from_utf8_lossy`), so a
  character that the network cuts in two is damaged; it omits `[DONE]` after a
  normal finish, drops the usage a Responses client should see when it comes
  after the finish, and on the Anthropic surface the text or stop reason of a
  last chunk that has both, `message_start` and `content_block_start`;
* the native OpenAI surface drops tool calls, whole and streamed
  (`src/translator/mod.rs:7-13`);
* a tool call of a Responses history takes the item id where there is one, its
  answer the `call_id`: with differing ids the two are unpaired upstream
  (`inbound/responses.rs:172-176`);
* an Anthropic or Gemini client's `tools` and `tool_choice` stay in `extra` in the
  shape of its own dialect (`inbound/anthropic.rs:155-164`,
  `inbound/google.rs:145-166`), and an OpenAI upstream is sent them like that; only
  the Responses surface converts;
* there is no reverse mapping for custom tools on the response side
  (`inbound/responses.rs:133-135` says there is);
* an `input_image` without a URL becomes an image with an empty URL;
* `:streamGenerateContent` is served whole unless the body says `stream`
  (`README.md:400`);
* `translate_and_forward_streaming` does not apply the egress mask
  (`docs/masking.md:196`);
* the Responses adapter refuses tools that `docs/providers.md:230` says it drops
  with a log line;
* usage of Responses upstreams is lost on the native surfaces, native streams
  log no usage, and the chat pump keeps the first report, so Google's cumulative
  counts come out low;
* a `prompt_cache_key` of the client is parked and stripped.

Store and CLI:

* `profile rotate` fails for every profile that has a mask, a provider or a
  proxy: the references have no `ON UPDATE` (`docs/security.md:122`,
  `src/storage/mod.rs:607`);
* `route model move` one place down does nothing, further down it lands one
  place short; moves leave gaps, after a removal they may invert the order of
  others, and "append" (count plus one) may tie with or land before existing
  entries (`src/cli/route.rs:590` says "priorities stay contiguous");
* an export writes the effective mask, so a default becomes a binding and a
  foreign mask is dropped at import; chains that lead through a foreign provider
  make the import fail midway, or bind to an own provider of the same name; a
  failed import leaves a partial profile that blocks the next; the sharing of
  routes, the prompt-cache policy, the request ceiling and the price and
  capabilities of nested entries do not travel (`docs/economy.md:80`);
* the compensation of a bootstrap is a statement of its own: a crash before it
  leaves the partial profile (its comment: "The seed is atomic"); the error of the
  deletion is ignored (`src/cli/bootstrap.rs:221`) while the message says that the
  profile was removed; and a `profile rotate` between the profile's row and its
  first child (it succeeds as long as there is none) leaves the profile, empty,
  under the new token: `FailedSeedLeavesNothing` is about the old one;
* `provider edit` turns the default mask into a binding and cannot unbind; `mask
  set` writes back a stale sharing flag; sharing is verified only when a mask is
  bound, so unsharing it changes nothing and deleting it changes the egress of
  others silently;
* deleting a profile keeps the usage rows it logged on others' shared entries
  (`docs/security.md:218`);
* two processes that open an old or a new store at once race between a column's
  check and its `ALTER`, and between reading and inserting the master key; one
  open fails and must be repeated (`src/storage/schema.rs:163`).

## 7. Plan

Done, in this order: `Failover` with its proofs; the chat stream (`StreamRelay`
implements `Relay`); the gate and the cache (`Gateway`); the store and its
commands (`Catalog`); nested resolution (`RouteGraph`); opening and upgrading
the store (`Migration`); the dialects on the wire (`Wire`); the proofs of
`StreamRelay`, `Gateway`, `RouteGraph` and `Migration`; the proofs of the store
(`StoreProofs`) and of `Catalog` on it; that a walk is a flattening; that the
readers of a stream read every payload, that a turn of the Responses surface is
closed, and that the text arrives.

Left, most important first:

| What | How |
|---|---|
| `RouteGraph` composed with `Failover` | `Live` of `Failover` replaced by a walk, entries of several routes failing at once |
| The native pump against `Relay` | the promise as far as it holds there: order and no repetition, not completeness |
| The prober's collection failing as a whole | one provider whose credentials cannot be decrypted; `Recovery` then needs a condition |
| A retry hint near the limits of `i64` | arithmetic of fixed width in `Failover`'s cooldowns |
