# Verification of SysEscape

TLA+ models of SysEscape, from the room an author edits to the page a player
watches: how a room is built, uploaded and published; how a user signs in and
gets a run and a token for it; the two idempotent mutations behind that; the
simulation of an Engine A run, the log it is persisted in and the runtime that
drives it; the WebSocket connections that show it; and the page with its
reconnects. TLC checks the models on small instances; the proof system TLAPS
proves all their safety properties for every instance.

Paths are relative to the repository's `src/`.

## 1. The system

SysEscape is a game of incidents. A room is a bundle with a simulation: metrics,
events that push them, actions a player may take, and win checks. A player
starts a run of a room's active version (GraphQL), gets a run token, and opens a
WebSocket to Engine A, which ticks the simulation, applies the player's actions
and streams the state.

| Component | State | Operations | Talks to |
|---|---|---|---|
| Simulation engine (`internal/engine/a/service/{sim,action,replay,wincheck}.go`) | metrics, tick, won, log, active actions | `Tick`, `ApplyAction`, `Replay` | called by the runtime under the run's mutex |
| Action log (`internal/engine/a/repo/run_repo.go`, `migrations/0005`) | rows of `run_actions`: dense `seq`, unique request id | `AppendAction`, `ListActions` | PostgreSQL, two or three statements per append |
| Engine A runtime (`cmd/engine-a/runtime.go`) | map of loaded runs; per run a mutex, engine, `lastSeq`, clock flags, subscribers | `Connect`, `ApplyAction`, `SubscribeDeltas`, `SubscribeWinUpdates`, `tickLoop`, `state` | log, engine, bundle store; channels to the handler |
| WebSocket handler (`internal/engine/a/transport/ws_handler.go`) | active connection per run; per connection a writer with a mutex, a sequence tracker, four goroutines | `handleConnection`, the two streams, heartbeat, replace and close | runtime (calls and channels), browser |
| startRun (`internal/engine/a/service/run_service.go`, resolver) | `idempotency_keys`, `runs` | `StartRun` | PostgreSQL, token minter |
| publishRoomVersion (`internal/platform/publish/service.go`, resolver) | `idempotency_keys`, `room_versions`, `rooms.active_room_version_id` | `Publish` | PostgreSQL, bundle store |
| Browser client (`web/src/hooks/use-ws.ts`, `use-engine-a.ts`, `RoomDetailPage.tsx`, `Header.tsx`) | socket, backoff timer, two copies of the last seq, metrics and outcome; viewer | mount, connect, reconnect, gap detection, dispatch, unmount; sign out, start a run | handler, GraphQL, login |
| Sessions and login (`internal/auth`) | `sessions`, `users`, session cookie | login, callback, the middlewares, logout | GitHub, PostgreSQL |
| Run tokens (`internal/token`) | none | mint, verify | startRun, handler |
| roomctl (`cmd/roomctl`, `internal/roomctl`) | room directories, `.build/<slug>/bundle.tar` | validate, build, publish | S3, publishRoomVersion |
| Bundle store and loader (`internal/platform/storage`, `internal/engine/a/service/bundle_loader.go`) | one object per bundle hash | Upload, Exists, Download, load | roomctl, Publish, runtime |
| Catalog (`internal/catalog`) | none of its own | active and latest version of a room | PostgreSQL |
| Heartbeat, resume buffer, protocol (`internal/ws`) | last pong; ring of deltas (used by no code) | pong, timeout; add, resume | handler |
| GraphQL BFF (`cmd/graphql-bff`, `internal/graphql`) | none | routes, middlewares, resolvers | all of the above |
| Migrations tool (`cmd/migrations`), models, database handle, logging, smoke script | none | | |
| Stubs (`cmd/{artifact-proxy,bundle-proxy,engine-b-orchestrator,judge-dispatcher}`) | none | none | |

### What is hard about it

- *Check, unlock, act.* `state()` reads the map, unlocks, loads, and overwrites;
  AppendAction looks a request up and then inserts; the mutations look a key up,
  reserve it, and look again; `writeDelta` advances a tracker and then writes.
- *Failures in the middle.* A statement can fail for its caller and still be
  executed. Rows are written before the engine accepts them. A process can die
  between a reservation and its response.
- *Two clocks and two writers.* A tick loop and connection goroutines share a
  mutex; four goroutines share a connection, and one whose client does not read holds up the others.
- *Two generations of one thing.* A page that reconnects has an old socket and a new one, a
  timer and an unmount; a browser that signs out has queries under way that were sent before.
- *Shared files.* Two builds of a room write one bundle file, and an author edits a directory
  that is being read.
- *Boundaries of time.* A session expires between two statements; a token's expiry is cut to
  whole seconds.
- *Memory against log.* The engine in memory and the log in Postgres describe the
  same run, and only the log survives a restart.

`PROJECT.json` lists every such place with its line, and the properties that watch it.

### What makes each component correct

- Engine: deterministic; replaying its log rebuilds it; metrics go to their
  targets and stay; a win is final.
- Action log: dense, final, one row per request, and every reported append is in it.
- Runtime: one clock per loaded run; the engine is the replay of rows of the log;
  an accepted action is in the log; every call returns; a started run ends.
- Handler: an open connection gets each delta once; the acceptance of an action
  comes before its delta; one connection per run; a closed connection is released.
- Mutations: one request of one user, one answer; a reservation has an owner; a run that
  was answered is the one that was asked for, and the user's own.
- Page: one way to the server; the view never goes back; a broken connection is replaced;
  a win is shown.
- Sessions and tokens: a request runs as an account exactly when it brought a live session of
  it; a token opens its run for its TTL; a logout shows.
- Publishing: a published version is in the store, under the hash of what was hashed; a success
  is real; a run keeps its bundle; what roomctl lets through the engine loads.

## 2. The modules

| Module | Models | Uses |
|---|---|---|
| `ActionLog` | AppendAction and the rows of one run | |
| `SimEngine` | the engine as pure operators on a record; no variables | |
| `SimEngineLive` | one engine under any sequence of ticks and actions | EXTENDS SimEngine |
| `AtomicRun` | what the runtime promises its clients: one sequence of ticks and actions, on which every call takes effect at one instant | |
| `EngineARuntime` | the runtime of one run, its API calls, tick loops and restarts | EXTENDS SimEngine; INSTANCE ActionLog, AtomicRun |
| `WSHandler` | the connections of one run, above a small abstraction of the runtime | |
| `IdempotentMutations` | StartRun and Publish over a common key table | |
| `EngineAClient` | the page of a run, its sockets and timer, and the server's end of each socket | |
| `Access` | sign-in, sessions, middlewares and logout of one browser tab, statement by statement; run tokens | |
| `PublishPipeline` | roomctl, the bundle store, Publish under a fresh key, startRun and the load of a run | |
| `ActionLog_proofs` | theorems about ActionLog | EXTENDS ActionLog, TLAPS |
| `EngineARuntime_proofs` | theorems about EngineARuntime | EXTENDS EngineARuntime, TLAPS; INSTANCE ActionLog_proofs, SimEngineLive_proofs |
| `SimEngineLive_proofs` | theorems about the engine and its replay | EXTENDS SimEngineLive, TLAPS |
| `WSHandler_proofs`, `IdempotentMutations_proofs`, `EngineAClient_proofs`, `Access_proofs`, `PublishPipeline_proofs` | theorems about these modules | EXTENDS the module, TLAPS |
| `MC*` | values for the constants, and symmetry | |

`EngineARuntime` composes the engine and the log: it holds the three variables of
`ActionLog`, takes its actions only through the instance `AL`, and calls the
operators of `SimEngine` where the code calls the engine. That it takes the log's
actions only makes it an implementation of `ActionLog!LogSpec` by construction, which
the proofs use to carry the theorems of the log over (`LogOfRuntime`).

`AtomicRun` is the abstract specification of the runtime. It has no map, no mutex, no
statement and no tick loop: a run is a sequence of entries that ticks (`Advance`) and
actions (`Act`) extend until it is over, a call that has been made may be told
whatever is true at that instant (`Truthful`), and a restart loses the calls under way.
The property `CallsAreAtomic` says that the runtime implements it, with the log as its
sequence and the replies of the calls as its answers (`Atomic == INSTANCE AtomicRun
WITH ...`), until something disturbs the run: a failing statement, two overlapping loads,
or an action the room does not know.

The other modules meet at what one of them shows the next. `WSHandler` uses a run as
`EngineARuntime` shows it, and `EngineAClient` a connection as `WSHandler` shows it.
`PublishPipeline` takes each publish under a key of its own, which is what roomctl does;
what repeated keys do is `IdempotentMutations`. `Access` says for whom the resolvers run
and leaves what they do to the other two.

### How state and actions correspond to the code

**ActionLog.** `log` maps a seq to its row, `app[p]` is the AppendAction in progress
in goroutine p. `Lookup`, `Snapshot`, `Insert`, `Relookup` are the statements. The
INSERT is two steps because in READ COMMITTED its `MAX(seq)` comes from the
statement's snapshot, while `FOR UPDATE` of the run's row may wait after it; the
unique indexes are checked at the second step. `Fail` returns an error to the caller
from any statement, and an INSERT that has begun may stay behind in `orphans`.

**SimEngine.** An engine is the record `[tick, won, metrics, active, log]`, an operation
returns `[err, engine]`. Metrics are integers: the code's floats are compared, added
and subtracted only, and the tolerance of `==` (1e-9) does not matter for steps of
whole numbers. The seed is not used by the code and not modelled. `Replay` is a recursive function over
the entries, with `Continue` for one of them. `ResolveEffect` names the place of the effect that the loops
of `resolveEffect` reach last: the actions are visited after the events, each list in its order.

**EngineARuntime.** A loaded `runState` lives in a slot; `current` is the map entry.
`mu` is the mutex of the runState, held across the statements of AppendAction
(`ApplyBegin` ... `ApplyEnd`, `TickBegin` ... `TickEnd`). Sections that do not block are one
step. `held` says that `nextTickAt` is in the future. `loops` counts tick loop goroutines.
`Nth` and `Row` list the rows of the log as `ListActions` does, in the order of
their seqs. `applied` and `told` are history variables. `Crash` empties the map and drops calls;
INSERTs may stay behind.

**WSHandler.** `conn[c].pc` is where `handleConnection` stands, `stream`, `wins` and `beat` are the
goroutines of the delta stream, the win stream and the heartbeat, `wire` is what was written. A write to a
closed writer or a broken connection (`Breaks`) ends the goroutine that tried it. A write is one step,
except to a client of `Slow`: it may stop reading, and then the write keeps the mutex of the writer, `mu`,
for as long as the client likes (`Stalls`); whoever writes or calls `closeWith` waits for it. That is
why the calls of `closeWith` are steps of their own (`CloseOld`, `CloseShut`, `CloseStream`, `CloseLate`,
`CloseNormal`). The heartbeat pings (`Ping`), and a client of `Mute` may let its deadline pass (`Silence`): a
pong before the heartbeat looks saves the connection (`ReadPong`), one after it does not (`BeatTimesOut`).
The runtime below is one atomic sequence of ticks and actions, which is what the mutex of `EngineARuntime`
provides as long as the run is loaded once. `rt.seq` is the last row of the log and `rt.last` the runtime's
`lastSeq`: a row whose append was reported as failed, or whose action was refused, is in the first only
(`Logged`, `TickFails`), and the next delta is then a gap. `rt.winSubs` only grows: nothing takes the channel of
a connection out again. `hello_ack`, `ping` and `win_update` leave no trace on the wire.
What clients send is the constant `Messages`: `IsEnvelope`, `Decodes`, `ValidHello`, `ValidAction`,
`Admitted` and `Accepts` say, as the protocol package and the token verifier do, which are let through.

**IdempotentMutations.** A request is a record of what the client sends and of the user he is, a field
that is null or missing included. `Unmarshals` is what the generated GraphQL code asks of an input before
the resolver runs; `Key`, `Fingerprint` and `Valid` make the idempotency key, the request hash and the
verdict of the input validation, `Trim` and `UUIDs` saying which ids are what. `NonNull` is the null check
of the generated code on the way back, by which an answer without its version becomes an error. `db` holds the key table, runs, versions and active versions.
A call goes through lookup, reservation, second lookup, its work, the stored
response, and the deferred DELETE. `Valid` includes the blank slug, hash and changelog that Publish refuses
and StartRun's resolver has already met. A failed statement may not have run or may run
late; a restart drops the calls without a DELETE.

**EngineAClient.** `page` holds the refs and the state of the two hooks: `cur` is wsRef, `timer` the
armed reconnect timer, `wsSeq` and `seq` the two copies of the last seq, `shows` the connection state.
An event handler of the browser runs to completion, so each is one action: `Mount` and `Unmount` are the
effect and its cleanup, `Opened`, `Receive`, `SocketClosed` the handlers of a socket, `TimerFires` the
callback of the timer; `ConnectTo` is `connect`, which all of them share. `ReceiveState`, `ReceiveGap`,
`ReceiveAck` and `ReceiveWin` are the message types. The server's end of a socket is reduced to what it
sends: `Hello`, `Subscribe`, `Apply`, `Tick`, `LastTick`, the seqTracker (`Deltas`), and two goroutines that may
write two deltas in the wrong order (`Wires`). `Break` is any end of a connection the page did not ask for.

**Access.** `req[r]` is one request of the tab with the point its handler has reached; each statement
or call to GitHub is an action (`ExchangeCode`, `GetUser`, `UpsertByGitHubID`, `CreateSession`, `ReadSession`,
`CheckExpiry`, `DeleteSession`), so that cookies, rows and the clock change between them. A failing
statement may have had its effect, a response may be lost. A page load (`Loads`) drops what the page
before it waited for. A lost response of a logout may be that of the page it redirects to: the redirect has
then cleared the cookie and the page is not reloaded (`Lost`). `MintRunToken` cuts its two times to whole seconds as `jwt.NumericDate` does.

**PublishPipeline.** A content is what a room directory holds as far as anybody looks at it: each file is
missing, broken, odd or good and names action keys; a hash is named by the content it is the hash of.
`tool[t]` follows a roomctl command through `Validate` (twice), `List` (metadata, the list of files and the leak
check), `Pack` (what the list names is read and hashed, later), `OpenBundle`, `WriteBundle`,
`ReadBundle`, `Upload`, `Ask`, `Hear`; `Mixed` is what it may read of a directory that changes meanwhile.
`call[t]` follows the mutation at the BFF, which goes on when roomctl has given up. `LoadRun` is what the
engine makes of the object it downloads.

## 3. What is checked

Passing runs (`tlc -config <cfg> <module>`):

| Run | Config | Bounds | Shows |
|---|---|---|---|
| sim_engine | `MCSimEngine` | 7 rooms, logs of up to 6 entries | `ReplayReproduces`: a replay of the log rebuilds the engine exactly. `DriftIsClamped`, `LatestActionDrives`: metrics move as a closed form says. |
| action_log | `MCActionLog` | 3 appenders, 2 keys, 2 request ids, appends start up to 2 rows, 1 late INSERT | The log stays dense and final; a request has one row; success and conflict are reported truthfully. |
| runtime | `MCEngineARuntime` | 2 calls, 2 runStates, 1 fault, 1 restart, 1 racing load, 5 rows, delta channels of 1 | See below. |
| runtime_live | `LiveEngineARuntime` | 2 calls, 1 fault, 1 runState, run of 3 ticks | `CallsReturn`, `RunsEnd`, `WinIsTold` under fairness. |
| ws | `MCWSHandler` | 1 connection whose client may stop answering pings, 9 messages, 5 seqs, 2 actions, channels of 1 | `NoDeltaLost`, `AcceptedBeforeDelta`; under fairness `SilentIsClosed`. |
| two_tabs | `TwoTabs` | 2 connections, one of which may stop reading, 3 messages, 2 seqs, 1 action, channels of 1 | `OneConnection`; under fairness `ClosedIsReleased`. |
| mutations | `MCIdempotentMutations` | 3 calls over 15 requests of 2 users in 3 rooms, 1 fault, 1 restart, 1 late statement | `OneAnswer`, `OneRun`, `ReservationHasOwner`, `AnsweredRunIsRight`, `PublishActivates`. |
| client | `MCEngineAClient` | 2 sockets used over and over, 4 seqs, 1 broken connection | `OnePathToServer`: a mounted page has one socket or an armed timer, never both or neither. `ViewNeverGoesBack`. Under fairness `Reconnects` and `WinIsShown`. |
| access | `MCAccess` | 2 accounts, 2 sessions, 2 overlapping requests of 4 in all, a run of each engine, 1 fault, a clock of 3 half seconds | `AuthIsExact`, `TokenLife`, `LoggedOutIsShown`. |
| publish_pipeline | `MCPublishPipeline` | 2 commands or publishes by hand, 1 edit, 3 contents, 2 version numbers, 1 fault, 1 run | `PublishedIsStored`, `StoredUnderItsHash`, `SuccessIsPublished`, `RunKeepsItsBundle`, `RefusedForCause`. |

The runtime's properties: a runState has one clock exactly when its flag says so
(`OneTickLoop`); its engine is the replay of the rows it applied, each once
(`EngineIsReplayOfApplied`); undisturbed, a restart would rebuild the live engine
(`RebuildsFromLog`); accepted actions stay in the log (`AcceptedIsLogged`); readers see
increasing seqs (`DeltasIncrease`); nobody sends on a closed channel
(`SubscribersAreOpen`); undisturbed, every call
takes effect at one instant of one run (`CallsAreAtomic`): a snapshot is as new as the latest action that
was accepted before it was asked for, a retried action is in the run once, and an answer is true when it is
given. In the live run, a run whose clock goes, or that somebody connects to, ends and says so,
unless something fails from then on (`RunsEnd`, `WinIsTold`): a clock that an error stopped is started
again by the next `Connect` or `SubscribeDeltas`.

The handler's: an open connection has each delta exactly once, on the wire or in the hand of the goroutine
that is about to write it (`NoDeltaLost`); no delta of an action comes before its acceptance
(`AcceptedBeforeDelta`); past its hello an open connection is the registered one, or about to be closed
(`OneConnection`). A connection that is closed or broken ends its four goroutines, its registration and its
delta subscription (`ClosedIsReleased`), but not its channel in `winSubs`, which the code never removes; a handler
that waits for the connection it replaces is excepted, since that one's client may hold it up for ever. A
client that is silent but reads is disconnected (`SilentIsClosed`); one that does not read either is not,
as listed below.

`SuccessIsPublished` compares the object in the store, too, and not its hash only; it and `RunKeepsItsBundle`
are about commands that do not share a bundle file, and `overwritten_bundle` shows what happens when they do.

### Disagreements between code and documents

Two are runs of their own, which TLC finds violated:

| Run | Document | Code |
|---|---|---|
| racing_loads | "A mutex per run ... serializes tick advancement + action application" (`docs/AGENTS/m3-research.md:418`) | two loads install two runStates with a mutex and a clock each (`runtime.go:191-267`) |
| overwritten_bundle | "once a bundle hash is recorded against a `room_version`, the content at that hash must never change" (`docs/AGENTS/m2-research.md:91`) | two builds of a room share one bundle file, and Upload puts what it read under the hash it was told (`roomctl/publish.go:54`, `build.go:59`) |

Seen while reading and in the models, without a run of their own:

- Engine A "can rebuild state from action log" (`docs/ARCHITECTURE.md:114`): an action the room does not know is
  appended before the engine refuses it, and Replay then refuses the log (`runtime.go:89-101`).
- "Server disconnects after ~75s of silence." (`docs/AGENTS/ui.md:199`): no write has a deadline and `closeWith` needs
  the mutex of the writer, so a client that has stopped reading too is never disconnected
  (`ws_handler.go:380-391`), nor is a connection that replaces it served.
- "Do not allow runtime tick emissions to interleave into that response sequence."
  (`docs/AGENTS/common-mistakes.md:29`): a tick's delta may go out between `action_accepted` and the delta of the
  action (`ws_handler.go:260-263`).
- "Delta `seq` must equal `lastSeq + 1`" (`docs/AGENTS/ui.md:141`): the tracker advances before the write and under
  another mutex, so that two deltas may change places (`ws_handler.go:320-328`); the page then reconnects, and its
  view never goes back (`EngineAClient`).
- "Same ID + same fingerprint = stored response." (`docs/DECISIONS.md:119`): a failing UPDATE of the response frees
  the key of a run that exists, and a retry starts another (`run_service.go:156-172`).
- "idempotency keys with TTL" (`docs/DECISIONS.md:121`): a reservation whose process died answers "in progress" for
  ever; nothing reads `expires_at` (`run_service.go:136-161`).
- "`CONFLICT` -> idempotency violation (different payload, same clientRequestId)" (`docs/AGENTS/ui.md:227`): the
  fingerprint of a publish leaves out the changelog and `activate` (`publish/service.go:178`).
- "HandleLogout clears session from store and cookie" (`oauth_handler.go:70`): the error of the DELETE is dropped
  (`oauth_handler.go:75`).
- `SubscribeWinUpdates` adds a channel to `winSubs` that nothing removes (`runtime.go:130-140`): every connection
  to a loaded run leaves one behind. Sends to it do not block.
- Publish returns neither version nor error after a reservation it lost to a call that then failed
  (`publish/service.go:64-66`); only the null checks of the generated GraphQL code make an error of it.
- The key of a publish is neither trimmed nor the user's own, unlike that of startRun.
- The page of a run is never told of a time limit: `use-engine-a` looks at `won` alone.
- A page whose run token has expired reconnects for ever; the refresh of `docs/AGENTS/ui.md:201` is not
  implemented. It goes on showing "connected" while a gap makes it reconnect, and `RoomDetailPage` opens the
  Engine A page for every room.
- A win that falls between the snapshot of a connection and its subscription is not told to it
  (`Missed`, the exception in `WinIsShown`).

Some properties are weaker than one would wish, because the code does not give more.
`RunsEnd` and `WinIsTold` excuse what fails after they begin to wait, since a failing append stops the clock
until the next API call, and `CallsAreAtomic` holds until the run is disturbed. `OneAnswer`, `AnsweredRunIsRight` and
`PublishActivates` excuse an UPDATE that is executed after its call gave up: it selects the
row by key alone and may fill in the reservation of a retry. `StoredUnderItsHash`, `RunKeepsItsBundle` and
the part of `SuccessIsPublished` that is about the stored bytes
excuse two commands at one bundle file (`past.overlap`), and `RefusedForCause` also a directory edited while
it was read, a room of engine B and the values roomctl does not look into. `TokenLife` allows the
last second of a TTL to be lost.

### Why the bounds are enough

- *Appenders, calls, connections.* Every race in the code is between two actors; three
  appenders and three mutations add a retry on top. The runtime has two calls besides
  its tick loops and a restart.
- *Log length.* `MaxLog` stops new appends, not the ones in progress. A log of five rows holds
  the seeded tick, a retried action, a tick after it, the win or time limit, and one more.
- *Channels* of one element are full as soon as two ticks pass, the case that a channel of
  16 meets rarely.
- *One fault, one restart, one late statement, one racing load* in a run with retries: each of
  the failures above needs at most two of them together.
- *Rooms*: they cover both directions and signs, a zero rate, competing effects, events out of
  order, every comparison, no check, an unknown metric and an unknown operator.
- *Sockets*: a page has at most its socket and the one it has just given up; a socket that is over on
  both sides is used again, so two stand for any number. Four seqs hold a snapshot, two deltas in the wrong
  order and the last tick.
- *Requests of a tab*: two overlap, and four in a row hold a sign-in, a logout and two queries, before,
  between and after them. Half seconds are enough for a token to be minted off the second.
- *Messages*: a proper hello and action, and each with one thing wrong; with two connections the wrong ones are
  left out, as what they do to a connection is no other than a break.
- *Connections*: one has four goroutines, enough for every race of theirs; two are needed to replace each other. A
  client that stops reading is in the second run, one that stops answering in the first, and the two together
  are the case listed above in which nothing ends the connection. The safety properties are proved with both.
- *Publishers*: two, as every race of theirs is of two; the three contents differ in what roomctl looks at
  and in what only the engine does, and files of two of them mix to the third. The model allows more than
  one room; one is checked, since rooms share nothing but the store, and two commands with two rooms
  never meet at a bundle file. The proofs hold for any number.
- Symmetry is used for safety only: appenders, keys, calls, accounts, requests, sessions and tools
  are interchangeable.
- `CHECK_DEADLOCK FALSE` where the system stops legitimately: all calls made, the run over.

### Fairness

Weak fairness of the steps of goroutines that can run (`StateStep`, `OperationStep`, tick loop), of PostgreSQL's answers (`Statement`) and of time (`HoldExpires`):
the Go scheduler runs every ready goroutine, statements end, and a ticker fires. Mutexes are
taken by one step of a goroutine; Go's mutex hands itself to a starving waiter, and the model
bounds the number of others. Nothing obliges clients to call, read, write or disconnect, no
failure or restart has to happen, and failing statements are not needed for progress. In
`WSHandler`, the four goroutines of a connection run (`Handle`, `Stream`, `WinStream`, `Beat`) except for one whose
write a client holds up (`Stalled`), the read of a closed or broken connection fails, and a finished request
unsubscribes. In `EngineAClient`, browser events are dispatched, an armed timer fires, and the server reads, subscribes and
answers; nothing obliges a player to click or stay, or the run to tick, and connections break a bounded
number of times.

## 4. What is proved

Every safety property of the passing runs, invariants and action properties, is a theorem: it holds for
every value of the constants, TLC's bounds aside. Each proof names its inductive invariant, shows that
the initial states have it and that each action keeps it, with one lemma per action and, where several
actions do the same thing to one part of the state, one lemma for what they have in common.
Assumptions are the ASSUMEs of the modules: bounds are natural numbers, marks like `NULL`, `NoSock` or
`Free` are told from what they stand beside, and finite sets are finite.

**ActionLog_proofs**: for every set of appenders, keys and requests, `LogSpec` implies `[]LogTypeOK`,
`[]NoGaps`, `[]OneRowPerRequest`, `[]OkIsDurable`, `[]ConflictIsReal`, and the action properties
`RowsAreFinal` and `TicksAreNew`. The inductive invariant `LogInv` adds two facts to the properties.
`SnapshotsAreOld`: a pending INSERT, with or without a client, computed its `MAX(seq)` from a log that was
no longer than the present one, so the seq it inserts is either taken, and then the unique index refuses
it, or exactly the next one. `LookupsCarryRequest`: only calls with a request id look rows up, so that a
row they find is an action and not a tick.

**SimEngineLive_proofs**: for every simulation and logs of any length.

- `EngineIsDeterministic` (`ReplayReproduces`): a replay of the log rebuilds the engine that wrote it. The
  prover cannot use induction theorems that take a predicate, so `SetInduction` states induction for a
  set instead: a set of naturals that has 0 and is closed under successor has them all, for the naturals
  without it have no least element. With it `ResultsExist` shows that the recursive function inside
  `Replay` has the values its equation gives, `ReplayAppended` that one entry more is one `Continue` more, and
  `ReplayedLog` that a log which is replayed without an error comes back entry by entry.
- `DriftRests` (`DriftIsClamped`) and `ActionsOverrideEvents` (`LatestActionDrives`): `MetricsInv` says that the
  engine has all metrics of the room, as numbers; `LastExists` and `LastIsUnique` that among finitely many
  effects one is visited last; `StepsAdd` is the arithmetic of n steps and one more. `SimsAssumption`: a
  simulation's lists are finite sequences, its numbers integers.

**EngineARuntime_proofs**: for every set of calls, keys and requests, every number of run states, racing
loads, failing statements and restarts.

- `RuntimeInv` is the inductive invariant of `OneTickLoop`, `SubscribersAreOpen` and `OverIsFinal`
  (that no late action, tick or load changes a run that is over).
  `OneTickLoop` alone is not inductive: that `TickBegin` and `ApplyEnd` never act on a run that is over needs
  `terminal => mu = Free`, and that a second load does not reset a runState with a clock needs
  `~loaded => ~tickStarted` and "a call at `lock`, `append` or `subscribed` holds a loaded slot".
  `SubscribersAreOpen` needs that a channel in `deltaSubs` belongs to a call that is still subscribed to
  that very slot. None of this depends on what the engine computes.
- Each step of the runtime is a step of `ActionLog` or leaves the log alone (`StepsOfActionLog`), so that every
  theorem of `ActionLog_proofs` holds of the runtime's log (`LogOfRuntime`).
- `CallsTakeEffectAtOnce` (`CallsAreAtomic`) is the refinement of `AtomicRun`: initial states map to initial
  states, and every step to a step or a stutter. The point at which an action takes effect is the INSERT of
  its row, that of a tick likewise, and every other call takes effect when it is answered. `AtomicInv` adds
  to the invariants above what that needs: a loaded runState is terminal exactly when its engine is over
  (`OverIsTerminal`); calls hold the arguments they were made with and an answer once (`CallShape`); the
  log of an undisturbed run replays without an error (`LogReplays`); and an append in such a run sees the
  log as it is, so that nothing refuses its row (`AppCalm`). `AnswersAreTrue` is the lemma for the answers.
- `AcceptedIsLogged`: while a call is at `append`, its AppendAction carries the entry it asked for
  (`AppendsOwnEntry`); an ok names a row with that entry (`OkIsDurable`); rows never change (`RowsStay`).
- `EnginesAreReplays` (`EngineIsReplayOfApplied`): `AppliedInv` says what the property needs of an append under
  way, that a tick is appended beyond `lastSeq` and that the rows an engine took are in the log and not
  beyond it. A step does one of five things to an engine (`EngineSteps`): nothing, lose it, load it, give it the
  row of an action or of a tick. That the engine does with the row what `Replay` would is
  `SimEngineLive_proofs`, through the instance `LP`; that the rows are listed in the order of their seqs, each
  once, is shown of `Nth` and `Row` (`Ranked`).
- `ReadersSeeTicksInOrder` (`DeltasIncrease`): `ChanOK` says that what a channel holds increases, is of ticks, and
  is never beyond `lastSeq` of the subscribed runState, so that the next tick's row comes after all of it.
- `RestartsRebuild` (`RebuildsFromLog`): `RebuildInv` is the longest one. `CalmInv` says that in an undisturbed run
  there is one loader or one loaded runState, that whoever has an append under way holds its mutex, and
  that the engine has taken every row of the log but the one the mutex is held for. `WonIsOver`, a won
  engine is terminal, is what rules out a row that the engine refuses; `BudgetInv` that a disturbance is not
  forgotten.

**WSHandler_proofs**: `[]OneConnection`, `[]AcceptedBeforeDelta` and `[]NoDeltaLost` for any number of connections,
messages, actions, any capacity of the channels, and whichever clients stop reading or answering. `WSInv` is
one statement per connection, `ConnOK`, about those that are neither closed nor broken.
`Contiguous` accounts for every seq from the snapshot to the tracker: it is on the wire or in the hands
of exactly one of the two goroutines that write deltas. `AcceptedFirst` needs that what the tick stream
is pushed is of ticks, past or present (`SeqsAreOld`), and that seqs of actions are never used again
(`Follows`). Most actions do one of a few things to a connection: `Moves`, for one that writes and numbers
nothing, `Quiet`, for what only the mutex, the heartbeat or the win stream sees, `Wrote` and `Closed`.

**IdempotentMutations_proofs**: `[]OneAnswer`, `[]OneRun`, `[]ReservationHasOwner`, `[]AnsweredRunIsRight` and
`[]PublishActivates` for any requests, users, calls, failures, restarts and late statements. `MutInv` follows
the row of a key: a call past its reservation, or its DELETE that outlived it, is the only holder of the
row (`HoldersOK`, `OneHolder`); whoever has an answer has the one in the row (`AnswersOK`), which is a run that was
started for that request or a version that was active (`RowsOK`); and while nothing fails, a row without an
answer has its holder and every run its row (`OwnersOK`). All but the last are claimed until an UPDATE was
executed after its call gave up, and no longer.

**EngineAClient_proofs**: `[]OnePathToServer` and `ViewNeverGoesBack` for any set of sockets and any number of seqs
and broken connections. `PathInv` adds only the types: every handler that gives up a socket takes its
`onclose` away and clears the timer in the same turn. `ViewInv` says of what is on its way to an open socket
that nothing is ahead of the run, and that a snapshot is behind a hello_ack only and not older than the view
(`QueueOK`): the deltas that may change places are then not a danger, since the page takes the next seq or none.

**Access_proofs**: `[]AuthIsExact`, `[]TokenLife` and `[]LoggedOutIsShown` for any accounts, sessions, runs,
TTLs and any number of requests and failures. The inductive invariant `AccessInv` says of every request what
its handler knows at its point: `Sound` and `Complete` are the two halves of `AuthIsExact`, `TokenOK` ties a token
to the moment it was minted, its run's engine and owner, and `OutOK` says that after a logout no viewer query
the page waits for carries a cookie. `Onwards` (a row keeps its user and expiry, a deleted one stays deleted,
a run keeps its owner, the clock goes forward) carries them over the steps of the other requests. That the
foreign key from sessions to users is never dangling (`UsersKnown`) is what makes "no such user" impossible at
`CheckExpiry`; `WholeSecondsGrow` is the arithmetic of the lost second.

**PublishPipeline_proofs**: `[]PublishedIsStored`, `[]StoredUnderItsHash`, `[]SuccessIsPublished`,
`[]RunKeepsItsBundle` and `[]RefusedForCause` for any rooms, numbers, contents, publishers and faults. `PipelineInv`
follows a content along the way: `ToolOK` for a command, which holds the hash of a validated directory unless it
was edited; `Alone`, as long as bundle files are not shared, no two commands are between opening and reading the
same one; `CallOK` for a call, whose bundle is stored once it was looked for; `PairOK` for what roomctl knows of its
call, which survives that it gives up; `StoreOK`, `VersionsOK`, `RunOK` for objects, rows and runs. `Onwards` says
that objects stay, rows keep their hash and history grows.

**Only model-checked**: the liveness properties (`CallsReturn`, `RunsEnd`, `WinIsTold`, `ClosedIsReleased`, `SilentIsClosed`,
`Reconnects`, `WinIsShown`), which are out of the prover's reach, as is ENABLED. TLC checks them under the fairness of
section 3, on small instances. That a step of the abstractions in `WSHandler` and `EngineAClient` is one that the
component below them can take is argued in section 2 and not stated as a refinement. The modules declare no
RECURSIVE operator: recursion is a recursive function.

## 5. What is not modelled

- *Resume*: the handler's branch for `SnapshotRequired = false`, `ResumeBuffer` (only its tests use it), and
  `expectedSeq` cannot matter with a runtime that always asks for a snapshot.
- *The times of the heartbeat*: pings come at any time, and the last pong is too old or not. Delays of timers
  and backoff.
- *Close codes and the close handshake*: a connection is closed or it is not.
- *The slug of a `metadata.yaml`* that is edited between `validate` and `build`, which would name another
  `.build` directory.
- *Float arithmetic*, the formats of tar and YAML, S3 itself, logging, layout, strings beyond trimming.
- *Renaming a room*: an edit of a directory does not change the slug it is published under.
- *Configuration and shutdown* of the BFF and the engine; the generated GraphQL code of the queries, which passes
  arguments and results on (of the mutations, inputs and payloads are modelled).
- *`RequireAuth` and `RequireAdmin`*, which no route uses.
- *The migrations tool, smoke script, stubs, models*: sequential, or without behaviour. The schema is modelled
  where the components rely on it (unique indexes, checks, foreign keys).
- *Catalog filters and paging*: read-only. The active and the latest version are `Room` of `PublishPipeline`.

## 6. Plan

1. Done: `ActionLog`, `SimEngine`, `EngineARuntime`, `WSHandler`, `IdempotentMutations`, `EngineAClient`,
   `Access`, `PublishPipeline`, the refinement of `AtomicRun`, and the proofs of section 4.
2. Refinements between the modules: that the runtime inside `WSHandler` is one that `EngineARuntime` allows
   while the run is loaded once, and the server inside `EngineAClient` one that `WSHandler` allows.
3. Engine B and the judge, once they have code.
