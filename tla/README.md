# TLA+ models of the opentrade session gateway

This directory holds TLA+ models of `src/src/opentrade/connection.cc` (class
`Connection`), the session engine of opentrade's client gateway. It also holds
the TLC configurations that check them.

## 1. Inventory

### Parts of the system

| Part | Code | State it keeps | Operations |
|---|---|---|---|
| Wire codec | `Get<T>`, `GetNum`, `json::parse` (l. 41-94) | none | typed reads that throw |
| Auth & tokens | `sha1`, `OnLogin`, `kTokens` (l. 25-39, 1031-1141) | `user_`, process-wide `kTokens` | login, validate_user |
| Parameter domain | `ParseParamScalar/Value/Params`, `Jsonify` (l. 96-172, 319-358) | none (pure) | parse algo params, encode defaults |
| Subscription registry | `sub`/`unsub` in `OnMessageSync` (l. 510-533) | `subs_`: id -> (last-sent snapshot, ref count) | sub, unsub |
| Differ / publisher | `PublishMarketdata`, `PublishMarketStatus` (l. 182-317) | `timer_`, `ecs_`, `mds_`, `single_pnls_`, `pnls_`, `sub_pnl_` | timer tick |
| Dispatcher | `OnMessageSync`, `OnOrder`, `OnAlgo`, `OnPosition`, `OnSecurities` (l. 360-587, 778-1029) | `test_algo_tokens_` | one branch per verb |
| Outbound serializer | `Send` overloads, `SendTestMsg` (l. 589-776, 1143-1156) | `strand_`, `closed_` | posts from engine threads |
| Reference-data export | end of `OnLogin`, `OnSecurities` | none | stream catalogues |
| Shutdown | `shutdown` branch (l. 442-466) | local countdown | stop, cancel per tick, kill |
| Algo file editor | `algoFile`, `deleteAlgoFile`, `saveAlgoFile` (l. 534-569), the `algoFiles` listing (l. 1126-1140) | the files under `kAlgoPath`, shared by all sessions | read, delete, save, list |

The transport, the order book, the market-data, algo, position and account
managers, and `Connection::Send(const std::string&)` / close are outside
`src/`. The model takes their behaviour from `spec.md`.

### How the parts interact

* **Inbound.** The transport thread calls `OnMessageAsync`. It drops the message
  if `closed_` is set and otherwise posts `OnMessageSync` onto the session's
  strand.
* **Timer.** `PublishMarketdata` arms `timer_`. Its handler is wrapped by the
  strand. The handler re-arms first, then diffs connectivity, market data and
  PnL against the last-sent state and sends the changes.
* **Engines.** The order book and the algo engine call `Send(Confirmation)`,
  `Send(Algo, ...)` and `SendTestMsg` on their own threads. Each call checks
  `closed_`, `user_` and ownership (or the test token) off the strand, then
  posts the encoding onto the strand.
* **Shared state.** The strand serialises everything of one session. `kTokens`
  and the managers are process-wide.

### What is hard

* **Ordering on the strand.** Messages, timer handlers and engine posts
  interleave.
* **Checks made off the strand.** These checks (`closed_`, `user_`,
  `test_algo_tokens_`) race with handlers that run on it.
* **Timer life cycle.** The wait is re-armed before the body runs. Close
  happens while a wait is pending, and the body still runs after close.
* **Differ bookkeeping.** A wrong last-sent value silently loses updates
  forever.
* **Exceptions mid-handler.** State changed before the throw stays changed.
* **Numeric conversions.** The int/double shutdown countdown, and the
  pointer-plus-integer error texts.

### What makes each part correct

* **Registry.** A ref count is at least 1 while its entry exists. An `unsub`
  matching the `sub`s removes the entry.
* **Differ.** What it diffs against is what the client received. Exactly one
  timer chain runs while the session is open. The chain stops after close.
* **Dispatcher.** Before login, no verb except `h`, `login` and
  `validate_user` has any effect. Each verb follows its contract.
* **Serializer.** Frames go out in posting order. Nothing is sent after close.
  A confirmation goes only to the owner of its sub-account.
* **Shutdown.** The countdown terminates.

## 2. Plan

Modules in order of importance:

1. **`Session`** (done). It models the strand, the dispatcher's gate, login and
   validate_user, sub/unsub, pnl, algo test, the timer handler with its
   connectivity, market-data and PnL diffs, engine pushes and close.
   `MC_Session` instantiates it.
2. **`Shutdown`** (done). The admin countdown.
3. **`OrderEntry`** (done). `OnOrder`'s checks in the code's order, the
   type/tif parsers and `GetType`/`GetTif`, and the error texts built by
   `"..." + security_id`.
4. **`ConfirmationCodec`** (done). The exec-type switch of
   `Send(const Confirmation&, bool)`, with its fall-through statuses and
   dropped transaction types, checked against a reference table from spec
   4.G.
5. **`SessionChannel`** (done). The abstract strand: tasks run one at a
   time in posting order, each eventually, and nothing is written after
   close. `Session` refines it (`ChannelSpec`).
6. **`AlgoCommands`** (done). Two sessions sharing the algo manager: the
   duplicate-token check against `Spawn`, the ownership check of `new`, and
   the security-tuple parser it runs.
7. **`Queries`** (done). The remaining one-shot verbs: bod, reconnect,
   securities, position, cancel, algo cancel/modify and the offline replay,
   which encodes through `ConfirmationCodec`.
8. **`StatelessGate`** (done). Per-message token resolution in the gate.
9. **Parameter round trip** (done, in `AlgoCommands`). `ParseParamScalar`'s
   scalar kinds and `Jsonify` (spec 8 invariant 6), and the reason of each
   bad tuple field (spec 4.C).
10. **`AlgoFiles`** (done). The file editor verbs of parallel sessions over
   one directory.
11. **`test` tokens against `SendTestMsg`** (open).

## 3. What is modelled

### `Session.tla`

| Model | Code |
|---|---|
| `strand` | the queue of `strand_`. The head task runs atomically, which is the strand's mutual exclusion. |
| `closed`, `user`, `tokens` | `closed_`, `user_`, `kTokens` (by the user a token resolves to) |
| `waits` | async waits pending on `timer_` |
| `subs` | `subs_` (last-sent snapshot and ref count) |
| `seen`, `pnlSent`, `spnlSent`, `subPnl` | `ecs_`/`mds_`, `pnls_`, `single_pnls_`, `sub_pnl_` |
| `testTokens`, `running` | `test_algo_tokens_`, and the algo manager's running tokens |
| `md`, `connected`, `pnlNow`, `spnlNow` | external managers, changed by environment actions |
| `out`, `cview` | history: frames written by the last step, and what a client applying every frame knows |

Each handler is one action. `Heartbeat`, `Malformed`, `LoginGate`,
`ValidateUser`, `Login`, `Sub`, `Unsub`, `PnlHistory` and `AlgoTest` take the
head message. `Tick` is the whole timer handler: it re-arms, publishes status,
diffs md and diffs PnL. `Pushed` encodes an engine post.

The other actors are `Receive` (`OnMessageAsync`), `TimerFires`, `Close`,
`SendConfirmation`, `SendAlgoEvent` and `SendTestMsg` (with their off-strand
checks). `MdChange`, `ConnChange`, `PnlChange` and `SpnlChange` stand for the
external managers.

Data is abstract:

* A snapshot is a timestamp and one price field.
* A PnL is a pair of values in {0,1}.
* Messages are records naming the verb and the arguments that steer the
  handler.
* Frames carry only what properties read.

The login reference-data stream is one frame.

### `Shutdown.tla`

The admin check, the clamping of the grace and tick arguments, and the loop
`while (seconds) seconds -= interval`. Numbers are in halves so that both
integral and fractional inputs occur.

### `OrderEntry.tla`

`OnOrder(r)` is the handler as an operator that gives the set of outcomes of
one order array `r`. The outcomes are a reply frame, the contract handed to
`Place`, or a crash. The checks come in the code's order:

1. the typed reads of the security id and the sub-account name (a throw);
2. the sub-account lookup;
3. the typed reads of side, type, tif, qty, px and stop;
4. the security lookup;
5. the side;
6. the stop price of stop and stop-limit types.

A JSON value is a record of its kind and value. A string stands for its
case-folded text, which is what `strcasecmp` compares. `Submit` is one
dispatch of `"order"`, and it records the request (`req`) and the outcome
(`last`).

`"Invalid security id: " + security_id` is pointer arithmetic. For ids 0..21
it yields a suffix of the literal. Past that the read is undefined, so the
model lets the build send foreign bytes or crash. `GetOrderSide` is outside
`src/`, so the accepted side words are the constant `Sides`.

### `Queries.tla`

`Queries` EXTENDS `OrderEntry`. It adds the verbs that, like `order`,
answer one message from the message and the external managers alone. Each
verb's handler is an operator giving the set of its outcomes. An outcome is
one of three things:

* a single frame;
* the sequence of frames it writes (`Frames`);
* the call it makes on a manager (`Did`).

`Query(r)` dispatches one query. It records the request and the outcome in
`OrderEntry`'s `req` and `last`, so orders and queries share one run.

| Model | Code |
|---|---|
| `OnBod`, `BodVisible` | the `bod` branch: a frame per key of `bods_`, non-admins skipping accounts they do not own |
| `OnReconnect` | the `reconnect` branch: the market-data adapter, else the exchange adapter, else nothing |
| `OnSecurities`, `SecRecords` | `OnSecurities`: the long record for admins and the short one otherwise; one frame each plus a terminator, or one array on a stateless transport |
| `OnPosition`, `PositionError`, `PositionSecurityErrors` | `OnPosition`: the security check (with the same `"..." + security_id` arithmetic as `OnOrder`), the account check, the broker flag and lookup, then `Send(j.dump())` |
| `OnCancel` | the `cancel` branch |
| `OnOffline`, `AlgoReplay`, `OrderReplay`, `Replay` | the `offline` branch, with the two `LoadStore`s (outside `src/`, modelled from spec 4.F) |
| `OnAlgoOther` | `OnAlgo`'s cancel, modify and unknown sub-actions |
| `admin`, `stateless` | `user_->is_admin` and `transport_->stateless`, chosen in `QInit` and then fixed |

`Replay` is `ConfirmationCodec`'s `Encode`, taken through a named `INSTANCE`,
with the offline flag set. So the replayed frames are the ones the encoder
really builds, and confirmations it drops are not replayed.

`QueriesMatchSpec` checks every well-typed query against its row of spec 4.F
(and 4.H for securities). It checks:

* who sees which bod keys;
* which adapter reconnects;
* the securities framing for each transport;
* the order of the position checks;
* that the offline replay sends exactly the stored confirmations and algo
  events after the given seqs, each before its terminator, with
  `offline complete` last;
* which lookup the algo key's JSON kind selects.

### `StatelessGate.tla`

This module is the login gate of `OnMessageSync(msg, token)` on a stateless
transport, where each message carries a token. It has these parts:

* `tokens` is `kTokens`. It is process-wide: `Login` is a successful login
  on any session, which adds a fresh uuid, and nothing erases an entry.
* `user` is the connection's `user_`. `OnLogin` never binds it on a
  stateless transport.
* `Dispatch` is the gate (l. 381-388). It looks `user_` up from the
  message's token only while `user_` is null, and dispatches as `user_`.
* `acted` records the token and the user of the last message that passed.

`TokenDecidesUser` is spec 4.F's "re-resolved via the per-message token
before each dispatch". It is violated as soon as a second message carries
a different token. This matters wherever a transport reuses one
`Connection` for several messages. The transports are outside `src/`.

### `ConfirmationCodec.tla`

`Encode(c)` is the switch of `Send(const Confirmation&, bool)`. A frame is
its verb, its status word and the names of its fields in order. `Status`
runs the switch rather than reading a table of results. `Runs` lists the
labels of each run of cases between two `break`s, in source order, and
`FallThrough` executes the labels from the entry label to the end of its
run. `Assign` is one label's `status = ...`: it is unconditional for the
labels in `Unguarded` and `if (!status)` for the others, and `Word` is the
literal the label assigns. A dropped or misplaced guard therefore changes the
word computed for the labels after it. `Returns` covers the two `return`s:
the default label, and
a fill whose transaction type is neither new nor cancel. `Encoded` is one
posted confirmation being encoded, and `execs`/`sent` record the stream. The
owner check before the post is part of `Session`.

The `risk_rejected` tail leaves out `broker_account`, which the unconfirmed
snapshot carries (l. 706 against l. 756). Spec 4.G calls it "the full
order-snapshot tail", which is too loose to decide whether that is a
divergence, so no run checks it.

No type invariant is checked here. Every field is built from literal
tables, so it would hold by construction.

### `SessionChannel.tla` and the refinement

`SessionChannel` is what a session's strand promises, with the task left
opaque. `queue` holds the posted tasks, `closed` says whether the session is
closed, and `wrote` says whether the last step wrote to the transport. There
are four actions:

* `Post` appends tasks.
* `Run` takes the oldest task, may post more, and writes only while open.
* `Close` closes the session.
* `Idle` is any other step.

`WF` on `Run` says every posted task runs.

`Session` instantiates it with `queue <- strand`, and `wrote <- out # <<>>`
(`out` holds the frames of the last step). `ChannelSpec`, the abstract
`Spec`, is a property of the `session_dispatch` run. It fails if any
session step does one of these:

* reorders or drops strand tasks;
* posts ahead of the queue;
* writes a frame once closed;
* leaves a posted task that never runs.

The mutant `PostDispatch` posts at the front of the strand, which is
`strand_.dispatch` instead of `post`.

### `AlgoCommands.tla`

This module covers the `new` and `test` actions of `OnAlgo`, sent by two
sessions of two users that share one algo manager. Two parts of it come
from the spec, because `AlgoManager` is outside `src/`:

* `Spawn` starts an algo under its token when it knows the name.
* `Finish` is an algo that stops.

The handler touches the manager twice, so it is split into two actions:

* `Check` is the `Get(token)` test and its "duplicate token" reply.
* `Launch` is the rest, atomically:
  * `ParseParams`;
  * the ownership loop (`Permitted`);
  * the insert of the test token;
  * `Spawn`, with its "Unknown algo name" throw.

Between the two, the other session's steps may run.

`ParseScalar` is `ParseParamScalar`: float, integer, boolean and string
become `double`, `int64_t`, `bool` and `std::string`, and anything else
(null, an array inside a vector) falls to `return {}`. That value-initialises
the variant's first alternative, `bool` in spec 3's listing (`DefaultScalar`;
`ParamDef` is outside `src/`). A parsed value is `[kind, elems, accs]`, and a
running algo keeps the request's parameters and their parsed values.
`JsonifyScala` and `Jsonify` are the encoders `algo_def` uses: the tag of
each alternative (`int64_t` and `int32_t` both "int"), and "vector" with the
elements `JsonifyScala` accepts. The value after the tag is left out.

`ParseTuple` is the object branch of `ParseParamScalar`. It reads the keys in
`std::map` order (acc, qty, sec, side, src). Each lookup may throw, and the
four "Empty ..." checks come after the loop. `ParseElems` and `ParseParams`
are `ParseParamValue` and `ParseParams`: the first throw wins. They collect
two sets of accounts:

* those of tuples that are whole parameter values, which are the only ones
  the ownership loop sees;
* those of all tuples, vector elements included.

`algo_params` is the passing run. `ParamRoundTrip` is spec 8 invariant 6
over every running algo's parameter map, and `TupleReasons` is spec 4.C: a
`new` whose one parameter is a tuple with bad fields gets a reason
belonging to one of them, once `Launch` has run (or "duplicate token").
Which of several bad fields is named follows `std::map` key order, and spec
4.C leaves that open, so the property does not fix it. `ParamRoundTrip`
covers the kinds spec 8 names (bool, int, float, string) and vector lengths.
A null parameter becomes the default `bool` (l. 152), and no run checks this,
because the spec says nothing about nulls.

### `AlgoFiles.tla`

This module covers the algo file editor. Sessions of different users run on
their own strands, in parallel, over the one directory `kAlgoPath`.

| Variable | Code |
|---|---|
| `disk` | the entries of `kAlgoPath`: an inode and the file's bytes, or `NoFile` |
| `pending` | the `std::ofstream` of a `saveAlgoFile` between its open and its write |
| `reply` | the frame each session wrote last |
| `nIno`, `nMsgs` | inodes created, messages handled (bounded by `MaxMsgs`) |

| Action | Code |
|---|---|
| `AlgoFile` | `algoFile`: the contents, or `null, "Not found"` |
| `DeleteAlgoFile` | `deleteAlgoFile`: `fs::remove` (a missing file is no error), or the `filesystem_error` text |
| `SaveOpen` | `saveAlgoFile` up to `std::ofstream os(path)`, which truncates or creates the file; a failed open replies "Can not write" |
| `SaveWrite` | `os << text` and the reply; the bytes go from offset 0 to the inode the handle opened (`Overwrite`), and are lost if the entry has been deleted |
| `ListFiles` | the end of `OnLogin`: the entries not beginning with `_` or `.` (`Hidden`), sent only when there is one |

The save is two steps because the truncation and the write are separate
system calls, and nothing orders them against another session's.
`SettledFilesWhole` says that when no save is in progress, every file holds
a text some client saved. `MaxMsgs = 4` is enough for two saves and a read.
The failure branches are nondeterministic, as I/O errors are.
`SaveWrite` is weakly fair, because the handler runs to its end.

## 4. Runs

| Run | Expect | Shows |
|---|---|---|
| `session_publish` | pass | Traffic: login, sub, unsub and pnl, racing 2 external changes, 1 engine push and a close. The client view equals the last-sent state (`ClientViewConsistent`). There is exactly one timer chain while the session is bound and open (`TimerChain`). The chain stops after close (`PublisherStops`, liveness). |
| `session_dispatch` | pass | Traffic: h, garbage, empty, good/bad/unknown/second-user logins, validate_user, sub and test algos, with 2 engine pushes. `TypeOK` holds. `Session` implements `SessionChannel` under the strand mapping (`ChannelSpec`). |
| `session_sub_partial` | violation | `["sub", 1, "x"]` stores the snapshot of 1 as sent but never sends it, so the client's view diverges for good (`ClientViewConsistent`). |
| `orderentry_reference` | pass | Runs on `MC_Queries`. Over 2592 order arrays, covering every check, every type word, wrong JSON kinds and spec scenarios 3 and 4, well-typed orders are rejected in the order of spec 4.F.1 and the rest are placed with the requested fields (`CodeMatchesSpec`). Over 91 queries that hit every branch, for admin and non-admin users on stateful and stateless transports, each query does what spec 4.F says (`QueriesMatchSpec`). |
| `orderentry_roundtrip` | violation | A stop-limit order is confirmed as `"stop_limit"`, but `OnOrder` only knows `"stop limit"`, so the word the server prints comes back as a limit order (`TypeRoundTrip`). |
| `codec_layout` | pass | Over streams of two confirmations of 11 execution types (one the switch does not list), 3 transaction types, empty and non-empty text, zero and non-zero `orig_id`, live and offline: every frame has the layout of spec 4.G (`CodecMatchesSpec`), and no two execution types share a status word (`StatusIdentifiesExec`). |
| `algo_params` | pass | `new` with a bool, a float, an int, a null, a string, a good tuple and a vector of an int, a string and a null; `new` of five tuples with one bad field each (zero quantity, no side, unknown security, unknown and missing account) and of two with two (zero quantity and unknown side; no account and no security); `test`; two sessions, three messages. Every parsed map encodes back with the request's kinds and element counts (`ParamRoundTrip`), and every bad tuple gets the reason of one of its bad fields (`TupleReasons`). |
| `algo_token_race` | violation | Both sessions pass `Get("t")` before either calls `Spawn`, and two algos run under `"t"` (`UniqueTokens`). |
| `algo_vector_owner` | violation | `["algo","new","twap","t",{"p":[{acc: a2, ...}]}]` from the user of `a1` starts an algo trading on `a2`, because the ownership loop skips tuples inside vectors (`NewRespectsOwnership`). |
| `stateless_token` | violation | On a stateless transport, `u1` logs in with `t1`, a message with `t1` passes the gate, and a message with `t2`, a token never issued, then runs as `u1` (`TokenDecidesUser`). |
| `shutdown_countdown` | violation | `["shutdown", 3, 2]`: the countdown goes 3, 1, -1, ..., so cancel runs forever and the process is never killed (`NeverPastZero`). |
| `algofile_overwrite` | violation | s1 opens `twap` to save `y` and s2 opens it to save `xx`; s2 writes, then s1 writes one byte over s2's two, and `twap` holds `yx`, which nobody saved, while both clients are told the save worked (`SettledFilesWhole`). |

Each property of a passing run is matched by a mutant in `PROJECT.json`: a
plausible code bug under which TLC finds the property violated. The mutants
are:

* `!user_` dropped from the login binding;
* the `closed_` test dropped from `PublishMarketdata`;
* the diff keyed on price instead of the timestamp;
* the empty test token recorded;
* the `kLimit` default of the order type lost;
* the stop-price check applied to `kStop` only;
* the `if (!status)` guards of the fall-through labels dropped (`AssignUnguarded`);
* the order id pushed for every pending-group label;
* `strand_.dispatch` in place of `post`, which runs a task ahead of the
  queue;
* the `is_admin` exemption of `bod` lost;
* `ParseParamValue` without its array branch;
* `qty < 0` in place of `qty <= 0`.

### Observations no run checks

These disagreements were found while modelling. They are easy to test
directly, so they get no run:

* **sub of an unknown id.** `subs_[id]` creates the entry before the
  security lookup. So `["sub", 9]` with 9 unknown leaves an entry with ref
  count 0, against spec 3 invariant 2 (l. 514).
* **t-only md entries.** Spec 4.E says a tick whose only change is `t`
  sends nothing. The code always sets `t`, so its empty-diff test is dead
  (l. 253).
* **validate_user behind the gate.** The login gate exempts only `login`
  (l. 381). So `validate_user` on a fresh session gets "you must login
  first", while spec 4.F exempts it.
* **`test` of an unknown algo name.** Here `params` is null, so `Spawn`'s
  failure is not reported, and the client gets no reply.
* **`test_algo_tokens_` is never erased.**
* **position echoes the request.** `OnPosition` builds the position record
  in `out` and then sends `j`, the request (spec 8 open question b).
  `QueriesMatchSpec` checks only that a `position` frame is sent.
* **offline fails half-way.** `offline` reads the confirmation seq only
  after it has replayed the algo events and sent `offline_algos complete`.
  A bad seq then throws, after part of the reply has gone out.
* **unsub stops at an unknown id.** `if (it == subs_.end()) return;`
  leaves the whole handler, so `["unsub", 2, 1]` never releases 1. Spec 4.D
  says a missing id is a no-op for that id only (l. 530).
* **the security error text is pointer arithmetic.** `"Invalid security
  id: " + security_id` adds an `int64_t` to a `const char*`. Id 5 is answered
  with `"id security id: "`, and ids past 21 read past the literal (l. 924,
  and the same in `OnPosition`, l. 786). `OrderEntry` models both outcomes.
* **reading a save in progress.** An `algoFile` of another session between
  `saveAlgoFile`'s open and its write gets the empty file (l. 538, 563).
  `AlgoFiles` reaches it, and it has the same cause as `algofile_overwrite`.
* **file names are paths.** `kAlgoPath / fn` takes the client's `fn` as is,
  so `../x` reads, writes or deletes outside the algo directory (l. 536).
* **offline's terminator order.** The terminators go out algos first and
  orders second, the reverse of the order in spec 4.F's table. Spec 8(c)
  says to keep the source order.

### Bounds

These bounds hold for both passing `Session` runs:

* 3 inbound messages.
* Up to 2 external changes and 1-2 engine pushes.
* Timestamps up to 2, one security, one adapter, one owned sub-account.

Three messages are enough for the cases that matter:

* login followed by two subscription steps;
* a repeated login;
* sub, then unsub, then pnl.

Two external changes let the md timestamp move with and without a price
change, and a PnL or connectivity change race a tick. Each passing run takes
1-2 minutes.

`OnOrder` reads no session state except `user_`, so one request per run
covers it (`MaxReq = 1`).

### Fairness

`WF` holds on the handlers and on `TimerFires`. The io_service runs every
posted handler, and an armed `deadline_timer` fires after 1 s. The client, the
engines and the transport get no fairness, because they may stop sending at
any time.

### Deadlock

`CHECK_DEADLOCK FALSE` is set. A closed session with nothing pending really
stops, and so does the bounded environment once its budgets are spent.

## 5. Not modelled

* **SHA-1** is abstracted to a password-matches flag, since hashing is out of
  TLC's reach.
* **JSON text, layout and log lines** are left out.
* **Paths in algo file names** (`/`, `..`): file names are one directory
  level of model values.
* **The external managers** are used only through their contracts.
* **Data races below step atomicity** are not modelled: `user_` read off the
  strand, and `test_algo_tokens_` accessed concurrently. They are listed as
  hazards.
* **Stateless transports** are modelled in two places: the gate's token
  resolution (`StatelessGate`) and how `OnSecurities` frames its reply
  (`Queries`). The rest of `Session` models a stateful transport.
* **What `AlgoManager` and `GlobalOrderBook` do** with a cancel, modify,
  reconnect or stop is outside `src/`. `Queries` records only which call is
  made.
