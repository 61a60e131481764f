# Botragram in TLA+

Botragram is an asynchronous trading bot: one Python process that discovers
opportunities, enters positions on an exchange, keeps them protected with a
stop and a target, and lets an operator steer it from Telegram. This directory
holds TLA+ models of the parts where an error costs money: the LIVE entry
protocol, the control of the runtime that drives it, the operator's exits, the
stop of an open position, and the services around them; the TLC configurations
that check them on small instances; and TLAPS proofs that hold for every value
of the constants.

Source paths below are relative to `src/botragram/`.

## 1. Inventory

| component | state | operations | with whom | hard behaviour |
|---|---|---|---|---|
| Protected LIVE entry `services/execution/live_futures_entry_service.py` | the attempt in hand | `execute`: reserve, sync, POST, look up, acknowledge, store, protect, complete | ledger, position store, protection, venue, runtime gate | unknown outcome of the POST; crash between any two saves |
| Submission ledger `storage/sqlite/submission_attempt_repository.py` | one row per attempt | `reserve`, `save`, `resolve_no_exposure`, `get_incomplete` | SQLite | a save that raises may be on disk |
| Position store `services/position/position_service.py` | one row per symbol | `sync`, `observe`, `save`, `delete` | venue, SQLite | reads trail the venue; rows of closed positions are retained |
| Protection `services/protection/live_position_protection_service.py` | leg ids on the row | `ensure`, `cancel_persisted_legs` | venue | the position closes while its legs are placed |
| Recovery of entries `services/recovery/live_submission_recovery_service.py`, `live_post_entry_recovery_service.py` | none of its own | `recover_incomplete`, `recover_acknowledged` | all of the above | proving absence; emergency exit under one deterministic id |
| Natural exits `services/recovery/live_natural_exit_recovery_service.py` | none | cancel orphans, stage the lifecycle, delete the row | venue, lifecycle store | stops between its steps |
| Portfolio reconciliation `services/runtime/live_runtime_portfolio_reconciliation_service.py`, `services/recovery/live_portfolio_recovery_service.py` | contexts and authorization in the runtime control | `reconcile_context`, `recover` | runtime control | a gate that opens too early |
| Runtime control `app/runtime/runtime_control.py` | active, gate, cycle lock, reservations, contexts, authorization, configuration | `pause`, `resume`, `begin_cycle`, `select_*`, `begin_*`/`end_*` | everybody | several tasks between each other's awaits |
| Trading runner `app/runtime/trading_runner.py` | its loop | `run`, cycle, health, in-process recovery | runtime control, cycle executor | resumes after stale wake-ups; retries |
| Operator exit `services/position/operator_exit_service.py` | durable operation and attempts | request, confirm, cancel, recover | runtime control, venue | background worker beside runner recovery |
| Risk limits `services/runtime/runtime_risk_limit_service.py` | limits | `update` | runtime control | reservation of the runtime |
| LIVE stop management `services/protection/position_protection_manager.py`, with `exchanges/binance/futures_client.py` | pending stop, partial target, quarantine | stepped stop, replacement, partial take-profit, recovery | venue, position store, lifecycle coordinator | crash between pending and promoted; partial executions; unlocked syncs |
| Lifecycle coordinator `services/position/live_position_lifecycle_coordinator.py` | one lock and deletion version per symbol | `lock`, `mark_deleted` | ticks, recovery, natural exit | stale copies of a deleted row |
| Opportunity discovery and LIVE cycle `services/discovery/`, `app/runtime/autonomous_live_cycle_executor.py` | batch offset, claims | universe batch, scan, rank, claim, evaluate, execute | entry, reconciliation, stalking | claim consumed before entry; skipped cycles |
| Setup stalking `services/discovery/setup_stalking_service.py` | setups, paused | register, observe, trigger, reset, consume | scan, cycle, terminal monitor | order of events |
| PAPER trading `services/paper/` | orders, trades, rows; the balance is derived | entries, signal exits, ticks, operator closes | cycles, candles, approvals, operator | one lock, several callers; separate saves |
| Execution authorization `services/execution/execution_authorization_service.py`, `storage/memory/` | bounded list of approvals | prepare, approve, reject, execute | cycle, operator | expiry and pruning beside two decisions |
| Market streams `services/market/live_market_stream_service.py`, `exchanges/*/stream.py` | tasks, owners, subscriptions | start, consume, stop, stop_all | operator, reconciliation | each stop awaits |
| Private account data `app/runtime/live_futures_user_data_service.py`, `services/account/` | cached account, high-water mark | connect, snapshot, events, reseed | exchange | events older than the snapshot; two reads |
| Lifecycle evidence `services/position/closed_position_lifecycle_service.py` | closed lifecycles | match fills to closes | venue trades | completeness of fills |
| Shared connection `storage/sqlite/database.py` | one SQLite connection, its transaction | `execute`, `execute_many`, `transaction` | every task that stores anything | calls of several tasks in one transaction |
| Schema migration `storage/sqlite/migrations.py` | schema and its version | `initialize` | bot and backfill processes | stop within a script; two processes |
| Session switch `app/runtime/market_type_switch.py`, `main.py` at the root of the source tree | staged target, stored choices, one database per exchange | prepare, commit, restart, restore | Telegram, operator exit, runner, settings store | awaits between check, save, acknowledgement and commit; restarts in between |
| Drawdown alert, instance lock, candle sync, backtest, risk and exit engines | small states, or pure | | | boundaries |
| Exchanges, Telegram, strategies, indicators, settings, terminal | transport, rendering, numbers | | | not control state |

`PROJECT.json` lists every component with its files and says which are
modelled; `hazards` there lists, line by line, what is hard to test.

What makes the system correct:

* exposure at the venue is always attended: owned by an incomplete attempt the
  next recovery takes up, or completed with both protection legs live;
* a verdict written on an attempt, of an entry or of an exit, is never
  contradicted by the venue later;
* capacity is never exceeded, although it is checked before the POST;
* the protection gate is open only when nothing is in doubt;
* the trace of a closed position is staged before its local identity is deleted,
  and tells an operator's exit from a natural one;
* only one of a trading cycle, a risk-limit change and an operator exit owns the
  runtime, and entries are sent only for a portfolio exactly authorized;
* an open position keeps a live stop that never loosens, through replacements,
  partial exits and restarts, and what was executed is deducted once;
* recovery gets to an end once faults stop;
* what a repository call reports as written is on disk, whole;
* a recorded schema version, and a process that came up, never claim more than
  the file has;
* in PAPER every lot is paid for and counted, whatever was cut short;
* an approval is executed at most once, a candle is attempted at most once;
* the cached account is never older than what its readiness claims;
* no session runs on one exchange with positions left behind on another, and the
  operator's choices outlive the process.

Not all of these hold. Where one fails, a run shows it or section 5 says so, and
the property that is checked says in its own words what it sets aside.

## 2. Modules

| module | what it is |
|---|---|
| `AttemptLedger` | abstract: what a ledger of attempts promises, of entries and of close orders |
| `LiveEntry` | entry, protection, recovery and reconciliation against an autonomous venue, with crashes, failing calls and a sync of the operator's views |
| `LiveEntryRetry` | `LiveEntry` under the runner's recovery loop with finitely many faults |
| `RuntimeControl` | the runtime control shared by operator, risk-limit change, operator exit and runner |
| `OperatorExit` | a confirmed exit worked off by three tasks, with crashes and a policy switch behind it |
| `StopManagement` | the stop of one position: steps, replacement, partial take-profit, recovery |
| `AtomicStore` | abstract: a store with atomic, durable calls |
| `SharedConnection` | the one SQLite connection and the calls of all tasks on it |
| `SchemaMigration` | bot and backfill bringing the schema up to date, stopping anywhere |
| `PaperTrading` | simulated fills and the balance they add up to |
| `ExecutionAuthorization` | approvals: prepared, decided, expired, pruned, executed |
| `MarketStreams` | ticker streams started, read, stopped and unsubscribed |
| `DiscoveryCycle` | LIVE cycles: batch, scan, stalked setups, claim, evaluation, execution |
| `UserData` | the private account stream, its snapshot and the high-water mark |
| `SessionSwitch` | sessions replaced by ones with another exchange, policy or strategy, and processes that restore the choice |
| `MCEntries` | how positions come about: `LiveEntry`, `DiscoveryCycle` and `PaperTrading`, one in each behaviour |
| `MCReservation` | the two sides of the operator exit's reservation: `RuntimeControl` and `OperatorExit`, one in each behaviour |
| `MCServices` | seven components that keep state of their own, one in each behaviour: store, migration, approvals, streams, account data, sessions, stops |
| `MCLiveEntry`, `MCLiveEntryRetry`, `MCRuntimeControl`, `MCOperatorExit`, `MCSharedConnection` | small instances for TLC |
| `LiveEntry_proofs` | proofs about `LiveEntry`: types, ledger and capacity; then legs, rows and the gate |
| `RuntimeControl_proofs`, `OperatorExit_proofs`, `StopManagement_proofs` | proofs about the module of that name |
| `Storage_proofs` | proofs about `SharedConnection` and `SchemaMigration` |
| `Signals_proofs` | proofs about `ExecutionAuthorization`, `DiscoveryCycle` and `PaperTrading` |
| `Sessions_proofs` | proofs about `MarketStreams`, `UserData` and `SessionSwitch` |
| `Services_proofs` | that the services, the discovery cycle and PAPER trading keep their promises side by side |

`LiveEntry` describes one entry after another with everything that can happen to
it; `RuntimeControl` takes a cycle as one step of its runner and describes who
may run it; `OperatorExit` and `StopManagement` take entries as done and
describe what happens to an open position. Each leaves what the others say as a
free choice of its environment: `LiveEntry` lets the venue close a position and a view
of the operator sync the portfolio at any time, `RuntimeControl` lets an operator exit begin and end at any time,
`OperatorExit` lets a cycle open a position whenever it may run.

### LiveEntry

The runner task calls the entry service, the recovery services and the
reconciliation service one after another, so one variable `pc` says where it is.
An action ends where the code awaits the venue or the database.

* `status` is the table `submission_attempts`, `row` the table of positions
  (with `entry` for `entry_client_order_id` and `legs` for the two client algo
  ids), `staged` the closed lifecycles. These three survive `Crash`.
* `order`, `exitOrder`, `exposure`, `seen` and `leg` are the venue: the state of
  each entry order, the emergency exits it executed, what is open, what position
  reads show, and the protection legs. `Venue...` actions move them at any time.
* Every save may raise, and a save that raises may or may not be on disk
  (`SaveMayFail`, and `row' \in {row, ...}`).
* The POST (`Submit`) and its answer (`SubmitAccepted`, `SubmitRefused`,
  `SubmitUnknown`, `SubmitFails`) are separate, so the order can open, execute or
  die, and the process can die, in between. An answer may be lost whatever the
  order has become.
* `Fail` is what the runner makes of any error: gate closed, paused, recovery.
* A recovery pass that proves nothing changes nothing, so it is a stuttering
  step; those that stop half way are the actions named `...Fails`.
* The operator's views sync the portfolio beside the runner and under no lock:
  the preflight and the confirmation of an exit
  (`services/position/operator_exit_service.py:289-300`) and the switch of the
  market type (`app/runtime/market_type_switch.py:245`). `SyncReads`, `SyncAsks`
  and `SyncSaves` are that call of `PositionService.sync`
  (`services/position/position_service.py:77-146`) with its two awaits: it reads
  every row, asks the venue, and writes whole rows or deletes them, so it may put
  an older row over leg ids and an entry id saved meanwhile. `sync` is what it has
  read; `raced` becomes true when it writes what a sync of the present rows would
  not, or takes an entry's identity away. Bounds: one view at a time, and one such
  race in a behaviour.
* After a race nothing more is said of the rows. The model's runner goes on from
  the stored row, while the code goes on from the `Position` in its hands and
  saves that at the end
  (`services/protection/live_position_protection_service.py:490-495`). What holds
  whatever a view writes is stated without a condition: `VerdictIsTrue`,
  `SingleIncomplete`, `ExposureBounded`, the ledger, and that an open gate means
  no attempt is incomplete. `NoNakedExposure`, `NoOrphanLeg`,
  `StagedBeforeDeletion` and the rest of `GateMeansSettled` speak of the time
  until a race. Without `raced` in it `NoOrphanLeg` fails: see section 5.

### RuntimeControl

The methods of `TradingRuntimeControl` do not await, so each is one step; the
runner (`runner`) is cut at its awaits: woken, inside a cycle before
reconciliation, between reconciliation's read and its authorization, trading,
recovering. The operator's commands, the risk-limit update and the operator
exit happen between any two of its steps. A market stands for the symbol with its
interval, which follow the same rules.

### OperatorExit

`op` is the durable operation, `attempt` its close orders, `request` the
unconfirmed request in memory, `pc` says where each of the three workers is: the
handler of the confirmation, the background worker it leaves when it fails, the
trading runner's recovery. `lock` is the lock of the service. A worker reads the
operation, takes the lock, works off the attempts, then the positions, and
completes the operation; a flat portfolio may hand over to a switch of the
execution policy. Steps end at the awaits.

* `FLATTENING`, `RECONCILING` and `RECOVERY_REQUIRED` are one status of the
  operation, as are the statuses of an attempt whose outcome is open: no
  branch tells them apart.
* A look-up may miss an order that was sent. The code then writes `REJECTED` after
  that one look-up (`services/position/operator_exit_service.py:831-842`); the
  model writes `NOT_FOUND`, the same status told apart by its reason, and the
  order may execute afterwards. The ledger that close attempts implement allows
  for such attempts (`MayMiss` in `AttemptLedger`); the one of entries does not.
* A reservation may raise before its row is committed or after it
  (`ConfirmFails`); a worker may be anywhere when the next request is made.
* `mishaps` is a history variable: `orphaned`, a reservation raised with its row
  on disk, which leaves an operation that nobody works on and that the request's
  end releases the runtime from; `unread`, the last read of a worker raised after its
  operation was over; `overtaken`, a request passed its preflight before that
  read was made. After one of them workers do meet, or work without the
  reservation: `OneWorkerUnderReservation`, `ReleasedIsSettled` and
  `ExitsOnlyConfirmed` speak of the time before. Verdicts, ledger and attribution
  do not depend on it.
* "Overtaken" is allowed because no code excludes it, and is counted as a fault.
  It takes an unusual scheduling: the release of the reservation and the call
  of `get_operation` are one step of the event loop (lines 1010-1021 and 541-550),
  the one `aiosqlite` connection serves calls in the order they are made, and
  a request makes several of them and a round trip to Telegram before it reserves.
* Reads of the venue are true when they are made, but for that miss; what they
  show may be old by the time it is used.
* Telegram handlers run one at a time; the operation's LIVE path only.

### StopManagement

`row` is the stored position, `copy` the one the holder of the lifecycle lock
works on and, between ticks, the one the protection manager keeps; `who` holds
the lock of the lifecycle coordinator, `place` says where. A tick may advance the
stop: the new stop is written down as pending, placed, its predecessor retired,
the new one promoted; or order a partial take-profit. Recovery does what
`ensure` does with a pending replacement; the natural exit clears a closed
position. `sync` is a portfolio sync that does not take the lock: it has read
the rows and will write whole ones.

* One symbol, LONG (SHORT is its mirror image); a stop is its level, which grows
  with the profit locked in; a partial take-profit can always be split.
* Stops are cancelled by the bot only. A POST takes effect when it is sent, or
  never. The stop adapter is that of Binance (`ensure_stop_loss_order`).
* The natural exit is one step (`LiveEntry` has its parts), after which the
  order ids of the dead position may be used again.
* A row that lost its ids is not recovered here; `LiveEntry` has that.
* `raced` becomes true when an unlocked sync overwrites what it did not know of,
  or when recovery takes over the venue's quantity while a partial exit is
  unresolved. `AlwaysProtected` holds of all histories;
  `LiveStopsAreNamed`, `PartialExitAccounted`, `NeverLoosens` and the liveness
  properties are about them until then. No more trouble follows.

### SharedConnection and SchemaMigration

`SQLiteDatabase` holds one `aiosqlite` connection. `_connection_lock` guards only
`connect` and `close`; a call awaits after each request, so requests of several
tasks interleave on the connection. SQLite has one transaction per connection:
`view` is what the connection sees, `disk` what is committed, `open` whether it is
inside a transaction. A statement opens one if none is open (the driver's legacy
mode), `BEGIN` inside one raises, `commit` and `rollback` end it for everybody.
The history variable `overlapped` says whether a call has begun while another was
under way. `LiveEntry` and `RuntimeControl` take saves as atomic, which is what
holds until calls overlap and what `SerialCallsAreAtomic` proves.

`executescript`, which runs a migration, commits before it starts: each statement
then takes effect on its own. `applied` is the set of statements in effect,
`recorded` the table `schema_version`; `Once` are the `ALTER TABLE ... ADD COLUMN`
statements, which fail when repeated. The bot holds the instance lock, a backfill
does not, so both may migrate one file (`main.py` at the root of the source tree).

### The services

Seven components share no state and no lock: the store, the migration,
approvals, streams, account data, sessions, and the stops of a position.
`MCServices` composes them: `part` is chosen at `Init`, only that component runs,
and the others stay as they started, so one run checks each of them with its
callers, failures and restarts, and no product of their state spaces is built.
`MCEntries` does the same for `LiveEntry`, `DiscoveryCycle` and `PaperTrading`,
`MCReservation` for the two sides of the exit's reservation.

* `PaperTrading`: an entry, a signal exit, a tick and an operator close are
  fills; the holder of the service's lock saves order, trade and row one after
  another, and any save may be the last (`cut`). The balance is what the stored
  trades and rows add up to, as in the code. One unit per lot, long,
  unleveraged, one strategy. A close cut between its trade and the deletion of
  the row is closed again later, which `LotsAccounted` sets aside.
* `ExecutionAuthorization`: PAPER with human confirmation. `kept` is the bounded
  list of the repository; expiry is computed when the list is read; approval and
  execution are two steps. `prepare()` without the check for an equivalent
  pending one is used by no caller.
* `MarketStreams`: a stream is a task with a queue; a stop cancels, awaits,
  unsubscribes and gives up ownership, with other steps in between. `Within`
  says which name is part of another, `Announces` whether a lost subscription
  ends its stream: Bybit's adapter has `FALSE`, Binance's and Bitget's
  unsubscribe exactly. `collided` is a history variable: two stops
  worked on one symbol at a time. Every caller of `start()` looks first whether the
  identity is owned, so that its answer to a second start (lines 181-188) is
  reached by none of them and is left out.
* `DiscoveryCycle`: the cycle up to the execution, which `LiveEntry` has. What a
  candle shows (confirmation, invalidation, a signal) is chosen; claims are on
  disk, setups in memory. `paused` is driven by the cycle and by the terminal
  monitor from what each sees. A symbol is dropped from the scan, observed or not,
  for too few candles or an error of its strategy. The pruning of old setups is
  left out.
* `UserData`: one symbol; an event carries the balance and, if a trade changed
  it, the position, as Binance sends it; Bybit's stream
  (`exchanges/bybit/stream.py:346-441`) sends wallet and position as events of
  their own, between which the cache is `mixed` too. A connection that fails before
  the first snapshot is tried again (`retrying`) or ends `start()`. `mixed` is a history variable: the cache once held parts of
  the account of two different times, which a fill between the two reads of a
  snapshot does.
* `SessionSwitch`: `switch` says where each of the two switchers is, the Telegram
  handler and a finished operator exit: the checks, the save, the staging, the
  acknowledgement and the commit are steps. `boot` is the session: its place, its
  settings, those `main()` keeps, its database. A database is named by the
  exchanges it was scoped with one after another, because
  `get_scoped_database_path` scopes the path it is given. `told` and `asked` are
  history variables: the last choice acknowledged and in which database it is,
  and what was asked for since. So are `rushed` (the runtime was activated while
  its exchange was being switched) and `astray` (a process came up on an exchange
  nobody was told of). The market type is left out: it follows the rules of the
  exchange without changing the database. Of the conditions of a policy switch
  the empty contexts, the open gate and the missing incomplete attempts are one:
  the runner is not recovering. That a start cannot read its database is left
  out; the second save of `main()` always fails, as its provider is closed.

### Abstractions

* One side per symbol, and no positions other than the bot's: adoption of a
  foreign position and legs placed by others are left out.
* Protection ids carry the entry they were minted for.
* In `LiveEntry` position reads are monotone snapshots: `seen` is some earlier
  value of `exposure` (`VenuePublishes`).
* An exit or a leg takes effect at the venue when it is posted, even if its
  answer is lost; an entry order may take effect at any later time.
* Rows of old databases without an entry id never name protection ids, so the
  correlation of legacy rows is not taken.
* Each statement of `SharedConnection` writes one row of its own; reads are left
  out, as they change nothing.
* Leverage settings, telemetry and the single-context startup of older
  databases are not in `RuntimeControl`.

## 3. What is checked

| run | instance | properties | result |
|---|---|---|---|
| `live_entry` | entries: two attempts on one symbol or on two, capacity 1; cycle: two ranked symbols in batches of one; PAPER: two symbols, three times | LIVE: `VerdictIsTrue`, `NoNakedExposure`, `ExposureBounded`, `GateMeansSettled`, `NoOrphanLeg`, `StagedBeforeDeletion`; cycle: `OneAttemptPerCandle`, `TakenIsFinished`; PAPER: `LotsAccounted`, `EntriesAreNew` | holds, 2.8 million states |
| `live_retry` | two attempts on one symbol, capacity 1, one fault, fair | `ImplementsLedger`, `AcknowledgedConverges` | holds |
| `live_lost` | two attempts on one symbol or on two, capacity 2 | `FilledEntryAccounted` | violated, see findings |
| `reservation` | control: 2 markets, 2 strategies; exit: 2 symbols, 2 close orders, 1 fault, 1 crash | control: `OneOwner`, `TradesUnderExactAuthorization`; exit: `OneWorkerUnderReservation`, `ReleasedIsSettled`, `ExitsImplementLedger`, `ExitsOnlyConfirmed`, `ExitIsAttributed` | holds, 2.5 million states |
| `runtime_abandoned` | 2 markets, 2 strategies | `RecoveryNotAbandoned` | violated, see findings |
| `exits_late` | 1 symbol, 1 close order | `ExitVerdictIsTrue` | violated, see findings |
| `exits_abandoned` | 1 symbol, 2 close orders, 1 fault, fair | `ConfirmedWorkEnds` | violated, see findings |
| `services` | seven components, one per behaviour; account data and stops fair; stops: 4 ids, 3 levels, quantity 3 with a slice of 2, 2 troubles | `ServicesTypeOK`; store: `ImplementsStore`; migration: `VersionTellsSchema`; approvals: `ExecutedOnce`, `PendingSurvives`; streams: `StreamsOwned`; account: `ReadyIsCurrent`, `MarkWasReached`, `UserDataComesBack`; sessions: `NothingLeftBehind`; stops: `AlwaysProtected`, `LiveStopsAreNamed`, `PartialExitAccounted`, `NeverLoosens`, `ReplacementEnds`, `PartialExitEnds` | holds, 630,000 states |
| `stops_stuck` | stops as above, no trouble, fair | `EveryReplacementEnds` | violated, see findings |
| `stops_double` | stops as above, 1 trouble | `DeductedOnce` | violated, see findings |
| `streams_other_symbol` | as `services`, one name part of the other | `OthersUndisturbed` | violated, see findings |
| `shared_lost` | 2 writes, 2 transactions, overlapping | `ReturnedIsDurable` | violated, see findings |

The type invariants of `LiveEntry`, `RuntimeControl`, `OperatorExit`,
`DiscoveryCycle` and `PaperTrading`, and the invariants that no run lists
(`SingleIncomplete`, `ResolvedIsClosed`, `CycleSettingsStable`,
`QuietMeansCommitted`, `BootedChoicesSurvive`, the parts of `Exclusion` and
`ExactAuthorization`), are proved instead, for every value of the constants.

Bounds. In `LiveEntry` `Budget` is the code's own number: two look-ups of an
ambiguous POST (`_RECONCILIATION_MAX_ATTEMPTS`) and two submissions of an
emergency exit (`_EMERGENCY_EXIT_PRICE_BAND_MAX_SUBMISSIONS`). Two attempts on a
symbol are enough for a row to be handed from one entry to the next; two
symbols with capacity 1 make the late order of the first entry compete with the
second. `live_entry` has both pairs (`unused` is the third attempt, which a
behaviour never makes). `live_retry` has the pair on one symbol, and its one fault
may be a crash, a failing call or a view of the operator. Two markets give
portfolios of none, one and two contexts, which the code treats differently; `reservation` takes
markets and strategies to be interchangeable (`Interchangeable`), which they are,
and checks no liveness under that symmetry. `OperatorExit`: two symbols tell a
single exit from one of the whole portfolio, two close orders let a rejected one
be followed by another; when they are used up no further request is made.
`StopManagement`: `MaxId` 4 gives an initial stop, a pending one, the one that
replaces a refused one and the stop of a second position; two advances (`Top` 2)
let the second meet what the first left; a slice of 2 can be executed in part;
`MaxTrouble` counts failing calls, crashes, cancelled ticks and unlocked syncs
together. The store: one single write and two transactions of two statements
let a write fall before, between and after the statements of a transaction, and
leave another to find what they left. Migration: three scripts, columns in the
second, a backfill that knows two of them, three halts (`MaxHalts`). PAPER: two
symbols, three times, two prices, a capital that pays for two lots, one fill cut
short. Approvals: three candidates for two places (`MaxKept`). Streams: three
streams over two symbols and two stoppers. Cycle: two symbols in batches of
one, three candles, setups observed for two. Account: three changes, one outage.
Sessions: two exchanges, policies and strategies; three switches, so that one can
go to an exchange and back; two starts, one failing save or message.
The proofs need no bounds.

Fairness. The safety properties need none.

* `live_retry`: the runner keeps taking steps (its recovery loop retries with a
  bounded backoff until stopped, `app/runtime/trading_runner.py` 1046-1085),
  position reads catch up, and after finitely many faults (`MaxFaults`) a call
  that can succeed does. A failure the code is forced into (a position that is
  not visible yet) is not counted as a fault and may happen without bound.
  Nothing is assumed of order executions, exits or closes at the venue. Two
  things are set aside by name: a row that has kept an executed leg of an earlier
  entry of its symbol (`KeepsEarlierLeg`), on which recovery raises each time
  (see `live_lost` in section 5), and a row upset by a view.
* `exits_abandoned`: a worker that can take a step takes it, as does the runner and
  the preflight of a request (they are tasks of the event loop that only wait
  for answers), and the venue takes the orders it was sent. Nothing is assumed of
  the operator. The run shows that even so confirmed work may rest.
* `services`, stops (and `stops_stuck`): a holder of the lifecycle lock goes on
  (`Work`), the ticks come again (`TickResumes`), the runner recovers what is
  quarantined (`Recover`), and the venue fills a partial take-profit it has not
  cancelled (`VenueFills`).
* `services`, account data: the service goes on: it connects, reads and applies,
  and reconnects after a loss (`Service`); outages are finite (`MaxOutages`). A
  `start()` that ends with its error is set aside: nothing in the service calls
  it again.

`CHECK_DEADLOCK FALSE` where components come to rest at their bounds: when all
attempts, requests or orders are used, when a connection's calls have all ended,
when clocks and candles have run out (`live_entry`, `live_retry`, `reservation`,
`exits_late`, `exits_abandoned`, `services`, `streams_other_symbol`,
`shared_lost`, `stops_stuck`, `stops_double`). The control side of `reservation`
never rests, which `runtime_abandoned` checks along with its property.

## 4. What is proved

Every safety property that a passing run checks is a theorem, for any sets of
attempts, symbols, markets, calls, processes, orders, candidates and databases
and whatever the bounds; so are the refinements of `AttemptLedger`, by entries and by
close orders, and of `AtomicStore`. Each rests on an inductive
invariant, which TLC checked on the instance before it was proved. In most cases
the property itself is not inductive; what has to be added, and why, is below.

Assumptions on the constants are those the modules name. Besides types, finite
bounds and non-empty sets they are:

* `NoId` is not an attempt, each attempt has a symbol, the capacity is positive.
* `KeptAssumption`: the capacity of the approvals is positive (the service
  refuses another one).
* `MoneyAssumption`: PAPER knows finitely many symbols, and prices, fee and capital
  are integers, which is what makes the balance, a sum over stored lots, a number.
* `UniverseAssumption`: the ranked universe is a sequence that is not empty, a
  batch fits in it.
* `ChoiceAssumption`: there are two policies at the most, as in LIVE mode, where
  `app/settings/settings_manager.py:1655-1700` admits the autonomous policy and
  that of a single symbol. With three, two switchers could ask for different
  policies and `ChoicesSurvive` would have to say more of `asked`. No value
  of a choice is the mark for "not chosen".

No theorem has a hypothesis besides these: what the code does not guarantee is in
the model, and what a property sets aside is in the property (`raced`, `mishaps`,
`collided`, `mixed`, `rushed`, `astray`, `overlapped`, what was `cut`, an attempt
given up as missing). `StreamsOwned` has for instance no need of symbols whose
topics are apart: the owned task is the live one in any case, and that it hears
its symbol is said of symbols found in no other's topic.

`LiveEntry_proofs` is laid out in layers, each using the ones before:

1. Types: `TypeInv` is `TypeOK` with what each `pc` says of `cur`,
   `tries` and `missing`. `cur` must be known to be an attempt before any
   record it indexes has a type. What a view has read keeps the types of rows
   and attempts.
2. Ledger: `LedgerInv` adds that the attempt in hand is the sole
   incomplete one and what the venue may know of its order at each `pc`. Neither
   `SingleIncomplete` nor `VerdictIsTrue` is inductive without it: a save is
   right only because of what was learned before it. `SyncInv` says that a view
   has seen executed entries only, so that what it writes is a row of an entry.
   Each step is shown to be a step of `AttemptLedger` or a stutter, which gives
   `Implementation`. None of it needs a row, so none of it is lost in a race.
3. Capacity: the sum of what is seen and what may still execute stays
   within the capacity. `BoundedExposure` follows although no step compares
   `exposure` itself with the capacity.
4. Protection, until a race: `Protection` relates rows, legs and exposure: an
   exposed entry that is not in hand is completed and protected, every live leg
   is named by its row, and absence proved in recovery means that nothing is
   open. It gives `AttendedExposure`, `NamedLegs`, `ResolutionIsTrue` and
   `SettledGate`; `StagingFirst` is the action property proved from it.

`RuntimeControl_proofs` strengthens the properties with the agreement of the
runner's place with the cycle lock, the paused state of every reservation, and
the plan of a trading cycle. `Exclusion` and `ExactAuthorization` state each of
the two run properties together with what it rests on.

`Storage_proofs`, the connection: an open transaction always has a call that will end it
(`OpenIsAttended`), which gives `NothingLeftOpen` for overlapping calls.
Until calls overlap, `SerialInv` adds that the one call under way is alone and
that the connection shows the disk with exactly what that call wrote; then its
commit is one step of `AtomicStore` and everything else a stutter or a failure.

`Storage_proofs`, the schema: `VersionTellsSchema` alone is not inductive.
`SchemaInv` adds that some version is the latest (`HasLatest`), which makes the reading of the
version well defined, and what a process has behind it when it stands at a
statement (`ProcessIsOnTop`): every script before it and every line of its own
before that place is in effect, since no statement is ever undone.

`StopManagement_proofs`: `AlwaysProtected` says that some stop covers the position;
it is lost when the wrong one is cancelled. `IInv` adds what stands in for a
predecessor that is about to go (`Succeeded`: its successor is live with the
same quantity, or, if that fired, another stop is larger or nothing is open), that
no stop is its own successor in the row, in the manager's copy or in what a sync
is about to save (`Distinct`), and that working partial exits have something to
reduce (`SlicesFit`). Nothing in it needs the row to be current, which is why a
sync without the lock cannot uncover the position. The proof has one lemma per
action of `Next` over two lemmas on how work under the lock ends.

What the row says of the venue is a second invariant, `Books`, kept until
`raced`: whoever holds the lock has the row in hand (`Owned`), the row names every
live stop at its level and quantity (`Names`), no live stop is smaller than the
position (`Sized`), and quantity, exposure and the one unresolved partial exit add
up (`Accounts`). `LiveStopsAreNamed` is lost in a state in which the row is right
and the copy in hand is not, so neither is inductive without the other.
`NeverLoosens` follows from it step by step: a stop is cancelled only when the
one that is pending is tighter and live.

`OperatorExit_proofs`, over its types (`TypeInv`), which have the lock held by the
worker inside an operation:

1. `Ledger`, from the types alone: whoever holds the lock is the only one to touch
   an attempt, so one attempt is open at a time, a worker knows what became of the
   order of its attempt at each place it stands, and a verdict is true when it is
   written. It stays true, since what was refused is dead; of an attempt given up
   as missing nothing is said. `CompletedExecuted` is read off it.
2. `ExitsLedger`: each step is one of `AttemptLedger` or a stutter. An order that
   executes is that of the open attempt or of one given up as missing
   (`AttemptTaken`).
3. `Attribution`: what a close order has closed is staged, or its attempt is still
   open and somebody will look it up, or it was given up as missing.
   `AttributedExits` needs it at the one step where the row goes; it rests on
   `Ledger` only.
4. `Ownership`, until a mishap: what is requested but not confirmed has nobody at
   work and holds the reserved, paused runtime; an open operation has one worker
   at the most, and the runner does not recover meanwhile.
   `OneWorkerUnderReservation` says less than it takes: a second worker would
   come from a request or a recovery that began before the first one was done.
   Each of the three mishaps is a step that breaks it, and no other does.
5. `Commissioned`, from 1 and 4: an open attempt belongs to the open operation and
   to a confirmed symbol. `ReleasedSettled` and the action property
   `SentConfirmed` follow.

`Signals_proofs`:

* `AuthorizationInv`: identities are not repeated among what is kept, and of the
  chances to execute one authorization a single one is left: pending, due, or
  executed (`OneChance`). Pruning keeps the order and what is pending
  (`Thinned`), which `PendingStays` uses too.
* `CycleInv`: what was never claimed was never attempted (`Attempts`); a setup under
  observation has a bar left; what the scan is done with was swept (`Sweeping`);
  a paused stalking has no setup (`Hushed`). `OneAttempt` holds over restarts
  because a claim is on disk before the attempt.
* `PaperInv`: which of the saves the fill in hand has done (`InHand`), that
  an order is stored before what follows from it (`Ordered`), and what becomes of
  a lot, with the fill in hand set aside (`Kept`). The property speaks of a
  free lock only, so it is not inductive. For the balance, `Paid` says that
  an entry in hand can still be paid for, since nobody else fills meanwhile, and
  `Money` that the sums behind it are over finite sets of integers. Such a sum is a
  recursive function: that it exists (`SumExists`, by the least size at which it
  would not, `LeastIn`), is an integer (`SumIsInteger`) and changes by what one
  element changes (`SumChanges`) is proved from that. `EntriesPaidAndNew` is the
  whole property.

`Sessions_proofs`:

* `StreamInv`: a stopper that is not done holds what it stops, and two of them
  are never at one symbol, until `collided` (`Held`). A removed subscription
  silences only streams whose topic contains the symbol's name, so a stream that
  is apart is deaf only when its own stop made it so.
* `UserInv`: the events of an open session are contiguous up to now (`Announced`);
  what was read is the account but for what they will still change (`Read`); every
  equity announced was one the account had (`Reached`). `ReadyIsCurrent` is about
  an empty buffer and says nothing of the states before.
* `SwitchInv`: the coordinator's target is that of the one switcher that has staged
  it (`Staging`); what is asked for is neither what there is nor forgotten
  (`Pending`); from the check of the positions on nothing is open on an exchange
  that is left (`Behind`); what the operator was told is stored (`Chosen`). That is
  what `ChoiceSurvives` rests on, which proves `BootedChoicesSurvive`.

`Services_proofs`: `Together` is the conjunction of six specifications (connection,
schema, approvals, streams, account data, sessions), that is, all of them at any
pace. `ServicesKeepSafe` and `ServicesStep` say that what was proved of each, and
of the discovery cycle and PAPER trading, holds of all at once; `Composition`, that
`MCServices`, which runs one component in a behaviour, is a special case, and has
the stops of `StopManagement` take their own steps. The argument is that they
share no variable; what they assume of each other is in their environments.

Only model-checked are the liveness properties `AcknowledgedConverges`,
`ReplacementEnds`, `PartialExitEnds` and `UserDataComesBack`: they need fairness
and `ENABLED`, out of the prover's reach. The properties of the runs that expect a
violation are of course not proved.

## 5. Findings

* **The row of a closed entry is overwritten** (`live_lost`,
  `services/execution/live_futures_entry_service.py:431`). A completed position
  closes at the venue; its row is retained for natural-exit reconciliation. If
  the next entry of the symbol reaches `execute` in the same cycle, the portfolio
  check sees the symbol free, the row gets the new entry's identity with the old
  protection ids, and the closed lifecycle is never staged. If the leg that closed
  the first position is among those ids, `ensure()` raises on the executed leg
  in every recovery (`services/protection/live_position_protection_service.py:913-917`),
  without any fault: `AcknowledgedConverges` fails when `KeepsEarlierLeg` is
  dropped from it.
* **Recovery is given up under a reservation** (`runtime_abandoned`,
  `app/runtime/trading_runner.py:1123`). `resume()` raises while a risk-limit
  change or an unconfirmed operator exit holds the runtime; a successful recovery
  then counts as a fatal error and the runner's loop ends.
* **A close order given up as failed executes** (`exits_late`,
  `services/position/operator_exit_service.py:831`). A POST is left unanswered, one
  look-up does not find its order, the attempt is `REJECTED`, the operation
  `FAILED` and the runtime released; then the order executes. Line 1233 calls
  this end a proven failure without execution.
* **Confirmed work rests until the next start** (`exits_abandoned`,
  `services/position/operator_exit_service.py:536`). When the save inside the
  error handler of a background worker raises too, or its read, the worker ends;
  line 508 promises to recover confirmed work indefinitely.
* **A returned write is not on disk** (`shared_lost`,
  `storage/sqlite/database.py:174`). A failing call rolls back what another task
  wrote and has not committed, and that task's `execute` still returns. Candle
  writes, retention, runtime settings and the submission ledger all use the
  connection.
* **A stop gets stuck after a partial take-profit** (`stops_stuck`,
  `exchanges/binance/futures_client.py:1054`). The predecessor still has the whole
  quantity, its exact validation refuses it, so the replacement stays pending, the
  tick is quarantined and every recovery fails on the same order.
* **A partial exit is deducted twice** (`stops_double`,
  `services/position/position_service.py:103`). A sync takes over the venue's
  quantity while a partial take-profit is unresolved; its verified fill is then
  deducted from the reduced quantity.
* **A stop of one stream silences another** (`streams_other_symbol`,
  `exchanges/bybit/stream.py:361`). Subscriptions are found by substring:
  stopping `OMUSDT` removes those of `ATOMUSDT`, whose task waits for ever while
  its state says running (`services/market/live_market_stream_service.py:275`
  promises the opposite).

Observations, which no run checks. Two of them contradict a document of the
repository, and the promise is stated as a property of the module all the same
(`MigrationIsAtomic`, `ChoicesSurvive`):

* A write of another task commits the first half of a transaction that then
  fails (`storage/sqlite/database.py:308`; `ImplementsStore` holds until calls
  overlap).
* Stopping between an `ALTER TABLE` and the record of its version leaves a file
  on which every later start fails (`storage/sqlite/migrations.py:678`). Line 676
  says that a migration is applied transactionally; `MigrationIsAtomic` in
  `SchemaMigration` states that and fails.
* A setup that triggered and was not reached by its cycle stays triggered, and
  its symbol is not stalked again before a restart or a pause
  (`services/discovery/setup_stalking_service.py:581`; `TriggersExpire` in
  `DiscoveryCycle` states what its comment expects, no run checks it).
* In PAPER a close whose row could not be deleted is counted again by the next
  close of that row (`services/paper/paper_trading_service.py:760`).
* A fill between the two reads of a snapshot can raise the stored high-water
  mark above every equity the account had
  (`app/runtime/live_futures_user_data_service.py:302`).
* An operator exit whose reservation is refused leaves the runtime paused with
  nobody to resume it (`services/position/operator_exit_service.py:344`).
* After the exchange was changed, choices are saved in a database scoped with both
  exchanges, while a start reads the one of the environment's exchange
  (`main.py:378-409`): a policy chosen there is gone after a restart, and so is a
  change back to the first exchange. Line 31 of the repository's `README.md`
  promises that the choice of strategy and the runtime configuration are not
  lost at a restart or crash; `ChoicesSurvive` in `SessionSwitch` states that of
  every choice and fails. What does hold, `BootedChoicesSurvive`, is proved.
* A choice is on disk before it is acknowledged: when the save, the staging or
  the message fails, the operator is told of a failure and the next process
  comes up with the choice (`app/runtime/market_type_switch.py:292`). If that was
  another exchange, a position opened since is left behind (`astray`).
* A target whose acknowledgement failed stays staged, so every later switch saves
  and then raises (`app/runtime/market_type_switch.py:125`).
* The in-process recovery may activate the runtime between the checks of an
  exchange switch and its commit, and an entry of that cycle is left behind on the
  old exchange (`app/runtime/market_type_switch.py:288`; `rushed`).
* What `main()` saves of a restart is never saved: the provider it asks is closed
  (`main.py:494-508`).
* A sync of the operator's views can put back the row it has read over that of an
  entry just completed: the legs stay live and no row names them, and the entry's
  identity is gone (`services/position/operator_exit_service.py:289`). Drop `~raced`
  from `NoOrphanLeg` or `NoNakedExposure` and TLC shows it.
* An unlocked portfolio sync can undo the promotion of a stop: drop `~raced` from
  `LiveStopsAreNamed` and TLC shows it (`services/position/position_service.py:91`).

## 6. Plan

Left, in order of what could be lost:

1. That `RuntimeControl`'s view of an operator exit is what `OperatorExit` does, and
   its view of a cycle what `LiveEntry` does, as refinements.
2. Bybit's separate events of wallet and position in `UserData`, and the runner's
   own copy of a position after a race in `LiveEntry`.
3. Closed-lifecycle evidence: which fills make one exact close.
4. The backtest's replay against the PAPER rules; position exit and risk
   sizing as pure rules against reference definitions.
5. Candle synchronisation, the instance lock of two processes, the
   drawdown alert, backoff; the PAPER loops of the trading runner.

Not planned: exchange transport and payload parsing, rendering (Telegram and
terminal), indicators and strategies (numerical, no control state), settings
validation and wiring.
