# Kryptos: a TLA+ model of the trading core

Kryptos is a paper-trading service: users open leveraged long and short
positions on crypto pairs at Kraken's last price, close them, are liquidated
when their margin is spent, and get a fresh account when they are bankrupt. The
authoritative state is in PostgreSQL; Redis holds caches and a position index;
one asyncio process serves HTTP and WebSocket clients and runs the background
streams. `docs/SPEC.md` lists twelve financial invariants. This directory
models the code that has to keep them, and says which of them it keeps.

## 1. Inventory

### Backend (`backend/app`)

| Part | State | Operations | What makes it correct, and what is hard |
|---|---|---|---|
| `positions_math.py` | none | size, P&L, margin, liquidation price, settlement | size within notional; the liquidation price, rounded once at open, agrees with equity and margin, rounded at every mark |
| `positions.py`, `routers/positions.py` | `users.cash_balance`, `positions`, `ledger_entries` | `open_position`, `close_position`, `settle_position` | invariants 1, 2, 3, 5, 7; concurrent requests, retries, row locks, a session that caches rows, failures between a commit and the Redis call after it |
| `bankruptcy.py` | the same rows | `maybe_reset_bankrupt_account`, `check_and_broadcast` | invariant 12; a gate without locks followed by a decision with them |
| `account.py` | none | `get_account_snapshot` | equity = cash + collateral + P&L; a missing price counts as no P&L |
| `position_index.py` | Redis sets `positions:open:<pair>` | add, remove, reconcile | an open position is a liquidation candidate; written outside the transaction, rebuilt by replacement |
| `price_stream.py` | backoff, the tick being handled | `handle_tick`: cache, broadcast, liquidate, revalue | every crossed position is liquidated; Redis outages, slow locks, reconnects |
| `market_data/cache.py`, `pricing.py` | Redis `price:<pair>` with a TTL | read-through fetch, freshness check | invariant 10: no cash moves at a price older than 10 s; fetches race ticks |
| `market_data/kraken.py` | none | REST and WebSocket client of Kraken | parsing of an external protocol |
| `candle_stream.py`, `market_data/candles.py`, `routers/candles.py` | Redis forming bar and history per pair and interval | bucket roll, backfill, merge | no bar lost or overwritten by an older one; two writers of one key, a shared history trimmed to one caller's limit |
| `leaderboard.py` | Redis sorted set and previous ranks | `update_score`, `rebuild`, read | ranks converge to equity; a rebuild in several commands beside single updates |
| `ws_manager.py`, `routers/ws.py` | connections per user | connect, push, drop | a client's view comes to be its account; the first snapshot and pushes interleave at every await |
| `routers/auth.py`, `verification.py`, `security.py`, `deps.py` | sessions, e-mail tokens | register, login, logout, verify | a token is used once, within its life |
| `rate_limit.py` | Redis counters | INCR, EXPIRE | at most `limit` per fixed window; a lost EXPIRE must not shut anybody out; fails open |
| `main.py`, `config.py`, `keepalive.py`, `mailer.py`, `redis_client.py`, `db.py` | settings, engine | start-up, middleware, ping, mail | glue |

The parts meet in four ways. HTTP handlers and the price stream call the same
`close_position`. Everything that moves cash meets in the row locks of
PostgreSQL, always user first and positions second. The price stream learns of
open positions only through the Redis index, which opens and closes write after
their commit. And a request's handlers share one SQLAlchemy session, so a row
that `get_current_user` has loaded is the object `open_position` gets back.

### Frontend (`frontend/src`)

`core/realtime` keeps one WebSocket with reconnect and backoff and feeds the
stores of `core/state`, which coalesce messages to one render per frame.
`core/auth` logs in and out and clears the stores. `trade/PositionTicket.tsx`
owns the idempotency key of an order: minted at submit, kept over a 503,
dropped on an answer or any other error. `core/lib/money.ts` previews size and
liquidation price. The rest renders.

### Not part of the model by nature

`alembic/` repeats the schema, `benchmarks/` and `scripts/` are tools, `infra/`
and the Docker files deploy. `tests/` served as a second reading of the code.

## 2. Modules

| Module | What it is |
|---|---|
| `PositionsMath` | the arithmetic, over integers counted in the code's quanta |
| `PositionsMath_proofs` | facts of the arithmetic for every input |
| `PositionsMathMC`, `PositionsMathMC_proofs` | one position and the marks it meets: for TLC, and proved for every input |
| `Account` | abstract specification: an account changes by whole transactions |
| `Trading` | the tasks that execute those transactions, await by await |
| `Trading_proofs` | the invariants of `Account`, what `Trading` keeps of its atomicity, and the invariants of `Trading`, for every instance |
| `LiquidationEngine` | the price feed, the tick handler, the Redis index with reconcile and outages |
| `LiquidationEngine_proofs` | scans are complete, and a tick that runs to its end has reviewed the liquidated, for every instance |
| `Candles` | the forming bar with its two writers, and the history with its time to live |
| `Candles_proofs` | how far a broadcast may step back, and what a history lacks, for every instance |
| `Intents` | abstract specification: what a user may expect of ticket and server together |
| `Orders` | the position ticket, its requests, and the server's decisions about keys |
| `Orders_proofs` | `Orders` implements `Intents`, for every instance |
| `Views` | the leaderboard and the clients' account views, beside the accounts they show |
| `Views_proofs` | types, and only verified accounts rank, for every instance |
| `Accounts` | registration, sessions, verification links, the rate limiter |
| `Accounts_proofs` | links and addresses confirmed once and rightly, and the limiter's promise, for every instance |
| `TradingMC`, `LiquidationEngineMC`, `CandlesMC`, `OrdersMC`, `ViewsMC`, `AccountsMC` | small instances for TLC |

`Trading` EXTENDS `Account`, which EXTENDS `PositionsMath`; the concrete
actions use the abstract module's write operators (`RecordOpen`,
`RecordClose`, `RecordReset`), so what is to be shown is that the guards and
the values they are applied to are those of the atomic transactions. The other
modules meet these at a commit: `LiquidationEngine` and `Views` take a close, an
open or a reset as one step, which is what `Trading` shows it to be, and add
what happens before and after it; `Orders` keeps of an open only what decides
about keys.

### PositionsMath

A quantity is the integer number of its quanta: cents, price quanta (1e-8),
size quanta (1e-10). `Scale` size-price units make one cent: 10^16 with the
real quanta, 1 or 100 where TLC enumerates. `HalfUp` is Decimal's
ROUND_HALF_UP. Decimal's 28 significant digits between two roundings count as
exact. The `maintenance_margin_rate` is `MmrNum / MmrDen`.

### Account

`cash`, `pos` (a row or `None` per id) and `ledger` (per user, in commit order)
are the three tables. `Open`, `Close` and `Reset` are the three transactions,
each with all its conditions on the rows as they are when it commits
(`OpenFrom` is an open that holds some other balance, as `ServiceNext` of
`Trading` allows). The
unique constraints are `KeyUsed` and `PairOpen`. A row keeps the columns that
some decision or property reads: owner, key, pair, side, leverage, collateral,
entry, size, liquidation price, status, reason and closing price; fees and
realized P&L are functions of those, and timestamps and the ledger's symbol and
quantity are left out.

### Trading

A task is one run of `open_position`, `close_position` or
`maybe_reset_bankrupt_account`. asyncio switches tasks only at an await, so an
action is a stretch between awaits:

| Program counter | Code it stands before |
|---|---|
| `lookup`, `price` | `open_position`: SELECT by key; ticker, tradability, size |
| `lock_user`, `insert` | SELECT user FOR UPDATE; cash check, clash check, flush, debit, entry, commit |
| `index_add` | SADD |
| `mark` | `close_position`: the price of a user close |
| `close_lock_user`, `close_lock_position`, `settle` | the two locked reads; status check, settlement, commit |
| `gate` | reset: snapshot and comparison with the floor |
| `reset_lock_user`, `reset_lock_positions`, `decide` | locked reads; re-valuation, commit or rollback |
| `index_remove` | SREM, one per closed position |

A row lock is held exactly between the locked read and the commit or rollback,
so the locks are functions of `pc` (`HoldsUserRow`, `HoldsPositionRow`) and
need no variable. `seen` is the balance in the session's identity map: a locked
read refreshes it in close and reset, which say `populate_existing`, and not in
open, which does not. `AuthLoadsUser` says whether the session already holds the
User when `open_position` starts: TRUE for the HTTP route, FALSE for the tests
and benchmarks, which pass a session of their own. With `MayFail` a task may die
at any await (rollback, nothing more is done) and Redis may miss a write (the
error is logged and swallowed). The insert in `OpenCommit`, from the cash check
to the commit, is one action because the user row is locked and every other
writer of that user's rows needs that lock. A tick is represented by what comes
of it: `LiquidationRequest` picks an open, crossed position and a price; the
position is in the index, or Redis was out and PostgreSQL was asked. Prices are
otherwise arbitrary at every read.

`ServiceSpec` is what the deployed service keeps of `AccountSpec`: whole
transactions, in which a close and a reset read the rows as they are, and an
open debits some balance its account has had, not necessarily the latest.

### LiquidationEngine

`status` is the positions table, `index` the Redis set of one pair, `queue` the
frames in the feed's socket, `tick` the locals of `handle_tick`, `refresh` those
of `reconcile`. The stream awaits the handler before it reads on, so ticks are
handled one at a time:

| `tick.pc` | Code it stands before |
|---|---|
| `idle` | the next frame; `HandleTick` writes the price cache, and a Redis error there leaves the handler and drops the feed |
| `candidates` | SMEMBERS, or the query of PostgreSQL when Redis errs |
| `rows` | the scan of the candidates' rows |
| `close` | one `close_position` per crossed position, each of which may raise, and its SREM |
| `revalue` | one snapshot and bankruptcy check per user; an exception leaves the handler |

`refresh` is at `write` between reading PostgreSQL and replacing the set, which
is where an SADD can be lost. Redis can fail and come back with or without its
data, a connection can end, the process can restart. `market` is what Kraken
traded at last: the snapshot that answers a new subscription carries it, so a
tick lost with a connection is made up for. An exception in the middle of a tick
(`TickFails`), a Redis error in the cache write and a restart leave the users
liquidated so far unchecked; a close can raise before its commit or after it
(`CloseFails`), and then its user is liquidated and not in `affected`. Three
pieces are history. `held` is what was open when the tick began. `due` is the
liquidated positions whose owner has not been checked since; only a check takes
from it, and a lost tick leaves it as it is. `owed` is what was due when the
tick began.

### Candles

Time is instants with a trade in each; a bar is its bucket and the last instant
it includes, which is all that open, high, low, close and volume amount to when
asking whether one version of a bar is newer than another. `handle_candle` is
`ReadForming`, `Finalise` (a roll), `WriteForming`, `Publish`; `get_candles` is
`ReadHistory`, `Fetch`, `SplitForming`, `StoreHistory`, `StoreForming`, `Merge`.
Kraken makes its answer at `Fetch`, the clock that decides whether its last row
is still forming is read at `SplitForming`, and the two keys are written later,
each after an await. Any of these can be as late as the horizon allows: httpx's
timeout is one of inactivity, and Redis is awaited besides. A Redis error ends
the request and leaves what it has written so far. `Pass` lets time go on and
drops a history whose time to live is over. `shown` is what clients have been
sent: the newest content of each bar, and the largest step back a broadcast
made. `stalest` is history: how old a backfill's row was, at most, when it was
written to the forming key.

### Intents and Orders

An intent is one filling-in of the ticket. `Intents` is the promise: executed at
most once, told as opened only if it was, and never two open positions of one
intent, with the exception of intents in `doubt`, for which only the last
holds. `Orders` has the ticket (`pair`, `key`, `intent`, `call`), its requests
and the rows they commit. The ticket awaits one request at a time, but a
request it gave up on goes on at the server. A user's edit drops the key
(`Edit`), the chart's pair picker does not (`ChartPair`); a 503 or 401 keeps it,
an answer or any other failure drops it. `Promise` is the refinement mapping:
`live` and `spent` are the intents of the open rows and of all rows.

What puts an intent in doubt is exactly two lines of the code: the `else` of the
ticket's error handling, which drops the key of a request that may have
committed, and the chart's picker, which leaves a kept key on a ticket that says
something else.

### Views

A task is a tick, a request or a new connection; each reads the account piece by
piece (cash with the User row, then positions and price), then pushes, scores
and checks for bankruptcy. `rebuild` reads all users, values each, deletes the
board and writes the new one. `board` is the sorted set, `view` what a client
was last shown. Accounts change by whole transactions: an open costs a unit of
cash, a close returns the price, a tick to 0 liquidates. That is enough to make
any two moments of an account differ, which is all staleness is about. A fetch
finds the latest price, an older one (a REST fetch that began before the last
tick has overwritten the cache) or none; the last two count as faults when they
change what the account is worth. On the connect path the User belongs to a
closed session: after a reset the refresh of it raises, and the socket goes down
(`Check`).

### Accounts

`Register`, `Login`, `Logout` and `AskAgain`/`Issue` are routes of `auth.py`; a
confirmation is `Count`, `Expire` (the limiter), then `LockToken`, `LockUser`,
`Commit` (`consume_token`), with waiting at every lock while `Advance` lets the
clock go on, and `Die` at any point. As in `Trading` the row locks are functions
of where the requests stand. `let` is history: when each request was let in, and
the number INCR gave it (negative if Redis failed: the number of the failure).
INCR and the reading of the clock are one step: Redis's socket timeout is far
below any window.

Operators headed `Slip` are the variants a plausible mistake would leave in
place of the definition that follows them. No specification uses them; each
property is shown to fail with one of them, so none holds idly.

## 3. Runs

| Run | Instance | Shows |
|---|---|---|
| `trading` | 1 user, 2 ids, 3 orders, 3 tasks, loaded sessions, failures; 188,276 states | what the deployed service keeps: it implements `ServiceSpec`; every ledger entry builds on an earlier balance and the last is the cash; non-negative cash, no double open, one payment and one settlement per position, exactly one close, total resets; no open, close or reset takes an open position out of the index |
| `trading_atomic` | 1 user, 2 ids, 2 orders, 4 tasks, fresh sessions; 161,265 states | `Trading` implements `AccountSpec`; the ledger chains to the cash; opens stay within the free cash |
| `trading_answers` | 1 id, 1 order, 3 tasks, loaded sessions, failures, fairness; 89,944 states | every started request ends |
| `math` | 96 positions, 160 marks each; 15,360 states | sizes are maximal, spared positions are solvent to the cent, picked ones are spent to rounding, none is born liquidatable |
| `engine` | 2 longs of two users, marks crossing neither or both, two faults of any kind; 1 frame in the socket; fairness; 626,883 states | a scan leaves no candidate crossed and open that did not itself fail; a tick that runs to its end has checked every user it liquidated; a position does not stay open for ever beyond its liquidation price, nor out of the index |
| `candles` | bars of 2 instants over two rolls, any delay, a time to live of 2, limits 1 and 2; 2.1 million states | a bar shown goes back by no more than a backfill was old when written; a bar kept as closed lacks at most what happened while its answer was on its way; the gap between history and forming bar is bounded by the time to live and the request's own delays; an answer is short only as far as another caller's limit |
| `orders` | 3 requests, 3 keys, 2 pairs, 4 intents; 568,000 states | `Orders` implements `Intents`; a kept key has opened nothing but what the ticket says |
| `views` | 1 user, prices 0 and 2, 2 changes, 1 fault, fairness; 511,964 states | only verified accounts rank; the board comes to hold every verified account's equity; a connected holder comes to see the account |
| `accounts` | 1 user, 2 sessions, 2 links, 2 requests, 3 instants, 1 fault; 778,406 states | links and addresses are confirmed once, by a live link; the limiter's two bounds |
| `trading_overspend` | as `trading` with one unit of cash less, no failures | **violated**: see below |
| `trading_duplicate` | fresh sessions, 3 tasks | **violated**: see below |
| `trading_index` | fresh sessions, failures | **violated**: see below |

Bounds. The locks, constraints and cash are per account, and tasks of different
users share nothing but Redis sets in which their members are distinct: one user
suffices. Two ids allow two positions at once, the least that can overspend,
clash on a pair or make a reset close several rows. Three tasks let any two
transactions race after a third prepared the account; four let close,
liquidation and reset race over one position. The three orders of `TradingMC`
debit 5, 3 and 5; the third shares its key with the second and its pair with the
first. The cash is 8 in `trading`, which the first two spend exactly, and 7 in
`trading_atomic` and `trading_overspend`, where together they cost one more than
there is. The two prices are a factor of two apart, so a position opened at one
is liquidated, bankrupt or doubled at the other. A task ends when its call does,
which bounds the number of calls; ids are not reused. Task and id symmetry is
used where only safety is checked.

In `math` the scale, rate and prices are chosen so that one cent, one price
quantum and the maintenance margin are of comparable size: that is where
roundings can disagree. Collateral runs from one cent up.

In `engine` the two longs are liquidated at 95 and 85 and the marks are 80 and
100: a mark crosses both or neither, and the second position is what a failed
close or a lost entry of the first must not touch. They belong to two users, so
that an exception for one can come before the check of the other. Two faults let
a tick be lost after a close of an earlier one had raised, or Redis fail twice.
Positions a tick closes besides, by the reset of a user with several, are in the
proofs only: an instance with a third position is out of TLC's reach. In
`candles` the horizon allows two rolls, the least at which a history can miss a
bar; a time to live of one bar is short enough to be over within it, and no
delay is bounded but by it. In `orders` three requests allow a first, a retry
with its key and a submission with a new one, all in flight. In `views` tasks of
one user are what races over that user's score and view; tasks of two users meet
only in the order of a rebuild. Two changes suffice to open and be liquidated,
or to move the price under an open position, while any task is under way. In
`accounts` two links and two requests let a click race another click on the same
link or the user's other link; the limiter's window of two instants with a limit
of one is crossed within the three instants. Deadlock is checked except where
the bounds end the behaviour (`candles`, `orders`, `accounts`).

Fairness. `FairSpec` of `Trading` asks strong fairness of each task's steps and
nothing of arrivals or failures. The event loop resumes whoever is ready, a
provider call ends once Kraken is silent for five seconds, and PostgreSQL queues
the waiters of a row lock; strong fairness is needed because a lock is released
and taken again while others wait. `FairSpec` of `LiquidationEngine` and
`Fairness` of `Views` ask weak fairness of the handler, of the refresh loop, of
the index writes, of the feed (an open market trades, and the reconnect loop
never gives up) and of an outage's end: asyncio runs every task that is ready,
and both loops catch all exceptions and go round. Nothing is asked of users or
faults. A system at rest is one in which all tasks are done (`Quiet`), so
deadlock is checked in every run of `Trading`.

### What the violated runs show

* `trading_overspend`: the HTTP route's session already holds the User row, and
  `open_position` locks it without `populate_existing` (`positions.py:172`). The
  balance it checks and debits is the one from before the lock. Two concurrent
  opens on two pairs, which together cost one unit more than the cash, both
  succeed, and the second commit overwrites the first debit: invariants 2 and 5
  do not hold. In the same instance `LedgerChained` and `AccountSpec` fail too.
  What is left of them is `ServiceSpec` and `LedgerTraceable`, which `trading`
  shows: the balance an open starts from is one its account has had, and no
  other transaction is so exposed. Free cash stays non-negative, since the stale
  balance was itself at least the debit. The repository's concurrency test
  passes `open_position` a fresh session each, for which `trading_atomic` shows
  that all three hold.
* `trading_duplicate`: the docstring promises that a duplicate key replays the
  original; a duplicate that looked before the original committed is turned
  down by the cash or the clash check instead.
* `trading_index`: SPEC invariant 5 counts the Redis index op into the
  transaction; it comes after it. As far as opens, closes and resets go, only
  the opener can leave a position out: no SREM takes an open position's id
  (`OpenStaysIndexed`). A reconcile that read PostgreSQL before an open
  committed, and a Redis that lost its data, take ids that were added; they are
  in `LiquidationEngine`, where `IndexHeals` says that the index is repaired.

### What the other modules say of the documentation

These sentences of the repository differ from what the models, which follow the
code, show. No run expects a violation of them; the properties state what does
hold.

* `candle_stream.py:97`: the forming key has "no concurrent writer". A backfill
  writes it too (`candles.py:166`), so a broadcast bar can step back;
  `BarsHardlyGoBack` bounds the step by the age of the backfill's row. That age
  itself has no bound in the code: `kraken_request_timeout_seconds` is a timeout
  of each read, and Redis is awaited after it.
* `candles.py:121`: "only closed candles reach the history cache". A row whose
  bucket ends while the answer is on its way is kept without its last trades;
  `HistoryNearlyClosed` says how much it can lack.
* `price_stream.py:221-226`: the bankruptcy check "runs even for a disconnected
  liquidated user" and "must not wait for a reconnect". It does so in a tick
  that runs to its end (`LiquidatedIsReviewed`). An exception for an earlier
  user of the same tick leaves `handle_tick`, and a close that raises after its
  commit leaves its user out of `affected`; their check then waits for their
  next close, tick or connection.
* `candles.py:147`: "the last `limit` candles". The history is trimmed to the
  limit of whoever filled it; `AnswerNotShort`.
* `rate_limit.py:28`: "at most `limit` requests per `window_seconds`". Around a
  boundary twice that; `LimitKept`.
* `wsSource.ts:10`: "no client-side catch-up is needed". The first snapshot is
  built from a User loaded before the socket is registered and can overwrite a
  newer push. A holder's view is mended by the next tick (`HolderViewHeals`),
  that of a user without an open position only by their next action.
* SPEC invariant 7, "retries can't double-open": true of one key. After a
  network error the ticket drops the key, and "Try again" sends a new one; if
  the first request had committed and its position was closed since, the order
  is executed twice. `IntentsKept` admits it as an intent in doubt.
* SPEC invariant 10: the age of a price is checked when it is fetched, and the
  locks are awaited after that.

## 4. Proofs

TLAPS checks the `_proofs` modules for every value of the constants, from
`MathAssumption` (a positive scale and denominator), `AccountAssumption`
(orders have natural leverage and collateral, prices are positive, `None` is no
id, user or number), `NullAssumption` (`None` is no row) and
`TradingAssumption` (two switches).

* `PositionsMath_proofs`. All rests on two lemmas: `Division`, which bounds a
  floor quotient, and `HalfUpNearest`, which bounds a rounded one by half a
  unit. `HalfUpOdd` (rounding commutes with negation) gives `SidesMirror`.
  `SizeWithinNotional` is invariant 9, `LiquidationPositive` the CHECK on the
  column, `LongNotBornLiquidatable` the condition under which a new long
  survives its first tick.
* `Trading_proofs`, the account. `BooksTypeOK` is inductive (`BooksTyped`):
  sizes and settlements are natural numbers by the arithmetic lemmas. On top of
  it `FreeCashNonNegative` is inductive because a settlement is floored at zero
  and an open is guarded by the balance it debits, and `LedgerChained` because
  `Book` appends the entry that belongs to the balance it writes. `RowStep` says
  what one step can do to one row; `RowsCloseOnce` and `NoneOpenedTwice` follow.
  `PositionsBookedOnce` needs one strengthening, `ReasonMatchesStatus` (an open
  row has no reason yet, hence no settlement): `BookEntries` says which set of
  ledger indices a booking extends, `BookedKept` that it leaves every other
  position's alone. The step lemmas are stated of `LooseNext`, whose opens may
  compute from any balance, so that the deployed service inherits them; only
  `LedgerIsChained` needs the balance to be the committed one. `LedgerAddsUp`
  turns the chain into a sum: were the balance after some entry not the sum of
  the deltas up to it, there would be a first such entry (a set of naturals has
  a least one), and the chain excludes it.
* `Trading_proofs`, the tasks. The inductive invariant `Inv` has, beside the
  types, two parts. `Exclusive`: no two tasks hold the users row of one account.
  `TaskInv`: what a task knows at each await - its order passed the checks, its
  mark is a price, the rows it is to close are its owner's, a liquidation's mark
  crosses the immutable liquidation price, the balance it read under the lock is
  the one in the table, and a reset about to decide has locked every open
  position. The last two are why the invariant is needed: neither is local, and
  they survive other tasks' commits because those only touch the account whose
  row they hold (`Touches`, `OthersKeep`). Each action is shown to be `Good` for
  its own task; `StepKeeps` adds the others; `CommitTouches` turns the three
  commits into steps of the account. `TasksServeAccount` is the refinement, for
  sessions of either kind: `HeldInv` adds that the last entry's balance is the
  cash (`CashIsLast`) and that what an opening session holds is a balance of its
  account's ledger, so that an open is the `OpenFrom` of `ServiceNext`, and with
  fresh sessions the `Open` of `AccountNext`. `LedgerTraceable` follows
  (`BookTraceable`): a booking refers back to the entry it started from. Free
  cash, no double open, one close, total resets and `BookedOnce` are those of
  the account, whose step lemmas the commits meet. `TradingIndexed` rests on
  `Removes`: whoever is about to remove ids from the index has closed them, and
  closed rows stay closed; and on `IndexShrinks`: nobody else takes ids out.
  `TradingDeadlockFree` is about the lock order. A position is locked only with
  its owner's users row in hand (`TaskInv`), and of that row there is one holder
  (`Exclusive`), so nobody ever waits for a position, and who holds a users row
  waits for nobody. It is the part of `RequestsAnswered` that needs no fairness,
  for any number of tasks.
* `PositionsMathMC_proofs`. The four properties of `math` for every input that
  `PresetsAssumption` admits. Long and short are one case, with `Delta` the
  move in the position's favour: `LiquidationNear` places the stored price
  within a quantum of the exact one, `SparedMove` and `PickedMove` turn the
  comparison with it into a bound on `Delta`, `LossWithinMargin` and
  `LossCostsMargin` multiply by the size, and `RoundedSolvent` and
  `RoundedSpent` add the half units that rounding equity and margin costs.
* `LiquidationEngine_proofs`. `EInv` adds to the types what a tick carries over
  from step to step: `OnlyBegun` (index, candidates and rows speak of positions
  opened before, so an id open now was open then), `DueIsCovered` (while a tick
  runs, who is unchecked was so before it, is still to be revalued, or had their
  close raise), `FallbackCovers` (from PostgreSQL come all positions open since
  the tick began) and `ClosesCover` (of the candidates, the crossed and open are
  to be closed or failed). `LiquidatedIsReviewed` is an action property of
  `EndOfTick`, where nobody is left to revalue, and `DueIsCovered` says who else
  may be unchecked. `ScansLeaveNone` is an action property: only `EndOfScan`
  leaves `close` for `revalue`, and then nothing is left to close.
* `Candles_proofs`. `Inv` has four parts beside the types. `StreamInOrder`:
  frames are handled in the order of what they include, none is of the future.
  `SeenNearly` is what the bound on steps back needs: a queued frame has all
  that clients have of its bucket, while the tracked bar, which a backfill may
  have written over, and the bar a roll is about to send lack at most `stalest`
  of it. It speaks of two writers of one key at every step of `handle_candle`,
  hence its cases. `FramesNeverStepBack` follows too: only the bar a roll closes
  can go out with less than was sent. `HistoryFresh` and `ReaderInv` say of
  every history, cached or carried by a request, that it was split no earlier
  than its answer was made, stored no earlier than that, and read within its
  time to live (`RowOK`): each delay enters the bound by its own difference of
  clock readings, and none is assumed small. `ClosedFacts` computes what a split
  leaves, `StoredFacts` what a trim does, `MergedLength` counts the bars of an
  answer.
* `Orders_proofs`. `OInv` says how keys, intents and pairs belong together over
  everything sent so far: an intent has one pair (`OnePair`) and, unless in
  doubt, one key (`OneKey`); a key reaches a second intent only in doubt
  (`KeyOwned`); a row is what some request asked for (`RowAsked`); a successful
  answer has a row (`Answers`); a pair has one open row (`OneOpen`). Each is
  needed for the refinement: that a commit is an `Open` of an intent neither
  live nor spent combines `RowAsked`, `OneKey` and `OneOpen`. It also gives
  `KeyIsOfTicket`.
* `Views_proofs`. `VInv`: an open position has a verified owner, a task that
  will score carries users who were verified when it took them, and a rebuild's
  scores are theirs. Confirmations are never taken back, so lateness does not
  matter.
* `Accounts_proofs`. `AInv`: what a confirmation read of its locked rows is
  still so (`LinkAsRead`, `UserAsRead`), because nobody else can be at them
  (`Exclusive`); a request for a new link is one of a user (`AskerKnown`); links
  are not of the future (`MintedInPast`). `LimiterInv` is about the limiter: a
  key is dropped only when its window is over (`KeysOutlive`), so a number is
  given once in a window (`NumberedOnce`) and none up to the counter is missing
  (`NoneMissing`). `LimitKept` is then counting: the admissions of a stretch of
  `Window` instants map one to one into two windows of `Limit` numbers each and
  the failures (`AdmittedBounded`), and those of a window that refused somebody
  map onto `1..Limit` (`RefusedFull`).

The assumptions on constants are weak: finite bounds are natural numbers, `None`
is none of the values it stands beside, sides and prices have their types
(`EngineAssumption`, `OrdersAssumption`, `ViewsAssumption`,
`AccountsAssumption`), the service starts after the history an answer carries,
and callers ask for no more bars than that (`CandleAssumption`; Kraken answers
with about 720 bars and `candle_history_limit` is 500), and the presets leave a
margin above maintenance worth more than half a price quantum
(`PresetsAssumption`; with those of `config.py` every price of six quanta or
more does).

Only model-checked: the liveness properties (`RequestsAnswered`, `CrossedFalls`,
`IndexHeals`, `BoardHeals`, `HolderViewHeals`), which are beyond this prover,
and what `trading_atomic` says of fresh sessions beside `TasksServeAccount`
(`AccountSpec`, `LedgerChained` and `OpensWithinFreeCash` of `Trading`). Every
other invariant and action property of the passing runs has a theorem. Induction
over data is not available either; where a proof needs it (`LedgerAddsUp`,
`MinOfNaturals`) it argues with the least element of a set of naturals.

## 5. Not modelled

* Ages of prices. A fetch in `Trading` yields any price or fails; one in `Views`
  yields the latest, an older one or none. Whether a price is older than ten
  seconds is asked nowhere, nor how far a tick's mark lags behind the market
  while its liquidations wait for locks.
* Delays: the backoff of the price stream (which is reset only by a clean close,
  `price_stream.py:60-73`), refresh intervals, the throttling of broadcasts.
* The board's previous ranks and its reading, `GET /portfolio`, `/positions` and
  `/ledger`: they only read. The order of the ledger by `created_at`, which is
  the start of a transaction.
* Several sockets to a user, the broadcasts of ticks to all clients, the
  frontend's stores and their clearing at logout, screens.
* HTTP parsing and rendering, what a client is told when a step after a commit
  fails on the close route, hashing, delivery of mail, the uniqueness of
  addresses (a constraint), logging, Kraken's protocol and JSON, configuration,
  the keep-alive ping, schema migrations, scripts, benchmarks.

`PROJECT.json` lists the hazards these leave without a property.
