# Verification of the CascadeFade agent

TLA+ models of the trading agent in `src/` (Python: one asyncio process, three
SQLite connections to one file, a `twak` child process per swap, the CoinMarketCap
REST API, a quoter contract), TLC configurations that check them, and TLAPS proofs
about them. Paths below are relative to the package, `src/src/`, unless they name
another place.

## 1. The system

| Component | State it keeps | Operations | Modules |
|---|---|---|---|
| Agent loop, `agent.py` | mode, cycle count, stop event | `setup`, the interval wait, `run_cycle` (six phases), `_execute_sell`, `shutdown` | `Agent` |
| Decision engine, `decision.py` | last buy times; works on the portfolio's dict | `evaluate`: guards, sell loop, buy loop | `DecisionEngine`, `Sizing` |
| Risk guard, `risk.py` | none of its own (reads snapshots and journal) | breaker, floor, exposure, pre-trade, sizing, exits, heartbeat | `RiskGuard`, `Journal` |
| Portfolio, lots, `portfolio.py` | dict of lots; table `positions` | `add`/`remove`; `add_position`/`close_position` | `DecisionEngine`, `PositionLedger`, `PositionStore` |
| Portfolio, snapshots, `portfolio.py` | table `portfolio_snapshots` | `initialize_cash`, `update_cash`, `compute_value`, `get_cash_balance`, the peak | `Snapshots`, `CashAccount`, `Agent` (start) |
| Trade journal, `log.py` | table `trades` | `log_trade`, `log_decision`, `update_trade_status` | `Journal` |
| Cache, `cache.py` | tables `cmc_quotes`, `cmc_trending`, `cmc_fear_greed` | sets and reads, schema, checkpoint, sweep | `QuoteCache` |
| One file under the last three | write lock, open transactions | `BEGIN IMMEDIATE`, statement, commit, rollback | `Sqlite`, `Database` |
| Executor, `twak.py` | none; orders live on the chain | `swap`, `_run` | `TwakWallet` |
| Signal engine, `signal.py` | conviction history, day counter | five scores, regime, decay, ranking, `evaluate` | `Scoring`, `SignalEngine` |
| CMC client, `cmc_client.py`, `utils.retry_async` | last answer and its time | `get_bulk_quotes`, `get_dex_trending` | `QuoteClient`, `SignalEngine` |
| Quoter, `quoter.py` | none | `estimate_slippage_single` | `Quoter` |
| Limits, `config.py` | constants | | `Config` |

**Interactions.** `main_loop` waits for the interval or the stop event and calls
`run_cycle`. A cycle reads the rows and the cash, asks the client for prices,
notes the rows whose stop or take price is reached, runs the engine (which asks
the signal engine, which asks the client again), then executes the noted sells as
concurrent tasks on one database connection. The engine trades on the *dict*
`Portfolio.positions`; the forced sells work on the *table*. Both are written by
the engine, one after the other, with a swap of up to 300 s in between. The dict
is empty after a restart, the table is not. `Portfolio`, `TradeLogger` and `Cache`
each have a connection to the same file; only one of them can hold the write lock,
and the tasks that use one connection share its transaction.

Some of this is present in the code and not yet called by the cycle: the agent opens
and closes the journal and the cache and calls no write of either, nothing calls
`update_cash` or `compute_value`, and no quote is asked for before a swap. They are
modelled as what they are, methods that any tasks may call at once; the scripts and
tests of the repository call them one at a time.

**What is hard here.** A crash or an exception between swap, dict and row; swaps
that report an error and execute later; two books for one portfolio; forced sells
beside what the engine has just sold; transactions of a connection that several
tasks share; figures read before a transaction and written in it; a sweep that
commits what it did not begin; limits that are compared with cash no trade reduces;
a peak that outlives restarts; missing prices replaced by 1.0; retries inside retries
with a cache any caller fills; a day counter that counts evaluations; rounding and
one-off bounds.

**What makes each part correct.**
Engine and agent: the books agree, a lot is sold once, an error costs one lot, a
cycle spends no more than its cap, the cooldown and the breaker hold, nothing is
sold without a price, a stop ends the process.
Positions store: a write transaction belongs to one task, holds that task's row
only, and add/close are atomic.
Snapshots: a call that returns has made its cash the cash and raised the mark to it.
Journal: an acknowledged id stays its trade's, the last trade is found.
Cache: what was stored is served until it expires.
All three: the lock is let go, every call comes back.
Rules: a breaker does not switch itself off, sizes respect the cap, the two exit
rules agree, the best pool is quoted.
Client and signal: data is served in time, an outage never strengthens a signal
or changes who wins, every cycle comes back.

## 2. Modules

```
Arith   Config
   \      |
    \-- RiskGuard -- Sizing --+-- DecisionEngine -- Agent -- AgentProperties -- AgentMC
     \              TwakWallet/                                   |
      \                                       RiskProofs -- AgentProofs -- LotProofs
       \-- Scoring --+-- SignalEngine -- SignalMC
           QuoteClient/    \-- SignalProofs
Sizing, Scoring, Quoter -- RiskRulesMC -- RulesProofs (with RiskProofs)
PositionLedger -- PositionStore -- PositionStoreMC
                       \-- PositionProofs
Sqlite --+-- Snapshots --+
         +-- Journal   --+-- Database -- DatabaseMC
         +-- QuoteCache--+      |  \-- DatabaseProofs
                            CashAccount (what the snapshots implement)
Induction -- LotProofs, RulesProofs, SignalProofs
```

**TwakWallet.** `chain` is what became of every order `<<token, cycle of the lot,
side>>`: never sent, pending, filled, rejected, or a timeout after which it may
still be filled. `Submit` is the call of `twak.swap`, `SwapReturns` its answer.

**DecisionEngine.** One call of `evaluate` as a machine: `step` says where it is,
`todo` which tokens the current loop has left, and every await that leaves the
process (swap, row write) is a step. `mem` is the dict, `book` the open rows,
`lastBuy` `_last_buy_tick`. Guards and early returns: `BreakerTrips`,
`ExposureRefuses`, `GuardsPass`; sell loop: `PassOver`, `SendSell`, `SellReturns`,
`PaperSell`, `CloseRow`; buy loop: `StartBuying`, `NoBuy`, `SkipBuy`, `Buy`,
`BuyReturns`, `WriteRow`, `BuysDone`; a database error in either is
`RowWriteFails`. `Unpacked` says what unpacking the dict of `pre_trade_check` does.

**Agent.** The process: `Start` (setup), `Wait`, `Observe` (phases 1-4),
`Evaluate`/`EvaluationStep`/`EvaluationRaises`/`EvaluationEnds` (phase 5),
`ForcedRaises`/`ForcedRead`/`ForcedReturns`/`ForcedClose` (one task per noted row,
phase 6), `CycleEnds`, `RequestStop`, `StopSeen`, `Shutdown`, and `Crash` at any
point. `RowKeys` are the keys `_row_to_position` gives a row.

**PositionLedger / PositionStore.** The ledger is the abstract promise: a call is
asked, takes effect at one instant or fails, and is answered. The store is
`add_position` and `close_position` await by await: SELECT, BEGIN IMMEDIATE,
statement, commit, rollback, on connections that tasks share. `PositionStore`
extends the ledger with `work`, `inTx` and `pc`; the variables of the ledger are
the mapped ones, so `LedgerKept` is the ledger's specification itself.

**Sqlite.** The calls of any table on shared connections, await by await. `file` is
what is committed, `work` what the open write transaction has made of it, `inTx` the
connection that has the lock. `Enter` is the start of a method, then `Begin` (or
`BeginRaises`: the connection is in a transaction, or `busy_timeout` has passed),
`Write`, `Commit`; `WriteRaises` and `Rollback` are the `except` branch, `Kill` the
death of the process. A statement that finds its transaction ended by another task's
commit opens one of the driver's own; if that one does not get the lock, the connection
is `stuck` in it until it commits or rolls back. `raised` remembers the connections a
statement has raised on.

**Snapshots, Journal, QuoteCache.** The three users of it. A module says what a method
reads before BEGIN (`ReadLatest`, `ReadHighest`; the time stamp), what its statement
does (`SnapsAfter`, `TradesAfter`, `CacheAfter`), what its readers find (`Balance`,
`HighestPeak`, `LastTradeTs`, `CheckHeartbeat`, `Get`) and, for the cache, the first
call of a process: `Schema`, `Checkpoint`, `Sweep`, `SweepEnds` and what each may raise.

**Database.** Their composition on one file, with crashes, restarts and a clock.
`receipts` are the trades whose `log_trade` has returned, `stored` the last set of each
cache key that has; `overlap` says that snapshot calls are, or have just been, in hand
together, and `before` keeps the snapshots from when they began to. **CashAccount** is what
the snapshots implement, step by step: a call takes its cash in hand (`Ask`), is about to
commit it or gives it up (`Write`, `GiveUp`), and ends in `Report` (the cash is *its* cash,
the mark is raised to it), in `Fail` (nothing has changed) or, where calls overlapped, in
`Mingle`: the cash is its cash or unchanged, the mark some reported cash, not below the
present cash nor below what it was before the overlap (`floor`).

**Scoring / QuoteClient / SignalEngine.** `Scoring` has one operator per function of
`signal.py`. `QuoteClient` is one call of `get_bulk_quotes` at a time: attempts,
what is cached and how old it is. `SignalEngine` makes the agent's calls in its
order (BNB in setup; every token for the prices; every token for the scan), counts
the day, gets the trending list with `retry_async`, and scans. The conviction
history is reduced to its `last_day`: the score in it is never read.

**Quoter.** `Estimate` folds the answers of the pools over the fee tiers, with the early
returns before it and what the log line after it does to an answer without prices.

**Induction.** Not a model but what the proofs of three modules share: induction over
the numbers up to a bound and over finite sets, and from them what a sum over a set and a
fold over a sequence come to. The library's induction theorems take an operator as
their argument, which the provers cannot instantiate; these are about the *set* of the
numbers, or of the subsets, a fact holds of, which any proof can name.

### Abstractions

- Time is counted in cycles, `WaitTicks` apart; time a process is down is not
  counted. In `QuoteClient` it is the age of the cache, which stops at the TTL. In
  `Database` it is a clock in ticks that does outlive the process.
- Money is in cents (in hundredths of a cent where `position_size` rounds only its result),
  prices in small integers, multipliers in tenths. Rounding is
  modelled where the code rounds (`RoundDiv`), truncation where it truncates; slippage
  is a numerator and a denominator.
- The order in which loops visit tokens is left open; a lot is `<<token, cycle>>`.
- Units are cost over entry price. What a swap really bought is not read back by
  the code, hence not modelled.
- `Agent` takes the scan from a set of convictions and the prices from a set of
  prices; `SignalEngine` shows where they come from.
- A snapshot is its cash and its peak. The value of positions is 0 in all of them:
  `compute_value` is the only writer of another one, and it raises on an open position.
- Opening a connection is left out: the call that does it is alone until it is open.
  Tasks of a connection are interchangeable, so the first idle one is the next to call.
- Two sets of one cache key are not under way at once, as in `scripts/test_data.py`.
- Name, text, log and command-line construction are left out.
- Null fields of a quote are the action `FiguresRaise` in `SignalEngine` and `Crash`
  in `Agent` (the comparison in phase 4 raises outside every `try`).

## 3. Runs

Sizes are distinct states.

| Run | Question | Bounds and why they are enough |
|---|---|---|
| `agent_cycles` (1.4 M) | Books, spending cap, cooldown, breaker latch over live cycles | 3 cycles: buy, cool down, buy again with a cooldown of 2. Two tokens, one in both baskets, as COMP is in `config.py`. One fault; 100000 and 6000 cents of cash, so a restart can trip the 25 % breaker. Prices: none, one below the stop, entry. |
| `agent_faults` (72 k) | What faults can cost; does a stop or a cycle always end | 2 cycles, 2 faults, swaps that fill, fail or time out: two faults show that losses do not compound. |
| `agent_paper` (832 k) | How far exposure grows, and whether the books agree without swaps between their writes | 4 cycles over disjoint baskets with lots nobody can sell because they have no price: the only way exposure grows. A limit is used that 3 buys reach. |
| `risk_rules` (55 k) | Arithmetic of sizes, breaker, exits, scores and quotes | A state is one sample; amounts and figures lie on both sides of every bound, and any of the pools may be silent. |
| `market_data` (121 k) | Freshness, decay, ranking, termination of the data phase | 3 evaluations: scan, outage, scan. Three narratives with the three fundamental scores live data can earn, in dict order; falling, healthy and extended returns. One retry, TTL of 2 ticks: enough to fall back at every age. |
| `position_store` (35 k) | Transactions and atomicity | 3 tasks, two on one connection, 3 symbols: two writers of one connection and one of another. |
| `database` (367 k) | Lock, account, ids, heartbeat and cache over three connections | 2 tasks on each connection, so that one can be in the other's transaction, and three connections for the lock. 4 calls and starts: a start, two that overlap and one that meets what they left, or a crash and a restart between two. 3 ticks with a TTL and a heartbeat window of 2: fresh, at the bound, expired; ticks 2 and 3 are in the heartbeat hour, 1 is not. Cash of 1 and 2: it can rise and fall. |
| `doc_*` | One documented promise each that the code does not keep | The same instances. |

What the properties say:

- `BookAgreement`: dict and table tell the same story of every token whose last
  write did not fail; a row the dict lacks was inherited from an earlier process.
- `RowsWereSent`: a row exists only for an order whose swap came back.
- `SoldOnce`: a lot is offered for sale once, whatever the swap reported.
- `FaultsBoundErrors`: bought lots without a row and rows of sold lots are no more
  than the crashes and failed writes.
- `SpendCap`, `ExposureBounded`, `SizeWithinCap`, `SplitWithinSize`, `SizeAffordable`:
  the limits, and how rounding and the test-before-buy order loosen them. `position_size`
  rounds its result, so it can pass a cash that is no whole number of cents by half a cent.
- `CooldownKept`: within one process, whatever else fails.
- `KillLatch`, `BreakerMonotone`: a tripped breaker stays so, restarts included.
- `HoldWhenUnpriced`: a missing price never becomes a sell order.
- `ExitRulesAgree`: the stored stop and the percentage test differ by rounding only.
- `TrendIsFaded`, `RiskNeverRewarded`, `RegimesOrdered`: a better trending rank, more
  volatility or a worse regime never earns more conviction. Of the three kinds of attention
  that `score_attention` looks at it is the rank alone that is faded: social volume and a
  surge of mindshare earn points (`signal.py:125`).
- `QuoteIsBest`, `SilentPoolsIgnored`: the estimate is the best answer at the lowest fee,
  and a pool that raises or is late changes nothing another has said.
- `ServedInTime`: what the client returns left CMC less than a TTL ago, although the
  cache can stand in repeatedly.
- `BestIsBought`: decay truncates and makes ties; a LONG scan still names a narrative
  with the best fresh score. This depends on the order of `NARRATIVE_BASKETS` and
  the stable sort, and on ties of weaker narratives falling below the threshold.
- `OutagesDecay`: the decay is that of the evaluations that failed in between.
- `OneWriter`, `OwnRowOnly`, `LedgerKept`: the positions store.
- `LockIsHeld`: a connection that has the lock has a call that will let it go; only the
  cache can be left in a transaction it began in vain (see 5).
- `AccountIsKept`: the snapshots refine `CashAccount`. `update_cash` and `compute_value`
  read before BEGIN; alone, each that returns has made its cash the cash and raised the mark
  to it, over failures, crashes and restarts. Where they overlap it says what is left of
  that (see 5).
- `JournalIds`: an id `log_trade` returned is that trade's for good, and no update
  confirms a row of another. It depends on BEGIN standing before the `try`: inside it,
  the failure of one call would roll back the other.
- `HeartbeatHeard`: no heartbeat is asked for within 22 h of an acknowledged trade, at the
  heartbeat hour no more than at any other; the documents disagree about that (see 5). It
  needs the row order to agree with the order of the stamps, which the connection's
  queue gives.
- `NewestServed`: an acknowledged set is served until its TTL, over sweeps and crashes,
  as long as no statement on the connection raised.
- `StopHonoured`, `CycleReturns`, `ScanReturns`, `CallsReturn`: liveness.
- `TypeOK`, `MarketTypeOK`, `StoreTypeOK`, `DatabaseTypeOK`: types.

**Fairness.** Weak fairness of the process's own steps, never of the environment
(starting, signals, crashes, clock). It is justified because every await is
bounded: `twak.py` waits 300 s, `CMC_TIMEOUT` and the retry counts bound the
client, `busy_timeout` bounds a BEGIN, the interval bounds the wait, and the event loop
and the connections' threads go on as long as a task can. A `BEGIN` that cannot get
the lock therefore *raises* (`BeginRaises`), it never waits for ever. Fairness is of
"some task steps", not of each task: the bound on calls makes that enough for all of
them to return.

**Deadlock** checking is off: the runs end at their bounds (cycles, days, calls,
faults), and the sample runs do not move at all.

## 4. What is proved

For every value of the constants, under the assumptions in `Config`, `Agent`,
`DecisionEngine`, `TwakWallet`, `PositionLedger`, `PositionStore`, `QuoteClient`,
`SignalEngine`, `Sqlite`, `Snapshots`, `Journal`, `QuoteCache`, `Database` and
`RiskRulesMC`. Most say that a set is finite or a number natural. Those that say more:
`None` is no request, row or number; the heartbeat window and the TTL are numbers; the
pools answer natural amounts (an output of the quoter contract is a `uint256`); tokens,
baskets and thresholds are as in `config.py`, where the two AI narratives come first
(`OrderAssumption`).

**Breaker** (`AgentProofs`, `RiskProofs`).
- `BreakerLatches`: `Spec => KillLatch`. The property alone is not inductive. `KillInv`
  adds two facts and the types they need: the value the breaker last tripped at would be
  refused against today's peak as well (peaks only grow), and the engine is inside its
  loops only after the breaker let today's cash pass. With `BreakerStaysTripped`, that the
  breaker is monotone in value and peak, the two exclude an order at or below that value.

**Lots** (`LotProofs`). `LotInv` is inductive, one step lemma per action:
- `Staged` (types, and where process, loop and trade under way can be together: the
  token of a sell is not in `todo`, a lot is in the dict until its swap returns, a forced
  sell gets past its row read only where the row is closed) gives `AgentTypes`;
- `Dated`, `Fresh`, `Unsold`, `SentBefore`, `Remembered` say which orders can have been
  sent: none of a cycle to come, none to sell a lot the dict still holds, none of a token
  the buys of this cycle have not reached; and that what this process bought it remembers
  the time of.

  From it follow `OrdersSentOnce` (`SoldOnce`), `UnpricedIsHeld` (`HoldWhenUnpriced`) and
  `CooldownHolds` (`CooldownKept`). `RowsFollowOrders` is `RowsWereSent` where the engine's
  environment says `live`, the case the property is about. `BooksAgree` (`BookAgreement`)
  and `ErrorsNeedFaults` (`FaultsBoundErrors`) are inductive beside `LotInv`: each step
  moves one token, and the sets of lost buys and ghost rows grow by at most that one, and
  only with `faults`. `SpendingIsCapped` (`SpendCap`) needs `SpendInv`, that what is spent
  is at most one share for each token of the basket already passed; the lemmas on rounding
  (`ShareRounding`, `CentRounding` in `RiskProofs`) turn the shares into the size and the
  size into the cap. `ExposureIsBounded` (`ExposureBounded`) adds `ExposureInv`: the lots
  were within the limit when the cycle began to trade, and all that has come to them since
  is what it has spent. That a lot bought or sold changes the sum over the held tokens by
  its own cost, and nothing else does, are the lemmas on sums of `Induction`.

**Rules** (`RulesProofs`). `SizesAreAffordable`, `SizesAreCapped`, `SplitsAddUp`,
`BreakerIsMonotone`, `ExitsAgree`, `TrendsAreFaded`, `RiskIsNeverRewarded`,
`RegimesAreOrdered`: the properties of the sample runs for samples of any size, from
the same lemmas on `RoundDiv`, which is off by half a unit at most, and lemmas on the bands
of the scores. `QuotesAreBest` (`QuoteIsBest`): the fold over the tiers keeps an answer that
leads all before it, and which one leads all does not depend on the order they came in;
`SilentPoolsAreIgnored` (`SilentPoolsIgnored`) follows, because taking away a pool that
answers nothing takes away none that leads.

**Positions store** (`PositionProofs`). `StoreTypes`, `StoreOneWriter`,
`StoreOwnRowOnly`, `StoreImplementsLedger`: from `StoreInv`, the conjunction of the three
properties with what a task knows at each point of its method: idle tasks have no
request, a symbol is in one task's hands, a close past its SELECT still has its row, a
task about to commit has its own change in the transaction. The refinement maps every
step to a step of the ledger or a stutter; `Commit` is the step that needs the invariant.

**Database** (`DatabaseProofs`). `DbInv == Control /\ Tables /\ Locks /\ Alone /\ Overlaps`: which
request is where in its method; well-formed snapshots (a row's cash is at most its peak,
peaks have a bound so that the largest exists), which an open transaction changes only if
it is the portfolio's; who holds the lock and who can be stuck; while no snapshot calls
overlap, that committing the one in hand will make its cash the balance and raise the peak
to it, because what it noted is still what the table says; and, while they do overlap, that
every row there was before is there still with a peak no lower, in the file and in the
open transaction, and that what a call has noted of such a row is no lower either, so that
no patch can lower it. `LocksAreReleased` is `LockIsHeld`; `SnapshotsAreTheAccount` is the whole
refinement `Spec => Account!Spec`, each kind of step shown to be a step of the account or a
stutter: `Commit` is `Report` or `Mingle`, a `BEGIN` that raises, a rollback and a value
that cannot be computed are `Fail`.

On `BaseInv` (what each call's place in its method says of its request and the tables
of other connections) stand three more invariants.
- `JournalInv` gives `IdsAreKept` (`JournalIds`) and `RecentTradesAreHeard`
  (`HeartbeatHeard`): the rows are in the order of their stamps, what waits for its turn is
  no older than any row nor than the call before it, and an open transaction holds what its
  one statement has made of the file. Without the second the first is not inductive: the
  stamp is taken before the lock.
- `CacheInv` gives `StoredIsServed` (`NewestServed`): the rows of a key are in the order
  of their ids and their stamps, two sets of one key are not in hand at once, and of what was
  stored something as new is there until it expires, in the file and in the open
  transaction, unless a statement has raised. What others commit or sweep keeps that.
- `Figures` (cash and peaks are reported amounts) and `Connected` (the lock, the stuck and
  the raised are connections) complete the types: `DatabaseTypes` (`DatabaseTypeOK`).

**Client and signal** (`SignalProofs`). `QuotesInTime` (`ServedInTime`): the client's
clock agrees with the true age of what it holds. `MarketTypes` (`MarketTypeOK`) and
`DecayIsOfOutages` (`OutagesDecay`) follow from `MarketInv`, which accounts for every day
counted: each is a scan's, that of an evaluation that raised since, or the one under way.
`TheBestIsBought` is `BestIsBought`. Decay keeps the order of the scores but for ties, and of
scores up to 27, which is all that live data can earn, a tie that is still worth a buy
exists only two days after the last scan, of 26 and 27. Only an AI narrative earns 27,
and none of them 26, and those come before the others; in another order of
`NARRATIVE_BASKETS` it would not hold.

**Induction over data.** Sums, powers and folds are reasoned about through `Induction`: it
takes the set of the numbers or of the subsets for which a fact holds, and the
well-foundedness of the natural numbers, which is about a set as well.

Only model-checked: liveness (`StopHonoured`, `CycleReturns`, `ScanReturns`,
`CallsReturn`), which rests on fairness and `ENABLED`, and the counterexamples of the
`doc_*` runs. Every other property of the runs is proved.

## 5. Where the code and its documents differ

Shown by runs:

| Run | Document | Code |
|---|---|---|
| `doc_pre_trade` | pre-trade check refuses | its dict is unpacked into two names, so the verdict is the key `"approved"`, always true (`decision.py:175`) |
| `doc_stop_loss` | stop-loss and take-profit close | the forced sell reads `pos["units"]`, rows have `amount`: KeyError |
| `doc_timeout` | 48 h close | the branch reports a sell and continues |
| `doc_kill` | breaker closes all | `evaluate` returns before the sell loop |
| `doc_drift` | buys need positive 7-day drift | missing data counts as unchanged, which is LONG for "AI Tokens" |

One more disagreement is shown by a run that passes. The docstring of `check_heartbeat`
says "Trigger if no trade in last 22 hours, or if current UTC hour matches HEARTBEAT_HOUR."
(`risk.py:56`), and the comment before the test of the hour "Also enforce at heartbeat hour"
(`risk.py:71`). The code returns `needed: False` for a trade within 22 hours before it gets
to that test (`risk.py:67`), and after the test the answer is `True` either way: the hour
changes the reason, never the answer. `HeartbeatHeard`, checked in `database` at ticks in
that hour and proved for all of them, is what the code does; "If no natural trade in 22
hours" (`ARCHITECTURE.md:61`) agrees with it.

Met while modelling and not run:

- The agent takes its mode from `--mode`, the engine from `AGENT_MODE`: with `--mode live`
  alone the engine writes rows for orders never sent, and the forced sells are live.
- Cash is never reduced by a buy nor raised by a sell, and `initialize_cash` sets it to
  the argument again at every start. `compute_value` would raise with an open position
  (`units` again, `portfolio.py:24`). It reports a drawdown against
  `MAX(total_value)`, the breaker uses `MAX(peak_value)`.
- Calls of `update_cash` that overlap can lower the mark: both read the old peak, and the
  later writes its own over the earlier one's. It falls no lower than it was before they
  overlapped, nor below the cash. The connection is shared, so a call can also read a row
  another has not committed; if that one rolls back, the row it then patches is not there,
  and it returns without having reported anything.
- The daily heartbeat trade is computed and logged, never made. The check reads the last
  row of `trades`, and the rows of `log_decision` are among them: logging a decision
  silences it for 22 h.
  `select_heartbeat_pair` sells BNB exactly when it is held; its docstring prefers not to.
- A cache set that has returned can be lost: when the first call's sweep joined and
  committed the open transaction, the statement of another call reopens one, and its
  rollback takes both calls' writes with it. A sweep that does not get the lock leaves
  the driver's transaction open, and every later set raises at its BEGIN.
- Two first calls of `_connect` at once open two connections, and the second replaces the
  first, which is never closed.
- A best answer without prices has slippage `None`, and the log line multiplies it by 100:
  `"no_price_data"` is never returned, the call raises. `get_balance` divides by 10^18
  whatever the token's decimals are.
- `CMCClient.close` closes the connector all clients share, and `_build_connector` returns
  it again.
- A held token is bought again after the cooldown and its lot overwritten
  (ARCHITECTURE.md:49), and a row is written also for a swap that failed
  (comment at `decision.py:192`).
- A token in several baskets belongs to the last of them, so lots bought for one
  narrative are sold as belonging to another in the next cycle (COMP, PENDLE).
- A token without a price is bought at 1.0.
- A trending basket can still be LONG (ARCHITECTURE.md:48): "AI Tokens" with a healthy
  return scores 21 without any attention points.
- A return of exactly 30 % earns no points although 29 % earns 25 and 31 % earns 10: the
  two bands leave it out (`signal.py:60`, `63`).
- Stops are rounded to six decimals, which is coarse for tokens priced in millionths.

## 6. Not modelled

`select_heartbeat_pair` of `risk.py` (a constant choice nothing calls), `get_balance` and
the contract calls of `quoter.py`, `get_fear_greed` of the client, portfolio weights and
reason texts of the signal (read by nobody), `get_recent_trades` and the module-level
`log_trade` of `log.py` (a read, log output), session and connector handling, opening of
connections, formatting and parsing in `utils.py`, `scripts/` (one-shot programs; of
`register_agent.py` the chain would be all there is to model) and everything under `old/`.

## 7. Plan

Done, in this order: limits and rules, wallet, engine, agent, the positions store
with its ledger, scoring, client and signal engine; snapshots, journal and cache on one
database, with the account the snapshots implement; the quoter; the proofs of section 4.

Left:

1. Composition of `SignalEngine` and `Agent` on one client, with held symbols in the
   price call, so that the age of the data at the moment of a buy can be stated.
2. Two agent processes on one positions table (a restart script that overlaps).
3. `register_agent.py`: the nonce is read once, and a second run before the first is mined
   takes the same.
