# Specification of smart_quant

TLA+ models of the XAUUSD trading engine in this repository, the TLC runs that
check them on small instances, and TLAPS proofs of the results that hold for every
configuration. Source paths below are relative to the repository root.

## 1. The system

```
 market-data FIX session                           trade FIX session
          |  35=W / X / Y                            ^ 35=D/F   | 35=8
          v                                          |          v
   FixMdGateway --log--> LobEventLogger         OrderManager  (QuickFIX trade thread)
   (QuickFIX md thread)                          ^   |  open_orders_
     | book_ (OrderBook)                send_ioc |   v
     +--> MdQueue (SpscQueue) --> alpha_thread_fn --> RiskManager
                                   SignalEngine (DeltaFactor, CancelFactor)
```

| Component | State | Operations | Interacts through |
|---|---|---|---|
| `RiskManager` | position flag, tracked order, PnL, fuse, slip counter, cooldown start | `check_signal`, `on_order_sent`, `on_fill`, `on_reject`, `on_timer`, `reset_daily` | called by the alpha thread and by the trade FIX thread, no lock |
| `OrderManager` | `logged_on_`, `order_seq_`, `open_orders_` | `send_ioc`, `cancel_order`, session callbacks, `on_execution_report` | alpha thread and trade FIX thread, no lock on the map |
| engine `main` | `g_running`, threads | signal handler, housekeeping loop, shutdown | starts and joins everything |
| `SpscQueue` | `head_`, `tail_`, `buf_` | `push` (md thread), `pop` (alpha thread) | atomics only |
| `OrderBook` | levels per side, entries by id | `update`, `lookup_entry`, `clear`, queries | written by the md thread, read by the alpha thread, no lock |
| `FixMdGateway` | `subscribed_`, `auth_failed_`, `logon_time_`, the book | session callbacks, `on_snapshot`, `on_incremental_refresh`, `on_md_reject` | log, book, queue |
| `DeltaFactor`, `CancelFactor`, `SignalEngine` | rings of time buckets, recent z-scores, last signal | `on_event` | alpha thread, or the backtest loop |
| `BinaryLogger` | mmap header and ring, reader cursor and bounce buffer | `write`, `flush`, `Reader::next`, `rewind` | a reader process on the same file |
| `sq_backtest` | pending signals, price history, counters | one loop over the records of a log | two signal engines, the book |
| `sq_logger` | `g_running` | poll `auth_failed()`, shut down | the gateway, without a queue |
| `MemoryPool`, `TscClock` | free list; calibration | `alloc`/`free`; `now_ns` | no user; read by all |

What is hard in this code: two threads share `RiskManager` and `OrderManager` without
a lock; time is an unsigned number read once per event and compared with times taken
on another thread; the connection may drop, lose or refuse an order between any two
steps; the ring is lock-free; the book is completed from itself while it is being
changed; everything the alpha thread does is driven by market data, the timeout
included; sessions end and come back with a book of the past; the binary log is read
by another process while its writer overwrites it or dies; rings of buckets are reused
after silences of any length. `PROJECT.json` lists these hazards line by line.

What makes each part right:

* RiskManager: cooldowns start exactly when the slippage rules say and block until
  they are over; the fuse follows the PnL.
* OrderManager and engine: an order that is tracked or live is never lost from
  `open_orders_`; after a gate closes on one thread the other lets at most one entry
  through; an entry never replaces a tracked order; a due position is closed; shutdown ends.
* SpscQueue: a bounded FIFO, without data races on the slots.
* DeltaFactor: the ring yields the net volume of the trades in the window.
* CancelFactor and SignalEngine: the z-scores are those of the cancellations in the
  window, and a signal's score is extreme among the recent ones.
* OrderBook and gateway: levels equal the sum of their entries, the log replays to the
  book, a Delete is logged with the order it ends, the queue is never ahead of the book,
  the subscription flag is right; across sessions no order of the past survives a snapshot; shutdown ends between two entries.
* BinaryLogger: a reader gets the records of its snapshot, complete, in order and with
  their own bytes, whatever the writer does meanwhile.
* Backtest: every signal is counted once, and as a win if the price moved its way in time.

## 2. Modules

| Module | Models | Notes |
|---|---|---|
| `RiskManager` | `src/risk/risk_manager.cpp` | fields as variables, one operator per method; `on_fill` in two halves, `FillBook` and `FillGate`, because the other thread can run between them |
| `RiskClient` | any sequential caller of RiskManager | one action per method, with the history of fills |
| `Broker` | the trade session and the broker (external) | orders at the broker, reports on the wire, the account's true position |
| `OrderManager` | `src/oms/order_manager.cpp` | `send_ioc`: out → insert → register → transmit (→ unwind); `on_execution_report`: idle → gate → erase |
| `TradingEngine` | `apps/engine/main.cpp` | composes the three above with the alpha thread, `main` and the signal handler |
| `BoundedFifo` | what the queue promises | abstract specification |
| `SpscQueue` | `include/smartquant/common/spsc_queue.hpp` | implements BoundedFifo |
| `DeltaFactor` | `src/alpha/delta_factor.cpp`, fed as in `SignalEngine::on_event` | the bucket ring beside the list of trades it stands for |
| `OrderBook` | `src/md/order_book.cpp` | the book as a value, methods as functions on it |
| `MdPipeline` | data path of `src/md/fix_md_gateway.cpp` | a message entry by entry: log, book, queue; `replay` is the book that the log rebuilds |
| `MdSession` | session side of the same file | logon, logout, reject, subscription |
| `MdGateway` | a process around the gateway: `apps/logger/main.cpp`, or the engine's use of it | composes the two above with `main`, the signal handler and `stop()` |
| `BinaryLogger` | `src/log/binary_logger.cpp` | writer byte by byte, reader in the steps of `next`, death and restart of the writer |
| `CancelFactor` | `src/alpha/cancel_factor.cpp` | the factor as a value, methods as functions on it |
| `SignalEngine` | `src/alpha/signal_engine.cpp` | the two factors combined, beside the list of all cancellations and samples |
| `Backtest` | `apps/backtest/main.cpp` | one action, the body of the loop |
| `MC*` | | values for the constants that a cfg cannot write |
| `*Proofs` | | theorems, section 5 |

Variables carry the name of the C++ field without its trailing underscore. A
definition commented "Fault" is a plausible bug in the method next to it. It is not
part of any specification; substituted for the method it shows that a property of the
runs can fail.

Abstractions that matter:

* Prices are the code's integers. Slippage, PnL and the three thresholds are kept
  multiplied by `kPriceScale`, so no division is needed and nothing is rounded.
* `uint64_t` differences wrap at `TimeMod` (`Sub64`). This is what makes a stale
  `now_ns` pass the cooldown test. `clock` never runs backwards.
* `open_orders_` is raced on by two threads. Undefined behaviour is represented by a
  lookup that may miss while the other thread is inserting or erasing. Inserting and
  erasing themselves are single steps: an insertion that the race loses, or a map that it
  corrupts, is not among the outcomes.
* The signal engine is a choice between no signal and a signal of either side. Prices
  read from the book are any of `Quotes`, so the race on the book is covered by it.
* `sendToTarget` delivers, loses the order silently, or throws `SessionNotFound`. A
  disconnect loses the reports on the wire (`ResetOnLogon=Y`).
* In `SpscQueue` an acquire load returns a possibly old index (`tail_view`,
  `head_view`), and copying an item takes time.
* The factor's volumes are doubles that only ever hold whole numbers: integers here.
* A missing required FIX field throws out of the handler: `EndMessage` at any entry.
* Session callbacks and data messages run one at a time on the QuickFIX thread; `main`
  polls beside it. `stop()` is QuickFIX's and external: it sends a logout and waits for
  the session to end, but only so long ("stopping", callbacks and messages go on), then
  joins the thread, which finishes the message in hand and drops the session ("joining").
* A byte of the binary log is the pair of its record and its place in it, so that a
  property can say whose bytes a reader was given. A header made of other bytes yields
  any length. What the writer has stored into the mapping survives its process; a loss
  of power, which may lose any page of it, is not modelled.
* A z-score over `n` buckets is `(n*c - S) / sqrt(n*Q - S^2)`; it is kept as its square
  with its sign, a fraction of integers, which orders like the score itself. The code's
  doubles round the same values; a tie with the threshold may fall to either side there.
  `0.95 * (n - 1)` is the integer quotient `Percentile * (n - 1) \div 100`.
* The backtest's book is the pair of best prices it is left with after each record, and
  the delta factor's value an input. Both engines see the same events, so one cancel
  factor stands for both; `1e9` is a number no score of the instance reaches.
* What CancelFactor keeps in pairs of fields, for the bids and for the asks, is a
  function of the side. Of a sample only the larger of its two scores is kept, which is
  all that `dynamic_threshold` looks at.
* The backtest's `pending` is a set: the signals due at a record are judged one by one,
  but none depends on another. The number of the record that raised a signal tells
  equal ones apart, and `outcomes`, the history of the verdicts, is a set as well.

## 3. Runs

Passing:

| Run | Specification | Checks | Bounds and why they suffice |
|---|---|---|---|
| RiskGates | `RiskClient!Spec` | TypeOK, SlipRunStartsCooldown, NoSpuriousCooldown, CooldownBlocks, FuseTracksLoss | slippage of 0, 3 and 6 ticks lies on either side of both thresholds; five fills hold a run of three broken by a good fill or an abort; a cooldown of 3 ends within 7 ticks |
| EngineGates | `TradingEngine!Spec` | TypeOK, EntryNeverOverwrites, OneEntryPastFuse, OneEntryPerCooldown | fills that slip past every gate, or expire; three ClOrdIDs and one beyond, so that two entries can follow the fill that closes a gate; the clock runs past the end of the first cooldown |
| EngineOrders | `TradingEngine!FlowingSpec` | FlagBackedByOpenOrder, LiveOrdersKnown, TimeoutForcesClose, ShutdownCompletes | an order of two parts so that it can be filled partially; two ClOrdIDs and one beyond, so that a close overtakes its entry; a timeout of 1 on a clock of 2 |
| SpscQueue | `SpscQueue!FairSpec` | TypeOK, NoSlotRace, ImplementsFifo | a ring of four slots wraps several times; two items suffice to see a loss, a repetition or a swap |
| DeltaWindow | `DeltaFactor!Spec` | NetDeltaExact, WindowExact, ShortSilenceHarmless | a window of two buckets in a ring of four wraps; five events at distances within a bucket, of a window, and of more than four windows, so that the ring falls behind, catches up in several events and ends on a partial step |
| PipelineBook | `MdPipeline!DataSpec` | LevelsMatchEntries, ReplayMatchesBook, ReplayKnowsLiveOrders, BookAheadOfQueue, DeletesNameOrders | three entries: a New, a Change or a second New of the same id, a Delete; id 0 is also the id of entries without one; snapshots at any point |
| Gateway | `MdGateway!FairSpec` | TypeOK, SilentOnlyAfterFastLogout, NoGhostOrders, ExitOnWholeEntries, AuthFailureStops, SignalStops | three sessions, each fast or slow, and two entries, so that a book is built in one session, met by a snapshot in the next, and a signal comes in the middle of a message, which may be followed by others while `stop()` waits; both applications |
| LogReader | `BinaryLogger!Spec` | RecordsInOrder, NothingWithheld, EntriesStayValid, ReaderBounded, BounceOnce | a ring of six bytes and four records of two to five: headers and payloads fall across the end, the ring goes round up to three times, the writer overtakes readers, dies at every byte and starts a second file; records of 3, 4 and 2 bytes give a pass that began at a record a payload to bounce |
| Backtest | `Backtest!Spec` | ZScoresExact, SignalIsExtreme, NoSignalWhileCold, TallyComplete, WindowByTheClock | five records at distances of half a bucket, a window, and more than a ring: two signals can be raised and judged, one at a record that leaves the ask side empty; samples expire; the ring lags behind the clock; a percentile of 60 has the quantile fall in the middle of so few samples |

Runs that end in a counterexample, each a disagreement between the code and the
repository's own text (`findings` in `PROJECT.json` quotes both):

| Run | Property | What happens |
|---|---|---|
| EnginePosition | MaxOnePosition | `on_fill` clears `has_position_`; nothing closes what was bought, and the next signal buys more |
| EngineReports | FillsReachRisk | ExecType TRADE, the only one FIX44.xml has for a trade, has no branch |
| BacktestWins | WinWithinHorizon | only the first price at or after the horizon decides: a signal whose price moved a tick its way within 5 s and came back is a loss |

Other places where the code does less than its text says are written as exceptions into
properties that hold:

* FuseTracksLoss names the early return of `on_fill`: a fill beyond
  `single_slip_abort_ticks` that crosses the loss limit leaves the fuse unblown until
  the next fill.
* OneEntryPerCooldown says at most one, not none (`risk_manager.hpp`: "Returns false if
  trading is blocked"): `now_ns` may be older than `cooldown_start_ns_`, the difference
  wraps, and one signal passes.
* TimeoutForcesClose holds under `FlowingSpec` only: `on_timer` runs once per event, and
  with no market data a position due stays open (`risk_manager.hpp`: "Must be called
  periodically").
* SilentOnlyAfterFastLogout names the logout within 3 s that leaves `subscribed_` set,
  after which the next logon requests nothing (`fix_md_gateway.hpp`: "Send a
  MarketDataRequest for XAUUSD on logon").
* ReplayMatchesBook names the snapshot: it clears the book and logs nothing. After a
  second snapshot the log replays to a book with orders the live one no longer has;
  ReplayKnowsLiveOrders says that this is the only difference in the entries.
* WindowExact names the catch-up of `advance_time`: after a silence longer than
  `num_buckets_` buckets the head bucket lags behind the clock, and meanwhile a trade
  drops out of the window with the very next event. In CancelFactor the head may lag in
  the same way; ZScoresExact therefore speaks of the window that ends at the head, and
  WindowByTheClock says what that window is by the clock: nothing in it is older than a
  window and a bucket, and only a cancellation that was itself put in a bucket behind the
  clock can leave it early.
* DeletesNameOrders excepts the Delete of an order that a snapshot took out of the book:
  the log still has the order, but the record of its Delete gets the defaults, a bid at
  price 0 (`fix_md_gateway.cpp:237`: "so the log record is complete").
* The properties of LogReader other than ReaderBounded and BounceOnce suppose
  `Sound`: the pass began at a record, and the writer has not come round to it. Neither
  is ensured by the code. After a wrap the reader starts `buffer_size` bytes before the
  end, in the middle of a record unless the lengths happen to fit (`binary_logger.hpp`:
  "oldest record still in the ring"). A writer that goes on overwrites what the reader
  has yet to read, with no way for it to notice ("consistent view", "valid while this
  Reader is alive"). A writer that dies after a wrap, in the middle of a record, has
  damaged the oldest one. A new logger on the path truncates the file under the reader.
* TallyComplete names the signals whose record at the horizon leaves a side of the book
  empty: they are dropped, and stay in the denominator of `win_rate()`, but not of
  `sf_win_rate()`. A buy signalled while the ask side is empty has entry price 0 and is
  always a win.
* NoSignalWhileCold holds for `sf_engine` by its floor of 1e9, which no score exceeds:
  the "Single-factor engine (delta only, cancel threshold set very high)" of
  `apps/backtest/main.cpp:70` never signals (theorem SingleFactorIsSilent), `sf_total`
  stays 0, and the two-factor win rate is compared with nothing.
* AuthFailureStops allows the failure to be cleared by a later logon before the logger's
  next round. The engine never looks at `auth_failed()`.

`CHECK_DEADLOCK FALSE` wherever the model stops at a bound (clock, ClOrdIDs, sessions,
events, records) or after shutdown.

## 4. Fairness

* `FairSpec` of TradingEngine: weak fairness of the alpha thread, the trade FIX thread
  and `main` as wholes. They are operating-system threads that are never blocked by
  each other. Nothing is assumed of the broker, the session, the feed, time or the
  operator; nor that a signal is raised.
* `FlowingSpec` adds that market data keeps arriving, which is what TimeoutForcesClose
  needs. ShutdownCompletes does not depend on it:
  `md_gw.stop()` ends the feed before the alpha thread is joined.
* `FairSpec` of SpscQueue: the consumer keeps polling (`alpha_thread_fn` spins) and a
  release store becomes visible in finite time. The producer may stop anywhere.

* `FairSpec` of MdGateway: the QuickFIX thread finishes the message it is in, and `main`
  is scheduled, which includes that the wait inside `stop()` is limited. Nothing is
  assumed of the broker, its answer to the logout included, of new messages or of the
  alpha thread.

## 5. Proofs

All proofs hold for every value of the constants under the named assumptions of the
modules: thresholds and durations are natural numbers, `ConsecSlips` is positive, 0 is
a price, the clock stays below `TimeMod`, a ring has at least one slot (two in the
queue), the window of a factor is a number of whole buckets that fits its ring, a
record fits the ring of the log, the ids of a book are finitely many, the percentile is
below 100, the horizon of a signal is positive, and the floor of the cancel factor is
not negative.

| Theorem | States | Argument |
|---|---|---|
| `RiskClientProofs!TypeCorrect` | TypeOK | inductive as it stands |
| `RiskClientProofs!FuseCorrect` | FuseTracksLoss | inductive with TypeOK; `FillFuse` says what one fill does to the fuse and the PnL |
| `RiskClientProofs!CooldownCorrect` | CooldownBlocks | not inductive: it does not say that the start that counts is the latest one. `CooldownInv` does, and that it lies in the past, so the difference does not wrap |
| `RiskClientProofs!SlipRunCaught` | SlipRunStartsCooldown | `SlipInv` relates `consec_slip_count_` to the history: it counts the slipped fills at its end that started no cooldown, and the fill before them broke the run or started one |
| `RiskClientProofs!CooldownHasReason` | NoSpuriousCooldown | the cases of one fill (`FillSlip`) under `SlipInv` |
| `TradingEngineProofs!TypeCorrect` | TypeOK | one lemma per thread |
| `TradingEngineProofs!FuseHolds` | OneEntryPastFuse | `FuseInv`: once one entry has slipped through, the fuse is blown and no entry is under way |
| `TradingEngineProofs!CooldownHolds` | OneEntryPerCooldown | `CooldownInv`: after the first entry every further clock reading is later than the cooldown's start (`TimeInv`), so the next check sees it |
| `TradingEngineProofs!EntryIsFirst` | EntryNeverOverwrites | between check and registration only the FIX thread runs, and it only clears the flag |
| `TradingEngineProofs!FlagBacked` | FlagBackedByOpenOrder | `OrderInv` below |
| `TradingEngineProofs!LiveKnown` | LiveOrdersKnown | `OrderInv` below |
| `SpscQueueProofs!TypeCorrect` | TypeOK | inductive as it stands |
| `SpscQueueProofs!RaceFree` | NoSlotRace | `RingInv`: each side's view of the other's index lies between it and the true one |
| `SpscQueueProofs!Refinement` | `Spec => Fifo!Spec` | same invariant; the check maps to Offer, publishing to Put, releasing to Get, all else to a stutter |
| `MdGatewayProofs!LevelsAreSums` | LevelsMatchEntries | `SumInv`: each method of the book changes one entry, hence one term of a sum (`SumSplit`); once a second New has overwritten an entry, a level is at least its sum |
| `MdGatewayProofs!ReplayIsBook` | ReplayMatchesBook | `LogInv`: the replayed book equals the live one with the entry in hand applied, as long as no snapshot cleared orders |
| `MdGatewayProofs!ReplayComplete` | ReplayKnowsLiveOrders | `LogInv`: the same update on both books keeps what one knows of the other (`UpdateKnows`); a snapshot only empties the live one |
| `MdGatewayProofs!DeletesAreComplete` | DeletesNameOrders | a step under `LogInv`: a Delete is logged between two entries, where the log knows each order of the book |
| `MdGatewayProofs!BookAcrossSessions` | levels and replay, the first three above, in MdGateway | the steps of the process are steps of the data path, or leave its state alone |
| `MdGatewayProofs!TypeCorrect` | TypeOK | one lemma for the data path, one for the session |
| `MdGatewayProofs!SilenceExplained` | SilentOnlyAfterFastLogout | `FlagInv`: a flag set while the session is down was left by a fast logout |
| `MdGatewayProofs!GhostsCleared` | NoGhostOrders | a snapshot clears the book, and an update only adds the id it names |
| `MdGatewayProofs!QueueFollowsBook` | BookAheadOfQueue | `OrderInv` of the module: at the push, what is logged has been applied |
| `MdGatewayProofs!WholeAtExit` | ExitOnWholeEntries | `StopInv`: `main` is done only when the QuickFIX thread is idle |
| `DeltaFactorProofs!DeltaExact` | NetDeltaExact | `WindowInv` below; the sum over buckets is the sum over trades grouped by bucket (`SumByClass`) |
| `DeltaFactorProofs!WindowIsExact` | WindowExact | `WindowInv`: while the head lags, only trades of the event in hand are counted |
| `DeltaFactorProofs!ShortSilence` | ShortSilenceHarmless | a window is one bucket less than `num_buckets` |
| `BinaryLoggerProofs!Bounded` | ReaderBounded | `PassInv`: a pass covers at most one turn, and a payload on its way to the bounce buffer fits into it |
| `BinaryLoggerProofs!OneBounce` | BounceOnce | not inductive: two entries of a pass that crossed an end of the ring (`GotInv`) would hold two ends a whole turn apart, in a pass that covers one turn |
| `BinaryLoggerProofs!InOrder` | RecordsInOrder | `RecordInv` below |
| `BinaryLoggerProofs!NoneWithheld` | NothingWithheld | `RecordInv`: the header a sound pass meets is that of the record it stands at, and its end is no later than the snapshot |
| `BinaryLoggerProofs!DataStaysValid` | EntriesStayValid | `RecordInv`: the bytes of a record stay in their places until the writer comes round; a second payload cannot reach the bounce buffer (`OneBounce`) |
| `BacktestProofs!TallyIsComplete` | TallyComplete | `SettleInv` below; pending signals are told apart by their records, so that counting them after a step is counting the parts they split into |
| `BacktestProofs!WindowFollowsClock` | WindowByTheClock | `ClockInv` below |
| `BacktestProofs!ScoresAreExact` | ZScoresExact | `ScoreInv` below |
| `BacktestProofs!SignalsAreExtreme` | SignalIsExtreme | `FactorInv` below; the quantile exists, and at least `idx + 1` samples are no larger than it (`Threshold`) |
| `BacktestProofs!NoColdSignal` | NoSignalWhileCold | `FactorInv`; a deviation among `n` numbers is at most sqrt(n - 1) standard deviations (`PeakBound`) |
| `BacktestProofs!SingleFactorIsSilent` | no signal under a floor beyond a full ring | NoColdSignal, and a ring holds at most `Ring` buckets |

`OrderInv` of TradingEngineProofs has four parts. Ids in use were issued (`IdInv`), so
a new one is fresh. Nobody has heard of an order before it is transmitted (`UnsentInv`),
so no report can erase the draft. The tracked order is not the one whose report is in
hand (`TrackInv`), so that erasing after the report leaves it. The broker works once on
each order, and no report that ends it is on the wire or in hand (`LiveInv`).

`WindowInv` says of the ring that its live buckets are one bucket size apart (`Tiled`),
that each holds the net volume of the trades put into it (`Exact`), and that a trade
whose bucket is gone lies a whole ring behind the head (`Placed`), hence outside the
window. NetDeltaExact alone is not inductive: it does not say which bucket a volume is
in, and so not what a sum loses when the window moves.

`RecordInv` says that the records of a file lie end to end (`ChainInv`), that the last
`BufSize` bytes stored are in their places (`ContentInv`), that a snapshot ends where a
record ends (`SnapshotInv`), and that a sound reader stands at the record after the last
one it returned (`ReadInv`).

`SettleInv` adds to TallyComplete that the signals pending and those settled are different
ones, told apart by the record that raised them (`SignalInv`): without it a signal could
be counted on both sides of the sum.

`ClockInv` says of a head behind the clock that every cancellation in its window came
with the event in hand: the catch-up has moved it by a whole ring, past all earlier ones.
WindowByTheClock alone does not say where a lagging head may stand.

`ScoreInv` says of the cancel factor's ring what `WindowInv` says of the other (`RingInv`:
`Tiled`, `Exact`), and that it reaches back to the first event or is full (`Reaches`), so
that the buckets in the window are the ones the definition counts, empty ones
included. The scores are then equal term by term. It also bounds each score by the number
of buckets.

`FactorInv` adds that the samples kept are a final part of all the samples ever taken,
cut exactly at the time span of the quantile (`SampleInv`: timestamps never decrease, so
dropping from the front until the first that is not too old drops all that are), that
the last of them is the score in hand, and that the decision was taken against the
threshold of these very samples (`DecideInv`). That `dynamic_threshold` has a value at
all is `QuantileExists`: among the samples that enough others do not exceed there is a
least one. Scores are fractions with positive denominators because s^2 <= n*q for n
numbers with sum s and sum of squares q (`Spread`), and such fractions are ordered like
numbers (`FractionOrder`).

`ArithProofs` holds the facts about numbers, sums, cardinalities, deviations and
fractions that several proofs need. The
induction over finite sets that sums require is done there by a minimal counterexample
(`MinimalSubset`, from the library's theorem that the strict subsets of a finite set are
well-founded), because the induction theorems themselves take an operator as parameter.

Only model-checked: liveness (`TimeoutForcesClose`, `ShutdownCompletes`, the fair part
of `ImplementsFifo`, `AuthFailureStops`, `SignalStops`), since the prover handles
neither fairness nor ENABLED. Every other property of a passing run is stated by a theorem.

## 6. Not modelled

* `MemoryPool`: no code of the repository uses it, so there is no use of it to check; a
  sequential free list by itself holds nothing that could go wrong over several steps.
* `TscClock`: its one question is the rounding of a double product beyond 53 bits. The
  other modules use a clock that never runs backwards.
* `LobEventLogger` is included by the sources and not part of the repository.
* The decoration of outgoing FIX messages; the queries and callbacks of `OrderBook`;
  core pinning, logging, configuration, start-up errors.
* A new logger that truncates the file under a mapped reader marks the reader's pass as
  torn; the SIGBUS a reader gets beyond the new end of the file, and a new file with
  another `buffer_size`, are not represented.
* The race on the book's `std::map` is not modelled as memory corruption.
* Records of the binary log larger than its ring, which `write` does not refuse.
* In TradingEngine the signal engine remains a choice: nothing its threads do depends on
  which events raise a signal.

## 7. Plan

Done, in this order: RiskManager; OrderManager, Broker and TradingEngine; SpscQueue;
OrderBook and MdPipeline; MdSession; DeltaFactor; MdGateway, which composes the two
sides of the gateway with the applications; BinaryLogger; CancelFactor, SignalEngine and
Backtest; the proofs of section 5.

Every safety property of a passing run is proved. What is left:

1. A theorem that relates the modules that describe the same code twice: TradingEngine
   lets the signal engine choose freely, and NoSignalWhileCold and SignalIsExtreme
   restrict what it can choose.
2. A common module for the two rings of buckets, whose invariants have the same form,
   if a third factor is added.
