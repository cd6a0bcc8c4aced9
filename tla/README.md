# Verification of Leafsii

Leafsii issues two tokens against a reserve of SUI: fTokens, worth one dollar
each, and xTokens, which own what is left of the reserve and thus carry the
leverage. Move packages hold the money (`walrus-leafsii/sources`), a Solidity
vault holds ETH, and a Go backend (`webservice/backend`) bridges the two and
serves the web site. This directory holds TLA+ specifications of the parts that
move money and of the concurrent parts of the backend, the TLC configurations
that check them and proofs for TLAPS.

`PROJECT.json` maps every definition to the lines it models and lists the runs,
the mutants that show that each property can fail, the findings and the hazards.

## Inventory

| Component | State | Operations | What makes it correct |
|---|---|---|---|
| Stability pool (`stability_pool.move`) | fTokens in custody, global `sp_scale`, reward index, obligation; shares and snapshot per position | deposit, withdraw, rebalance burn, harvest, settle and claim | what depositors are owed is always covered by the obligation; no legal call underflows |
| Protocol (`leafsii.move`) | reserve in custody and on the books, fees, two supplies, cached prices, settings, tickets | mint and redeem f and x, delegated redemptions, claim / execute / reclaim tickets, oracle update, rebalance, claim rewards, admin | books and custody agree; holders are not diluted; a solvent protocol honours its fTokens; a ticket is paid or reclaimed exactly once |
| Staking helper (`staking_helper.move`) | staked SUI, FSS, pending stakes, tickets | stake, settle, switch validator, tickets | no stake is lost between epochs |
| Oracle (`oracle.move`) | price, timestamp, pause flag | update, read | stale or paused prices are refused |
| Fixed-point math (`math.move`) | none | `mul_div` and variants | rounding direction, no silent overflow |
| Bridge (`internal/crosschain`) | checkpoints, balances, a bounded job channel, running calls | submit deposit, worker loop, redeem, post checkpoint | balances and totals agree; nobody is paid twice; every call returns |
| In-memory store (`pkg/kv/memory`) | four maps, one map of deadlines, a janitor goroutine | all methods of `kv.Store`, Close | every operation acts at once on what readers see; expired values do not come back |
| Failover store (`pkg/kv/failover.go`, `factory.go`, `pkg/kv/redis`) | active store, probe goroutine, promotion handlers, a mutex | start, calls with retry, demotion, probe, promotion, Close | one probe; nobody waits for ever; the way back to Redis |
| Read path (`internal/api/handlers.go`, `internal/onchain`, `internal/util/singleflight.go`, `internal/store/cache.go`) | keys in flight, cache entries with a ttl | read endpoints and quotes | one caller per key asks the chain; no key is left behind; reads do not go back in time; no free round trip |
| Live updates (`internal/store/pubsub.go`, `internal/ws`) | subscriptions with bounded channels, WebSocket clients with two pumps | publish, subscribe, stream, register, broadcast, clean up | no panic; the order of each publisher; whoever leaves is cleaned up |
| Price feed (`internal/jobs/price_publisher.go`, `internal/prices`, `internal/api/candles.go`) | provider in use, its health, loops and streams, history and candle per symbol | start, fall back, recover, tick, chart | an outage is noticed and recovered from; candles and history are those of the ticks; charts are aligned and current |
| Crosschain vault and registry (`crosschain_vault.move`, `collateral_registry.move`) | series, checkpoints, vouchers, rate limits, risk configuration | update checkpoint, mint from shares, redeem, vouchers | minted value is backed by attested shares; a voucher is paid once |
| Ethereum vault (`WalrusEthVault.sol`) | shares, index, vouchers | deposit, redeem voucher, rebase, void | a voucher is paid once and only with a valid proof |
| Gauges, emissions, veLFS, vesting | integrals, weights, locks, schedules | checkpoint, vote, claim, lock, vest | no reward is paid twice; locks decay linearly |
| Transaction builders, query database, initializer, frontend | none of their own, or an example's tables | transaction building | not modelled |

How they interact. The protocol holds the pool's admin capability, so only it
calls `sp_controller_rebalance`, `burn_from_pool` and `decrease_obligation`;
holders call `deposit_f` and `withdraw_f` on the shared pool object directly.
The protocol reads the oracle and hands out tickets of the staking helper. The
backend's bridge worker takes deposits from HTTP handlers, redeems from HTTP
handlers and from Sui events, and calls a price service, Walrus, a mint handler
and a payout handler. HTTP handlers read the chain through services that share
single flights and one cache; the cache is a key-value store, which is Redis with
the in-memory store behind it, or the in-memory store alone. The price publisher
writes ticks to the cache and publishes them on price channels; streams subscribe
to these and forward them to browsers. The WebSocket hub is a subscriber of the
same publish/subscribe hub, but of the channels for protocol state and events
(`hub.go:133-142`), on which nothing in the repository publishes yet.

What is hard. On chain every transaction is atomic, so the difficulty is long
sequences of legal calls, independent roundings and cached values (the xToken price,
the level, the reward snapshot). In the backend it is concurrency: locks around each
call but not around sequences of calls, a lock given up and taken again, goroutines
that stop one another, channels that are full or closed by several parties, shared
data that goroutines write without a lock, health that is read and acted on later,
and remote calls that fail, time out or lose their answer.

## Modules

| Module | Models |
|---|---|
| `FixedPoint` | the arithmetic of `math.move`: the value of each function; its two aborts (zero divisor, result too wide) are guards of the callers |
| `StabilityPool` | `stability_pool.move`, one action per operation |
| `Leafsii` | `leafsii.move` composed with the pool (it extends `StabilityPool`, whose variables are the shared pool object) |
| `BridgeWorker` | `bridge_worker.go` over `service.go`, for one chain and asset |
| `KvContent` | what a key holds and what each operation makes of it |
| `LossyStore` | abstract specification: a store that acts at once and may forget keys |
| `MemoryStore` | `memory/store.go`, shown to implement `LossyStore` |
| `Failover` | `failover.go` and `factory.go`, with the error classes of `redis/store.go` |
| `Quotes` | `internal/calc` and the quote functions of the services, in exact fractions |
| `CachedReads` | handlers, services, single flight and cache, composed with `Quotes` |
| `LivePush` | `pubsub.go`, `sse.go` and `hub.go`, composed: the hub is a subscriber |
| `Candles` | candles and chart history, as operators |
| `PriceFeed` | the loops, streams, fallback and health check of `price_publisher.go` |
| `TickPipeline` | `processTick` as several loops of a symbol run it at once, and the charts of `candles.go`, composed with `Candles` |
| `*Proofs` | theorems about the module they are named after; `LeafsiiProofs` also about the pool, which the protocol composes |
| `SumTheorems` | lemmas about sums over finite sets, used by the proofs about the pool, the protocol, the bridge, the live updates and the tick pipeline |
| `MC*` | TLC instances |

**StabilityPool.** The variables are the fields of `StabilityPool` and
`SPPosition`. A Move transaction that aborts changes nothing, so asserts,
divisions and width checks are guards. The rebalance action includes the
`burn_from_pool` that the protocol performs in the same transaction. `deposit_f`
and `withdraw_f` settle the position and drop the settled amount, as the code
does.

**Leafsii.** Custody (`reserve_buffer_sui`) and the books (`reserve_balance_sui`,
`fees_collected_sui`) are separate variables, as in the code: most properties are
about their relation. Holders are anonymous; a redemption may burn any tokens
outside the pool. Tickets are slots, bounded by `NumTickets`. Nothing ever sets
`current_validator_address`, which `init_protocol` leaves at `@0x0`, so nothing
is staked: `rebalance_buffer` and `settle_and_consolidate` change nothing,
`withdraw_fees` always aborts, and the FSS top-up of ticket payments fails.
These operations are therefore not actions. There is one protocol and one pool. A
`RedemptionTicket` carries no protocol id (`staking_helper.move:78`) and an
`SPPosition` no pool id, while `init_protocol` is public, so with a second instance
the code would accept tickets and positions of the other one; that is outside the
model.

**BridgeWorker.** One action is the code between two points where goroutines can
interleave: a `Service` method (atomic under its mutex), a channel operation, a
remote call; the end of the worker's context (`StopWorker`). The worker's local
variables are the record `worker`; each redeem has its own program counter and its
own view of the latest checkpoint. Callers may give up at any time and their job
stays queued. Remote calls may fail; a mint whose answer is lost is reported as
failed although it happened. Decimal amounts are integers in the model; the
instances use even amounts so that the 50/50 split is exact. The key is
ETHEREUM:ETH, the only one `fetchUSDPrice` has a price for and a seeded one, so the
branches for a key without a checkpoint (`bridge_worker.go:506`, `556`) are not
reached. A monitor may post any block and any total that is not negative for it
(`PostCheckpoint`; the handler checks neither, and negative totals are left out) and
checkpoints of other keys (`PostElsewhere`), which use up ids. A deposit too small
for a share is refused by `CreditDeposit` after its checkpoint was stored
(`WorkerCredits`). `drift` is a history variable: what updates overwrote, what posts
added and what refused debits left behind.

**MemoryStore.** Every method is one action, because it runs under the store's
lock, except that a reader which finds its key expired gives up the read lock and
takes the write lock without looking again: `SeeExpired` and `EvictSeen` are two
steps and any write may come between them. The four maps from keys to values are
one record per key. `Lossy` instantiates `LossyStore` with what readers see
(`Visible`): nothing if the deadline has passed, the entries otherwise. A value
written between the two locks is evicted; for `LossyStore` that is forgetting it,
which the store may always do, so the refinement says that such a race loses a
value but never shows an old one or a mixture. Calls after Close work on the emptied
maps. A second Close would panic on the closed channel; the program closes a store
once.

**Failover.** A call loads the active store, runs, and depending on the class of
its error demotes and retries. The probe goroutine, the two handlers that receive
promotions and Close have program counters; the mutex is held only across the
join of the probe, so it appears only there. `sameType` distinguishes the stores
of the tests (one concrete type, every failure reported as unavailable) from the real
ones (two types, and only Set, Get and Ping of the Redis adapter report a lost
connection): `ReportsUnavailable`. `atomic.Value.Store` panics on the latter, which
the model shows as ended calls. Calls may come during and after Close; Close itself
is called once (`cmd/api/main.go:69`), a second one would panic.

**CachedReads.** A request goes through its reads one after the other, each
through `Do`, `Get`, the chain, `Set`. The chain is a counter of versions with a
protocol state and a stake at each; a cached value is the version it came from.
`ProtocolState` makes three calls, so the two supplies may be of later versions than
the reserve (`FetchState`, `FetchFSupply`, `FetchXSupply`); the Sui client's index and
stake are constants (`client.go:207-228`), other implementations of `ChainReader` may
have them change. Amounts out of bounds are refused before anything is read
(`RefuseAmount`). A state that fails `ValidateProtocolState` is returned but not cached
(`Sane`); the Sui client's unsigned amounts never fail it. After fifteen seconds
`http.TimeoutHandler` answers 503 in place of the handler, whose goroutine goes on as
modelled: `Finish` is the handler's return, not what the browser sees.
Records of two services share one key; reading the other's record gives zeros, as
the JSON decoder does (`Decode`). `served` and `faulted` are history variables.

**LivePush.** A publisher copies the list of subscriptions under the lock and then
sends to each without it; any number of publishers may do so on one channel and
overtake each other, as two live loops of a symbol do. Closing a channel twice or
sending to a closed one sets `crashed` to `"panic"`; the unlocked map access of read
pump and broadcast may set it to `"race"`. Clients are removed from the map by three
parties. Not modelled: an upgrade that fails (it never becomes a client), a payload
that does not parse (everything published is a `Message`, `sse.go:265`), and the
`broadcast` case of `Run` (`hub.go:116-126`), which has no sender. The module is
about the handlers by themselves: see below for what the deployed router does to
them.

**PriceFeed.** One action per step between which loops, streams and the health check
can interleave: choosing the provider, dialling it, the failure of a stream, and the
reading and the use of the health are separate steps. What is done with a tick is
reduced to caching its price.

**TickPipeline.** One action per call of the cache and per access of the shared
candle: `AddTick` has no lock, so loops of one symbol interleave between the test and
the assignment of each field, and a candle with its high below its close is a
reachable state. A tick carries a time of its own (the exchange's event time or the
generator's clock), so ticks may be late; one of an older interval replaces the
candle, as in the code. `torn`, `seen`, `clean` and `saved` record which loops met and
what was added, for the properties. A chart is the exchange's answer or generated
from the cached price; the default prices of the symbols are one `DefaultPrice`, and a
random walk is any of `Walks`. Nothing in the repository reads the keys `fx:candles`
and `fx:ticks`: of them the history is modelled, because later ticks build on it, and
the copies of the candles are not.

## Runs

Passing runs:

| Run | Shows |
|---|---|
| `pool` | `PoolTypeOK`, `SharesAccounted`, `RewardsCovered`, `WithdrawalSharesSuffice`, `RewardsLeavePaidOrSettled` for two depositors, narrow words and coarse scales, so that every rounding and every width limit occurs |
| `protocol_rebalance` | `SolventRedeemable`, `PxStaleOnlyByPayout`, `RebalanceHelps`, `ObligationStrandedOnlyByBurn` with two depositors, price falls and burns. The target is 130 at a scale of 10: `leafsii.move:1753` multiplies by the scale once too often, so that 130 means a ratio of 1.3 and the documented targets (13) never burn anything |
| `protocol_tickets` | `LeafTypeOK`, `CustodyNeverAhead`, `NoDilution`, `GapOnlyByBonusOrKeeper`, `UnexpiredTicketPaid`: mints and redemptions at all levels (prices 0.6 to 1), bonus and keepers on as in the defaults of `init_protocol`, the clock passing the expiration |
| `bridge_deposits` | `DepositsProgress`: three deposits, a channel of one, mint failures, callers leaving |
| `bridge_races` | `PaidCovered`, `TotalAccountedFor`, `UpdateIdsMonotonic`, `BridgeTypeOK`: one deposit, three redeems, posts of the very next block with another total and posts for other assets |
| `kv_memory` | `ImplementsLossy`, `LRangeSelects`, `JanitorProgress`: every method on a key, two readers between their locks, pushes of no, one and two values, Close |
| `kv_failover` | `OneProbe`, `NobodyStuck`, `ProbeRestores`: three calls, an outage, both kinds of stores, Close at any time |
| `reads` | `FlightsLed`, `MonotonicReads`, `NoRoundTripProfit`, `FlightEnds`: three requests for any of eight endpoints, two versions of the chain, a cache that expires and fails. `NoRoundTripProfit` is about the quotes' rates: their outputs do not depend on the protocol state |
| `push` | `NeverPanics`, `ConnectionsCounted`, `InOrderOnce`, `LeftIsUnlisted`, `DroppedIsStopped`: a stream of two channels, the hub and a client, two publishers of one channel |
| `feed` | `OutageNoticed`, `RecoveryResubscribes` for two symbols, three failures and a restart of the loops |
| `ticks` | `CandleIsBarOfTicks`, `HistoryIsRecentTicks`, `ChartContinues`: two loops of a symbol, late ticks, a cache that fails and expires, charts from the exchange and generated ones |

One run refutes a statement of the repository (a finding with its quote in
`PROJECT.json`): `doc_duplicates`. A duplicate caller of single flight "waits for
the original to complete and receives the same results"
(`internal/util/singleflight.go:48`); in fact it waits for a `WaitGroup` that
`doCall` never releases, so its handler hangs (the browser has a 503 after fifteen
seconds). `FlightEnds` shows how far the damage goes: the leader still frees the key
for later requests.

## Where documents and code differ

Met while modelling; the passing properties say exactly how far the code goes.

* The reserve does not always cover the pool's obligation
  (`walrus-leafsii/README.md:319`): a burn can take it below.
  `ObligationStrandedOnlyByBurn` says that nothing else does; no property keeps a
  burn from it.
* The stability bonus leaves custody and is also added to the books
  (`leafsii.move:1180`), so they drift apart by exactly twice the
  bonus (`GapOnlyByBonusOrKeeper`). The defaults pay a bonus, so books and custody
  are equal only until the first redemption that earns one.
* A target ratio given to `protocol_rebalance_l3_to_target` in its documented scale
  never burns anything (`leafsii.move:1753`, see the run above).
* `update_from_oracle` measures staleness from the protocol's own last update: a
  pause longer than the limit freezes the price for good, although the comment at
  `leafsii.move:780` speaks of the oracle's data.
* Rewards pending at a deposit or withdrawal are dropped (`stability_pool.move:334`)
  where the module header says that they can be claimed at any time.
* Two goroutines of the bridge that read the same checkpoint lose one update of
  the total, against `webservice/CROSSCHAIN_IMPLEMENTATION.md:60`. A monitor's post,
  of any block, replaces the total too, and a refused debit leaves one that is too
  low; `TotalAccountedFor` shows that there is no fourth way.
* `claim_sp_rewards` and `reclaim_expired_ticket` do not call `update_px`
  (`PxStaleOnlyByPayout`); a rebalance below a ratio of one lowers the ratio
  (`RebalanceHelps` shows the opposite above one); the keeper's fee is taken from
  the shared buffer.
* The API server configures no payout handler, so a redeem debits the owner and
  returns a receipt without a payout; a failed payout does not undo the debit.
* `pkg/kv/USAGE.md:101` promises an automatic switch back to Redis. A demotion
  between `SwitchToPrimary` and `StopProbing` finds a probe running, starts none,
  and the handler then stops the one there is: the store stays on memory until the
  next failure. `ProbeRestores` therefore assumes that a probe is looping and does
  not cover the lost probe. With the real stores the first demotion already panics
  in `atomic.Value.Store` (`failover.go:77`), because the two have different
  concrete types. With stores that report every failure as unavailable a counter or
  a push whose answer was lost is run again on the fallback and counts twice;
  nothing promises otherwise.
* A `Set` or `MSet` without a ttl keeps the deadline of the value it replaces; a
  deadline also survives the removal of the last member of a collection;
  `Expire` with a ttl that is not positive makes the key persistent; `SAdd` and
  the pushes of no values create an empty entry; at the instant of the deadline
  `TTL` says 0 while `Get` still returns the value.
* `UserService` and `StabilityPoolService` cache different records under one key.
  A failing `Set` together with a failing `Get` takes reads back in time
  (`MonotonicReads` excludes it by `faulted`).
* Quotes: the fee keeps the scale of the input while the output is divided by it;
  the ratio of xToken quotes is compared with the xToken supply; cached quotes are
  never read; `ValidateProtocolState` cannot fail for unsigned values; an unknown
  candle interval becomes an hour, so `INVALID_INTERVAL` cannot occur;
  `GetHealth` divides by the fToken supply, which may be zero (the request fails,
  the server recovers).
* A stream takes the symbol of its price topic from the handler's field `request`,
  which the connection that came last has set (`sse.go:31`); messages of two
  publishers of one channel may come in another order than they were published;
  pongs do not count as activity, so a quiet client is dropped after a minute
  (`hub.go:326`).
* Every route, `/v1/ws` and `/v1/stream` among them, is behind `http.TimeoutHandler`
  (`routes.go:19`), whose writer is neither an `http.Hijacker` nor an `http.Flusher`:
  through this router every WebSocket upgrade fails, and what a stream sends is not
  flushed before the timeout ends it.
* After a failed subscription a loop of the price publisher waits on a channel
  nobody writes to, and each recovery adds a loop per symbol; two live loops
  overwrite each other's history and race in the aggregator, where they can tear a
  candle (a high below the close). `RecoveryResubscribes` holds while the primary is
  in use: if all its streams are dead it never becomes healthy again.
* A generated chart starts at the cached price and ends a random walk away from it
  (`generator.go:70-80`), so the next tick may jump; a late tick of an older interval
  replaces the current candle (`price_publisher.go:222`).
* The pool's scale is shrunk by a rounded fraction, so reported balances may be
  slightly above custody; `collateral_ratio` overflows when the fToken supply is
  dust; `set_fee_config` accepts rates above 100 %.

## Bounds

Amounts are single digits and the scales 4 to 10: the money properties are about
sums, roundings and comparisons, whose cases (exact, rounded, zero, at a limit) all
occur at that size; the reachable state space is finite because deposits are bounded
by the word size (pool) or by `MaxReserve` (protocol). The fee and bonus rates are
tens of percent so that they do not vanish by rounding. `MaxTime` of the protocol
lets a ticket be issued, expire and be reclaimed, with time to spare. One ticket
slot suffices because a ticket only interacts with others through the buffer, and
the slot is used again; `protocol_tickets` has 0.3 million states. In the bridge, a
queue of one is full with three callers; three redeems give two of one owner and one
of another. `MaxPosts` bounds posted checkpoints only.

The in-memory store needs one key, because keys interact only in `MSet`, `Del` and
the janitor, which treat them alike (the theorem covers any number); the clock
passes a deadline twice; counters and lists stop at three (`MaxCount`, `MaxList`).
Three calls are enough for one that demotes, one that demotes again during the
promotion and one that may not be repeated; `MaxOutages` is one because every
further outage starts from a state the first one reaches. Three requests give a
leader, a duplicate and a later reader. Amounts below, within and above `MaxAmount`
are asked for. In `push` one stream and one client meet every closing party; the
first publisher publishes two messages and the second one, so that both orders and
an overtaken message occur in a channel of two, which the third message finds full,
and a client's channel of one is full at the second; both publish on the channel
that the hub reads as well, so that one run meets streams and clients (half a
million states). In `feed` two symbols are needed for a recovery at all (the stream
of one must live while the other's is dead), two failures for one that falls between
the steps of the health check or of a dial, and two loops (`MaxLoops`) for a
restart. In `ticks` two loops can tear a candle with two ticks; the third shows what
follows, over three prices, two times in two intervals and a history of two, which
the third tick overflows (4.7 million states, with the loops symmetric). The chart
is one request: charts do not act on one another.

Deadlock is not checked for the pool (when every word is at its limit, or the
scale has shrunk so far that nothing more can be indexed or withdrawn, all calls
abort) and for the backend modules, whose finite sets of calls, messages and ticks
end. The protocol never stops.

## Fairness

* `BridgeWorker`: weak fairness of the worker goroutine, of a started redeem and
  of a caller whose result is waiting, because the Go scheduler runs runnable
  goroutines; strong fairness of each blocked send, because Go queues the senders
  of a full channel first in first out. It assumes that remote calls return. The
  worker may be stopped, which `DepositsProgress` allows for. The
  code bounds only the mint (40 s); the price request uses a client without a
  timeout, see the hazards.
* `MemoryStore`: the janitor's ticker and a running Close.
* `Failover`: each call, the probe, the handlers and Close; Redis may stay away.
* `CachedReads`: requests work on, because every remote call takes the request's
  context, which times out after fifteen seconds.
* `LivePush`: handlers, cleanup goroutines, the hub and the pumps; a read pump
  must fail only once its connection is closed. Publishers, browsers and timers
  owe nothing.
* `PriceFeed`: loops, ending streams and the retry ticker; the exchange and the
  cache owe nothing.

## Proofs

Every safety and action property of the passing runs is a theorem; only the
liveness properties are not. The theorems hold for every value of the constants that the
modules' assumptions allow; TLC evaluates the assumptions in every run, and each
inductive invariant was model-checked before it was proved.

`SumTheorems` is a library about `SumFunctionOnSet`, which the community module
defines by a recursive fold: the fold is well defined on finite sets, any element
can be taken out first, and changing one value changes the sum by as much.
Induction is over a SET of numbers or of subsets, with the least-number principle
that the library's well-foundedness of `<` gives, so that every step is first-order.

`LeafsiiProofs`, first part, about the pool by itself, for any number of positions,
word sizes and scales:

* `PoolTypeCorrect`: `PoolSpec => []PoolTypeOK`;
* `PoolSharesAccounted`: `PoolSpec => []SharesAccounted`;
* `PoolRewardsCovered`: `PoolSpec => []RewardsCovered`. It is not inductive: it
  speaks of one position at a time, while a claim lowers the obligation under all
  of them. `PoolInv` bounds the sum of what all positions are owed, in the index's
  fine scale and before rounding, by the obligation. Accruing `r` raises the sum by
  at most `r`, because the increment of the index is rounded down and the shares sum
  up to `sp_scaled_total`; a claim takes off the sum at least what it takes off the
  obligation; settling without paying only lowers the sum;
* `PoolWithdrawalSharesSuffice`: from the types and the fact that both roundings are
  floors;
* `PoolRewardsLeavePaidOrSettled`, an action property: pending rewards grow with the
  index, so only a claim or the position's own settlement takes them down.

`LeafsiiProofs`, second part, for every fee, bonus, threshold, price and set of
amounts. An effect lemma per operation says once what it does to books, custody,
supplies and tickets, its roundings as inequalities; the theorems combine effects.

* `LeafTypeCorrect`, `LeafCustodyNeverAhead` and `LeafPoolCovered` from `LeafInv`:
  the types, the pool's own `PoolInv` (every protocol step that touches the pool is
  one of the pool's operations), `pool_f <= nf`, and custody not ahead of the books,
  which include the sum over the tickets. That sum is why a ticket must be counted
  until it is paid, reclaimed or given up;
* `LeafGapOnlyByBonusOrKeeper`, `LeafUnexpiredTicketPaid`,
  `LeafPxStaleOnlyByPayout`, `LeafObligationStrandedOnlyByBurn`: one case per
  operation of `LeafInv /\ Next`. The first is an equation: the gap grows by exactly
  twice the bonus or the ticket's fee;
* `LeafSolventRedeemable`: a ratio of at least one bounds `nf * PF_FIXED` by the
  reserve's value net of the obligation, and the payout's floors keep the bound;
* `LeafNoDilution`: the floor of a quotient whose numerator does not fall in
  proportion to its denominator does not fall; each operation's conversion is such;
* `LeafRebalanceHelps`: the obligation recorded for a burn is worth at most what was
  burned, so from one upwards the ratio cannot fall;
* `LeafImplementsPool`: `Spec => AnyPool!PoolSpec`, a refinement: every step of the
  protocol is an operation of the stand-alone pool, or leaves the pool alone. `AnyPool`
  is the pool with any amounts (`FAmounts <- Nat, RAmounts <- Nat`), because the
  protocol computes what it burns and harvests from its prices. So what is proved of
  the pool holds of it inside the protocol, action properties included:
  `LeafRewardsLeavePaidOrSettled`.

`BridgeWorkerProofs`, for finitely many owners, deposits and redeems:

* `BridgeTypeCorrect`: `Spec => []BridgeTypeOK`. The strengthening is
  `ViewCoversBurn`: a redeem about to submit holds a checkpoint whose total
  covers its burn, however old that checkpoint is by now. Without it a total
  could go below zero;
* `BridgeIdsMonotonic`: `Spec => []UpdateIdsMonotonic`;
* `BridgePaidCovered`: `Spec => []PaidCovered`. `LedgerInv` adds that each balance is
  what was seeded and credited less what was burned, and that a deposit is in one
  place at a time, so that it is credited once;
* `BridgeTotalAccountedFor`: `Spec => []TotalAccountedFor`, for any posts. It is
  inductive together with the types: a submit moves the total and the booking it makes
  due by the same amount, except for what it overwrites, which is the drift it records.

`MemoryStoreProofs`, for any keys, values, ttls and readers:

* `StoreImplementsLossy`: `Spec => ImplementsLossy`, the refinement. The inductive
  invariant `StoreInv` says only that deadlines can be compared with the clock,
  the maps cover the keys and readers evict keys of the store. Writers that evict
  first operate on what readers see; a `Set` that keeps a passed deadline is
  invisible; an `MSet` writes its keys and forgets those whose deadline has passed;
  evictions and the passing of time forget;
* `StoreTypeCorrect`: `Spec => []MemTypeOK`;
* `StoreLRangeSelects`: `Spec => []LRangeSelects`, from a lemma about `LRange` for
  sequences of any length: the positions asked for are an interval.

`FailoverProofs`, for any number of calls and outages:

* `FailoverTypeCorrect`: `Spec => []FailoverTypeOK`;
* `FailoverOneProbe`: `Spec => []OneProbe`. The strengthening `ProbeInv` relates
  the flag, the goroutine, its stop channel and the owner of the mutex: whoever
  holds the mutex has closed the channel and waits for the goroutine.

`CachedReadsProofs`, for any requests, endpoints and chains:

* `ReadsTypeCorrect`: `Spec => []ReadsTypeOK`, from `ReadsInv`, which types the
  requests under way: what is cached and returned is typed only because they are;
* `ReadsFlightsLed`: `Spec => []FlightsLed`, inductive together with `ReadsInv`: a
  flight begins, goes on or ends with the request that leads it;
* `ReadsMonotonic`: `Spec => []MonotonicReads`. `Freshness` bounds every answer by
  the cached entry of its kind and the entry by the chain, until the cache fails;
  because a kind has one leader (`FlightsLed`), nobody else can store an older value;
* `ReadsNoRoundTripProfit`: `Spec => []NoRoundTripProfit`. `QuotesMade` ties an
  answered quote to its endpoint's formula; a round trip multiplies the amount by
  0.997 * 0.995 (fToken) or 0.98 * 1.02 (xToken).

`LivePushProofs`, for any clients, streams, channels, publishers and messages:

* `HubNeverPanics`: `Spec => []NeverPanics`. `HubInv` adds that a client in the
  map has an open channel and that a connection the hub has not seen yet is
  neither in the map nor closed, so a client that left never comes back;
* `HubConnectionsCounted`: `Spec => []ConnectionsCounted`, for finitely many
  clients, by counting the live ones up and down;
* `StreamsInOrderOnce`: `Spec => []InOrderOnce`. `PushInv` ties together the list,
  the copies of it that the publishers work through and the stream's channel: a stream
  is at most once in each list, and what its channel holds of a publisher lies, in
  order, between what it was sent and what that publisher published, below the latter
  while it still waits in the publisher's copy; the publishers of a channel may be
  mixed in any way;
* `GoneIsUnlisted`: once the cleanup goroutine of a stream is through, the stream is
  listed nowhere, for good: the safety half of `LeftIsUnlisted`. The goroutine takes
  out one entry for each channel its query named, the first it finds, so a query that
  names a channel twice relies on being looked for twice. `ListInv` counts: a
  subscription has at most as many entries under a channel as its query named it, and
  none once the goroutine is through.

`TickPipelineProofs`, for any number of loops, candle length, history limit, prices
and times:

* `PipelineHistory`: `Spec => []HistoryIsRecentTicks`. `HistoryInv` says what survives
  any race: every history, in the cache or in a loop's hands and old by now, is within
  the limit and in order for each loop, and holds no tick that its loop has yet to save;
  while no two loops met, what the one saving loop has read is what the cache
  had. The suffix is by induction over the set of lengths;
* `PipelineBars`: `Spec => []CandleIsBarOfTicks`. `CandleInv` gives, for a loop that has
  had `AddTick` to itself, the fields it has already brought up to date at each of its
  stages; the claim for a candle that is not torn is the last of them. Maximum and
  minimum of the prices grow with a tick as the two tests do;
* `PipelineCharts`: `Spec => []ChartContinues`. Alignment and the dropping of unparsable
  bars keep the exchange's chart well formed; the generator's bars are an interval
  apart, each opening at the close before, and end with the current interval.

`Candles` assumes of its constants that the interval and the default price are
positive and that `None` is not a candle; `TickPipeline` that prices are positive.

Only model-checked: the liveness properties (`DepositsProgress`,
`JanitorProgress`, `NobodyStuck`, `ProbeRestores`, `FlightEnds`, `LeftIsUnlisted`,
`DroppedIsStopped`, `OutageNoticed`, `RecoveryResubscribes`), because liveness under
fairness and ENABLED are beyond the prover.

## Not modelled

* What commands do inside Redis, and Redis publish/subscribe: external; the
  failover store sees of them success, failure or a lost answer.
* `rebalance_buffer`, `settle_and_consolidate`, `withdraw_fees` and the staking
  they drive: unreachable while no operation sets a validator.
* Vouchers and the index of the bridge service: created and listed by HTTP handlers
  only; no other operation reads them.
* Shutdown of the WebSocket hub: its context ends with the process.
* Transaction builders (stateless assembly), the example query database, the
  initializer (a script run once), configuration, logging, metrics, the frontend.
* The crosschain vault, registry, Ethereum vault, gauges, emissions, vote-escrow
  and vesting: in the plan.

## Plan

1. Done: pool, protocol and bridge with their runs and theorems.
2. Done: the backend's stores, read path, live updates and price feed, the
   refinement of the in-memory store and theorems about each of them.
3. `CrosschainVault`, `CollateralRegistry` and `EthVault`: checkpoints, attested
   mints, the voucher life cycle on both chains with delayed, duplicated and
   reordered relays; an abstract bridge (a voucher is created once, paid at most
   once, never after it was voided) that the composition implements.
4. `Oracle` and `StakingHelper` for a validator set by a constant, composed with
   the protocol's buffer; stake conservation across epochs.
5. `Gauge`, `Emissions`, `VeLfs`, `Vesting`: integrals against a reference that
   iterates over the users; no reward twice.
6. Proofs: done for every safety and action property, the refinements of the
   in-memory store and of the pool by the protocol, and the safety half of
   `LeftIsUnlisted`. Next: the refinement of step 3.
