# Fructus: a verification project in TLA+

Fructus is a perpetual market on the staking yield of jitoSOL, as one Solana
program (`programs/fructus`), with an off-chain keeper, an SDK and a CLI beside
it. These modules model the program's core logic: the collateral ledgers and
positions, the settlement of profit, loss and funding against a shared pool,
liquidation, the on-chain order book with its event ring, crank and TWAP, their
composition with the initializers and the account constraints, the yield oracle
with its keepers, and the arithmetic the SDK repeats off chain. TLC checks them on
small instances; TLAPS proves the accounts, the order book with its TWAP and the
oracle for every value of the parameters.

A program instruction is atomic and reverts on any error, so an action is one
whole instruction and an error path is a step that is not there. What is hard is
the order of instructions: anyone may send most of them (`crank`, `settle_fill`,
`settle_close`, `settle_funding`, `liquidate`) at any time, between any two steps
of anyone else, and they share four small pieces of state: the PnL pool, the
funding baseline, the event ring and the observation ring.

## 1. Inventory

| Component | State it keeps | Operations | Interacts with |
| --- | --- | --- | --- |
| Collateral ledger (`collateral.rs`, `settlement.rs`, `lib.rs`) | per user `deposited`, `reserved`, `claimable`; the vault's tokens; the market's `pnl_pool` | `deposit_collateral`, `withdraw_collateral`, debit, credit, claim payout | every settlement and every position |
| Positions (`positions.rs`, `lib.rs`) | per user and side: notional, entry sums, margin, opening slot, last funding epoch, closed notional and its entry sums | `open_position`, `close_position`, `settle_fill`, `reset_position`, `settle_close` | fills from the book, margin from the ledger, rate from the stake pool |
| Funding (`funding.rs`, `lib.rs`) | market-wide baseline, epoch and accumulator; per position the last epoch paid | `settle_funding` | rate, the book's mid, the ledger |
| Liquidation (`liquidation.rs`, `lib.rs`) | none of its own | `liquidate` | TWAP, position, two ledgers and the pool |
| Order book (`orderbook.rs`, `lib.rs`) | up to 16 orders a side, `next_seq` | `place_limit_order`, `place_market_order`, `cancel_order`, and the matching half of open and close | event ring, TWAP ring |
| Event ring and crank (`lib.rs`) | 32 events, read and write cursors, a `settled` mark on each | append, `crank` (drain a batch, resume residuals), `settle_fill` | book, positions |
| TWAP ring (`orderbook.rs`, `lib.rs`) | observations of slot, mid and accumulator | `record_observation` after every mutation, `twap` | book, liquidation |
| Yield oracle (`state.rs`, `ed25519.rs`, `lib.rs`) | a reference APY, version, last update, publisher | `update_apy`, `set_publisher`, `set_stale_window` | keeper; no money path reads it |
| Keeper (`publisher/src`) | none between polls | read, fetch, submit | oracle, an HTTP API |
| Initializers (`lib.rs`) | the market's authority, mint and index source; the existence of the book and of the vault | `initialize_market`, `initialize_order_book`, `initialize_collateral_vault`, `initialize` | everything else waits for them |
| Account constraints (`lib.rs`) | none | the `#[derive(Accounts)]` structs, `verify_maker_accounts`, `verify_collateral_pda` | every instruction, above all those anyone may send |
| SDK and CLI (`sdk/src`, `cli/src`) | none | mirrors of PnL, yield, funding and TWAP; encoders and commands | read the accounts |
| Scripts, POC, fuzz and integration harnesses | none | send | |

What makes each correct, and where it is hard:

- **Ledger.** The vault holds exactly the deposits and the pool; nothing is
  minted when a winner settles before the losers have paid; a claim is paid or
  pending, never forgotten. Hard because payouts run inside deposits and
  withdrawals, and debits meet collateral that other positions have reserved.
- **Positions.** A position holds exactly the initial margin of its notional and
  the user's reserve is the sum of the two; a fill is booked once on each side.
  Hard because five instructions move margin, and the maker's half of a fill
  comes later, from a ring that wraps.
- **Funding.** No epoch is charged for a time the position was flat; facing
  positions pay each other. Hard because the baseline is shared and moves with
  whichever position settles first.
- **Liquidation.** Only a losing position, and never at the expense of what
  backs another. Hard because of rounding and partial amounts.
- **Book.** Never crossed, price-time priority, no order filled for more than its
  size, although orders skip their owner's, stop at a budget, travel through the
  ring as residuals and resume against a changed book.
- **Ring.** No undrained event is overwritten, no maker is consumed without an
  event, and the crank never wedges.
- **TWAP.** A mean of mids that were really quoted, over a window that was
  really observed.
- **The whole program.** Anyone may send most instructions with accounts of their
  choice; whatever they pass, ledgers and positions change only as for the right
  ones, a fill is booked once on each side, and longs and shorts match except for
  the known gaps (orders that give no position, liquidations, lost events).
- **SDK and CLI.** What a trader is told of PnL, funding and the reference price
  is what the program would book, although bigints neither wrap nor saturate and
  JavaScript breaks ties otherwise than Rust.
- **Oracle and keepers.** No update is lost or undone by an older one, and a
  stale oracle is refreshed. Hard because a keeper awaits between reading and
  sending, sends without confirmation, and anyone may relay what it signed, later
  or again.

## 2. Modules

| Module | Models | Notes |
| --- | --- | --- |
| `FixedPoint` | the pure arithmetic of `exchange.rs`, `positions.rs`, `funding.rs`, `liquidation.rs` | a Rust function returning `Option` is a value and a predicate `..._ok` that is TRUE exactly when it returns `Some`; widths and scales are constants |
| `Settlement` | `settlement.rs`, `collateral.rs` | operators on a record `[deposited, claimable, pool]` |
| `Custody` | the abstract specification of the money | deposits, withdrawals, any signed settlement, seizure |
| `Accounts` | market, ledgers and positions: one action per instruction | refines `Custody` |
| `OrderBook` | book, event ring and crank: one action per instruction | uses `Twap` |
| `Twap` | the observation ring | operators on the ring |
| `TwapHistory` | nothing of its own: `OrderBook` with the highest mid so far as a history variable | every step writes it and none reads it, so the book behaves as in `OrderBook`; the bound of the TWAP is stated with it |
| `Market` | the whole program: `OrderBook` and `Accounts` composed, the initializers, and the accounts and constraints of every instruction | instances of both; implements `Accounts` |
| `SdkMath`, `SdkBook` | the TypeScript mirrors of the arithmetic and of the TWAP | instantiated by `Accounts` and `OrderBook` |
| `Oracle` | the oracle's instructions and any number of keepers, one action per await | the network is the set of all signed updates |
| `Traders` | who holds a ledger, common to `Custody` and `Accounts` | the constants and their assumptions |
| `Sums` | the sum of a function over `1..n` | a recursive function, so it can be used in proofs |
| `MCAccounts`, `MCOrderBook`, `MCTwapHistory`, `MCMarket`, `MCOracle` | constants of the runs | |
| `SettlementProof`, `CustodyProof`, `AccountsProof` | lemmas and theorems about sums, settlements, `Custody` and `Accounts` | |
| `BookProof`, `MatchProof`, `TwapProof` | those about `OrderBook`, `Twap` and `TwapHistory` | |
| `MarketProof` | the proofs that `Market` implements `Accounts`, books fills once and balances exposure | |
| `OracleProof` | those about `Oracle` | |

### Accounts and the code

`deposited`, `reserved`, `claimable` are the fields of `UserCollateral` by user;
`ledgers` is the set of users whose account exists. `position[<<u, side>>]` is the
`Position` account, `market` in it whether it is bound (a new or a reset account
is not). `funding` holds `funding_epoch`, `index_n/index_d` and
`funding_accumulator`. Wallets, vault, the stake pool's rate and the clock are
external. Every instruction is written through to its end: the payout inside
`deposit_collateral`, the events an order emits, the mark that `settle_fill`
leaves, the baseline that `settle_funding` moves.

The book appears as its interface: the fills an order gets are any sequence of
makers (`Makers`) and sizes (`Sizes`), the mid is any of `Mids` or undefined, and
`book_events` is what orders without a position, cancellations and cranks append.
`settle_close`, `settle_funding` and `liquidate` take the ledger they act on as a
parameter, which `Next` binds to the position's owner and `Market` to whatever the
caller passes. This
allows more than the real book does (a fill without a resting order), so the
safety properties proved here hold of the real one. The TWAP guard of `liquidate`
may pass at any time for the same reason. The ring's read cursor is left out: in
the program an event is overwritten only after the crank has drained it, here at
any time.

### OrderBook and the code

`book.Bid` and `book.Ask` are the resting orders in insertion order with
`next_seq`; `events`, the two cursors (unbounded, used modulo the length) and the
observation ring are the fields of the account. `match_order` is the loop of
`orderbook.rs` with a turn as `MatchTurn`; `match_limit_taker` and
`match_open_taker` are the two takers, with `ok` FALSE for an error, for the
crank swallows an error where an instruction reverts. `drain_one` is one turn of
`drain_events`: the read cursor moves first, a residual is probed, then resumed.
A request with price 0 is a market order. The observation ring's `u128`
accumulator is unbounded: it saturates only after 2^64 slots at the top price.

### Market and the code

`Market` has the variables of both components, and `stamp` for the part of an
`OutEvent` that only composition needs: its `seq`, the entry snapshot and the
`settled` mark. Each instruction is two operators: one with the name of the
accounts struct (`SettleClose`, `Liquidate`), the constraints the framework
checks, and one with the name of the handler, whose arguments are the accounts
the caller passes: a position as owner and side, a ledger as owner, a mint as its
decimals, a stake pool as the bound one, another real one or a forged account. The handler
is then the book's step and the accounts' step of the same name, with the fills
taken from the events that the book's step appended. Every `\E` over accounts in
`Next` is over all of them, so the guards alone keep the wrong ones out.

`ImplementsAccounts` is the refinement: the events become fills with their stamps
(`AccountsEvents`), `event_write_cursor` its residue, and everything else is
itself. The mid that `settle_funding` reads and the TWAP that `liquidate` asks for
are the book's own here.

### SDK and the code

`SdkMath` has `positions.ts`, `exchange.ts`, `funding.ts` and `mark-index.ts` of the
SDK and `expectedFundingForBook` of the CLI; `null` is a record with `ok` FALSE.
`SdkBook` has the TWAP of `orderbook.ts`. They share nothing with `FixedPoint` and
`Twap`: bigint division truncates, `reduce` keeps the first of equals where Rust's
`max_by_key` keeps the last. They have no variables, so they are compared with the
program in the states `Accounts` and `OrderBook` reach.

### Oracle and the code

`oracle` is the `YieldOracle` account; `initialize` is `Init`, and its authority is
the one that sends the two admin instructions. `task[k]` is what keeper `k`'s
`runOnce` holds between two awaits: nothing before `getAccountInfo`, then the
decoded state, then the scaled APY as well, then the decision to publish
(`submitUpdate` awaits a blockhash before it sends). `Fail` is any await that
rejects and any restart: `main` catches and polls again. `signed` is every update
ever sent. A signature over an APY and a version stays good, so `update_apy` may
take any of them at any time, again and again, or never; a transaction that
expires or is dropped is one that is not taken. `landed`, `origin`, and the fields
`current` and `seen` of a message are history that only the properties read.

### Definitions named Mut...

Some definitions have a neighbour that differs as a plausible bug would: a
dropped bound, a forgotten mark, a wrong tie-break. No specification uses them.
Put in the place of the definition they vary, they make the named property fail,
which shows that the property depends on that line of code.

## 3. Hazards and properties

The list in `PROJECT.json` names each hazard with its line. The properties:

| Property | Kind | Says |
| --- | --- | --- |
| `Conservation` (Custody, Accounts) | invariant | vault = pool + all deposits |
| `ImplementsCustody` | refinement | every instruction's money half is a `Custody` step |
| `MarginLedger` | invariant | each position has exactly its initial margin and a reserve is the sum of them |
| `LiquidatesOnlyLosers` | action | a liquidated position has negative PnL at the current rate |
| `LiquidationSparesBacking` | action | what a liquidation takes is free collateral and the released margin, and `deposited >= reserved` afterwards |
| `ClaimsOnlyPaid` | action | a claim shrinks only by a payout from the pool into its owner's ledger |
| `FillBookedOnce` | action | a position grows by its own order's fills or by consuming one pending event, once |
| `ImplementsAccounts` | refinement | with any accounts passed, the composed program changes ledgers and positions only as `Accounts` does |
| `ExposureBalanced` | action | positions and pending fills add up to the same net size, but for liquidations, orders without a position and events lost to the ring's wrap |
| `SdkPnlAgrees`, `SdkFundingAgrees`, `SdkTwapAgrees` | invariant | what the SDK and the CLI compute is what the program would book or judge by |
| `FundingFromOpen` | invariant | no live position owes for an epoch before it (re-)opened |
| `BookUncrossed` | invariant | best bid below best ask, own orders included |
| `PriceTimePriority` | action | a maker is touched only when each better one, not the taker's own, is gone |
| `DemandConserved` | action | resting and deferred size of a trader falls by at least what was filled |
| `FillsPersisted` | action | makers lose no size without `Fill` events for it, in the crank too |
| `UndrainedKept` | action | an undrained event is never overwritten and no cursor goes back |
| `EventsDrained` | liveness | every appended event is drained |
| `TwapBounded` | invariant | the TWAP is never above the highest mid the book has had so far |
| `DecidedOnCurrent` | action | an update that lands was decided on the value it replaces: no lost update |
| `NeverOlder` | action | an APY that lands was fetched no earlier than its predecessor landed |
| `Refreshed` | liveness | a stale oracle is refreshed |
| `Converges` | liveness | once the API's answer has settled the oracle shows it for good |

The type invariants are `Accounts!TypeOK`, `OrderBook!TypeOK` and `Oracle!TypeOK`
(and `Custody!TypeOK`, which is proved).

## 4. Runs and bounds

The accounts runs use a machine word of two or three bits (`U64_MAX` of 3 to 8,
`U128_MAX`, `I128_MAX` and the scales in proportion), so that every `checked_*`
of the code does fail somewhere in the run and every rounding is met. Amounts and
sizes are mostly 1; what makes the interesting cases are the two rates, which
halve or double a position, and the order of instructions.

| Run | Shows | Bounds that matter |
| --- | --- | --- |
| `liquidation` | `MarginLedger`, `LiquidatesOnlyLosers`, `LiquidationSparesBacking` | one user long and short at once, a second liquidates, two rates; full and partial liquidations, with and without loss |
| `close` | `TypeOK`, `MarginLedger`, `Conservation`, `ClaimsOnlyPaid`, `SdkPnlAgrees` | two users facing each other at full margin, closing and re-opening; the winner may settle first, so claims arise, grow to the width of the field and are paid in part |
| `market` | `ImplementsAccounts`, `FillBookedOnce`, `ExposureBalanced` | two users from an empty program on, three ways to initialize, an order on each side and a market order, four orders in all; a ring of one event, so that every fill overwrites the last; two rates, two slots, every combination of accounts |
| `funding` | `FundingFromOpen`, `ImplementsCustody`, `SdkFundingAgrees` | one short over three epochs and two rates: it closes, re-opens, is liquidated, settles PnL and funding, is owed and is paid |
| `book` | `TypeOK`, `BookUncrossed`, `PriceTimePriority`, `DemandConserved`, `EventsDrained` | three traders, seven kinds of order, budget of one match, ring of four, batches of two; a residual's only counterparty may become its owner |
| `ring` | `FillsPersisted`, `UndrainedKept` | a budget of two, ring of three, seven orders, two slots: a residual resumes into a ring refilled by cancellations |
| `twap` | `TwapBounded`, `SdkTwapAgrees` | a ring of three observations, window of two, five slots; bids at 1 and 5 and an ask at 7, so a mid of 4 or 6 or none |
| `oracle` | `TypeOK`, `DecidedOnCurrent`, `NeverOlder`, `Refreshed`, `Converges` | two keepers with one key, three versions, two slots, a point above the cap and then a broken one, one change of window or of publisher |

The other bounds: `MAX_SLOT` (last slot), `MAX_SEQ` (orders accepted; a resumed
residual is not counted, so the crank can always finish), `MAX_CLOSED` (closed
notional awaiting settlement), `MAX_FILLS` (fills of one order), `Traded` (which
positions are opened), `Requests` (which orders are sent). Runs of `Accounts` and
`OrderBook` have deadlock checking off because a behaviour that has used up its
slots, orders or funds stops there; so is that of `Market`, which stops as well
where its market was initialized with a mint no vault can be made for.

`market` stays at sizes of one and one match per order: residuals, budgets and
larger orders are in `book` and `ring`, rounding margins and partial liquidations
in `liquidation`, claims in `close`. What it adds is the order of instructions
across components and the accounts passed. `OTHER_RATE` is a rate that appears
nowhere else, so an instruction priced by the wrong pool would be seen.

Each of these small numbers is where the code's case already occurs: a ring of
two wraps as one of 32 does, a budget of one match is exceeded by an order of
size two, and one order more than the side holds finds it full. What they do not
show is a case that needs three simultaneous positions of a user or three
generations of residuals.

### Fairness

`FairSpec` asks of the crank, and of nothing else: whenever from some point on a
crank would always move the ring, one is sent. `crank` takes no privileged
signer and is meant to be sent by anyone, but the program cannot force it; the
liveness result reads "if someone cranks". It is weak fairness of `crank`, with
`ENABLED` written as `CrankMoves` (the batch would change the ring), because TLC
expands every definition under `ENABLED` again for each use. Orders,
cancellations and the clock have no fairness.

`Oracle!FairSpec` asks that a keeper goes on polling, which `main`'s `while (true)`
with its `catch` does; that a call it makes again and again is answered now and
then (strong fairness of the three calls, since any of them may fail); and that of
updates that stay valid one lands at last, since every poll sends anew what has
not landed. The clock, the API and the authority have no fairness. `Refreshed` and
`Converges` excuse a window of 0, which is always stale, versions used up at the
top of a `u64`, and a publisher whose key no keeper holds.

### Where the documents and the code part

Four runs check one statement of the repository each and TLC refutes it. They
describe what the code does; some of it may be intended.

| Run | Property | The repository says | The code does |
| --- | --- | --- | --- |
| `seam` | `SeamNeverUnderflows` | the seam of a liquidation does not underflow | a settlement debits reserved collateral too; after that it does, and a liquidatable position cannot be liquidated |
| `reset` | `ClosedPnlIsRealized` | closed notional is realized by `settle_close` | `reset_position` drops it |
| `history` | `TwapNeedsHistory` | a book younger than the window has no TWAP | unwritten entries count as observations of slot 0 |
| `tie` | `ChargesPreviousMid` | an interval is charged at the mid before the mutation | among samples of one slot the highest index is read back, an older one once the ring has wrapped within the slot |

Nine more came up while the modules were written. The modules have the code's
behaviour in each case; no run is spent on them:

- `docs/modules/positions.md:140` has free collateral never negative; it is after
  a debit of reserved collateral (the state `seam` starts from).
- `lib.rs:673-676` recovers the per-unit basis of a close "exactly"; the quotient
  is cast to `u64` and wraps when little is left of a large position (`per_unit`).
- `tests.rs:2323` has long and short funding as exact opposites; the first
  position to settle moves the baseline the next is charged against
  (`settle_funding`).
- `docs/api-reference.md:19` has a cancellation append a `Cancel` event; on a full
  ring the order goes and no event is written (`cancel_order`).
- `positions.rs:13-14` has the sums give "exact average-cost accounting"; a close
  leaves them whole, so a fill added later is averaged with notional that is no
  longer open (`apply_open_fills`).
- `publisher/README.md:9-10` has the keeper write only when the value moved; it also
  writes when the oracle is stale, and `Refreshed` fails if it does not
  (`ShouldPublish`).
- `docs` and `settle_event` have an event that was never written not found; the slots of a
  new ring are zeroed, with `seq` 0, so `settle_event(0)` on one of them reads as a fill
  of nobody. It is harmless: the default key has no ledger, and `Market` has such a
  slot as one that is no fill.
- `sdk/src/orderbook.ts:18` has `bestAsk` return the lowest ask; it reduces from `0n`
  and so always returns 0. Nothing calls it: the mid comes from the account's own
  `best_ask`, and `SdkBook` starts from there.
- `cli/src/commands/open.ts:60` previews margin on size times price; the program's
  notional is the size filled (`apply_open_fills`).

## 5. Proofs

The theorems hold for every number of users, every width, scale and market
parameter that the ASSUMEs allow, and every set of inputs.

| Theorem | Module | States |
| --- | --- | --- |
| `TypeSafety`, `BooksBalance`, `SupplyIsClosed` | `CustodyProof` | types, `Conservation` and `ClosedSupply` of `Custody` |
| `AccountsTyped` | `AccountsProof` | `Spec => []TypeOK` |
| `MarginLedgerHolds` | `AccountsProof` | `Spec => []MarginLedger` |
| `AccountsImplementCustody` | `AccountsProof` | `Spec => CustodySpec!Spec` |
| `VaultAccountedFor` | `AccountsProof` | `Spec => []Conservation` |
| `ClaimsAreKept` | `AccountsProof` | `Spec => ClaimsOnlyPaid` |
| `FundingStartsAtOpen` | `AccountsProof` | `Spec => []FundingFromOpen` |
| `OnlyLosersLiquidated` | `AccountsProof` | `Spec => LiquidatesOnlyLosers` |
| `BackingSpared` | `AccountsProof` | `Spec => LiquidationSparesBacking` |
| `SdkTellsPnl` | `AccountsProof` | `Spec => []SdkPnlAgrees` |
| `SdkQuotesFunding` | `AccountsProof` | `Spec => []SdkFundingAgrees`, if `WideEnough` |
| `BookTyped` | `BookProof` | `Spec => []TypeOK` |
| `NeverCrossed` | `BookProof` | `Spec => []BookUncrossed` |
| `UndrainedStays` | `BookProof` | `Spec => UndrainedKept` |
| `PriceTimeKept` | `MatchProof` | `Spec => PriceTimePriority`, if `BatchFits` |
| `FillsNeverLost` | `MatchProof` | `Spec => FillsPersisted`, if `BatchFits` |
| `FilledOnce` | `MatchProof` | `Spec => DemandConserved`, if `BatchFits` |
| `TwapStaysBounded` | `TwapProof` | `HSpec => []TwapBounded` |
| `SdkReadsTheSameTwap` | `TwapProof` | `HSpec => []SdkTwapAgrees` |
| `AccountsImplemented` | `MarketProof` | `Spec => ImplementsAccounts` of `Market` |
| `FillsBookedOnce` | `MarketProof` | `Spec => FillBookedOnce` |
| `ExposureKept` | `MarketProof` | `Spec => ExposureBalanced` |
| `OracleTyped` | `OracleProof` | `Spec => []TypeOK` |
| `NoLostUpdate` | `OracleProof` | `Spec => DecidedOnCurrent` |
| `OracleNeverOlder` | `OracleProof` | `Spec => NeverOlder` |

**Argument.** `IInv == TypeOK /\ MarginLedger` is inductive; neither conjunct is
so alone. That `reserved` stays a `u64` when margin is released or seized needs
the margin ledger (a reserve covers each position's margin, lemma
`ReservedCoversPosition`), and the margin ledger needs the types of the sums and
the clock to say what a step computes. There is one lemma per instruction
(`OpenInv`, `CloseInv`, ...), and `MarginStep` is the common step: changing one
position to one that holds its margin, and its owner's reserve by the
difference, keeps the ledger. Liquidation is the longest: it needs margin to be
monotone in the notional (`MarginMonotone`) and the penalty to be at most the
released margin.

`Conservation` is not proved of `Accounts` directly. It is proved of `Custody`,
where it is simple (each settlement preserves `deposited + pool`), and carried
over by the refinement: each instruction maps to a deposit, a withdrawal, a
settlement of some payment, a seizure or a stutter, on the same variables.

The theorems about a position's life use the same invariant. `FundingFromOpen` is inductive beside it:
each instruction replaces one position (`DatedStep`), which keeps its dates when it
shrinks or stays (`KeptDates`), takes the current epoch when it opens
(`OpenedDates`) or is settled; and a tick only moves the epoch up
(`EpochMonotone`). The two liquidation theorems first say that no other instruction
lowers a notional without booking a close (`OnlyLiquidateLiquidates`, which needs
that an order has at least one fill). Then a position under maintenance margin has
lost something, since by the margin ledger it holds its initial margin and that is
no less (`UnderMarginLoses`); and what is taken is bounded by the seam
(`LiquidateFacts`).

The SDK's arithmetic is compared with the program's formula by formula. Where the
two differ in method the lemmas say why they agree: the SDK reads its shift off the
bit length and the program takes the one shift that satisfies its condition
(`SdkShift`, `SdkNormalizes`); a bigint division truncates as `TruncDiv` does; and
`reduce` differs from `max_by_key` only among equals. The SDK's funding has no
width at all, so its agreement needs `WideEnough`: with it nothing the program
computes saturates.

Sums over users are the recursive function `SumUpTo`. Its defining equation is
proved by the least counterexample (`LeastNat`), since induction theorems that
take an operator are out of the provers' reach; `SumUpdate` then says what
changing one item does to a sum.

The book's theorems rest on one invariant, `BookProof!IInv`: the book is `Settled`
(orders of positive size with a known price, distinct `seq` below `next_seq`,
sides within capacity, uncrossed), the ring is one of `Rings` (no more events
waiting than slots) and the observations are of their type. It is inductive only
as a whole. That resting leaves the book uncrossed needs `would_cross`, which reads
one price, to speak of every opposing order (`BestPrice`, `PostType`); it is the
guard itself that matters, not where matching stopped, for a taker may have skipped
its own orders. That an append lands in a free slot needs the count of waiting
events, and two positions in the ring less than its length apart have different
residues (`Apart`). A match, the emission of its events and a crank batch are
iterations written as recursive functions; `IterationExists` and `StaysIn` say
that an iteration whose every turn stays in a set ends in it, and each loop is
then proved by one turn of it (`TurnType`, `AppendType`, `DrainOneType`). A taker is
matched with a number it has taken and no resting order has, so `Books(n, next)`
keeps the bound on the orders' numbers apart from the next number until the
remainder rests or is dropped; then one maker is always the best (`BestMaker`).
`UndrainedKept` is `Keeps` between the rings before and after, which is transitive
along the turns.

`MatchProof` proves the three properties that speak of a whole instruction: the
book, the events and the demand of every trader before and after it. `Follows`
compares any moment inside an instruction with the state before it: every order
left was there before and is no larger or is newer (`Descends`), better makers went
first (`Priority`), each maker's loss is covered by its `Fill` events
(`Persisted`), and what rests or is deferred fell by at least what was filled
(`Conserved`). A fill, a post, an emitted `Residual` and a popped event each keep
it, and each loop keeps it by induction on its turns (`AllTurns`). The totals are
sums over finite sets, taken apart by `SumWithout`, `SumWith` and `SumGrown`. What
a crank defers lies beyond its own batch (`FillsFirst`), so a batch never counts an
order twice; lemmas named `Seen...` carry `Follows` over to the properties
`OrderBook` states.

`TwapProof` adds `Sound(observations, H, slot)`: between any two entries of the
ring, unwritten ones included, the accumulator rises, by at most `H` a slot
(`Climbs`). Its invariant `HInv` has it with the history variable `highest_mid` as
`H`. A step may raise that, and what was sound below the old height is so below the
new one (`SoundHigher`); what the step then records is the mid of the book it
leaves, which is no higher either (`Recorded`, `StepSound`). A reading is an entry's own or a floored point of a segment
(`Reading`), and `Segment` bounds what the floors can add, so a reading now exceeds
an earlier one by at most `H` a slot (`ReadingsClimb`): one that extrapolates is
compared with the last entry, and two of the same segment with each other. The
SDK's agreement needs the other half of the same fact: two entries of one slot have
climbed over nothing and so hold the same accumulator (`SameLatest`,
`SameEarliest`), whichever of them is kept.

`MarketProof` proves the refinement that composes the two halves. Its invariant is the
book's own (`Proven!IInv`, of an instance of `MatchProof` whose orders are all those
the instructions send the book) with the types of the stamps, the rate, and the facts
that a market is bound to the pool whose rate moves and a book to a market. From the
book it takes only `Appends` and `AppendsFills`: a step appends at most as many events
as the ring has slots, of known sizes and owners, touches no other slot, and a taker's
order appends fills of other traders alone. Seen by the accounts, those events are a
batch over the oldest slots (`BatchAppended`, with the arithmetic of the ring in
`RingTurns` and `RingReached`), stamped once each (`StampedFacts`), and their total is
what `apply_open_fills` and `apply_close_fills` are handed (`OrderSeen`: a sum over a
set of event numbers on one side, over a sequence of fills on the other). The
settlements read the rate of whatever pool was passed; `BoundRate` says that the
constraints leave only the bound one, and the lemmas named `Same...` that the same
arithmetic follows. `OpenStep`, `CloseStep`, `FillStep`, `MoneyStep` and `QueueStep`
then map each instruction to one of `Accounts`, or to a stutter when a limit order
only rests.

The two action properties of `Market` add to that invariant that every position has a
natural notional (`Shaped`) and that the number of a fill in the ring, or of an event
already consumed, is below the next one (`Marked`). Without the second a new event
could take a slot under the number its consumed predecessor had, and the settled mark
would seem to go back. `EveryStepSeen` sorts the steps into three kinds: positions
change by liquidation at most (`Quiet`); a pending fill is consumed and its owner's
position grows by its size (`Booked`); an order leaves its makers fills and moves one
position of its taker by their total (`Ordered`). `FillsBookedOnce` reads off the
kinds. For `ExposureKept`, `Replaced` says what a total over the ring becomes when a
batch of values of one sign is written over some of its slots, by induction on the
batch, and `HeldMoves` what the total over the positions does when one of them moves:
in each kind the two changes cancel, but for what the batch overwrote.

The oracle's theorems rest on `IInv == TypeOK /\ TaskInv /\ SignedInv`: what any
keeper or message knows of the oracle is behind it, and while its version is still
the oracle's it agrees with it and was followed by a fetch no older than the last
landing. A message carries the successor of the version it was decided on, so
`next > current` leaves only messages decided on the current value (lemma
`LandsOnCurrent`). Both properties follow; neither depends on how many keepers
race, which keys they hold or how often the publisher is rotated there and back,
which the run does not reach.

**Assumptions.** Those of the modules, each evaluated by TLC in the runs: `u64 <=
i128 <= u128`, positive scales, margins as `initialize_market` validates them, and
that a `u64` product with a normalised sum fits the signed word (true of 64, 45
and 128 bits). `PowerAssumption` says that powers of two are positive naturals,
and that each is twice the one before, which is true of any exponent and is named
because the provers know no powers. `BookAssumption` includes that there is a
request, for `DemandConserved` names one of every step. Prices have no bound in the
proofs; the theorems about the TWAP compare it with mids, not with a width.
`WideEnough` says that the largest funding, a `u64` times the scale or times the
clock's bound, fits the signed word; it is true of an `i128`, a scale of 10^6 and
slots below 2^63. `BatchFits` says that a crank drains at most one event more than
a match may emit fills; both are 8 in the source (`CRANK_BATCH_LEN` in `lib.rs`,
`MAX_MATCH_STEPS` in `constants.rs`) and every run satisfies it. It is not for
convenience: with a longer batch the fills of a residual resumed late in a batch
could be drained, and their slots reused, within the same crank, and the ring
alone would no longer show them. `Market` makes the same assumption
(`OrderAssumption`), and one about its bounds: a fill may leave any smaller size to
the next, so `Sizes`, which `Accounts` takes its fills from, holds every size below
one of its own. `ParameterAssumption` repeats what `Accounts` assumes.

**Only model-checked.** Liveness, which is beyond TLAPS under fairness: every other
property of the passing runs is a theorem. What a recursive function computes
for every input is out of its reach as well, where a proof would need induction over
an operator.

## 6. Not modelled

- Inside the oracle's transactions, the offsets of the ed25519 instruction, the
  hash of the message and the blockhash; a read of the account that lags behind
  the cluster, which could only make a keeper's version too old to be accepted.
- Byte layouts, the derivation of addresses, rent, error codes and logs: the
  framework's, or pure data. That an address derived from an owner and a side is
  theirs alone is what `position_pda` and `collateral_pda` assume.
- `read_exchange_rate` and the SDK's and CLI's encoders and decoders: they keep no
  state. The CLI's reads of five accounts one after the other: a preview.
- The stake pool, the SPL token program and the clock: external; the modules take
  from them the rate, the transfer of tokens and the slot.
- A slot that goes backwards, and more than one market: the market is a singleton.
- `poc`, `scripts`, `integration`, `trident-tests`: drivers of the program.

## 7. Plan

1. *Done.* Ledgers and the abstract custody; accounts; order book, ring and
   crank; TWAP; proofs of types, margins and refinement.
2. *Done.* Oracle and keeper: versions, staleness, publisher rotation, keepers that
   interleave, late and replayed updates; freshness under fairness of the poll; the
   proof that no update is lost or undone.
3. *Done.* Composition of book and accounts, with the initializers, the constraints,
   the shared ring and its settled marks, and the TWAP guard on liquidation.
4. *Done.* The SDK's arithmetic against the program's; proofs of `FundingFromOpen`,
   `ClaimsOnlyPaid` and the liquidation properties.
5. *Done.* Proofs about the book, its event ring and the TWAP, the totals of a match,
   and the agreement of the SDK; the proof that `Market` implements `Accounts`, books
   each fill once and keeps longs and shorts in balance.
6. *Open.* PnL and closed entries against exact rationals, over bounded inputs.
