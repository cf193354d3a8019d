------------------------------ MODULE Accounts ------------------------------
(* The market's accounts: PerpMarket, the UserCollateral ledgers and the      *)
(* Positions, with one action per instruction that changes them.  The order   *)
(* book is seen through what it hands these instructions: the fills of an     *)
(* order, the mid, and the ring of events that carries a maker's fills to     *)
(* settle_fill.  A failing instruction reverts, so it is no step at all.      *)
EXTENDS Traders, Sequences

CONSTANTS
    initial_margin_bps, maintenance_margin_bps,      \* PerpMarket parameters
    funding_k, max_funding, funding_epoch_slots,
    EVENT_QUEUE_LEN,   \* slots of the event ring
    MAX_FILLS,         \* bound: fills of one order
    MAX_SLOT,          \* bound: the last slot
    Rates,             \* bound: stake-pool rates the index takes
    Amounts,           \* bound: deposits and withdrawals
    Sizes,             \* bound: fill sizes and liquidated amounts
    Mids,              \* bound: order-book mids
    Makers,            \* bound: users whose resting orders are met
    Traded,            \* bound: the positions that are opened
    MAX_CLOSED         \* bound: closed notional a position may carry

(* initialize_market validates these; it does not look at funding_epoch_slots. *)
ASSUME MarketAssumption ==
    /\ initial_margin_bps \in 1..BPS /\ maintenance_margin_bps \in 1..initial_margin_bps
    /\ funding_k \in 1..APY_SCALE /\ max_funding \in 0..APY_SCALE
    /\ funding_epoch_slots \in U64
ASSUME BookAssumption ==
    /\ EVENT_QUEUE_LEN \in Nat \ {0} /\ MAX_FILLS \in 1..EVENT_QUEUE_LEN
    /\ MAX_SLOT \in U64 \ {0}
    /\ Rates \subseteq ExchangeRate /\ Rates # {}
    /\ Makers \subseteq 1..NumUsers /\ Traded \subseteq (1..NumUsers) \X Sides /\ MAX_CLOSED \in U64
    /\ Amounts \subseteq U64 /\ Sizes \subseteq U64 \ {0} /\ Mids \subseteq U64 \ {0}

VARIABLES
    slot,              \* Clock::slot
    rate,              \* the stake pool's exchange rate (external)
    wallet, vault,     \* token accounts (external)
    ledgers,           \* users whose UserCollateral account exists
    deposited, reserved, claimable,
    pnl_pool,
    funding,           \* PerpMarket's funding state
    position,          \* Position accounts, by user and side
    events, cursor     \* the event ring and event_write_cursor % its length

moneyVars == <<wallet, vault, deposited, claimable, pnl_pool>>
bookVars == <<events, cursor>>
vars == <<slot, rate, wallet, vault, ledgers, deposited, reserved, claimable,
          pnl_pool, funding, position, events, cursor>>

Keys == Users \X Sides
Slots == 0..(EVENT_QUEUE_LEN - 1)
NoSums == [n |-> 0, d |-> 0]
NoMid == 0                            \* one side of the book is empty
NoFill == [kind |-> "Other"]          \* a slot unwritten, or a Cancel or Residual

(* market: whether the account is bound to this market (reset_position        *)
(* zeroes the key, and an account not yet created matches no market).         *)
Position ==
    [market : {"none", "market"}, notional : U64, entry : EntrySums,
     collateral : U64, open_slot : U64, last_funding_epoch : U64,
     closed_notional : U64, closed_entry : EntrySums]
EmptyPosition ==
    [market |-> "none", notional |-> 0, entry |-> NoSums, collateral |-> 0,
     open_slot |-> 0, last_funding_epoch |-> 0,
     closed_notional |-> 0, closed_entry |-> NoSums]

Fill == [maker : Users, size : U64 \ {0}]
FillEvent == [kind : {"Fill"}, owner : Users, side : Sides, size : U64 \ {0}, entry : ExchangeRate,
              settled : {0, 1}]

Init ==
    /\ slot = 1 /\ rate \in Rates         \* markets open after genesis
    /\ wallet = [u \in Users |-> FUNDS] /\ vault = 0
    /\ ledgers = {}
    /\ deposited = [u \in Users |-> 0]
    /\ reserved = [u \in Users |-> 0]
    /\ claimable = [u \in Users |-> 0]
    /\ pnl_pool = 0
    /\ funding = [epoch |-> 0, index |-> NoSums, accumulator |-> 0]
    /\ position = [k \in Keys |-> EmptyPosition]
    /\ events = [i \in Slots |-> NoFill] /\ cursor = 0

ledger(u) == Ledger(deposited[u], claimable[u], pnl_pool)
cur_epoch == funding_epoch(slot, funding_epoch_slots)
margin(notional) == margin_required(notional, initial_margin_bps)

-----------------------------------------------------------------------------
(* Collateral *)

(* Writes a user's ledger and the pool, which every settlement does together; *)
(* MutSaveLedger does not write the pool back.                                *)
MutSaveLedger(u, l) ==
    /\ deposited' = [deposited EXCEPT ![u] = l.deposited]
    /\ claimable' = [claimable EXCEPT ![u] = l.claimable]
    /\ pnl_pool' = pnl_pool
SaveLedger(u, l) ==
    /\ deposited' = [deposited EXCEPT ![u] = l.deposited]
    /\ claimable' = [claimable EXCEPT ![u] = l.claimable]
    /\ pnl_pool' = l.pool

deposit_collateral(u, amount) ==
    LET l == claim_payout(ledger(u))
    IN  /\ amount > 0 /\ amount <= wallet[u]
        /\ l.deposited + amount <= U64_MAX
        /\ ledgers' = ledgers \cup {u}
        /\ wallet' = [wallet EXCEPT ![u] = @ - amount]
        /\ vault' = vault + amount
        /\ SaveLedger(u, [l EXCEPT !.deposited = @ + amount])
        /\ UNCHANGED <<slot, rate, reserved, funding, position, bookVars>>

withdraw_collateral(u, amount) ==
    LET l == claim_payout(ledger(u))
    IN  /\ u \in ledgers
        /\ amount > 0 /\ l.deposited <= U64_MAX
        /\ withdraw_ok(l.deposited, reserved[u], amount)
        /\ amount <= vault                      \* the token transfer
        /\ wallet' = [wallet EXCEPT ![u] = @ + amount]
        /\ vault' = vault - amount
        /\ SaveLedger(u, [l EXCEPT !.deposited = @ - amount])
        /\ UNCHANGED <<slot, rate, ledgers, reserved, funding, position, bookVars>>

-----------------------------------------------------------------------------
(* Fills *)

FillSeqs == UNION {[1..k -> [maker : Makers, size : Sizes]] : k \in 1..MAX_FILLS}
Filled(fills) == SumUpTo([k \in 1..Len(fills) |-> fills[k].size], Len(fills))

(* Events take the next slots of the ring, over the oldest. *)
append_events(batch) ==
    /\ events' = [i \in Slots |->
         LET k == ((i - cursor) % EVENT_QUEUE_LEN) + 1
         IN  IF k <= Len(batch) THEN batch[k] ELSE events[i]]
    /\ cursor' = (cursor + Len(batch)) % EVENT_QUEUE_LEN

(* A fill of a taker, for its maker to settle at the taker's rate. *)
NewFill(owner, side, size) ==
    [kind |-> "Fill", owner |-> owner, side |-> side, size |-> size, entry |-> rate, settled |-> 0]
emit_fill_events(fills, maker_side) ==
    append_events([k \in 1..Len(fills) |-> NewFill(fills[k].maker, maker_side, fills[k].size)])

(* Re-based when a position (re-)opens, so that none is due for the time it   *)
(* was flat; MutFundingStart: only for a new account, not for a retained one. *)
MutFundingStart(p) == IF p.market = "none" THEN cur_epoch ELSE p.last_funding_epoch
FundingStart(p) == IF p.notional = 0 THEN cur_epoch ELSE p.last_funding_epoch

(* A position k and the ledger of u, as the instruction was passed them. *)
apply_open_fills(k, u, size, entry) ==
    LET p            == position[k]
        reopening    == p.notional = 0
        sums         == IF reopening THEN NoSums ELSE p.entry
        notional     == p.notional + size
        new_reserved == reserved[u] + (margin(notional) - p.collateral)
    IN  /\ u \in ledgers /\ k \in Traded
        /\ accumulate_entry_ok(sums, entry, size)
        /\ notional <= U64_MAX
        /\ margin(notional) >= p.collateral /\ new_reserved <= U64_MAX
        /\ free_collateral_ok(deposited[u], new_reserved)
        /\ position' = [position EXCEPT ![k] =
             [p EXCEPT !.market = "market",
                       !.notional = notional,
                       !.entry = accumulate_entry(sums, entry, size),
                       !.collateral = margin(notional),
                       !.open_slot = IF reopening THEN slot ELSE @,
                       !.last_funding_epoch = FundingStart(p)]]
        /\ reserved' = [reserved EXCEPT ![u] = new_reserved]

(* A sum recovered per unit of the live notional, cast to u64 (it may wrap). *)
per_unit(p) == [n |-> (p.entry.n \div p.notional) % (U64_MAX + 1),
                d |-> (p.entry.d \div p.notional) % (U64_MAX + 1)]

apply_close_fills(k, u, size) ==
    LET p        == position[k]
        notional == p.notional - size
        released == p.collateral - margin(notional)
    IN  /\ size <= p.notional
        /\ released >= 0 /\ released <= reserved[u]
        /\ p.closed_notional + size <= MAX_CLOSED     \* and so within u64
        /\ accumulate_closed_entry_ok(p.closed_entry, p.closed_notional, per_unit(p), size)
        /\ position' = [position EXCEPT ![k] =
             [p EXCEPT !.notional = notional,
                       !.collateral = margin(notional),
                       !.closed_notional = @ + size,
                       !.closed_entry = accumulate_closed_entry(
                            @, p.closed_notional, per_unit(p), size)]]
        /\ reserved' = [reserved EXCEPT ![u] = @ - released]

open_position(u, side, fills) ==
    /\ \A k \in DOMAIN fills : fills[k].maker # u
    /\ apply_open_fills(<<u, side>>, u, Filled(fills), rate)
    /\ emit_fill_events(fills, Opposite(side))
    /\ UNCHANGED <<slot, rate, ledgers, funding, moneyVars>>

close_position(u, side, fills) ==
    /\ u \in ledgers
    /\ position[<<u, side>>].notional > 0
    /\ \A k \in DOMAIN fills : fills[k].maker # u
    /\ apply_close_fills(<<u, side>>, u, Filled(fills))
    /\ emit_fill_events(fills, side)
    /\ UNCHANGED <<slot, rate, ledgers, funding, moneyVars>>

(* What the book appends for orders that give their taker no position: an    *)
(* order placed or cancelled, and a batch of the crank.                       *)
Batches ==
    LET New == {NewFill(m, side, size) : m \in Makers, side \in Sides, size \in Sizes}
    IN  UNION {[1..n -> New \cup {NoFill}] : n \in 1..EVENT_QUEUE_LEN}
book_events(batch) ==
    /\ append_events(batch)
    /\ UNCHANGED <<slot, rate, ledgers, reserved, funding, position, moneyVars>>

MarkSettled(e) == [e EXCEPT !.settled = 1]

settle_fill(i) ==
    /\ events[i].kind = "Fill"
    /\ events[i].settled = 0
    /\ apply_open_fills(<<events[i].owner, events[i].side>>, events[i].owner,
                        events[i].size, events[i].entry)
    /\ events' = [events EXCEPT ![i] = MarkSettled(@)]
    /\ UNCHANGED <<slot, rate, ledgers, funding, cursor, moneyVars>>

(* Owner-gated recovery of a closed position's account. *)
reset_position(k) ==
    /\ position[k].market = "market"
    /\ position[k].notional = 0
    /\ position' = [position EXCEPT ![k] = EmptyPosition]
    /\ UNCHANGED <<slot, rate, ledgers, reserved, funding, bookVars, moneyVars>>

-----------------------------------------------------------------------------
(* Settlement, by anyone, of a position k against the ledger of u, its owner. *)

settle_close(k, u) ==
    LET p      == position[k]
        profit == pnl(p.closed_entry, rate, p.closed_notional, k[2])
    IN  /\ p.market = "market" /\ u \in ledgers
        /\ p.closed_notional > 0
        /\ pnl_ok(p.closed_entry, rate, p.closed_notional)
        /\ settle_signed_ok(ledger(u), profit)
        /\ SaveLedger(u, settle_signed(ledger(u), profit))
        /\ position' = [position EXCEPT ![k] =
             [p EXCEPT !.closed_notional = 0, !.closed_entry = NoSums]]
        /\ UNCHANGED <<slot, rate, wallet, vault, ledgers, reserved, funding, bookVars>>

epochs_due(p) == MaxOf(cur_epoch - p.last_funding_epoch, 0)
HasBaseline == funding.index.d # 0
funding_index(epochs) ==
    IF HasBaseline
    THEN annualize(realized_yield(funding.index, rate), epochs * funding_epoch_slots)
    ELSE 0
funding_index_ok(epochs) ==
    /\ epochs * funding_epoch_slots <= U64_MAX
    /\ HasBaseline =>
         /\ realized_yield_ok(funding.index, rate)
         /\ annualize_ok(realized_yield(funding.index, rate), epochs * funding_epoch_slots)
funding_due(p, side, mid) ==
    LET epochs == epochs_due(p)
        index  == funding_index(epochs)
        mark   == IF mid = NoMid THEN index ELSE mid
    IN  funding_payment(p.notional, funding_rate(mark - index, funding_k, max_funding),
                        epochs, side)

settle_funding(k, u, mid) ==
    LET p       == position[k]
        payment == funding_due(p, k[2], mid)
    IN  /\ p.market = "market" /\ u \in ledgers
        /\ epochs_due(p) > 0
        /\ funding_index_ok(epochs_due(p))
        /\ settle_signed_ok(ledger(u), payment)
        /\ fits_i128(funding.accumulator + payment)
        /\ SaveLedger(u, settle_signed(ledger(u), payment))
        /\ position' = [position EXCEPT ![k] =
             [p EXCEPT !.last_funding_epoch = cur_epoch]]
        /\ funding' = [epoch |-> cur_epoch, index |-> rate,
                       accumulator |-> funding.accumulator + payment]
        /\ UNCHANGED <<slot, rate, wallet, vault, ledgers, reserved, bookVars>>

UnrealizedPnl(k) == pnl(position[k].entry, rate, position[k].notional, k[2])
HasPnl(k) == pnl_ok(position[k].entry, rate, position[k].notional)
UnderMargin(k) ==
    /\ HasPnl(k)
    /\ liquidatable(position[k].collateral, UnrealizedPnl(k), position[k].notional,
                    maintenance_margin_bps)

(* The TWAP guard belongs to the book: here it may pass at any time. *)
liquidate(liquidator, k, u, amount) ==
    LET p         == position[k]
        out       == apply_liquidation(p.collateral, p.notional, amount, initial_margin_bps)
        consumed  == p.collateral - out.remaining
        loss      == MinOf(Abs(UnrealizedPnl(k)), U64_MAX)
        booked    == apply_liquidation_loss(deposited[u], reserved[u] - consumed,
                                            loss, out.reward)
    IN  /\ liquidator # u /\ {liquidator, u} \subseteq ledgers
        /\ p.market = "market" /\ p.notional > 0
        /\ UnderMargin(k)
        /\ amount > 0 /\ amount <= p.notional
        /\ consumed <= reserved[u]
        /\ apply_liquidation_loss_ok(deposited[u], reserved[u] - consumed, out.reward)
        /\ pnl_pool + booked <= U64_MAX
        /\ deposited[liquidator] + out.reward <= U64_MAX
        /\ position' = [position EXCEPT ![k] =
             [p EXCEPT !.notional = @ - amount, !.collateral = out.remaining]]
        /\ reserved' = [reserved EXCEPT ![u] = @ - consumed]
        /\ deposited' = [deposited EXCEPT ![u] = @ - booked - out.reward,
                                          ![liquidator] = @ + out.reward]
        /\ pnl_pool' = pnl_pool + booked
        /\ UNCHANGED <<slot, rate, wallet, vault, ledgers, claimable, funding, bookVars>>

-----------------------------------------------------------------------------
(* The world: the stake pool's rate moves, and slots pass. *)
change_rate ==
    /\ rate' \in Rates \ {rate}
    /\ UNCHANGED <<slot, ledgers, reserved, funding, position, bookVars, moneyVars>>
tick ==
    /\ slot < MAX_SLOT
    /\ slot' = slot + 1
    /\ UNCHANGED <<rate, ledgers, reserved, funding, position, bookVars, moneyVars>>

Next ==
    \/ \E u \in Users, amount \in Amounts :
         deposit_collateral(u, amount) \/ withdraw_collateral(u, amount)
    \/ \E u \in Users, side \in Sides, fills \in FillSeqs :
         open_position(u, side, fills) \/ close_position(u, side, fills)
    \/ \E batch \in Batches : book_events(batch)
    \/ \E i \in Slots : settle_fill(i)
    \/ \E k \in Keys : reset_position(k) \/ settle_close(k, k[1])
    \/ \E k \in Keys, mid \in Mids \cup {NoMid} : settle_funding(k, k[1], mid)
    \/ \E liquidator \in Users, k \in Keys, amount \in Sizes :
         liquidate(liquidator, k, k[1], amount)
    \/ change_rate
    \/ tick

Spec == Init /\ [][Next]_vars

-----------------------------------------------------------------------------
TypeOK ==
    /\ slot \in 1..MAX_SLOT /\ rate \in Rates
    /\ wallet \in [Users -> Nat] /\ vault \in Nat
    /\ ledgers \subseteq Users
    /\ deposited \in [Users -> U64] /\ reserved \in [Users -> U64]
    /\ claimable \in [Users -> U64] /\ pnl_pool \in U64
    /\ funding \in [epoch : U64, index : [n : U64, d : U64], accumulator : Int]
    /\ position \in [Keys -> Position]
    /\ events \in [Slots -> FillEvent \cup {NoFill}] /\ cursor \in Slots

(* Every token in the vault is some user's deposited collateral or in the PnL *)
(* pool (settlement.rs: nothing is minted, nothing vanishes).                 *)
Conservation == vault = pnl_pool + SumUpTo(deposited, NumUsers)

(* Each position is backed by exactly its initial margin, and a user's        *)
(* reserved collateral is exactly what backs their two positions, whatever    *)
(* the interleaving of opens, closes, maker settlements and liquidations      *)
(* (lib.rs D11 and the invariant state.rs gives Position.collateral).         *)
MarginLedger ==
    /\ \A k \in Keys : position[k].collateral = margin(position[k].notional)
    /\ \A u \in Users :
         reserved[u] = position[<<u, "Long">>].collateral + position[<<u, "Short">>].collateral

(* A live position never owes funding for an epoch before it was opened or    *)
(* re-opened, and never for one still to come (positions.md: funding never    *)
(* accrues over the closed interval).                                         *)
FundingFromOpen ==
    \A k \in Keys : position[k].notional > 0 =>
        /\ funding_epoch(position[k].open_slot, funding_epoch_slots)
              <= position[k].last_funding_epoch
        /\ position[k].last_funding_epoch <= cur_epoch

-----------------------------------------------------------------------------
(* Steps seen from outside: what a liquidation does to a position.            *)
Liquidated(k) ==
    /\ position'[k].notional < position[k].notional
    /\ position'[k].closed_notional = position[k].closed_notional
    /\ position'[k].market = "market"
Growth(k) == position'[k].notional - position[k].notional

(* Initial margin never falls below maintenance margin, so only a position    *)
(* that is losing at the current rate is ever liquidated (liquidation.rs      *)
(* R-L2), however its margin was built up.                                    *)
LiquidatesOnlyLosers == [][\A k \in Keys : Liquidated(k) => UnrealizedPnl(k) < 0]_vars

(* A liquidation leaves the victim's other position fully backed: loss and    *)
(* reward come out of free collateral and the released margin only            *)
(* (settlement.rs, apply_liquidation_loss).                                   *)
LiquidationSparesBacking ==
    [][\A k \in Keys : Liquidated(k) =>
          /\ deposited'[k[1]] >= reserved'[k[1]]
          /\ deposited[k[1]] - deposited'[k[1]] <=
                (deposited[k[1]] - reserved[k[1]])
                + (position[k].collateral - position'[k].collateral)]_vars

(* A pending claim shrinks only by being paid out of the pool into the        *)
(* claimant's own ledger (settlement.rs, claim_payout): never forgiven.       *)
ClaimsOnlyPaid ==
    [][\A u \in Users : claimable'[u] < claimable[u] =>
          LET paid == claimable[u] - claimable'[u]
          IN  /\ pnl_pool' = pnl_pool - paid
              /\ deposited'[u] - deposited[u] = paid + (vault' - vault)]_vars

(* The money half of every instruction is a step of the abstract custody      *)
(* specification, or leaves the money alone.                                  *)
CustodySpec == INSTANCE Custody
ImplementsCustody == CustodySpec!Spec

-----------------------------------------------------------------------------
(* The trader SDK beside the program. *)
Sdk == INSTANCE SdkMath

(* A trader who asks the SDK what a position stands to win or lose is told    *)
(* what the program would book or judge it by, closed part and live part,     *)
(* however skewed the entry sums of many fills are: wherever the program has  *)
(* a PnL the SDK has that one (sdk/src/positions.ts, "byte-identical").       *)
SdkPnlAgrees ==
    \A k \in Keys :
        LET p == position[k]
            Agrees(sums, notional) ==
                pnl_ok(sums, rate, notional) =>
                    Sdk!pnl(sums, rate, notional, k[2])
                      = Sdk!defined(pnl(sums, rate, notional, k[2]))
        IN  Agrees(p.entry, p.notional) /\ Agrees(p.closed_entry, p.closed_notional)

(* The funding the CLI quotes for an account and a book is the payment that   *)
(* settle_funding books for them in the same slot, whoever settled before and *)
(* wherever that left the market's baseline, a one-sided book included        *)
(* (mark-index.ts; cli/test/funding-regression.test.ts).                      *)
SdkFundingAgrees ==
    \A k \in Keys, mid \in Mids \cup {NoMid} :
        LET p == position[k]
        IN  epochs_due(p) > 0 /\ funding_index_ok(epochs_due(p)) =>
              Sdk!expectedFundingForBook(funding.index, p.last_funding_epoch, p.notional,
                                         k[2], mid, rate, slot)
                = Sdk!defined(funding_due(p, k[2], mid))

-----------------------------------------------------------------------------
(* What the documentation says and the code does not do: each is violated.    *)

(* lib.rs, liquidate: the booked loss is capped so that "other positions'     *)
(* reserved backing is never touched (no underflow)".  A settlement debits    *)
(* all of `deposited`, not its free part; once one has eaten into the         *)
(* reserve, the seam underflows and no liquidator can act.                    *)
SeamNeverUnderflows ==
    \A k \in Keys : \A amount \in 1..position[k].notional : UnderMargin(k) =>
        LET p   == position[k]
            out == apply_liquidation(p.collateral, p.notional, amount, initial_margin_bps)
        IN  apply_liquidation_loss_ok(deposited[k[1]],
                reserved[k[1]] - (p.collateral - out.remaining), out.reward)

(* state.rs: settle_close "realizes the signed PnL over" closed_notional "and *)
(* resets it to 0".  reset_position also zeroes it, settling nothing.         *)
ClosedPnlIsRealized ==
    [][\A k \in Keys :
          LET p == position[k]
          IN  position'[k].closed_notional < p.closed_notional =>
                /\ pnl_ok(p.closed_entry, rate, p.closed_notional)
                /\ <<deposited'[k[1]], claimable'[k[1]], pnl_pool'>> =
                     LET l == settle_signed(ledger(k[1]),
                                pnl(p.closed_entry, rate, p.closed_notional, k[2]))
                     IN  <<l.deposited, l.claimable, l.pool>>]_vars

=============================================================================
