------------------------------- MODULE Market -------------------------------
(* The whole program: the order book and the accounts composed, from the      *)
(* three initializers on.  Every instruction takes the accounts its caller    *)
(* passes and the constraints that bind them (the #[derive(Accounts)] structs *)
(* and the checks of the permissionless handlers); what it then does is in    *)
(* OrderBook and Accounts.  Position accounts are named by owner and side,    *)
(* ledgers by owner, mints by their decimals.                                 *)
EXTENDS Traders, Sequences

CONSTANTS
    initial_margin_bps, maintenance_margin_bps,
    funding_k, max_funding, funding_epoch_slots,
    MAX_ORDERS_PER_SIDE, MAX_MATCH_STEPS, EVENT_QUEUE_LEN, CRANK_BATCH_LEN,
    LIQUIDATION_TWAP_WINDOW, TWAP_OBSERVATIONS,
    Setups,            \* bound: what initialize_market is sent
    Requests,          \* bound: the orders placed, as in OrderBook
    Openings,          \* bound: the orders sent to open_position
    Rates, Amounts, Sizes, MAX_CLOSED,     \* bounds, as in Accounts
    OTHER_RATE,        \* bound: the rate of a stake pool that is not the index
    MAX_SEQ, MAX_SLOT  \* bounds: orders accepted, the last slot

VARIABLES
    slot, rate, wallet, vault, ledgers, deposited, reserved, claimable,
    pnl_pool, funding, position,                            \* as in Accounts
    book, events, event_read_cursor, event_write_cursor,
    observations, twap_cursor,                              \* as in OrderBook
    stamp,             \* OutEvent's seq, entry snapshot and settled mark
    market,            \* PerpMarket's authority, mint and index source
    has_book, has_vault     \* the OrderBook and the vault accounts exist

Keys == Users \X Sides
RingSlots == 0..(EVENT_QUEUE_LEN - 1)
NoMarket == [authority |-> 0, collateral_mint |-> 0, index_source |-> "none"]
JitoSOL == "jitoSOL"                    \* the pool whose rate moves in the model
StakePools == {JitoSOL, "other"}        \* accounts owned by the SPL Stake Pool program
Pools == StakePools \cup {"forged"}     \* what a caller may pass as one
Mints == {6, 9}
USDC_DECIMALS == 6

ASSUME SetupAssumption ==
    /\ Setups \subseteq [authority : Users, collateral_mint : Mints, index_source : Pools]
    /\ \A s \in Setups : s.index_source # "other"
    /\ OTHER_RATE \in ExchangeRate

ASSUME ParameterAssumption ==                      \* as in Accounts
    /\ initial_margin_bps \in 1..BPS /\ maintenance_margin_bps \in 1..initial_margin_bps
    /\ funding_k \in 1..APY_SCALE /\ max_funding \in 0..APY_SCALE
    /\ funding_epoch_slots \in U64
    /\ Rates \subseteq ExchangeRate /\ Rates # {}
    /\ Amounts \subseteq U64 /\ MAX_CLOSED \in U64

(* A fill may leave any smaller size to the next one.  A batch of the crank   *)
(* ends before the residuals it may defer itself (both constants are 8).       *)
ASSUME OrderAssumption ==
    /\ {MAX_ORDERS_PER_SIDE, MAX_MATCH_STEPS, EVENT_QUEUE_LEN, CRANK_BATCH_LEN,
        LIQUIDATION_TWAP_WINDOW, TWAP_OBSERVATIONS} \subseteq Nat \ {0}
    /\ CRANK_BATCH_LEN <= MAX_MATCH_STEPS + 1
    /\ MAX_SEQ \in Nat /\ MAX_SLOT \in U64 \ {0}
    /\ Sizes \subseteq U64 \ {0} /\ \A size \in Sizes : 1..size \subseteq Sizes
    /\ Requests # {}
    /\ Requests \cup Openings
         \subseteq [owner : Users, side : {"Bid", "Ask"}, price : U64, size : Sizes]

(* The rate in a stake-pool account; read_stake_pool fails on any other.      *)
read_stake_pool(pool) == pool \in StakePools
ExchangeRateOf(pool) == IF pool = JitoSOL THEN rate ELSE OTHER_RATE

(* A bid is a long's side of the book, an ask a short's: one byte for both.   *)
PositionSide(side) == IF side = "Bid" THEN "Long" ELSE "Short"
BookSide(side) == IF side = "Long" THEN "Bid" ELSE "Ask"

-----------------------------------------------------------------------------
(* The components *)

Book == INSTANCE OrderBook WITH Owners <- Users

(* The ring as the accounts see it: fills with their stamps, and the rest.    *)
AccountsEvent(i) ==
    IF events[i].kind # "Fill" THEN [kind |-> "Other"]
    ELSE [kind |-> "Fill", owner |-> events[i].owner, side |-> PositionSide(events[i].side),
          size |-> events[i].size, entry |-> stamp[i].entry, settled |-> stamp[i].settled]
AccountsEvents == [i \in RingSlots |-> AccountsEvent(i)]

(* The accounts, with the exchange rate read from the pool that was passed.   *)
On(pool) == INSTANCE Accounts WITH
    rate <- ExchangeRateOf(pool),
    events <- AccountsEvents, cursor <- event_write_cursor % EVENT_QUEUE_LEN,
    MAX_FILLS <- EVENT_QUEUE_LEN, Makers <- Users, Traded <- Keys, Mids <- U64 \ {0}
Bound == INSTANCE Accounts WITH
    events <- AccountsEvents, cursor <- event_write_cursor % EVENT_QUEUE_LEN,
    MAX_FILLS <- EVENT_QUEUE_LEN, Makers <- Users, Traded <- Keys, Mids <- U64 \ {0}

setupVars == <<market, has_book, has_vault>>
bookVars == <<book, events, stamp, event_read_cursor, event_write_cursor,
              observations, twap_cursor>>
moneyVars == <<wallet, vault, ledgers, deposited, claimable, pnl_pool, funding>>
accountVars == <<moneyVars, reserved, position>>
vars == <<slot, rate, setupVars, bookVars, accountVars>>

Init ==
    /\ Book!Init
    /\ stamp = [i \in RingSlots |-> [seq |-> 0, entry |-> Bound!NoSums, settled |-> 0]]
    /\ Bound!Init
    /\ market = NoMarket /\ has_book = FALSE /\ has_vault = FALSE

-----------------------------------------------------------------------------
(* Initializers *)

(* The singleton market: whoever signs first becomes its authority, chooses   *)
(* its mint unchecked and binds any stake pool as its index.                  *)
InitializeMarket == market = NoMarket
initialize_market(s) ==
    /\ InitializeMarket
    /\ read_stake_pool(s.index_source)
    /\ market' = s
    /\ UNCHANGED <<slot, rate, has_book, has_vault, bookVars, accountVars>>

InitializeOrderBook(authority) ==
    market # NoMarket /\ authority = market.authority /\ ~has_book
initialize_order_book(authority) ==
    /\ InitializeOrderBook(authority)
    /\ has_book' = TRUE
    /\ UNCHANGED <<slot, rate, market, has_vault, bookVars, accountVars>>

InitializeCollateralVault(authority, mint) ==
    market # NoMarket /\ authority = market.authority /\ mint = market.collateral_mint
initialize_collateral_vault(authority, mint) ==
    /\ InitializeCollateralVault(authority, mint)
    /\ ~has_vault
    /\ mint = USDC_DECIMALS
    /\ has_vault' = TRUE
    /\ UNCHANGED <<slot, rate, market, has_book, bookVars, accountVars>>

-----------------------------------------------------------------------------
(* Collateral: l is the ledger account passed, seeded by its signer *)

collateral_pda(owner) == owner
position_pda(owner, side) == <<owner, side>>

DepositCollateral(user, l, mint) ==
    market # NoMarket /\ l = collateral_pda(user) /\ mint = market.collateral_mint
deposit_collateral(user, l, mint, amount) ==
    /\ DepositCollateral(user, l, mint) /\ has_vault
    /\ UNCHANGED <<setupVars, bookVars>>
    /\ Bound!deposit_collateral(l, amount)

WithdrawCollateral(user, l, mint) ==
    market # NoMarket /\ l = collateral_pda(user) /\ mint = market.collateral_mint
withdraw_collateral(user, l, mint, amount) ==
    /\ WithdrawCollateral(user, l, mint) /\ has_vault
    /\ UNCHANGED <<setupVars, bookVars>>
    /\ Bound!withdraw_collateral(l, amount)

-----------------------------------------------------------------------------
(* Orders: the book's step, then its new events stamped with the rate read *)

Appended == event_write_cursor..(event_write_cursor' - 1)
NewEvent(n) == events'[n % EVENT_QUEUE_LEN]
Filled == Book!TotalOf({n \in Appended : NewEvent(n).kind = "Fill"}, LAMBDA n : NewEvent(n).size)

(* Every field of the slot is written; MutStampOf leaves the settled mark.    *)
MutStampOf(n, pool) ==
    [stamp[n % EVENT_QUEUE_LEN] EXCEPT !.seq = n, !.entry = ExchangeRateOf(pool)]
StampOf(n, pool) ==
    [seq |-> n,
     entry |-> IF NewEvent(n).kind = "Fill" THEN ExchangeRateOf(pool) ELSE Bound!NoSums,
     settled |-> 0]
Stamped(pool) ==
    stamp' = [i \in RingSlots |->
        LET written == {n \in Appended : n % EVENT_QUEUE_LEN = i}
        IN  IF written = {} THEN stamp[i]
            ELSE StampOf(CHOOSE n \in written : \A m \in written : m <= n, pool)]

Accepting == book.next_seq < MAX_SEQ

(* An order that gives its taker no position. *)
OnlyBook(pool) == Stamped(pool) /\ UNCHANGED <<rate, setupVars, accountVars>>

PlaceLimitOrder(pool) == has_book /\ pool = market.index_source
place_limit_order(q, pool) ==
    /\ Accepting /\ PlaceLimitOrder(pool)
    /\ Book!place_limit_order(q)
    /\ OnlyBook(pool)

PlaceMarketOrder(pool) == has_book /\ pool = market.index_source
place_market_order(q, pool) ==
    /\ Accepting /\ PlaceMarketOrder(pool)
    /\ Book!place_market_order(q)
    /\ OnlyBook(pool)

CancelOrder == has_book
cancel_order(side, i) ==
    /\ CancelOrder
    /\ Book!cancel_order(side, i)
    /\ OnlyBook(market.index_source)

Crank(pool) == has_book /\ pool = market.index_source
crank(pool) ==
    /\ Crank(pool)
    /\ Book!crank
    /\ OnlyBook(pool)

-----------------------------------------------------------------------------
(* Positions: k and l are the position and the ledger passed, seeded by the owner *)

OpenPosition(owner, side, pool, k, l) ==
    /\ has_book /\ pool = market.index_source
    /\ k = position_pda(owner, side) /\ l = collateral_pda(owner)
open_position(q, pool, k, l) ==
    /\ Accepting /\ OpenPosition(q.owner, PositionSide(q.side), pool, k, l)
    /\ Book!open_position(q)
    /\ Stamped(pool)
    /\ IF Filled = 0 THEN UNCHANGED <<position, reserved>>
       ELSE Bound!apply_open_fills(k, l, Filled, ExchangeRateOf(pool))
    /\ UNCHANGED <<rate, setupVars, moneyVars>>

ClosePosition(owner, side, pool, k, l) ==
    /\ has_book /\ pool = market.index_source
    /\ k = position_pda(owner, side) /\ l = collateral_pda(owner)
(* A long is closed by an ask, a short by a bid; MutClosingSide opens more.   *)
MutClosingSide(side) == BookSide(side)
ClosingSide(side) == Book!Opposite(BookSide(side))
ClosingOrder(owner, side, size) ==
    [owner |-> owner, side |-> ClosingSide(side), price |-> 0, size |-> size]
close_position(owner, side, size, pool, k, l) ==
    /\ Accepting /\ ClosePosition(owner, side, pool, k, l)
    /\ position[k].notional > 0 /\ size <= position[k].notional
    /\ Book!close_position(ClosingOrder(owner, side, size))
    /\ Stamped(pool)
    /\ IF Filled = 0 THEN UNCHANGED <<position, reserved>>
       ELSE l \in ledgers /\ Bound!apply_close_fills(k, l, Filled)
    /\ UNCHANGED <<rate, setupVars, moneyVars>>

ResetPosition(user, side, k) == market # NoMarket /\ k = position_pda(user, side)
reset_position(user, side, k) ==
    /\ ResetPosition(user, side, k)
    /\ UNCHANGED <<setupVars, bookVars>>
    /\ Bound!reset_position(k)

-----------------------------------------------------------------------------
(* Settlements, which anyone may send with any accounts *)

(* A pending fill still in the ring under its own sequence number: settled    *)
(* ones are a no-op, and a slot that the ring has reused is not found.        *)
settle_event(seq) ==
    LET i == seq % EVENT_QUEUE_LEN
    IN  /\ stamp[i].seq = seq
        /\ events[i].kind = "Fill"
        /\ stamp[i].settled = 0
verify_maker_accounts(event, k, l) ==
    /\ k = position_pda(event.owner, PositionSide(event.side))
    /\ l = collateral_pda(event.owner)

MarkSettled(i) == [stamp EXCEPT ![i].settled = 1]

SettleFill == has_book
settle_fill(seq, k, l) ==
    LET i == seq % EVENT_QUEUE_LEN
    IN  /\ SettleFill
        /\ settle_event(seq)
        /\ verify_maker_accounts(events[i], k, l)
        /\ Bound!apply_open_fills(k, l, events[i].size, stamp[i].entry)
        /\ stamp' = MarkSettled(i)
        /\ UNCHANGED <<slot, rate, setupVars, moneyVars, book, events, event_read_cursor,
                       event_write_cursor, observations, twap_cursor>>

(* The ledger must be the one of the position's owner; MutVerifyCollateralPda *)
(* takes any.                                                                 *)
MutVerifyCollateralPda(owner, l) == TRUE
verify_collateral_pda(owner, l) == l = collateral_pda(owner)
owner_of(k) == k[1]

SettleClose(pool, l) == market # NoMarket /\ l \in ledgers /\ pool = market.index_source
settle_close(pool, k, l) ==
    /\ SettleClose(pool, l)
    /\ verify_collateral_pda(owner_of(k), l)
    /\ UNCHANGED <<rate, setupVars, bookVars>>
    /\ On(pool)!settle_close(k, l)

SettleFunding(pool, l) == has_book /\ l \in ledgers /\ pool = market.index_source
settle_funding(pool, k, l) ==
    /\ SettleFunding(pool, l)
    /\ verify_collateral_pda(owner_of(k), l)
    /\ UNCHANGED <<rate, setupVars, bookVars>>
    /\ On(pool)!settle_funding(k, l, Book!mid(book))

(* ll is the liquidator's own ledger; the book must have a reference price.   *)
Liquidate(liquidator, pool, l, ll) ==
    /\ has_book /\ {l, ll} \subseteq ledgers
    /\ pool = market.index_source /\ ll = collateral_pda(liquidator)
liquidate(liquidator, pool, k, l, ll, amount) ==
    /\ Liquidate(liquidator, pool, l, ll)
    /\ verify_collateral_pda(owner_of(k), l)
    /\ Book!twap(observations, LIQUIDATION_TWAP_WINDOW, slot) # Book!NoTwap
    /\ UNCHANGED <<rate, setupVars, bookVars>>
    /\ On(pool)!liquidate(ll, k, l, amount)

-----------------------------------------------------------------------------
change_rate == UNCHANGED <<setupVars, bookVars>> /\ Bound!change_rate
tick == UNCHANGED <<setupVars, bookVars>> /\ Bound!tick

SetupNext ==
    \/ \E s \in Setups : initialize_market(s)
    \/ \E authority \in Users : initialize_order_book(authority)
    \/ \E authority \in Users, mint \in Mints : initialize_collateral_vault(authority, mint)
OrderNext ==
    \/ \E pool \in Pools, q \in Requests :
         place_limit_order(q, pool) \/ place_market_order(q, pool)
    \/ \E pool \in Pools, q \in Openings, k \in Keys, l \in Users : open_position(q, pool, k, l)
    \/ \E pool \in Pools, owner \in Users, side \in Sides, size \in Sizes, k \in Keys, l \in Users :
         close_position(owner, side, size, pool, k, l)
QueueNext ==
    \/ \E side \in Book!Sides, i \in 1..MAX_ORDERS_PER_SIDE : cancel_order(side, i)
    \/ \E pool \in Pools : crank(pool)
    \/ \E seq \in 0..event_write_cursor, k \in Keys, l \in Users : settle_fill(seq, k, l)
MoneyNext ==
    \/ \E user, l \in Users, mint \in Mints, amount \in Amounts :
         deposit_collateral(user, l, mint, amount) \/ withdraw_collateral(user, l, mint, amount)
    \/ \E user \in Users, side \in Sides, k \in Keys : reset_position(user, side, k)
    \/ \E pool \in Pools, k \in Keys, l \in Users :
         settle_close(pool, k, l) \/ settle_funding(pool, k, l)
    \/ \E liquidator, l, ll \in Users, pool \in Pools, k \in Keys, amount \in Sizes :
         liquidate(liquidator, pool, k, l, ll, amount)

Next == SetupNext \/ OrderNext \/ QueueNext \/ MoneyNext \/ change_rate \/ tick

Spec == Init /\ [][Next]_vars

-----------------------------------------------------------------------------
(* Steps seen from outside. *)
Grew(k) == position'[k].notional > position[k].notional
Growth(k) == position'[k].notional - position[k].notional
Liquidated(k) == Growth(k) < 0 /\ position'[k].closed_notional = position[k].closed_notional
Consumed(i) == stamp[i].settled = 0 /\ stamp' = [stamp EXCEPT ![i].settled = 1]

(* A fill is booked once on each side: a position grows either as the taker   *)
(* whose order leaves pending events of the same total for the makers it met, *)
(* or by consuming one pending event of that owner, side and size; a consumed *)
(* event stays consumed until the ring overwrites it (settle_fill, D9).       *)
FillBookedOnce ==
    [][/\ \A k \in Keys : Grew(k) =>
            IF Appended = {}
            THEN \E i \in RingSlots :
                   /\ Consumed(i) /\ events[i].owner = k[1]
                   /\ PositionSide(events[i].side) = k[2] /\ events[i].size = Growth(k)
            ELSE /\ \A n \in Appended :
                      /\ stamp'[n % EVENT_QUEUE_LEN].settled = 0
                      /\ NewEvent(n).owner # k[1]
                      /\ PositionSide(NewEvent(n).side) = Opposite(k[2])
                 /\ Growth(k) = Filled
       /\ \A i \in RingSlots :
            stamp[i].settled = 1 /\ stamp'[i].seq = stamp[i].seq => stamp'[i] = stamp[i]]_vars

(* Every long is someone's short, as long as takers open positions: what the  *)
(* positions and the fills still to be settled add up to moves only when an   *)
(* order gives its taker no position, when a position is liquidated, and by   *)
(* the pending fills that the ring overwrites before anyone settles them.     *)
Signed(side, size) == IF side = "Long" THEN size ELSE -size
PendingExposure(i) ==
    IF events[i].kind = "Fill" /\ stamp[i].settled = 0
    THEN Signed(PositionSide(events[i].side), events[i].size) ELSE 0
Exposure ==
    Book!TotalOf(Keys, LAMBDA k : Signed(k[2], position[k].notional))
    + Book!TotalOf(RingSlots, LAMBDA i : PendingExposure(i))
Overwritten == {i \in RingSlots : \E n \in Appended : n % EVENT_QUEUE_LEN = i}
ExposureBalanced ==
    [][(\E k \in Keys : Growth(k) # 0) /\ (\A k \in Keys : ~Liquidated(k)) =>
          Exposure' = Exposure - Book!TotalOf(Overwritten, LAMBDA i : PendingExposure(i))]_vars

(* Whatever accounts its callers pass and whatever the book does, the program *)
(* changes ledgers and positions as Accounts allows: each settlement reaches  *)
(* the owner's own ledger at the bound pool's rate, each fill an account of   *)
(* its maker, and every order the positions its fills are for.                *)
ImplementsAccounts == Bound!Spec
=============================================================================
