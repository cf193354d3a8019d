---------------------------- MODULE AccountsProof ----------------------------
(* What the accounts keep true for every width, scale, margin and funding     *)
(* parameter, every number of users and every bound: their types, the margin  *)
(* ledger, and that the money half of every instruction is a custody step.    *)
EXTENDS Accounts, SettlementProof

(* The inductive invariant: a released or seized margin is never more than    *)
(* what is reserved because the ledger is exactly the positions' margins.     *)
IInv == TypeOK /\ MarginLedger

LEMMA LedgerType ==
    ASSUME TypeOK, NEW u \in Users
    PROVE  ledger(u) \in LedgerRecord
  BY DEF TypeOK, ledger, Ledger, LedgerRecord, U64

LEMMA KeyFacts ==
    ASSUME NEW u \in Users, NEW side \in Sides
    PROVE  /\ <<u, side>> \in Keys /\ "Long" \in Sides /\ "Short" \in Sides
           /\ side = "Long" \/ side = "Short"
           /\ Opposite(side) \in Sides /\ Opposite(side) # side
  BY DEF Keys, Sides, Opposite

LEMMA KeyParts ==
    ASSUME NEW k \in Keys
    PROVE  k[1] \in Users /\ k[2] \in Sides /\ k = <<k[1], k[2]>>
  BY DEF Keys

LEMMA EpochType == ASSUME TypeOK PROVE cur_epoch \in U64
<1>1. slot \in Nat /\ slot <= U64_MAX /\ funding_epoch_slots \in Nat
  BY BookAssumption, MarketAssumption, WidthAssumption DEF TypeOK, U64
<1>2. QED
  BY <1>1, FundingEpochType, WidthAssumption DEF cur_epoch, U64

LEMMA RateType == ASSUME TypeOK PROVE rate \in ExchangeRate
  BY BookAssumption DEF TypeOK

LEMMA MarginType ==
    ASSUME NEW n \in U64
    PROVE  margin(n) \in U64
<1>1. initial_margin_bps \in Nat /\ initial_margin_bps <= BPS /\ n \in Nat
  BY MarketAssumption, ScaleAssumption, WidthAssumption DEF U64
<1>2. margin(n) \in 0..n
  BY <1>1, MarginBounded DEF margin
<1>3. QED
  BY <1>2, WidthAssumption DEF U64

(* Changing one position, and its owner's reservation by the difference,      *)
(* keeps the margin ledger.                                                   *)
LEMMA MarginStep ==
    ASSUME IInv, NEW u \in Users, NEW side \in Sides, NEW q \in Position,
           q.collateral = margin(q.notional),
           position' = [position EXCEPT ![<<u, side>>] = q],
           reserved' = [reserved EXCEPT ![u] =
               reserved[u] + (q.collateral - position[<<u, side>>].collateral)]
    PROVE  MarginLedger'
<1>1. /\ position \in [Keys -> Position] /\ reserved \in [Users -> U64]
      /\ <<u, side>> \in Keys
  BY KeyFacts DEF IInv, TypeOK
<1>2. \A k \in Keys : position'[k] = IF k = <<u, side>> THEN q ELSE position[k]
  BY <1>1
<1>3. \A k \in Keys : position'[k].collateral = margin(position'[k].notional)
  BY <1>2 DEF IInv, MarginLedger
<1>4. ASSUME NEW v \in Users
      PROVE  reserved'[v] = position'[<<v, "Long">>].collateral + position'[<<v, "Short">>].collateral
  <2>1. <<v, "Long">> \in Keys /\ <<v, "Short">> \in Keys
    BY KeyFacts DEF Keys, Sides
  <2>2. reserved[v] = position[<<v, "Long">>].collateral + position[<<v, "Short">>].collateral
    BY DEF IInv, MarginLedger
  <2>3. /\ q.collateral \in Int
        /\ position[<<v, "Long">>].collateral \in Int /\ position[<<v, "Short">>].collateral \in Int
    BY <1>1, <2>1, WidthAssumption DEF Position, U64
  <2>4. CASE v # u
    BY <1>1, <1>2, <2>1, <2>2, <2>4
  <2>5. CASE v = u /\ side = "Long"
    BY <1>1, <1>2, <2>1, <2>2, <2>3, <2>5
  <2>6. CASE v = u /\ side = "Short"
    BY <1>1, <1>2, <2>1, <2>2, <2>3, <2>6
  <2>7. QED
    BY <2>4, <2>5, <2>6, KeyFacts
<1>5. QED
  BY <1>3, <1>4 DEF MarginLedger, margin

(* A position's collateral is part of its owner's reservation. *)
LEMMA ReservedCoversPosition ==
    ASSUME IInv, NEW u \in Users, NEW side \in Sides
    PROVE  /\ position[<<u, side>>] \in Position
           /\ position[<<u, side>>].collateral = margin(position[<<u, side>>].notional)
           /\ reserved[u] \in U64
           /\ position[<<u, side>>].collateral <= reserved[u]
<1>1. /\ position \in [Keys -> Position] /\ reserved \in [Users -> U64]
      /\ <<u, "Long">> \in Keys /\ <<u, "Short">> \in Keys /\ <<u, side>> \in Keys
  BY KeyFacts DEF IInv, TypeOK, Keys, Sides
<1>2. /\ position[<<u, "Long">>].collateral \in Nat /\ position[<<u, "Short">>].collateral \in Nat
  BY <1>1, WidthAssumption DEF Position, U64
<1>3. reserved[u] = position[<<u, "Long">>].collateral + position[<<u, "Short">>].collateral
  BY DEF IInv, MarginLedger
<1>4. QED
  BY <1>1, <1>2, <1>3, KeyFacts DEF IInv, MarginLedger

-----------------------------------------------------------------------------
(* The parts of an instruction. *)
LEMMA SaveLedgerType ==
    ASSUME TypeOK, NEW u \in Users, NEW l \in LedgerRecord, fits(l), SaveLedger(u, l)
    PROVE  /\ deposited' \in [Users -> U64] /\ claimable' \in [Users -> U64]
           /\ pnl_pool' \in U64
<1>1. l.deposited \in U64 /\ l.claimable \in U64 /\ l.pool \in U64
  BY WidthAssumption DEF LedgerRecord, fits, U64
<1>2. QED
  BY <1>1 DEF SaveLedger, TypeOK

LEMMA FillsType ==
    ASSUME NEW fills \in FillSeqs
    PROVE  /\ Len(fills) \in 1..EVENT_QUEUE_LEN
           /\ \A k \in 1..Len(fills) :
                fills[k].maker \in Users /\ fills[k].size \in U64 \ {0}
           /\ Filled(fills) \in Nat
<1>1. PICK k \in 1..MAX_FILLS : fills \in [1..k -> [maker : Makers, size : Sizes]]
  BY DEF FillSeqs
<1>2. /\ EVENT_QUEUE_LEN \in Nat /\ MAX_FILLS \in 1..EVENT_QUEUE_LEN
      /\ Makers \subseteq Users /\ Sizes \subseteq U64 \ {0}
  BY BookAssumption DEF Users
<1>3. Len(fills) = k /\ k \in Nat
  BY <1>1, <1>2
<1>4. \A i \in 1..k : fills[i].maker \in Users /\ fills[i].size \in U64 \ {0}
  BY <1>1, <1>2
<1>5. [i \in 1..k |-> fills[i].size] \in [1..k -> Nat]
  BY <1>4, WidthAssumption DEF U64
<1>6. Filled(fills) \in Nat
  BY <1>3, <1>5, SumBoundsItems DEF Filled
<1>7. QED
  BY <1>1, <1>2, <1>3, <1>4, <1>6

LEMMA RingStep ==
    ASSUME TypeOK, NEW batch, Len(batch) \in Nat,
           \A k \in 1..Len(batch) : batch[k] \in FillEvent \cup {NoFill},
           append_events(batch)
    PROVE  events' \in [Slots -> FillEvent \cup {NoFill}] /\ cursor' \in Slots
<1>1. EVENT_QUEUE_LEN \in Nat \ {0} /\ cursor \in 0..(EVENT_QUEUE_LEN - 1)
  BY BookAssumption DEF TypeOK, Slots
<1>2. cursor' \in Slots
  BY <1>1 DEF append_events, Slots
<1>3. ASSUME NEW i \in Slots PROVE events'[i] \in FillEvent \cup {NoFill}
  <2> DEFINE k == ((i - cursor) % EVENT_QUEUE_LEN) + 1
  <2>1. k \in Nat /\ k >= 1
    BY <1>1 DEF Slots
  <2>2. events[i] \in FillEvent \cup {NoFill}
    BY DEF TypeOK
  <2>3. events'[i] = IF k <= Len(batch) THEN batch[k] ELSE events[i]
    BY DEF append_events
  <2> HIDE DEF k
  <2>4. QED
    BY <2>1, <2>2, <2>3
<1>4. QED
  BY <1>2, <1>3 DEF append_events

LEMMA NewFillType ==
    ASSUME TypeOK, NEW m \in Users, NEW side \in Sides, NEW size \in U64 \ {0}
    PROVE  NewFill(m, side, size) \in FillEvent
  BY RateType DEF NewFill, FillEvent

LEMMA FillsAppended ==
    ASSUME TypeOK, NEW fills \in FillSeqs, NEW side \in Sides,
           emit_fill_events(fills, side)
    PROVE  events' \in [Slots -> FillEvent \cup {NoFill}] /\ cursor' \in Slots
<1> DEFINE batch == [k \in 1..Len(fills) |-> NewFill(fills[k].maker, side, fills[k].size)]
<1>1. Len(fills) \in Nat /\ Len(batch) = Len(fills)
  BY FillsType, BookAssumption
<1>2. ASSUME NEW k \in 1..Len(batch) PROVE batch[k] \in FillEvent
  <2>1. fills[k].maker \in Users /\ fills[k].size \in U64 \ {0}
    BY <1>1, FillsType
  <2>2. QED
    BY <1>1, <2>1, NewFillType
<1>3. append_events(batch)
  BY DEF emit_fill_events
<1> HIDE DEF batch
<1>4. QED
  BY <1>1, <1>2, <1>3, RingStep

LEMMA OpenFillsStep ==
    ASSUME IInv, NEW u \in Users, NEW side \in Sides, NEW size \in Nat,
           NEW entry \in ExchangeRate, apply_open_fills(<<u, side>>, u, size, entry)
    PROVE  /\ position' \in [Keys -> Position] /\ reserved' \in [Users -> U64]
           /\ MarginLedger'
<1> DEFINE p            == position[<<u, side>>]
           reopening    == p.notional = 0
           sums         == IF reopening THEN NoSums ELSE p.entry
           notional     == p.notional + size
           new_reserved == reserved[u] + (margin(notional) - p.collateral)
           q == [p EXCEPT !.market = "market",
                          !.notional = notional,
                          !.entry = accumulate_entry(sums, entry, size),
                          !.collateral = margin(notional),
                          !.open_slot = IF reopening THEN slot ELSE @,
                          !.last_funding_epoch = FundingStart(p)]
<1>1. /\ position' = [position EXCEPT ![<<u, side>>] = q]
      /\ reserved' = [reserved EXCEPT ![u] = new_reserved]
      /\ accumulate_entry_ok(sums, entry, size) /\ notional <= U64_MAX
      /\ margin(notional) >= p.collateral /\ new_reserved <= U64_MAX
  BY DEF apply_open_fills
<1>2. p \in Position /\ reserved[u] \in U64
  BY ReservedCoversPosition
<1>3. notional \in U64
  BY <1>1, <1>2, WidthAssumption DEF Position, U64
<1>4. sums \in EntrySums
  BY <1>2, WidthAssumption DEF Position, NoSums, EntrySums, U128
<1>5. accumulate_entry(sums, entry, size) \in EntrySums
  BY <1>1, <1>4, AccumulateType
<1>6. margin(notional) \in U64
  BY <1>3, MarginType
<1>7. slot \in U64 /\ FundingStart(p) \in U64
  BY <1>2, EpochType, BookAssumption, WidthAssumption
     DEF IInv, TypeOK, FundingStart, Position, U64
<1>8. q \in Position /\ q.notional = notional /\ q.collateral = margin(notional)
  <2> HIDE DEF sums, notional, new_reserved, p
  <2>1. QED
    BY <1>2, <1>3, <1>5, <1>6, <1>7 DEF Position
<1>9. new_reserved \in U64
  BY <1>1, <1>2, <1>6, WidthAssumption DEF Position, U64
<1> HIDE DEF q
<1>10. MarginLedger'
  BY <1>1, <1>8, MarginStep
<1>11. QED
  BY <1>1, <1>8, <1>9, <1>10 DEF IInv, TypeOK

LEMMA PerUnitType ==
    ASSUME NEW p \in Position, p.notional > 0
    PROVE  per_unit(p) \in [n : Nat, d : Nat]
<1>1. p.notional \in Nat \ {0} /\ p.entry.n \in Nat /\ p.entry.d \in Nat
  BY WidthAssumption DEF Position, EntrySums, U128, U64
<1>2. U64_MAX + 1 \in Nat \ {0}
  BY WidthAssumption
<1>3. p.entry.n \div p.notional \in Nat /\ p.entry.d \div p.notional \in Nat
  BY <1>1
<1>4. QED
  BY <1>2, <1>3 DEF per_unit

LEMMA CloseFillsStep ==
    ASSUME IInv, NEW u \in Users, NEW side \in Sides, NEW size \in Nat,
           position[<<u, side>>].notional > 0, apply_close_fills(<<u, side>>, u, size)
    PROVE  /\ position' \in [Keys -> Position] /\ reserved' \in [Users -> U64]
           /\ MarginLedger'
<1> DEFINE p        == position[<<u, side>>]
           notional == p.notional - size
           released == p.collateral - margin(notional)
           closed   == accumulate_closed_entry(p.closed_entry, p.closed_notional,
                                               per_unit(p), size)
           q == [p EXCEPT !.notional = notional,
                          !.collateral = margin(notional),
                          !.closed_notional = @ + size,
                          !.closed_entry = closed]
<1>1. /\ position' = [position EXCEPT ![<<u, side>>] = q]
      /\ reserved' = [reserved EXCEPT ![u] = reserved[u] - released]
      /\ size <= p.notional /\ released >= 0 /\ released <= reserved[u]
      /\ p.closed_notional + size <= MAX_CLOSED
      /\ accumulate_closed_entry_ok(p.closed_entry, p.closed_notional, per_unit(p), size)
  BY DEF apply_close_fills
<1>2. p \in Position /\ reserved[u] \in U64
  BY ReservedCoversPosition
<1>3. notional \in U64 /\ p.closed_notional + size \in U64 /\ p.closed_notional \in Nat
  BY <1>1, <1>2, BookAssumption, WidthAssumption DEF Position, U64
<1>4. closed \in EntrySums
  BY <1>1, <1>2, <1>3, PerUnitType, ClosedEntryType DEF Position
<1>5. margin(notional) \in U64
  BY <1>3, MarginType
<1>6. q \in Position /\ q.notional = notional /\ q.collateral = margin(notional)
  <2> HIDE DEF notional, closed, p
  <2>1. QED
    BY <1>2, <1>3, <1>4, <1>5 DEF Position
<1>7. reserved[u] - released \in U64
      /\ reserved[u] - released = reserved[u] + (q.collateral - p.collateral)
  <2>1. p.collateral \in Int /\ margin(notional) \in Int /\ reserved[u] \in Int
    BY <1>2, <1>5, WidthAssumption DEF Position, U64
  <2>2. QED
    BY <1>1, <1>2, <1>6, <2>1, WidthAssumption DEF U64
<1> HIDE DEF q
<1>8. MarginLedger'
  BY <1>1, <1>6, <1>7, MarginStep
<1>9. QED
  BY <1>1, <1>6, <1>7, <1>8 DEF IInv, TypeOK

(* An instruction that replaces one position and leaves margins alone. *)
LEMMA MarginUnchanged ==
    ASSUME IInv, NEW u \in Users, NEW side \in Sides, NEW q \in Position,
           q.collateral = position[<<u, side>>].collateral,
           q.notional = position[<<u, side>>].notional,
           position' = [position EXCEPT ![<<u, side>>] = q], reserved' = reserved
    PROVE  MarginLedger' /\ position' \in [Keys -> Position]
<1>1. /\ reserved \in [Users -> U64] /\ position \in [Keys -> Position]
      /\ position[<<u, side>>].collateral \in Int /\ reserved[u] \in Int
  BY ReservedCoversPosition, WidthAssumption DEF IInv, TypeOK, Position, U64
<1>2. reserved[u] + (q.collateral - position[<<u, side>>].collateral) = reserved[u]
  BY <1>1
<1>3. reserved' = [reserved EXCEPT ![u] =
          reserved[u] + (q.collateral - position[<<u, side>>].collateral)]
  BY <1>1, <1>2
<1>4. q.collateral = margin(q.notional)
  BY ReservedCoversPosition
<1>5. QED
  BY <1>1, <1>3, <1>4, MarginStep

-----------------------------------------------------------------------------
(* Every initial state, and every instruction, satisfies the invariant. *)
LEMMA InitInv == Init => IInv
<1> SUFFICES ASSUME Init PROVE IInv
  OBVIOUS
<1>1. 0 \in U64 /\ 0 \in U128 /\ FUNDS \in Nat /\ 1 \in 1..MAX_SLOT
  BY WidthAssumption, FundsAssumption, BookAssumption DEF U64, U128
<1>2. EmptyPosition \in Position
  BY <1>1 DEF EmptyPosition, Position, NoSums, EntrySums
<1>3. 0 \in Slots
  BY BookAssumption DEF Slots
<1>4. TypeOK
  BY <1>1, <1>2, <1>3 DEF Init, TypeOK, NoSums
<1>5. margin(0) = 0
  BY MarketAssumption, ScaleAssumption, MarginOfZero DEF margin
<1>6. \A k \in Keys : position[k].notional = 0 /\ position[k].collateral = 0
  BY DEF Init, EmptyPosition
<1>7. \A u \in Users : <<u, "Long">> \in Keys /\ <<u, "Short">> \in Keys /\ reserved[u] = 0
  BY DEF Init, Keys, Sides
<1>8. MarginLedger
  BY <1>5, <1>6, <1>7 DEF MarginLedger
<1>9. QED
  BY <1>4, <1>8 DEF IInv

LEMMA DepositInv ==
    ASSUME IInv, NEW u \in Users, NEW amount \in Amounts, deposit_collateral(u, amount)
    PROVE  IInv'
<1> DEFINE l == claim_payout(ledger(u))
           saved == [l EXCEPT !.deposited = @ + amount]
<1>1. l \in LedgerRecord /\ l.pool <= pnl_pool /\ l.claimable <= claimable[u]
  BY LedgerType, ClaimPayoutConserves DEF IInv, ledger, Ledger
<1>2. amount \in Nat /\ wallet[u] \in Nat /\ vault \in Nat
  BY BookAssumption, WidthAssumption DEF IInv, TypeOK, U64
<1>3. saved \in LedgerRecord /\ fits(saved)
  BY <1>1, <1>2, WidthAssumption
     DEF LedgerRecord, fits, deposit_collateral, IInv, TypeOK, U64
<1>4. /\ deposited' \in [Users -> U64] /\ claimable' \in [Users -> U64]
      /\ pnl_pool' \in U64
  <2> HIDE DEF saved
  <2>1. SaveLedger(u, saved)
    BY DEF deposit_collateral, saved
  <2>2. QED
    BY <1>3, <2>1, SaveLedgerType DEF IInv
<1>5. wallet' \in [Users -> Nat] /\ vault' \in Nat /\ ledgers' \subseteq Users
  BY <1>2 DEF deposit_collateral, IInv, TypeOK
<1>6. QED
  BY <1>4, <1>5 DEF deposit_collateral, bookVars, IInv, TypeOK, MarginLedger

LEMMA WithdrawInv ==
    ASSUME IInv, NEW u \in Users, NEW amount \in Amounts, withdraw_collateral(u, amount)
    PROVE  IInv'
<1> DEFINE l == claim_payout(ledger(u))
           saved == [l EXCEPT !.deposited = @ - amount]
<1>1. l \in LedgerRecord /\ l.pool <= pnl_pool /\ l.claimable <= claimable[u]
  BY LedgerType, ClaimPayoutConserves DEF IInv, ledger, Ledger
<1>2. amount \in Nat /\ wallet[u] \in Nat /\ vault \in Nat /\ reserved[u] \in Nat
  BY BookAssumption, WidthAssumption DEF IInv, TypeOK, U64
<1>3. saved \in LedgerRecord /\ fits(saved)
  BY <1>1, <1>2, WidthAssumption
     DEF LedgerRecord, fits, withdraw_collateral, withdraw_ok, free_collateral_ok,
         IInv, TypeOK, U64
<1>4. /\ deposited' \in [Users -> U64] /\ claimable' \in [Users -> U64]
      /\ pnl_pool' \in U64
  <2> HIDE DEF saved
  <2>1. SaveLedger(u, saved)
    BY DEF withdraw_collateral, saved
  <2>2. QED
    BY <1>3, <2>1, SaveLedgerType DEF IInv
<1>5. wallet' \in [Users -> Nat] /\ vault' \in Nat
  BY <1>2 DEF withdraw_collateral, IInv, TypeOK
<1>6. QED
  BY <1>4, <1>5 DEF withdraw_collateral, bookVars, IInv, TypeOK, MarginLedger

LEMMA OpenInv ==
    ASSUME IInv, NEW u \in Users, NEW side \in Sides, NEW fills \in FillSeqs,
           open_position(u, side, fills)
    PROVE  IInv'
<1>1. position' \in [Keys -> Position] /\ reserved' \in [Users -> U64] /\ MarginLedger'
  BY FillsType, RateType, OpenFillsStep DEF open_position, IInv
<1>2. events' \in [Slots -> FillEvent \cup {NoFill}] /\ cursor' \in Slots
  BY FillsAppended, KeyFacts DEF open_position, IInv
<1>3. QED
  BY <1>1, <1>2 DEF open_position, moneyVars, IInv, TypeOK

LEMMA CloseInv ==
    ASSUME IInv, NEW u \in Users, NEW side \in Sides, NEW fills \in FillSeqs,
           close_position(u, side, fills)
    PROVE  IInv'
<1>1. position' \in [Keys -> Position] /\ reserved' \in [Users -> U64] /\ MarginLedger'
  BY FillsType, CloseFillsStep DEF close_position
<1>2. events' \in [Slots -> FillEvent \cup {NoFill}] /\ cursor' \in Slots
  BY FillsAppended DEF close_position, IInv
<1>3. QED
  BY <1>1, <1>2 DEF close_position, moneyVars, IInv, TypeOK

LEMMA BookInv ==
    ASSUME IInv, NEW batch \in Batches, book_events(batch)
    PROVE  IInv'
<1>1. PICK n \in 1..EVENT_QUEUE_LEN :
        batch \in [1..n -> {NewFill(m, side, size) : m \in Makers, side \in Sides, size \in Sizes}
                             \cup {NoFill}]
  BY DEF Batches
<1>2. Len(batch) = n /\ n \in Nat
  BY <1>1, BookAssumption
<1>3. Makers \subseteq Users /\ Sizes \subseteq U64 \ {0}
  BY BookAssumption DEF Users
<1>4. \A k \in 1..Len(batch) : batch[k] \in FillEvent \cup {NoFill}
  BY <1>1, <1>2, <1>3, NewFillType DEF IInv
<1>5. events' \in [Slots -> FillEvent \cup {NoFill}] /\ cursor' \in Slots
  BY <1>2, <1>4, RingStep DEF book_events, IInv
<1>6. QED
  BY <1>5 DEF book_events, moneyVars, IInv, TypeOK, MarginLedger

LEMMA SettleFillInv ==
    ASSUME IInv, NEW i \in Slots, settle_fill(i)
    PROVE  IInv'
<1>1. events[i] \in FillEvent
  BY DEF settle_fill, IInv, TypeOK, NoFill
<1>2. /\ events[i].owner \in Users /\ events[i].side \in Sides
      /\ events[i].entry \in ExchangeRate /\ events[i].size \in Nat
  BY <1>1, WidthAssumption DEF FillEvent, U64
<1>3. position' \in [Keys -> Position] /\ reserved' \in [Users -> U64] /\ MarginLedger'
  BY <1>2, OpenFillsStep DEF settle_fill
<1>4. MarkSettled(events[i]) \in FillEvent
  BY <1>1 DEF MarkSettled, FillEvent
<1>5. events' \in [Slots -> FillEvent \cup {NoFill}]
  BY <1>4 DEF settle_fill, IInv, TypeOK
<1>6. QED
  BY <1>3, <1>5 DEF settle_fill, moneyVars, IInv, TypeOK

LEMMA ResetInv ==
    ASSUME IInv, NEW u \in Users, NEW side \in Sides, reset_position(<<u, side>>)
    PROVE  IInv'
<1>1. /\ position[<<u, side>>].notional = 0 /\ position[<<u, side>>].collateral = margin(0)
      /\ position' = [position EXCEPT ![<<u, side>>] = EmptyPosition]
      /\ reserved' = reserved
  BY ReservedCoversPosition DEF reset_position
<1>2. EmptyPosition \in Position
  BY WidthAssumption DEF EmptyPosition, Position, NoSums, EntrySums, U64, U128
<1>3. margin(0) = 0
  BY MarketAssumption, ScaleAssumption, MarginOfZero DEF margin
<1>4. EmptyPosition.notional = 0 /\ EmptyPosition.collateral = 0
  BY DEF EmptyPosition
<1>5. MarginLedger' /\ position' \in [Keys -> Position]
  BY <1>1, <1>2, <1>3, <1>4, MarginUnchanged
<1>6. QED
  BY <1>5 DEF reset_position, moneyVars, bookVars, IInv, TypeOK

LEMMA SettleCloseInv ==
    ASSUME IInv, NEW u \in Users, NEW side \in Sides, settle_close(<<u, side>>, u)
    PROVE  IInv'
<1> DEFINE p == position[<<u, side>>]
           profit == pnl(p.closed_entry, rate, p.closed_notional, side)
           l == settle_signed(ledger(u), profit)
           q == [p EXCEPT !.closed_notional = 0, !.closed_entry = NoSums]
<1>1. /\ pnl_ok(p.closed_entry, rate, p.closed_notional)
      /\ fits(l) /\ SaveLedger(u, l)
      /\ position' = [position EXCEPT ![<<u, side>>] = q] /\ reserved' = reserved
  BY DEF settle_close, settle_signed_ok
<1>2. p \in Position
  BY ReservedCoversPosition
<1>3. profit \in Int
  <2>1. p.closed_entry \in EntrySums /\ p.closed_notional \in Nat /\ rate \in ExchangeRate
    BY <1>2, RateType, WidthAssumption DEF IInv, Position, U64
  <2>2. QED
    BY <1>1, <2>1, PnlType
<1>4. l \in LedgerRecord
  <2> HIDE DEF profit
  <2>1. QED
    BY <1>3, LedgerType, SettleSignedConserves DEF IInv
<1>5. /\ deposited' \in [Users -> U64] /\ claimable' \in [Users -> U64]
      /\ pnl_pool' \in U64
  <2> HIDE DEF l
  <2>1. QED
    BY <1>1, <1>4, SaveLedgerType DEF IInv
<1>6. q \in Position /\ q.collateral = p.collateral /\ q.notional = p.notional
  <2>1. NoSums \in EntrySums /\ 0 \in U64
    BY WidthAssumption DEF NoSums, EntrySums, U64, U128
  <2> HIDE DEF p
  <2>2. QED
    BY <1>2, <2>1 DEF Position
<1> HIDE DEF q
<1>7. MarginLedger' /\ position' \in [Keys -> Position]
  BY <1>1, <1>6, MarginUnchanged
<1>8. QED
  BY <1>5, <1>7 DEF settle_close, bookVars, IInv, TypeOK

(* The index since the last settlement is an integer: no period is empty.     *)
LEMMA FundingIndexType ==
    ASSUME TypeOK, NEW epochs \in Nat, epochs > 0, funding_index_ok(epochs)
    PROVE  funding_index(epochs) \in Int
<1> DEFINE base   == funding.index
           yield  == realized_yield(base, rate)
           period == epochs * funding_epoch_slots
<1>1. CASE ~HasBaseline
  BY <1>1 DEF funding_index
<1>2. CASE HasBaseline
  <2>1. /\ base.n \in Nat /\ base.d \in Nat /\ rate.n \in Nat /\ rate.d \in Nat
        /\ APY_SCALE \in Nat /\ SLOTS_PER_YEAR \in Nat /\ funding_epoch_slots \in Nat
    BY RateType, ScaleAssumption, MarketAssumption, WidthAssumption
       DEF TypeOK, ExchangeRate, U64
  <2>2. base.n * rate.d # 0 /\ period # 0
    BY <1>2 DEF funding_index_ok, realized_yield_ok, annualize_ok
  <2>3. base.n * rate.d \in Nat \ {0} /\ CrossYield(base, rate) \in Int
    BY <2>1, <2>2 DEF CrossYield
  <2>4. yield \in Int
    BY <2>3 DEF realized_yield
  <2>5. period \in Nat \ {0}
    BY <2>1, <2>2
  <2> HIDE DEF yield, period
  <2>6. annualize(yield, period) \in Int
    BY <2>1, <2>4, <2>5 DEF annualize
  <2>7. QED
    BY <1>2, <2>6 DEF funding_index, yield, period
<1>3. QED
  BY <1>1, <1>2

LEMMA FundingDueType ==
    ASSUME TypeOK, NEW p \in Position, NEW side, NEW mid \in Mids \cup {NoMid},
           epochs_due(p) > 0, funding_index_ok(epochs_due(p))
    PROVE  funding_due(p, side, mid) \in Int /\ funding_due(p, side, mid) >= -(I128_MAX + 1)
<1> DEFINE epochs == epochs_due(p)
           index  == funding_index(epochs)
           premium == (IF mid = NoMid THEN index ELSE mid) - index
<1>1. epochs \in Nat
  BY EpochType, WidthAssumption DEF epochs_due, MaxOf, Position, U64
<1>2. index \in Int
  BY <1>1, FundingIndexType
<1>3. mid \in Int
  BY BookAssumption, WidthAssumption DEF NoMid, U64
<1>4. premium \in Int
  <2> HIDE DEF index
  <2>1. QED
    BY <1>2, <1>3
<1>5. p.notional \in Nat /\ funding_k \in Nat /\ max_funding \in Nat
  BY MarketAssumption, ScaleAssumption, WidthAssumption DEF Position, U64
<1>6. funding_due(p, side, mid)
        = funding_payment(p.notional, funding_rate(premium, funding_k, max_funding),
                          epochs, side)
  BY DEF funding_due
<1> HIDE DEF premium, epochs
<1>7. QED
  BY <1>1, <1>4, <1>5, <1>6, FundingPaymentType

LEMMA SettleFundingInv ==
    ASSUME IInv, NEW u \in Users, NEW side \in Sides, NEW mid \in Mids \cup {NoMid},
           settle_funding(<<u, side>>, u, mid)
    PROVE  IInv'
<1> DEFINE p == position[<<u, side>>]
           payment == funding_due(p, side, mid)
           l == settle_signed(ledger(u), payment)
           q == [p EXCEPT !.last_funding_epoch = cur_epoch]
<1>1. /\ epochs_due(p) > 0 /\ funding_index_ok(epochs_due(p))
      /\ fits(l) /\ SaveLedger(u, l)
      /\ position' = [position EXCEPT ![<<u, side>>] = q] /\ reserved' = reserved
      /\ funding' = [epoch |-> cur_epoch, index |-> rate,
                     accumulator |-> funding.accumulator + payment]
  BY DEF settle_funding, settle_signed_ok
<1>2. p \in Position /\ cur_epoch \in U64
  BY ReservedCoversPosition, EpochType DEF IInv
<1>3. payment \in Int
  BY <1>1, <1>2, FundingDueType DEF IInv
<1> HIDE DEF payment
<1>4. l \in LedgerRecord
  BY <1>3, LedgerType, SettleSignedConserves DEF IInv
<1>5. /\ deposited' \in [Users -> U64] /\ claimable' \in [Users -> U64]
      /\ pnl_pool' \in U64
  <2> HIDE DEF l
  <2>1. QED
    BY <1>1, <1>4, SaveLedgerType DEF IInv
<1>6. q \in Position /\ q.collateral = p.collateral /\ q.notional = p.notional
  <2> HIDE DEF p
  <2>1. QED
    BY <1>2 DEF Position
<1> HIDE DEF q
<1>7. MarginLedger' /\ position' \in [Keys -> Position]
  BY <1>1, <1>6, MarginUnchanged
<1>8. funding' \in [epoch : U64, index : [n : U64, d : U64], accumulator : Int]
  <2>1. rate \in [n : U64, d : U64] /\ funding.accumulator \in Int
    BY RateType DEF IInv, TypeOK, ExchangeRate
  <2>2. QED
    BY <1>1, <1>2, <1>3, <2>1
<1>9. QED
  BY <1>5, <1>7, <1>8 DEF settle_funding, bookVars, IInv, TypeOK

LEMMA PenaltyType ==
    ASSUME NEW seized \in Nat
    PROVE  liquidation_penalty(seized, LIQUIDATION_PENALTY_BPS) \in Nat
<1>1. BPS \in Nat \ {0} /\ LIQUIDATION_PENALTY_BPS \in Nat
  BY ScaleAssumption
<1>2. seized * LIQUIDATION_PENALTY_BPS + (BPS - 1) \in Nat
  BY <1>1
<1>3. QED
  BY <1>1, <1>2 DEF liquidation_penalty

(* What a liquidation takes, the loss and the reward, is there to be taken.   *)
LEMMA LiquidateFacts ==
    ASSUME IInv, NEW liquidator \in Users, NEW u \in Users, NEW side \in Sides,
           NEW amount \in Sizes, liquidate(liquidator, <<u, side>>, u, amount)
    PROVE  \E booked, reward \in U64, q \in Position :
             /\ q.collateral = margin(q.notional)
             /\ position' = [position EXCEPT ![<<u, side>>] = q]
             /\ reserved' = [reserved EXCEPT ![u] =
                   reserved[u] + (q.collateral - position[<<u, side>>].collateral)]
             /\ reserved[u] + (q.collateral - position[<<u, side>>].collateral) \in U64
             /\ deposited' = [deposited EXCEPT ![u] = @ - booked - reward,
                                               ![liquidator] = @ + reward]
             /\ pnl_pool' = pnl_pool + booked
             /\ booked + reward <= deposited[u]
             /\ booked + reward <=
                  deposited[u] - (reserved[u] + (q.collateral - position[<<u, side>>].collateral))
             /\ pnl_pool + booked <= U64_MAX
             /\ deposited[liquidator] + reward <= U64_MAX
<1> DEFINE p        == position[<<u, side>>]
           out      == apply_liquidation(p.collateral, p.notional, amount,
                                         initial_margin_bps)
           consumed == p.collateral - out.remaining
           profit   == UnrealizedPnl(<<u, side>>)
           loss     == MinOf(Abs(profit), U64_MAX)
           booked   == apply_liquidation_loss(deposited[u], reserved[u] - consumed,
                                              loss, out.reward)
           q == [p EXCEPT !.notional = @ - amount, !.collateral = out.remaining]
<1>1. /\ HasPnl(<<u, side>>) /\ amount > 0 /\ amount <= p.notional
      /\ consumed <= reserved[u]
      /\ apply_liquidation_loss_ok(deposited[u], reserved[u] - consumed, out.reward)
      /\ pnl_pool + booked <= U64_MAX
      /\ deposited[liquidator] + out.reward <= U64_MAX
      /\ position' = [position EXCEPT ![<<u, side>>] = q]
      /\ reserved' = [reserved EXCEPT ![u] = @ - consumed]
      /\ deposited' = [deposited EXCEPT ![u] = @ - booked - out.reward,
                                        ![liquidator] = @ + out.reward]
      /\ pnl_pool' = pnl_pool + booked
  BY DEF liquidate, UnderMargin
<1>2. /\ p \in Position /\ p.collateral = margin(p.notional) /\ reserved[u] \in U64
      /\ deposited[u] \in U64 /\ deposited[liquidator] \in U64 /\ pnl_pool \in U64
      /\ amount \in Nat
  BY ReservedCoversPosition, BookAssumption, WidthAssumption DEF IInv, TypeOK, U64
<1>3. p.notional - amount \in U64 /\ p.notional \in Nat /\ initial_margin_bps \in Nat
  BY <1>1, <1>2, MarketAssumption, WidthAssumption DEF Position, U64
<1>4. margin(p.notional - amount) \in U64 /\ margin(p.notional - amount) <= p.collateral
  <2> DEFINE rest == p.notional - amount
  <2>1. rest \in Nat /\ rest <= p.notional
    BY <1>2, <1>3, WidthAssumption DEF U64
  <2>2. margin(rest) \in U64
    BY <1>3, MarginType
  <2> HIDE DEF rest
  <2>3. margin(rest) <= margin(p.notional)
    BY <1>3, <2>1, MarginMonotone DEF margin
  <2>4. QED
    BY <1>2, <2>2, <2>3 DEF rest
<1>5. out.remaining = margin(p.notional - amount)
  BY <1>2, <1>4, WidthAssumption DEF apply_liquidation, MinOf, margin, Position, U64
<1>6. consumed \in Nat
  BY <1>2, <1>4, <1>5, WidthAssumption DEF Position, U64
<1>7. out.reward \in Nat
  BY <1>6, PenaltyType DEF apply_liquidation
<1>8. profit \in Int
  <2>1. p.entry \in EntrySums /\ p.notional \in Nat /\ rate \in ExchangeRate
    BY <1>2, <1>3, RateType DEF IInv, Position
  <2>2. QED
    BY <1>1, <2>1, PnlType DEF HasPnl, UnrealizedPnl
<1>9. loss \in Nat
  <2> HIDE DEF profit
  <2>1. QED
    BY <1>8, WidthAssumption DEF MinOf, Abs
<1>10. /\ booked \in Nat /\ booked + out.reward <= deposited[u]
       /\ booked + out.reward <= deposited[u] - (reserved[u] - consumed)
  <2>1. /\ deposited[u] \in Nat /\ reserved[u] \in Nat /\ reserved[u] - consumed >= 0
        /\ deposited[u] - (reserved[u] - consumed) - out.reward >= 0
    BY <1>1, <1>2, <1>6, WidthAssumption
       DEF apply_liquidation_loss_ok, LiquidationSeam, U64
  <2> HIDE DEF consumed, out, loss
  <2>2. QED
    BY <1>6, <1>7, <1>9, <2>1 DEF apply_liquidation_loss, LiquidationSeam, MinOf
<1>11. booked \in U64 /\ out.reward \in U64
  BY <1>2, <1>7, <1>10, WidthAssumption DEF U64
<1>12. q \in Position /\ q.notional = p.notional - amount /\ q.collateral = out.remaining
  <2> HIDE DEF p, out
  <2>1. QED
    BY <1>2, <1>3, <1>4, <1>5 DEF Position
<1>13. /\ reserved[u] - consumed \in U64
       /\ reserved[u] - consumed = reserved[u] + (q.collateral - p.collateral)
  <2>1. p.collateral \in Int /\ reserved[u] \in Int /\ out.remaining \in Int
    BY <1>2, <1>4, <1>5, WidthAssumption DEF Position, U64
  <2>2. QED
    BY <1>1, <1>2, <1>6, <1>12, <2>1, WidthAssumption DEF U64
<1> HIDE DEF q, booked, out, consumed
<1>14. q.collateral = margin(q.notional)
  BY <1>5, <1>12
<1>15. QED
  BY <1>1, <1>10, <1>11, <1>12, <1>13, <1>14

LEMMA LiquidateInv ==
    ASSUME IInv, NEW liquidator \in Users, NEW u \in Users, NEW side \in Sides,
           NEW amount \in Sizes, liquidate(liquidator, <<u, side>>, u, amount)
    PROVE  IInv'
<1>1. PICK booked \in U64, reward \in U64, q \in Position :
        /\ q.collateral = margin(q.notional)
        /\ position' = [position EXCEPT ![<<u, side>>] = q]
        /\ reserved' = [reserved EXCEPT ![u] =
              reserved[u] + (q.collateral - position[<<u, side>>].collateral)]
        /\ reserved[u] + (q.collateral - position[<<u, side>>].collateral) \in U64
        /\ deposited' = [deposited EXCEPT ![u] = @ - booked - reward,
                                          ![liquidator] = @ + reward]
        /\ pnl_pool' = pnl_pool + booked
        /\ booked + reward <= deposited[u]
        /\ pnl_pool + booked <= U64_MAX
        /\ deposited[liquidator] + reward <= U64_MAX
  BY LiquidateFacts
<1>2. MarginLedger'
  BY <1>1, MarginStep
<1>3. /\ deposited[u] - booked - reward \in U64 /\ deposited[liquidator] + reward \in U64
      /\ pnl_pool' \in U64
  BY <1>1, WidthAssumption DEF IInv, TypeOK, U64
<1>4. position' \in [Keys -> Position] /\ reserved' \in [Users -> U64]
      /\ deposited' \in [Users -> U64]
  BY <1>1, <1>3 DEF IInv, TypeOK
<1>5. QED
  BY <1>2, <1>3, <1>4 DEF liquidate, bookVars, IInv, TypeOK

LEMMA WorldInv ==
    ASSUME IInv, change_rate \/ tick
    PROVE  IInv'
<1>1. CASE change_rate
  BY <1>1 DEF change_rate, moneyVars, bookVars, IInv, TypeOK, MarginLedger
<1>2. CASE tick
  <2>1. slot' \in 1..MAX_SLOT
    BY <1>2, BookAssumption, WidthAssumption DEF tick, IInv, TypeOK, U64
  <2>2. QED
    BY <1>2, <2>1 DEF tick, moneyVars, bookVars, IInv, TypeOK, MarginLedger
<1>3. QED
  BY <1>1, <1>2

LEMMA NextInv == IInv /\ [Next]_vars => IInv'
<1> SUFFICES ASSUME IInv, [Next]_vars PROVE IInv'
  OBVIOUS
<1>1. ASSUME UNCHANGED vars PROVE IInv'
  BY <1>1 DEF vars, IInv, TypeOK, MarginLedger
<1>2. ASSUME NEW u \in Users, NEW amount \in Amounts,
             deposit_collateral(u, amount) \/ withdraw_collateral(u, amount)
      PROVE  IInv'
  BY <1>2, DepositInv, WithdrawInv
<1>3. ASSUME NEW u \in Users, NEW side \in Sides, NEW fills \in FillSeqs,
             open_position(u, side, fills) \/ close_position(u, side, fills)
      PROVE  IInv'
  BY <1>3, OpenInv, CloseInv
<1>4. ASSUME NEW k \in Keys, reset_position(k) \/ settle_close(k, k[1])
      PROVE  IInv'
  BY <1>4, KeyParts, ResetInv, SettleCloseInv
<1>5. ASSUME NEW k \in Keys, NEW mid \in Mids \cup {NoMid}, settle_funding(k, k[1], mid)
      PROVE  IInv'
  BY <1>5, KeyParts, SettleFundingInv
<1>6. ASSUME NEW liquidator \in Users, NEW k \in Keys, NEW amount \in Sizes,
             liquidate(liquidator, k, k[1], amount)
      PROVE  IInv'
  BY <1>6, KeyParts, LiquidateInv
<1>7. QED
  BY <1>1, <1>2, <1>3, <1>4, <1>5, <1>6, BookInv, SettleFillInv, WorldInv DEF Next

(* Every account field stays within its Rust width: no instruction commits a  *)
(* wrapped balance, notional or sum.                                          *)
THEOREM AccountsTyped == Spec => []TypeOK
<1>1. IInv => TypeOK
  BY DEF IInv
<1>2. QED
  BY <1>1, InitInv, NextInv, PTL DEF Spec

(* Reserved collateral is exactly the initial margin of the user's positions  *)
(* (lib.rs, D11), after any sequence of instructions of any users.            *)
THEOREM MarginLedgerHolds == Spec => []MarginLedger
<1>1. IInv => MarginLedger
  BY DEF IInv
<1>2. QED
  BY <1>1, InitInv, NextInv, PTL DEF Spec
-----------------------------------------------------------------------------
(* The refinement: each instruction moves money as a custody step does.  The  *)
(* custody instance has its own copies of the arithmetic operators.           *)
LEMMA CustodyNames ==
    /\ CustodySpec!Users = Users /\ CustodySpec!U64 = U64
    /\ \A u : CustodySpec!ledger(u) = ledger(u)
    /\ \A l : CustodySpec!claim_payout(l) = claim_payout(l)
    /\ \A l, x : /\ CustodySpec!settle_signed(l, x) = settle_signed(l, x)
                 /\ CustodySpec!settle_signed_ok(l, x) <=> settle_signed_ok(l, x)
<1>1. CustodySpec!Users = Users /\ CustodySpec!U64 = U64
  BY DEF CustodySpec!Users, Users, CustodySpec!U64, U64
<1>2. \A u : CustodySpec!ledger(u) = ledger(u)
  BY DEF CustodySpec!ledger, ledger, CustodySpec!Ledger, Ledger
<1>3. \A l : CustodySpec!claim_payout(l) = claim_payout(l)
  BY DEF CustodySpec!claim_payout, claim_payout, CustodySpec!MinOf, MinOf
<1>4. \A l, x : CustodySpec!settle_signed(l, x) = settle_signed(l, x)
  BY DEF CustodySpec!settle_signed, settle_signed, CustodySpec!MinOf, MinOf,
         CustodySpec!apply_debit, apply_debit, CustodySpec!apply_credit, apply_credit
<1>5. \A l, x : CustodySpec!settle_signed_ok(l, x) <=> settle_signed_ok(l, x)
  BY <1>4 DEF CustodySpec!settle_signed_ok, settle_signed_ok, CustodySpec!fits, fits
<1>6. QED
  BY <1>1, <1>2, <1>3, <1>4, <1>5

LEMMA InitImplements == Init => CustodySpec!Init
  BY CustodyNames DEF Init, CustodySpec!Init

(* A settlement that ends in SaveLedger is a custody settlement. *)
LEMMA SettlementImplements ==
    ASSUME NEW u \in Users, NEW payment \in Int, payment >= -(I128_MAX + 1),
           settle_signed_ok(ledger(u), payment),
           SaveLedger(u, settle_signed(ledger(u), payment)), UNCHANGED <<wallet, vault>>
    PROVE  CustodySpec!Next
<1> DEFINE paid == IF payment < -U64_MAX THEN -U64_MAX ELSE payment
<1>1. paid \in CustodySpec!Payments
  BY WidthAssumption DEF CustodySpec!Payments, settle_signed_ok
<1>2. settle_signed(ledger(u), paid) = settle_signed(ledger(u), payment) /\ paid <= U64_MAX
  BY WidthAssumption DEF settle_signed, settle_signed_ok, MinOf
<1>3. CustodySpec!Settle(u, paid)
  BY <1>2, CustodyNames DEF CustodySpec!Settle, SaveLedger, settle_signed_ok
<1>4. QED
  BY <1>1, <1>3, CustodyNames DEF CustodySpec!Next

LEMMA DepositImplements ==
    ASSUME IInv, NEW u \in Users, NEW amount \in Amounts, deposit_collateral(u, amount)
    PROVE  CustodySpec!Next
<1> DEFINE l == claim_payout(ledger(u))
           saved == [l EXCEPT !.deposited = @ + amount]
<1>1. saved.deposited = l.deposited + amount /\ saved.claimable = l.claimable
      /\ saved.pool = l.pool
  BY LedgerType, ClaimPayoutConserves DEF IInv, LedgerRecord
<1>2. SaveLedger(u, saved)
  BY DEF deposit_collateral
<1> HIDE DEF saved, l
<1>3. /\ amount > 0 /\ amount <= wallet[u] /\ l.deposited + amount <= U64_MAX
      /\ wallet' = [wallet EXCEPT ![u] = @ - amount] /\ vault' = vault + amount
  BY DEF deposit_collateral, l
<1>4. l = CustodySpec!claim_payout(CustodySpec!ledger(u)) /\ amount \in U64
  BY CustodyNames, BookAssumption DEF l
<1>5. CustodySpec!Deposit(u, amount)
  BY <1>1, <1>2, <1>3, <1>4 DEF SaveLedger, CustodySpec!Deposit
<1>6. QED
  BY <1>4, <1>5, CustodyNames DEF CustodySpec!Next

LEMMA WithdrawImplements ==
    ASSUME IInv, NEW u \in Users, NEW amount \in Amounts, withdraw_collateral(u, amount)
    PROVE  CustodySpec!Next
<1> DEFINE l == claim_payout(ledger(u))
           saved == [l EXCEPT !.deposited = @ - amount]
<1>1. /\ saved.deposited = l.deposited - amount /\ saved.claimable = l.claimable
      /\ saved.pool = l.pool /\ l.deposited \in Nat
  BY LedgerType, ClaimPayoutConserves DEF IInv, LedgerRecord
<1>2. SaveLedger(u, saved)
  BY DEF withdraw_collateral
<1> HIDE DEF saved, l
<1>3. /\ amount > 0 /\ amount <= vault /\ l.deposited <= U64_MAX
      /\ amount <= l.deposited - reserved[u]
      /\ wallet' = [wallet EXCEPT ![u] = @ + amount] /\ vault' = vault - amount
  BY DEF withdraw_collateral, withdraw_ok, l
<1>4. l = CustodySpec!claim_payout(CustodySpec!ledger(u)) /\ amount \in U64
  BY CustodyNames, BookAssumption DEF l
<1>5. amount <= l.deposited
  BY <1>1, <1>3, <1>4, WidthAssumption DEF IInv, TypeOK, U64
<1>6. CustodySpec!Withdraw(u, amount)
  BY <1>1, <1>2, <1>3, <1>4, <1>5 DEF SaveLedger, CustodySpec!Withdraw
<1>7. QED
  BY <1>4, <1>6, CustodyNames DEF CustodySpec!Next

LEMMA SettleCloseImplements ==
    ASSUME IInv, NEW u \in Users, NEW side \in Sides, settle_close(<<u, side>>, u)
    PROVE  CustodySpec!Next
<1> DEFINE p == position[<<u, side>>]
           profit == pnl(p.closed_entry, rate, p.closed_notional, side)
<1>1. /\ pnl_ok(p.closed_entry, rate, p.closed_notional)
      /\ settle_signed_ok(ledger(u), profit)
      /\ SaveLedger(u, settle_signed(ledger(u), profit)) /\ UNCHANGED <<wallet, vault>>
  BY DEF settle_close
<1>2. p.closed_entry \in EntrySums /\ p.closed_notional \in Nat /\ rate \in ExchangeRate
  BY ReservedCoversPosition, RateType, WidthAssumption DEF IInv, Position, U64
<1>3. profit \in Int /\ profit >= -(I128_MAX + 1)
  BY <1>1, <1>2, PnlType
<1> HIDE DEF profit
<1>4. QED
  BY <1>1, <1>3, SettlementImplements

LEMMA SettleFundingImplements ==
    ASSUME IInv, NEW u \in Users, NEW side \in Sides, NEW mid \in Mids \cup {NoMid},
           settle_funding(<<u, side>>, u, mid)
    PROVE  CustodySpec!Next
<1> DEFINE p == position[<<u, side>>]
           payment == funding_due(p, side, mid)
<1>1. /\ epochs_due(p) > 0 /\ funding_index_ok(epochs_due(p))
      /\ settle_signed_ok(ledger(u), payment)
      /\ SaveLedger(u, settle_signed(ledger(u), payment)) /\ UNCHANGED <<wallet, vault>>
  BY DEF settle_funding
<1>2. payment \in Int /\ payment >= -(I128_MAX + 1)
  BY <1>1, ReservedCoversPosition, FundingDueType DEF IInv
<1> HIDE DEF payment
<1>3. QED
  BY <1>1, <1>2, SettlementImplements

LEMMA LiquidateImplements ==
    ASSUME IInv, NEW liquidator \in Users, NEW u \in Users, NEW side \in Sides,
           NEW amount \in Sizes, liquidate(liquidator, <<u, side>>, u, amount)
    PROVE  CustodySpec!Next
<1>1. PICK booked \in U64, reward \in U64 :
        /\ deposited' = [deposited EXCEPT ![u] = @ - booked - reward,
                                          ![liquidator] = @ + reward]
        /\ pnl_pool' = pnl_pool + booked
        /\ booked + reward <= deposited[u]
        /\ pnl_pool + booked <= U64_MAX
        /\ deposited[liquidator] + reward <= U64_MAX
  BY LiquidateFacts
<1>2. liquidator # u /\ UNCHANGED <<wallet, vault, claimable>>
  BY DEF liquidate
<1>3. CustodySpec!Seize(liquidator, u, booked, reward)
  BY <1>1, <1>2 DEF CustodySpec!Seize
<1>4. QED
  BY <1>3, CustodyNames DEF CustodySpec!Next

LEMMA NextImplements == IInv /\ [Next]_vars => [CustodySpec!Next]_CustodySpec!vars
<1> SUFFICES ASSUME IInv, [Next]_vars PROVE [CustodySpec!Next]_CustodySpec!vars
  OBVIOUS
<1>1. ASSUME UNCHANGED moneyVars PROVE UNCHANGED CustodySpec!vars
  BY <1>1 DEF moneyVars, CustodySpec!vars
<1>2. CASE UNCHANGED vars
  BY <1>1, <1>2 DEF vars, moneyVars
<1>3. CASE \E u \in Users, amount \in Amounts :
             deposit_collateral(u, amount) \/ withdraw_collateral(u, amount)
  BY <1>3, DepositImplements, WithdrawImplements
<1>4. CASE \E u \in Users, side \in Sides, fills \in FillSeqs :
             open_position(u, side, fills) \/ close_position(u, side, fills)
  BY <1>1, <1>4 DEF open_position, close_position
<1>5. CASE \E batch \in Batches : book_events(batch)
  BY <1>1, <1>5 DEF book_events
<1>6. CASE \E i \in Slots : settle_fill(i)
  BY <1>1, <1>6 DEF settle_fill
<1>7. CASE \E k \in Keys : reset_position(k) \/ settle_close(k, k[1])
  BY <1>1, <1>7, KeyParts, SettleCloseImplements DEF reset_position
<1>8. CASE \E k \in Keys, mid \in Mids \cup {NoMid} : settle_funding(k, k[1], mid)
  BY <1>8, KeyParts, SettleFundingImplements
<1>9. CASE \E liquidator \in Users, k \in Keys, amount \in Sizes :
             liquidate(liquidator, k, k[1], amount)
  BY <1>9, KeyParts, LiquidateImplements
<1>10. CASE change_rate \/ tick
  BY <1>1, <1>10 DEF change_rate, tick
<1>11. QED
  BY <1>2, <1>3, <1>4, <1>5, <1>6, <1>7, <1>8, <1>9, <1>10 DEF Next

(* Whatever happens to positions, prices and the book, money moves only by    *)
(* deposits, withdrawals, settlements and seizures of the custody contract.   *)
THEOREM AccountsImplementCustody == Spec => ImplementsCustody
<1>1. QED
  BY InitInv, NextInv, InitImplements, NextImplements, PTL
     DEF Spec, ImplementsCustody, CustodySpec!Spec

(* The custody module's theorems, for the accounts' variables. *)
CustodyTheory == INSTANCE CustodyProof

LEMMA CustodyTheoryNames ==
    /\ CustodySpec!Init => CustodyTheory!Init
    /\ [CustodySpec!Next]_CustodySpec!vars => [CustodyTheory!Next]_CustodyTheory!vars
    /\ CustodyTheory!Conservation => Conservation
<1>1. CustodySpec!Init => CustodyTheory!Init
  BY DEF CustodySpec!Init, CustodyTheory!Init, CustodySpec!Users, CustodyTheory!Users
<1>2. [CustodySpec!Next]_CustodySpec!vars => [CustodyTheory!Next]_CustodyTheory!vars
  BY DEF CustodySpec!Users, CustodyTheory!Users, CustodySpec!U64, CustodyTheory!U64,
         CustodySpec!ledger, CustodyTheory!ledger, CustodySpec!Ledger,
         CustodyTheory!Ledger, CustodySpec!MinOf, CustodyTheory!MinOf,
         CustodySpec!claim_payout, CustodyTheory!claim_payout,
         CustodySpec!settle_signed, CustodyTheory!settle_signed,
         CustodySpec!settle_signed_ok, CustodyTheory!settle_signed_ok,
         CustodySpec!apply_debit, CustodyTheory!apply_debit, CustodySpec!apply_credit,
         CustodyTheory!apply_credit, CustodySpec!fits, CustodyTheory!fits,
         CustodySpec!Payments, CustodyTheory!Payments, CustodySpec!vars,
         CustodyTheory!vars, CustodySpec!Next, CustodyTheory!Next, CustodySpec!Deposit,
         CustodyTheory!Deposit, CustodySpec!Withdraw, CustodyTheory!Withdraw,
         CustodySpec!Settle, CustodyTheory!Settle, CustodySpec!Seize,
         CustodyTheory!Seize
<1>3. CustodyTheory!Conservation => Conservation
  BY DEF CustodyTheory!Conservation, Conservation, CustodyTheory!SumUpTo, SumUpTo
<1>4. QED
  BY <1>1, <1>2, <1>3

(* Every token in the vault is some user's collateral or in the PnL pool: the *)
(* custody theorem, carried over by the refinement.                           *)
THEOREM VaultAccountedFor == Spec => []Conservation
<1>1. Spec => CustodyTheory!Spec
  BY InitInv, NextInv, InitImplements, NextImplements, CustodyTheoryNames, PTL
     DEF Spec, CustodyTheory!Spec
<1>2. CustodyTheory!Spec => []CustodyTheory!Conservation
  BY CustodyTheory!BooksBalance, WidthAssumption, ScaleAssumption, NormAssumption,
     PowerAssumption, UsersAssumption, FundsAssumption
     DEF IsNormShift, CustodyTheory!IsNormShift, U64, CustodyTheory!U64
<1>3. QED
  BY <1>1, <1>2, CustodyTheoryNames, PTL

-----------------------------------------------------------------------------
(* What becomes of a pending claim. *)
Paid(v) ==
    claimable'[v] < claimable[v] =>
        LET paid == claimable[v] - claimable'[v]
        IN  /\ pnl_pool' = pnl_pool - paid
            /\ deposited'[v] - deposited[v] = paid + (vault' - vault)

LEMMA PayoutPays ==
    ASSUME TypeOK, NEW u \in Users, NEW v \in Users, NEW change \in Int,
           vault' = vault + change,
           SaveLedger(u, [claim_payout(ledger(u)) EXCEPT !.deposited = @ + change])
    PROVE  Paid(v)
<1> DEFINE pay == MinOf(claimable[u], pnl_pool)
<1>1. /\ claimable[u] \in Nat /\ pnl_pool \in Nat /\ deposited[u] \in Nat /\ vault \in Nat
      /\ claimable[v] \in Nat /\ deposited \in [Users -> U64] /\ claimable \in [Users -> U64]
  BY WidthAssumption DEF TypeOK, U64
<1>2. /\ deposited' = [deposited EXCEPT ![u] = deposited[u] + pay + change]
      /\ claimable' = [claimable EXCEPT ![u] = claimable[u] - pay]
      /\ pnl_pool' = pnl_pool - pay
  BY DEF SaveLedger, claim_payout, ledger, Ledger
<1>3. pay \in Nat
  BY <1>1 DEF MinOf
<1> HIDE DEF pay
<1>4. CASE v = u
  BY <1>1, <1>2, <1>3, <1>4 DEF Paid
<1>5. CASE v # u
  BY <1>1, <1>2, <1>5 DEF Paid
<1>6. QED
  BY <1>4, <1>5

LEMMA SettlementKeepsClaims ==
    ASSUME TypeOK, NEW u \in Users, NEW v \in Users, NEW payment \in Int,
           SaveLedger(u, settle_signed(ledger(u), payment))
    PROVE  Paid(v)
<1> DEFINE l == settle_signed(ledger(u), payment)
<1>1. /\ claimable[u] \in Nat /\ pnl_pool \in Nat
      /\ claimable[v] \in Nat /\ claimable \in [Users -> U64]
  BY WidthAssumption DEF TypeOK, U64
<1>2. l.claimable \in Nat /\ l.claimable >= claimable[u]
  <2>1. CASE payment <= 0
    BY <1>1, <2>1 DEF settle_signed, apply_debit, ledger, Ledger
  <2>2. CASE payment > 0
    BY <1>1, <2>2 DEF settle_signed, apply_credit, MinOf, ledger, Ledger
  <2>3. QED
    BY <2>1, <2>2
<1>3. claimable' = [claimable EXCEPT ![u] = l.claimable]
  BY DEF SaveLedger
<1> HIDE DEF l
<1>4. claimable'[v] >= claimable[v] /\ claimable'[v] \in Nat
  BY <1>1, <1>2, <1>3
<1>5. QED
  BY <1>1, <1>4 DEF Paid

LEMMA ClaimsUntouched ==
    ASSUME TypeOK, NEW v \in Users, claimable' = claimable
    PROVE  Paid(v)
  BY WidthAssumption DEF Paid, TypeOK, U64

LEMMA NextPays ==
    ASSUME IInv, Next, NEW v \in Users
    PROVE  Paid(v)
<1>1. TypeOK
  BY DEF IInv
<1>2. ASSUME NEW u \in Users, NEW amount \in Amounts, deposit_collateral(u, amount)
      PROVE  Paid(v)
  <2>1. amount \in Int
    BY BookAssumption, WidthAssumption DEF U64
  <2>2. QED
    BY <1>1, <1>2, <2>1, PayoutPays DEF deposit_collateral
<1>3. ASSUME NEW u \in Users, NEW amount \in Amounts, withdraw_collateral(u, amount)
      PROVE  Paid(v)
  <2> DEFINE paid == claim_payout(ledger(u))
  <2>1. amount \in Int /\ vault \in Int /\ paid.deposited \in Int
    BY <1>1, BookAssumption, WidthAssumption, LedgerType, ClaimPayoutConserves
       DEF U64, TypeOK, LedgerRecord
  <2>2. /\ -amount \in Int /\ vault' = vault + (-amount)
        /\ paid.deposited - amount = paid.deposited + (-amount)
    BY <1>3, <2>1 DEF withdraw_collateral
  <2>3. SaveLedger(u, [paid EXCEPT !.deposited = @ + (-amount)])
    BY <1>3, <2>2 DEF withdraw_collateral
  <2>4. QED
    BY <1>1, <2>2, <2>3, PayoutPays
<1>4. ASSUME NEW k \in Keys, settle_close(k, k[1]) PROVE Paid(v)
  <2> DEFINE p == position[k]
             profit == pnl(p.closed_entry, rate, p.closed_notional, k[2])
  <2>1. /\ p.closed_entry \in EntrySums /\ p.closed_notional \in Nat
        /\ rate \in ExchangeRate /\ k[1] \in Users
    BY <1>1, KeyParts, RateType, WidthAssumption DEF TypeOK, Position, U64
  <2>2. profit \in Int
    BY <1>4, <2>1, PnlType DEF settle_close
  <2>3. SaveLedger(k[1], settle_signed(ledger(k[1]), profit))
    BY <1>4 DEF settle_close
  <2> HIDE DEF profit
  <2>4. QED
    BY <1>1, <2>1, <2>2, <2>3, SettlementKeepsClaims
<1>5. ASSUME NEW k \in Keys, NEW mid \in Mids \cup {NoMid}, settle_funding(k, k[1], mid)
      PROVE  Paid(v)
  <2> DEFINE payment == funding_due(position[k], k[2], mid)
  <2>1. position[k] \in Position /\ k[1] \in Users
    BY <1>1, KeyParts DEF TypeOK
  <2>2. payment \in Int /\ SaveLedger(k[1], settle_signed(ledger(k[1]), payment))
    BY <1>1, <1>5, <2>1, FundingDueType DEF settle_funding
  <2> HIDE DEF payment
  <2>3. QED
    BY <1>1, <2>1, <2>2, SettlementKeepsClaims
<1>6. CASE \E u \in Users, side \in Sides, fills \in FillSeqs :
             open_position(u, side, fills) \/ close_position(u, side, fills)
  BY <1>1, <1>6, ClaimsUntouched DEF open_position, close_position, moneyVars
<1>7. CASE (\E batch \in Batches : book_events(batch)) \/ (\E i \in Slots : settle_fill(i))
  BY <1>1, <1>7, ClaimsUntouched DEF book_events, settle_fill, moneyVars
<1>8. CASE \E k \in Keys : reset_position(k)
  BY <1>1, <1>8, ClaimsUntouched DEF reset_position, moneyVars
<1>9. CASE \E liquidator \in Users, k \in Keys, amount \in Sizes :
             liquidate(liquidator, k, k[1], amount)
  BY <1>1, <1>9, ClaimsUntouched DEF liquidate
<1>10. CASE change_rate \/ tick
  BY <1>1, <1>10, ClaimsUntouched DEF change_rate, tick, moneyVars
<1>11. QED
  BY <1>2, <1>3, <1>4, <1>5, <1>6, <1>7, <1>8, <1>9, <1>10 DEF Next

(* A winner's pending claim is never forgiven: it shrinks only by what the    *)
(* pool pays into the claimant's own ledger.                                  *)
THEOREM ClaimsAreKept == Spec => ClaimsOnlyPaid
<1>1. IInv /\ [Next]_vars =>
        [\A u \in Users : claimable'[u] < claimable[u] =>
            LET paid == claimable[u] - claimable'[u]
            IN  /\ pnl_pool' = pnl_pool - paid
                /\ deposited'[u] - deposited[u] = paid + (vault' - vault)]_vars
  BY NextPays DEF Paid
<1>2. QED
  BY <1>1, InitInv, NextInv, PTL DEF Spec, ClaimsOnlyPaid

-----------------------------------------------------------------------------
(* FundingFromOpen, for one position in the epoch `now`. *)
Dated(q, now) ==
    q.notional > 0 =>
        /\ funding_epoch(q.open_slot, funding_epoch_slots) <= q.last_funding_epoch
        /\ q.last_funding_epoch <= now

LEMMA EveryPositionDated ==
    FundingFromOpen <=> \A k \in Keys : Dated(position[k], cur_epoch)
  BY DEF FundingFromOpen, Dated

(* An instruction replaces one position, within a slot. *)
LEMMA DatedStep ==
    ASSUME IInv, FundingFromOpen, NEW k \in Keys, NEW q, Dated(q, cur_epoch),
           position' = [position EXCEPT ![k] = q], slot' = slot
    PROVE  FundingFromOpen'
<1>1. position \in [Keys -> Position] /\ cur_epoch' = cur_epoch
  BY DEF IInv, TypeOK, cur_epoch
<1>2. \A j \in Keys : position'[j] = IF j = k THEN q ELSE position[j]
  BY <1>1
<1>3. \A j \in Keys : Dated(position[j], cur_epoch)
  BY EveryPositionDated
<1>4. \A j \in Keys : Dated(position'[j], cur_epoch')
  BY <1>1, <1>2, <1>3
<1>5. QED
  BY <1>4 DEF FundingFromOpen, Dated

(* A position that opens starts its funding now; one that grows keeps it. *)
LEMMA OpenedDates ==
    ASSUME NEW p, NEW q, Dated(p, cur_epoch), p.notional \in Nat, cur_epoch \in Nat,
           q.open_slot = (IF p.notional = 0 THEN slot ELSE p.open_slot),
           q.last_funding_epoch = FundingStart(p)
    PROVE  Dated(q, cur_epoch)
<1>1. CASE p.notional = 0
  BY <1>1 DEF Dated, FundingStart, cur_epoch
<1>2. CASE p.notional # 0
  BY <1>2 DEF Dated, FundingStart
<1>3. QED
  BY <1>1, <1>2

LEMMA OpenFillsDated ==
    ASSUME IInv, FundingFromOpen, NEW u \in Users, NEW side \in Sides, NEW size \in Nat,
           NEW entry, apply_open_fills(<<u, side>>, u, size, entry), slot' = slot
    PROVE  FundingFromOpen'
<1> DEFINE k == <<u, side>>
           p == position[k]
           notional == p.notional + size
           sums == accumulate_entry(IF p.notional = 0 THEN NoSums ELSE p.entry, entry, size)
           opened == IF p.notional = 0 THEN slot ELSE p.open_slot
           q == [p EXCEPT !.market = "market",
                          !.notional = notional,
                          !.entry = sums,
                          !.collateral = margin(notional),
                          !.open_slot = opened,
                          !.last_funding_epoch = FundingStart(p)]
<1>1. position' = [position EXCEPT ![k] = q]
  BY DEF apply_open_fills
<1>2. k \in Keys /\ p \in Position /\ p.notional \in Nat /\ cur_epoch \in Nat
  BY KeyFacts, ReservedCoversPosition, EpochType, WidthAssumption DEF IInv, Position, U64
<1>3. q.open_slot = opened /\ q.last_funding_epoch = FundingStart(p)
  <2> HIDE DEF p, notional, sums, opened
  <2>1. QED
    BY <1>2 DEF Position
<1>4. Dated(p, cur_epoch)
  BY <1>2, EveryPositionDated
<1> HIDE DEF q
<1>5. Dated(q, cur_epoch)
  BY <1>2, <1>3, <1>4, OpenedDates
<1>6. QED
  BY <1>1, <1>2, <1>5, DatedStep

(* A position that shrinks, or stays, keeps its dates. *)
LEMMA KeptDates ==
    ASSUME IInv, FundingFromOpen, NEW k \in Keys, NEW q,
           q.notional \in Nat, q.notional <= position[k].notional,
           q.open_slot = position[k].open_slot,
           q.last_funding_epoch = position[k].last_funding_epoch
    PROVE  Dated(q, cur_epoch)
<1>1. Dated(position[k], cur_epoch) /\ position[k].notional \in Nat
  BY EveryPositionDated, WidthAssumption DEF IInv, TypeOK, Position, U64
<1>2. QED
  BY <1>1 DEF Dated

LEMMA CloseFillsDated ==
    ASSUME IInv, FundingFromOpen, NEW u \in Users, NEW side \in Sides, NEW size \in Nat,
           apply_close_fills(<<u, side>>, u, size), slot' = slot
    PROVE  FundingFromOpen'
<1> DEFINE k == <<u, side>>
           p == position[k]
           notional == p.notional - size
           q == [p EXCEPT !.notional = notional,
                          !.collateral = margin(notional),
                          !.closed_notional = @ + size,
                          !.closed_entry = accumulate_closed_entry(
                               @, p.closed_notional, per_unit(p), size)]
<1>1. position' = [position EXCEPT ![k] = q] /\ size <= p.notional
  BY DEF apply_close_fills
<1>2. k \in Keys /\ p \in Position /\ p.notional \in Nat
  BY KeyFacts, ReservedCoversPosition, WidthAssumption DEF IInv, Position, U64
<1>3. /\ q.notional = p.notional - size /\ q.open_slot = p.open_slot
      /\ q.last_funding_epoch = p.last_funding_epoch
  <2> HIDE DEF p
  <2>1. QED
    BY <1>2 DEF Position
<1> HIDE DEF q
<1>4. Dated(q, cur_epoch)
  BY <1>1, <1>2, <1>3, KeptDates
<1>5. QED
  BY <1>1, <1>2, <1>4, DatedStep

LEMMA ResetDated ==
    ASSUME IInv, FundingFromOpen, NEW k \in Keys, reset_position(k)
    PROVE  FundingFromOpen'
<1>1. Dated(EmptyPosition, cur_epoch)
  BY DEF Dated, EmptyPosition
<1>2. QED
  BY <1>1, DatedStep DEF reset_position

LEMMA SettleCloseDated ==
    ASSUME IInv, FundingFromOpen, NEW k \in Keys, settle_close(k, k[1])
    PROVE  FundingFromOpen'
<1> DEFINE p == position[k]
           q == [p EXCEPT !.closed_notional = 0, !.closed_entry = NoSums]
<1>1. position' = [position EXCEPT ![k] = q] /\ slot' = slot
  BY DEF settle_close
<1>2. p \in Position /\ p.notional \in Nat
  BY WidthAssumption DEF IInv, TypeOK, Position, U64
<1>3. /\ q.notional = p.notional /\ q.open_slot = p.open_slot
      /\ q.last_funding_epoch = p.last_funding_epoch
  <2> HIDE DEF p
  <2>1. QED
    BY <1>2 DEF Position
<1> HIDE DEF q
<1>4. Dated(q, cur_epoch)
  BY <1>2, <1>3, KeptDates
<1>5. QED
  BY <1>1, <1>4, DatedStep

(* Settling brings a position up to the current epoch, and only forward. *)
LEMMA SettleFundingDated ==
    ASSUME IInv, FundingFromOpen, NEW k \in Keys, NEW mid, settle_funding(k, k[1], mid)
    PROVE  FundingFromOpen'
<1> DEFINE p == position[k]
           q == [p EXCEPT !.last_funding_epoch = cur_epoch]
<1>1. /\ position' = [position EXCEPT ![k] = q] /\ slot' = slot
      /\ epochs_due(p) > 0
  BY DEF settle_funding
<1>2. /\ p \in Position /\ p.last_funding_epoch \in Nat /\ cur_epoch \in Nat
      /\ funding_epoch(p.open_slot, funding_epoch_slots) \in Int
  <2>1. p \in Position /\ p.last_funding_epoch \in Nat /\ p.open_slot \in Nat
    BY WidthAssumption DEF IInv, TypeOK, Position, U64
  <2>2. funding_epoch_slots \in Nat
    BY MarketAssumption, WidthAssumption DEF U64
  <2>3. funding_epoch(p.open_slot, funding_epoch_slots) \in Int
    <3>1. funding_epoch(p.open_slot, funding_epoch_slots) \in 0..p.open_slot
      BY <2>1, <2>2, FundingEpochType
    <3>2. QED
      BY <3>1
  <2>4. QED
    BY <2>1, <2>3, EpochType, WidthAssumption DEF IInv, U64
<1>3. p.last_funding_epoch < cur_epoch
  BY <1>1, <1>2 DEF epochs_due, MaxOf
<1>4. /\ q.notional = p.notional /\ q.open_slot = p.open_slot
      /\ q.last_funding_epoch = cur_epoch
  <2> HIDE DEF p
  <2>1. QED
    BY <1>2 DEF Position
<1>5. Dated(p, cur_epoch)
  BY EveryPositionDated
<1> HIDE DEF q, p
<1>6. Dated(q, cur_epoch)
  BY <1>2, <1>3, <1>4, <1>5 DEF Dated
<1>7. QED
  BY <1>1, <1>6, DatedStep DEF p

LEMMA LiquidateDated ==
    ASSUME IInv, FundingFromOpen, NEW liquidator \in Users, NEW k \in Keys,
           NEW amount \in Sizes, liquidate(liquidator, k, k[1], amount)
    PROVE  FundingFromOpen'
<1> DEFINE p   == position[k]
           out == apply_liquidation(p.collateral, p.notional, amount, initial_margin_bps)
           q   == [p EXCEPT !.notional = @ - amount, !.collateral = out.remaining]
<1>1. position' = [position EXCEPT ![k] = q] /\ slot' = slot /\ amount <= p.notional
  BY DEF liquidate
<1>2. p \in Position /\ p.notional \in Nat /\ amount \in Nat
  BY BookAssumption, WidthAssumption DEF IInv, TypeOK, Position, U64
<1>3. /\ q.notional = p.notional - amount /\ q.open_slot = p.open_slot
      /\ q.last_funding_epoch = p.last_funding_epoch
  <2> HIDE DEF p, out
  <2>1. QED
    BY <1>2 DEF Position
<1> HIDE DEF q
<1>4. Dated(q, cur_epoch)
  BY <1>1, <1>2, <1>3, KeptDates
<1>5. QED
  BY <1>1, <1>4, DatedStep

(* Epochs only begin. *)
LEMMA EpochMonotone ==
    ASSUME NEW a \in Nat, NEW b \in Nat, a <= b, NEW length \in Nat
    PROVE  funding_epoch(a, length) <= funding_epoch(b, length)
<1>1. CASE length = 0
  BY <1>1 DEF funding_epoch
<1>2. CASE length # 0
  <2>1. a \div length <= b \div length
    BY <1>2
  <2>2. QED
    BY <1>2, <2>1 DEF funding_epoch
<1>3. QED
  BY <1>1, <1>2

LEMMA TickDated ==
    ASSUME IInv, FundingFromOpen, tick
    PROVE  FundingFromOpen'
<1>1. slot \in Nat /\ slot' = slot + 1 /\ position' = position /\ funding_epoch_slots \in Nat
  BY BookAssumption, MarketAssumption, WidthAssumption DEF tick, IInv, TypeOK, U64
<1>2. cur_epoch <= cur_epoch' /\ cur_epoch \in Int /\ cur_epoch' \in Int
  <2>1. cur_epoch' = funding_epoch(slot + 1, funding_epoch_slots)
    BY <1>1 DEF cur_epoch
  <2>2. cur_epoch \in 0..slot /\ cur_epoch' \in 0..(slot + 1)
    <3>1. slot + 1 \in Nat
      BY <1>1
    <3>2. funding_epoch(slot, funding_epoch_slots) \in 0..slot
      BY <1>1, FundingEpochType
    <3>3. funding_epoch(slot + 1, funding_epoch_slots) \in 0..(slot + 1)
      BY <1>1, <3>1, FundingEpochType
    <3>4. QED
      BY <2>1, <3>2, <3>3 DEF cur_epoch
  <2>3. cur_epoch <= cur_epoch'
    BY <1>1, <2>1, EpochMonotone DEF cur_epoch
  <2>4. QED
    BY <2>2, <2>3
<1>3. ASSUME NEW k \in Keys PROVE Dated(position'[k], cur_epoch')
  <2>1. Dated(position[k], cur_epoch) /\ position[k].last_funding_epoch \in Int
    BY EveryPositionDated, WidthAssumption DEF IInv, TypeOK, Position, U64
  <2>2. QED
    BY <1>1, <1>2, <2>1 DEF Dated
<1>4. QED
  BY <1>3 DEF FundingFromOpen, Dated

LEMMA NextDated == IInv /\ FundingFromOpen /\ [Next]_vars => FundingFromOpen'
<1> SUFFICES ASSUME IInv, FundingFromOpen, [Next]_vars PROVE FundingFromOpen'
  OBVIOUS
<1>1. ASSUME position' = position, slot' = slot PROVE FundingFromOpen'
  BY <1>1 DEF FundingFromOpen, cur_epoch
<1>2. CASE UNCHANGED vars
  BY <1>1, <1>2 DEF vars
<1>3. CASE \E u \in Users, amount \in Amounts :
             deposit_collateral(u, amount) \/ withdraw_collateral(u, amount)
  BY <1>1, <1>3 DEF deposit_collateral, withdraw_collateral
<1>4. CASE \E u \in Users, side \in Sides, fills \in FillSeqs :
             open_position(u, side, fills) \/ close_position(u, side, fills)
  BY <1>4, FillsType, OpenFillsDated, CloseFillsDated DEF open_position, close_position
<1>5. CASE \E batch \in Batches : book_events(batch)
  BY <1>1, <1>5 DEF book_events
<1>6. ASSUME NEW i \in Slots, settle_fill(i) PROVE FundingFromOpen'
  <2>1. events[i].owner \in Users /\ events[i].side \in Sides /\ events[i].size \in Nat
    BY <1>6, WidthAssumption DEF settle_fill, IInv, TypeOK, NoFill, FillEvent, U64
  <2>2. QED
    BY <1>6, <2>1, OpenFillsDated DEF settle_fill
<1>7. CASE \E k \in Keys : reset_position(k) \/ settle_close(k, k[1])
  BY <1>7, ResetDated, SettleCloseDated
<1>8. CASE \E k \in Keys, mid \in Mids \cup {NoMid} : settle_funding(k, k[1], mid)
  BY <1>8, SettleFundingDated
<1>9. CASE \E liquidator \in Users, k \in Keys, amount \in Sizes :
             liquidate(liquidator, k, k[1], amount)
  BY <1>9, LiquidateDated
<1>10. CASE change_rate
  BY <1>1, <1>10 DEF change_rate
<1>11. CASE tick
  BY <1>11, TickDated
<1>12. QED
  BY <1>2, <1>3, <1>4, <1>5, <1>6, <1>7, <1>8, <1>9, <1>10, <1>11 DEF Next

(* Funding is never charged for the time before a position opened or while it *)
(* was flat, through any closes, re-opens, resets and settlements.            *)
THEOREM FundingStartsAtOpen == Spec => []FundingFromOpen
<1>1. Init => FundingFromOpen
  BY DEF Init, EmptyPosition, FundingFromOpen
<1>2. QED
  BY <1>1, InitInv, NextInv, NextDated, PTL DEF Spec

-----------------------------------------------------------------------------
(* Only liquidate makes a position smaller without closing a part of it. *)

LEMMA OpenFillsGrow ==
    ASSUME IInv, NEW k \in Keys, NEW u \in Users, NEW side \in Sides, NEW size \in Nat,
           NEW entry, apply_open_fills(<<u, side>>, u, size, entry)
    PROVE  ~Liquidated(k)
<1> DEFINE p == position[<<u, side>>]
           notional == p.notional + size
           sums == accumulate_entry(IF p.notional = 0 THEN NoSums ELSE p.entry, entry, size)
           opened == IF p.notional = 0 THEN slot ELSE p.open_slot
           q == [p EXCEPT !.market = "market",
                          !.notional = notional,
                          !.entry = sums,
                          !.collateral = margin(notional),
                          !.open_slot = opened,
                          !.last_funding_epoch = FundingStart(p)]
<1>1. position' = [position EXCEPT ![<<u, side>>] = q]
  BY DEF apply_open_fills
<1>2. /\ p \in Position /\ p.notional \in Nat /\ position \in [Keys -> Position]
      /\ position[k].notional \in Nat
  BY ReservedCoversPosition, WidthAssumption DEF IInv, TypeOK, Position, U64
<1>3. q.notional = p.notional + size
  <2> HIDE DEF p, sums, opened
  <2>1. QED
    BY <1>2 DEF Position
<1> HIDE DEF q
<1>4. position'[k].notional >= position[k].notional
  BY <1>1, <1>2, <1>3
<1>5. position'[k].notional \in Nat
  BY <1>1, <1>2, <1>3
<1>6. QED
  BY <1>2, <1>4, <1>5 DEF Liquidated

LEMMA FilledPositive ==
    ASSUME NEW fills \in FillSeqs
    PROVE  Filled(fills) > 0
<1> DEFINE n == Len(fills)
           sizes == [i \in 1..n |-> fills[i].size]
<1>1. n \in Nat /\ 1 \in 1..n
  BY FillsType, BookAssumption
<1>2. \A i \in 1..n : fills[i].size \in Nat /\ fills[i].size > 0
  BY FillsType, WidthAssumption DEF U64
<1>3. sizes \in [1..n -> Nat] /\ sizes[1] > 0
  BY <1>1, <1>2
<1>4. SumUpTo(sizes, n) \in Nat /\ sizes[1] <= SumUpTo(sizes, n) /\ sizes[1] \in Nat
  <2> HIDE DEF sizes, n
  <2>1. QED
    BY <1>1, <1>3, SumBoundsItems
<1>5. Filled(fills) = SumUpTo(sizes, n)
  BY DEF Filled
<1> HIDE DEF sizes
<1>6. QED
  BY <1>3, <1>4, <1>5

LEMMA CloseFillsBook ==
    ASSUME IInv, NEW k \in Keys, NEW u \in Users, NEW side \in Sides, NEW size \in Nat,
           size > 0, apply_close_fills(<<u, side>>, u, size)
    PROVE  ~Liquidated(k)
<1> DEFINE p == position[<<u, side>>]
           notional == p.notional - size
           closed == accumulate_closed_entry(p.closed_entry, p.closed_notional,
                                             per_unit(p), size)
           q == [p EXCEPT !.notional = notional,
                          !.collateral = margin(notional),
                          !.closed_notional = @ + size,
                          !.closed_entry = closed]
<1>1. position' = [position EXCEPT ![<<u, side>>] = q]
  BY DEF apply_close_fills
<1>2. /\ p \in Position /\ p.closed_notional \in Nat /\ position \in [Keys -> Position]
      /\ position[k].notional \in Nat
  BY ReservedCoversPosition, WidthAssumption DEF IInv, TypeOK, Position, U64
<1>3. q.closed_notional = p.closed_notional + size
  <2> HIDE DEF p, closed, notional
  <2>1. QED
    BY <1>2 DEF Position
<1> HIDE DEF q
<1>4. CASE k = <<u, side>>
  BY <1>1, <1>2, <1>3, <1>4 DEF Liquidated
<1>5. CASE k # <<u, side>>
  BY <1>1, <1>2, <1>5 DEF Liquidated
<1>6. QED
  BY <1>4, <1>5

LEMMA ResetEmpties ==
    ASSUME IInv, NEW k \in Keys, NEW j \in Keys, reset_position(j)
    PROVE  ~Liquidated(k)
<1>1. position' = [position EXCEPT ![j] = EmptyPosition]
      /\ position \in [Keys -> Position] /\ position[k].notional \in Nat
  BY WidthAssumption DEF reset_position, IInv, TypeOK, Position, U64
<1>2. CASE k = j
  BY <1>1, <1>2 DEF Liquidated, EmptyPosition
<1>3. CASE k # j
  BY <1>1, <1>3 DEF Liquidated
<1>4. QED
  BY <1>2, <1>3

LEMMA SettlementKeepsNotional ==
    ASSUME IInv, NEW k \in Keys, NEW j \in Keys, NEW mid,
           settle_close(j, j[1]) \/ settle_funding(j, j[1], mid)
    PROVE  ~Liquidated(k)
<1>1. PICK q : position' = [position EXCEPT ![j] = q] /\ q.notional = position[j].notional
  <2>1. position[j] \in Position
    BY DEF IInv, TypeOK
  <2>2. CASE settle_close(j, j[1])
    <3> DEFINE p == position[j]
               q == [p EXCEPT !.closed_notional = 0, !.closed_entry = NoSums]
    <3>1. position' = [position EXCEPT ![j] = q]
      BY <2>2 DEF settle_close
    <3>2. q.notional = p.notional
      BY <2>1 DEF Position
    <3> HIDE DEF q
    <3>3. QED
      BY <3>1, <3>2
  <2>3. CASE settle_funding(j, j[1], mid)
    <3> DEFINE p == position[j]
               q == [p EXCEPT !.last_funding_epoch = cur_epoch]
    <3>1. position' = [position EXCEPT ![j] = q]
      BY <2>3 DEF settle_funding
    <3>2. q.notional = p.notional
      BY <2>1 DEF Position
    <3> HIDE DEF q
    <3>3. QED
      BY <3>1, <3>2
  <2>4. QED
    BY <2>2, <2>3
<1>2. position \in [Keys -> Position] /\ position[k].notional \in Nat
  BY WidthAssumption DEF IInv, TypeOK, Position, U64
<1>3. position'[k].notional = position[k].notional
  BY <1>1, <1>2
<1>4. QED
  BY <1>2, <1>3 DEF Liquidated

LEMMA LiquidateTouchesOne ==
    ASSUME IInv, NEW k \in Keys, NEW j \in Keys, NEW liquidator \in Users,
           NEW amount \in Sizes, liquidate(liquidator, j, j[1], amount), Liquidated(k)
    PROVE  k = j
<1>1. PICK q : position' = [position EXCEPT ![j] = q]
  BY DEF liquidate
<1>2. position \in [Keys -> Position] /\ position[k].notional \in Nat
  BY WidthAssumption DEF IInv, TypeOK, Position, U64
<1>3. QED
  BY <1>1, <1>2 DEF Liquidated

LEMMA OnlyLiquidateLiquidates ==
    ASSUME IInv, [Next]_vars, NEW k \in Keys, Liquidated(k)
    PROVE  \E liquidator \in Users, amount \in Sizes :
             liquidate(liquidator, k, k[1], amount)
<1>1. position' # position
  BY WidthAssumption DEF Liquidated, IInv, TypeOK, Position, U64
<1>2. ASSUME UNCHANGED vars PROVE FALSE
  BY <1>1, <1>2 DEF vars
<1>3. ASSUME NEW u \in Users, NEW amount \in Amounts,
             deposit_collateral(u, amount) \/ withdraw_collateral(u, amount)
      PROVE  FALSE
  BY <1>1, <1>3 DEF deposit_collateral, withdraw_collateral
<1>4. ASSUME NEW u \in Users, NEW side \in Sides, NEW fills \in FillSeqs,
             open_position(u, side, fills) \/ close_position(u, side, fills)
      PROVE  FALSE
  BY <1>4, FillsType, FilledPositive, OpenFillsGrow, CloseFillsBook
     DEF open_position, close_position
<1>5. ASSUME NEW batch \in Batches, book_events(batch) PROVE FALSE
  BY <1>1, <1>5 DEF book_events
<1>6. ASSUME NEW i \in Slots, settle_fill(i) PROVE FALSE
  <2>1. events[i].owner \in Users /\ events[i].side \in Sides /\ events[i].size \in Nat
    BY <1>6, WidthAssumption DEF settle_fill, IInv, TypeOK, NoFill, FillEvent, U64
  <2>2. QED
    BY <1>6, <2>1, OpenFillsGrow DEF settle_fill
<1>7. ASSUME NEW j \in Keys, reset_position(j) \/ settle_close(j, j[1]) PROVE FALSE
  BY <1>7, ResetEmpties, SettlementKeepsNotional
<1>8. ASSUME NEW j \in Keys, NEW mid \in Mids \cup {NoMid}, settle_funding(j, j[1], mid)
      PROVE  FALSE
  BY <1>8, SettlementKeepsNotional
<1>9. ASSUME change_rate \/ tick PROVE FALSE
  BY <1>1, <1>9 DEF change_rate, tick
<1>10. ASSUME NEW liquidator \in Users, NEW j \in Keys, NEW amount \in Sizes,
              liquidate(liquidator, j, j[1], amount)
       PROVE  liquidate(liquidator, k, k[1], amount)
  BY <1>10, LiquidateTouchesOne
<1>11. QED
  BY <1>2, <1>3, <1>4, <1>5, <1>6, <1>7, <1>8, <1>9, <1>10 DEF Next

(* A higher rate requires no less margin. *)
LEMMA MarginMonotoneInRate ==
    ASSUME NEW n \in Nat, NEW low \in Nat, NEW high \in Nat, low <= high
    PROVE  /\ margin_required(n, low) \in Nat /\ margin_required(n, high) \in Nat
           /\ margin_required(n, low) <= margin_required(n, high)
<1> DEFINE a == n * low + (BPS - 1)
           b == n * high + (BPS - 1)
<1>1. n * low <= n * high /\ n * low \in Nat /\ n * high \in Nat
  OBVIOUS
<1>2. a \in Nat /\ b \in Nat /\ a <= b /\ BPS \in Nat \ {0}
  BY <1>1, ScaleAssumption
<1> HIDE DEF a, b
<1>3. a \div BPS \in Nat /\ b \div BPS \in Nat /\ a \div BPS <= b \div BPS
  BY <1>2
<1>4. QED
  BY <1>3 DEF margin_required, a, b

(* Whoever is under maintenance margin has lost something: the margin behind  *)
(* a position is never less than its maintenance margin.                      *)
LEMMA UnderMarginLoses ==
    ASSUME IInv, NEW k \in Keys, UnderMargin(k)
    PROVE  UnrealizedPnl(k) < 0
<1> DEFINE p == position[k]
           profit == UnrealizedPnl(k)
           required == margin_required(p.notional, maintenance_margin_bps)
<1>1. /\ p \in Position /\ p.notional \in Nat /\ p.entry \in EntrySums
      /\ p.collateral \in Nat /\ p.collateral <= U64_MAX
      /\ p.collateral = margin_required(p.notional, initial_margin_bps)
  BY WidthAssumption DEF IInv, TypeOK, MarginLedger, margin, Position, U64
<1>2. profit \in Int
  BY <1>1, RateType, PnlType DEF UnderMargin, HasPnl, UnrealizedPnl, IInv
<1>3. required \in Nat /\ required <= p.collateral
  <2>1. /\ initial_margin_bps \in Nat /\ maintenance_margin_bps \in Nat
        /\ maintenance_margin_bps <= initial_margin_bps
    BY MarketAssumption, ScaleAssumption
  <2>2. QED
    BY <1>1, <2>1, MarginMonotoneInRate
<1>4. saturate(p.collateral + profit) < required
  BY DEF UnderMargin, liquidatable
<1> HIDE DEF profit, required, p
<1>5. QED
  BY <1>1, <1>2, <1>3, <1>4, WidthAssumption DEF saturate, MaxOf, MinOf, profit

(* Only a position that is losing at the current rate is ever liquidated,     *)
(* whatever built its margin up or took it down before.                       *)
THEOREM OnlyLosersLiquidated == Spec => LiquidatesOnlyLosers
<1>1. IInv /\ [Next]_vars => [\A k \in Keys : Liquidated(k) => UnrealizedPnl(k) < 0]_vars
  <2> SUFFICES ASSUME IInv, [Next]_vars, NEW k \in Keys, Liquidated(k)
               PROVE  UnrealizedPnl(k) < 0
    OBVIOUS
  <2>1. UnderMargin(k)
    BY OnlyLiquidateLiquidates DEF liquidate
  <2>2. QED
    BY <2>1, UnderMarginLoses
<1>2. QED
  BY <1>1, InitInv, NextInv, PTL DEF Spec, LiquidatesOnlyLosers

(* A liquidation is paid out of free collateral and the margin it releases:   *)
(* what backs the victim's other position stays in its ledger.                *)
THEOREM BackingSpared == Spec => LiquidationSparesBacking
<1> DEFINE Spares(k) ==
             Liquidated(k) =>
               /\ deposited'[k[1]] >= reserved'[k[1]]
               /\ deposited[k[1]] - deposited'[k[1]] <=
                     (deposited[k[1]] - reserved[k[1]])
                     + (position[k].collateral - position'[k].collateral)
<1>1. IInv /\ [Next]_vars => [\A k \in Keys : Spares(k)]_vars
  <2> SUFFICES ASSUME IInv, [Next]_vars, NEW k \in Keys, Liquidated(k)
               PROVE  /\ deposited'[k[1]] >= reserved'[k[1]]
                      /\ deposited[k[1]] - deposited'[k[1]] <=
                            (deposited[k[1]] - reserved[k[1]])
                            + (position[k].collateral - position'[k].collateral)
    OBVIOUS
  <2> DEFINE u == k[1]
             side == k[2]
  <2>1. u \in Users /\ side \in Sides /\ k = <<u, side>>
    BY KeyParts
  <2>2. PICK liquidator \in Users, amount \in Sizes : liquidate(liquidator, <<u, side>>, u, amount)
    BY <2>1, OnlyLiquidateLiquidates
  <2>3. liquidator # u
    BY <2>2 DEF liquidate
  <2> HIDE DEF u, side
  <2>4. PICK booked \in U64, reward \in U64, q \in Position :
          /\ position' = [position EXCEPT ![<<u, side>>] = q]
          /\ reserved' = [reserved EXCEPT ![u] =
                reserved[u] + (q.collateral - position[<<u, side>>].collateral)]
          /\ deposited' = [deposited EXCEPT ![u] = @ - booked - reward,
                                            ![liquidator] = @ + reward]
          /\ booked + reward <=
               deposited[u] - (reserved[u] + (q.collateral - position[<<u, side>>].collateral))
    BY <2>1, <2>2, LiquidateFacts
  <2>5. /\ position[k] \in Position /\ position'[k] = q
        /\ deposited[u] \in Nat /\ reserved[u] \in Nat /\ booked \in Nat /\ reward \in Nat
        /\ q.collateral \in Nat /\ position[k].collateral \in Nat
    BY <2>1, <2>4, WidthAssumption DEF IInv, TypeOK, Position, U64
  <2>6. /\ deposited'[u] = deposited[u] - booked - reward
        /\ reserved'[u] = reserved[u] + (q.collateral - position[k].collateral)
    BY <2>1, <2>3, <2>4 DEF IInv, TypeOK
  <2>7. QED
    BY <2>1, <2>4, <2>5, <2>6 DEF u
<1>2. QED
  BY <1>1, InitInv, NextInv, PTL DEF Spec, LiquidationSparesBacking
-----------------------------------------------------------------------------
(* What the trader SDK computes of a position, and what the program would.    *)

LEMMA SdkQuotient ==
    ASSUME NEW a \in Int, NEW b \in Nat \ {0}
    PROVE  Sdk!quotient(a, b) = TruncDiv(a, b)
  BY DEF Sdk!quotient, Sdk!Magnitude, TruncDiv

(* A number has a bit length, if it has a shift. *)
LEMMA BitLengthExists ==
    ASSUME NEW m \in Nat, NEW k \in 0..MAX_SHIFT, IsNormShift(m, k)
    PROVE  \E b \in Exponents : m < 2^b /\ (b = 0 \/ m >= 2^(b - 1))
<1>1. /\ m < 2^(NORM_BITS + k)
      /\ k = 0 \/ m >= 2^(NORM_BITS + (k - 1))
  BY NormShiftIs
<1>2. NORM_BITS + k \in Exponents /\ NORM_BITS \in Nat
  BY PowerStep DEF Exponents
<1>3. CASE k # 0
  <2>1. NORM_BITS + (k - 1) = (NORM_BITS + k) - 1
    BY <1>2
  <2> QED BY <1>1, <1>2, <1>3, <2>1
<1>4. CASE k = 0
  <2> DEFINE T == {b \in 0..NORM_BITS : m < 2^b}
  <2>1. NORM_BITS \in T
    BY <1>1, <1>2, <1>4
  <2>2. T \subseteq Nat /\ T # {}
    BY <1>2, <2>1
  <2>3. PICK b \in T : \A j \in T : b <= j
    <3> HIDE DEF T
    <3> QED BY <2>2, LeastNat
  <2>4. b \in Exponents /\ m < 2^b
    BY <2>3, PowerStep DEF Exponents
  <2>5. ASSUME b # 0 PROVE m >= 2^(b - 1)
    <3>1. b - 1 \in 0..NORM_BITS /\ b - 1 \in Exponents /\ ~(b <= b - 1)
      BY <2>3, <2>5, PowerStep DEF Exponents
    <3>2. b - 1 \notin T
      <4> HIDE DEF T
      <4> QED BY <2>3, <3>1
    <3>3. 2^(b - 1) \in Nat
      BY <3>1, PowerStep
    <3> QED BY <3>1, <3>2, <3>3
  <2> QED BY <2>4, <2>5
<1> QED BY <1>3, <1>4

(* Whichever shift satisfies the program's condition is the one the SDK takes *)
(* from the bit length: there is only one.                                    *)
LEMMA SdkShift ==
    ASSUME NEW m \in Nat, NEW k \in 0..MAX_SHIFT, IsNormShift(m, k)
    PROVE  Sdk!max(Sdk!bitlen(m) - NORM_BITS, 0) = k
<1> DEFINE b == Sdk!bitlen(m)
           HasLength(j) == m < 2^j /\ (j = 0 \/ m >= 2^(j - 1))
<1>1. b \in Exponents /\ HasLength(b)
  <2>1. b = CHOOSE j \in Exponents : HasLength(j)
    BY DEF Sdk!bitlen, Exponents
  <2>2. \E j \in Exponents : HasLength(j)
    BY BitLengthExists
  <2> HIDE DEF b, HasLength
  <2> QED BY <2>1, <2>2
<1> HIDE DEF b
<1>2. /\ m < 2^(NORM_BITS + k)
      /\ k = 0 \/ m >= 2^(NORM_BITS + (k - 1))
  BY NormShiftIs
<1>3. /\ NORM_BITS \in Nat /\ MAX_SHIFT \in Nat /\ b \in Nat /\ k \in Nat
      /\ NORM_BITS + k \in Exponents
      /\ \A j \in Exponents : 2^j \in Nat
  BY <1>1, PowerStep DEF Exponents
<1>4. b <= NORM_BITS + k
  <2>1. SUFFICES ASSUME b > NORM_BITS + k PROVE FALSE
    BY <1>3
  <2>2. b # 0 /\ b - 1 \in Exponents /\ NORM_BITS + k <= b - 1
    BY <1>1, <1>3, <2>1 DEF Exponents
  <2>3. 2^(NORM_BITS + k) <= 2^(b - 1)
    BY <1>3, <2>2, PowerMonotone
  <2>4. m >= 2^(b - 1)
    BY <1>1, <2>2
  <2> QED BY <1>2, <1>3, <2>2, <2>3, <2>4
<1>5. CASE k = 0
  BY <1>3, <1>4, <1>5 DEF Sdk!max, b
<1>6. CASE k # 0
  <2>1. SUFFICES b >= NORM_BITS + k
    BY <1>3, <1>4, <1>6 DEF Sdk!max, b
  <2>2. SUFFICES ASSUME b < NORM_BITS + k PROVE FALSE
    BY <1>3
  <2>3. NORM_BITS + (k - 1) \in Exponents /\ b <= NORM_BITS + (k - 1)
    BY <1>3, <1>6, <2>2 DEF Exponents
  <2>4. 2^b <= 2^(NORM_BITS + (k - 1))
    BY <1>1, <2>3, PowerMonotone
  <2>5. m < 2^b /\ m >= 2^(NORM_BITS + (k - 1))
    BY <1>1, <1>2, <1>6
  <2> QED BY <1>1, <1>3, <2>3, <2>4, <2>5
<1> QED BY <1>5, <1>6

LEMMA SdkNormalizes ==
    ASSUME NEW entry \in EntrySums
    PROVE  Sdk!normalizeSums(entry) = normalize_sums(entry)
<1> DEFINE m == MaxOf(entry.n, entry.d)
           k == CHOOSE s \in 0..MAX_SHIFT : IsNormShift(m, s)
<1>1. entry.n \in Nat /\ entry.d \in Nat /\ m \in 0..U128_MAX /\ m \in Nat
  BY WidthAssumption DEF EntrySums, U128, MaxOf
<1>2. Sdk!max(entry.n, entry.d) = m
  BY <1>1 DEF Sdk!max, MaxOf
<1> HIDE DEF m
<1>3. \E s \in 0..MAX_SHIFT : IsNormShift(m, s)
  BY <1>1, NormAssumption
<1>4. k \in 0..MAX_SHIFT /\ IsNormShift(m, k)
  BY <1>3
<1> HIDE DEF k
<1>5. Sdk!max(Sdk!bitlen(m) - NORM_BITS, 0) = k
  BY <1>1, <1>4, SdkShift
<1>6. Sdk!normalizeSums(entry) = [n |-> entry.n \div 2^k, d |-> entry.d \div 2^k]
  BY <1>2, <1>5 DEF Sdk!normalizeSums
<1> QED BY <1>6 DEF normalize_sums, m, k

(* Where the program has a PnL the SDK has the same. *)
LEMMA SdkPnl ==
    ASSUME NEW entry \in EntrySums, NEW cur \in ExchangeRate, NEW notional \in Nat,
           NEW side, pnl_ok(entry, cur, notional)
    PROVE  Sdk!pnl(entry, cur, notional, side) = Sdk!defined(pnl(entry, cur, notional, side))
<1> DEFINE e == normalize_sums(entry)
           change == signed_yield_change(entry, cur)
<1>1. e.n \in Nat \ {0} /\ e.d \in Nat \ {0}
  BY NormalizeType DEF pnl_ok, signed_yield_change_ok
<1>2. cur.n \in Nat \ {0} /\ cur.d \in Nat \ {0}
  BY DEF pnl_ok, signed_yield_change_ok, ExchangeRate, U64
<1>3. APY_SCALE \in Nat \ {0}
  BY ScaleAssumption
<1>4. Sdk!normalizeSums(entry) = e
  BY SdkNormalizes
<1> HIDE DEF e
<1>5. YieldNumerator(e, cur) \in Int /\ e.n * cur.d \in Nat \ {0}
  BY <1>1, <1>2, <1>3 DEF YieldNumerator
<1>6. Sdk!quotient(YieldNumerator(e, cur), e.n * cur.d) = change
  BY <1>5, SdkQuotient DEF signed_yield_change, e
<1>7. change \in Int
  BY <1>5, TruncDivType DEF signed_yield_change, e
<1> HIDE DEF change
<1>8. Sdk!signedYieldChange(entry, cur) = Sdk!defined(change)
  BY <1>1, <1>2, <1>4, <1>6 DEF Sdk!signedYieldChange, YieldNumerator
<1>9. notional * change \in Int
  BY <1>7
<1>10. Sdk!quotient(notional * change, APY_SCALE) = TruncDiv(notional * change, APY_SCALE)
  BY <1>3, <1>9, SdkQuotient
<1> DEFINE scaled == TruncDiv(notional * change, APY_SCALE)
<1>11. Sdk!pnl(entry, cur, notional, side)
         = Sdk!defined(IF side = "Long" THEN scaled ELSE -scaled)
  <2>1. Sdk!defined(change).ok = TRUE /\ Sdk!defined(change).value = change
    BY DEF Sdk!defined
  <2> QED BY <1>8, <1>10, <2>1 DEF Sdk!pnl
<1>12. pnl(entry, cur, notional, side) = IF side = "Long" THEN scaled ELSE -scaled
  BY DEF pnl, change
<1> QED BY <1>11, <1>12

LEMMA SdkPnlFollows == TypeOK => SdkPnlAgrees
<1>1. SUFFICES ASSUME TypeOK PROVE SdkPnlAgrees
  OBVIOUS
<1>2. rate \in ExchangeRate
  BY <1>1, RateType
<1>3. \A k \in Keys : /\ position[k].entry \in EntrySums
                      /\ position[k].closed_entry \in EntrySums
                      /\ position[k].notional \in Nat /\ position[k].closed_notional \in Nat
  BY <1>1, WidthAssumption DEF TypeOK, Position, U64
<1> QED BY <1>2, <1>3, SdkPnl DEF SdkPnlAgrees

(* What the SDK tells a trader of a position is what the program would book   *)
(* or judge it by, for all widths and scales: the one shift that satisfies    *)
(* the program's condition is the one the SDK reads off the bit length.       *)
THEOREM SdkTellsPnl == Spec => []SdkPnlAgrees
<1>1. QED
  BY AccountsTyped, SdkPnlFollows, PTL
-----------------------------------------------------------------------------
(* The SDK's funding quote has no width.  It is the program's as long as the  *)
(* program does not saturate: a premium times the funding factor, a rate      *)
(* times a notional and a payment per epoch times the epochs fit an i128.     *)
WideEnough ==
    /\ APY_SCALE * U64_MAX <= I128_MAX
    /\ MAX_SLOT * U64_MAX <= I128_MAX

LEMMA ProductBound ==
    ASSUME NEW a \in Int, NEW b \in Int, NEW m \in Nat, NEW n \in Nat,
           -m <= a, a <= m, -n <= b, b <= n
    PROVE  a * b \in Int /\ -(m * n) <= a * b /\ a * b <= m * n
<1>1. m * n \in Nat /\ a * b \in Int
  OBVIOUS
<1>2. CASE a >= 0 /\ b >= 0
  <2>1. a * b <= m * n /\ 0 <= a * b
    BY <1>2
  <2> QED BY <1>1, <2>1
<1>3. CASE a >= 0 /\ b < 0
  <2>1. a * (-b) <= m * n /\ 0 <= a * (-b)
    BY <1>3
  <2>2. a * (-b) = -(a * b)
    OBVIOUS
  <2> QED BY <1>1, <2>1, <2>2
<1>4. CASE a < 0 /\ b >= 0
  <2>1. (-a) * b <= m * n /\ 0 <= (-a) * b
    BY <1>4
  <2>2. (-a) * b = -(a * b)
    OBVIOUS
  <2> QED BY <1>1, <2>1, <2>2
<1>5. CASE a < 0 /\ b < 0
  <2>1. (-a) * (-b) <= m * n /\ 0 <= (-a) * (-b)
    BY <1>5
  <2>2. (-a) * (-b) = a * b
    OBVIOUS
  <2> QED BY <1>1, <2>1, <2>2
<1> QED BY <1>2, <1>3, <1>4, <1>5

LEMMA Unsaturated ==
    ASSUME NEW x \in Int, NEW m \in Nat, -m <= x, x <= m, m <= I128_MAX
    PROVE  saturate(x) = x
  BY WidthAssumption DEF saturate, MaxOf, MinOf

(* Dividing by the scale brings a product of at most m scales back below m. *)
LEMMA ScaledDown ==
    ASSUME NEW a \in Int, NEW b \in Nat \ {0}, NEW m \in Nat,
           -(m * b) <= a, a <= m * b
    PROVE  -m <= TruncDiv(a, b) /\ TruncDiv(a, b) <= m
<1>1. ASSUME NEW c \in Nat, c <= m * b PROVE c \div b \in Nat /\ c \div b <= m
  <2>1. c < (m + 1) * b
    BY <1>1
  <2>2. c \div b < m + 1
    BY <2>1, QuotientBelow
  <2>3. c \div b \in Nat
    OBVIOUS
  <2> QED BY <2>2, <2>3
<1>2. CASE a >= 0
  BY <1>1, <1>2 DEF TruncDiv
<1>3. CASE a < 0
  <2>1. -a \in Nat /\ -a <= m * b
    BY <1>3
  <2>2. (-a) \div b \in Nat /\ (-a) \div b <= m
    BY <1>1, <2>1
  <2> QED BY <1>3, <2>2 DEF TruncDiv
<1> QED BY <1>2, <1>3

LEMMA SdkRate ==
    ASSUME WideEnough, NEW p \in Int, -U64_MAX <= p, p <= U64_MAX
    PROVE  /\ Sdk!fundingRate(p) = funding_rate(p, funding_k, max_funding)
           /\ funding_rate(p, funding_k, max_funding) \in Int
           /\ -APY_SCALE <= funding_rate(p, funding_k, max_funding)
           /\ funding_rate(p, funding_k, max_funding) <= APY_SCALE
<1>1. /\ APY_SCALE \in Nat \ {0} /\ U64_MAX \in Nat /\ I128_MAX \in Nat
      /\ funding_k \in Nat /\ funding_k <= APY_SCALE
      /\ max_funding \in Nat /\ max_funding <= APY_SCALE
  BY ScaleAssumption, WidthAssumption, MarketAssumption
<1>2. /\ funding_k * p \in Int /\ -(APY_SCALE * U64_MAX) <= funding_k * p
      /\ funding_k * p <= APY_SCALE * U64_MAX
  <2>1. -APY_SCALE <= funding_k
    BY <1>1
  <2> QED BY <1>1, <2>1, ProductBound
<1>3. APY_SCALE * U64_MAX \in Nat /\ APY_SCALE * U64_MAX <= I128_MAX
  BY <1>1 DEF WideEnough
<1>4. saturate(funding_k * p) = funding_k * p
  <2> DEFINE x == funding_k * p
             m == APY_SCALE * U64_MAX
  <2> HIDE DEF x, m
  <2>1. saturate(x) = x
    BY <1>2, <1>3, Unsaturated DEF x, m
  <2> QED BY <2>1 DEF x
<1> DEFINE q == TruncDiv(funding_k * p, APY_SCALE)
<1>5. Sdk!quotient(funding_k * p, APY_SCALE) = q
  BY <1>1, <1>2, SdkQuotient
<1>6. q \in Int
  BY <1>1, <1>2, TruncDivType
<1> HIDE DEF q
<1>7. funding_rate(p, funding_k, max_funding) = MaxOf(-max_funding, MinOf(q, max_funding))
  BY <1>4 DEF funding_rate, clamp, q
<1>8. Sdk!fundingRate(p) = Sdk!max(-max_funding, Sdk!min(max_funding, q))
  BY <1>5 DEF Sdk!fundingRate
<1> QED BY <1>1, <1>6, <1>7, <1>8 DEF MaxOf, MinOf, Sdk!max, Sdk!min

LEMMA SdkPayment ==
    ASSUME WideEnough, NEW notional \in U64, NEW r \in Int, -APY_SCALE <= r, r <= APY_SCALE,
           NEW epochs \in 0..MAX_SLOT, NEW side
    PROVE  Sdk!fundingPayment(notional, r, epochs, side)
             = funding_payment(notional, r, epochs, side)
<1>1. /\ APY_SCALE \in Nat \ {0} /\ U64_MAX \in Nat /\ I128_MAX \in Nat
      /\ notional \in Nat /\ notional <= U64_MAX /\ MAX_SLOT \in Nat
      /\ epochs \in Nat /\ epochs <= MAX_SLOT
  BY ScaleAssumption, WidthAssumption, BookAssumption DEF U64
<1> DEFINE x == notional * r
<1>2. x \in Int /\ -(U64_MAX * APY_SCALE) <= x /\ x <= U64_MAX * APY_SCALE
  <2>1. -U64_MAX <= notional
    BY <1>1
  <2> QED BY <1>1, <2>1, ProductBound
<1>3. U64_MAX * APY_SCALE \in Nat /\ U64_MAX * APY_SCALE <= I128_MAX
  BY <1>1 DEF WideEnough
<1>4. saturate(x) = x
  <2> DEFINE m == U64_MAX * APY_SCALE
  <2> HIDE DEF x, m
  <2> QED BY <1>2, <1>3, Unsaturated DEF m
<1> HIDE DEF x
<1> DEFINE scaled == TruncDiv(x, APY_SCALE)
<1>5. scaled \in Int /\ -U64_MAX <= scaled /\ scaled <= U64_MAX
  BY <1>1, <1>2, TruncDivType, ScaledDown
<1>6. Sdk!quotient(x, APY_SCALE) = scaled
  BY <1>1, <1>2, SdkQuotient
<1> HIDE DEF scaled
<1> DEFINE y == scaled * epochs
<1>7. /\ y \in Int /\ -(U64_MAX * MAX_SLOT) <= y /\ y <= U64_MAX * MAX_SLOT
  <2>1. -MAX_SLOT <= epochs
    BY <1>1
  <2> QED BY <1>1, <1>5, <2>1, ProductBound
<1>8. U64_MAX * MAX_SLOT \in Nat /\ U64_MAX * MAX_SLOT <= I128_MAX
  BY <1>1 DEF WideEnough
<1>9. saturate(y) = y
  <2> DEFINE m == U64_MAX * MAX_SLOT
  <2> HIDE DEF y, m
  <2> QED BY <1>7, <1>8, Unsaturated DEF m
<1> HIDE DEF y
<1> DEFINE z == y * SideFlow(side)
<1>10. saturate(z) = z
  <2> DEFINE m == U64_MAX * MAX_SLOT
  <2>1. z \in Int /\ -m <= z /\ z <= m /\ m \in Nat /\ m <= I128_MAX
    <3> HIDE DEF m
    <3> QED BY <1>7, <1>8 DEF SideFlow, m
  <2> HIDE DEF z, m
  <2> QED BY <2>1, Unsaturated
<1>11. funding_payment(notional, r, epochs, side) = z
  BY <1>4, <1>9, <1>10 DEF funding_payment, x, scaled, y
<1>12. Sdk!fundingPayment(notional, r, epochs, side) = z
  BY <1>6 DEF Sdk!fundingPayment, Sdk!SideFlow, SideFlow, x, y
<1> QED BY <1>11, <1>12

(* The index since the last settlement is the same, and fits a u64. *)
LEMMA SdkIndex ==
    ASSUME TypeOK, NEW epochs \in Nat, epochs > 0, funding_index_ok(epochs)
    PROVE  /\ Sdk!expectedIndex(funding.index, rate, epochs * funding_epoch_slots)
                = Sdk!defined(funding_index(epochs))
           /\ funding_index(epochs) \in 0..U64_MAX
<1> DEFINE base   == funding.index
           yield  == realized_yield(base, rate)
           period == epochs * funding_epoch_slots
<1>1. CASE ~HasBaseline
  BY <1>1, WidthAssumption DEF funding_index, HasBaseline, Sdk!expectedIndex
<1>2. CASE HasBaseline
  <2>1. /\ base.n \in Nat /\ base.d \in Nat /\ rate.n \in Nat /\ rate.d \in Nat
        /\ APY_SCALE \in Nat /\ SLOTS_PER_YEAR \in Nat /\ funding_epoch_slots \in Nat
        /\ U64_MAX \in Nat
    BY RateType, ScaleAssumption, MarketAssumption, WidthAssumption
       DEF TypeOK, ExchangeRate, U64
  <2>2. /\ rate.n # 0 /\ base.n * rate.d # 0 /\ period # 0
        /\ annualize(yield, period) <= U64_MAX
    BY <1>2 DEF funding_index_ok, realized_yield_ok, annualize_ok
  <2>3. base.n # 0 /\ base.n * rate.d \in Nat \ {0} /\ period \in Nat \ {0}
    BY <2>1, <2>2
  <2> DEFINE a == rate.n * base.d
             b == base.n * rate.d
  <2>4. a \in Nat /\ b \in Nat \ {0}
    BY <2>1, <2>3
  <2>5. CrossYield(base, rate) = (a - b) * APY_SCALE
    BY DEF CrossYield
  <2>6. yield = IF a < b THEN 0 ELSE ((a - b) * APY_SCALE) \div b
    BY <2>5 DEF realized_yield
  <2>7. Sdk!realizedYield(base, rate)
          = Sdk!defined(IF a < b THEN 0 ELSE Sdk!quotient((a - b) * APY_SCALE, b))
    BY <2>2, <2>3 DEF Sdk!realizedYield
  <2> HIDE DEF a, b
  <2>8. yield \in Nat /\ Sdk!realizedYield(base, rate) = Sdk!defined(yield)
    <3>1. CASE a < b
      BY <2>6, <2>7, <3>1
    <3>2. CASE ~(a < b)
      <4>1. (a - b) * APY_SCALE \in Nat
        BY <2>1, <2>4, <3>2
      <4>2. Sdk!quotient((a - b) * APY_SCALE, b) = ((a - b) * APY_SCALE) \div b
        BY <2>4, <4>1, SdkQuotient DEF TruncDiv
      <4>3. ((a - b) * APY_SCALE) \div b \in Nat
        BY <2>4, <4>1
      <4> QED BY <2>6, <2>7, <3>2, <4>2, <4>3
    <3> QED BY <3>1, <3>2
  <2> HIDE DEF yield, period, base
  <2>9. yield * SLOTS_PER_YEAR \in Nat
    BY <2>1, <2>8
  <2>10. annualize(yield, period) \in Nat
    BY <2>3, <2>9 DEF annualize
  <2>11. Sdk!quotient(yield * SLOTS_PER_YEAR, period) = annualize(yield, period)
    BY <2>3, <2>9, SdkQuotient DEF TruncDiv, annualize
  <2>12. Sdk!annualize(yield, period) = Sdk!defined(annualize(yield, period))
    BY <2>3, <2>11 DEF Sdk!annualize
  <2>13. base.d # 0
    BY <1>2 DEF HasBaseline, base
  <2>14. Sdk!expectedIndex(base, rate, period) = Sdk!defined(annualize(yield, period))
    <3>1. Sdk!defined(yield).ok = TRUE /\ Sdk!defined(yield).value = yield
      BY DEF Sdk!defined
    <3> QED BY <2>8, <2>12, <2>13, <3>1 DEF Sdk!expectedIndex
  <2>15. funding_index(epochs) = annualize(yield, period)
    BY <1>2 DEF funding_index, base, yield, period
  <2> QED BY <2>1, <2>2, <2>10, <2>14, <2>15 DEF base, period
<1> QED BY <1>1, <1>2

(* The quote for one position is the payment the program would book. *)
LEMMA SdkQuote ==
    ASSUME TypeOK, WideEnough, NEW p \in Position, NEW side, NEW mid \in Mids \cup {NoMid},
           epochs_due(p) > 0, funding_index_ok(epochs_due(p))
    PROVE  Sdk!expectedFundingForBook(funding.index, p.last_funding_epoch, p.notional,
                                      side, mid, rate, slot)
             = Sdk!defined(funding_due(p, side, mid))
<1> DEFINE epochs == epochs_due(p)
           index  == funding_index(epochs)
           mark   == IF mid = NoMid THEN index ELSE mid
           r      == funding_rate(mark - index, funding_k, max_funding)
<1>1. /\ slot \in Nat /\ slot <= MAX_SLOT /\ MAX_SLOT \in Nat /\ U64_MAX \in Nat
      /\ funding_epoch_slots \in Nat /\ p.last_funding_epoch \in Nat /\ p.notional \in U64
  BY BookAssumption, MarketAssumption, WidthAssumption DEF TypeOK, Position, U64
<1>2. cur_epoch \in 0..slot
  BY <1>1, FundingEpochType DEF cur_epoch
<1>3. /\ epochs = cur_epoch - p.last_funding_epoch /\ epochs \in 0..MAX_SLOT
      /\ epochs \in Nat /\ epochs > 0
  BY <1>1, <1>2 DEF epochs_due, MaxOf
<1>4. Sdk!fundingEpoch(slot) = cur_epoch
  <2>1. CASE funding_epoch_slots = 0
    BY <2>1 DEF Sdk!fundingEpoch, cur_epoch, funding_epoch
  <2>2. CASE funding_epoch_slots # 0
    <3>1. Sdk!quotient(slot, funding_epoch_slots) = slot \div funding_epoch_slots
      BY <1>1, <2>2, SdkQuotient DEF TruncDiv
    <3> QED BY <2>2, <3>1 DEF Sdk!fundingEpoch, cur_epoch, funding_epoch
  <2> QED BY <2>1, <2>2
<1>5. funding_due(p, side, mid) = funding_payment(p.notional, r, epochs, side)
  BY DEF funding_due
<1> HIDE DEF epochs
<1>6. /\ Sdk!expectedIndex(funding.index, rate, epochs * funding_epoch_slots)
           = Sdk!defined(index)
      /\ index \in 0..U64_MAX
  BY <1>3, SdkIndex DEF epochs
<1> HIDE DEF index
<1>7. Sdk!MarkOf(mid, Sdk!defined(index)) = mark
  BY DEF Sdk!MarkOf, Sdk!defined, NoMid
<1>8. mark - index \in Int /\ -U64_MAX <= mark - index /\ mark - index <= U64_MAX
  <2>1. mid = NoMid \/ mid \in 0..U64_MAX
    BY BookAssumption, <1>1 DEF U64
  <2>2. mark \in 0..U64_MAX
    BY <1>6, <2>1
  <2> HIDE DEF mark
  <2> QED BY <1>1, <1>6, <2>2
<1> HIDE DEF mark
<1>9. /\ Sdk!fundingRate(mark - index) = r
      /\ r \in Int /\ -APY_SCALE <= r /\ r <= APY_SCALE
  BY <1>8, SdkRate
<1> HIDE DEF r
<1>10. Sdk!fundingPayment(p.notional, r, epochs, side)
         = funding_payment(p.notional, r, epochs, side)
  BY <1>1, <1>3, <1>9, SdkPayment
<1>11. Sdk!fundingEpoch(slot) - p.last_funding_epoch = epochs
  BY <1>3, <1>4
<1>12. Sdk!expectedFundingPayment(funding.index, p.last_funding_epoch, p.notional, side,
                                  mark, rate, slot)
         = Sdk!defined(Sdk!fundingPayment(p.notional, r, epochs, side))
  <2>1. /\ Sdk!defined(index).ok = TRUE /\ Sdk!defined(index).value = index
        /\ ~(epochs <= 0)
    BY <1>3 DEF Sdk!defined
  <2> QED BY <1>6, <1>9, <1>11, <2>1 DEF Sdk!expectedFundingPayment, Sdk!premium
<1> QED BY <1>5, <1>6, <1>7, <1>10, <1>11, <1>12 DEF Sdk!expectedFundingForBook

LEMMA SdkFundingFollows == ASSUME WideEnough PROVE TypeOK => SdkFundingAgrees
<1>1. SUFFICES ASSUME TypeOK PROVE SdkFundingAgrees
  OBVIOUS
<1>2. \A k \in Keys : position[k] \in Position
  BY <1>1 DEF TypeOK
<1> QED BY <1>1, <1>2, SdkQuote DEF SdkFundingAgrees

(* The funding the CLI quotes is what settle_funding books, for all widths    *)
(* and scales at which the program does not saturate.  With the program's     *)
(* (u64, i128 and a scale of 10^6) those are all slots below 2^63.            *)
THEOREM SdkQuotesFunding == ASSUME WideEnough PROVE Spec => []SdkFundingAgrees
<1>1. QED
  BY AccountsTyped, SdkFundingFollows, PTL
=============================================================================
