------------------------------ MODULE SdkMath ------------------------------
(* What the trader SDK and CLI compute for themselves, in TypeScript, of what *)
(* the program will book: sdk/src/positions.ts, exchange.ts, funding.ts and   *)
(* mark-index.ts, and the CLI's funding command.  A bigint has no width, so   *)
(* the casts, checks and saturations of FixedPoint have no counterpart here.  *)
EXTENDS Integers

CONSTANTS APY_SCALE, NORM_BITS, MAX_SHIFT, SLOTS_PER_YEAR,
          funding_k, max_funding, funding_epoch_slots     \* of the market decoded

null == [ok |-> FALSE, value |-> 0]
defined(x) == [ok |-> TRUE, value |-> x]

(* bigint division truncates toward zero, whatever the signs. *)
Magnitude(x) == IF x < 0 THEN -x ELSE x
quotient(a, b) ==
    IF (a < 0) = (b < 0) THEN Magnitude(a) \div Magnitude(b)
    ELSE -(Magnitude(a) \div Magnitude(b))
max(a, b) == IF a > b THEN a ELSE b
min(a, b) == IF a < b THEN a ELSE b

-----------------------------------------------------------------------------
(* positions.ts *)

bitlen(x) == CHOOSE b \in 0..(NORM_BITS + MAX_SHIFT) : x < 2^b /\ (b = 0 \/ x >= 2^(b - 1))
(* One shift for both sums; MutNormalizeSums shifts each by its own length.   *)
MutNormalizeSums(entry) ==
    [n |-> entry.n \div 2^max(bitlen(entry.n) - NORM_BITS, 0),
     d |-> entry.d \div 2^max(bitlen(entry.d) - NORM_BITS, 0)]
normalizeSums(entry) ==
    LET shift == max(bitlen(max(entry.n, entry.d)) - NORM_BITS, 0)
    IN  [n |-> entry.n \div 2^shift, d |-> entry.d \div 2^shift]

signedYieldChange(entry, cur) ==
    LET e == normalizeSums(entry)
    IN  IF 0 \in {e.n, e.d, cur.n, cur.d} THEN null
        ELSE defined(quotient((cur.n * e.d - e.n * cur.d) * APY_SCALE, e.n * cur.d))

pnl(entry, cur, notional, side) ==
    LET change == signedYieldChange(entry, cur)
        scaled == quotient(notional * change.value, APY_SCALE)
    IN  IF ~change.ok THEN null
        ELSE defined(IF side = "Long" THEN scaled ELSE -scaled)

-----------------------------------------------------------------------------
(* exchange.ts *)

realizedYield(open, settle) ==
    LET a == settle.n * open.d
        b == open.n * settle.d
    IN  IF settle.n = 0 \/ open.n = 0 \/ b = 0 THEN null
        ELSE defined(IF a < b THEN 0 ELSE quotient((a - b) * APY_SCALE, b))

annualize(yieldScaled, periodSlots) ==
    IF periodSlots = 0 THEN null
    ELSE defined(quotient(yieldScaled * SLOTS_PER_YEAR, periodSlots))

-----------------------------------------------------------------------------
(* funding.ts *)

premium(mark, index) == mark - index
fundingRate(p) == max(-max_funding, min(max_funding, quotient(funding_k * p, APY_SCALE)))
SideFlow(side) == IF side = "Long" THEN -1 ELSE 1
fundingPayment(notional, rate, epochs, side) ==
    quotient(notional * rate, APY_SCALE) * epochs * SideFlow(side)
fundingEpoch(slot) == IF funding_epoch_slots = 0 THEN 0 ELSE quotient(slot, funding_epoch_slots)

-----------------------------------------------------------------------------
(* mark-index.ts, and funding.ts of the CLI *)

(* baseline: the market's last-settlement snapshot, 0/0 before the first.     *)
expectedIndex(baseline, current, elapsedSlots) ==
    LET realized == realizedYield(baseline, current)
    IN  IF baseline.d = 0 THEN defined(0)
        ELSE IF ~realized.ok THEN null
        ELSE annualize(realized.value, elapsedSlots)

expectedFundingPayment(baseline, last, notional, side, mark, current, slot) ==
    LET epochs == fundingEpoch(slot) - last
        index  == expectedIndex(baseline, current, epochs * funding_epoch_slots)
    IN  IF epochs <= 0 THEN defined(0)
        ELSE IF ~index.ok THEN null
        ELSE defined(fundingPayment(notional, fundingRate(premium(mark, index.value)),
                                    epochs, side))

(* With a side of the book empty the index stands in for the mark, so that no *)
(* premium is quoted; MutMarkOf takes a mark of 0.                            *)
MutMarkOf(mid, index) == mid
MarkOf(mid, index) == IF mid = 0 THEN index.value ELSE mid
expectedFundingForBook(baseline, last, notional, side, mid, current, slot) ==
    LET index == expectedIndex(baseline, current,
                               (fundingEpoch(slot) - last) * funding_epoch_slots)
    IN  expectedFundingPayment(baseline, last, notional, side, MarkOf(mid, index),
                               current, slot)
=============================================================================
