---------------------------- MODULE FixedPoint ----------------------------
(* The pure integer arithmetic of the program: exchange.rs, positions.rs,   *)
(* funding.rs and liquidation.rs.  A Rust function returning Option is two   *)
(* operators here: its value, and a predicate ..._ok that is TRUE exactly    *)
(* when it returns Some.  The widths and the scales are parameters, so TLC   *)
(* can use a small machine word and still meet every overflow path.         *)
EXTENDS Integers

CONSTANTS
    U64_MAX,                  \* largest u64
    U128_MAX,                 \* largest u128
    I128_MAX,                 \* largest i128
    NORM_BITS,                \* 45: the width normalize_sums shifts down to
    MAX_SHIFT,                \* 128: no u128 needs a longer shift
    APY_SCALE,                \* 1.0 as a fixed-point yield
    BPS,                      \* 10_000: one in basis points
    SLOTS_PER_YEAR,
    LIQUIDATION_PENALTY_BPS

(* normalize_sums shifts by bitlen(max) - 45 when that is positive, else 0. *)
IsNormShift(m, k) ==
    /\ m \div 2^k < 2^NORM_BITS
    /\ k = 0 \/ m \div 2^(k - 1) >= 2^NORM_BITS

ASSUME WidthAssumption ==
    /\ U64_MAX \in Nat \ {0} /\ U128_MAX \in Nat /\ I128_MAX \in Nat
    /\ U64_MAX <= I128_MAX /\ I128_MAX <= U128_MAX
ASSUME ScaleAssumption ==
    /\ APY_SCALE \in Nat \ {0} /\ BPS \in Nat \ {0} /\ SLOTS_PER_YEAR \in Nat
    /\ LIQUIDATION_PENALTY_BPS \in 0..BPS
ASSUME NormAssumption ==
    /\ NORM_BITS \in Nat /\ MAX_SHIFT \in Nat
    /\ (U64_MAX + 1) * 2^NORM_BITS <= I128_MAX + 1
    /\ \A m \in 0..U128_MAX : \E k \in 0..MAX_SHIFT : IsNormShift(m, k)
(* True of every exponent; named because the provers know no powers. *)
ASSUME PowerAssumption ==
    \A k \in 0..(NORM_BITS + MAX_SHIFT) : 2^k \in Nat \ {0} /\ 2^(k + 1) = 2 * 2^k

U64 == 0..U64_MAX
U128 == 0..U128_MAX
Sides == {"Long", "Short"}
ExchangeRate == [n : U64, d : U64 \ {0}]     \* lamports per pool token
EntrySums == [n : U128, d : U128]            \* notional-weighted running sums

Opposite(side) == IF side = "Long" THEN "Short" ELSE "Long"
MinOf(a, b) == IF a <= b THEN a ELSE b
MaxOf(a, b) == IF a >= b THEN a ELSE b
Abs(x) == IF x < 0 THEN -x ELSE x

(* Rust's signed division truncates toward zero; TLA+'s rounds down. *)
TruncDiv(a, b) == IF a >= 0 THEN a \div b ELSE -((-a) \div b)
fits_i128(x) == -(I128_MAX + 1) <= x /\ x <= I128_MAX
saturate(x) == MaxOf(-(I128_MAX + 1), MinOf(x, I128_MAX))
clamp(x, cap) == MaxOf(-cap, MinOf(x, cap))

-----------------------------------------------------------------------------
(* positions.rs *)

margin_required(notional, bps) == (notional * bps + (BPS - 1)) \div BPS

accumulate_entry(cur, add, w) == [n |-> cur.n + add.n * w, d |-> cur.d + add.d * w]
accumulate_entry_ok(cur, add, w) ==
    cur.n + add.n * w <= U128_MAX /\ cur.d + add.d * w <= U128_MAX

normalize_sums(entry) ==
    LET k == CHOOSE s \in 0..MAX_SHIFT : IsNormShift(MaxOf(entry.n, entry.d), s)
    IN  [n |-> entry.n \div 2^k, d |-> entry.d \div 2^k]

YieldNumerator(e, cur) == (cur.n * e.d - e.n * cur.d) * APY_SCALE
signed_yield_change(entry, cur) ==
    LET e == normalize_sums(entry)
    IN  TruncDiv(YieldNumerator(e, cur), e.n * cur.d)
signed_yield_change_ok(entry, cur) ==
    LET e == normalize_sums(entry)
    IN  /\ e.n # 0 /\ e.d # 0 /\ cur.n # 0 /\ cur.d # 0
        /\ fits_i128(YieldNumerator(e, cur))

pnl(entry, cur, notional, side) ==
    LET scaled == TruncDiv(notional * signed_yield_change(entry, cur), APY_SCALE)
    IN  IF side = "Long" THEN scaled ELSE -scaled
pnl_ok(entry, cur, notional) ==
    /\ signed_yield_change_ok(entry, cur)
    /\ fits_i128(notional * signed_yield_change(entry, cur))

(* The closed generations' harmonic mean: n/d = closed / Sum(closed_i / rate_i).*)
closed_prior(cur, cur_notional) ==
    IF cur_notional = 0 THEN [num |-> 0, den |-> 1]
    ELSE [num |-> cur.d, den |-> cur.n \div cur_notional]
accumulate_closed_entry(cur, cur_notional, add, q) ==
    LET s == closed_prior(cur, cur_notional)
    IN  [n |-> (cur_notional + q) * s.den * add.n,
         d |-> s.num * add.n + q * add.d * s.den]
accumulate_closed_entry_ok(cur, cur_notional, add, q) ==
    LET new == accumulate_closed_entry(cur, cur_notional, add, q)
        s   == closed_prior(cur, cur_notional)
    IN  /\ new.n <= U128_MAX /\ new.d <= U128_MAX
        /\ s.den * add.n <= U128_MAX       \* also bounded when add.n = 0
        /\ q * add.d <= U128_MAX

-----------------------------------------------------------------------------
(* exchange.rs *)

CrossYield(base, cur) == (cur.n * base.d - base.n * cur.d) * APY_SCALE
realized_yield(base, cur) ==
    IF cur.n * base.d < base.n * cur.d THEN 0
    ELSE CrossYield(base, cur) \div (base.n * cur.d)
realized_yield_ok(base, cur) ==
    /\ cur.n # 0 /\ base.n * cur.d # 0
    /\ cur.n * base.d >= base.n * cur.d =>
         CrossYield(base, cur) <= U128_MAX /\ realized_yield(base, cur) <= U64_MAX

annualize(yield, period) == (yield * SLOTS_PER_YEAR) \div period
annualize_ok(yield, period) ==
    /\ period # 0
    /\ yield * SLOTS_PER_YEAR <= U128_MAX /\ annualize(yield, period) <= U64_MAX

-----------------------------------------------------------------------------
(* funding.rs *)

SideFlow(side) == IF side = "Long" THEN -1 ELSE 1
funding_rate(premium, k, cap) == clamp(TruncDiv(saturate(k * premium), APY_SCALE), cap)
funding_payment(notional, rate, epochs, side) ==
    LET scaled == TruncDiv(saturate(notional * rate), APY_SCALE)
    IN  saturate(saturate(scaled * epochs) * SideFlow(side))
funding_epoch(slot, epoch_slots) == IF epoch_slots = 0 THEN 0 ELSE slot \div epoch_slots

-----------------------------------------------------------------------------
(* liquidation.rs *)

liquidation_penalty(collateral, bps) == (collateral * bps + (BPS - 1)) \div BPS
MutLiquidatable(collateral, profit, notional, maintenance_bps) ==   \* at the margin
    /\ notional > 0
    /\ saturate(collateral + profit) <= margin_required(notional, maintenance_bps)
liquidatable(collateral, profit, notional, maintenance_bps) ==
    /\ notional > 0
    /\ saturate(collateral + profit) < margin_required(notional, maintenance_bps)

(* What a liquidated position keeps, and what its liquidator earns;           *)
(* MutApplyLiquidation keeps the margin of the part that was liquidated.      *)
MutApplyLiquidation(collateral, notional, amount, initial_bps) ==
    LET remaining == MinOf(margin_required(amount, initial_bps), collateral)
    IN  [remaining |-> remaining,
         reward |-> liquidation_penalty(collateral - remaining, LIQUIDATION_PENALTY_BPS)]
apply_liquidation(collateral, notional, amount, initial_bps) ==
    LET remaining == MinOf(margin_required(notional - amount, initial_bps), collateral)
    IN  [remaining |-> remaining,
         reward |-> liquidation_penalty(collateral - remaining, LIQUIDATION_PENALTY_BPS)]
=============================================================================
