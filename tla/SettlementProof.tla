--------------------------- MODULE SettlementProof ---------------------------
(* What the accounting proofs need of totals, and of the settlement and       *)
(* margin arithmetic: what each operation on a ledger preserves, for every    *)
(* width and scale.  The library's induction theorems take an operator, so    *)
(* each induction about totals is a least counterexample instead.             *)
EXTENDS Settlement, Sums, TLAPS, WellFoundedInduction

IsPrefixSum(s, f, n) ==
    /\ s \in [0..n -> Int]
    /\ s[0] = 0
    /\ \A i \in 1..n : s[i] = s[i - 1] + f[i]

-----------------------------------------------------------------------------
(* A non-empty set of naturals has a least element. *)
LEMMA LeastNat ==
    ASSUME NEW T, T \subseteq Nat, T # {}
    PROVE  \E x \in T : \A y \in T : x <= y
<1>1. IsWellFoundedOn(OpToRel(<, Nat), Nat)
  BY NatLessThanWellFounded
<1>2. PICK x \in T : \A y \in T : ~(<<y, x>> \in OpToRel(<, Nat))
  BY <1>1, WFMin, Zenon
<1>3. \A y \in T : ~(y < x)
  <2> TAKE y \in T
  <2>1. x \in Nat /\ y \in Nat
    OBVIOUS
  <2>2. <<y, x>> \notin OpToRel(<, Nat)
    BY <1>2
  <2> QED BY <2>1, <2>2 DEF OpToRel
<1> QED BY <1>3

(* Prefix sums exist for every function to the integers. *)
LEMMA PrefixSumExists ==
    ASSUME NEW n \in Nat, NEW f \in [1..n -> Int]
    PROVE  \E s : IsPrefixSum(s, f, n)
<1> DEFINE Ex(k) == \E s : IsPrefixSum(s, f, k)
           Bad == {k \in 0..n : ~Ex(k)}
<1>1. SUFFICES ASSUME ~Ex(n) PROVE FALSE
  OBVIOUS
<1>2. PICK k \in Bad : \A j \in Bad : k <= j
  <2>1. n \in Bad
    BY <1>1
  <2>2. Bad \subseteq Nat /\ Bad # {}
    BY <2>1
  <2> HIDE DEF Bad
  <2> QED BY <2>2, LeastNat
<1>3. k # 0
  <2>1. IsPrefixSum([i \in 0..0 |-> 0], f, 0)
    BY DEF IsPrefixSum
  <2> QED BY <2>1, <1>2
<1>4. PICK s : IsPrefixSum(s, f, k - 1)
  <2>1. k - 1 \in 0..n /\ k - 1 \notin Bad
    BY <1>2, <1>3
  <2> QED BY <2>1
<1> DEFINE t == [i \in 0..k |-> IF i = k THEN s[k - 1] + f[k] ELSE s[i]]
<1>5. IsPrefixSum(t, f, k)
  <2>1. k \in 1..n
    BY <1>2, <1>3
  <2>2. t \in [0..k -> Int]
    BY <2>1, <1>4 DEF IsPrefixSum
  <2>3. t[0] = 0
    BY <2>1, <1>4 DEF IsPrefixSum
  <2>4. ASSUME NEW i \in 1..k PROVE t[i] = t[i - 1] + f[i]
    BY <2>1, <1>4 DEF IsPrefixSum
  <2> QED BY <2>2, <2>3, <2>4 DEF IsPrefixSum
<1> QED BY <1>5, <1>2

(* SumUpTo is the last prefix sum. *)
LEMMA SumIsPrefixSum ==
    ASSUME NEW n \in Nat, NEW f \in [1..n -> Int]
    PROVE  \E s : IsPrefixSum(s, f, n) /\ SumUpTo(f, n) = s[n]
<1> DEFINE s == CHOOSE g : g = [i \in 0..n |-> IF i = 0 THEN 0 ELSE g[i - 1] + f[i]]
<1>1. PICK g : IsPrefixSum(g, f, n)
  BY PrefixSumExists
<1>2. g = [i \in 0..n |-> IF i = 0 THEN 0 ELSE g[i - 1] + f[i]]
  BY <1>1 DEF IsPrefixSum
<1>3. s = [i \in 0..n |-> IF i = 0 THEN 0 ELSE s[i - 1] + f[i]]
  BY <1>2
<1> HIDE DEF s
<1>4. \A i \in 0..n : s[i] = g[i]
  <2> DEFINE Bad == {i \in 0..n : s[i] # g[i]}
  <2>1. SUFFICES ASSUME NEW b \in 0..n, s[b] # g[b] PROVE FALSE
    OBVIOUS
  <2>2. PICK i \in Bad : \A j \in Bad : i <= j
    <3>1. b \in Bad
      BY <2>1
    <3>2. Bad \subseteq Nat /\ Bad # {}
      BY <3>1
    <3> HIDE DEF Bad
    <3> QED BY <3>2, LeastNat
  <2>3. s[0] = 0 /\ g[0] = 0
    BY <1>1, <1>3 DEF IsPrefixSum
  <2>4. i \in 1..n
    BY <2>2, <2>3
  <2>5. s[i] = s[i - 1] + f[i]
    BY <1>3, <2>4
  <2>6. g[i] = g[i - 1] + f[i]
    BY <1>1, <2>4 DEF IsPrefixSum
  <2>7. s[i - 1] = g[i - 1]
    BY <2>2, <2>4
  <2> QED BY <2>2, <2>5, <2>6, <2>7
<1>5. s = g
  BY <1>1, <1>3, <1>4 DEF IsPrefixSum
<1>6. SumUpTo(f, n) = s[n]
  BY DEF SumUpTo, s
<1> QED BY <1>1, <1>5, <1>6

(* The total is an integer. *)
LEMMA SumType ==
    ASSUME NEW n \in Nat, NEW f \in [1..n -> Int]
    PROVE  SumUpTo(f, n) \in Int
BY SumIsPrefixSum DEF IsPrefixSum

(* Changing one value changes the total by the difference. *)
LEMMA SumUpdate ==
    ASSUME NEW n \in Nat, NEW f \in [1..n -> Int],
           NEW u \in 1..n, NEW v \in Int
    PROVE  SumUpTo([f EXCEPT ![u] = v], n) = SumUpTo(f, n) - f[u] + v
<1> DEFINE g == [f EXCEPT ![u] = v]
           Carry(i) == IF i >= u THEN v - f[u] ELSE 0
<1>1. g \in [1..n -> Int]
  OBVIOUS
<1>2. PICK s : IsPrefixSum(s, f, n) /\ SumUpTo(f, n) = s[n]
  BY SumIsPrefixSum
<1>3. PICK t : IsPrefixSum(t, g, n) /\ SumUpTo(g, n) = t[n]
  BY <1>1, SumIsPrefixSum
<1>4. \A i \in 0..n : t[i] = s[i] + Carry(i)
  <2> DEFINE Bad == {i \in 0..n : t[i] # s[i] + Carry(i)}
  <2>1. SUFFICES ASSUME NEW b \in 0..n, t[b] # s[b] + Carry(b) PROVE FALSE
    OBVIOUS
  <2>2. PICK i \in Bad : \A j \in Bad : i <= j
    <3>1. b \in Bad
      BY <2>1
    <3>2. Bad \subseteq Nat /\ Bad # {}
      BY <3>1
    <3> HIDE DEF Bad
    <3> QED BY <3>2, LeastNat
  <2>3. i \in 1..n
    BY <1>2, <1>3, <2>2 DEF IsPrefixSum
  <2>4. t[i - 1] = s[i - 1] + Carry(i - 1)
    BY <2>2, <2>3
  <2>5. s[i] = s[i - 1] + f[i] /\ t[i] = t[i - 1] + g[i]
    BY <1>2, <1>3, <2>3 DEF IsPrefixSum
  <2>6. s[i - 1] \in Int /\ f[i] \in Int /\ f[u] \in Int
    BY <1>2, <2>3 DEF IsPrefixSum
  <2>7. g[i] = IF i = u THEN v ELSE f[i]
    BY <2>3
  <2>8. t[i] = s[i] + Carry(i)
    BY <2>3, <2>4, <2>5, <2>6, <2>7
  <2> QED BY <2>2, <2>8
<1>5. n \in 0..n /\ n >= u
  OBVIOUS
<1>6. s[n] \in Int /\ f[u] \in Int
  BY <1>2, <1>5 DEF IsPrefixSum
<1>7. t[n] = s[n] + (v - f[u])
  BY <1>4, <1>5
<1> QED BY <1>2, <1>3, <1>6, <1>7

(* A total of naturals bounds every prefix from above and is a natural. *)
LEMMA SumBoundsItems ==
    ASSUME NEW n \in Nat, NEW f \in [1..n -> Nat]
    PROVE  /\ SumUpTo(f, n) \in Nat
           /\ \A u \in 1..n : f[u] <= SumUpTo(f, n)
<1>1. f \in [1..n -> Int]
  OBVIOUS
<1>2. PICK s : IsPrefixSum(s, f, n) /\ SumUpTo(f, n) = s[n]
  BY <1>1, SumIsPrefixSum
<1> DEFINE Good(i) == s[i] >= 0 /\ \A u \in 1..i : f[u] <= s[i]
           Bad == {i \in 0..n : ~Good(i)}
<1>3. \A i \in 0..n : s[i] \in Int
  BY <1>2 DEF IsPrefixSum
<1>4. \A i \in 0..n : Good(i)
  <2>1. SUFFICES ASSUME NEW b \in 0..n, ~Good(b) PROVE FALSE
    OBVIOUS
  <2>2. PICK i \in Bad : \A j \in Bad : i <= j
    <3>1. b \in Bad
      BY <2>1
    <3>2. Bad \subseteq Nat /\ Bad # {}
      BY <3>1
    <3> HIDE DEF Bad
    <3> QED BY <3>2, LeastNat
  <2>3. Good(0)
    BY <1>2 DEF IsPrefixSum
  <2>4. i \in 1..n
    BY <2>2, <2>3
  <2>5. Good(i - 1)
    BY <2>2, <2>4
  <2>6. s[i] = s[i - 1] + f[i] /\ f[i] \in Nat
    BY <1>2, <2>4 DEF IsPrefixSum
  <2>7. s[i - 1] \in Int
    BY <1>3, <2>4
  <2>8. s[i] >= 0
    BY <2>5, <2>6, <2>7
  <2>9. ASSUME NEW u \in 1..i PROVE f[u] <= s[i]
    <3>1. CASE u = i
      BY <3>1, <2>5, <2>6, <2>7
    <3>2. CASE u # i
      <4>1. u \in 1..(i - 1) /\ f[u] \in Nat
        BY <3>2, <2>4
      <4>2. f[u] <= s[i - 1]
        BY <4>1, <2>5
      <4> QED BY <4>1, <4>2, <2>6, <2>7
    <3> QED BY <3>1, <3>2
  <2>10. Good(i)
    BY <2>8, <2>9
  <2> QED BY <2>2, <2>10
<1> QED BY <1>2, <1>3, <1>4

(* The total of n equal values. *)
LEMMA SumOfConstant ==
    ASSUME NEW n \in Nat, NEW f \in [1..n -> Int], NEW c \in Int,
           \A u \in 1..n : f[u] = c
    PROVE  SumUpTo(f, n) = n * c
<1>1. PICK s : IsPrefixSum(s, f, n) /\ SumUpTo(f, n) = s[n]
  BY SumIsPrefixSum
<1> DEFINE Bad == {i \in 0..n : s[i] # i * c}
<1>2. SUFFICES ASSUME s[n] # n * c PROVE FALSE
  BY <1>1
<1>3. PICK i \in Bad : \A j \in Bad : i <= j
  <2>1. n \in Bad
    BY <1>2
  <2>2. Bad \subseteq Nat /\ Bad # {}
    BY <2>1
  <2> HIDE DEF Bad
  <2> QED BY <2>2, LeastNat
<1>4. i \in 1..n
  BY <1>1, <1>3 DEF IsPrefixSum
<1>5. s[i - 1] = (i - 1) * c
  BY <1>3, <1>4
<1>6. s[i] = s[i - 1] + f[i]
  BY <1>1, <1>4 DEF IsPrefixSum
<1>7. f[i] = c
  BY <1>4
<1>8. (i - 1) * c + c = i * c
  BY <1>4
<1> QED BY <1>3, <1>5, <1>6, <1>7, <1>8

(* The total of zeros is zero. *)
LEMMA SumOfZeros ==
    ASSUME NEW n \in Nat, NEW f \in [1..n -> Int], \A u \in 1..n : f[u] = 0
    PROVE  SumUpTo(f, n) = 0
<1>1. SumUpTo(f, n) = n * 0
  BY SumOfConstant
<1> QED BY <1>1
-----------------------------------------------------------------------------
LedgerRecord == [deposited : Nat, claimable : Nat, pool : Nat]

(* A payout moves money from the pool to the ledger and nothing else. *)
LEMMA ClaimPayoutConserves ==
    ASSUME NEW l \in LedgerRecord
    PROVE  /\ claim_payout(l) \in LedgerRecord
           /\ claim_payout(l).deposited + claim_payout(l).pool = l.deposited + l.pool
           /\ claim_payout(l).pool <= l.pool
           /\ claim_payout(l).claimable <= l.claimable
  BY DEF claim_payout, MinOf, LedgerRecord

LEMMA DebitConserves ==
    ASSUME NEW l \in LedgerRecord, NEW debit \in Nat
    PROVE  /\ apply_debit(l, debit) \in LedgerRecord
           /\ apply_debit(l, debit).deposited + apply_debit(l, debit).pool
                = l.deposited + l.pool
  BY DEF apply_debit, MinOf, LedgerRecord

LEMMA CreditConserves ==
    ASSUME NEW l \in LedgerRecord, NEW credit \in Nat
    PROVE  /\ apply_credit(l, credit) \in LedgerRecord
           /\ apply_credit(l, credit).deposited + apply_credit(l, credit).pool
                = l.deposited + l.pool
  BY DEF apply_credit, MinOf, LedgerRecord

(* A signed payment, in either direction, mints and burns nothing. *)
LEMMA SettleSignedConserves ==
    ASSUME NEW l \in LedgerRecord, NEW payment \in Int
    PROVE  /\ settle_signed(l, payment) \in LedgerRecord
           /\ settle_signed(l, payment).deposited + settle_signed(l, payment).pool
                = l.deposited + l.pool
<1>1. CASE payment <= 0
  <2>1. MinOf(-payment, U64_MAX) \in Nat
    BY <1>1, WidthAssumption DEF MinOf
  <2>2. QED
    BY <1>1, <2>1, DebitConserves DEF settle_signed
<1>2. CASE payment > 0
  BY <1>2, CreditConserves DEF settle_signed
<1>3. QED
  BY <1>1, <1>2

(* Rounding up keeps the margin of a larger notional at least as large. *)
LEMMA MarginMonotone ==
    ASSUME NEW a \in Nat, NEW b \in Nat, a <= b, NEW bps \in Nat
    PROVE  /\ margin_required(a, bps) \in Nat
           /\ margin_required(a, bps) <= margin_required(b, bps)
<1>1. a * bps \in Nat /\ b * bps \in Nat /\ a * bps <= b * bps
  OBVIOUS
<1>2. BPS \in Nat \ {0}
  BY ScaleAssumption
<1>3. QED
  BY <1>1, <1>2 DEF margin_required

LEMMA MarginBounded ==
    ASSUME NEW a \in Nat, NEW bps \in Nat, bps <= BPS
    PROVE  margin_required(a, bps) \in 0..a
<1>1. BPS \in Nat \ {0}
  BY ScaleAssumption
<1>2. a * bps \in Nat /\ a * bps <= a * BPS
  BY <1>1
<1>3. a * bps + (BPS - 1) < (a + 1) * BPS
  BY <1>1, <1>2
<1>4. QED
  BY <1>1, <1>2, <1>3 DEF margin_required

LEMMA MarginOfZero ==
    ASSUME NEW bps \in Nat
    PROVE  margin_required(0, bps) = 0
  BY ScaleAssumption DEF margin_required
-----------------------------------------------------------------------------
(* The signed arithmetic stays in the integers: no division by zero. *)
LEMMA TruncDivType ==
    ASSUME NEW a \in Int, NEW b \in Nat \ {0}
    PROVE  TruncDiv(a, b) \in Int
  BY DEF TruncDiv

LEMMA SaturateType ==
    ASSUME NEW x \in Int
    PROVE  saturate(x) \in Int /\ saturate(x) >= -(I128_MAX + 1)
  BY WidthAssumption DEF saturate, MaxOf, MinOf

LEMMA TruncDivBound ==
    ASSUME NEW a \in Int, NEW b \in Nat \ {0}, NEW m \in Nat, -m <= a, a <= m
    PROVE  -m <= TruncDiv(a, b) /\ TruncDiv(a, b) <= m
<1>1. CASE a >= 0
  BY <1>1 DEF TruncDiv
<1>2. CASE a < 0
  <2>1. -a \in Nat /\ -a <= m
    BY <1>2
  <2>2. (-a) \div b \in Nat /\ (-a) \div b <= -a
    BY <2>1
  <2>3. QED
    BY <1>2, <2>1, <2>2 DEF TruncDiv
<1>3. QED
  BY <1>1, <1>2

(* The shift exists, and shifted sums are naturals. *)
LEMMA NormalizeType ==
    ASSUME NEW entry \in EntrySums
    PROVE  normalize_sums(entry).n \in Nat /\ normalize_sums(entry).d \in Nat
<1> DEFINE m == MaxOf(entry.n, entry.d)
           k == CHOOSE s \in 0..MAX_SHIFT : IsNormShift(m, s)
<1>1. entry.n \in Nat /\ entry.d \in Nat /\ m \in 0..U128_MAX
  BY WidthAssumption DEF EntrySums, U128, MaxOf
<1>2. \E s \in 0..MAX_SHIFT : IsNormShift(m, s)
  BY <1>1, NormAssumption
<1>3. k \in 0..MAX_SHIFT
  <2> HIDE DEF m
  <2>1. QED
    BY <1>2
<1> HIDE DEF k
<1>4. 2^k \in Nat \ {0}
  BY <1>3, NormAssumption, PowerAssumption
<1>5. entry.n \div 2^k \in Nat /\ entry.d \div 2^k \in Nat
  BY <1>1, <1>4
<1>6. QED
  BY <1>5 DEF normalize_sums, k

LEMMA PnlType ==
    ASSUME NEW entry \in EntrySums, NEW cur \in ExchangeRate, NEW notional \in Nat,
           NEW side, pnl_ok(entry, cur, notional)
    PROVE  /\ pnl(entry, cur, notional, side) \in Int
           /\ pnl(entry, cur, notional, side) >= -(I128_MAX + 1)
<1> DEFINE e == normalize_sums(entry)
<1>1. e.n \in Nat \ {0} /\ e.d \in Nat \ {0}
  BY NormalizeType DEF pnl_ok, signed_yield_change_ok
<1>2. cur.n \in Nat \ {0} /\ cur.d \in Nat \ {0}
  BY DEF pnl_ok, signed_yield_change_ok, ExchangeRate, U64
<1>3. APY_SCALE \in Nat \ {0}
  BY ScaleAssumption
<1>4. YieldNumerator(e, cur) \in Int /\ e.n * cur.d \in Nat \ {0}
  <2> HIDE DEF e
  <2>1. QED
    BY <1>1, <1>2, <1>3 DEF YieldNumerator
<1>5. signed_yield_change(entry, cur) \in Int
  BY <1>4, TruncDivType DEF signed_yield_change
<1> DEFINE change == signed_yield_change(entry, cur)
           scaled == TruncDiv(notional * change, APY_SCALE)
<1>6. I128_MAX + 1 \in Nat /\ notional * change \in Int
      /\ -(I128_MAX + 1) <= notional * change /\ notional * change <= I128_MAX + 1
  BY <1>5, WidthAssumption DEF pnl_ok, fits_i128
<1> HIDE DEF change
<1>7. scaled \in Int /\ -(I128_MAX + 1) <= scaled /\ scaled <= I128_MAX + 1
  BY <1>3, <1>6, TruncDivType, TruncDivBound
<1> HIDE DEF scaled
<1>8. pnl(entry, cur, notional, side) = IF side = "Long" THEN scaled ELSE -scaled
  BY DEF pnl, scaled, change
<1>9. QED
  BY <1>6, <1>7, <1>8

(* No precondition: a missing premium or rate saturates and never fails. *)
LEMMA FundingPaymentType ==
    ASSUME NEW notional \in Nat, NEW premium \in Int, NEW k \in Nat, NEW cap \in Nat,
           NEW epochs \in Nat, NEW side
    PROVE  LET payment == funding_payment(notional, funding_rate(premium, k, cap),
                                          epochs, side)
           IN  payment \in Int /\ payment >= -(I128_MAX + 1)
<1> DEFINE r == funding_rate(premium, k, cap)
<1>1. TruncDiv(saturate(k * premium), APY_SCALE) \in Int
  BY ScaleAssumption, SaturateType, TruncDivType
<1>2. r \in Int
  BY <1>1 DEF funding_rate, clamp, MaxOf, MinOf
<1> HIDE DEF r
<1>3. TruncDiv(saturate(notional * r), APY_SCALE) \in Int
  BY <1>2, ScaleAssumption, SaturateType, TruncDivType
<1> DEFINE x == saturate(TruncDiv(saturate(notional * r), APY_SCALE) * epochs)
<1>4. x \in Int
  BY <1>3, SaturateType
<1>5. funding_payment(notional, r, epochs, side) = saturate(x * SideFlow(side))
  BY DEF funding_payment
<1> HIDE DEF x
<1>6. x * SideFlow(side) \in Int
  BY <1>4 DEF SideFlow
<1>7. QED
  BY <1>5, <1>6, SaturateType DEF r

LEMMA FundingEpochType ==
    ASSUME NEW s \in Nat, NEW length \in Nat
    PROVE  funding_epoch(s, length) \in 0..s
  BY DEF funding_epoch

(* The entry of the closed part keeps within its width. *)
LEMMA ClosedEntryType ==
    ASSUME NEW cur \in EntrySums, NEW closed \in Nat, NEW add \in [n : Nat, d : Nat],
           NEW q \in Nat, accumulate_closed_entry_ok(cur, closed, add, q)
    PROVE  accumulate_closed_entry(cur, closed, add, q) \in EntrySums
<1> DEFINE s == closed_prior(cur, closed)
           num == s.num
           den == s.den
           new == accumulate_closed_entry(cur, closed, add, q)
<1>1. cur.n \in Nat /\ cur.d \in Nat /\ add.n \in Nat /\ add.d \in Nat
  BY DEF EntrySums, U128
<1>2. num \in Nat /\ den \in Nat
  BY <1>1 DEF closed_prior
<1>3. /\ new = [n |-> (closed + q) * den * add.n, d |-> num * add.n + q * add.d * den]
      /\ new.n <= U128_MAX /\ new.d <= U128_MAX
  BY DEF accumulate_closed_entry, accumulate_closed_entry_ok
<1> HIDE DEF num, den
<1>4. (closed + q) * den * add.n \in Nat /\ num * add.n + q * add.d * den \in Nat
  BY <1>1, <1>2
<1>5. QED
  BY <1>3, <1>4, WidthAssumption DEF EntrySums, U128

LEMMA AccumulateType ==
    ASSUME NEW cur \in EntrySums, NEW add \in ExchangeRate, NEW w \in Nat,
           accumulate_entry_ok(cur, add, w)
    PROVE  accumulate_entry(cur, add, w) \in EntrySums
<1>1. cur.n \in Nat /\ cur.d \in Nat /\ add.n \in Nat /\ add.d \in Nat
  BY DEF EntrySums, U128, ExchangeRate, U64
<1>2. cur.n + add.n * w \in Nat /\ cur.d + add.d * w \in Nat
  BY <1>1
<1>3. QED
  BY <1>2, WidthAssumption DEF accumulate_entry, accumulate_entry_ok, EntrySums, U128
-----------------------------------------------------------------------------
(* Powers of two, as far as a shift goes. *)
Exponents == 0..(NORM_BITS + MAX_SHIFT)

LEMMA PowerStep ==
    /\ NORM_BITS \in Nat /\ MAX_SHIFT \in Nat /\ 2^0 = 1
    /\ \A k \in Exponents : 2^k \in Nat \ {0} /\ 2^(k + 1) = 2 * 2^k
  BY NormAssumption, PowerAssumption DEF Exponents

LEMMA PowerMonotone ==
    ASSUME NEW a \in Exponents, NEW b \in Exponents, a <= b
    PROVE  2^a <= 2^b
<1> DEFINE Bad == {j \in a..b : ~(2^a <= 2^j)}
<1>1. a \in Nat /\ b \in Nat /\ a..b \subseteq Exponents
  BY PowerStep DEF Exponents
<1>2. \A j \in a..b : 2^j \in Nat
  BY <1>1, PowerStep
<1>3. CASE Bad = {}
  BY <1>1, <1>3
<1>4. CASE Bad # {}
  <2>1. Bad \subseteq Nat
    BY <1>1
  <2>2. PICK j \in Bad : \A i \in Bad : j <= i
    <3> HIDE DEF Bad
    <3> QED BY <1>4, <2>1, LeastNat
  <2>3. j # a /\ j \in a..b /\ j - 1 \in a..b
    BY <1>1, <1>2, <2>2
  <2>4. ~(j <= j - 1)
    BY <1>1, <2>3
  <2>5. j - 1 \notin Bad
    <3> HIDE DEF Bad
    <3> QED BY <2>2, <2>4
  <2>6. 2^a <= 2^(j - 1)
    BY <2>3, <2>5
  <2>7. (j - 1) + 1 = j /\ j - 1 \in Exponents
    BY <1>1, <2>3
  <2>8. 2^j = 2 * 2^(j - 1)
    BY <2>7, PowerStep
  <2>9. 2^a \in Nat /\ 2^(j - 1) \in Nat /\ 2^j \in Nat
    BY <1>1, <1>2, <2>3
  <2>10. 2^a <= 2^j
    BY <2>6, <2>8, <2>9
  <2> QED BY <2>2, <2>10
<1> QED BY <1>3, <1>4

LEMMA PowerSum ==
    ASSUME NEW a \in Nat, NEW b \in Nat, a + b \in Exponents
    PROVE  2^(a + b) = 2^a * 2^b
<1> DEFINE Bad == {j \in 0..b : 2^(a + j) # 2^a * 2^j}
<1>1. \A j \in 0..b : j \in Exponents /\ a + j \in Exponents
  BY PowerStep DEF Exponents
<1>2. a \in Exponents /\ a + 0 = a
  BY PowerStep DEF Exponents
<1>3. CASE Bad = {}
  BY <1>3
<1>4. CASE Bad # {}
  <2>1. Bad \subseteq Nat
    OBVIOUS
  <2>2. PICK j \in Bad : \A i \in Bad : j <= i
    <3> HIDE DEF Bad
    <3> QED BY <1>4, <2>1, LeastNat
  <2>3. 2^a * 2^0 = 2^(a + 0)
    BY <1>2, PowerStep
  <2>4. j \in 1..b /\ j - 1 \in 0..b
    <3>1. j \in 0..b /\ 2^(a + j) # 2^a * 2^j
      BY <2>2
    <3>2. j # 0
      <4>1. SUFFICES ASSUME j = 0 PROVE FALSE
        OBVIOUS
      <4> QED BY <2>3, <3>1, <4>1
    <3> QED BY <3>1, <3>2
  <2>5. ~(j <= j - 1)
    BY <2>4
  <2>6. j - 1 \notin Bad
    <3> HIDE DEF Bad
    <3> QED BY <2>2, <2>5
  <2>7. 2^(a + (j - 1)) = 2^a * 2^(j - 1)
    BY <2>4, <2>6
  <2>8. /\ (a + (j - 1)) + 1 = a + j /\ (j - 1) + 1 = j
        /\ j - 1 \in Exponents /\ a + (j - 1) \in Exponents
    BY <1>1, <2>4
  <2>9. 2^(a + j) = 2 * 2^(a + (j - 1)) /\ 2^j = 2 * 2^(j - 1)
    BY <2>8, PowerStep
  <2>10. 2^a \in Nat /\ 2^(j - 1) \in Nat
    BY <1>2, <2>8, PowerStep
  <2>11. 2 * (2^a * 2^(j - 1)) = 2^a * (2 * 2^(j - 1))
    BY <2>10
  <2>12. 2^(a + j) = 2^a * 2^j
    BY <2>7, <2>9, <2>11
  <2> QED BY <2>2, <2>12
<1> QED BY <1>3, <1>4

LEMMA QuotientBelow ==
    ASSUME NEW m \in Nat, NEW p \in Nat \ {0}, NEW q \in Nat
    PROVE  (m \div p < q) <=> (m < q * p)
<1> DEFINE d == m \div p
<1>1. d \in Nat /\ d * p <= m /\ m < (d + 1) * p
  OBVIOUS
<1> HIDE DEF d
<1>2. CASE d < q
  <2>1. (d + 1) * p <= q * p
    BY <1>1, <1>2
  <2>2. (d + 1) * p \in Nat /\ q * p \in Nat
    BY <1>1
  <2> QED BY <1>1, <1>2, <2>1, <2>2 DEF d
<1>3. CASE d >= q
  <2>1. q * p <= d * p
    BY <1>1, <1>3
  <2>2. d * p \in Nat /\ q * p \in Nat
    BY <1>1
  <2> QED BY <1>1, <1>3, <2>1, <2>2 DEF d
<1> QED BY <1>1, <1>2, <1>3

(* The shift of normalize_sums, told by the powers of two that m lies between.*)
LEMMA NormShiftIs ==
    ASSUME NEW m \in Nat, NEW k \in 0..MAX_SHIFT
    PROVE  IsNormShift(m, k) <=> /\ m < 2^(NORM_BITS + k)
                                 /\ k = 0 \/ m >= 2^(NORM_BITS + (k - 1))
<1> DEFINE Below(j) == m \div 2^j < 2^NORM_BITS
<1>1. \A j \in 0..MAX_SHIFT : Below(j) <=> m < 2^(NORM_BITS + j)
  <2> TAKE j \in 0..MAX_SHIFT
  <2>1. /\ NORM_BITS \in Nat /\ j \in Nat /\ NORM_BITS \in Exponents /\ j \in Exponents
        /\ NORM_BITS + j \in Exponents
    BY PowerStep DEF Exponents
  <2>2. 2^j \in Nat \ {0} /\ 2^NORM_BITS \in Nat
    BY <2>1, PowerStep
  <2>3. 2^(NORM_BITS + j) = 2^NORM_BITS * 2^j
    BY <2>1, PowerSum
  <2> QED BY <2>2, <2>3, QuotientBelow
<1>2. \A j \in 0..MAX_SHIFT : m \div 2^j \in Nat /\ 2^NORM_BITS \in Nat
                             /\ 2^(NORM_BITS + j) \in Nat
  <2> TAKE j \in 0..MAX_SHIFT
  <2>1. j \in Exponents /\ NORM_BITS \in Exponents /\ NORM_BITS + j \in Exponents
    BY PowerStep DEF Exponents
  <2>2. 2^j \in Nat \ {0} /\ 2^NORM_BITS \in Nat /\ 2^(NORM_BITS + j) \in Nat
    BY <2>1, PowerStep
  <2> QED BY <2>2
<1>3. CASE k = 0
  BY <1>1, <1>3 DEF IsNormShift
<1>4. CASE k # 0
  <2>1. k - 1 \in 0..MAX_SHIFT
    BY <1>4, PowerStep
  <2> QED BY <1>1, <1>2, <1>4, <2>1 DEF IsNormShift
<1> QED BY <1>3, <1>4
=============================================================================
