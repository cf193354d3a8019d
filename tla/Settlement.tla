---------------------------- MODULE Settlement ----------------------------
(* settlement.rs and collateral.rs: how value moves between one user's        *)
(* ledger and the market's PnL pool.  A ledger is [deposited, claimable,      *)
(* pool]; each operator returns its next value.  The u64 bounds on the result *)
(* are `fits`, which every caller requires (a failed checked_add aborts the   *)
(* transaction).                                                              *)
EXTENDS FixedPoint

Ledger(deposited, claimable, pool) ==
    [deposited |-> deposited, claimable |-> claimable, pool |-> pool]

MutFits(l) == l.deposited <= U64_MAX /\ l.pool <= U64_MAX   \* claims unchecked
fits(l) == l.deposited <= U64_MAX /\ l.claimable <= U64_MAX /\ l.pool <= U64_MAX

(* A loser's debit is collected, clamped at what the ledger holds. *)
apply_debit(l, debit) ==
    LET collected == MinOf(debit, l.deposited)
    IN  [deposited |-> l.deposited - collected,
         claimable |-> l.claimable,
         pool |-> l.pool + collected]

(* A winner is paid what the pool holds; the rest becomes a pending claim.    *)
(* MutApplyCredit pays in full, whatever the pool holds.                      *)
MutApplyCredit(l, credit) ==
    [l EXCEPT !.deposited = @ + credit, !.pool = @ - MinOf(credit, @)]
apply_credit(l, credit) ==
    LET paid == MinOf(credit, l.pool)
    IN  [deposited |-> l.deposited + paid,
         claimable |-> l.claimable + (credit - paid),
         pool |-> l.pool - paid]

(* A pending claim becomes deposited collateral as far as the pool reaches;   *)
(* MutClaimPayout drops what the pool cannot pay.                             *)
MutClaimPayout(l) ==
    LET pay == MinOf(l.claimable, l.pool)
    IN  [deposited |-> l.deposited + pay, claimable |-> 0, pool |-> l.pool - pay]
claim_payout(l) ==
    LET pay == MinOf(l.claimable, l.pool)
    IN  [deposited |-> l.deposited + pay,
         claimable |-> l.claimable - pay,
         pool |-> l.pool - pay]

(* Route a signed payment: a debit when it is not positive, else a credit. *)
settle_signed(l, payment) ==
    IF payment <= 0 THEN apply_debit(l, MinOf(-payment, U64_MAX))
    ELSE apply_credit(l, payment)
settle_signed_ok(l, payment) == payment <= U64_MAX /\ fits(settle_signed(l, payment))

(* The part of a liquidated position's loss its ledger can still pay, after   *)
(* the other positions' backing and the liquidator's reward;                  *)
(* MutLossTakesBacking forgets the backing.                                   *)
LiquidationSeam(deposited, reserved_after, reward) == deposited - reserved_after - reward
MutLossTakesBacking(deposited, reserved_after, loss, reward) ==
    MinOf(loss, deposited - reward)
apply_liquidation_loss(deposited, reserved_after, loss, reward) ==
    MinOf(loss, LiquidationSeam(deposited, reserved_after, reward))
apply_liquidation_loss_ok(deposited, reserved_after, reward) ==
    LiquidationSeam(deposited, reserved_after, reward) >= 0

free_collateral_ok(deposited, reserved) == reserved <= deposited
withdraw_ok(deposited, reserved, amount) ==
    free_collateral_ok(deposited, reserved) /\ amount <= deposited - reserved
=============================================================================
