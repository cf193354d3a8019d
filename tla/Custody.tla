------------------------------ MODULE Custody ------------------------------
(* The abstract specification of what the program promises about money: the   *)
(* vault's tokens, the market's PnL pool and the users' ledgers, with nothing *)
(* said of positions, prices or the book.  A settlement may move any signed   *)
(* amount between one ledger and the pool; tokens enter only by a deposit and *)
(* leave only by a withdrawal.                                                *)
EXTENDS Traders

VARIABLES
    wallet,            \* a user's own token account (external)
    vault,             \* the vault's token account (external)
    deposited, claimable,   \* UserCollateral, per user
    pnl_pool           \* PerpMarket.pnl_pool

vars == <<wallet, vault, deposited, claimable, pnl_pool>>

ledger(u) == Ledger(deposited[u], claimable[u], pnl_pool)

TypeOK ==
    /\ wallet \in [Users -> Nat] /\ vault \in Nat
    /\ deposited \in [Users -> U64] /\ claimable \in [Users -> U64]
    /\ pnl_pool \in U64

Init ==
    /\ wallet = [u \in Users |-> FUNDS]
    /\ vault = 0
    /\ deposited = [u \in Users |-> 0]
    /\ claimable = [u \in Users |-> 0]
    /\ pnl_pool = 0

Deposit(u, amount) ==
    LET l == claim_payout(ledger(u))
    IN  /\ amount > 0 /\ amount <= wallet[u]
        /\ l.deposited + amount <= U64_MAX
        /\ wallet' = [wallet EXCEPT ![u] = @ - amount]
        /\ vault' = vault + amount
        /\ deposited' = [deposited EXCEPT ![u] = l.deposited + amount]
        /\ claimable' = [claimable EXCEPT ![u] = l.claimable]
        /\ pnl_pool' = l.pool

Withdraw(u, amount) ==
    LET l == claim_payout(ledger(u))
    IN  /\ amount > 0 /\ amount <= l.deposited /\ amount <= vault
        /\ l.deposited <= U64_MAX
        /\ wallet' = [wallet EXCEPT ![u] = @ + amount]
        /\ vault' = vault - amount
        /\ deposited' = [deposited EXCEPT ![u] = l.deposited - amount]
        /\ claimable' = [claimable EXCEPT ![u] = l.claimable]
        /\ pnl_pool' = l.pool

Settle(u, payment) ==
    LET l == settle_signed(ledger(u), payment)
    IN  /\ settle_signed_ok(ledger(u), payment)
        /\ deposited' = [deposited EXCEPT ![u] = l.deposited]
        /\ claimable' = [claimable EXCEPT ![u] = l.claimable]
        /\ pnl_pool' = l.pool
        /\ UNCHANGED <<wallet, vault>>

(* A liquidation takes a loss into the pool and a reward to the liquidator. *)
Seize(liquidator, victim, loss, reward) ==
    /\ liquidator # victim
    /\ loss + reward <= deposited[victim]
    /\ pnl_pool + loss <= U64_MAX /\ deposited[liquidator] + reward <= U64_MAX
    /\ deposited' = [deposited EXCEPT ![victim] = @ - loss - reward,
                                      ![liquidator] = @ + reward]
    /\ pnl_pool' = pnl_pool + loss
    /\ UNCHANGED <<wallet, vault, claimable>>

(* A debit saturates at a u64 and a larger credit fails, so a payment beyond  *)
(* these does what one of these does, or nothing.                             *)
Payments == -U64_MAX..U64_MAX
Next ==
    \E u \in Users :
        \/ \E amount \in U64 : Deposit(u, amount) \/ Withdraw(u, amount)
        \/ \E payment \in Payments : Settle(u, payment)
        \/ \E v \in Users, loss, reward \in U64 : Seize(u, v, loss, reward)

Spec == Init /\ [][Next]_vars

-----------------------------------------------------------------------------
(* Every token in the vault is either some user's deposited collateral or in  *)
(* the PnL pool: no settlement, payout or liquidation mints or burns.         *)
Conservation == vault = pnl_pool + SumUpTo(deposited, NumUsers)

(* Tokens only move between the users' own accounts and the vault. *)
ClosedSupply == vault + SumUpTo(wallet, NumUsers) = NumUsers * FUNDS
=============================================================================
