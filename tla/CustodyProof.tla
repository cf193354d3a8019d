---------------------------- MODULE CustodyProof ----------------------------
(* The custody specification keeps its books, for every number of users,      *)
(* every width and every sequence of deposits, payouts and seizures.          *)
EXTENDS Custody, SettlementProof

LEMMA LedgerType ==
    ASSUME TypeOK, NEW u \in Users
    PROVE  ledger(u) \in LedgerRecord
  BY DEF TypeOK, ledger, Ledger, LedgerRecord, U64

LEMMA UsersFacts == NumUsers \in Nat /\ Users = 1..NumUsers
  BY UsersAssumption DEF Users

(* Replacing one user's ledger moves the total by that user's difference. *)
LEMMA TotalUpdate ==
    ASSUME TypeOK, NEW u \in Users, NEW v \in Int
    PROVE  SumUpTo([deposited EXCEPT ![u] = v], NumUsers)
             = SumUpTo(deposited, NumUsers) - deposited[u] + v
<1>1. deposited \in [1..NumUsers -> Int]
  BY UsersFacts DEF TypeOK, U64
<1>2. QED
  BY <1>1, UsersFacts, SumUpdate

LEMMA WalletUpdate ==
    ASSUME TypeOK, NEW u \in Users, NEW v \in Int
    PROVE  SumUpTo([wallet EXCEPT ![u] = v], NumUsers)
             = SumUpTo(wallet, NumUsers) - wallet[u] + v
<1>1. wallet \in [1..NumUsers -> Int]
  BY UsersFacts DEF TypeOK
<1>2. QED
  BY <1>1, UsersFacts, SumUpdate

LEMMA TotalsType ==
    ASSUME TypeOK
    PROVE  SumUpTo(deposited, NumUsers) \in Int /\ SumUpTo(wallet, NumUsers) \in Int
<1>1. deposited \in [1..NumUsers -> Int] /\ wallet \in [1..NumUsers -> Int]
  BY UsersFacts DEF TypeOK, U64
<1>2. QED
  BY <1>1, UsersFacts, SumType

-----------------------------------------------------------------------------
(* Every balance stays a u64 and no wallet or vault is overdrawn. *)
LEMMA InitType == Init => TypeOK
  BY FundsAssumption, WidthAssumption DEF Init, TypeOK, U64

LEMMA NextType == TypeOK /\ [Next]_vars => TypeOK'
<1> SUFFICES ASSUME TypeOK, [Next]_vars PROVE TypeOK'
  OBVIOUS
<1>1. ASSUME NEW u \in Users, NEW amount \in U64, Deposit(u, amount) PROVE TypeOK'
  <2> DEFINE l == claim_payout(ledger(u))
  <2>1. l \in LedgerRecord /\ l.pool <= pnl_pool /\ l.claimable <= claimable[u]
    BY LedgerType, ClaimPayoutConserves DEF ledger, Ledger
  <2>2. l.deposited + amount \in U64 /\ l.claimable \in U64 /\ l.pool \in U64
    BY <1>1, <2>1, WidthAssumption DEF Deposit, LedgerRecord, TypeOK, U64
  <2>3. wallet[u] - amount \in Nat /\ vault + amount \in Nat
    BY <1>1 DEF Deposit, TypeOK, U64
  <2> HIDE DEF l
  <2>4. QED
    BY <1>1, <2>2, <2>3 DEF Deposit, TypeOK, l
<1>2. ASSUME NEW u \in Users, NEW amount \in U64, Withdraw(u, amount) PROVE TypeOK'
  <2> DEFINE l == claim_payout(ledger(u))
  <2>1. l \in LedgerRecord /\ l.pool <= pnl_pool /\ l.claimable <= claimable[u]
    BY LedgerType, ClaimPayoutConserves DEF ledger, Ledger
  <2>2. l.deposited - amount \in U64 /\ l.claimable \in U64 /\ l.pool \in U64
    BY <1>2, <2>1, WidthAssumption DEF Withdraw, LedgerRecord, TypeOK, U64
  <2>3. wallet[u] + amount \in Nat /\ vault - amount \in Nat
    BY <1>2 DEF Withdraw, TypeOK, U64
  <2> HIDE DEF l
  <2>4. QED
    BY <1>2, <2>2, <2>3 DEF Withdraw, TypeOK, l
<1>3. ASSUME NEW u \in Users, NEW payment \in Payments, Settle(u, payment) PROVE TypeOK'
  <2> DEFINE l == settle_signed(ledger(u), payment)
  <2>1. payment \in Int
    BY WidthAssumption DEF Payments
  <2>2. l \in LedgerRecord /\ fits(l)
    BY <1>3, <2>1, LedgerType, SettleSignedConserves DEF Settle, settle_signed_ok
  <2>3. l.deposited \in U64 /\ l.claimable \in U64 /\ l.pool \in U64
    BY <2>2 DEF LedgerRecord, fits, U64
  <2> HIDE DEF l
  <2>4. QED
    BY <1>3, <2>3 DEF Settle, TypeOK, l
<1>4. ASSUME NEW u \in Users, NEW v \in Users, NEW loss \in U64, NEW reward \in U64,
             Seize(u, v, loss, reward)
      PROVE  TypeOK'
  <2>1. /\ deposited[v] - loss - reward \in U64 /\ deposited[u] + reward \in U64
        /\ pnl_pool + loss \in U64
    BY <1>4, WidthAssumption DEF Seize, TypeOK, U64
  <2>2. QED
    BY <1>4, <2>1 DEF Seize, TypeOK
<1>5. ASSUME UNCHANGED vars PROVE TypeOK'
  BY <1>5 DEF vars, TypeOK
<1>6. QED
  BY <1>1, <1>2, <1>3, <1>4, <1>5 DEF Next

(* Custody keeps its types. *)
THEOREM TypeSafety == Spec => []TypeOK
<1>1. QED
  BY InitType, NextType, PTL DEF Spec
-----------------------------------------------------------------------------
(* The books balance initially: everything is zero. *)
LEMMA InitBalanced == Init => Conservation /\ ClosedSupply
<1> SUFFICES ASSUME Init PROVE Conservation /\ ClosedSupply
  OBVIOUS
<1>1. SumUpTo(deposited, NumUsers) = 0
  BY UsersFacts, SumOfZeros DEF Init
<1>2. SumUpTo(wallet, NumUsers) = NumUsers * FUNDS
  BY UsersFacts, FundsAssumption, SumOfConstant DEF Init, U64
<1>3. QED
  BY <1>1, <1>2, UsersFacts, FundsAssumption DEF Init, Conservation, ClosedSupply, U64

LEMMA NextBalanced ==
    TypeOK /\ Conservation /\ ClosedSupply /\ [Next]_vars
      => Conservation' /\ ClosedSupply'
<1> SUFFICES ASSUME TypeOK, Conservation, ClosedSupply, [Next]_vars
             PROVE  Conservation' /\ ClosedSupply'
  OBVIOUS
<1>0. /\ SumUpTo(deposited, NumUsers) \in Int /\ SumUpTo(wallet, NumUsers) \in Int
      /\ vault \in Int /\ pnl_pool \in Int /\ NumUsers * FUNDS \in Int
      /\ \A u \in Users : deposited[u] \in Int /\ wallet[u] \in Int
  BY TotalsType, UsersFacts, FundsAssumption, WidthAssumption DEF TypeOK, U64
<1>1. ASSUME NEW u \in Users, NEW amount \in U64, Deposit(u, amount)
      PROVE  Conservation' /\ ClosedSupply'
  <2> DEFINE l == claim_payout(ledger(u))
  <2>1. l \in LedgerRecord /\ l.deposited + l.pool = deposited[u] + pnl_pool
    BY LedgerType, ClaimPayoutConserves DEF ledger, Ledger
  <2>2. /\ l.deposited \in Int /\ l.pool \in Int /\ amount \in Int
        /\ l.deposited + amount \in Int /\ wallet[u] - amount \in Int
    BY <1>0, <2>1 DEF LedgerRecord, U64
  <2>3. /\ deposited' = [deposited EXCEPT ![u] = l.deposited + amount]
        /\ wallet' = [wallet EXCEPT ![u] = wallet[u] - amount]
        /\ vault' = vault + amount /\ pnl_pool' = l.pool
    BY <1>1 DEF Deposit
  <2> HIDE DEF l
  <2>4. SumUpTo(deposited', NumUsers)
          = SumUpTo(deposited, NumUsers) - deposited[u] + (l.deposited + amount)
    BY <2>2, <2>3, TotalUpdate
  <2>5. SumUpTo(wallet', NumUsers)
          = SumUpTo(wallet, NumUsers) - wallet[u] + (wallet[u] - amount)
    BY <2>2, <2>3, WalletUpdate
  <2>6. Conservation'
    BY <1>0, <2>1, <2>2, <2>3, <2>4 DEF Conservation
  <2>7. ClosedSupply'
    BY <1>0, <2>2, <2>3, <2>5 DEF ClosedSupply
  <2>8. QED
    BY <2>6, <2>7
<1>2. ASSUME NEW u \in Users, NEW amount \in U64, Withdraw(u, amount)
      PROVE  Conservation' /\ ClosedSupply'
  <2> DEFINE l == claim_payout(ledger(u))
  <2>1. l \in LedgerRecord /\ l.deposited + l.pool = deposited[u] + pnl_pool
    BY LedgerType, ClaimPayoutConserves DEF ledger, Ledger
  <2>2. /\ l.deposited \in Int /\ l.pool \in Int /\ amount \in Int
        /\ l.deposited - amount \in Int /\ wallet[u] + amount \in Int
    BY <1>0, <2>1 DEF LedgerRecord, U64
  <2>3. /\ deposited' = [deposited EXCEPT ![u] = l.deposited - amount]
        /\ wallet' = [wallet EXCEPT ![u] = wallet[u] + amount]
        /\ vault' = vault - amount /\ pnl_pool' = l.pool
    BY <1>2 DEF Withdraw
  <2> HIDE DEF l
  <2>4. SumUpTo(deposited', NumUsers)
          = SumUpTo(deposited, NumUsers) - deposited[u] + (l.deposited - amount)
    BY <2>2, <2>3, TotalUpdate
  <2>5. SumUpTo(wallet', NumUsers)
          = SumUpTo(wallet, NumUsers) - wallet[u] + (wallet[u] + amount)
    BY <2>2, <2>3, WalletUpdate
  <2>6. Conservation'
    BY <1>0, <2>1, <2>2, <2>3, <2>4 DEF Conservation
  <2>7. ClosedSupply'
    BY <1>0, <2>2, <2>3, <2>5 DEF ClosedSupply
  <2>8. QED
    BY <2>6, <2>7
<1>3. ASSUME NEW u \in Users, NEW payment \in Payments, Settle(u, payment)
      PROVE  Conservation' /\ ClosedSupply'
  <2> DEFINE l == settle_signed(ledger(u), payment)
  <2>1. payment \in Int
    BY WidthAssumption DEF Payments
  <2>2. l \in LedgerRecord /\ l.deposited + l.pool = deposited[u] + pnl_pool
    BY <2>1, LedgerType, SettleSignedConserves DEF ledger, Ledger
  <2>3. l.deposited \in Int /\ l.pool \in Int
    BY <2>2 DEF LedgerRecord
  <2>4. /\ deposited' = [deposited EXCEPT ![u] = l.deposited]
        /\ wallet' = wallet /\ vault' = vault /\ pnl_pool' = l.pool
    BY <1>3 DEF Settle
  <2> HIDE DEF l
  <2>5. SumUpTo(deposited', NumUsers)
          = SumUpTo(deposited, NumUsers) - deposited[u] + l.deposited
    BY <2>3, <2>4, TotalUpdate
  <2>6. QED
    BY <1>0, <2>2, <2>3, <2>4, <2>5 DEF Conservation, ClosedSupply
<1>4. ASSUME NEW u \in Users, NEW v \in Users, NEW loss \in U64, NEW reward \in U64,
             Seize(u, v, loss, reward)
      PROVE  Conservation' /\ ClosedSupply'
  <2> DEFINE kept  == deposited[v] - loss - reward
             taken == [deposited EXCEPT ![v] = kept]
             paid  == taken[u] + reward
  <2>1. /\ u # v /\ wallet' = wallet /\ vault' = vault /\ pnl_pool' = pnl_pool + loss
        /\ deposited' = [deposited EXCEPT ![v] = @ - loss - reward, ![u] = @ + reward]
    BY <1>4 DEF Seize
  <2>2. loss \in Int /\ reward \in Int /\ kept \in Int
    BY <1>0 DEF U64
  <2>3. deposited \in [1..NumUsers -> Int] /\ u \in 1..NumUsers /\ v \in 1..NumUsers
    BY UsersFacts DEF TypeOK, U64
  <2>4. taken \in [1..NumUsers -> Int] /\ taken[u] = deposited[u]
    BY <2>1, <2>2, <2>3
  <2>5. deposited' = [taken EXCEPT ![u] = paid]
    BY <2>1, <2>3, <2>4
  <2>6. paid \in Int
    BY <2>2, <2>3, <2>4
  <2>7. SumUpTo(taken, NumUsers) = SumUpTo(deposited, NumUsers) - deposited[v] + kept
    BY <2>2, TotalUpdate
  <2> HIDE DEF taken, paid
  <2>8. SumUpTo(deposited', NumUsers) = SumUpTo(taken, NumUsers) - taken[u] + paid
    BY <2>3, <2>4, <2>5, <2>6, UsersFacts, SumUpdate
  <2>9. paid = taken[u] + reward
    BY DEF paid
  <2>10. SumUpTo(deposited', NumUsers) = SumUpTo(deposited, NumUsers) - loss
    <3>1. taken[u] \in Int /\ deposited[v] \in Int
      BY <1>0, <2>4
    <3>2. kept = deposited[v] - loss - reward
      OBVIOUS
    <3> HIDE DEF kept
    <3>3. QED
      BY <1>0, <2>2, <2>7, <2>8, <2>9, <3>1, <3>2
  <2>11. QED
    BY <1>0, <2>1, <2>2, <2>10 DEF Conservation, ClosedSupply
<1>5. ASSUME UNCHANGED vars PROVE Conservation' /\ ClosedSupply'
  BY <1>5 DEF vars, Conservation, ClosedSupply
<1>6. QED
  BY <1>1, <1>2, <1>3, <1>4, <1>5 DEF Next

(* settlement.rs: payments only move value between the ledgers and the pool,  *)
(* so every token in the vault stays accounted for.                           *)
THEOREM BooksBalance == Spec => []Conservation
<1>1. QED
  BY InitType, NextType, InitBalanced, NextBalanced, PTL DEF Spec

(* The same induction: the users' tokens and the vault's add up for ever. *)
THEOREM SupplyIsClosed == Spec => []ClosedSupply
<1>1. QED
  BY InitType, NextType, InitBalanced, NextBalanced, PTL DEF Spec
=============================================================================
