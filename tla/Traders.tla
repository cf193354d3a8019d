------------------------------ MODULE Traders ------------------------------
(* Who holds a ledger and what each brings: common to the abstract custody    *)
(* specification and to the accounts that implement it.                       *)
EXTENDS Settlement, Sums

CONSTANTS
    NumUsers,          \* users are 1..NumUsers
    FUNDS              \* tokens each user holds before the market opens

ASSUME UsersAssumption == NumUsers \in Nat \ {0}
ASSUME FundsAssumption == FUNDS \in U64

Users == 1..NumUsers
=============================================================================
