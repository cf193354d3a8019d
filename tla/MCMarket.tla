------------------------------ MODULE MCMarket ------------------------------
EXTENDS Market, TLC
Setup(authority, mint, source) ==
    [authority |-> authority, collateral_mint |-> mint, index_source |-> source]
(* The second has a mint no vault can be made for, the third no stake pool.   *)
MCSetups == {Setup(1, 6, "jitoSOL"), Setup(2, 9, "jitoSOL"), Setup(1, 6, "forged")}
Of(owner, side, price, size) ==
    [owner |-> owner, side |-> side, price |-> price, size |-> size]
MCRequests == {Of(1, "Ask", 1, 1), Of(1, "Bid", 1, 1), Of(2, "Bid", 0, 1)}
MCOpenings == {Of(2, "Bid", 0, 1)}
MCRates == {[n |-> 1, d |-> 1], [n |-> 2, d |-> 1]}
MCOtherRate == [n |-> 3, d |-> 1]
=============================================================================
