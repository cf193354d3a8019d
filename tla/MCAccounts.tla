----------------------------- MODULE MCAccounts -----------------------------
EXTENDS Accounts, TLC
MCRates == {[n |-> 1, d |-> 1], [n |-> 2, d |-> 1]}
MCFlat == {[n |-> 1, d |-> 1]}
MCFacing == {<<1, "Long">>, <<2, "Short">>}
MCOne == {<<1, "Long">>}
MCShort == {<<1, "Short">>}
MCBothSides == {<<1, "Long">>, <<1, "Short">>}
=============================================================================
