---------------------------- MODULE TwapHistory ----------------------------
(* The order book with a history variable: the highest mid the book has had.  *)
(* It is written by every step and read by none, so the book behaves as in    *)
(* OrderBook; the bound of the reference price is stated with it.             *)
EXTENDS OrderBook

VARIABLE highest_mid            \* history variable

varsWithHistory == <<vars, highest_mid>>

Higher(a, b) == IF a >= b THEN a ELSE b

HInit == Init /\ highest_mid = NoMid
HNext == Next /\ highest_mid' = Higher(highest_mid, mid(book'))
HSpec == HInit /\ [][HNext]_varsWithHistory

(* The reference price a liquidation may rest on never exceeds the highest    *)
(* mid the book has had: no interval is charged twice, none before the first  *)
(* observation, and no entry of the ring that was written over or ties with   *)
(* another adds to it (orderbook.rs, twap; lib.rs, record_observation).       *)
TwapBounded == twap(observations, LIQUIDATION_TWAP_WINDOW, slot) <= highest_mid

=============================================================================
