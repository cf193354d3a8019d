--------------------------- MODULE MCTwapHistory ---------------------------
EXTENDS TwapHistory, TLC
Of(owner, side, price, size) ==
    [owner |-> owner, side |-> side, price |-> price, size |-> size]

(* Two bids far apart and an ask: the mid is 4 or 6, or there is none. *)
MCTwap == {Of("a", "Bid", 1, 1), Of("a", "Bid", 5, 1), Of("b", "Ask", 7, 1)}
=============================================================================
