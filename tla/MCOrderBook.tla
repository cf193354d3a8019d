---------------------------- MODULE MCOrderBook ----------------------------
EXTENDS OrderBook, TLC
Of(owner, side, price, size) ==
    [owner |-> owner, side |-> side, price |-> price, size |-> size]

(* Three traders, two prices and market orders on both sides. *)
MCBook ==
    {Of("a", "Bid", 2, 2), Of("a", "Ask", 2, 1), Of("b", "Ask", 1, 1),
     Of("b", "Ask", 2, 1), Of("c", "Bid", 0, 2), Of("c", "Ask", 1, 1), Of("b", "Bid", 2, 2)}
(* Makers for a deep bid, and orders whose cancellation fills the ring. *)
MCRing == {Of("b", "Ask", 2, 1), Of("a", "Bid", 2, 4), Of("a", "Bid", 1, 1)}
=============================================================================
