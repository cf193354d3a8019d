------------------------------ MODULE SdkBook ------------------------------
(* The trader SDK's time-weighted mid (sdk/src/orderbook.ts), over the ring   *)
(* as decode.ts reads it from the account: every entry, unwritten ones too.   *)
EXTENDS Integers

null == [ok |-> FALSE, value |-> 0]
defined(x) == [ok |-> TRUE, value |-> x]

(* reduce keeps the first of equals, both ways. *)
first(I) == CHOOSE i \in I : \A j \in I : i <= j
latest(obs, I) == first({i \in I : \A j \in I : obs[j].slot <= obs[i].slot})
earliest(obs, I) == first({i \in I : \A j \in I : obs[j].slot >= obs[i].slot})

(* The accumulator between two observations. *)
Rise(lo, hi) == hi.cumulative_mid - lo.cumulative_mid
interpolate(lo, hi, slot) ==
    IF hi.slot <= lo.slot \/ slot < lo.slot \/ Rise(lo, hi) < 0 THEN null
    ELSE defined(lo.cumulative_mid + (Rise(lo, hi) * (slot - lo.slot)) \div (hi.slot - lo.slot))

(* An observation of that very slot, the line between two, or that of the     *)
(* last two continued.                                                        *)
cumulativeAt(obs, slot) ==
    LET hit    == {i \in DOMAIN obs : obs[i].slot = slot}
        before == {i \in DOMAIN obs : obs[i].slot < slot}
        after  == {i \in DOMAIN obs : obs[i].slot > slot}
        lo     == obs[latest(obs, before)]
        prev   == {i \in DOMAIN obs : obs[i].slot < lo.slot}
    IN  IF hit # {} THEN defined(obs[first(hit)].cumulative_mid)
        ELSE IF before = {} THEN null
        ELSE IF after # {} THEN interpolate(lo, obs[earliest(obs, after)], slot)
        ELSE IF prev = {} THEN null
        ELSE interpolate(obs[latest(obs, prev)], lo, slot)

twap(obs, windowSlots, nowSlot) ==
    LET now   == cumulativeAt(obs, nowSlot)
        start == cumulativeAt(obs, nowSlot - windowSlots)
        delta == now.value - start.value
    IN  IF windowSlots = 0 \/ nowSlot < windowSlots THEN null
        ELSE IF ~now.ok \/ ~start.ok \/ delta < 0 THEN null
        ELSE defined(delta \div windowSlots)
=============================================================================
