-------------------------------- MODULE Twap --------------------------------
(* The ring of mid-price observations: what a book mutation records in it     *)
(* (lib.rs) and the time-weighted mid read from it (orderbook.rs).  The u128  *)
(* accumulator saturates only after 2^64 slots at the highest price, and is   *)
(* an unbounded natural here.                                                 *)
EXTENDS Integers

CONSTANT TWAP_OBSERVATIONS      \* length of the ring
ASSUME TwapAssumption == TWAP_OBSERVATIONS \in Nat \ {0}

NoMid == 0                      \* a side of the book is empty
NoTwap == -1
ObservationSlots == 0..(TWAP_OBSERVATIONS - 1)
Observation == [slot : Nat, mid : Nat, cumulative_mid : Nat]
EmptyRing == [i \in ObservationSlots |-> [slot |-> 0, mid |-> NoMid, cumulative_mid |-> 0]]

(* Iterator::max_by_key keeps the last of equal maxima, min_by_key the first  *)
(* of equal minima.                                                           *)
max_by_slot(obs, I) ==
    CHOOSE i \in I : \A j \in I : \/ obs[j].slot < obs[i].slot
                                  \/ obs[j].slot = obs[i].slot /\ j <= i
min_by_slot(obs, I) ==
    CHOOSE i \in I : \A j \in I : \/ obs[j].slot > obs[i].slot
                                  \/ obs[j].slot = obs[i].slot /\ j >= i

Written(obs) == {i \in ObservationSlots : obs[i].slot # 0}
last_observation(obs) == obs[max_by_slot(obs, Written(obs))]

(* The interval since the last observation is charged at the mid it recorded, *)
(* or not at all when the new mid is undefined; MutElapsed charges the whole  *)
(* time since genesis.                                                        *)
MutElapsed(last, now) == now
Elapsed(last, now) == IF now > last.slot THEN now - last.slot ELSE 0
contribution(last, mid, now) == IF mid = NoMid THEN 0 ELSE last.mid * Elapsed(last, now)
record_observation(obs, idx, mid, now) ==
    [obs EXCEPT ![idx] =
       [slot |-> now, mid |-> mid,
        cumulative_mid |->
          IF Written(obs) = {} THEN 0
          ELSE LET last == last_observation(obs)
               IN  last.cumulative_mid + contribution(last, mid, now)]]

(* A value of the accumulator between two observations; TRUE or FALSE in .ok  *)
(* for Some and None.                                                         *)
None == [ok |-> FALSE, cum |-> 0]
Some(cum) == [ok |-> TRUE, cum |-> cum]
interpolate(lo, hi, slot) ==
    IF hi.slot <= lo.slot \/ hi.cumulative_mid < lo.cumulative_mid THEN None
    ELSE Some(lo.cumulative_mid
              + ((hi.cumulative_mid - lo.cumulative_mid) * (slot - lo.slot))
                  \div (hi.slot - lo.slot))

(* Unwritten entries take part here, as observations of slot 0. *)
cumulative_at(obs, slot) ==
    LET exact   == {i \in ObservationSlots : obs[i].slot = slot}
        before  == {i \in ObservationSlots : obs[i].slot < slot}
        after   == {i \in ObservationSlots : obs[i].slot > slot}
        lo      == obs[max_by_slot(obs, before)]
        earlier == {i \in ObservationSlots : obs[i].slot < lo.slot}
    IN  CASE exact # {} -> Some(obs[CHOOSE i \in exact : \A j \in exact : i <= j].cumulative_mid)
          [] exact = {} /\ before = {} -> None
          [] exact = {} /\ before # {} /\ after # {} ->
               interpolate(lo, obs[min_by_slot(obs, after)], slot)
          [] exact = {} /\ before # {} /\ after = {} ->
               IF earlier = {} THEN None
               ELSE interpolate(obs[max_by_slot(obs, earlier)], lo, slot)

twap(obs, window, now) ==
    LET cum_now   == cumulative_at(obs, now)
        cum_start == cumulative_at(obs, now - window)
    IN  IF \/ window = 0 \/ now < window
           \/ ~cum_now.ok \/ ~cum_start.ok \/ cum_now.cum < cum_start.cum
        THEN NoTwap
        ELSE (cum_now.cum - cum_start.cum) \div window
=============================================================================
