----------------------------- MODULE TwapProof -----------------------------
(* The reference price of a liquidation is bounded by the mids the book has   *)
(* had: whatever the ring has overwritten and wherever the window starts, the *)
(* difference of two readings of the accumulator is at most the highest of    *)
(* them times the slots between.  And the SDK reads the same price.           *)
EXTENDS BookProof, TwapHistory

-----------------------------------------------------------------------------
(* Floored divisions *)

LEMMA Quotient ==
    ASSUME NEW a \in Int, NEW d \in Nat \ {0}
    PROVE  /\ a \div d \in Int
           /\ d * (a \div d) <= a
           /\ a < (d * (a \div d)) + d
OBVIOUS

LEMMA DivAtMost ==
    ASSUME NEW a \in Int, NEW d \in Nat \ {0}, NEW k \in Int, a <= d * k
    PROVE  a \div d <= k
<1> DEFINE q == a \div d
<1>1. q \in Int /\ d * q <= a
  BY Quotient
<1> HIDE DEF q
<1>2. SUFFICES ASSUME q >= k + 1 PROVE FALSE
  BY <1>1 DEF q
<1>3. d * (q - k) >= d
  BY <1>1, <1>2, Z3
<1>4. d * (q - k) = d * q - d * k
  BY <1>1, Z3
<1>5. d * q \in Int /\ d * k \in Int
  BY <1>1
<1> QED BY <1>1, <1>3, <1>4, <1>5

LEMMA DivAtLeast ==
    ASSUME NEW a \in Int, NEW d \in Nat \ {0}, NEW k \in Int, d * k <= a
    PROVE  k <= a \div d
<1> DEFINE q == a \div d
<1>1. q \in Int /\ a < (d * q) + d
  BY Quotient
<1> HIDE DEF q
<1>2. SUFFICES ASSUME q <= k - 1 PROVE FALSE
  BY <1>1 DEF q
<1>3. d * (k - q) >= d
  BY <1>1, <1>2, Z3
<1>4. d * (k - q) = d * k - d * q
  BY <1>1, Z3
<1>5. d * q \in Int /\ d * k \in Int
  BY <1>1
<1> QED BY <1>1, <1>3, <1>4, <1>5

(* A segment that rises by D over d slots, by at most H each, read x slots    *)
(* after its start.                                                           *)
LEMMA Segment ==
    ASSUME NEW H \in Nat, NEW d \in Nat \ {0}, NEW D \in Nat, D <= H * d,
           NEW x \in Nat
    PROVE  /\ (D * x) \div d \in Nat
           /\ x <= d => D - ((D * x) \div d) <= H * (d - x)
           /\ x >= d => (D * x) \div d <= D + (H * (x - d))
           /\ \A y \in Nat : y <= x =>
                ((D * x) \div d) - ((D * y) \div d) <= H * (x - y)
<1>1. D * x \in Nat
  OBVIOUS
<1>2. (D * x) \div d \in Int
  BY <1>1
<1>3. (D * x) \div d \in Nat
  <2>1. d * 0 <= D * x
    BY <1>1
  <2>2. 0 <= (D * x) \div d
    BY <1>1, <2>1, DivAtLeast
  <2> QED BY <1>2, <2>2
<1>4. ASSUME x <= d PROVE D - ((D * x) \div d) <= H * (d - x)
  <2> DEFINE y == d - x
             h == H * y
  <2>1. y \in Nat /\ h \in Nat /\ x = d - y
    BY <1>4
  <2>2. D * y <= (H * d) * y
    BY <2>1, Z3
  <2>3. (H * d) * y = d * h
    BY <2>1, Z3
  <2>4. D * x = D * d - D * y
    BY <2>1, Z3
  <2>5. d * (D - h) = D * d - d * h
    BY <2>1, Z3
  <2>6. D * y \in Int /\ d * h \in Int /\ D * d \in Int
    BY <2>1
  <2>7. d * (D - h) <= D * x
    BY <1>1, <2>2, <2>3, <2>4, <2>5, <2>6
  <2> HIDE DEF h, y
  <2>8. D - h <= (D * x) \div d
    BY <1>1, <2>1, <2>7, DivAtLeast
  <2>9. h = H * (d - x)
    BY DEF h, y
  <2> QED BY <1>2, <2>1, <2>8, <2>9
<1>5. ASSUME x >= d PROVE (D * x) \div d <= D + (H * (x - d))
  <2> DEFINE y == x - d
             h == H * y
  <2>1. y \in Nat /\ h \in Nat /\ x = d + y
    BY <1>5
  <2>2. D * y <= (H * d) * y
    BY <2>1, Z3
  <2>3. (H * d) * y = d * h
    BY <2>1, Z3
  <2>4. D * x = D * d + D * y
    BY <2>1, Z3
  <2>5. d * (D + h) = D * d + d * h
    BY <2>1, Z3
  <2>6. D * y \in Int /\ d * h \in Int /\ D * d \in Int
    BY <2>1
  <2>7. D * x <= d * (D + h)
    BY <1>1, <2>2, <2>3, <2>4, <2>5, <2>6
  <2> HIDE DEF h, y
  <2>8. (D * x) \div d <= D + h
    BY <1>1, <2>1, <2>7, DivAtMost
  <2>9. h = H * (x - d)
    BY DEF h, y
  <2> QED BY <2>8, <2>9
<1>6. ASSUME NEW y \in Nat, y <= x
      PROVE  ((D * x) \div d) - ((D * y) \div d) <= H * (x - y)
  <2> DEFINE w == x - y
             h == H * w
             q == (D * y) \div d
  <2>1. w \in Nat /\ h \in Nat /\ x = y + w /\ D * y \in Nat
    BY <1>6
  <2>2. q \in Int /\ D * y < (d * q) + d
    BY <2>1, Quotient
  <2> HIDE DEF q
  <2>3. D * w <= (H * d) * w
    BY <2>1, Z3
  <2>4. (H * d) * w = d * h
    BY <2>1, Z3
  <2>5. D * x = D * y + D * w
    BY <2>1, Z3
  <2> DEFINE p == (D * x) \div d
  <2>6. p \in Int /\ d * p <= D * x
    BY <1>1, Quotient
  <2> HIDE DEF p
  <2>7. SUFFICES ASSUME p >= q + h + 1 PROVE FALSE
    <3>1. h = H * (x - y)
      OBVIOUS
    <3> HIDE DEF h
    <3> QED BY <2>1, <2>2, <2>6, <3>1, <2>7 DEF p, q
  <2>8. d * p >= d * (q + h + 1)
    <3> HIDE DEF h
    <3> QED BY <2>1, <2>2, <2>6, <2>7, Z3
  <2>9. d * (q + h + 1) = ((d * q) + (d * h)) + d
    <3> HIDE DEF h
    <3> QED BY <2>1, <2>2, Z3
  <2>10. D * w \in Int /\ d * h \in Int /\ d * q \in Int /\ d * p \in Int
    BY <2>1, <2>2, <2>6
  <2> HIDE DEF w, h
  <2> QED BY <1>1, <2>1, <2>2, <2>3, <2>4, <2>5, <2>6, <2>8, <2>9, <2>10
<1> QED BY <1>3, <1>4, <1>5, <1>6

(* Two stretches bounded by H a slot, one after the other. *)
LEMMA Stretches ==
    ASSUME NEW H \in Nat, NEW a \in Int, NEW b \in Int, NEW c \in Int
    PROVE  (H * (a - b)) + (H * (b - c)) = H * (a - c)
BY Z3

-----------------------------------------------------------------------------
(* The ring of observations *)

(* No interval is charged at more than H a slot: between any two entries,     *)
(* unwritten ones included, the accumulator rises by that at most.            *)
Climbs(H, from, to) ==
    /\ from.cumulative_mid <= to.cumulative_mid
    /\ to.cumulative_mid - from.cumulative_mid <= H * (to.slot - from.slot)
Sound(obs, H, now) ==
    /\ obs \in [ObservationSlots -> Observation]
    /\ \A i \in ObservationSlots :
         /\ obs[i].slot <= now /\ obs[i].mid <= H
         /\ obs[i].slot = 0 => obs[i].cumulative_mid = 0
    /\ \A i, j \in ObservationSlots :
         obs[i].slot <= obs[j].slot => Climbs(H, obs[i], obs[j])

LEMMA SoundLater ==
    ASSUME NEW obs, NEW H \in Nat, NEW now \in Nat, Sound(obs, H, now),
           NEW later \in Nat, now <= later
    PROVE  Sound(obs, H, later)
<1>1. \A i \in ObservationSlots : obs[i].slot \in Nat /\ obs[i].slot <= now
  BY DEF Sound, Observation
<1>2. \A i \in ObservationSlots : obs[i].slot <= later
  BY <1>1
<1> QED BY <1>2 DEF Sound

LEMMA SoundHigher ==
    ASSUME NEW obs, NEW H \in Nat, NEW now \in Nat, Sound(obs, H, now),
           NEW higher \in Nat, H <= higher
    PROVE  Sound(obs, higher, now)
<1>1. \A i \in ObservationSlots :
        /\ obs[i].slot \in Nat /\ obs[i].mid \in Nat /\ obs[i].cumulative_mid \in Nat
        /\ obs[i].mid <= higher
  BY DEF Sound, Observation
<1>2. ASSUME NEW i \in ObservationSlots, NEW j \in ObservationSlots,
             obs[i].slot <= obs[j].slot
      PROVE  Climbs(higher, obs[i], obs[j])
  <2>1. PICK d \in Nat : d = obs[j].slot - obs[i].slot
    BY <1>1, <1>2
  <2>2. H * d <= higher * d /\ H * d \in Int /\ higher * d \in Int
    BY <2>1, Z3
  <2>3. Climbs(H, obs[i], obs[j])
    BY <1>2 DEF Sound
  <2> QED BY <1>1, <2>1, <2>2, <2>3 DEF Climbs
<1> QED BY <1>1, <1>2 DEF Sound

LEMMA RecordSound ==
    ASSUME NEW H \in Nat, NEW now \in Nat \ {0}, NEW obs, Sound(obs, H, now),
           NEW idx \in ObservationSlots, NEW m \in Nat, m <= H
    PROVE  Sound(record_observation(obs, idx, m, now), H, now)
<1> DEFINE new == record_observation(obs, idx, m, now)[idx]
           r == record_observation(obs, idx, m, now)
           W == Written(obs)
           last == obs[max_by_slot(obs, W)]
           c == contribution(last, m, now)
<1>1. obs \in [ObservationSlots -> Observation]
  BY DEF Sound
<1>2. r \in [ObservationSlots -> Observation]
  BY <1>1, RecordType
<1>3. new = [slot |-> now, mid |-> m,
             cumulative_mid |-> IF W = {} THEN 0 ELSE last.cumulative_mid + c]
  BY <1>1 DEF record_observation, last_observation
<1>4. \A i \in ObservationSlots : r[i] = IF i = idx THEN new ELSE obs[i]
  BY <1>1 DEF record_observation
<1>5. \A i \in ObservationSlots :
        obs[i].slot \in Nat /\ obs[i].cumulative_mid \in Nat /\ obs[i].mid \in Nat
  BY <1>1 DEF Observation
<1>6. ASSUME W # {}
      PROVE  /\ last.slot \in Nat /\ last.cumulative_mid \in Nat /\ last.slot <= now
             /\ \A i \in ObservationSlots :
                  /\ obs[i].slot <= last.slot
                  /\ Climbs(H, obs[i], last)
                  /\ last.slot <= obs[i].slot => Climbs(H, last, obs[i])
             /\ c \in Nat /\ c <= H * (now - last.slot)
  <2> DEFINE k == max_by_slot(obs, W)
  <2>1. k \in W /\ \A j \in W : obs[j].slot <= obs[k].slot
    BY <1>1, <1>6, LastObservation DEF Written
  <2> HIDE DEF k
  <2>2. k \in ObservationSlots /\ last = obs[k]
    BY <2>1 DEF Written, k
  <2>3. \A i \in ObservationSlots : obs[i].slot <= obs[k].slot
    BY <1>5, <2>1, <2>2 DEF Written
  <2>4. last.slot \in Nat /\ last.cumulative_mid \in Nat /\ last.mid \in Nat
    BY <1>5, <2>2
  <2>5. last.slot <= now /\ last.mid <= H
    BY <2>2 DEF Sound
  <2>6. \A i \in ObservationSlots :
          /\ obs[i].slot <= last.slot
          /\ Climbs(H, obs[i], last)
          /\ last.slot <= obs[i].slot => Climbs(H, last, obs[i])
    BY <2>2, <2>3 DEF Sound
  <2>7. c \in Nat /\ c <= H * (now - last.slot)
    <3> HIDE DEF last
    <3>1. Elapsed(last, now) = now - last.slot /\ now - last.slot \in Nat
      BY <2>4, <2>5 DEF Elapsed
    <3>2. /\ last.mid * (now - last.slot) \in Nat
          /\ H * (now - last.slot) \in Nat
      BY <2>4, <3>1
    <3>3. last.mid * (now - last.slot) <= H * (now - last.slot)
      BY <2>4, <2>5, <3>1, Z3
    <3> QED BY <3>1, <3>2, <3>3 DEF contribution
  <2> QED BY <2>4, <2>5, <2>6, <2>7
<1>7. ASSUME W = {}
      PROVE  \A i \in ObservationSlots : obs[i].slot = 0 /\ obs[i].cumulative_mid = 0
  BY <1>7 DEF Sound, Written
<1> HIDE DEF new, r, W, last, c
<1>8. /\ new.slot = now /\ new.mid = m /\ new.cumulative_mid \in Nat
      /\ new.cumulative_mid = IF W = {} THEN 0 ELSE last.cumulative_mid + c
  BY <1>3, <1>6
<1>9. Climbs(H, new, new)
  BY <1>8 DEF Climbs
<1>10. ASSUME NEW i \in ObservationSlots PROVE Climbs(H, obs[i], new)
  <2>1. CASE W = {}
    <3>1. obs[i].slot = 0 /\ obs[i].cumulative_mid = 0 /\ H * (now - 0) \in Nat
      BY <1>7, <2>1
    <3> QED BY <1>8, <2>1, <3>1 DEF Climbs
  <2>2. CASE W # {}
    <3>1. /\ obs[i].cumulative_mid <= last.cumulative_mid
          /\ last.cumulative_mid - obs[i].cumulative_mid <= H * (last.slot - obs[i].slot)
      BY <1>6, <2>2 DEF Climbs
    <3>2. (H * (now - last.slot)) + (H * (last.slot - obs[i].slot)) = H * (now - obs[i].slot)
      BY <1>5, <1>6, <2>2, Stretches
    <3>3. /\ H * (now - last.slot) \in Int /\ H * (last.slot - obs[i].slot) \in Int
          /\ H * (now - obs[i].slot) \in Int
      BY <1>5, <1>6, <2>2
    <3>4. new.slot = now /\ new.cumulative_mid = last.cumulative_mid + c
      BY <1>8, <2>2
    <3> QED BY <1>5, <1>6, <2>2, <3>1, <3>2, <3>3, <3>4 DEF Climbs
  <2> QED BY <2>1, <2>2
<1>11. ASSUME NEW i \in ObservationSlots, now <= obs[i].slot PROVE Climbs(H, new, obs[i])
  <2>1. obs[i].slot = now
    BY <1>5, <1>11 DEF Sound
  <2>2. W # {}
    BY <1>7, <2>1
  <2>3. last.slot = now
    BY <1>6, <2>1, <2>2
  <2>4. c = 0
    BY <1>6, <2>2, <2>3
  <2>5. Climbs(H, last, obs[i])
    BY <1>6, <2>1, <2>2, <2>3
  <2> QED BY <1>6, <1>8, <2>2, <2>3, <2>4, <2>5 DEF Climbs
<1>12. ASSUME NEW i \in ObservationSlots, NEW j \in ObservationSlots, r[i].slot <= r[j].slot
       PROVE  Climbs(H, r[i], r[j])
  <2>1. CASE i = idx /\ j = idx
    BY <1>4, <1>9, <2>1
  <2>2. CASE i # idx /\ j = idx
    BY <1>4, <1>10, <2>2
  <2>3. CASE i = idx /\ j # idx
    BY <1>4, <1>8, <1>11, <1>12, <2>3
  <2>4. CASE i # idx /\ j # idx
    BY <1>4, <1>12, <2>4 DEF Sound
  <2> QED BY <2>1, <2>2, <2>3, <2>4
<1>13. ASSUME NEW i \in ObservationSlots
       PROVE  /\ r[i].slot <= now /\ r[i].mid <= H
              /\ r[i].slot = 0 => r[i].cumulative_mid = 0
  <2>1. CASE i = idx
    BY <1>4, <1>8, <2>1
  <2>2. CASE i # idx
    BY <1>4, <2>2 DEF Sound
  <2> QED BY <2>1, <2>2
<1>14. Sound(r, H, now)
  BY <1>2, <1>12, <1>13 DEF Sound
<1> QED BY <1>14 DEF r

LEMMA FirstObservation ==
    ASSUME NEW obs \in [ObservationSlots -> Observation],
           NEW I \in SUBSET ObservationSlots, I # {}
    PROVE  /\ min_by_slot(obs, I) \in I
           /\ \A j \in I : obs[j].slot >= obs[min_by_slot(obs, I)].slot
<1> DEFINE T == {obs[i].slot : i \in I}
<1>1. ObservationSlots \subseteq Nat
  BY TwapAssumption DEF ObservationSlots
<1>2. \A i \in I : obs[i].slot \in Nat
  BY DEF Observation
<1>3. PICK t \in T : \A u \in T : t <= u
  <2>1. PICK i \in I : TRUE
    OBVIOUS
  <2>2. obs[i].slot \in T
    BY <2>1
  <2>3. T \subseteq Nat
    BY <1>2
  <2> HIDE DEF T
  <2> QED BY <2>2, <2>3, LeastNat
<1> DEFINE E == {i \in I : obs[i].slot = t}
<1>4. PICK e \in E : \A i \in E : e <= i
  <2>1. E # {}
    OBVIOUS
  <2>2. E \subseteq Nat
    BY <1>1
  <2> HIDE DEF E
  <2> QED BY <2>1, <2>2, LeastNat
<1>5. ASSUME NEW j \in I
      PROVE  obs[j].slot > obs[e].slot \/ (obs[j].slot = obs[e].slot /\ j >= e)
  <2>1. obs[j].slot \in T /\ t <= obs[j].slot /\ obs[e].slot = t
    BY <1>3, <1>4
  <2>2. t \in Nat /\ obs[j].slot \in Nat /\ j \in Nat /\ e \in Nat
    BY <1>1, <1>2, <1>3, <1>4
  <2>3. CASE obs[j].slot = t
    BY <1>4, <2>1, <2>2, <2>3
  <2>4. CASE obs[j].slot # t
    BY <2>1, <2>2, <2>4
  <2> QED BY <2>3, <2>4
<1>6. \E i \in I : \A j \in I : \/ obs[j].slot > obs[i].slot
                                \/ obs[j].slot = obs[i].slot /\ j >= i
  BY <1>4, <1>5
<1> DEFINE least == min_by_slot(obs, I)
<1>7. /\ least \in I
      /\ \A j \in I : (obs[j].slot > obs[least].slot)
                      \/ (obs[j].slot = obs[least].slot /\ j >= least)
  BY <1>6 DEF min_by_slot
<1> HIDE DEF least
<1>8. least \in I /\ \A j \in I : obs[j].slot >= obs[least].slot
  BY <1>2, <1>7
<1> QED BY <1>8 DEF least

-----------------------------------------------------------------------------
(* Reading the accumulator *)

LEMMA ReadingFacts ==
    ASSUME NEW H \in Nat, NEW now \in Nat, NEW obs, Sound(obs, H, now)
    PROVE  \A i \in ObservationSlots :
             obs[i].slot \in Nat /\ obs[i].cumulative_mid \in Nat /\ obs[i].slot <= now
  BY DEF Sound, Observation

(* A reading that is not an entry's own: between two entries or after all. *)
Between(obs, t, i, j, cum) ==
    /\ i \in ObservationSlots /\ j \in ObservationSlots
    /\ obs[i].slot < t /\ t < obs[j].slot
    /\ cum = obs[i].cumulative_mid
             + (((obs[j].cumulative_mid - obs[i].cumulative_mid) * (t - obs[i].slot))
                  \div (obs[j].slot - obs[i].slot))
Latest(obs) == max_by_slot(obs, ObservationSlots)
Previous(obs) ==
    max_by_slot(obs, {i \in ObservationSlots : obs[i].slot < obs[Latest(obs)].slot})
After(obs, t, cum) ==
    LET j == Latest(obs)
        i == Previous(obs)
    IN  /\ i \in ObservationSlots /\ j \in ObservationSlots
        /\ obs[i].slot < obs[j].slot /\ obs[j].slot < t
        /\ \A k \in ObservationSlots : obs[k].slot <= obs[j].slot
        /\ cum = obs[i].cumulative_mid
                 + (((obs[j].cumulative_mid - obs[i].cumulative_mid) * (t - obs[i].slot))
                      \div (obs[j].slot - obs[i].slot))

LEMMA Reading ==
    ASSUME NEW H \in Nat, NEW now \in Nat, NEW obs, Sound(obs, H, now), NEW t \in Nat,
           cumulative_at(obs, t).ok
    PROVE  LET cum == cumulative_at(obs, t).cum
           IN  \/ \E i \in ObservationSlots : obs[i].slot = t /\ cum = obs[i].cumulative_mid
               \/ \E i, j \in ObservationSlots : Between(obs, t, i, j, cum)
               \/ After(obs, t, cum)
<1> DEFINE exact == {i \in ObservationSlots : obs[i].slot = t}
           before == {i \in ObservationSlots : obs[i].slot < t}
           after == {i \in ObservationSlots : obs[i].slot > t}
           lo == obs[max_by_slot(obs, before)]
           earlier == {i \in ObservationSlots : obs[i].slot < lo.slot}
           at == cumulative_at(obs, t)
<1>1. obs \in [ObservationSlots -> Observation]
      /\ \A i \in ObservationSlots : obs[i].slot \in Nat /\ obs[i].cumulative_mid \in Nat
  BY ReadingFacts DEF Sound
<1>2. \A i \in ObservationSlots : i \in exact \/ i \in before \/ i \in after
  BY <1>1
<1>3. CASE exact # {}
  <2> DEFINE i == CHOOSE i \in exact : \A j \in exact : i <= j
  <2>1. at = Some(obs[i].cumulative_mid)
    BY <1>3 DEF cumulative_at
  <2>2. \E k \in exact : \A j \in exact : k <= j
    <3>1. exact \subseteq Nat
      BY TwapAssumption DEF ObservationSlots
    <3> HIDE DEF exact
    <3> QED BY <1>3, <3>1, LeastNat
  <2>3. i \in exact
    BY <2>2
  <2> HIDE DEF i
  <2>4. i \in ObservationSlots /\ obs[i].slot = t
    BY <2>3
  <2>5. at.cum = obs[i].cumulative_mid
    BY <2>1 DEF Some
  <2> QED BY <2>4, <2>5
<1>4. CASE exact = {} /\ before = {}
  <2>1. at = None
    BY <1>4 DEF cumulative_at
  <2> QED BY <2>1 DEF None
<1>5. CASE exact = {} /\ before # {} /\ after # {}
  <2> DEFINE i == max_by_slot(obs, before)
             j == min_by_slot(obs, after)
  <2>1. at = interpolate(obs[i], obs[j], t)
    BY <1>5 DEF cumulative_at
  <2>2. i \in before
    <3>1. before \in SUBSET ObservationSlots
      OBVIOUS
    <3> HIDE DEF before
    <3> QED BY <1>1, <1>5, <3>1, LastObservation
  <2>3. j \in after
    <3>1. after \in SUBSET ObservationSlots
      OBVIOUS
    <3> HIDE DEF after
    <3> QED BY <1>1, <1>5, <3>1, FirstObservation
  <2> HIDE DEF i, j
  <2>4. /\ i \in ObservationSlots /\ j \in ObservationSlots
        /\ obs[i].slot < t /\ t < obs[j].slot
    BY <2>2, <2>3
  <2>5. at.cum = obs[i].cumulative_mid
                 + (((obs[j].cumulative_mid - obs[i].cumulative_mid) * (t - obs[i].slot))
                      \div (obs[j].slot - obs[i].slot))
    BY <2>1 DEF interpolate, Some, None
  <2>6. Between(obs, t, i, j, at.cum)
    BY <2>4, <2>5 DEF Between
  <2> QED BY <2>4, <2>6
<1>6. CASE exact = {} /\ before # {} /\ after = {}
  <2>1. before = ObservationSlots
    BY <1>2, <1>6
  <2> DEFINE j == Latest(obs)
             i == Previous(obs)
             E == {k \in ObservationSlots : obs[k].slot < obs[j].slot}
  <2>2. lo = obs[j]
    BY <2>1 DEF Latest
  <2>3. at = IF E = {} THEN None ELSE interpolate(obs[i], obs[j], t)
    <3>1. at = IF earlier = {} THEN None
               ELSE interpolate(obs[max_by_slot(obs, earlier)], lo, t)
      BY <1>6 DEF cumulative_at
    <3>2. earlier = E /\ i = max_by_slot(obs, E)
      BY <2>2 DEF Previous
    <3> QED BY <2>2, <3>1, <3>2
  <2>4. j \in ObservationSlots /\ \A k \in ObservationSlots : obs[k].slot <= obs[j].slot
    <3>1. ObservationSlots # {}
      BY <1>6
    <3> QED BY <1>1, <3>1, LastObservation DEF Latest
  <2>5. E # {}
    BY <2>3 DEF None
  <2>6. i \in E
    <3>1. i = max_by_slot(obs, E) /\ E \in SUBSET ObservationSlots
      BY DEF Previous
    <3> HIDE DEF E, i
    <3> QED BY <1>1, <2>5, <3>1, LastObservation
  <2>7. obs[j].slot < t
    BY <2>1, <2>4
  <2>8. at.cum = obs[i].cumulative_mid
                 + (((obs[j].cumulative_mid - obs[i].cumulative_mid) * (t - obs[i].slot))
                      \div (obs[j].slot - obs[i].slot))
    <3> HIDE DEF i, j, at
    <3> QED BY <2>3, <2>5 DEF interpolate, Some, None, at
  <2>9. After(obs, t, at.cum)
    <3>1. i \in ObservationSlots /\ obs[i].slot < obs[j].slot
      BY <2>6
    <3> QED BY <2>4, <2>7, <2>8, <3>1 DEF After
  <2> QED BY <2>9
<1> QED BY <1>3, <1>4, <1>5, <1>6

LEMMA SegmentOf ==
    ASSUME NEW H \in Nat, NEW now \in Nat, NEW obs, Sound(obs, H, now),
           NEW i \in ObservationSlots, NEW j \in ObservationSlots, obs[i].slot < obs[j].slot
    PROVE  /\ obs[j].slot - obs[i].slot \in Nat \ {0}
           /\ obs[j].cumulative_mid - obs[i].cumulative_mid \in Nat
           /\ obs[j].cumulative_mid - obs[i].cumulative_mid
                <= H * (obs[j].slot - obs[i].slot)
<1>1. /\ obs[i].slot \in Nat /\ obs[j].slot \in Nat
      /\ obs[i].cumulative_mid \in Nat /\ obs[j].cumulative_mid \in Nat
  BY ReadingFacts
<1>2. Climbs(H, obs[i], obs[j])
  BY <1>1 DEF Sound
<1> QED BY <1>1, <1>2 DEF Climbs

LEMMA BetweenBound ==
    ASSUME NEW H \in Nat, NEW now \in Nat, NEW obs, Sound(obs, H, now), NEW t \in Nat,
           NEW i, NEW j, NEW cum, Between(obs, t, i, j, cum)
    PROVE  cum \in Int /\ obs[j].cumulative_mid - cum <= H * (obs[j].slot - t)
<1> DEFINE a == obs[i].cumulative_mid
           b == obs[j].cumulative_mid
           d == obs[j].slot - obs[i].slot
           x == t - obs[i].slot
           D == b - a
           q == (D * x) \div d
<1>1. /\ i \in ObservationSlots /\ j \in ObservationSlots
      /\ obs[i].slot < t /\ t < obs[j].slot /\ cum = a + q
  BY DEF Between
<1>2. obs[i].slot \in Nat /\ obs[j].slot \in Nat /\ a \in Nat /\ b \in Nat
  BY <1>1, ReadingFacts
<1>3. d \in Nat \ {0} /\ D \in Nat /\ D <= H * d
  BY <1>1, <1>2, SegmentOf
<1>4. x \in Nat /\ x <= d /\ d - x = obs[j].slot - t
  BY <1>1, <1>2
<1> HIDE DEF d, x
<1>5. q \in Nat /\ D - q <= H * (d - x)
  <2> HIDE DEF D
  <2> QED BY <1>3, <1>4, Segment
<1> HIDE DEF q
<1>6. H * (d - x) \in Int
  BY <1>3, <1>4
<1>7. H * (obs[j].slot - t) = H * (d - x)
  BY <1>4
<1> QED BY <1>1, <1>2, <1>5, <1>6, <1>7

LEMMA AfterBound ==
    ASSUME NEW H \in Nat, NEW now \in Nat, NEW obs, Sound(obs, H, now), NEW t \in Nat,
           NEW cum, After(obs, t, cum)
    PROVE  /\ cum \in Int
           /\ cum - obs[Latest(obs)].cumulative_mid <= H * (t - obs[Latest(obs)].slot)
           /\ \A s \in Nat : \A low :
                After(obs, s, low) /\ s <= t => cum - low <= H * (t - s)
<1> DEFINE i == Previous(obs)
           j == Latest(obs)
           a == obs[i].cumulative_mid
           b == obs[j].cumulative_mid
           d == obs[j].slot - obs[i].slot
           x == t - obs[i].slot
           D == b - a
           q == (D * x) \div d
<1>1. /\ i \in ObservationSlots /\ j \in ObservationSlots
      /\ obs[i].slot < obs[j].slot /\ obs[j].slot < t /\ cum = a + q
  BY DEF After
<1>2. obs[i].slot \in Nat /\ obs[j].slot \in Nat /\ a \in Nat /\ b \in Nat
  BY <1>1, ReadingFacts
<1>3. d \in Nat \ {0} /\ D \in Nat /\ D <= H * d
  BY <1>1, <1>2, SegmentOf
<1>4. x \in Nat /\ x >= d /\ x - d = t - obs[j].slot
  BY <1>1, <1>2
<1>5. ASSUME NEW s \in Nat, NEW low, After(obs, s, low), s <= t PROVE cum - low <= H * (t - s)
  <2> DEFINE y == s - obs[i].slot
             p == (D * y) \div d
  <2>1. obs[j].slot < s /\ low = a + p
    BY <1>5 DEF After
  <2>2. y \in Nat /\ y <= x /\ x - y = t - s
    BY <1>1, <1>2, <1>5, <2>1
  <2> HIDE DEF d, x, y
  <2>3. q \in Nat /\ p \in Nat /\ q - p <= H * (x - y)
    <3> HIDE DEF D
    <3> QED BY <1>3, <1>4, <2>2, Segment
  <2> HIDE DEF p, q
  <2>4. cum - low = q - p
    BY <1>1, <1>2, <2>1, <2>3
  <2> QED BY <2>2, <2>3, <2>4
<1> HIDE DEF d, x
<1>6. q \in Nat /\ q <= D + (H * (x - d))
  <2> HIDE DEF D
  <2> QED BY <1>3, <1>4, Segment
<1> HIDE DEF q
<1>7. H * (x - d) \in Int /\ H * (t - obs[j].slot) = H * (x - d)
  BY <1>3, <1>4
<1>8. cum \in Int /\ cum - b <= H * (t - obs[j].slot)
  BY <1>1, <1>2, <1>6, <1>7
<1> QED BY <1>5, <1>8

(* Whatever became of the entries in between, two readings differ by at most  *)
(* H for every slot between them.                                             *)
LEMMA ReadingsClimb ==
    ASSUME NEW H \in Nat, NEW now \in Nat, NEW obs, Sound(obs, H, now),
           NEW s \in Nat, s < now,
           cumulative_at(obs, now).ok, cumulative_at(obs, s).ok
    PROVE  /\ cumulative_at(obs, now).cum \in Int /\ cumulative_at(obs, s).cum \in Int
           /\ cumulative_at(obs, now).cum - cumulative_at(obs, s).cum <= H * (now - s)
<1> DEFINE high == cumulative_at(obs, now).cum
           low == cumulative_at(obs, s).cum
<1>1. \A i \in ObservationSlots :
        obs[i].slot \in Nat /\ obs[i].cumulative_mid \in Nat /\ obs[i].slot <= now
  BY ReadingFacts
<1>2. \A a, b, c \in Int :
        /\ (H * (a - b)) + (H * (b - c)) = H * (a - c)
        /\ H * (a - b) \in Int
  BY Stretches
(* the earlier reading, seen from an entry that is not earlier *)
<1>3. ASSUME NEW k \in ObservationSlots, s <= obs[k].slot,
             \A i \in ObservationSlots : obs[i].slot <= obs[k].slot
      PROVE  low \in Int
             /\ (~After(obs, s, low) => obs[k].cumulative_mid - low <= H * (obs[k].slot - s))
  <2>1. \/ \E i \in ObservationSlots : obs[i].slot = s /\ low = obs[i].cumulative_mid
        \/ \E i, j \in ObservationSlots : Between(obs, s, i, j, low)
        \/ After(obs, s, low)
    BY Reading
  <2> HIDE DEF low
  <2>2. ASSUME NEW i \in ObservationSlots, obs[i].slot = s, low = obs[i].cumulative_mid
        PROVE  low \in Int /\ obs[k].cumulative_mid - low <= H * (obs[k].slot - s)
    BY <1>1, <1>3, <2>2 DEF Sound, Climbs
  <2>3. ASSUME NEW i \in ObservationSlots, NEW j \in ObservationSlots, Between(obs, s, i, j, low)
        PROVE  low \in Int /\ obs[k].cumulative_mid - low <= H * (obs[k].slot - s)
    <3>1. low \in Int /\ obs[j].cumulative_mid - low <= H * (obs[j].slot - s)
      BY <2>3, BetweenBound
    <3>2. Climbs(H, obs[j], obs[k])
      BY <1>3 DEF Sound
    <3>3. /\ (H * (obs[k].slot - obs[j].slot)) + (H * (obs[j].slot - s)) = H * (obs[k].slot - s)
          /\ H * (obs[k].slot - obs[j].slot) \in Int /\ H * (obs[j].slot - s) \in Int
          /\ obs[k].cumulative_mid \in Int /\ obs[j].cumulative_mid \in Int
      <4>1. obs[k].slot \in Int /\ obs[j].slot \in Int /\ s \in Int
        BY <1>1
      <4> QED BY <1>1, <1>2, <4>1
    <3> QED BY <3>1, <3>2, <3>3 DEF Climbs
  <2>4. ASSUME After(obs, s, low) PROVE low \in Int
    BY <2>4, AfterBound
  <2> QED BY <2>1, <2>2, <2>3, <2>4
<1>4. \/ \E i \in ObservationSlots : obs[i].slot = now /\ high = obs[i].cumulative_mid
      \/ \E i, j \in ObservationSlots : Between(obs, now, i, j, high)
      \/ After(obs, now, high)
  BY Reading
<1> HIDE DEF high, low
<1>5. ASSUME NEW k \in ObservationSlots, obs[k].slot = now, high = obs[k].cumulative_mid
      PROVE  high \in Int /\ low \in Int /\ high - low <= H * (now - s)
  <2>1. ~After(obs, s, low)
    <3> SUFFICES ASSUME After(obs, s, low) PROVE FALSE
      OBVIOUS
    <3>1. obs[Latest(obs)].slot < s /\ Latest(obs) \in ObservationSlots
          /\ obs[k].slot <= obs[Latest(obs)].slot
      BY DEF After
    <3> QED BY <1>1, <1>5, <3>1
  <2> QED BY <1>1, <1>3, <1>5, <2>1
<1>6. ASSUME NEW i \in ObservationSlots, NEW j \in ObservationSlots,
             Between(obs, now, i, j, high)
      PROVE  FALSE
  BY <1>1, <1>6 DEF Between
<1>7. ASSUME After(obs, now, high)
      PROVE  high \in Int /\ low \in Int /\ high - low <= H * (now - s)
  <2> DEFINE k == Latest(obs)
  <2>1. /\ k \in ObservationSlots /\ obs[k].slot < now
        /\ \A i \in ObservationSlots : obs[i].slot <= obs[k].slot
    BY <1>7 DEF After
  <2>2. high \in Int /\ high - obs[k].cumulative_mid <= H * (now - obs[k].slot)
    BY <1>7, AfterBound
  <2>3. CASE After(obs, s, low)
    <3>1. low \in Int
      BY <2>3, AfterBound
    <3>2. high - low <= H * (now - s)
      BY <1>7, <2>3, AfterBound
    <3> QED BY <2>2, <3>1, <3>2
  <2>4. CASE ~After(obs, s, low)
    <3> HIDE DEF k
    <3>1. s <= obs[k].slot
      <4> SUFFICES ASSUME obs[k].slot < s PROVE FALSE
        BY <1>1, <2>1
      <4>1. \/ \E i \in ObservationSlots : obs[i].slot = s /\ low = obs[i].cumulative_mid
            \/ \E i, j \in ObservationSlots : Between(obs, s, i, j, low)
        BY <2>4, Reading DEF low
      <4>2. \A i \in ObservationSlots : obs[i].slot < s
        BY <1>1, <2>1
      <4> QED BY <1>1, <4>1, <4>2 DEF Between
    <3>2. low \in Int /\ obs[k].cumulative_mid - low <= H * (obs[k].slot - s)
      BY <1>3, <2>1, <2>4, <3>1
    <3>3. /\ (H * (now - obs[k].slot)) + (H * (obs[k].slot - s)) = H * (now - s)
          /\ H * (now - obs[k].slot) \in Int /\ H * (obs[k].slot - s) \in Int
          /\ obs[k].cumulative_mid \in Int
      <4>1. obs[k].slot \in Int /\ now \in Int /\ s \in Int
        BY <1>1, <2>1
      <4> QED BY <1>1, <1>2, <2>1, <4>1
    <3> QED BY <2>2, <3>2, <3>3
  <2> QED BY <2>3, <2>4
<1> QED BY <1>4, <1>5, <1>6, <1>7 DEF high, low

LEMMA TwapAtMost ==
    ASSUME NEW H \in Nat, NEW now \in Nat, NEW obs, Sound(obs, H, now), NEW window \in Nat
    PROVE  twap(obs, window, now) <= H
<1> DEFINE high == cumulative_at(obs, now)
           low == cumulative_at(obs, now - window)
           none == \/ window = 0 \/ now < window
                   \/ ~high.ok \/ ~low.ok \/ high.cum < low.cum
<1>1. twap(obs, window, now) = IF none THEN NoTwap ELSE (high.cum - low.cum) \div window
  BY DEF twap
<1>2. CASE none
  BY <1>1, <1>2 DEF NoTwap
<1>3. CASE ~none
  <2>1. window \in Nat \ {0} /\ now - window \in Nat /\ now - window < now
        /\ now - (now - window) = window
    BY <1>3
  <2>2. /\ high.cum \in Int /\ low.cum \in Int
        /\ high.cum - low.cum <= H * (now - (now - window))
    BY <1>3, <2>1, ReadingsClimb
  <2> HIDE DEF high, low, none
  <2>3. high.cum - low.cum \in Int /\ high.cum - low.cum <= window * H
    BY <2>1, <2>2
  <2>4. (high.cum - low.cum) \div window <= H
    BY <2>1, <2>3, DivAtMost
  <2> QED BY <1>1, <1>3, <2>4
<1> QED BY <1>2, <1>3

-----------------------------------------------------------------------------
(* The specification *)

(* A step records the mid of the book it leaves, or time passes at most. *)
LEMMA Recorded ==
    ASSUME IInv, [Next]_vars
    PROVE  \/ /\ observations' = record_observation(observations, twap_cursor, mid(book'), slot)
              /\ slot' = slot
           \/ observations' = observations /\ slot' \in {slot, slot + 1}
<1> DEFINE Saved == (\E b : Save(b)) /\ slot' = slot
           Kept == observations' = observations /\ slot' \in {slot, slot + 1}
<1>1. ASSUME NEW o, rest_order(o) PROVE Saved
  BY <1>1 DEF rest_order
<1>2. ASSUME NEW o, NEW taken, cross_limit(o, taken) PROVE Saved
  BY <1>2 DEF cross_limit
<1>3. ASSUME NEW o, cross_market(o) PROVE Saved
  BY <1>3 DEF cross_market, take_market
<1>4. ASSUME NEW side, NEW i, cancel_order(side, i) PROVE Saved
  BY <1>4 DEF cancel_order
<1>5. ASSUME crank PROVE Saved \/ Kept
  BY <1>5 DEF crank, SaveDrained, twapVars
<1>6. ASSUME tick PROVE Kept
  BY <1>6 DEF tick, twapVars
<1>7. ASSUME UNCHANGED vars PROVE Kept
  BY <1>7 DEF vars
<1>8. ASSUME NEW q \in Requests, place_limit_order(q) \/ place_market_order(q)
                                 \/ open_position(q) \/ close_position(q)
      PROVE  Saved
  <2> HIDE DEF Saved
  <2> QED BY <1>1, <1>2, <1>3, <1>8
          DEF place_limit_order, place_market_order, open_position, close_position
<1>9. Saved \/ Kept
  <2> HIDE DEF Saved, Kept
  <2> QED BY <1>4, <1>5, <1>6, <1>7, <1>8 DEF Next
<1> QED BY <1>9 DEF Save

LEMMA InitSound ==
    ASSUME NEW H \in Nat, Init
    PROVE  IInv /\ Sound(observations, H, slot)
<1>1. IInv
  BY InitInv
<1>2. observations = [i \in ObservationSlots |->
                        [slot |-> 0, mid |-> 0, cumulative_mid |-> 0]] /\ slot = 1
  BY DEF Init, EmptyRing, NoMid
<1>3. observations \in [ObservationSlots -> Observation]
  BY <1>1 DEF IInv
<1>4. H * 0 = 0
  OBVIOUS
<1>5. Sound(observations, H, slot)
  BY <1>2, <1>3, <1>4 DEF Sound, Climbs
<1> QED BY <1>1, <1>5

(* A step keeps any bound that the mid of the book it leaves keeps as well. *)
LEMMA StepSound ==
    ASSUME IInv, NEW H \in Nat, Sound(observations, H, slot), [Next]_vars, mid(book') <= H
    PROVE  Sound(observations, H, slot)'
<1>1. mid(book') \in Nat
  <2>1. book' \in Settled
    BY NextStep DEF Step, IInv
  <2> QED BY <2>1, MidType DEF Settled
<1>2. slot \in Nat \ {0} /\ twap_cursor \in ObservationSlots
  BY DEF IInv
<1>3. CASE /\ slot' = slot
           /\ observations' = record_observation(observations, twap_cursor, mid(book'), slot)
  BY <1>1, <1>2, <1>3, RecordSound
<1>4. CASE observations' = observations /\ slot' \in {slot, slot + 1}
  <2>1. slot' \in Nat /\ slot <= slot'
    BY <1>2, <1>4
  <2> QED BY <1>2, <1>4, <2>1, SoundLater
<1> QED BY <1>3, <1>4, Recorded

(* The accumulator never rises faster than the highest mid so far. *)
HInv == IInv /\ highest_mid \in Nat /\ Sound(observations, highest_mid, slot)

LEMMA HInitSound == HInit => HInv
<1>1. SUFFICES ASSUME HInit PROVE HInv
  OBVIOUS
<1>2. Init /\ highest_mid = 0
  BY <1>1 DEF HInit, NoMid
<1>3. IInv /\ Sound(observations, 0, slot)
  BY <1>2, InitSound
<1> QED BY <1>2, <1>3 DEF HInv

LEMMA HStepSound == HInv /\ [HNext]_varsWithHistory => HInv'
<1> SUFFICES ASSUME HInv, [HNext]_varsWithHistory PROVE HInv'
  OBVIOUS
<1>1. IInv /\ highest_mid \in Nat /\ Sound(observations, highest_mid, slot) /\ slot \in Nat
  BY DEF HInv, IInv
<1>2. CASE HNext
  <2>1. [Next]_vars /\ highest_mid' = Higher(highest_mid, mid(book'))
    BY <1>2 DEF HNext
  <2>2. IInv' /\ mid(book') \in Nat
    <3>1. IInv'
      BY <1>1, <2>1, NextStep DEF Step
    <3>2. book' \in Settled
      BY <3>1 DEF IInv
    <3> QED BY <3>1, <3>2, MidType DEF Settled
  <2>3. PICK H \in Nat : H = highest_mid' /\ highest_mid <= H /\ mid(book') <= H
    BY <1>1, <2>1, <2>2 DEF Higher
  <2>4. Sound(observations, H, slot)
    BY <1>1, <2>3, SoundHigher
  <2>5. Sound(observations', H, slot')
    BY <1>1, <2>1, <2>3, <2>4, StepSound
  <2> QED BY <2>2, <2>3, <2>5 DEF HInv
<1>3. CASE UNCHANGED varsWithHistory
  <2>1. UNCHANGED vars /\ highest_mid' = highest_mid
    BY <1>3 DEF varsWithHistory
  <2>2. IInv'
    BY <1>1, <2>1, NextStep DEF Step
  <2>3. observations' = observations /\ slot' = slot
    BY <2>1 DEF vars
  <2> QED BY <1>1, <2>1, <2>2, <2>3 DEF HInv
<1> QED BY <1>2, <1>3

(* The reference price a liquidation may rest on never exceeds the highest    *)
(* mid the book has had, whatever the ring has overwritten and however its    *)
(* entries tie or the window falls between them (twap and record_observation).*)
THEOREM TwapStaysBounded == HSpec => []TwapBounded
<1>1. HInv => TwapBounded
  <2> SUFFICES ASSUME HInv PROVE TwapBounded
    OBVIOUS
  <2>1. /\ LIQUIDATION_TWAP_WINDOW \in Nat /\ slot \in Nat
        /\ highest_mid \in Nat /\ Sound(observations, highest_mid, slot)
    BY BookAssumption DEF HInv, IInv
  <2> QED BY <2>1, TwapAtMost DEF TwapBounded
<1> QED BY <1>1, HInitSound, HStepSound, PTL DEF HSpec

-----------------------------------------------------------------------------
(* The SDK's reading *)

(* A reading of each, both missing or both there and equal. *)
Same(mine, sdk) == mine.ok = sdk.ok /\ (mine.ok => mine.cum = sdk.value)

(* What the SDK's and the program's choice have in common. *)
LEMMA SameLatest ==
    ASSUME NEW H \in Nat, NEW now \in Nat, NEW obs, Sound(obs, H, now),
           NEW I \in SUBSET ObservationSlots, I # {}
    PROVE  /\ Sdk!latest(obs, I) \in I
           /\ obs[Sdk!latest(obs, I)].slot = obs[max_by_slot(obs, I)].slot
           /\ obs[Sdk!latest(obs, I)].cumulative_mid
                = obs[max_by_slot(obs, I)].cumulative_mid
<1> DEFINE m == max_by_slot(obs, I)
           E == {i \in I : \A j \in I : obs[j].slot <= obs[i].slot}
           l == Sdk!latest(obs, I)
<1>1. m \in I /\ \A j \in I : obs[j].slot <= obs[m].slot
  BY LastObservation DEF Sound
<1> HIDE DEF m
<1>2. l \in E
  <2>1. m \in E
    BY <1>1
  <2>3. I \subseteq Nat
    BY TwapAssumption DEF ObservationSlots
  <2>4. E \subseteq Nat
    BY <2>3
  <2>2. l = CHOOSE i \in E : \A j \in E : i <= j
    BY DEF Sdk!latest, Sdk!first
  <2> HIDE DEF E, l
  <2> QED BY <2>1, <2>2, <2>4, LeastNat
<1> HIDE DEF l
<1>3. l \in I /\ obs[l].slot <= obs[m].slot /\ obs[m].slot <= obs[l].slot
  BY <1>1, <1>2
<1>4. /\ obs[l].slot \in Nat /\ obs[m].slot \in Nat
      /\ obs[l].cumulative_mid \in Nat /\ obs[m].cumulative_mid \in Nat
  BY <1>1, <1>3, ReadingFacts
<1>5. Climbs(H, obs[l], obs[m]) /\ Climbs(H, obs[m], obs[l])
  BY <1>1, <1>3 DEF Sound
<1>6. /\ l \in I /\ obs[l].slot = obs[m].slot
      /\ obs[l].cumulative_mid = obs[m].cumulative_mid
  <2>1. /\ obs[l].cumulative_mid <= obs[m].cumulative_mid
        /\ obs[m].cumulative_mid <= obs[l].cumulative_mid
    BY <1>5 DEF Climbs
  <2> QED BY <1>3, <1>4, <2>1
<1> QED BY <1>6 DEF l, m

LEMMA SameEarliest ==
    ASSUME NEW H \in Nat, NEW now \in Nat, NEW obs, Sound(obs, H, now),
           NEW I \in SUBSET ObservationSlots, I # {}
    PROVE  /\ Sdk!earliest(obs, I) \in I
           /\ obs[Sdk!earliest(obs, I)].slot = obs[min_by_slot(obs, I)].slot
           /\ obs[Sdk!earliest(obs, I)].cumulative_mid
                = obs[min_by_slot(obs, I)].cumulative_mid
<1> DEFINE m == min_by_slot(obs, I)
           E == {i \in I : \A j \in I : obs[j].slot >= obs[i].slot}
           l == Sdk!earliest(obs, I)
<1>1. m \in I /\ \A j \in I : obs[j].slot >= obs[m].slot
  BY FirstObservation DEF Sound
<1> HIDE DEF m
<1>2. l \in E
  <2>1. m \in E
    BY <1>1
  <2>3. I \subseteq Nat
    BY TwapAssumption DEF ObservationSlots
  <2>4. E \subseteq Nat
    BY <2>3
  <2>2. l = CHOOSE i \in E : \A j \in E : i <= j
    BY DEF Sdk!earliest, Sdk!first
  <2> HIDE DEF E, l
  <2> QED BY <2>1, <2>2, <2>4, LeastNat
<1> HIDE DEF l
<1>3. l \in I /\ obs[l].slot >= obs[m].slot /\ obs[m].slot >= obs[l].slot
  BY <1>1, <1>2
<1>4. /\ obs[l].slot \in Nat /\ obs[m].slot \in Nat
      /\ obs[l].cumulative_mid \in Nat /\ obs[m].cumulative_mid \in Nat
  BY <1>1, <1>3, ReadingFacts
<1>5. Climbs(H, obs[l], obs[m]) /\ Climbs(H, obs[m], obs[l])
  BY <1>1, <1>3, <1>4 DEF Sound
<1>6. /\ l \in I /\ obs[l].slot = obs[m].slot
      /\ obs[l].cumulative_mid = obs[m].cumulative_mid
  <2>1. /\ obs[l].cumulative_mid <= obs[m].cumulative_mid
        /\ obs[m].cumulative_mid <= obs[l].cumulative_mid
    BY <1>5 DEF Climbs
  <2> QED BY <1>3, <1>4, <2>1
<1> QED BY <1>6 DEF l, m

LEMMA SameLine ==
    ASSUME NEW lo, NEW hi, NEW low, NEW high, NEW t \in Nat,
           lo.slot \in Nat, hi.slot \in Nat,
           lo.cumulative_mid \in Nat, hi.cumulative_mid \in Nat,
           low.slot = lo.slot, high.slot = hi.slot,
           low.cumulative_mid = lo.cumulative_mid, high.cumulative_mid = hi.cumulative_mid,
           lo.slot <= t, lo.cumulative_mid <= hi.cumulative_mid
    PROVE  Same(interpolate(lo, hi, t), Sdk!interpolate(low, high, t))
<1> DEFINE cum == lo.cumulative_mid
                  + (((hi.cumulative_mid - lo.cumulative_mid) * (t - lo.slot))
                       \div (hi.slot - lo.slot))
<1>1. interpolate(lo, hi, t) = IF hi.slot <= lo.slot THEN None ELSE Some(cum)
  BY DEF interpolate
<1>2. Sdk!interpolate(low, high, t)
        = IF hi.slot <= lo.slot THEN Sdk!null ELSE Sdk!defined(cum)
  <2>1. ~(t < low.slot) /\ ~(Sdk!Rise(low, high) < 0)
    BY DEF Sdk!Rise
  <2>2. Sdk!Rise(low, high) = hi.cumulative_mid - lo.cumulative_mid
    BY DEF Sdk!Rise
  <2> QED BY <2>1, <2>2 DEF Sdk!interpolate
<1> HIDE DEF cum
<1> QED BY <1>1, <1>2 DEF Same, None, Some, Sdk!null, Sdk!defined

(* Whichever of several observations of a slot each of them keeps, the SDK    *)
(* and the program read the same accumulator.                                 *)
LEMMA SameReading ==
    ASSUME NEW H \in Nat, NEW now \in Nat, NEW obs, Sound(obs, H, now), NEW t \in Nat
    PROVE  Same(cumulative_at(obs, t), Sdk!cumulativeAt(obs, t))
<1> DEFINE exact == {i \in ObservationSlots : obs[i].slot = t}
           before == {i \in ObservationSlots : obs[i].slot < t}
           after == {i \in ObservationSlots : obs[i].slot > t}
           m == max_by_slot(obs, before)
           earlier == {i \in ObservationSlots : obs[i].slot < obs[m].slot}
           l == Sdk!latest(obs, before)
           prev == {i \in ObservationSlots : obs[i].slot < obs[l].slot}
           at == cumulative_at(obs, t)
           sdk == Sdk!cumulativeAt(obs, t)
<1>1. DOMAIN obs = ObservationSlots
  BY DEF Sound
<1>2. \A i \in ObservationSlots : obs[i].slot \in Nat /\ obs[i].cumulative_mid \in Nat
  BY ReadingFacts
<1>3. \A i, j \in ObservationSlots :
        obs[i].slot <= obs[j].slot => obs[i].cumulative_mid <= obs[j].cumulative_mid
  BY DEF Sound, Climbs
<1>4. sdk = IF exact # {} THEN Sdk!defined(obs[Sdk!first(exact)].cumulative_mid)
            ELSE IF before = {} THEN Sdk!null
            ELSE IF after # {} THEN Sdk!interpolate(obs[l], obs[Sdk!earliest(obs, after)], t)
            ELSE IF prev = {} THEN Sdk!null
            ELSE Sdk!interpolate(obs[Sdk!latest(obs, prev)], obs[l], t)
  BY <1>1 DEF Sdk!cumulativeAt
<1> HIDE DEF sdk
<1>5. CASE exact # {}
  <2>1. at = Some(obs[Sdk!first(exact)].cumulative_mid)
    BY <1>5 DEF cumulative_at, Sdk!first
  <2>2. sdk = Sdk!defined(obs[Sdk!first(exact)].cumulative_mid)
    BY <1>4, <1>5
  <2> HIDE DEF at, exact
  <2> QED BY <2>1, <2>2 DEF Same, Some, Sdk!defined, at, sdk
<1>6. CASE exact = {} /\ before = {}
  <2>1. at = None
    BY <1>6 DEF cumulative_at
  <2>2. sdk = Sdk!null
    BY <1>4, <1>6
  <2> QED BY <2>1, <2>2 DEF Same, None, Sdk!null, sdk
<1>7. ASSUME before # {}
      PROVE  /\ l \in before /\ m \in before /\ obs[l].slot = obs[m].slot
             /\ obs[l].cumulative_mid = obs[m].cumulative_mid
             /\ \A i \in before : obs[i].slot <= obs[m].slot
  <2>1. before \in SUBSET ObservationSlots
    OBVIOUS
  <2>2. obs \in [ObservationSlots -> Observation]
    BY DEF Sound
  <2> HIDE DEF before
  <2> QED BY <1>7, <2>1, <2>2, SameLatest, LastObservation
<1>8. CASE exact = {} /\ before # {} /\ after # {}
  <2> DEFINE f == min_by_slot(obs, after)
             e == Sdk!earliest(obs, after)
  <2>1. at = interpolate(obs[m], obs[f], t)
    BY <1>8 DEF cumulative_at
  <2>2. sdk = Sdk!interpolate(obs[l], obs[e], t)
    BY <1>4, <1>8
  <2>3. /\ e \in after /\ f \in after /\ obs[e].slot = obs[f].slot
        /\ obs[e].cumulative_mid = obs[f].cumulative_mid
    <3>1. after \in SUBSET ObservationSlots
      OBVIOUS
    <3>2. obs \in [ObservationSlots -> Observation]
      BY DEF Sound
    <3> HIDE DEF after
    <3> QED BY <1>8, <3>1, <3>2, SameEarliest, FirstObservation
  <2> HIDE DEF f, e, m, l
  <2>4. /\ m \in ObservationSlots /\ f \in ObservationSlots
        /\ obs[m].slot < t /\ obs[f].slot > t
        /\ obs[l].slot = obs[m].slot /\ obs[l].cumulative_mid = obs[m].cumulative_mid
    BY <1>7, <1>8, <2>3
  <2>5. obs[m].cumulative_mid <= obs[f].cumulative_mid /\ obs[m].slot <= t
    BY <1>2, <1>3, <2>4
  <2>6. Same(interpolate(obs[m], obs[f], t), Sdk!interpolate(obs[l], obs[e], t))
    BY <1>2, <2>3, <2>4, <2>5, SameLine
  <2> HIDE DEF at
  <2> QED BY <2>1, <2>2, <2>6 DEF at, sdk
<1>9. CASE exact = {} /\ before # {} /\ after = {}
  <2> DEFINE p == max_by_slot(obs, earlier)
             e == Sdk!latest(obs, prev)
  <2>1. at = IF earlier = {} THEN None ELSE interpolate(obs[p], obs[m], t)
    BY <1>9 DEF cumulative_at
  <2>2. sdk = IF prev = {} THEN Sdk!null ELSE Sdk!interpolate(obs[e], obs[l], t)
    BY <1>4, <1>9
  <2> HIDE DEF m, l
  <2>3. prev = earlier
    BY <1>7, <1>9
  <2>4. CASE earlier = {}
    <3>1. at = None /\ sdk = Sdk!null
      BY <2>1, <2>2, <2>3, <2>4
    <3> QED BY <3>1 DEF Same, None, Sdk!null, sdk
  <2>5. CASE earlier # {}
    <3>1. /\ e \in earlier /\ p \in earlier /\ obs[e].slot = obs[p].slot
          /\ obs[e].cumulative_mid = obs[p].cumulative_mid
      <4>1. earlier \in SUBSET ObservationSlots
        OBVIOUS
      <4>2. obs \in [ObservationSlots -> Observation]
        BY DEF Sound
      <4>3. e = Sdk!latest(obs, earlier)
        BY <2>3
      <4> HIDE DEF earlier, prev, e
      <4> QED BY <2>5, <4>1, <4>2, <4>3, SameLatest, LastObservation
    <3> HIDE DEF p, e
    <3>2. /\ m \in ObservationSlots /\ p \in ObservationSlots
          /\ obs[p].slot < obs[m].slot /\ obs[m].slot < t
          /\ obs[l].slot = obs[m].slot /\ obs[l].cumulative_mid = obs[m].cumulative_mid
      BY <1>7, <1>9, <3>1
    <3>3. obs[p].cumulative_mid <= obs[m].cumulative_mid /\ obs[p].slot <= t
      BY <1>2, <1>3, <3>2
    <3>4. Same(interpolate(obs[p], obs[m], t), Sdk!interpolate(obs[e], obs[l], t))
      BY <1>2, <3>1, <3>2, <3>3, SameLine
    <3>5. at = interpolate(obs[p], obs[m], t) /\ sdk = Sdk!interpolate(obs[e], obs[l], t)
      BY <2>1, <2>2, <2>3, <2>5
    <3> HIDE DEF at
    <3> QED BY <3>4, <3>5 DEF at, sdk
  <2> QED BY <2>4, <2>5
<1> QED BY <1>5, <1>6, <1>8, <1>9

(* The reference price a trader is shown by the SDK is the one the program    *)
(* liquidates by, for every window, in every reachable ring (twap in both).   *)
THEOREM SdkReadsTheSameTwap == HSpec => []SdkTwapAgrees
<1>1. ASSUME HInv, NEW window \in 0..MAX_SLOT
      PROVE  Sdk!twap(observations, window, slot)
               = LET mark == twap(observations, window, slot)
                 IN  IF mark = NoTwap THEN Sdk!null ELSE Sdk!defined(mark)
  <2> DEFINE high == cumulative_at(observations, slot)
             low == cumulative_at(observations, slot - window)
             top == Sdk!cumulativeAt(observations, slot)
             bottom == Sdk!cumulativeAt(observations, slot - window)
             mark == twap(observations, window, slot)
             shown == Sdk!twap(observations, window, slot)
             none == \/ window = 0 \/ slot < window
                     \/ ~high.ok \/ ~low.ok \/ high.cum < low.cum
  <2>1. /\ slot \in Nat /\ window \in Nat
        /\ highest_mid \in Nat /\ Sound(observations, highest_mid, slot)
    BY <1>1 DEF HInv, IInv
  <2>2. mark = IF none THEN NoTwap ELSE (high.cum - low.cum) \div window
    BY DEF twap
  <2>3. shown = IF \/ window = 0 \/ slot < window
                   \/ ~top.ok \/ ~bottom.ok \/ top.value - bottom.value < 0
                THEN Sdk!null ELSE Sdk!defined((top.value - bottom.value) \div window)
    BY DEF Sdk!twap
  <2>4. CASE window = 0 \/ slot < window
    BY <2>2, <2>3, <2>4
  <2>5. CASE window # 0 /\ ~(slot < window)
    <3>1. slot - window \in Nat
      BY <2>1, <2>5
    <3>2. Same(high, top) /\ Same(low, bottom)
      BY <2>1, <3>1, SameReading
    <3>3. CASE ~high.ok \/ ~low.ok
      BY <2>2, <2>3, <3>2, <3>3 DEF Same
    <3>4. CASE high.ok /\ low.ok
      <4>1. high.cum \in Int /\ low.cum \in Int /\ high.cum = top.value /\ low.cum = bottom.value
        <5>1. slot - window < slot
          BY <2>1, <2>5
        <5>2. high.cum \in Int /\ low.cum \in Int
          BY <2>1, <3>1, <3>4, <5>1, ReadingsClimb
        <5> HIDE DEF high, low, top, bottom
        <5> QED BY <3>2, <3>4, <5>2 DEF Same
      <4> DEFINE rise == high.cum - low.cum
      <4>2. top.value - bottom.value = rise /\ rise \in Int /\ (rise < 0) = (high.cum < low.cum)
        BY <4>1
      <4>3. CASE rise < 0
        BY <2>2, <2>3, <4>2, <4>3
      <4>4. CASE ~(rise < 0)
        <5>1. /\ mark = rise \div window
              /\ shown = Sdk!defined(rise \div window)
          <6> HIDE DEF high, low, top, bottom, mark, shown
          <6> QED BY <2>2, <2>3, <2>5, <3>2, <3>4, <4>2, <4>4 DEF Same
        <5>2. 0 <= rise \div window
          <6>1. window \in Nat \ {0} /\ window * 0 <= rise
            BY <2>1, <2>5, <4>2, <4>4
          <6> HIDE DEF rise
          <6> QED BY <4>2, <6>1, DivAtLeast
        <5> HIDE DEF mark, shown
        <5>3. mark # NoTwap
          BY <5>1, <5>2 DEF NoTwap
        <5>4. shown = Sdk!defined(mark)
          BY <5>1
        <5> QED BY <5>3, <5>4 DEF mark, shown
      <4> QED BY <4>3, <4>4
    <3> QED BY <3>3, <3>4
  <2> QED BY <2>4, <2>5
<1>2. HInv => SdkTwapAgrees
  BY <1>1 DEF SdkTwapAgrees
<1> QED BY <1>2, HInitSound, HStepSound, PTL DEF HSpec
=============================================================================
