---------------------------- MODULE MarketProof ----------------------------
(* Proofs about the whole program: that what its instructions do to ledgers   *)
(* and positions is what Accounts allows, whatever accounts they are passed;  *)
(* that fills are booked once; and that longs and shorts stay in balance.     *)
(* What the book's steps do to the ring of events is proved in MatchProof,    *)
(* which is instantiated here with the orders the instructions send the book. *)
EXTENDS Market, SettlementProof, FiniteSetTheorems

-----------------------------------------------------------------------------
(* The book's theorems, for every order that the instructions send it *)

ClosingOrders ==
    {ClosingOrder(owner, side, size) : owner \in Users, side \in Sides, size \in Sizes}
MarketOrders == Requests \cup Openings \cup ClosingOrders
Proven == INSTANCE MatchProof WITH Owners <- Users, Requests <- MarketOrders

LEMMA BookAssumed ==
    /\ {MAX_ORDERS_PER_SIDE, MAX_MATCH_STEPS, EVENT_QUEUE_LEN, CRANK_BATCH_LEN}
         \subseteq Nat \ {0}
    /\ LIQUIDATION_TWAP_WINDOW \in Nat \ {0}
    /\ MAX_SEQ \in Nat /\ MAX_SLOT \in Nat \ {0}
    /\ MarketOrders # {}
    /\ MarketOrders \subseteq
         [owner : Users, side : Proven!Sides, price : Nat, size : Nat \ {0}]
    /\ TWAP_OBSERVATIONS \in Nat \ {0}
    /\ Proven!BatchFits
<1>1. U64 \subseteq Nat
  BY WidthAssumption DEF U64
<1>2. ClosingOrders \subseteq
        [owner : Users, side : Proven!Sides, price : Nat, size : Nat \ {0}]
  BY <1>1, OrderAssumption
     DEF ClosingOrders, ClosingOrder, ClosingSide, BookSide, Book!Opposite, Proven!Sides
<1>3. Requests \cup Openings \subseteq
        [owner : Users, side : Proven!Sides, price : Nat, size : Nat \ {0}]
  BY <1>1, OrderAssumption DEF Proven!Sides
<1> QED BY <1>1, <1>2, <1>3, OrderAssumption DEF MarketOrders, Proven!BatchFits

(* Market's book and the book of those theorems are the same, from the prices *)
(* up to the instructions.                                                    *)
LEMMA SamePrices ==
    /\ \A b, o : Book!would_cross(b, o) = Proven!would_cross(b, o)
    /\ \A b : Book!mid(b) = Proven!mid(b)
<1>1. \A b, side : Book!best_price(b, side) = Proven!best_price(b, side)
  BY DEF Book!best_price, Proven!best_price, Book!PricesOf, Proven!PricesOf,
         Book!price_better, Proven!price_better
<1>2. \A b, o : Book!would_cross(b, o) = Proven!would_cross(b, o)
  BY <1>1 DEF Book!would_cross, Proven!would_cross, Book!Opposite, Proven!Opposite,
              Book!is_crossable, Proven!is_crossable
<1>3. \A b : Book!mid(b) = Proven!mid(b)
  BY <1>1 DEF Book!mid, Proven!mid, Book!NoMid, Proven!NoMid
<1> QED BY <1>2, <1>3

LEMMA SameMatch ==
    /\ \A b, o : Book!match_limit(b, o) = Proven!match_limit(b, o)
    /\ \A b, o : Book!match_market(b, o) = Proven!match_market(b, o)
<1>1. ASSUME NEW b, NEW o, NEW kind, NEW n
      PROVE  Book!match_order(b, o, kind, n) = Proven!match_order(b, o, kind, n)
  BY DEF Book!match_order, Proven!match_order, Book!MatchTurn, Proven!MatchTurn,
         Book!MatchDone, Proven!MatchDone, Book!MatchOutcome, Proven!MatchOutcome,
         Book!FillMaker, Proven!FillMaker, Book!Reduce, Proven!Reduce,
         Book!Remove, Proven!Remove, Book!Opposite, Proven!Opposite,
         Book!crossable_makers, Proven!crossable_makers,
         Book!is_crossable, Proven!is_crossable,
         Book!best_crossable_maker, Proven!best_crossable_maker,
         Book!best_maker, Proven!best_maker, Book!better_maker, Proven!better_maker,
         Book!price_better, Proven!price_better
<1> QED BY <1>1 DEF Book!match_limit, Proven!match_limit, Book!match_market,
                    Proven!match_market, Book!Opposite, Proven!Opposite

LEMMA SameRing ==
    /\ \A r, n : Book!HasRoom(r, n) = Proven!HasRoom(r, n)
    /\ \A r, e : Book!append_event(r, e) = Proven!append_event(r, e)
    /\ \A r, fills, o : Book!emit_fill_events(r, fills, o) = Proven!emit_fill_events(r, fills, o)
    /\ Book!ring = Proven!ring
<1>1. \A r, n : Book!HasRoom(r, n) = Proven!HasRoom(r, n)
  BY DEF Book!HasRoom, Proven!HasRoom, Book!queued, Proven!queued
<1>2. \A r, e : Book!append_event(r, e) = Proven!append_event(r, e)
  BY <1>1 DEF Book!append_event, Proven!append_event
<1>3. ASSUME NEW r, NEW fills, NEW o
      PROVE  Book!emit_fill_events(r, fills, o) = Proven!emit_fill_events(r, fills, o)
  BY DEF Book!emit_fill_events, Proven!emit_fill_events,
         Book!append_event, Proven!append_event, Book!HasRoom, Proven!HasRoom,
         Book!queued, Proven!queued, Book!Event, Proven!Event, Book!Opposite, Proven!Opposite
<1>4. Book!ring = Proven!ring
  BY DEF Book!ring, Proven!ring
<1> QED BY <1>1, <1>2, <1>3, <1>4

LEMMA SameTakers ==
    /\ \A b, r, o : Book!match_limit_taker(b, r, o) = Proven!match_limit_taker(b, r, o)
    /\ \A b, r, o : Book!match_open_taker(b, r, o) = Proven!match_open_taker(b, r, o)
<1>1. ASSUME NEW out, NEW o
      PROVE  /\ Book!SelfTrade(out, o) = Proven!SelfTrade(out, o)
             /\ Book!BookAfter(out, o) = Proven!BookAfter(out, o)
             /\ Book!Deferred(out, o) = Proven!Deferred(out, o)
             /\ Book!EventsNeeded(out) = Proven!EventsNeeded(out)
  BY SamePrices
     DEF Book!SelfTrade, Proven!SelfTrade, Book!Rests, Proven!Rests,
         Book!Remainder, Proven!Remainder, Book!BookAfter, Proven!BookAfter,
         Book!RestRemainder, Proven!RestRemainder, Book!HasSpace, Proven!HasSpace,
         Book!post_limit, Proven!post_limit, Book!Resting, Proven!Resting,
         Book!Deferred, Proven!Deferred, Book!Event, Proven!Event,
         Book!ResidualSize, Proven!ResidualSize, Book!Nobody, Proven!Nobody,
         Book!EventsNeeded, Proven!EventsNeeded
<1>2. \A b, r, o : Book!match_limit_taker(b, r, o) = Proven!match_limit_taker(b, r, o)
  BY <1>1, SameMatch, SameRing
     DEF Book!match_limit_taker, Proven!match_limit_taker, Book!settle_limit,
         Proven!settle_limit
<1>3. \A b, r, o : Book!match_open_taker(b, r, o) = Proven!match_open_taker(b, r, o)
  BY <1>1, SameMatch, SameRing
     DEF Book!match_open_taker, Proven!match_open_taker, Book!settle_open, Proven!settle_open
<1> QED BY <1>2, <1>3

LEMMA SameSaves ==
    /\ \A b : Book!Save(b) = Proven!Save(b)
    /\ \A r : Book!SaveRing(r) = Proven!SaveRing(r)
    /\ \A b, q : Book!Order(b, q) = Proven!Order(b, q)
    /\ \A b : Book!take_next_seq(b) = Proven!take_next_seq(b)
    /\ \A o : Book!rest_order(o) = Proven!rest_order(o)
    /\ \A o, taken : Book!cross_limit(o, taken) = Proven!cross_limit(o, taken)
<1>1. \A obs, idx, m, now :
        Book!record_observation(obs, idx, m, now) = Proven!record_observation(obs, idx, m, now)
  BY DEF Book!record_observation, Proven!record_observation, Book!Written, Proven!Written,
         Book!last_observation, Proven!last_observation, Book!max_by_slot, Proven!max_by_slot,
         Book!contribution, Proven!contribution, Book!Elapsed, Proven!Elapsed,
         Book!NoMid, Proven!NoMid, Book!ObservationSlots, Proven!ObservationSlots
<1>2. \A b : Book!Save(b) = Proven!Save(b)
  BY <1>1, SamePrices DEF Book!Save, Proven!Save
<1>3. \A r : Book!SaveRing(r) = Proven!SaveRing(r)
  BY DEF Book!SaveRing, Proven!SaveRing
<1>4. /\ \A b, q : Book!Order(b, q) = Proven!Order(b, q)
      /\ \A b : Book!take_next_seq(b) = Proven!take_next_seq(b)
  BY DEF Book!Order, Proven!Order, Book!take_next_seq, Proven!take_next_seq
<1>5. \A o : Book!rest_order(o) = Proven!rest_order(o)
  BY <1>2, <1>4, SamePrices
     DEF Book!rest_order, Proven!rest_order, Book!HasSpace, Proven!HasSpace,
         Book!post_limit, Proven!post_limit, Book!Resting, Proven!Resting,
         Book!ringVars, Proven!ringVars
<1>6. \A o, taken : Book!cross_limit(o, taken) = Proven!cross_limit(o, taken)
  BY <1>2, <1>3, SamePrices DEF Book!cross_limit, Proven!cross_limit
<1> QED BY <1>2, <1>3, <1>4, <1>5, <1>6

LEMMA SameInstructions ==
    /\ \A q : Book!place_limit_order(q) => Proven!place_limit_order(q)
    /\ \A q : Book!place_market_order(q) => Proven!place_market_order(q)
    /\ \A q : Book!open_position(q) => Proven!open_position(q)
    /\ \A q : Book!close_position(q) => Proven!close_position(q)
    /\ \A side, i : Book!cancel_order(side, i) => Proven!cancel_order(side, i)
<1>1. \A o : Book!cross_market(o) = Proven!cross_market(o)
  BY SameSaves, SameMatch, SameRing
     DEF Book!cross_market, Proven!cross_market, Book!take_market, Proven!take_market
<1>2. \A q : /\ Book!place_limit_order(q) => Proven!place_limit_order(q)
             /\ Book!open_position(q) => Proven!open_position(q)
  BY <1>1, SameSaves, SameTakers, SameRing
     DEF Book!place_limit_order, Proven!place_limit_order,
         Book!open_position, Proven!open_position
<1>3. \A q : /\ Book!place_market_order(q) => Proven!place_market_order(q)
             /\ Book!close_position(q) => Proven!close_position(q)
  BY <1>1, SameSaves
     DEF Book!place_market_order, Proven!place_market_order,
         Book!close_position, Proven!close_position
<1>4. \A side, i : Book!cancel_order(side, i) => Proven!cancel_order(side, i)
  BY SameSaves, SameRing
     DEF Book!cancel_order, Proven!cancel_order, Book!Remove, Proven!Remove,
         Book!Event, Proven!Event, Book!Nobody, Proven!Nobody
<1> QED BY <1>2, <1>3, <1>4

(* The crank: one event, and then the batch, which both define by recursion. *)
LEMMA SameCrank == Book!crank => Proven!crank
<1> DEFINE Drain(s) == IF Book!queued(s.ring) = 0 THEN s ELSE Book!drain_one(s)
           DrainP(s) == IF Proven!queued(s.ring) = 0 THEN s ELSE Proven!drain_one(s)
           first == [book |-> book, ring |-> Proven!ring, dirty |-> FALSE]
           Runs(f) == f = [k \in 0..CRANK_BATCH_LEN |-> IF k = 0 THEN first ELSE Drain(f[k - 1])]
           RunsP(f) == f = [k \in 0..CRANK_BATCH_LEN |-> IF k = 0 THEN first ELSE DrainP(f[k - 1])]
<1>1. \A s : Book!drain_one(s) = Proven!drain_one(s)
  BY SameSaves, SameTakers, SameMatch, SameRing
     DEF Book!drain_one, Proven!drain_one, Book!NextEvent, Proven!NextEvent, Book!Pop, Proven!Pop,
         Book!ResumeFits, Proven!ResumeFits, Book!EventsNeeded, Proven!EventsNeeded,
         Book!resume, Proven!resume, Book!Resumed, Proven!Resumed
<1>2. \A s : Drain(s) = DrainP(s)
  BY <1>1 DEF Book!queued, Proven!queued
<1> HIDE DEF Drain, DrainP, first
<1>3. ASSUME NEW f PROVE Runs(f) <=> RunsP(f)
  <2>1. [k \in 0..CRANK_BATCH_LEN |-> IF k = 0 THEN first ELSE Drain(f[k - 1])]
          = [k \in 0..CRANK_BATCH_LEN |-> IF k = 0 THEN first ELSE DrainP(f[k - 1])]
    BY <1>2
  <2> QED BY <2>1
<1>4. \A f : Runs(f) <=> RunsP(f)
  BY <1>3
<1> HIDE DEF Runs, RunsP
<1>5. (CHOOSE f : Runs(f)) = (CHOOSE f : RunsP(f))
  BY <1>4
<1>6. Book!drain_events = (CHOOSE f : Runs(f))[CRANK_BATCH_LEN]
  BY SameRing DEF Book!drain_events, Runs, Drain, first
<1>7. Proven!drain_events = (CHOOSE f : RunsP(f))[CRANK_BATCH_LEN]
  BY DEF Proven!drain_events, RunsP, DrainP, first
<1>8. Book!drain_events = Proven!drain_events
  BY <1>5, <1>6, <1>7
<1> QED BY <1>8, SameSaves, SameRing
        DEF Book!crank, Proven!crank, Book!SaveDrained, Proven!SaveDrained,
            Book!queued, Proven!queued, Book!twapVars, Proven!twapVars

-----------------------------------------------------------------------------
(* The ring as the accounts see it *)

(* A remainder is known by being one. *)
LEMMA RemainderIs ==
    ASSUME NEW len \in Nat \ {0}, NEW x \in Int, NEW y \in Int, NEW r \in 0..(len - 1),
           x = (len * y) + r
    PROVE  x % len = r
<1> DEFINE p == x \div len
           m == x % len
<1>1. x = (len * p) + m /\ p \in Int /\ m \in 0..(len - 1)
  OBVIOUS
<1> HIDE DEF p, m
<1>2. len * (p - y) = r - m
  BY <1>1, Z3
<1>3. -len < r - m /\ r - m < len
  BY <1>1
<1>4. CASE p - y >= 1
  <2>1. len * (p - y) >= len
    BY <1>1, <1>4, Z3
  <2> QED BY <1>1, <1>2, <1>3, <2>1
<1>5. CASE p - y <= -1
  <2>1. len * (y - p) >= len
    BY <1>1, <1>5, Z3
  <2>2. len * (p - y) = -(len * (y - p))
    BY <1>1, Z3
  <2> QED BY <1>1, <1>2, <1>3, <2>1, <2>2
<1>6. CASE p = y
  BY <1>1, <1>2, <1>6 DEF m
<1> QED BY <1>1, <1>4, <1>5, <1>6

(* The d-th slot from the one that w is written to is the one of w + d.       *)
LEMMA RingTurns ==
    ASSUME NEW len \in Nat \ {0}, NEW w \in Nat, NEW d \in Nat
    PROVE  /\ w % len \in 0..(len - 1) /\ (w + d) % len \in 0..(len - 1)
           /\ ((w % len) + d) % len = (w + d) % len
           /\ d < len => (((w + d) % len) - (w % len)) % len = d
<1> DEFINE q == w \div len
           c == w % len
           v == w + d
           p == v \div len
           r == v % len
<1>1. w = (len * q) + c /\ q \in Int /\ c \in 0..(len - 1)
  OBVIOUS
<1>2. v = (len * p) + r /\ p \in Int /\ r \in 0..(len - 1)
  OBVIOUS
<1>3. v = w + d
  OBVIOUS
<1> HIDE DEF q, c, v, p, r
<1>4. (c + d) % len = r
  <2>1. c + d = (len * (p - q)) + r
    BY <1>1, <1>2, <1>3, Z3
  <2>2. c + d \in Int /\ p - q \in Int
    BY <1>1, <1>2
  <2> QED BY <1>2, <2>1, <2>2, RemainderIs
<1>5. ASSUME d < len PROVE (r - c) % len = d
  <2>1. r - c = (len * (q - p)) + d
    BY <1>1, <1>2, <1>3, Z3
  <2>2. r - c \in Int /\ q - p \in Int /\ d \in 0..(len - 1)
    BY <1>1, <1>2, <1>5
  <2> QED BY <2>1, <2>2, RemainderIs
<1> QED BY <1>1, <1>2, <1>4, <1>5 DEF c, v, r

(* Every slot is the d-th from w for one d.                                   *)
LEMMA RingReached ==
    ASSUME NEW len \in Nat \ {0}, NEW w \in Nat, NEW i \in 0..(len - 1)
    PROVE  /\ (i - (w % len)) % len \in 0..(len - 1)
           /\ (w + ((i - (w % len)) % len)) % len = i
<1> DEFINE q == w \div len
           c == w % len
           x == i - c
           p == x \div len
           d == x % len
<1>1. w = (len * q) + c /\ q \in Int /\ c \in 0..(len - 1)
  OBVIOUS
<1>2. x = i - c /\ x \in Int
  BY <1>1
<1>3. x = (len * p) + d /\ p \in Int /\ d \in 0..(len - 1)
  BY <1>2
<1> HIDE DEF q, c, x, p, d
<1>4. w + d = (len * (q - p)) + i
  BY <1>1, <1>2, <1>3, Z3
<1>5. w + d \in Int /\ q - p \in Int
  BY <1>1, <1>3
<1>6. (w + d) % len = i
  BY <1>4, <1>5, RemainderIs
<1> QED BY <1>3, <1>6 DEF d, x, c

L == EVENT_QUEUE_LEN                                    \* the ring's length
Stamps == [seq : Nat, entry : [n : U64, d : U64], settled : {0, 1}]

LEMMA SameSlots ==
    /\ L \in Nat \ {0} /\ RingSlots = 0..(L - 1)
    /\ Proven!RingSlots = RingSlots /\ Bound!Slots = RingSlots
    /\ \A n \in Nat : n % EVENT_QUEUE_LEN \in RingSlots
<1>1. L \in Nat \ {0}
  BY OrderAssumption DEF L
<1>2. \A n \in Nat : n % EVENT_QUEUE_LEN \in 0..(EVENT_QUEUE_LEN - 1)
  BY <1>1 DEF L
<1> QED BY <1>1, <1>2 DEF L, RingSlots, Proven!RingSlots, Bound!Slots

(* What a step appends: at most one event in each slot.                       *)
LEMMA AppendedFacts ==
    ASSUME Proven!Appends
    PROVE  /\ event_write_cursor \in Nat /\ event_write_cursor' \in Nat
           /\ \A n \in Appended : n \in Nat /\ n % L \in RingSlots
           /\ \A m, n \in Appended : m % L = n % L => m = n
           /\ \A i \in RingSlots : (\A n \in Appended : n % L # i) => events'[i] = events[i]
<1>1. PICK v : v = event_write_cursor'
  OBVIOUS
<1>2. /\ event_write_cursor \in Nat /\ v \in Nat
      /\ v <= event_write_cursor + L /\ L \in Nat \ {0}
      /\ Appended = event_write_cursor..(v - 1)
  BY <1>1, SameSlots DEF Proven!Appends, L, Appended
<1>3. ASSUME NEW m \in Appended, NEW n \in Appended
      PROVE  m \in Nat /\ n \in Nat /\ (m < n => m % L # n % L)
  <2>1. m \in Nat /\ n \in Nat /\ n - m < L
    BY <1>2
  <2> QED BY <1>2, <2>1, Proven!Apart, BookAssumed
<1>4. ASSUME NEW m \in Appended, NEW n \in Appended, m % L = n % L PROVE m = n
  <2>1. m \in Nat /\ n \in Nat /\ ~(m < n) /\ ~(n < m)
    BY <1>3, <1>4
  <2> QED BY <2>1
<1>5. \A i \in RingSlots : (\A n \in Appended : n % L # i) => events'[i] = events[i]
  BY SameSlots DEF Proven!Appends, Proven!Appended, Appended, L
<1>6. ASSUME NEW n \in Appended PROVE n \in Nat /\ n % L \in RingSlots
  BY <1>3, SameSlots DEF L
<1> QED BY <1>1, <1>2, <1>4, <1>5, <1>6

(* Each of them is stamped once, and no other slot is touched.                *)
LEMMA StampedFacts ==
    ASSUME Proven!Appends, NEW pool, Stamped(pool)
    PROVE  /\ \A n \in Appended : stamp'[n % L] = StampOf(n, pool)
           /\ \A i \in RingSlots : (\A n \in Appended : n % L # i) => stamp'[i] = stamp[i]
<1> DEFINE Written(i) == {n \in Appended : n % L = i}
           Latest(i) == CHOOSE n \in Written(i) : \A m \in Written(i) : m <= n
<1>1. \A i \in RingSlots :
        stamp'[i] = IF Written(i) = {} THEN stamp[i] ELSE StampOf(Latest(i), pool)
  BY DEF Stamped, L
<1>2. ASSUME NEW n \in Appended PROVE stamp'[n % L] = StampOf(n, pool)
  <2>1. n \in Nat /\ n % L \in RingSlots
    BY AppendedFacts
  <2>2. Written(n % L) = {n}
    BY AppendedFacts
  <2>3. Latest(n % L) = n
    BY <2>1, <2>2
  <2> HIDE DEF Latest, Written
  <2> QED BY <1>1, <2>1, <2>2, <2>3
<1> QED BY <1>1, <1>2

(* The batch of events of a step, as the accounts see it.                     *)
NewBatch ==
    [k \in 1..(event_write_cursor' - event_write_cursor) |->
       AccountsEvents'[(event_write_cursor + (k - 1)) % L]]

(* The ring moves as append_events says: the batch over the oldest slots.     *)
LEMMA BatchAppended ==
    ASSUME Proven!Appends, NEW pool, Stamped(pool)
    PROVE  Bound!append_events(NewBatch)
<1>1. PICK w, w1 : w = event_write_cursor /\ w1 = event_write_cursor'
  OBVIOUS
<1> DEFINE N == w1 - w
           c == w % L
<1>2. /\ L \in Nat \ {0} /\ w \in Nat /\ w1 \in Nat /\ N \in 0..L /\ w1 = w + N
  <2>1. /\ L \in Nat \ {0} /\ w \in Nat /\ w1 \in Nat /\ w <= w1 /\ w1 <= w + L
    BY <1>1, SameSlots DEF Proven!Appends, L
  <2> QED BY <2>1
<1>3. /\ Appended = w..(w1 - 1)
      /\ NewBatch = [k \in 1..N |-> AccountsEvents'[(w + (k - 1)) % L]]
  BY <1>1 DEF Appended, NewBatch
<1>4. Len(NewBatch) = N
  BY <1>2, <1>3
<1>5. (c + N) % L = w1 % L
  <2>1. N \in Nat
    BY <1>2
  <2> HIDE DEF N
  <2>2. ((w % L) + N) % L = (w + N) % L
    BY <1>2, <2>1, RingTurns
  <2> QED BY <1>2, <2>2
<1>6. ASSUME NEW i \in RingSlots
      PROVE  AccountsEvents'[i] =
               LET k == ((i - c) % L) + 1
               IN  IF k <= Len(NewBatch) THEN NewBatch[k] ELSE AccountsEvents[i]
  <2> DEFINE d == (i - c) % L
  <2>1. d \in 0..(L - 1) /\ (w + d) % L = i
    <3>1. i \in 0..(L - 1)
      BY SameSlots
    <3> QED BY <1>2, <3>1, RingReached
  <2> HIDE DEF d, c, N
  <2>2. CASE d + 1 <= N
    <3>1. d + 1 \in 1..N /\ (d + 1) - 1 = d
      BY <1>2, <2>1, <2>2
    <3>2. NewBatch[d + 1] = AccountsEvents'[i]
      BY <1>3, <2>1, <3>1
    <3> QED BY <1>4, <2>2, <3>2 DEF d
  <2>3. CASE ~(d + 1 <= N)
    <3>1. ASSUME NEW n \in Appended PROVE n % L # i
      <4> DEFINE e == n - w
      <4>1. n = w + e /\ e \in Nat /\ e < N /\ e < L
        BY <1>2, <1>3 DEF N
      <4> HIDE DEF e
      <4>2. ((n % L) - c) % L = e
        BY <1>2, <4>1, RingTurns DEF c
      <4>3. e # d
        BY <1>2, <2>1, <2>3, <4>1
      <4> QED BY <4>2, <4>3 DEF d
    <3>2. events'[i] = events[i] /\ stamp'[i] = stamp[i]
      BY <3>1, AppendedFacts, StampedFacts
    <3>3. AccountsEvents'[i] = AccountsEvents[i]
      BY <3>2 DEF AccountsEvents, AccountsEvent
    <3> QED BY <1>4, <2>3, <3>3 DEF d
  <2> QED BY <2>2, <2>3
<1>7. AccountsEvents' = [i \in RingSlots |->
         LET k == ((i - c) % L) + 1
         IN  IF k <= Len(NewBatch) THEN NewBatch[k] ELSE AccountsEvents[i]]
  <2> DEFINE f(i) == LET k == ((i - c) % L) + 1
                     IN  IF k <= Len(NewBatch) THEN NewBatch[k] ELSE AccountsEvents[i]
  <2>1. AccountsEvents' = [i \in RingSlots |-> AccountsEvents'[i]]
    BY DEF AccountsEvents
  <2>2. \A i \in RingSlots : AccountsEvents'[i] = f(i)
    BY <1>6
  <2> HIDE DEF f
  <2>3. AccountsEvents' = [i \in RingSlots |-> f(i)]
    BY <2>1, <2>2
  <2> QED BY <2>3 DEF f
<1> HIDE DEF c, N
<1> QED BY <1>1, <1>4, <1>5, <1>7, SameSlots DEF Bound!append_events, L, c

-----------------------------------------------------------------------------
(* The book's own invariant, and what ties it to the accounts: a market is    *)
(* bound to the pool whose rate moves, and an order book to a market.         *)
IInv ==
    /\ Proven!IInv
    /\ rate \in Rates
    /\ stamp \in [RingSlots -> Stamps]
    /\ market # NoMarket => market.index_source = JitoSOL
    /\ has_book => market # NoMarket

(* A fill of a step, as the accounts see it.                                  *)
FillSeen(n) ==
    Bound!NewFill(NewEvent(n).owner, PositionSide(NewEvent(n).side), NewEvent(n).size)

(* Every size the book deals in is one that the accounts may be handed.       *)
LEMMA SizesSeen == Proven!Lots \subseteq Sizes
<1>1. ASSUME NEW q \in MarketOrders PROVE 1..q.size \subseteq Sizes
  <2>1. q.size \in Sizes
    BY OrderAssumption DEF MarketOrders, ClosingOrders, ClosingOrder
  <2> QED BY <2>1, OrderAssumption
<1> QED BY <1>1 DEF Proven!Lots

(* A new event is a fill of a known size for its owner, at the rate read, or  *)
(* one that the accounts pass over.                                           *)
LEMMA SeenFacts ==
    ASSUME Proven!Appends, NEW pool, Stamped(pool), ExchangeRateOf(pool) = rate,
           NEW n \in Appended
    PROVE  /\ NewEvent(n).kind # "Fill" => AccountsEvents'[n % L] = Bound!NoFill
           /\ NewEvent(n).kind = "Fill" =>
                /\ AccountsEvents'[n % L] = FillSeen(n)
                /\ NewEvent(n).owner \in Users /\ NewEvent(n).size \in Sizes
                /\ NewEvent(n).side \in {"Bid", "Ask"}
<1>1. n % L \in RingSlots /\ stamp'[n % L] = StampOf(n, pool)
  BY AppendedFacts, StampedFacts
<1>2. NewEvent(n) = events'[n % L]
  BY DEF NewEvent, L
<1>3. AccountsEvents'[n % L] =
        IF NewEvent(n).kind # "Fill" THEN [kind |-> "Other"]
        ELSE [kind |-> "Fill", owner |-> NewEvent(n).owner, side |-> PositionSide(NewEvent(n).side),
              size |-> NewEvent(n).size, entry |-> stamp'[n % L].entry,
              settled |-> stamp'[n % L].settled]
  BY <1>1, <1>2 DEF AccountsEvents, AccountsEvent
<1>4. ASSUME NewEvent(n).kind = "Fill"
      PROVE  NewEvent(n).owner \in Users /\ NewEvent(n).size \in Sizes
             /\ NewEvent(n).side \in {"Bid", "Ask"}
  <2>1. NewEvent(n) \in Proven!OutEvents \cup {Proven!Unwritten}
    BY <1>1, <1>2, SameSlots DEF Proven!Appends
  <2>2. NewEvent(n) \in Proven!OutEvents
    BY <1>4, <2>1 DEF Proven!Unwritten
  <2> QED BY <2>2, SizesSeen DEF Proven!OutEvents, Proven!OutEvent, Proven!Sides
<1>5. ASSUME NewEvent(n).kind = "Fill" PROVE AccountsEvents'[n % L] = FillSeen(n)
  BY <1>1, <1>3, <1>5 DEF StampOf, FillSeen, Bound!NewFill
<1> QED BY <1>3, <1>4, <1>5 DEF Bound!NoFill

(* Nothing appended leaves the ring as it was.                                *)
LEMMA NothingSeen ==
    ASSUME IInv, Proven!Appends, NEW pool, Stamped(pool), Appended = {}
    PROVE  /\ AccountsEvents' = AccountsEvents
           /\ event_write_cursor' = event_write_cursor
<1>1. events' = events
  <2> DEFINE All == Proven!OutEvents \cup {Proven!Unwritten}
  <2>1. events \in [RingSlots -> All]
    BY SameSlots DEF IInv, Proven!IInv, Proven!Rings, Proven!ring
  <2>2. events' \in [RingSlots -> All]
    BY SameSlots DEF Proven!Appends
  <2>3. \A i \in RingSlots : events'[i] = events[i]
    BY AppendedFacts
  <2> HIDE DEF All
  <2> QED BY <2>1, <2>2, <2>3
<1>2. stamp' = stamp
  BY StampedFacts DEF IInv, Stamped
<1>3. PICK w, w1 : w = event_write_cursor /\ w1 = event_write_cursor'
  OBVIOUS
<1>4. w \in Nat /\ w1 \in Nat /\ w <= w1 /\ w..(w1 - 1) = {}
  BY <1>3 DEF Proven!Appends, Appended
<1>5. w1 = w
  BY <1>4
<1> QED BY <1>1, <1>2, <1>3, <1>5 DEF AccountsEvents, AccountsEvent

(* And new stamps are as the others.                                          *)
LEMMA StampsStay ==
    ASSUME IInv, Proven!Appends, NEW pool, Stamped(pool), ExchangeRateOf(pool) = rate
    PROVE  stamp' \in [RingSlots -> Stamps]
<1>1. rate \in [n : U64, d : U64] /\ Bound!NoSums \in [n : U64, d : U64]
  BY ParameterAssumption, WidthAssumption DEF IInv, ExchangeRate, Bound!NoSums, U64
<1>2. ASSUME NEW n \in Appended PROVE StampOf(n, pool) \in Stamps
  <2>1. n \in Nat
    BY AppendedFacts
  <2> QED BY <1>1, <2>1 DEF StampOf, Stamps
<1>3. ASSUME NEW i \in RingSlots PROVE stamp'[i] \in Stamps
  <2>1. CASE \E n \in Appended : n % L = i
    BY <1>2, <2>1, StampedFacts
  <2>2. CASE \A n \in Appended : n % L # i
    BY <2>2, StampedFacts DEF IInv
  <2> QED BY <2>1, <2>2
<1> QED BY <1>3 DEF Stamped

(* A step of the book that opens no position is a batch, or nothing.          *)
LEMMA OnlyBookStep ==
    ASSUME IInv, Proven!Appends, NEW pool, OnlyBook(pool), ExchangeRateOf(pool) = rate,
           UNCHANGED slot
    PROVE  [Bound!Next]_(Bound!vars)
<1>1. Stamped(pool) /\ UNCHANGED <<slot, rate, accountVars>>
  BY DEF OnlyBook
<1>2. UNCHANGED <<slot, rate, wallet, vault, ledgers, deposited, reserved, claimable,
                  pnl_pool, funding, position>>
  BY <1>1 DEF accountVars, moneyVars
<1>3. CASE Appended = {}
  BY <1>1, <1>2, <1>3, NothingSeen DEF Bound!vars
<1>4. CASE Appended # {}
  <2>1. Bound!book_events(NewBatch)
    BY <1>1, <1>2, BatchAppended DEF Bound!book_events, Bound!moneyVars
  <2>2. NewBatch \in Bound!Batches
    <3>1. PICK w, w1 : w = event_write_cursor /\ w1 = event_write_cursor'
      OBVIOUS
    <3> DEFINE N == w1 - w
               New == {Bound!NewFill(m, side, size) : m \in Users, side \in Sides, size \in Sizes}
                        \cup {Bound!NoFill}
    <3>2. /\ w \in Nat /\ w1 \in Nat /\ w <= w1 /\ w1 <= w + L /\ L \in Nat
          /\ Appended = w..(w1 - 1)
          /\ NewBatch = [k \in 1..N |-> AccountsEvents'[(w + (k - 1)) % L]]
      BY <3>1, SameSlots DEF Proven!Appends, L, Appended, NewBatch
    <3>3. N \in 1..L
      BY <1>4, <3>2
    <3>4. ASSUME NEW n \in Appended PROVE AccountsEvents'[n % L] \in New
      BY <1>1, SeenFacts DEF FillSeen, PositionSide, Sides
    <3>5. ASSUME NEW k \in 1..N PROVE AccountsEvents'[(w + (k - 1)) % L] \in New
      <4>1. w + (k - 1) \in Appended
        BY <3>2
      <4> QED BY <3>4, <4>1
    <3>6. Bound!Batches = UNION {[1..n -> New] : n \in 1..L}
      BY DEF Bound!Batches, L, Bound!Sides, Sides
    <3> HIDE DEF N, New
    <3>7. NewBatch \in [1..N -> New]
      BY <3>2, <3>5
    <3> QED BY <3>3, <3>6, <3>7
  <2> QED BY <2>1, <2>2 DEF Bound!Next
<1> QED BY <1>3, <1>4

-----------------------------------------------------------------------------
(* What an order fills *)

LEMMA SameSums == \A f : Book!SumFunction(f) = Proven!SumFunction(f)
BY DEF Book!SumFunction, Proven!SumFunction, Book!SumFunctionOnSet, Proven!SumFunctionOnSet,
       Book!FoldFunctionOnSet, Proven!FoldFunctionOnSet, Book!MapThenFoldSet, Proven!MapThenFoldSet

LEMMA SameFinite == \A S : IsFiniteSet(S) <=> Proven!IsFiniteSet(S)
BY DEF IsFiniteSet, Proven!IsFiniteSet

(* A total over consecutive numbers is the total of the sequence of them.     *)
Unrolled(f, g, w, N) ==
    /\ g = Proven!Portion(g, w, N) /\ \A n \in Proven!Consecutive(w, N) : g[n] \in Int
    /\ f \in [1..N -> Int]
    /\ \A j \in 1..N : f[j] = g[w + (j - 1)]
LEMMA RunSummed ==
    ASSUME NEW w \in Nat, NEW N \in Nat, NEW g, NEW f, Unrolled(f, g, w, N)
    PROVE  SumUpTo(f, N) = Book!SumFunction(g)
<1>1. PICK s : IsPrefixSum(s, f, N) /\ SumUpTo(f, N) = s[N]
  BY SumIsPrefixSum DEF Unrolled
<1>2. Proven!AddsUp(s, g, w, N)
  BY <1>1 DEF IsPrefixSum, Proven!AddsUp, Unrolled
<1>3. Proven!SumFunction(g) = s[N]
  BY <1>2, Proven!RunTotal, BookAssumed
<1> QED BY <1>1, <1>3, SameSums

(* What open_position and close_position hand the accounts.                   *)
NewFills ==
    [j \in 1..(event_write_cursor' - event_write_cursor) |->
       [maker |-> NewEvent(event_write_cursor + (j - 1)).owner,
        size  |-> NewEvent(event_write_cursor + (j - 1)).size]]
OnlyFills(q) ==
    \A n \in Appended :
      /\ NewEvent(n).kind = "Fill"
      /\ NewEvent(n).owner # q.owner
      /\ NewEvent(n).side = Book!Opposite(q.side)

(* A limit order that only rests fills nothing.                               *)
LEMMA NoneFilled ==
    ASSUME Appended = {}
    PROVE  Filled = 0
<1> DEFINE g == [n \in {} |-> NewEvent(n).size]
<1>1. Filled = Book!SumFunction(g)
  <2>1. {n \in Appended : NewEvent(n).kind = "Fill"} = {}
    OBVIOUS
  <2> QED BY <2>1 DEF Filled, Book!TotalOf
<1>2. g \in [{} -> {0}] /\ Proven!IsFiniteSet({})
  BY FS_EmptySet, SameFinite
<1> HIDE DEF g
<1>3. Proven!SumFunction(g) = 0
  BY <1>2, Proven!SumZero, BookAssumed
<1> QED BY <1>1, <1>3, SameSums

(* Any other order opens or closes what its fills add up to, and leaves one   *)
(* pending event for each of their makers.                                    *)
LEMMA OrderSeen ==
    ASSUME IInv, Proven!Appends, NEW pool, Stamped(pool), ExchangeRateOf(pool) = rate,
           NEW q, OnlyFills(q), Appended # {}
    PROVE  /\ NewFills \in Bound!FillSeqs
           /\ \A j \in DOMAIN NewFills : NewFills[j].maker # q.owner
           /\ Bound!Filled(NewFills) = Filled /\ Filled \in Nat \ {0}
           /\ Bound!emit_fill_events(NewFills, PositionSide(Book!Opposite(q.side)))
<1>1. PICK w, w1 : w = event_write_cursor /\ w1 = event_write_cursor'
  OBVIOUS
<1> DEFINE N == w1 - w
           Fills == [maker : Users, size : Sizes]
<1>2. /\ w \in Nat /\ w1 \in Nat /\ w <= w1 /\ w1 <= w + L /\ L \in Nat
      /\ Appended = w..(w1 - 1)
      /\ NewBatch = [k \in 1..N |-> AccountsEvents'[(w + (k - 1)) % L]]
      /\ NewFills = [j \in 1..N |-> [maker |-> NewEvent(w + (j - 1)).owner,
                                     size  |-> NewEvent(w + (j - 1)).size]]
  BY <1>1, SameSlots DEF Proven!Appends, L, Appended, NewBatch, NewFills
<1>3. N \in 1..L
  BY <1>2
<1>4. ASSUME NEW j \in 1..N
      PROVE  /\ w + (j - 1) \in Appended
             /\ NewEvent(w + (j - 1)).kind = "Fill"
             /\ NewEvent(w + (j - 1)).owner # q.owner
             /\ NewEvent(w + (j - 1)).owner \in Users /\ NewEvent(w + (j - 1)).size \in Sizes
             /\ AccountsEvents'[(w + (j - 1)) % L] = FillSeen(w + (j - 1))
             /\ NewEvent(w + (j - 1)).side = Book!Opposite(q.side)
  <2>1. w + (j - 1) \in Appended
    BY <1>2
  <2> QED BY <2>1, SeenFacts DEF OnlyFills
<1>5. NewFills \in [1..N -> Fills]
  BY <1>2, <1>4
<1>6. NewFills \in Bound!FillSeqs
  <2> HIDE DEF N
  <2> QED BY <1>3, <1>5 DEF Bound!FillSeqs, L
<1>7. \A j \in DOMAIN NewFills : NewFills[j].maker # q.owner
  BY <1>2, <1>4
<1> DEFINE f == [j \in 1..N |-> NewEvent(w + (j - 1)).size]
           g == [n \in Appended |-> NewEvent(n).size]
<1>8. Len(NewFills) = N /\ f = [k \in 1..Len(NewFills) |-> NewFills[k].size]
  BY <1>2, <1>3
<1>9. Sizes \subseteq Nat \ {0}
  BY OrderAssumption, WidthAssumption DEF U64
<1>10. f \in [1..N -> Nat \ {0}]
  BY <1>4, <1>9
<1>11. Filled = Book!SumFunction(g)
  <2>1. {n \in Appended : NewEvent(n).kind = "Fill"} = Appended
    BY DEF OnlyFills
  <2> QED BY <2>1 DEF Filled, Book!TotalOf
<1>12. SumUpTo(f, N) = Filled
  <2>1. Proven!Consecutive(w, N) = Appended
    BY <1>2 DEF Proven!Consecutive
  <2>2. g = Proven!Portion(g, w, N)
    BY <2>1 DEF Proven!Portion
  <2>3. \A n \in Proven!Consecutive(w, N) : g[n] \in Int
    <3>1. ASSUME NEW n \in Appended PROVE NewEvent(n).size \in Sizes
      BY SeenFacts DEF OnlyFills
    <3>2. ASSUME NEW n \in Appended PROVE g[n] \in Int
      <4>1. g[n] = NewEvent(n).size
        OBVIOUS
      <4>2. NewEvent(n).size \in Sizes
        BY <3>1
      <4>3. Sizes \subseteq Int
        BY <1>9
      <4> HIDE DEF g
      <4> QED BY <4>1, <4>2, <4>3, Zenon
    <3> QED BY <2>1, <3>2
  <2>4. \A j \in 1..N : f[j] = g[w + (j - 1)]
    BY <1>4
  <2>5. f \in [1..N -> Int] /\ N \in Nat
    BY <1>3, <1>10
  <2> HIDE DEF f, g, N
  <2>6. Unrolled(f, g, w, N)
    BY <2>2, <2>3, <2>4, <2>5 DEF Unrolled
  <2> QED BY <1>2, <1>11, <2>5, <2>6, RunSummed
<1>13. Filled \in Nat \ {0}
  <2>1. f \in [1..N -> Nat] /\ N \in Nat /\ 1 \in 1..N /\ f[1] \in Nat \ {0}
    BY <1>3, <1>10
  <2> HIDE DEF f, N
  <2>2. SumUpTo(f, N) \in Nat /\ f[1] <= SumUpTo(f, N)
    BY <2>1, SumBoundsItems
  <2> QED BY <1>12, <2>1, <2>2
<1>14. Bound!Filled(NewFills) = SumUpTo(f, N)
  <2> HIDE DEF f, N
  <2> QED BY <1>8 DEF Bound!Filled, Bound!SumUpTo, SumUpTo
<1>15. Bound!emit_fill_events(NewFills, PositionSide(Book!Opposite(q.side)))
  <2> DEFINE side == PositionSide(Book!Opposite(q.side))
             batch == [k \in 1..Len(NewFills) |->
                         Bound!NewFill(NewFills[k].maker, side, NewFills[k].size)]
  <2>1. ASSUME NEW k \in 1..N
        PROVE  NewBatch[k] = Bound!NewFill(NewFills[k].maker, side, NewFills[k].size)
    BY <1>2, <1>4 DEF FillSeen
  <2>2. NewBatch = batch
    BY <1>2, <1>8, <2>1
  <2>3. Bound!append_events(NewBatch)
    BY BatchAppended
  <2> HIDE DEF batch
  <2>4. Bound!append_events(batch)
    BY <2>2, <2>3
  <2> QED BY <2>4 DEF Bound!emit_fill_events, batch
<1> QED BY <1>6, <1>7, <1>12, <1>13, <1>14, <1>15

-----------------------------------------------------------------------------
(* Accounts with the rate of the pool that was passed, and with that of the   *)
(* bound one: the same arithmetic, and then the same instructions.            *)

LEMMA SameInts ==
    ASSUME NEW pool
    PROVE  /\ \A a, b : On(pool)!MinOf(a, b) = Bound!MinOf(a, b)
           /\ \A a, b : On(pool)!MaxOf(a, b) = Bound!MaxOf(a, b)
           /\ \A a : On(pool)!Abs(a) = Bound!Abs(a)
           /\ \A a, b : On(pool)!TruncDiv(a, b) = Bound!TruncDiv(a, b)
           /\ \A a : On(pool)!fits_i128(a) = Bound!fits_i128(a)
           /\ \A a : On(pool)!saturate(a) = Bound!saturate(a)
           /\ \A a, b : On(pool)!clamp(a, b) = Bound!clamp(a, b)
  BY DEF On!MinOf, Bound!MinOf, On!MaxOf, Bound!MaxOf, On!Abs, Bound!Abs, On!TruncDiv,
      Bound!TruncDiv, On!fits_i128, Bound!fits_i128, On!saturate, Bound!saturate, On!clamp,
      Bound!clamp

LEMMA SameMargins ==
    ASSUME NEW pool
    PROVE  /\ \A a, b : On(pool)!margin_required(a, b) = Bound!margin_required(a, b)
           /\ \A a, b, c : On(pool)!accumulate_entry(a, b, c) = Bound!accumulate_entry(a, b, c)
           /\ \A a, b, c : On(pool)!accumulate_entry_ok(a, b, c)
                  = Bound!accumulate_entry_ok(a, b, c)
  BY DEF On!margin_required, Bound!margin_required, On!accumulate_entry, Bound!accumulate_entry,
      On!accumulate_entry_ok, Bound!accumulate_entry_ok

LEMMA SameYields ==
    ASSUME NEW pool
    PROVE  /\ \A a : On(pool)!normalize_sums(a) = Bound!normalize_sums(a)
           /\ \A a, b : On(pool)!signed_yield_change(a, b) = Bound!signed_yield_change(a, b)
           /\ \A a, b : On(pool)!signed_yield_change_ok(a, b) = Bound!signed_yield_change_ok(a, b)
<1>1. \A a : On(pool)!normalize_sums(a) = Bound!normalize_sums(a)
  BY SameInts DEF On!normalize_sums, Bound!normalize_sums, On!IsNormShift, Bound!IsNormShift
<1>2. \A a, b : On(pool)!YieldNumerator(a, b) = Bound!YieldNumerator(a, b)
  BY DEF On!YieldNumerator, Bound!YieldNumerator
<1> QED
  BY <1>1, <1>2, SameInts
     DEF On!signed_yield_change, Bound!signed_yield_change, On!signed_yield_change_ok,
      Bound!signed_yield_change_ok

LEMMA SamePnl ==
    ASSUME NEW pool
    PROVE  /\ \A a, b, c, d : On(pool)!pnl(a, b, c, d) = Bound!pnl(a, b, c, d)
           /\ \A a, b, c : On(pool)!pnl_ok(a, b, c) = Bound!pnl_ok(a, b, c)
  BY SameYields, SameInts DEF On!pnl, Bound!pnl, On!pnl_ok, Bound!pnl_ok

LEMMA SameIndex ==
    ASSUME NEW pool
    PROVE  /\ \A a, b : On(pool)!realized_yield(a, b) = Bound!realized_yield(a, b)
           /\ \A a, b : On(pool)!realized_yield_ok(a, b) = Bound!realized_yield_ok(a, b)
           /\ \A a, b : On(pool)!annualize(a, b) = Bound!annualize(a, b)
           /\ \A a, b : On(pool)!annualize_ok(a, b) = Bound!annualize_ok(a, b)
  BY DEF On!realized_yield, Bound!realized_yield, On!realized_yield_ok, Bound!realized_yield_ok,
      On!annualize, Bound!annualize, On!annualize_ok, Bound!annualize_ok, On!CrossYield,
      Bound!CrossYield

LEMMA SameFunding ==
    ASSUME NEW pool
    PROVE  /\ \A a, b, c : On(pool)!funding_rate(a, b, c) = Bound!funding_rate(a, b, c)
           /\ \A a, b, c, d : On(pool)!funding_payment(a, b, c, d)
                  = Bound!funding_payment(a, b, c, d)
           /\ \A a, b : On(pool)!funding_epoch(a, b) = Bound!funding_epoch(a, b)
  BY SameInts DEF On!funding_rate, Bound!funding_rate, On!funding_payment, Bound!funding_payment,
      On!funding_epoch, Bound!funding_epoch, On!SideFlow, Bound!SideFlow

LEMMA SameLiquidation ==
    ASSUME NEW pool
    PROVE  /\ \A a, b, c, d : On(pool)!liquidatable(a, b, c, d) = Bound!liquidatable(a, b, c, d)
           /\ \A a, b, c, d : On(pool)!apply_liquidation(a, b, c, d)
                  = Bound!apply_liquidation(a, b, c, d)
  BY SameInts, SameMargins
     DEF On!liquidatable, Bound!liquidatable, On!apply_liquidation, Bound!apply_liquidation,
      On!liquidation_penalty, Bound!liquidation_penalty

LEMMA SameSettlement ==
    ASSUME NEW pool
    PROVE  /\ \A a, b, c : On(pool)!Ledger(a, b, c) = Bound!Ledger(a, b, c)
           /\ \A a, b : On(pool)!settle_signed(a, b) = Bound!settle_signed(a, b)
           /\ \A a, b : On(pool)!settle_signed_ok(a, b) = Bound!settle_signed_ok(a, b)
           /\ \A a, b, c, d : On(pool)!apply_liquidation_loss(a, b, c, d)
                  = Bound!apply_liquidation_loss(a, b, c, d)
           /\ \A a, b, c : On(pool)!apply_liquidation_loss_ok(a, b, c)
                  = Bound!apply_liquidation_loss_ok(a, b, c)
           /\ \A a, b : On(pool)!free_collateral_ok(a, b) = Bound!free_collateral_ok(a, b)
<1>1. /\ \A a, b, c : On(pool)!Ledger(a, b, c) = Bound!Ledger(a, b, c)
      /\ \A a : On(pool)!fits(a) = Bound!fits(a)
      /\ \A a, b : On(pool)!free_collateral_ok(a, b) = Bound!free_collateral_ok(a, b)
      /\ \A a, b, c : On(pool)!LiquidationSeam(a, b, c) = Bound!LiquidationSeam(a, b, c)
  BY DEF On!Ledger, Bound!Ledger, On!fits, Bound!fits, On!free_collateral_ok,
         Bound!free_collateral_ok, On!LiquidationSeam, Bound!LiquidationSeam
<1>2. /\ \A a, b : On(pool)!apply_debit(a, b) = Bound!apply_debit(a, b)
      /\ \A a, b : On(pool)!apply_credit(a, b) = Bound!apply_credit(a, b)
  BY SameInts DEF On!apply_debit, Bound!apply_debit, On!apply_credit, Bound!apply_credit
<1>3. \A a, b : On(pool)!settle_signed(a, b) = Bound!settle_signed(a, b)
  BY <1>2, SameInts DEF On!settle_signed, Bound!settle_signed
<1>4. \A a, b : On(pool)!settle_signed_ok(a, b) = Bound!settle_signed_ok(a, b)
  BY <1>1, <1>3 DEF On!settle_signed_ok, Bound!settle_signed_ok
<1>5. /\ \A a, b, c, d : On(pool)!apply_liquidation_loss(a, b, c, d)
                              = Bound!apply_liquidation_loss(a, b, c, d)
      /\ \A a, b, c : On(pool)!apply_liquidation_loss_ok(a, b, c)
                           = Bound!apply_liquidation_loss_ok(a, b, c)
  BY <1>1, SameInts
     DEF On!apply_liquidation_loss, Bound!apply_liquidation_loss,
         On!apply_liquidation_loss_ok, Bound!apply_liquidation_loss_ok
<1> QED BY <1>1, <1>3, <1>4, <1>5

-----------------------------------------------------------------------------
LEMMA SameLedger ==
    ASSUME NEW pool
    PROVE  /\ \A u : On(pool)!ledger(u) = Bound!ledger(u)
           /\ \A u, l : On(pool)!SaveLedger(u, l) = Bound!SaveLedger(u, l)
           /\ On(pool)!NoSums = Bound!NoSums
           /\ (UNCHANGED On(pool)!bookVars) => (UNCHANGED Bound!bookVars)
BY SameSettlement
   DEF On!ledger, Bound!ledger, On!SaveLedger, Bound!SaveLedger, On!NoSums, Bound!NoSums,
       On!bookVars, Bound!bookVars

LEMMA SameSettleClose ==
    ASSUME NEW pool, ExchangeRateOf(pool) = rate, UNCHANGED rate, NEW k, NEW u,
           On(pool)!settle_close(k, u)
    PROVE  Bound!settle_close(k, u)
<1> DEFINE p == position[k]
           profit == Bound!pnl(p.closed_entry, rate, p.closed_notional, k[2])
           after == Bound!settle_signed(Bound!ledger(u), profit)
<1>1. On(pool)!pnl(p.closed_entry, ExchangeRateOf(pool), p.closed_notional, k[2]) = profit
  BY SamePnl
<1>2. /\ Bound!pnl_ok(p.closed_entry, rate, p.closed_notional)
      /\ p.market = "market" /\ u \in ledgers /\ p.closed_notional > 0
  BY SamePnl DEF On!settle_close
<1>3. Bound!settle_signed_ok(Bound!ledger(u), profit)
  BY <1>1, SameLedger, SameSettlement DEF On!settle_close
<1>4. Bound!SaveLedger(u, after)
  <2>1. On(pool)!settle_signed(On(pool)!ledger(u), profit) = after
    BY SameLedger, SameSettlement
  <2>2. On(pool)!SaveLedger(u, after)
    BY <1>1, <2>1 DEF On!settle_close
  <2> HIDE DEF after
  <2> QED BY <2>2, SameLedger
<1>5. /\ position' = [position EXCEPT ![k] =
                        [p EXCEPT !.closed_notional = 0, !.closed_entry = Bound!NoSums]]
      /\ UNCHANGED <<slot, rate, wallet, vault, ledgers, reserved, funding, Bound!bookVars>>
  <2>1. On(pool)!NoSums = Bound!NoSums
    BY SameLedger
  <2> QED BY <2>1, SameLedger DEF On!settle_close
<1> HIDE DEF profit, after
<1>6. Bound!settle_close(k, u)
  BY <1>2, <1>3, <1>4, <1>5 DEF Bound!settle_close, profit, after
<1> QED BY <1>6

LEMMA SameSettleFunding ==
    ASSUME NEW pool, ExchangeRateOf(pool) = rate, UNCHANGED rate, NEW k, NEW u, NEW m,
           On(pool)!settle_funding(k, u, m)
    PROVE  Bound!settle_funding(k, u, m)
<1>1. On(pool)!cur_epoch = Bound!cur_epoch /\ On(pool)!NoMid = Bound!NoMid
  BY SameFunding DEF On!cur_epoch, Bound!cur_epoch, On!NoMid, Bound!NoMid
<1>2. \A p : On(pool)!epochs_due(p) = Bound!epochs_due(p)
  BY <1>1, SameInts DEF On!epochs_due, Bound!epochs_due
<1>3. /\ \A n : On(pool)!funding_index(n) = Bound!funding_index(n)
      /\ \A n : On(pool)!funding_index_ok(n) = Bound!funding_index_ok(n)
  BY SameIndex
     DEF On!funding_index, Bound!funding_index, On!funding_index_ok, Bound!funding_index_ok,
         On!HasBaseline, Bound!HasBaseline
<1>4. \A p, side, mid : On(pool)!funding_due(p, side, mid) = Bound!funding_due(p, side, mid)
  BY <1>1, <1>2, <1>3, SameFunding DEF On!funding_due, Bound!funding_due
<1> QED BY <1>1, <1>2, <1>3, <1>4, SameLedger, SameSettlement, SameInts
        DEF On!settle_funding, Bound!settle_funding

LEMMA SameLiquidate ==
    ASSUME NEW pool, ExchangeRateOf(pool) = rate, UNCHANGED rate, NEW ll, NEW k, NEW u,
           NEW amount, On(pool)!liquidate(ll, k, u, amount)
    PROVE  Bound!liquidate(ll, k, u, amount)
<1>1. /\ \A x : On(pool)!UnrealizedPnl(x) = Bound!UnrealizedPnl(x)
      /\ \A x : On(pool)!HasPnl(x) = Bound!HasPnl(x)
  BY SamePnl DEF On!UnrealizedPnl, Bound!UnrealizedPnl, On!HasPnl, Bound!HasPnl
<1>2. \A x : On(pool)!UnderMargin(x) = Bound!UnderMargin(x)
  BY <1>1, SameLiquidation DEF On!UnderMargin, Bound!UnderMargin
<1> DEFINE p == position[k]
           out == Bound!apply_liquidation(p.collateral, p.notional, amount, initial_margin_bps)
           consumed == p.collateral - out.remaining
           loss == Bound!MinOf(Bound!Abs(Bound!UnrealizedPnl(k)), U64_MAX)
           booked == Bound!apply_liquidation_loss(deposited[u], reserved[u] - consumed,
                                                  loss, out.reward)
<1>3. On(pool)!apply_liquidation(p.collateral, p.notional, amount, initial_margin_bps) = out
  BY SameLiquidation
<1>4. On(pool)!MinOf(On(pool)!Abs(On(pool)!UnrealizedPnl(k)), U64_MAX) = loss
  BY <1>1, SameInts
<1> HIDE DEF out, loss
<1>5. On(pool)!apply_liquidation_loss(deposited[u], reserved[u] - consumed, loss, out.reward)
        = booked
  BY SameSettlement
<1> HIDE DEF booked, consumed
<1>6. /\ ll # u /\ {ll, u} \subseteq ledgers
      /\ p.market = "market" /\ p.notional > 0
      /\ Bound!UnderMargin(k)
      /\ amount > 0 /\ amount <= p.notional
      /\ consumed <= reserved[u]
  BY <1>2, <1>3 DEF On!liquidate, consumed
<1>7. Bound!apply_liquidation_loss_ok(deposited[u], reserved[u] - consumed, out.reward)
  BY <1>3, SameSettlement DEF On!liquidate, consumed
<1>8. /\ pnl_pool + booked <= U64_MAX
      /\ deposited[ll] + out.reward <= U64_MAX
      /\ deposited' = [deposited EXCEPT ![u] = @ - booked - out.reward, ![ll] = @ + out.reward]
      /\ pnl_pool' = pnl_pool + booked
  BY <1>3, <1>4, <1>5 DEF On!liquidate, consumed
<1>9. /\ position' = [position EXCEPT ![k] =
                        [p EXCEPT !.notional = @ - amount, !.collateral = out.remaining]]
      /\ reserved' = [reserved EXCEPT ![u] = @ - consumed]
      /\ UNCHANGED <<slot, rate, wallet, vault, ledgers, claimable, funding, Bound!bookVars>>
  BY <1>3, SameLedger DEF On!liquidate, consumed
<1> QED BY <1>6, <1>7, <1>8, <1>9 DEF Bound!liquidate, out, loss, booked, consumed

-----------------------------------------------------------------------------
(* The book's half of every instruction is a step of the book *)

(* The only pool a handler accepts is the one whose rate the accounts read.   *)
LEMMA BoundRate ==
    ASSUME IInv, market # NoMarket
    PROVE  ExchangeRateOf(market.index_source) = rate
BY DEF IInv, ExchangeRateOf

LEMMA BookStep ==
    ASSUME IInv, [Proven!Next]_(Proven!vars)
    PROVE  Proven!IInv' /\ Proven!Appends
BY Proven!NextAppends, BookAssumed DEF IInv

LEMMA OrderStep ==
    ASSUME IInv, Accepting, NEW q \in MarketOrders,
           \/ Book!place_limit_order(q) \/ Book!place_market_order(q)
           \/ Book!open_position(q) \/ Book!close_position(q)
    PROVE  Proven!IInv' /\ Proven!Appends /\ UNCHANGED slot
<1>1. UNCHANGED slot
  BY DEF Book!place_limit_order, Book!place_market_order, Book!open_position,
         Book!close_position, Book!rest_order, Book!cross_limit, Book!cross_market,
         Book!take_market
<1>2. \/ Proven!place_limit_order(q) \/ Proven!place_market_order(q)
      \/ Proven!open_position(q) \/ Proven!close_position(q)
  BY SameInstructions
<1>3. Proven!Next
  BY <1>2 DEF Proven!Next, Accepting
<1> QED BY <1>1, <1>3, BookStep

LEMMA QueueStep ==
    ASSUME IInv,
           \/ \E side \in Book!Sides, i \in 1..MAX_ORDERS_PER_SIDE : Book!cancel_order(side, i)
           \/ Book!crank
    PROVE  Proven!IInv' /\ Proven!Appends /\ UNCHANGED slot
<1>1. UNCHANGED slot
  BY DEF Book!cancel_order, Book!crank
<1>2. Proven!Next
  BY SameInstructions, SameCrank DEF Proven!Next, Book!Sides, Proven!Sides
<1> QED BY <1>1, <1>2, BookStep

(* Time passes for the book too.                                              *)
LEMMA BookIdle ==
    ASSUME IInv, UNCHANGED <<book, events, event_read_cursor, event_write_cursor,
                             observations, twap_cursor>>,
           slot' = slot \/ Bound!tick
    PROVE  Proven!IInv'
<1>1. [Proven!Next]_(Proven!vars)
  BY DEF Bound!tick, Proven!Next, Proven!tick, Proven!vars, Proven!ringVars, Proven!twapVars
<1> QED BY <1>1, BookStep

(* A taker's order appends the fills of it that the makers will settle.       *)
LEMMA TakerStep ==
    ASSUME IInv, Accepting, NEW q \in MarketOrders,
           Book!open_position(q) \/ Book!close_position(q)
    PROVE  OnlyFills(q)
<1>1. Proven!open_position(q) \/ Proven!close_position(q)
  BY SameInstructions
<1>2. Proven!AppendsFills(q)
  BY <1>1, Proven!OpenAppends, BookAssumed DEF IInv
<1> QED BY <1>2 DEF Proven!AppendsFills, OnlyFills, Proven!Appended, Appended,
                    Proven!NewEvent, NewEvent, Proven!Opposite, Book!Opposite

-----------------------------------------------------------------------------
(* Every instruction is a step of the accounts, or leaves them alone *)

AccountsStep == IInv' /\ [Bound!Next]_(Bound!vars)

LEMMA InitInv == Init => IInv /\ Bound!Init
<1> SUFFICES ASSUME Init PROVE IInv
  BY DEF Init
<1>1. Proven!IInv
  <2>1. Proven!Init
    BY DEF Init, Book!Init, Proven!Init, Book!RingSlots, Proven!RingSlots, Book!Unwritten,
           Proven!Unwritten, Book!EmptyRing, Proven!EmptyRing, Book!ObservationSlots,
           Proven!ObservationSlots, Book!NoMid, Proven!NoMid
  <2> QED BY <2>1, Proven!InitInv, BookAssumed
<1>2. rate \in Rates
  BY DEF Init, Bound!Init
<1>3. stamp \in [RingSlots -> Stamps]
  BY WidthAssumption DEF Init, Stamps, Bound!NoSums, U64
<1> QED BY <1>1, <1>2, <1>3 DEF IInv, Init

(* A ring that is not written is seen unchanged.                              *)
LEMMA BookFixed ==
    ASSUME UNCHANGED bookVars
    PROVE  UNCHANGED Bound!bookVars
BY DEF bookVars, Bound!bookVars, AccountsEvents, AccountsEvent

(* The initializers touch neither side.                                       *)
LEMMA SetupStep ==
    ASSUME IInv, SetupNext
    PROVE  AccountsStep
<1>1. /\ UNCHANGED <<slot, rate, bookVars, accountVars>>
      /\ market' # NoMarket => market'.index_source = JitoSOL
      /\ has_book' => market' # NoMarket
  <2>1. ASSUME NEW s \in Setups, initialize_market(s)
        PROVE  /\ UNCHANGED <<slot, rate, bookVars, accountVars>>
               /\ market'.index_source = JitoSOL /\ has_book' = has_book /\ market = NoMarket
    BY <2>1, SetupAssumption DEF initialize_market, InitializeMarket, read_stake_pool, StakePools
  <2>2. ASSUME NEW authority \in Users, initialize_order_book(authority)
        PROVE  /\ UNCHANGED <<slot, rate, market, bookVars, accountVars>> /\ market # NoMarket
    BY <2>2 DEF initialize_order_book, InitializeOrderBook
  <2>3. ASSUME NEW authority \in Users, NEW mint \in Mints,
               initialize_collateral_vault(authority, mint)
        PROVE  UNCHANGED <<slot, rate, market, has_book, bookVars, accountVars>>
    BY <2>3 DEF initialize_collateral_vault
  <2>4. CASE \E s \in Setups : initialize_market(s)
    BY <2>1, <2>4 DEF IInv
  <2>5. CASE \E authority \in Users : initialize_order_book(authority)
    BY <2>2, <2>5 DEF IInv
  <2>6. CASE \E authority \in Users, mint \in Mints :
               initialize_collateral_vault(authority, mint)
    BY <2>3, <2>6 DEF IInv
  <2> QED BY <2>4, <2>5, <2>6 DEF SetupNext
<1>2. Proven!IInv'
  BY <1>1, BookIdle DEF bookVars
<1>3. IInv'
  BY <1>1, <1>2 DEF IInv, bookVars
<1>4. UNCHANGED Bound!vars
  BY <1>1, BookFixed DEF Bound!vars, Bound!bookVars, accountVars, moneyVars
<1> QED BY <1>3, <1>4 DEF AccountsStep

(* Steps of the accounts alone.                                               *)
LEMMA AloneStep ==
    ASSUME IInv, UNCHANGED <<setupVars, bookVars>>, rate' = rate \/ Bound!change_rate,
           slot' = slot \/ Bound!tick
    PROVE  IInv'
<1>1. Proven!IInv'
  BY BookIdle DEF bookVars
<1> QED BY <1>1 DEF IInv, bookVars, setupVars, Bound!change_rate

(* A mid of prices that fit a u64 fits one.                                   *)
LEMMA MidSeen ==
    ASSUME IInv
    PROVE  Book!mid(book) \in (U64 \ {0}) \cup {Bound!NoMid}
<1>1. /\ Proven!mid(book) \in Nat
      /\ \A M \in Nat : (\A p \in Proven!Limits : p <= M) => Proven!mid(book) <= M
  BY Proven!MidType, BookAssumed DEF IInv, Proven!IInv, Proven!Settled
<1>2. \A p \in Proven!Limits : p <= U64_MAX
  BY OrderAssumption, WidthAssumption
     DEF Proven!Limits, MarketOrders, ClosingOrders, ClosingOrder, U64
<1>3. Proven!mid(book) <= U64_MAX
  BY <1>1, <1>2, WidthAssumption
<1> QED BY <1>1, <1>3, SamePrices, WidthAssumption DEF U64, Bound!NoMid

(* An instruction on money or one position is the accounts' own, for the      *)
(* owner's ledger at the bound pool's rate, and leaves the book alone.         *)
LEMMA MoneySeen ==
    ASSUME IInv, MoneyNext
    PROVE  /\ UNCHANGED <<slot, rate, setupVars, bookVars>>
           /\ \/ \E l \in Users, amount \in Amounts :
                   Bound!deposit_collateral(l, amount) \/ Bound!withdraw_collateral(l, amount)
              \/ \E k \in Keys : Bound!reset_position(k) \/ Bound!settle_close(k, k[1])
              \/ \E k \in Keys : Bound!settle_funding(k, k[1], Book!mid(book))
              \/ \E ll \in Users, k \in Keys, amount \in Sizes :
                   Bound!liquidate(ll, k, k[1], amount)
<1>1. ASSUME NEW user \in Users, NEW l \in Users, NEW mint \in Mints, NEW amount \in Amounts,
             \/ deposit_collateral(user, l, mint, amount)
             \/ withdraw_collateral(user, l, mint, amount)
      PROVE  /\ UNCHANGED <<slot, rate, setupVars, bookVars>>
             /\ Bound!deposit_collateral(l, amount) \/ Bound!withdraw_collateral(l, amount)
  BY <1>1 DEF deposit_collateral, withdraw_collateral, Bound!deposit_collateral,
              Bound!withdraw_collateral
<1>2. ASSUME NEW user \in Users, NEW side \in Sides, NEW k \in Keys,
             reset_position(user, side, k)
      PROVE  UNCHANGED <<slot, rate, setupVars, bookVars>> /\ Bound!reset_position(k)
  BY <1>2 DEF reset_position, Bound!reset_position
<1>3. ASSUME NEW pool \in Pools, NEW k \in Keys, NEW l \in Users, settle_close(pool, k, l)
      PROVE  UNCHANGED <<slot, rate, setupVars, bookVars>> /\ Bound!settle_close(k, k[1])
  <2>1. /\ UNCHANGED <<rate, setupVars, bookVars>> /\ l = k[1] /\ ExchangeRateOf(pool) = rate
        /\ On(pool)!settle_close(k, l)
    BY <1>3, BoundRate DEF settle_close, SettleClose, verify_collateral_pda, owner_of,
                           collateral_pda
  <2>2. Bound!settle_close(k, k[1])
    BY <2>1, SameSettleClose
  <2> QED BY <2>1, <2>2 DEF Bound!settle_close
<1>4. ASSUME NEW pool \in Pools, NEW k \in Keys, NEW l \in Users, settle_funding(pool, k, l)
      PROVE  /\ UNCHANGED <<slot, rate, setupVars, bookVars>>
             /\ Bound!settle_funding(k, k[1], Book!mid(book))
  <2>1. /\ UNCHANGED <<rate, setupVars, bookVars>> /\ l = k[1] /\ ExchangeRateOf(pool) = rate
        /\ On(pool)!settle_funding(k, l, Book!mid(book))
    BY <1>4, BoundRate DEF settle_funding, SettleFunding, verify_collateral_pda, owner_of,
                           collateral_pda, IInv
  <2>2. Bound!settle_funding(k, k[1], Book!mid(book))
    BY <2>1, SameSettleFunding
  <2> QED BY <2>1, <2>2 DEF Bound!settle_funding
<1>5. ASSUME NEW liquidator \in Users, NEW l \in Users, NEW ll \in Users, NEW pool \in Pools,
             NEW k \in Keys, NEW amount \in Sizes,
             liquidate(liquidator, pool, k, l, ll, amount)
      PROVE  /\ UNCHANGED <<slot, rate, setupVars, bookVars>>
             /\ Bound!liquidate(ll, k, k[1], amount)
  <2>1. /\ UNCHANGED <<rate, setupVars, bookVars>> /\ l = k[1] /\ ExchangeRateOf(pool) = rate
        /\ On(pool)!liquidate(ll, k, l, amount)
    BY <1>5, BoundRate DEF liquidate, Liquidate, verify_collateral_pda, owner_of,
                           collateral_pda, IInv
  <2>2. Bound!liquidate(ll, k, k[1], amount)
    BY <2>1, SameLiquidate
  <2> QED BY <2>1, <2>2 DEF Bound!liquidate
<1>6. CASE \E user, l \in Users, mint \in Mints, amount \in Amounts :
             \/ deposit_collateral(user, l, mint, amount)
             \/ withdraw_collateral(user, l, mint, amount)
  <2>1. PICK user \in Users, l \in Users, mint \in Mints, amount \in Amounts :
               \/ deposit_collateral(user, l, mint, amount)
               \/ withdraw_collateral(user, l, mint, amount)
    BY <1>6
  <2> QED BY <1>1, <2>1
<1>7. CASE \E user \in Users, side \in Sides, k \in Keys : reset_position(user, side, k)
  BY <1>2, <1>7
<1>8. CASE \E pool \in Pools, k \in Keys, l \in Users :
             settle_close(pool, k, l) \/ settle_funding(pool, k, l)
  BY <1>3, <1>4, <1>8
<1>9. CASE \E liquidator, l, ll \in Users, pool \in Pools, k \in Keys, amount \in Sizes :
             liquidate(liquidator, pool, k, l, ll, amount)
  <2>1. PICK liquidator \in Users, l \in Users, ll \in Users, pool \in Pools, k \in Keys,
             amount \in Sizes : liquidate(liquidator, pool, k, l, ll, amount)
    BY <1>9
  <2> QED BY <1>5, <2>1
<1> QED BY <1>6, <1>7, <1>8, <1>9 DEF MoneyNext

LEMMA MoneyStep ==
    ASSUME IInv, MoneyNext
    PROVE  AccountsStep
<1>1. Bound!Keys = Keys /\ Bound!Users = Users
  BY DEF Keys, Bound!Keys, Sides, Bound!Sides, Users, Bound!Users
<1>2. UNCHANGED <<slot, rate, setupVars, bookVars>>
  BY MoneySeen
<1>3. Bound!Next
  <2>1. CASE \E l \in Users, amount \in Amounts :
               Bound!deposit_collateral(l, amount) \/ Bound!withdraw_collateral(l, amount)
    BY <1>1, <2>1 DEF Bound!Next
  <2>2. CASE \E k \in Keys : Bound!reset_position(k) \/ Bound!settle_close(k, k[1])
    BY <1>1, <2>2 DEF Bound!Next
  <2>3. CASE \E k \in Keys : Bound!settle_funding(k, k[1], Book!mid(book))
    BY <1>1, <2>3, MidSeen DEF Bound!Next
  <2>4. CASE \E ll \in Users, k \in Keys, amount \in Sizes :
               Bound!liquidate(ll, k, k[1], amount)
    BY <1>1, <2>4 DEF Bound!Next
  <2> QED BY <2>1, <2>2, <2>3, <2>4, MoneySeen
<1> QED BY <1>2, <1>3, AloneStep DEF AccountsStep

(* settle_fill consumes the pending event it books.                           *)
LEMMA FillStep ==
    ASSUME IInv, NEW seq \in 0..event_write_cursor, NEW k \in Keys, NEW l \in Users,
           settle_fill(seq, k, l)
    PROVE  AccountsStep
<1> DEFINE i == seq % EVENT_QUEUE_LEN
<1>1. i \in RingSlots
  <2>1. event_write_cursor \in Nat
    BY DEF IInv, Proven!IInv, Proven!Rings, Proven!ring
  <2> QED BY <2>1, SameSlots
<1>2. /\ events[i].kind = "Fill" /\ stamp[i].settled = 0
      /\ k = <<events[i].owner, PositionSide(events[i].side)>> /\ l = events[i].owner
      /\ Bound!apply_open_fills(k, l, events[i].size, stamp[i].entry)
      /\ stamp' = [stamp EXCEPT ![i].settled = 1]
      /\ UNCHANGED <<slot, rate, setupVars, moneyVars, book, events, event_read_cursor,
                     event_write_cursor, observations, twap_cursor>>
  BY DEF settle_fill, settle_event, verify_maker_accounts, position_pda, collateral_pda,
         MarkSettled
<1> HIDE DEF i
<1>3. stamp \in [RingSlots -> Stamps]
  BY DEF IInv
<1>4. stamp' \in [RingSlots -> Stamps]
  BY <1>1, <1>2, <1>3 DEF Stamps
<1>5. IInv'
  <2>1. Proven!IInv'
    BY <1>2, BookIdle
  <2> QED BY <1>2, <1>4, <2>1 DEF IInv, setupVars
<1>6. AccountsEvents[i] =
        [kind |-> "Fill", owner |-> events[i].owner, side |-> PositionSide(events[i].side),
         size |-> events[i].size, entry |-> stamp[i].entry, settled |-> stamp[i].settled]
  BY <1>1, <1>2 DEF AccountsEvents, AccountsEvent
<1>7. AccountsEvents' = [AccountsEvents EXCEPT ![i] = Bound!MarkSettled(@)]
  <2>1. AccountsEvents'[i] =
          [kind |-> "Fill", owner |-> events[i].owner, side |-> PositionSide(events[i].side),
           size |-> events[i].size, entry |-> stamp'[i].entry, settled |-> stamp'[i].settled]
    BY <1>1, <1>2 DEF AccountsEvents, AccountsEvent
  <2>2. stamp'[i].entry = stamp[i].entry /\ stamp'[i].settled = 1
    BY <1>1, <1>2, <1>3 DEF Stamps
  <2>3. AccountsEvents'[i] = Bound!MarkSettled(AccountsEvents[i])
    BY <1>6, <2>1, <2>2 DEF Bound!MarkSettled
  <2>4. ASSUME NEW j \in RingSlots, j # i PROVE AccountsEvents'[j] = AccountsEvents[j]
    <3>1. stamp'[j] = stamp[j] /\ events'[j] = events[j]
      BY <1>2, <1>3, <2>4
    <3> QED BY <3>1 DEF AccountsEvents, AccountsEvent
  <2>5. /\ AccountsEvents = [j \in RingSlots |-> AccountsEvents[j]]
        /\ AccountsEvents' = [j \in RingSlots |-> AccountsEvents'[j]]
    BY DEF AccountsEvents
  <2> QED BY <1>1, <2>3, <2>4, <2>5
<1>8. Bound!settle_fill(i)
  <2>1. /\ AccountsEvents[i].kind = "Fill" /\ AccountsEvents[i].settled = 0
        /\ AccountsEvents[i].owner = l /\ <<AccountsEvents[i].owner, AccountsEvents[i].side>> = k
        /\ AccountsEvents[i].size = events[i].size /\ AccountsEvents[i].entry = stamp[i].entry
    BY <1>2, <1>6
  <2>2. UNCHANGED <<slot, rate, ledgers, funding, event_write_cursor % EVENT_QUEUE_LEN,
                    Bound!moneyVars>>
    BY <1>2 DEF moneyVars, Bound!moneyVars
  <2> QED BY <1>2, <1>7, <2>1, <2>2 DEF Bound!settle_fill
<1>9. Bound!Next
  BY <1>1, <1>8, SameSlots DEF Bound!Next
<1> QED BY <1>5, <1>9 DEF AccountsStep

(* An order that gives its taker no position, from the step of the book.      *)
LEMMA PlainStep ==
    ASSUME IInv, has_book, Proven!IInv' /\ Proven!Appends /\ UNCHANGED slot,
           OnlyBook(market.index_source)
    PROVE  AccountsStep
<1> DEFINE pool == market.index_source
<1>1. ExchangeRateOf(pool) = rate
  BY BoundRate DEF IInv
<1>2. Stamped(pool) /\ UNCHANGED <<rate, setupVars>>
  BY DEF OnlyBook
<1> HIDE DEF pool
<1>3. stamp' \in [RingSlots -> Stamps]
  BY <1>1, <1>2, StampsStay
<1>4. IInv'
  BY <1>2, <1>3 DEF IInv, setupVars
<1>5. [Bound!Next]_(Bound!vars)
  BY <1>1, OnlyBookStep DEF pool
<1> QED BY <1>4, <1>5 DEF AccountsStep

LEMMA QueueNextStep ==
    ASSUME IInv, QueueNext
    PROVE  AccountsStep
<1>1. CASE \E side \in Book!Sides, i \in 1..MAX_ORDERS_PER_SIDE : cancel_order(side, i)
  <2>1. /\ has_book /\ OnlyBook(market.index_source)
        /\ \E side \in Book!Sides, i \in 1..MAX_ORDERS_PER_SIDE : Book!cancel_order(side, i)
    BY <1>1 DEF cancel_order, CancelOrder
  <2> QED BY <2>1, QueueStep, PlainStep
<1>2. CASE \E pool \in Pools : crank(pool)
  <2>1. has_book /\ OnlyBook(market.index_source) /\ Book!crank
    BY <1>2 DEF crank, Crank
  <2> QED BY <2>1, QueueStep, PlainStep
<1>3. CASE \E seq \in 0..event_write_cursor, k \in Keys, l \in Users : settle_fill(seq, k, l)
  BY <1>3, FillStep
<1> QED BY <1>1, <1>2, <1>3 DEF QueueNext

LEMMA WorldStep ==
    ASSUME IInv, change_rate \/ tick
    PROVE  AccountsStep
<1>1. UNCHANGED <<setupVars, bookVars>> /\ (Bound!change_rate \/ Bound!tick)
  BY DEF change_rate, tick
<1>2. rate' = rate \/ Bound!change_rate
  BY <1>1 DEF Bound!tick
<1>3. slot' = slot \/ Bound!tick
  BY <1>1 DEF Bound!change_rate
<1>4. Bound!Next
  BY <1>1 DEF Bound!Next
<1> QED BY <1>1, <1>2, <1>3, <1>4, AloneStep DEF AccountsStep

LEMMA TakerKeeps ==
    ASSUME IInv, has_book, Proven!IInv' /\ Proven!Appends, Stamped(market.index_source),
           UNCHANGED <<rate, setupVars>>
    PROVE  IInv'
<1> DEFINE pool == market.index_source
<1>1. ExchangeRateOf(pool) = rate
  BY BoundRate DEF IInv
<1> HIDE DEF pool
<1>2. stamp' \in [RingSlots -> Stamps]
  BY <1>1, StampsStay DEF pool
<1> QED BY <1>2 DEF IInv, setupVars

LEMMA OpenStep ==
    ASSUME IInv, NEW pool \in Pools, NEW q \in Openings, NEW k \in Keys, NEW l \in Users,
           open_position(q, pool, k, l)
    PROVE  AccountsStep
<1> DEFINE side == PositionSide(q.side)
<1>1. /\ has_book /\ pool = market.index_source /\ Accepting
      /\ k = <<q.owner, side>> /\ l = q.owner
      /\ Book!open_position(q) /\ Stamped(pool)
      /\ IF Filled = 0 THEN UNCHANGED <<position, reserved>>
         ELSE Bound!apply_open_fills(k, l, Filled, ExchangeRateOf(pool))
      /\ UNCHANGED <<rate, setupVars, moneyVars>>
  BY DEF open_position, OpenPosition, position_pda, collateral_pda
<1>2. q \in MarketOrders /\ q.side \in {"Bid", "Ask"} /\ q.owner \in Users
  BY OrderAssumption DEF MarketOrders
<1>3. Proven!IInv' /\ Proven!Appends /\ UNCHANGED slot /\ OnlyFills(q)
  BY <1>1, <1>2, OrderStep, TakerStep
<1>4. IInv'
  BY <1>1, <1>3, TakerKeeps
<1>5. ExchangeRateOf(pool) = rate
  BY <1>1, BoundRate DEF IInv
<1>6. CASE Appended = {}
  <2>1. AccountsEvents' = AccountsEvents /\ event_write_cursor' = event_write_cursor
    BY <1>1, <1>3, <1>6, NothingSeen
  <2>2. UNCHANGED Bound!vars
    BY <1>1, <1>3, <1>6, <2>1, NoneFilled DEF Bound!vars, moneyVars
  <2> QED BY <1>4, <2>2 DEF AccountsStep
<1>7. CASE Appended # {}
  <2>1. /\ NewFills \in Bound!FillSeqs
        /\ \A j \in DOMAIN NewFills : NewFills[j].maker # q.owner
        /\ Bound!Filled(NewFills) = Filled /\ Filled \in Nat \ {0}
        /\ Bound!emit_fill_events(NewFills, PositionSide(Book!Opposite(q.side)))
    BY <1>1, <1>3, <1>5, <1>7, OrderSeen
  <2>2. PositionSide(Book!Opposite(q.side)) = Bound!Opposite(side) /\ side \in Bound!Sides
    BY <1>2 DEF PositionSide, Book!Opposite, Bound!Opposite, Bound!Sides
  <2> HIDE DEF side
  <2>3. Bound!apply_open_fills(<<q.owner, side>>, q.owner, Bound!Filled(NewFills), rate)
    BY <1>1, <1>5, <2>1
  <2>4. Bound!emit_fill_events(NewFills, Bound!Opposite(side))
    BY <2>1, <2>2
  <2>5. UNCHANGED <<slot, rate, ledgers, funding, Bound!moneyVars>>
    BY <1>1, <1>3 DEF moneyVars, Bound!moneyVars
  <2>6. Bound!open_position(q.owner, side, NewFills)
    BY <2>1, <2>3, <2>4, <2>5 DEF Bound!open_position
  <2>7. Bound!Next
    BY <1>2, <2>1, <2>2, <2>6 DEF Bound!Next, Users, Bound!Users
  <2> QED BY <1>4, <2>7 DEF AccountsStep
<1> QED BY <1>6, <1>7

LEMMA CloseStep ==
    ASSUME IInv, NEW pool \in Pools, NEW owner \in Users, NEW side \in Sides, NEW size \in Sizes,
           NEW k \in Keys, NEW l \in Users, close_position(owner, side, size, pool, k, l)
    PROVE  AccountsStep
<1> DEFINE q == ClosingOrder(owner, side, size)
<1>1. /\ has_book /\ pool = market.index_source /\ Accepting
      /\ k = <<owner, side>> /\ l = owner
      /\ position[k].notional > 0
      /\ Book!close_position(q) /\ Stamped(pool)
      /\ IF Filled = 0 THEN UNCHANGED <<position, reserved>>
         ELSE l \in ledgers /\ Bound!apply_close_fills(k, l, Filled)
      /\ UNCHANGED <<rate, setupVars, moneyVars>>
  BY DEF close_position, ClosePosition, position_pda, collateral_pda
<1>2. /\ q \in MarketOrders /\ q.owner = owner
      /\ PositionSide(Book!Opposite(q.side)) = side /\ side \in Bound!Sides
  BY DEF MarketOrders, ClosingOrders, ClosingOrder, ClosingSide, BookSide, PositionSide,
         Book!Opposite, Sides, Bound!Sides
<1> HIDE DEF q
<1>3. Proven!IInv' /\ Proven!Appends /\ UNCHANGED slot /\ OnlyFills(q)
  BY <1>1, <1>2, OrderStep, TakerStep
<1>4. IInv'
  BY <1>1, <1>3, TakerKeeps
<1>5. ExchangeRateOf(pool) = rate
  BY <1>1, BoundRate DEF IInv
<1>6. CASE Appended = {}
  <2>1. AccountsEvents' = AccountsEvents /\ event_write_cursor' = event_write_cursor
    BY <1>1, <1>3, <1>6, NothingSeen
  <2>2. UNCHANGED Bound!vars
    BY <1>1, <1>3, <1>6, <2>1, NoneFilled DEF Bound!vars, moneyVars
  <2> QED BY <1>4, <2>2 DEF AccountsStep
<1>7. CASE Appended # {}
  <2>1. /\ NewFills \in Bound!FillSeqs
        /\ \A j \in DOMAIN NewFills : NewFills[j].maker # q.owner
        /\ Bound!Filled(NewFills) = Filled /\ Filled \in Nat \ {0}
        /\ Bound!emit_fill_events(NewFills, PositionSide(Book!Opposite(q.side)))
    BY <1>1, <1>3, <1>5, <1>7, OrderSeen
  <2>2. /\ owner \in ledgers /\ position[<<owner, side>>].notional > 0
        /\ Bound!apply_close_fills(<<owner, side>>, owner, Bound!Filled(NewFills))
        /\ Bound!emit_fill_events(NewFills, side)
        /\ \A j \in DOMAIN NewFills : NewFills[j].maker # owner
    BY <1>1, <1>2, <2>1
  <2>3. UNCHANGED <<slot, rate, ledgers, funding, Bound!moneyVars>>
    BY <1>1, <1>3 DEF moneyVars, Bound!moneyVars
  <2>4. Bound!close_position(owner, side, NewFills)
    BY <2>2, <2>3 DEF Bound!close_position
  <2>5. Bound!Next
    BY <1>2, <2>1, <2>4 DEF Bound!Next, Users, Bound!Users
  <2> QED BY <1>4, <2>5 DEF AccountsStep
<1> QED BY <1>6, <1>7

LEMMA OrderNextStep ==
    ASSUME IInv, OrderNext
    PROVE  AccountsStep
<1>1. CASE \E pool \in Pools, q \in Requests :
             place_limit_order(q, pool) \/ place_market_order(q, pool)
  <2>1. PICK pool \in Pools, q \in Requests :
               place_limit_order(q, pool) \/ place_market_order(q, pool)
    BY <1>1
  <2>2. /\ has_book /\ Accepting /\ OnlyBook(market.index_source)
        /\ Book!place_limit_order(q) \/ Book!place_market_order(q)
    BY <2>1 DEF place_limit_order, PlaceLimitOrder, place_market_order, PlaceMarketOrder
  <2>3. q \in MarketOrders
    BY DEF MarketOrders
  <2> QED BY <2>2, <2>3, OrderStep, PlainStep
<1>2. CASE \E pool \in Pools, q \in Openings, k \in Keys, l \in Users :
             open_position(q, pool, k, l)
  BY <1>2, OpenStep
<1>3. CASE \E pool \in Pools, owner \in Users, side \in Sides, size \in Sizes, k \in Keys,
              l \in Users : close_position(owner, side, size, pool, k, l)
  BY <1>3, CloseStep
<1> QED BY <1>1, <1>2, <1>3 DEF OrderNext

LEMMA NextStep == IInv /\ [Next]_vars => AccountsStep
<1> SUFFICES ASSUME IInv, [Next]_vars PROVE AccountsStep
  OBVIOUS
<1>1. CASE Next
  BY <1>1, SetupStep, OrderNextStep, QueueNextStep, MoneyStep, WorldStep DEF Next
<1>2. CASE UNCHANGED vars
  <2>1. UNCHANGED <<slot, rate, setupVars, bookVars, accountVars>>
    BY <1>2 DEF vars
  <2>2. IInv'
    BY <2>1, AloneStep
  <2>3. UNCHANGED Bound!vars
    BY <2>1, BookFixed DEF Bound!vars, Bound!bookVars, accountVars, moneyVars
  <2> QED BY <2>2, <2>3 DEF AccountsStep
<1> QED BY <1>1, <1>2

(* Whatever position, ledger, mint and pool accounts its callers pass and      *)
(* whatever the book does, every instruction of the program changes ledgers,  *)
(* positions and pending fills as the accounts specification allows, or not   *)
(* at all: it implements it (lib.rs, the constraints of each handler).        *)
THEOREM AccountsImplemented == Spec => ImplementsAccounts
<1>1. Init => IInv /\ Bound!Init
  BY InitInv
<1>2. IInv /\ [Next]_vars => IInv' /\ [Bound!Next]_(Bound!vars)
  BY NextStep DEF AccountsStep
<1> QED BY <1>1, <1>2, PTL DEF Spec, ImplementsAccounts, Bound!Spec

-----------------------------------------------------------------------------
(* What each step does to positions, as it concerns the fills' bookkeeping    *)

(* The records that positions are, whatever their fields hold beside the      *)
(* notional they are known by: a natural number in every reachable state.     *)
Shape(S) ==
    [market : S, notional : Nat, entry : S, collateral : S, open_slot : S,
     last_funding_epoch : S, closed_notional : S, closed_entry : S]
Shaped == \E S : position \in [Keys -> Shape(S)]
(* A step that moves one position by d, and one that moves none.              *)
Moved(k, d) ==
    /\ k \in Keys /\ position[k].notional \in Nat /\ position'[k].notional \in Nat
    /\ Growth(k) = d
    /\ \A j \in Keys : j # k => position'[j] = position[j]
Still == \A k \in Keys : Growth(k) = 0

LEMMA Reshaped ==
    ASSUME NEW S, position \in [Keys -> Shape(S)], NEW T, NEW p \in Shape(T), NEW k \in Keys,
           position' = [position EXCEPT ![k] = p]
    PROVE  Shaped' /\ Moved(k, p.notional - position[k].notional) /\ position'[k] = p
<1>1. \A q \in Shape(S) \cup Shape(T) : q \in Shape(S \cup T)
  BY DEF Shape
<1>2. position' \in [Keys -> Shape(S \cup T)] /\ position'[k] = p
  BY <1>1
<1>3. position[k].notional \in Nat /\ p.notional \in Nat
  BY DEF Shape
<1> QED BY <1>2, <1>3 DEF Shaped, Moved, Growth

LEMMA StillShaped ==
    ASSUME Shaped, UNCHANGED position
    PROVE  Shaped' /\ Still
<1>1. PICK S : position \in [Keys -> Shape(S)]
  BY DEF Shaped
<1> QED BY <1>1 DEF Shaped, Still, Growth, Shape

LEMMA OpenMoves ==
    ASSUME Shaped, NEW k, NEW u, NEW size \in Nat, NEW entry,
           Bound!apply_open_fills(k, u, size, entry)
    PROVE  Shaped' /\ Moved(k, size)
<1>1. PICK S : position \in [Keys -> Shape(S)]
  BY DEF Shaped
<1> DEFINE p == position[k]
<1>2. PICK sums, col, open, fund :
        position' = [position EXCEPT ![k] =
          [p EXCEPT !.market = "market", !.notional = p.notional + size, !.entry = sums,
                    !.collateral = col, !.open_slot = open, !.last_funding_epoch = fund]]
  BY DEF Bound!apply_open_fills
<1>3. k \in Keys
  BY DEF Bound!apply_open_fills
<1> DEFINE T == S \cup {"market", sums, col, open, fund}
           q == [p EXCEPT !.market = "market", !.notional = p.notional + size, !.entry = sums,
                    !.collateral = col, !.open_slot = open, !.last_funding_epoch = fund]
<1>4. p \in Shape(S) /\ p.notional \in Nat
  BY <1>1, <1>3 DEF Shape
<1>5. q \in Shape(T) /\ q.notional = p.notional + size
  <2>1. S \subseteq T /\ {"market", sums, col, open, fund} \subseteq T
    OBVIOUS
  <2>2. p.notional + size \in Nat
    BY <1>4
  <2> HIDE DEF T, p
  <2>3. q \in [market : T, notional : Nat, entry : T, collateral : T, open_slot : T,
               last_funding_epoch : T, closed_notional : T, closed_entry : T]
    BY <1>4, <2>1, <2>2 DEF Shape
  <2>4. q.notional = p.notional + size
    BY <1>4 DEF Shape
  <2> QED BY <2>3, <2>4 DEF Shape
<1>6. Shaped' /\ Moved(k, q.notional - p.notional)
  <2> HIDE DEF q, T
  <2> QED BY <1>1, <1>2, <1>3, <1>5, Reshaped DEF q
<1>7. q.notional - p.notional = size
  BY <1>4, <1>5
<1> HIDE DEF q, p
<1> QED BY <1>6, <1>7

LEMMA CloseMoves ==
    ASSUME Shaped, NEW k \in Keys, NEW u, NEW size \in Nat,
           Bound!apply_close_fills(k, u, size)
    PROVE  Shaped' /\ Moved(k, -size)
<1>1. PICK S : position \in [Keys -> Shape(S)]
  BY DEF Shaped
<1> DEFINE p == position[k]
<1>2. PICK col, closed, sums :
        position' = [position EXCEPT ![k] =
          [p EXCEPT !.notional = p.notional - size, !.collateral = col,
                    !.closed_notional = closed, !.closed_entry = sums]]
  BY DEF Bound!apply_close_fills
<1>3. size <= p.notional
  BY DEF Bound!apply_close_fills
<1> DEFINE T == S \cup {sums, col, closed}
           q == [p EXCEPT !.notional = p.notional - size, !.collateral = col,
                    !.closed_notional = closed, !.closed_entry = sums]
<1>4. p \in Shape(S) /\ p.notional \in Nat
  BY <1>1 DEF Shape
<1>5. p.notional - size \in Nat
  BY <1>3, <1>4
<1>6. q \in Shape(T) /\ q.notional = p.notional - size
  BY <1>4, <1>5 DEF Shape
<1>7. Shaped' /\ Moved(k, q.notional - p.notional)
  <2> HIDE DEF q, T
  <2> QED BY <1>1, <1>2, <1>6, Reshaped DEF q
<1>8. q.notional - p.notional = -size
  BY <1>4, <1>6
<1> HIDE DEF q, p
<1> QED BY <1>7, <1>8

(* A step in which positions change by liquidation only.                      *)
Quiet == \A k \in Keys : Growth(k) = 0 \/ Liquidated(k)

LEMMA StillQuiet == Still => Quiet
BY DEF Still, Quiet

LEMMA MovedQuiet ==
    ASSUME NEW k, Moved(k, 0), Shaped
    PROVE  Quiet
<1>1. PICK S : position \in [Keys -> Shape(S)]
  BY DEF Shaped
<1>2. ASSUME NEW j \in Keys, j # k PROVE Growth(j) = 0
  <2>1. position'[j] = position[j]
    BY <1>2 DEF Moved
  <2>2. position[j].notional \in Nat
    BY <1>1 DEF Shape
  <2> QED BY <2>1, <2>2 DEF Growth
<1> QED BY <1>2 DEF Moved, Quiet

(* What the instructions that fill nothing do to a position.                  *)
LEMMA ResetMoves ==
    ASSUME Shaped, NEW k \in Keys, Bound!reset_position(k)
    PROVE  Shaped' /\ Quiet
<1>1. PICK S : position \in [Keys -> Shape(S)]
  BY DEF Shaped
<1>2. /\ position[k].notional = 0
      /\ position' = [position EXCEPT ![k] = Bound!EmptyPosition]
  BY DEF Bound!reset_position
<1> DEFINE T == {"none", 0, Bound!NoSums}
<1>3. Bound!EmptyPosition \in Shape(T) /\ Bound!EmptyPosition.notional = 0
  BY DEF Bound!EmptyPosition, Shape
<1> HIDE DEF T
<1>4. Shaped' /\ Moved(k, Bound!EmptyPosition.notional - position[k].notional)
  BY <1>1, <1>2, <1>3, Reshaped
<1>5. Moved(k, 0)
  BY <1>2, <1>3, <1>4
<1> QED BY <1>4, <1>5, MovedQuiet

LEMMA ClosedMoves ==
    ASSUME Shaped, NEW k \in Keys, NEW u, Bound!settle_close(k, u)
    PROVE  Shaped' /\ Quiet
<1>1. PICK S : position \in [Keys -> Shape(S)]
  BY DEF Shaped
<1> DEFINE p == position[k]
           q == [p EXCEPT !.closed_notional = 0, !.closed_entry = Bound!NoSums]
           T == S \cup {0, Bound!NoSums}
<1>2. position' = [position EXCEPT ![k] = q]
  BY DEF Bound!settle_close
<1>3. p \in Shape(S) /\ p.notional \in Nat
  BY <1>1 DEF Shape
<1>4. q \in Shape(T) /\ q.notional = p.notional
  BY <1>3 DEF Shape
<1>5. Shaped' /\ Moved(k, q.notional - p.notional)
  <2> HIDE DEF q, T
  <2> QED BY <1>1, <1>2, <1>4, Reshaped
<1>6. q.notional - p.notional = 0
  BY <1>3, <1>4
<1> HIDE DEF q, p
<1> QED BY <1>5, <1>6, MovedQuiet

LEMMA FundingMoves ==
    ASSUME Shaped, NEW k \in Keys, NEW u, NEW mid, Bound!settle_funding(k, u, mid)
    PROVE  Shaped' /\ Quiet
<1>1. PICK S : position \in [Keys -> Shape(S)]
  BY DEF Shaped
<1> DEFINE p == position[k]
           q == [p EXCEPT !.last_funding_epoch = Bound!cur_epoch]
           T == S \cup {Bound!cur_epoch}
<1>2. position' = [position EXCEPT ![k] = q]
  BY DEF Bound!settle_funding
<1>3. p \in Shape(S) /\ p.notional \in Nat
  BY <1>1 DEF Shape
<1>4. q \in Shape(T) /\ q.notional = p.notional
  BY <1>3 DEF Shape
<1>5. Shaped' /\ Moved(k, q.notional - p.notional)
  <2> HIDE DEF q, T
  <2> QED BY <1>1, <1>2, <1>4, Reshaped
<1>6. q.notional - p.notional = 0
  BY <1>3, <1>4
<1> HIDE DEF q, p
<1> QED BY <1>5, <1>6, MovedQuiet

LEMMA LiquidationMoves ==
    ASSUME Shaped, NEW ll, NEW k \in Keys, NEW u, NEW amount \in Sizes,
           Bound!liquidate(ll, k, u, amount)
    PROVE  Shaped' /\ Quiet
<1>1. PICK S : position \in [Keys -> Shape(S)]
  BY DEF Shaped
<1> DEFINE p == position[k]
<1>2. PICK col : position' = [position EXCEPT ![k] =
                   [p EXCEPT !.notional = p.notional - amount, !.collateral = col]]
  BY DEF Bound!liquidate
<1>3. amount <= p.notional /\ amount \in Nat \ {0}
  <2>1. amount \in Nat \ {0}
    BY OrderAssumption, WidthAssumption DEF U64
  <2> QED BY <2>1 DEF Bound!liquidate
<1> DEFINE q == [p EXCEPT !.notional = p.notional - amount, !.collateral = col]
           T == S \cup {col}
<1>4. p \in Shape(S) /\ p.notional \in Nat
  BY <1>1 DEF Shape
<1>5. q \in Shape(T) /\ q.notional = p.notional - amount /\ q.closed_notional = p.closed_notional
  <2>1. p.notional - amount \in Nat
    BY <1>3, <1>4
  <2> QED BY <1>4, <2>1 DEF Shape
<1>6. Shaped' /\ Moved(k, q.notional - p.notional) /\ position'[k] = q
  <2>1. position' = [position EXCEPT ![k] = q]
    BY <1>2
  <2> HIDE DEF q, T
  <2> QED BY <1>1, <2>1, <1>5, Reshaped
<1>7. q.notional - p.notional < 0
  BY <1>3, <1>4, <1>5
<1> HIDE DEF q, p
<1>8. Liquidated(k)
  BY <1>5, <1>6, <1>7 DEF Liquidated, Moved, p
<1>9. ASSUME NEW j \in Keys, j # k PROVE Growth(j) = 0
  <2>1. position'[j] = position[j]
    BY <1>6, <1>9 DEF Moved
  <2>2. position[j].notional \in Nat
    BY <1>1 DEF Shape
  <2> QED BY <2>1, <2>2 DEF Growth
<1> QED BY <1>6, <1>8, <1>9 DEF Quiet

LEMMA FirstShaped == Init => Shaped
<1> SUFFICES ASSUME Init PROVE Shaped
  OBVIOUS
<1> DEFINE T == {"none", 0, Bound!NoSums}
<1>1. Bound!EmptyPosition \in Shape(T)
  BY DEF Bound!EmptyPosition, Shape
<1>2. position = [k \in Keys |-> Bound!EmptyPosition]
  BY DEF Init, Bound!Init, Keys, Bound!Keys, Sides, Bound!Sides, Users, Bound!Users
<1> HIDE DEF T
<1>3. position \in [Keys -> Shape(T)]
  BY <1>1, <1>2
<1> QED BY <1>3 DEF Shaped

LEMMA MoneyQuiet ==
    ASSUME IInv, Shaped, MoneyNext
    PROVE  UNCHANGED bookVars /\ Shaped' /\ Quiet
<1>1. UNCHANGED bookVars
  BY MoneySeen
<1>2. CASE \E l \in Users, amount \in Amounts :
             Bound!deposit_collateral(l, amount) \/ Bound!withdraw_collateral(l, amount)
  <2>1. UNCHANGED position
    BY <1>2 DEF Bound!deposit_collateral, Bound!withdraw_collateral
  <2> QED BY <1>1, <2>1, StillShaped, StillQuiet
<1>3. CASE \E k \in Keys : Bound!reset_position(k) \/ Bound!settle_close(k, k[1])
  BY <1>1, <1>3, ResetMoves, ClosedMoves
<1>4. CASE \E k \in Keys : Bound!settle_funding(k, k[1], Book!mid(book))
  BY <1>1, <1>4, FundingMoves
<1>5. CASE \E ll \in Users, k \in Keys, amount \in Sizes :
             Bound!liquidate(ll, k, k[1], amount)
  BY <1>1, <1>5, LiquidationMoves
<1> QED BY <1>2, <1>3, <1>4, <1>5, MoneySeen

(* Numbers only grow: a fill in the ring, or one already consumed, was        *)
(* numbered before the next event, so no slot is written twice under one number. *)
Marked ==
    \A i \in RingSlots :
        events[i].kind = "Fill" \/ stamp[i].settled = 1 => stamp[i].seq < event_write_cursor
Appending == Proven!Appends /\ Stamped(market.index_source)
Consuming ==
    \E i \in RingSlots :
        events[i].kind = "Fill" /\ Consumed(i) /\ UNCHANGED <<events, event_write_cursor>>
RingStep == Appending \/ Consuming \/ UNCHANGED bookVars
MarksStay ==
    \A i \in RingSlots :
        stamp[i].settled = 1 /\ stamp'[i].seq = stamp[i].seq => stamp'[i] = stamp[i]

LEMMA FirstMarked == Init => Marked
<1> SUFFICES ASSUME Init, NEW i \in RingSlots
    PROVE  events[i].kind # "Fill" /\ stamp[i].settled = 0
  BY DEF Marked
<1>1. events[i] = Book!Unwritten /\ stamp[i].settled = 0
  BY SameSlots DEF Init, Book!Init, Book!RingSlots, RingSlots, Book!EmptyRing
<1> QED BY <1>1 DEF Book!Unwritten

LEMMA MarkedStep ==
    ASSUME stamp \in [RingSlots -> Stamps], Marked, RingStep
    PROVE  Marked' /\ MarksStay
<1>1. CASE UNCHANGED bookVars
  BY <1>1 DEF bookVars, Marked, MarksStay
<1>2. CASE Consuming
  <2>1. PICK i \in RingSlots : /\ events[i].kind = "Fill" /\ Consumed(i)
                               /\ UNCHANGED <<events, event_write_cursor>>
    BY <1>2 DEF Consuming
  <2>2. /\ stamp[i].settled = 0 /\ stamp'[i].seq = stamp[i].seq
        /\ \A j \in RingSlots : j # i => stamp'[j] = stamp[j]
    BY <2>1 DEF Consumed, Stamps
  <2>3. ASSUME NEW j \in RingSlots
        PROVE  /\ stamp'[j].seq = stamp[j].seq
               /\ j # i => stamp'[j] = stamp[j]
    BY <2>2
  <2>4. MarksStay
    BY <2>2, <2>3 DEF MarksStay
  <2>5. Marked'
    BY <2>1, <2>2, <2>3 DEF Marked
  <2> QED BY <2>4, <2>5
<1>3. CASE Appending
  <2> DEFINE pool == market.index_source
  <2>1. Proven!Appends /\ Stamped(pool)
    BY <1>3 DEF Appending
  <2> HIDE DEF pool
  <2>2. PICK w, w1 : w = event_write_cursor /\ w1 = event_write_cursor'
    OBVIOUS
  <2>3. w \in Nat /\ w1 \in Nat /\ w <= w1 /\ Appended = w..(w1 - 1)
    BY <2>1, <2>2 DEF Proven!Appends, Appended
  <2>4. ASSUME NEW n \in Appended, NEW i \in RingSlots, n % L = i
        PROVE  stamp'[i].seq = n /\ n < w1 /\ w <= n
    <3>1. stamp'[i] = StampOf(n, pool)
      BY <2>1, <2>4, StampedFacts
    <3> QED BY <2>3, <3>1 DEF StampOf
  <2>5. ASSUME NEW i \in RingSlots, \A n \in Appended : n % L # i
        PROVE  stamp'[i] = stamp[i] /\ events'[i] = events[i]
    BY <2>1, <2>5, StampedFacts, AppendedFacts
  <2>6. \A i \in RingSlots : stamp[i].seq \in Nat
    BY DEF Stamps
  <2>7. ASSUME NEW i \in RingSlots
        PROVE  /\ events'[i].kind = "Fill" \/ stamp'[i].settled = 1 => stamp'[i].seq < w1
               /\ stamp[i].settled = 1 /\ stamp'[i].seq = stamp[i].seq => stamp'[i] = stamp[i]
    <3>1. CASE \E n \in Appended : n % L = i
      <4>1. PICK n \in Appended : n % L = i
        BY <3>1
      <4>2. stamp'[i].seq = n /\ n < w1 /\ w <= n
        BY <2>4, <4>1
      <4>3. stamp[i].settled = 1 => stamp[i].seq < w
        BY <2>2 DEF Marked
      <4>4. stamp[i].settled = 1 => stamp'[i].seq # stamp[i].seq
        <5>1. n \in Nat
          BY <2>3
        <5> QED BY <2>3, <2>6, <4>2, <4>3, <5>1
      <4> QED BY <4>2, <4>4
    <3>2. CASE \A n \in Appended : n % L # i
      <4>1. stamp'[i] = stamp[i] /\ events'[i] = events[i]
        BY <2>5, <3>2
      <4>2. events[i].kind = "Fill" \/ stamp[i].settled = 1 => stamp[i].seq < w
        BY <2>2 DEF Marked
      <4> QED BY <2>3, <2>6, <4>1, <4>2
    <3> QED BY <3>1, <3>2
  <2> QED BY <2>2, <2>7 DEF Marked, MarksStay
<1> QED BY <1>1, <1>2, <1>3 DEF RingStep

(* A position that grows by consuming a pending fill of its owner, and one    *)
(* that its owner's order opens or closes by what its fills add up to.        *)
Booked(k) ==
    \E i \in RingSlots :
        /\ events[i].kind = "Fill" /\ Consumed(i) /\ UNCHANGED <<events, event_write_cursor>>
        /\ k = <<events[i].owner, PositionSide(events[i].side)>>
        /\ Moved(k, events[i].size) /\ events[i].size \in Nat \ {0}
Ordered(k) ==
    /\ Appending /\ Appended # {} /\ Filled \in Nat \ {0}
    /\ \E q \in MarketOrders :
         /\ OnlyFills(q) /\ k[1] = q.owner
         /\ \/ Moved(k, Filled) /\ k[2] = PositionSide(q.side)
            \/ Moved(k, -Filled) /\ k[2] = PositionSide(Book!Opposite(q.side))
StepSeen ==
    Shaped' /\ RingStep /\ (Quiet \/ \E k \in Keys : Booked(k) \/ Ordered(k))

LEMMA PlainSeen ==
    ASSUME Shaped, Proven!Appends, OnlyBook(market.index_source)
    PROVE  StepSeen
<1>1. Stamped(market.index_source) /\ UNCHANGED position
  BY DEF OnlyBook, accountVars
<1> QED BY <1>1, StillShaped, StillQuiet DEF StepSeen, RingStep, Appending

LEMMA OpenSeen ==
    ASSUME IInv, Shaped, NEW pool \in Pools, NEW q \in Openings, NEW k \in Keys, NEW l \in Users,
           open_position(q, pool, k, l)
    PROVE  StepSeen
<1>1. /\ has_book /\ pool = market.index_source /\ Accepting
      /\ k = <<q.owner, PositionSide(q.side)>>
      /\ Book!open_position(q) /\ Stamped(pool)
      /\ IF Filled = 0 THEN UNCHANGED <<position, reserved>>
         ELSE Bound!apply_open_fills(k, l, Filled, ExchangeRateOf(pool))
  BY DEF open_position, OpenPosition, position_pda
<1>2. q \in MarketOrders
  BY DEF MarketOrders
<1>3. Proven!Appends /\ OnlyFills(q)
  BY <1>1, <1>2, OrderStep, TakerStep
<1>4. Appending
  BY <1>1, <1>3 DEF Appending
<1>5. CASE Appended = {}
  <2>1. UNCHANGED position
    BY <1>1, <1>5, NoneFilled
  <2> QED BY <1>4, <2>1, StillShaped, StillQuiet DEF StepSeen, RingStep
<1>6. CASE Appended # {}
  <2>1. ExchangeRateOf(pool) = rate
    BY <1>1, BoundRate DEF IInv
  <2>2. Filled \in Nat \ {0}
    BY <1>1, <1>3, <1>6, <2>1, OrderSeen
  <2>3. Shaped' /\ Moved(k, Filled)
    BY <1>1, <2>2, OpenMoves
  <2>4. Ordered(k)
    BY <1>1, <1>2, <1>3, <1>4, <1>6, <2>2, <2>3 DEF Ordered
  <2> QED BY <1>4, <2>3, <2>4 DEF StepSeen, RingStep
<1> QED BY <1>5, <1>6

LEMMA CloseSeen ==
    ASSUME IInv, Shaped, NEW pool \in Pools, NEW owner \in Users, NEW side \in Sides,
           NEW size \in Sizes, NEW k \in Keys, NEW l \in Users,
           close_position(owner, side, size, pool, k, l)
    PROVE  StepSeen
<1> DEFINE q == ClosingOrder(owner, side, size)
<1>1. /\ has_book /\ pool = market.index_source /\ Accepting
      /\ k = <<owner, side>>
      /\ Book!close_position(q) /\ Stamped(pool)
      /\ IF Filled = 0 THEN UNCHANGED <<position, reserved>>
         ELSE l \in ledgers /\ Bound!apply_close_fills(k, l, Filled)
  BY DEF close_position, ClosePosition, position_pda
<1>2. /\ q \in MarketOrders /\ q.owner = owner
      /\ PositionSide(Book!Opposite(q.side)) = side
  BY DEF MarketOrders, ClosingOrders, ClosingOrder, ClosingSide, BookSide, PositionSide,
         Book!Opposite, Sides
<1> HIDE DEF q
<1>3. Proven!Appends /\ OnlyFills(q)
  BY <1>1, <1>2, OrderStep, TakerStep
<1>4. Appending
  BY <1>1, <1>3 DEF Appending
<1>5. CASE Appended = {}
  <2>1. UNCHANGED position
    BY <1>1, <1>5, NoneFilled
  <2> QED BY <1>4, <2>1, StillShaped, StillQuiet DEF StepSeen, RingStep
<1>6. CASE Appended # {}
  <2>1. ExchangeRateOf(pool) = rate
    BY <1>1, BoundRate DEF IInv
  <2>2. Filled \in Nat \ {0}
    BY <1>1, <1>3, <1>6, <2>1, OrderSeen
  <2>3. Shaped' /\ Moved(k, -Filled)
    BY <1>1, <2>2, CloseMoves
  <2>4. Ordered(k)
    BY <1>1, <1>2, <1>3, <1>4, <1>6, <2>2, <2>3 DEF Ordered
  <2> QED BY <1>4, <2>3, <2>4 DEF StepSeen, RingStep
<1> QED BY <1>5, <1>6

LEMMA SettleSeen ==
    ASSUME IInv, Shaped, NEW seq \in 0..event_write_cursor, NEW k \in Keys, NEW l \in Users,
           settle_fill(seq, k, l)
    PROVE  StepSeen
<1> DEFINE i == seq % EVENT_QUEUE_LEN
<1>1. i \in RingSlots
  <2>1. event_write_cursor \in Nat
    BY DEF IInv, Proven!IInv, Proven!Rings, Proven!ring
  <2> QED BY <2>1, SameSlots
<1>2. /\ events[i].kind = "Fill" /\ Consumed(i) /\ UNCHANGED <<events, event_write_cursor>>
      /\ k = <<events[i].owner, PositionSide(events[i].side)>>
      /\ Bound!apply_open_fills(k, l, events[i].size, stamp[i].entry)
  BY DEF settle_fill, settle_event, verify_maker_accounts, position_pda, MarkSettled, Consumed
<1> HIDE DEF i
<1>3. events[i].size \in Nat \ {0}
  <2>1. events[i] \in Proven!OutEvents \cup {Proven!Unwritten}
    BY <1>1, SameSlots DEF IInv, Proven!IInv, Proven!Rings, Proven!ring
  <2>2. events[i].size \in Sizes
    BY <1>2, <2>1, SizesSeen DEF Proven!Unwritten, Proven!OutEvents, Proven!OutEvent
  <2>3. Sizes \subseteq Nat \ {0}
    BY OrderAssumption, WidthAssumption DEF U64
  <2> QED BY <2>2, <2>3, Zenon
<1>4. Shaped' /\ Moved(k, events[i].size)
  BY <1>2, <1>3, OpenMoves
<1>5. RingStep
  BY <1>1, <1>2 DEF RingStep, Consuming
<1>6. Booked(k)
  BY <1>1, <1>2, <1>3, <1>4 DEF Booked
<1> QED BY <1>4, <1>5, <1>6 DEF StepSeen

LEMMA EveryStepSeen == IInv /\ Shaped /\ [Next]_vars => StepSeen
<1> SUFFICES ASSUME IInv, Shaped, [Next]_vars PROVE StepSeen
  OBVIOUS
<1>1. ASSUME UNCHANGED <<bookVars, position>> PROVE StepSeen
  BY <1>1, StillShaped, StillQuiet DEF StepSeen, RingStep
<1>2. CASE UNCHANGED vars
  BY <1>1, <1>2 DEF vars, accountVars
<1>3. CASE SetupNext
  BY <1>1, <1>3 DEF SetupNext, initialize_market, initialize_order_book,
                    initialize_collateral_vault, accountVars
<1>4. CASE MoneyNext
  BY <1>4, MoneyQuiet DEF StepSeen, RingStep
<1>5. CASE change_rate \/ tick
  BY <1>1, <1>5 DEF change_rate, tick, Bound!change_rate, Bound!tick
<1>6. CASE QueueNext
  <2>1. CASE \E side \in Book!Sides, i \in 1..MAX_ORDERS_PER_SIDE : cancel_order(side, i)
    <3>1. /\ OnlyBook(market.index_source)
          /\ \E side \in Book!Sides, i \in 1..MAX_ORDERS_PER_SIDE : Book!cancel_order(side, i)
      BY <2>1 DEF cancel_order
    <3> QED BY <3>1, QueueStep, PlainSeen
  <2>2. CASE \E pool \in Pools : crank(pool)
    <3>1. OnlyBook(market.index_source) /\ Book!crank
      BY <2>2 DEF crank, Crank
    <3> QED BY <3>1, QueueStep, PlainSeen
  <2>3. CASE \E seq \in 0..event_write_cursor, k \in Keys, l \in Users : settle_fill(seq, k, l)
    BY <2>3, SettleSeen
  <2> QED BY <1>6, <2>1, <2>2, <2>3 DEF QueueNext
<1>7. CASE OrderNext
  <2>1. CASE \E pool \in Pools, q \in Requests :
               place_limit_order(q, pool) \/ place_market_order(q, pool)
    <3>1. PICK pool \in Pools, q \in Requests :
                 place_limit_order(q, pool) \/ place_market_order(q, pool)
      BY <2>1
    <3>2. /\ Accepting /\ OnlyBook(market.index_source)
          /\ Book!place_limit_order(q) \/ Book!place_market_order(q)
      BY <3>1 DEF place_limit_order, PlaceLimitOrder, place_market_order, PlaceMarketOrder
    <3>3. q \in MarketOrders
      BY DEF MarketOrders
    <3> QED BY <3>2, <3>3, OrderStep, PlainSeen
  <2>2. CASE \E pool \in Pools, q \in Openings, k \in Keys, l \in Users :
               open_position(q, pool, k, l)
    BY <2>2, OpenSeen
  <2>3. CASE \E pool \in Pools, owner \in Users, side \in Sides, size \in Sizes, k \in Keys,
                l \in Users : close_position(owner, side, size, pool, k, l)
    BY <2>3, CloseSeen
  <2> QED BY <1>7, <2>1, <2>2, <2>3 DEF OrderNext
<1> QED BY <1>2, <1>3, <1>4, <1>5, <1>6, <1>7 DEF Next

BookedOnce ==
    \A k \in Keys : Grew(k) =>
        IF Appended = {}
        THEN \E i \in RingSlots :
               /\ Consumed(i) /\ events[i].owner = k[1]
               /\ PositionSide(events[i].side) = k[2] /\ events[i].size = Growth(k)
        ELSE /\ \A n \in Appended :
                  /\ stamp'[n % EVENT_QUEUE_LEN].settled = 0
                  /\ NewEvent(n).owner # k[1]
                  /\ PositionSide(NewEvent(n).side) = Opposite(k[2])
             /\ Growth(k) = Filled

LEMMA GrowsBy ==
    ASSUME Shaped, Shaped', NEW k \in Keys
    PROVE  /\ Growth(k) \in Int
           /\ Grew(k) <=> Growth(k) > 0
<1>1. PICK S : position \in [Keys -> Shape(S)]
  BY DEF Shaped
<1>2. PICK p1 : p1 = position'
  OBVIOUS
<1>3. PICK T : p1 \in [Keys -> Shape(T)]
  BY <1>2 DEF Shaped
<1>4. position[k].notional \in Nat /\ p1[k].notional \in Nat
  BY <1>1, <1>3 DEF Shape
<1>5. Growth(k) = p1[k].notional - position[k].notional
      /\ (Grew(k) <=> p1[k].notional > position[k].notional)
  BY <1>2 DEF Growth, Grew
<1> QED BY <1>4, <1>5

LEMMA OthersStay ==
    ASSUME Shaped, NEW k, NEW d, Moved(k, d), NEW j \in Keys, j # k
    PROVE  Growth(j) = 0
<1>1. PICK S : position \in [Keys -> Shape(S)]
  BY DEF Shaped
<1>2. position'[j] = position[j]
  BY DEF Moved
<1>3. position[j].notional \in Nat
  BY <1>1 DEF Shape
<1> QED BY <1>2, <1>3 DEF Growth

LEMMA OnceStep ==
    ASSUME IInv, Shaped, StepSeen
    PROVE  BookedOnce
<1> SUFFICES ASSUME NEW k \in Keys, Grew(k)
             PROVE  IF Appended = {}
                    THEN \E i \in RingSlots :
                           /\ Consumed(i) /\ events[i].owner = k[1]
                           /\ PositionSide(events[i].side) = k[2] /\ events[i].size = Growth(k)
                    ELSE /\ \A n \in Appended :
                              /\ stamp'[n % EVENT_QUEUE_LEN].settled = 0
                              /\ NewEvent(n).owner # k[1]
                              /\ PositionSide(NewEvent(n).side) = Opposite(k[2])
                         /\ Growth(k) = Filled
  BY DEF BookedOnce
<1>1. Growth(k) > 0 /\ Growth(k) \in Int
  BY GrowsBy DEF StepSeen
<1>2. CASE Quiet
  BY <1>1, <1>2 DEF Quiet, Liquidated
<1>3. ASSUME NEW j \in Keys, Booked(j)
      PROVE  /\ Appended = {}
             /\ \E i \in RingSlots :
                  /\ Consumed(i) /\ events[i].owner = k[1]
                  /\ PositionSide(events[i].side) = k[2] /\ events[i].size = Growth(k)
  <2>1. PICK i \in RingSlots :
          /\ Consumed(i) /\ UNCHANGED event_write_cursor
          /\ j = <<events[i].owner, PositionSide(events[i].side)>>
          /\ Moved(j, events[i].size)
    BY <1>3 DEF Booked
  <2>2. j = k
    <3> SUFFICES ASSUME j # k PROVE FALSE
      OBVIOUS
    <3>1. Growth(k) = 0
      BY <2>1, OthersStay
    <3> QED BY <1>1, <3>1
  <2>3. Growth(k) = events[i].size
    BY <2>1, <2>2 DEF Moved
  <2>4. Appended = {}
    BY <2>1 DEF Appended, IInv, Proven!IInv, Proven!Rings, Proven!ring
  <2> QED BY <2>1, <2>2, <2>3, <2>4
<1>4. ASSUME NEW j \in Keys, Ordered(j)
      PROVE  /\ Appended # {}
             /\ \A n \in Appended :
                  /\ stamp'[n % EVENT_QUEUE_LEN].settled = 0
                  /\ NewEvent(n).owner # k[1]
                  /\ PositionSide(NewEvent(n).side) = Opposite(k[2])
             /\ Growth(k) = Filled
  <2>1. PICK q \in MarketOrders :
          /\ OnlyFills(q) /\ j[1] = q.owner
          /\ \/ Moved(j, Filled) /\ j[2] = PositionSide(q.side)
             \/ Moved(j, -Filled) /\ j[2] = PositionSide(Book!Opposite(q.side))
    BY <1>4 DEF Ordered
  <2>2. Filled \in Nat \ {0} /\ Appended # {} /\ Appending
    BY <1>4 DEF Ordered
  <2>3. j = k
    <3> SUFFICES ASSUME j # k PROVE FALSE
      OBVIOUS
    <3>1. Growth(k) = 0
      BY <2>1, OthersStay
    <3> QED BY <1>1, <3>1
  <2>4. Growth(k) = Filled /\ k[2] = PositionSide(q.side)
    <3>1. CASE Moved(j, Filled) /\ j[2] = PositionSide(q.side)
      BY <2>3, <3>1 DEF Moved
    <3>2. CASE Moved(j, -Filled)
      <4>1. Growth(k) = -Filled
        BY <2>3, <3>2 DEF Moved
      <4> QED BY <1>1, <2>2, <4>1
    <3> QED BY <2>1, <3>1, <3>2
  <2>5. ASSUME NEW n \in Appended
        PROVE  /\ stamp'[n % EVENT_QUEUE_LEN].settled = 0
               /\ NewEvent(n).owner # k[1]
               /\ PositionSide(NewEvent(n).side) = Opposite(k[2])
    <3>1. stamp'[n % L] = StampOf(n, market.index_source)
      BY <2>2, StampedFacts DEF Appending
    <3>2. stamp'[n % EVENT_QUEUE_LEN].settled = 0
      BY <3>1 DEF StampOf, L
    <3>3. NewEvent(n).owner # q.owner /\ NewEvent(n).side = Book!Opposite(q.side)
      BY <2>1 DEF OnlyFills
    <3>4. q.side \in {"Bid", "Ask"}
      BY BookAssumed DEF Proven!Sides
    <3>5. PositionSide(NewEvent(n).side) = Opposite(k[2])
      BY <2>4, <3>3, <3>4 DEF PositionSide, Book!Opposite, Opposite
    <3> QED BY <2>1, <2>3, <3>2, <3>3, <3>5
  <2> QED BY <2>2, <2>4, <2>5
<1>5. Quiet \/ \E j \in Keys : Booked(j) \/ Ordered(j)
  BY DEF StepSeen
<1>6. CASE \E j \in Keys : Booked(j)
  BY <1>3, <1>6
<1>7. CASE \E j \in Keys : Ordered(j)
  BY <1>4, <1>7
<1> QED BY <1>2, <1>5, <1>6, <1>7

(* The inductive invariant: that of the refinement, positions that have a     *)
(* notional, and numbers that are not reused.                                 *)
MInv == IInv /\ Shaped /\ Marked

LEMMA MInvStep == MInv /\ [Next]_vars => MInv' /\ StepSeen /\ MarksStay
<1> SUFFICES ASSUME MInv, [Next]_vars PROVE MInv' /\ StepSeen /\ MarksStay
  OBVIOUS
<1>1. IInv'
  BY NextStep DEF AccountsStep, MInv
<1>2. StepSeen
  BY EveryStepSeen DEF MInv
<1>3. Shaped' /\ RingStep
  BY <1>2 DEF StepSeen
<1>4. Marked' /\ MarksStay
  BY <1>3, MarkedStep DEF MInv, IInv
<1> QED BY <1>1, <1>2, <1>3, <1>4 DEF MInv

(* A fill is booked once on each side: a position grows as the taker whose    *)
(* order leaves its makers pending events of the same total, or by consuming  *)
(* one pending event of its own, and a consumed event stays consumed until the *)
(* ring overwrites it (lib.rs: open_position, settle_fill, D9).               *)
THEOREM FillsBookedOnce == Spec => FillBookedOnce
<1>1. Init => MInv
  BY InitInv, FirstShaped, FirstMarked DEF MInv
<1>2. MInv /\ [Next]_vars => MInv' /\ BookedOnce /\ MarksStay
  BY MInvStep, OnceStep DEF MInv
<1>3. BookedOnce /\ MarksStay =>
        [/\ \A k \in Keys : Grew(k) =>
            IF Appended = {}
            THEN \E i \in RingSlots :
                   /\ Consumed(i) /\ events[i].owner = k[1]
                   /\ PositionSide(events[i].side) = k[2] /\ events[i].size = Growth(k)
            ELSE /\ \A n \in Appended :
                      /\ stamp'[n % EVENT_QUEUE_LEN].settled = 0
                      /\ NewEvent(n).owner # k[1]
                      /\ PositionSide(NewEvent(n).side) = Opposite(k[2])
                 /\ Growth(k) = Filled
         /\ \A i \in RingSlots :
            stamp[i].settled = 1 /\ stamp'[i].seq = stamp[i].seq => stamp'[i] = stamp[i]]_vars
  BY DEF BookedOnce, MarksStay
<1> QED BY <1>1, <1>2, <1>3, PTL DEF Spec, FillBookedOnce

-----------------------------------------------------------------------------
(* Totals of positions and of pending fills                                   *)

Total(f) == Book!SumFunction(f)

LEMMA TotalWithout ==
    ASSUME NEW D, IsFiniteSet(D), NEW f \in [D -> Int]
    PROVE  /\ Total(f) \in Int
           /\ D = {} => Total(f) = 0
           /\ \A x \in D : Total(f) = f[x] + Total([y \in D \ {x} |-> f[y]])
<1>1. Proven!IsFiniteSet(D)
  BY SameFinite
<1>2. /\ Proven!SumFunction(f) \in Int
      /\ D = {} => Proven!SumFunction(f) = 0
      /\ \A x \in D : Proven!SumFunction(f) = f[x] + Proven!SumFunction([y \in D \ {x} |-> f[y]])
  BY <1>1, Proven!SumWithout, BookAssumed
<1> QED BY <1>2, SameSums DEF Total

(* r is f without its value at x.                                            *)
Less(r, f, D, x) ==
    /\ IsFiniteSet(D) /\ f \in [D -> Int] /\ x \in D
    /\ r = [y \in D \ {x} |-> f[y]]

LEMMA TotalLess ==
    ASSUME NEW D, NEW f, NEW x, NEW r, Less(r, f, D, x)
    PROVE  Total(f) = f[x] + Total(r)
BY TotalWithout DEF Less

LEMMA SignedInt == \A side : \A a \in Int : Signed(side, a) \in Int
BY DEF Signed

LEMMA SignedSums ==
    ASSUME NEW side
    PROVE  /\ Signed(side, 0) = 0
           /\ \A a, b \in Int : Signed(side, a + b) = Signed(side, a) + Signed(side, b)
<1>1. CASE side = "Long"
  <2>1. \A a : Signed(side, a) = a
    BY <1>1 DEF Signed
  <2> QED BY <2>1
<1>2. CASE side # "Long"
  <2>1. \A a : Signed(side, a) = -a
    BY <1>2 DEF Signed
  <2> QED BY <2>1
<1> QED BY <1>1, <1>2

LEMMA TotalChanged ==
    ASSUME NEW D, IsFiniteSet(D), NEW f \in [D -> Int], NEW g \in [D -> Int],
           NEW x \in D, \A y \in D \ {x} : g[y] = f[y]
    PROVE  Total(g) - Total(f) = g[x] - f[x]
<1>1. Proven!IsFiniteSet(D)
  BY SameFinite
<1>2. Proven!SumFunction(g) - Proven!SumFunction(f) = g[x] - f[x]
  BY <1>1, Proven!SumChanged, BookAssumed
<1> QED BY <1>2, SameSums DEF Total

LEMMA Subsets ==
    ASSUME NEW D, IsFiniteSet(D), NEW T,
           \A s \in SUBSET D : (\A x \in s : s \ {x} \in T) => s \in T
    PROVE  SUBSET D \subseteq T
<1>1. Proven!IsFiniteSet(D)
  BY SameFinite
<1> QED BY <1>1, Proven!AllSubsets, BookAssumed

(* Writing a batch of values of one sign over some of the places adds its     *)
(* total and takes away what was there.                                       *)
Replaces(D, A, h, f, g, z, side) ==
    /\ IsFiniteSet(D) /\ IsFiniteSet(A)
    /\ h \in [A -> D] /\ \A m, n \in A : h[m] = h[n] => m = n
    /\ f \in [D -> Int] /\ g \in [D -> Int] /\ z \in [A -> Int]
    /\ \A n \in A : g[h[n]] = Signed(side, z[n])
    /\ \A i \in D : (\A n \in A : h[n] # i) => g[i] = f[i]

LEMMA Replaced ==
    ASSUME NEW D, NEW A, NEW h, NEW f, NEW g, NEW z, NEW side,
           Replaces(D, A, h, f, g, z, side)
    PROVE  Total(g) = (Total(f) - Total([i \in {j \in D : \E n \in A : h[n] = j} |-> f[i]]))
                        + Signed(side, Total(z))
<1>0. /\ IsFiniteSet(D) /\ IsFiniteSet(A)
      /\ h \in [A -> D] /\ \A m, n \in A : h[m] = h[n] => m = n
      /\ f \in [D -> Int] /\ g \in [D -> Int] /\ z \in [A -> Int]
      /\ \A n \in A : g[h[n]] = Signed(side, z[n])
      /\ \A i \in D : (\A n \in A : h[n] # i) => g[i] = f[i]
  BY DEF Replaces
<1> USE <1>0
<1> DEFINE Hit(B) == {j \in D : \E n \in B : h[n] = j}
           G(B) == [i \in D |-> IF i \in Hit(B) THEN g[i] ELSE f[i]]
           F(B) == [i \in Hit(B) |-> f[i]]
           Z(B) == [n \in B |-> z[n]]
           T == {B \in SUBSET A :
                   Total(G(B)) = (Total(f) - Total(F(B))) + Signed(side, Total(Z(B)))}
<1>1. ASSUME NEW B \in SUBSET A
      PROVE  /\ G(B) \in [D -> Int] /\ F(B) \in [Hit(B) -> Int] /\ Z(B) \in [B -> Int]
             /\ IsFiniteSet(Hit(B)) /\ IsFiniteSet(B)
  BY FS_Subset
<1>2. ASSUME NEW B \in SUBSET A
      PROVE  /\ Total(G(B)) \in Int /\ Total(F(B)) \in Int /\ Total(Z(B)) \in Int
             /\ Total(f) \in Int
             /\ B = {} => Total(F(B)) = 0 /\ Total(Z(B)) = 0
  <2>1. B = {} => Hit(B) = {}
    OBVIOUS
  <2>2. /\ G(B) \in [D -> Int] /\ F(B) \in [Hit(B) -> Int] /\ Z(B) \in [B -> Int]
        /\ IsFiniteSet(Hit(B)) /\ IsFiniteSet(B)
    BY <1>1
  <2> HIDE DEF G, F, Z, Hit
  <2>3. Total(G(B)) \in Int /\ Total(f) \in Int
    BY <2>2, TotalWithout
  <2>4. Total(F(B)) \in Int /\ (Hit(B) = {} => Total(F(B)) = 0)
    BY <2>2, TotalWithout
  <2>5. Total(Z(B)) \in Int /\ (B = {} => Total(Z(B)) = 0)
    BY <2>2, TotalWithout
  <2> QED BY <2>1, <2>3, <2>4, <2>5
<1>3. ASSUME NEW B \in SUBSET A, \A x \in B : B \ {x} \in T PROVE B \in T
  <2>1. CASE B = {}
    <3>1. G(B) = f
      BY <2>1
    <3>2. Signed(side, 0) = 0
      BY SignedSums
    <3>3. Total(F(B)) = 0 /\ Total(Z(B)) = 0 /\ Total(f) \in Int
      BY <1>2, <2>1
    <3> HIDE DEF G, F, Z
    <3> QED BY <3>1, <3>2, <3>3
  <2>2. CASE B # {}
    <3>1. PICK x \in B : TRUE
      BY <2>2
    <3> DEFINE C == B \ {x}
               y == h[x]
    <3>2. C \in SUBSET A /\ y \in D /\ y \in Hit(B) /\ x \in A
      BY <3>1
    <3>3. y \notin Hit(C) /\ Hit(C) = Hit(B) \ {y}
      BY <3>1
    <3>4. C \in T
      BY <1>3, <3>1
    <3>5. Total(G(B)) - Total(G(C)) = g[y] - f[y]
      <4>1. \A i \in D \ {y} : G(B)[i] = G(C)[i]
        BY <3>3
      <4>2. G(B)[y] = g[y] /\ G(C)[y] = f[y]
        BY <3>2, <3>3
      <4>3. G(B) \in [D -> Int] /\ G(C) \in [D -> Int]
        BY <1>1, <3>2
      <4> HIDE DEF G, C, y, Hit
      <4>4. Total(G(B)) - Total(G(C)) = G(B)[y] - G(C)[y]
        BY <3>2, <4>1, <4>3, TotalChanged
      <4> QED BY <4>2, <4>4
    <3>6. Total(F(B)) = f[y] + Total(F(C))
      <4>1. F(B) \in [Hit(B) -> Int] /\ IsFiniteSet(Hit(B))
        BY <1>1
      <4>2. F(C) = [i \in Hit(B) \ {y} |-> F(B)[i]]
        BY <3>3
      <4>3. F(B)[y] = f[y]
        BY <3>2
      <4> HIDE DEF F, C, y, Hit
      <4>4. Total(F(B)) = F(B)[y] + Total(F(C))
        <5>1. Less(F(C), F(B), Hit(B), y)
          BY <3>2, <4>1, <4>2 DEF Less
        <5> QED BY <5>1, TotalLess
      <4> QED BY <4>3, <4>4
    <3>7. Total(Z(B)) = z[x] + Total(Z(C))
      <4>1. Z(B) \in [B -> Int] /\ IsFiniteSet(B)
        BY <1>1
      <4>2. Z(C) = [n \in B \ {x} |-> Z(B)[n]]
        OBVIOUS
      <4>3. Z(B)[x] = z[x]
        BY <3>1
      <4> HIDE DEF Z, C
      <4>4. Total(Z(B)) = Z(B)[x] + Total(Z(C))
        <5>1. Less(Z(C), Z(B), B, x)
          BY <3>1, <4>1, <4>2 DEF Less
        <5> QED BY <5>1, TotalLess
      <4> QED BY <4>3, <4>4
    <3>8. g[y] = Signed(side, z[x]) /\ z[x] \in Int /\ f[y] \in Int
      BY <3>2
    <3>9. /\ Total(G(C)) = (Total(f) - Total(F(C))) + Signed(side, Total(Z(C)))
          /\ Total(G(B)) \in Int /\ Total(G(C)) \in Int
          /\ Total(F(C)) \in Int /\ Total(Z(C)) \in Int /\ Total(f) \in Int
      <4>1. Total(G(C)) = (Total(f) - Total(F(C))) + Signed(side, Total(Z(C)))
        BY <3>4
      <4> HIDE DEF G, F, Z, C, T
      <4> QED BY <1>2, <3>2, <4>1
    <3>10. Total(G(B)) = (Total(f) - Total(F(B))) + Signed(side, Total(Z(B)))
      <4> HIDE DEF G, F, Z, C, y, T, Hit
      <4> QED BY <3>5, <3>6, <3>7, <3>8, <3>9 DEF Signed
    <3> HIDE DEF G, F, Z
    <3> QED BY <3>10
  <2> QED BY <2>1, <2>2
<1>4. A \in T
  <2> HIDE DEF T
  <2>1. \A B \in SUBSET A : (\A x \in B : B \ {x} \in T) => B \in T
    BY <1>3
  <2>2. SUBSET A \subseteq T
    BY <2>1, Subsets
  <2> QED BY <2>2
<1>5. G(A) = g /\ Z(A) = z
  OBVIOUS
<1>6. Total(G(A)) = (Total(f) - Total(F(A))) + Signed(side, Total(Z(A)))
  BY <1>4
<1>7. Total(g) = (Total(f) - Total(F(A))) + Signed(side, Total(z))
  <2> HIDE DEF G, F, Z
  <2> QED BY <1>5, <1>6
<1> QED BY <1>7

(* Exposure as a total over the positions and one over the ring.              *)
Lost == Book!TotalOf(Overwritten, LAMBDA i : PendingExposure(i))
Balanced == Exposure' = Exposure - Lost

HeldOf(p) == [k \in Keys |-> Signed(k[2], p[k].notional)]
PendingOf(e, s) ==
    [i \in RingSlots |->
       IF e[i].kind = "Fill" /\ s[i].settled = 0
       THEN Signed(PositionSide(e[i].side), e[i].size) ELSE 0]

LEMMA ExposureIs ==
    /\ Exposure = Total(HeldOf(position)) + Total(PendingOf(events, stamp))
    /\ Exposure' = Total(HeldOf(position')) + Total(PendingOf(events', stamp'))
BY DEF Exposure, Total, HeldOf, PendingOf, PendingExposure, Book!TotalOf

LEMMA LostIs ==
    Lost = Total([i \in Overwritten |-> PendingOf(events, stamp)[i]])
<1>1. \A i \in Overwritten : PendingOf(events, stamp)[i] = PendingExposure(i)
  BY DEF PendingOf, PendingExposure, Overwritten
<1>2. [i \in Overwritten |-> PendingOf(events, stamp)[i]]
        = [i \in Overwritten |-> PendingExposure(i)]
  BY <1>1
<1> QED BY <1>2 DEF Lost, Total, Book!TotalOf

LEMMA FiniteSlots == IsFiniteSet(Keys) /\ IsFiniteSet(RingSlots)
<1>1. IsFiniteSet(1..NumUsers)
  BY FS_Interval, UsersAssumption
<1>2. IsFiniteSet(Sides)
  <2>1. IsFiniteSet({}) /\ Sides = ({} \cup {"Long"}) \cup {"Short"}
    BY FS_EmptySet DEF Sides
  <2> QED BY <2>1, FS_AddElement
<1>3. IsFiniteSet(Keys)
  BY <1>1, <1>2, FS_Product DEF Keys, Users
<1>4. L - 1 \in Int /\ RingSlots = 0..(L - 1)
  BY SameSlots
<1>5. IsFiniteSet(RingSlots)
  BY <1>4, FS_Interval
<1> QED BY <1>3, <1>5

LEMMA HeldMoves ==
    ASSUME Shaped, Shaped', NEW k, NEW d \in Int, Moved(k, d)
    PROVE  /\ Total(HeldOf(position)) \in Int /\ Total(HeldOf(position')) \in Int
           /\ Total(HeldOf(position')) - Total(HeldOf(position)) = Signed(k[2], d)
<1>1. PICK p, p1 : p = position /\ p1 = position'
  OBVIOUS
<1>2. \A j \in Keys : p[j].notional \in Nat /\ p1[j].notional \in Nat
  <2>1. PICK S : p \in [Keys -> Shape(S)]
    BY <1>1 DEF Shaped
  <2>2. PICK T : p1 \in [Keys -> Shape(T)]
    BY <1>1 DEF Shaped
  <2> QED BY <2>1, <2>2 DEF Shape
<1>3. /\ k \in Keys /\ p1[k].notional - p[k].notional = d
      /\ \A j \in Keys \ {k} : p1[j].notional = p[j].notional
  BY <1>1 DEF Moved, Growth
<1> DEFINE f == HeldOf(p)
           g == HeldOf(p1)
<1>4. f \in [Keys -> Int] /\ g \in [Keys -> Int]
  BY <1>2, SignedInt DEF HeldOf
<1>5. \A j \in Keys \ {k} : g[j] = f[j]
  BY <1>3 DEF HeldOf
<1>6. g[k] - f[k] = Signed(k[2], d)
  <2>1. g[k] = Signed(k[2], p1[k].notional) /\ f[k] = Signed(k[2], p[k].notional)
    BY <1>3 DEF HeldOf
  <2>2. p1[k].notional = p[k].notional + d /\ p[k].notional \in Int
    BY <1>2, <1>3
  <2>3. /\ Signed(k[2], p1[k].notional) = Signed(k[2], p[k].notional) + Signed(k[2], d)
        /\ Signed(k[2], p[k].notional) \in Int /\ Signed(k[2], d) \in Int
    BY <2>2, SignedInt, SignedSums
  <2> HIDE DEF f, g
  <2> QED BY <2>1, <2>3
<1> HIDE DEF f, g
<1>7. Total(f) \in Int /\ Total(g) \in Int
  BY <1>4, FiniteSlots, TotalWithout
<1>8. Total(g) - Total(f) = g[k] - f[k]
  BY <1>3, <1>4, <1>5, FiniteSlots, TotalChanged
<1> QED BY <1>1, <1>6, <1>7, <1>8 DEF f, g

RingTyped(e) ==
    \A i \in RingSlots : e[i].kind = "Fill" => e[i].size \in Nat

LEMMA PendingTyped ==
    ASSUME NEW e, NEW s, RingTyped(e)
    PROVE  PendingOf(e, s) \in [RingSlots -> Int] /\ Total(PendingOf(e, s)) \in Int
<1>1. \A i \in RingSlots :
        (IF e[i].kind = "Fill" /\ s[i].settled = 0
         THEN Signed(PositionSide(e[i].side), e[i].size) ELSE 0) \in Int
  BY SignedInt DEF RingTyped
<1>2. PendingOf(e, s) \in [RingSlots -> Int]
  BY <1>1 DEF PendingOf
<1> QED BY <1>2, FiniteSlots, TotalWithout

LEMMA SlotTyped ==
    ASSUME NEW e \in Proven!OutEvents \cup {Proven!Unwritten}, e.kind = "Fill"
    PROVE  e.size \in Nat
<1>1. e.size \in Sizes
  BY SizesSeen DEF Proven!Unwritten, Proven!OutEvents, Proven!OutEvent
<1>2. Sizes \subseteq Nat
  BY OrderAssumption, WidthAssumption DEF U64
<1> QED BY <1>1, <1>2, Zenon

(* A settled fill moves from the ring to its maker's position.                *)
LEMMA BookedBalanced ==
    ASSUME IInv, Shaped, Shaped', NEW k, Booked(k)
    PROVE  Balanced
<1>1. PICK i \in RingSlots :
        /\ events[i].kind = "Fill" /\ Consumed(i) /\ UNCHANGED <<events, event_write_cursor>>
        /\ k = <<events[i].owner, PositionSide(events[i].side)>>
        /\ Moved(k, events[i].size) /\ events[i].size \in Nat \ {0}
  BY DEF Booked
<1> DEFINE f == PendingOf(events, stamp)
           g == PendingOf(events', stamp')
           x == Signed(k[2], events[i].size)
<1>2. RingTyped(events) /\ events' = events
  <2>1. \A j \in RingSlots : events[j] \in Proven!OutEvents \cup {Proven!Unwritten}
    BY SameSlots DEF IInv, Proven!IInv, Proven!Rings, Proven!ring
  <2> QED BY <1>1, <2>1, SlotTyped DEF RingTyped
<1>3. f \in [RingSlots -> Int] /\ g \in [RingSlots -> Int] /\ Total(f) \in Int /\ Total(g) \in Int
  BY <1>2, PendingTyped
<1>4. /\ stamp[i].settled = 0 /\ stamp'[i].settled = 1
      /\ \A j \in RingSlots \ {i} : stamp'[j] = stamp[j]
  BY <1>1 DEF Consumed, IInv, Stamps
<1>5. f[i] = x /\ g[i] = 0 /\ \A j \in RingSlots \ {i} : g[j] = f[j]
  BY <1>1, <1>2, <1>4 DEF PendingOf
<1>6. x \in Int
  BY <1>1, SignedInt
<1>7. Lost = 0
  <2>1. Overwritten = {}
    BY <1>1 DEF Overwritten, Appended, IInv, Proven!IInv, Proven!Rings, Proven!ring
  <2> DEFINE r == [j \in Overwritten |-> f[j]]
  <2>2. r \in [{} -> Int] /\ IsFiniteSet({})
    BY <2>1, FS_EmptySet
  <2>3. Lost = Total(r)
    BY LostIs
  <2> HIDE DEF r
  <2> QED BY <2>2, <2>3, TotalWithout
<1>8. /\ Total(HeldOf(position)) \in Int /\ Total(HeldOf(position')) \in Int
      /\ Total(HeldOf(position')) - Total(HeldOf(position)) = x
  BY <1>1, HeldMoves
<1> HIDE DEF f, g, x
<1>9. Total(g) - Total(f) = -x
  <2>1. Total(g) - Total(f) = g[i] - f[i]
    BY <1>3, <1>5, FiniteSlots, TotalChanged
  <2> QED BY <1>5, <1>6, <2>1
<1>10. /\ Exposure = Total(HeldOf(position)) + Total(f)
       /\ Exposure' = Total(HeldOf(position')) + Total(g)
  BY ExposureIs DEF f, g
<1> QED BY <1>3, <1>6, <1>7, <1>8, <1>9, <1>10 DEF Balanced

(* An order's fills replace what the ring held in their slots.                *)
LEMMA OrderedPending ==
    ASSUME IInv, IInv', NEW q \in MarketOrders, OnlyFills(q), Appending
    PROVE  /\ Total(PendingOf(events, stamp)) \in Int /\ Total(PendingOf(events', stamp')) \in Int
           /\ Lost \in Int
           /\ Total(PendingOf(events', stamp'))
                = (Total(PendingOf(events, stamp)) - Lost)
                    + Signed(PositionSide(Book!Opposite(q.side)), Filled)
<1>1. PICK e, s, e1, s1 : e = events /\ s = stamp /\ e1 = events' /\ s1 = stamp'
  OBVIOUS
<1> DEFINE f == PendingOf(e, s)
           g == PendingOf(e1, s1)
           A == Appended
           z == [n \in A |-> NewEvent(n).size]
           h == [n \in A |-> n % L]
           side == PositionSide(Book!Opposite(q.side))
<1>2. Proven!Appends /\ Stamped(market.index_source)
  BY DEF Appending
<1>3. RingTyped(e) /\ RingTyped(e1)
  <2>1. \A j \in RingSlots : events[j] \in Proven!OutEvents \cup {Proven!Unwritten}
    BY SameSlots DEF IInv, Proven!IInv, Proven!Rings, Proven!ring
  <2>2. \A j \in RingSlots : events'[j] \in Proven!OutEvents \cup {Proven!Unwritten}
    BY <1>2, SameSlots DEF Proven!Appends
  <2>3. \A j \in RingSlots : events[j].kind = "Fill" => events[j].size \in Nat
    BY <2>1, SlotTyped
  <2>4. \A j \in RingSlots : events'[j].kind = "Fill" => events'[j].size \in Nat
    BY <2>2, SlotTyped
  <2> QED BY <1>1, <2>3, <2>4 DEF RingTyped
<1>4. f \in [RingSlots -> Int] /\ g \in [RingSlots -> Int] /\ Total(f) \in Int /\ Total(g) \in Int
  BY <1>3, PendingTyped
<1>5. IsFiniteSet(A)
  <2>1. PICK w, w1 : w = event_write_cursor /\ w1 = event_write_cursor'
    OBVIOUS
  <2>2. w \in Int /\ w1 - 1 \in Int /\ A = w..(w1 - 1)
    BY <1>2, <2>1 DEF Proven!Appends, Appended
  <2> QED BY <2>2, FS_Interval
<1>6. ASSUME NEW n \in A
      PROVE  /\ n % L \in RingSlots /\ e1[n % L] = NewEvent(n) /\ s1[n % L].settled = 0
             /\ NewEvent(n).kind = "Fill" /\ NewEvent(n).side = Book!Opposite(q.side)
             /\ NewEvent(n).size \in Nat
  <2>1. n % L \in RingSlots /\ s1[n % L] = StampOf(n, market.index_source)
    BY <1>1, <1>2, AppendedFacts, StampedFacts
  <2>2. e1[n % L] = NewEvent(n) /\ s1[n % L].settled = 0
    BY <1>1, <2>1 DEF NewEvent, L, StampOf
  <2>3. NewEvent(n).kind = "Fill" /\ NewEvent(n).side = Book!Opposite(q.side)
    BY DEF OnlyFills
  <2> QED BY <1>3, <2>1, <2>2, <2>3 DEF RingTyped
<1>7. ASSUME NEW i \in RingSlots, \A n \in A : n % L # i PROVE g[i] = f[i]
  <2>1. e1[i] = e[i] /\ s1[i] = s[i]
    BY <1>1, <1>2, <1>7, AppendedFacts, StampedFacts
  <2> QED BY <2>1 DEF PendingOf
<1>8. ASSUME NEW n \in A PROVE g[n % L] = Signed(side, NewEvent(n).size)
  BY <1>6 DEF PendingOf
<1>9. h \in [A -> RingSlots] /\ z \in [A -> Int]
  BY <1>6
<1>10. \A m, n \in A : h[m] = h[n] => m = n
  BY <1>2, AppendedFacts
<1>11. \A n \in A : g[h[n]] = Signed(side, z[n])
  BY <1>8
<1>12. \A i \in RingSlots : (\A n \in A : h[n] # i) => g[i] = f[i]
  BY <1>7
<1>13. {j \in RingSlots : \E n \in A : h[n] = j} = Overwritten
  BY DEF Overwritten, L
<1>14. Filled = Total(z)
  <2>1. {n \in Appended : NewEvent(n).kind = "Fill"} = Appended
    BY DEF OnlyFills
  <2> QED BY <2>1 DEF Filled, Total, Book!TotalOf
<1>15. Lost = Total([i \in Overwritten |-> f[i]])
  BY <1>1, LostIs
<1>16. Lost \in Int
  <2>1. Overwritten \subseteq RingSlots
    BY DEF Overwritten
  <2>2. IsFiniteSet(Overwritten)
    BY <2>1, FiniteSlots, FS_Subset
  <2> DEFINE r == [i \in Overwritten |-> f[i]]
  <2>3. r \in [Overwritten -> Int]
    BY <1>4, <2>1
  <2> HIDE DEF r
  <2>4. Total(r) \in Int
    BY <2>2, <2>3, TotalWithout
  <2> QED BY <1>15, <2>4 DEF r
<1> HIDE DEF f, g, A, z, h, side
<1>17. Total(g) = (Total(f) - Total([i \in {j \in RingSlots : \E n \in A : h[n] = j} |-> f[i]]))
                    + Signed(side, Total(z))
  <2>1. Replaces(RingSlots, A, h, f, g, z, side)
    BY <1>4, <1>5, <1>9, <1>10, <1>11, <1>12, FiniteSlots DEF Replaces
  <2> QED BY <2>1, Replaced
<1>18. Total(g) = (Total(f) - Lost) + Signed(side, Filled)
  BY <1>13, <1>14, <1>15, <1>17
<1> QED BY <1>1, <1>4, <1>16, <1>18 DEF f, g, side

(* And its taker's position moves against them by as much.                    *)
LEMMA OrderedBalanced ==
    ASSUME IInv, IInv', Shaped, Shaped', NEW k, Ordered(k)
    PROVE  Balanced
<1>1. PICK q \in MarketOrders :
        /\ OnlyFills(q)
        /\ \/ Moved(k, Filled) /\ k[2] = PositionSide(q.side)
           \/ Moved(k, -Filled) /\ k[2] = PositionSide(Book!Opposite(q.side))
  BY DEF Ordered
<1>2. Filled \in Nat \ {0} /\ Appending
  BY DEF Ordered
<1> DEFINE f == Total(PendingOf(events, stamp))
           g == Total(PendingOf(events', stamp'))
           x == Total(HeldOf(position))
           y == Total(HeldOf(position'))
           c == Signed(PositionSide(Book!Opposite(q.side)), Filled)
<1>3. f \in Int /\ g \in Int /\ Lost \in Int /\ g = (f - Lost) + c
  BY <1>1, <1>2, OrderedPending
<1>4. q.side \in {"Bid", "Ask"}
  BY BookAssumed DEF Proven!Sides
<1>5. c \in Int
  BY <1>2, SignedInt
<1>6. x \in Int /\ y \in Int /\ y - x = -c
  <2>1. CASE Moved(k, Filled) /\ k[2] = PositionSide(q.side)
    <3>1. x \in Int /\ y \in Int /\ y - x = Signed(PositionSide(q.side), Filled)
      BY <1>2, <2>1, HeldMoves
    <3>2. Signed(PositionSide(q.side), Filled) = -c
      BY <1>2, <1>4 DEF Signed, PositionSide, Book!Opposite
    <3> QED BY <3>1, <3>2
  <2>2. CASE Moved(k, -Filled) /\ k[2] = PositionSide(Book!Opposite(q.side))
    <3>1. -Filled \in Int
      BY <1>2
    <3>2. x \in Int /\ y \in Int /\ y - x = Signed(PositionSide(Book!Opposite(q.side)), -Filled)
      BY <2>2, <3>1, HeldMoves
    <3>3. Signed(PositionSide(Book!Opposite(q.side)), -Filled) = -c
      BY <1>2, <1>4 DEF Signed, PositionSide, Book!Opposite
    <3> QED BY <3>2, <3>3
  <2> QED BY <1>1, <2>1, <2>2
<1>7. Exposure = x + f /\ Exposure' = y + g
  BY ExposureIs
<1> HIDE DEF f, g, x, y, c
<1> QED BY <1>3, <1>5, <1>6, <1>7 DEF Balanced

LEMMA BalanceStep ==
    ASSUME IInv, IInv', Shaped, StepSeen,
           \E k \in Keys : Growth(k) # 0, \A k \in Keys : ~Liquidated(k)
    PROVE  Balanced
<1>1. ~Quiet
  BY DEF Quiet
<1>2. PICK k \in Keys : Booked(k) \/ Ordered(k)
  BY <1>1 DEF StepSeen
<1> QED BY <1>2, BookedBalanced, OrderedBalanced DEF StepSeen

(* Every long is someone's short as long as takers open positions: when a     *)
(* position moves and none is liquidated, what positions and unsettled fills  *)
(* add up to changes only by the pending fills that the ring overwrites       *)
(* (lib.rs: open_position, close_position, settle_fill; orderbook.rs append_event). *)
THEOREM ExposureKept == Spec => ExposureBalanced
<1>1. Init => MInv
  BY InitInv, FirstShaped, FirstMarked DEF MInv
<1>2. MInv /\ [Next]_vars =>
        /\ MInv'
        /\ (\E k \in Keys : Growth(k) # 0) /\ (\A k \in Keys : ~Liquidated(k)) => Balanced
  BY MInvStep, BalanceStep DEF MInv
<1>3. ((\E k \in Keys : Growth(k) # 0) /\ (\A k \in Keys : ~Liquidated(k)) => Balanced) =>
        [(\E k \in Keys : Growth(k) # 0) /\ (\A k \in Keys : ~Liquidated(k)) =>
          Exposure' = Exposure - Book!TotalOf(Overwritten, LAMBDA i : PendingExposure(i))]_vars
  BY DEF Balanced, Lost
<1> QED BY <1>1, <1>2, <1>3, PTL DEF Spec, ExposureBalanced
=============================================================================
