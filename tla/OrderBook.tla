----------------------------- MODULE OrderBook -----------------------------
(* The on-chain order book of one market: resting orders, the ring of events  *)
(* that the permissionless crank drains, and the TWAP ring, with one action   *)
(* per instruction that changes them.  A failing instruction reverts, so it   *)
(* is no step.  What fills do to positions is in Accounts.                    *)
EXTENDS Twap, Sequences, FiniteSetsExt

CONSTANTS
    MAX_ORDERS_PER_SIDE, MAX_MATCH_STEPS, EVENT_QUEUE_LEN, CRANK_BATCH_LEN,
    LIQUIDATION_TWAP_WINDOW,
    Owners,            \* bound: the traders
    Requests,          \* bound: the orders they send (price 0: a market order)
    MAX_SEQ,           \* bound: orders accepted, resumed residuals aside
    MAX_SLOT           \* bound: the last slot

Sides == {"Bid", "Ask"}
Opposite(side) == IF side = "Bid" THEN "Ask" ELSE "Bid"

ASSUME BookAssumption ==
    /\ {MAX_ORDERS_PER_SIDE, MAX_MATCH_STEPS, EVENT_QUEUE_LEN, CRANK_BATCH_LEN}
         \subseteq Nat \ {0}
    /\ LIQUIDATION_TWAP_WINDOW \in Nat \ {0}
    /\ MAX_SEQ \in Nat /\ MAX_SLOT \in Nat \ {0}
    /\ Requests # {}
    /\ Requests \subseteq [owner : Owners, side : Sides, price : Nat, size : Nat \ {0}]

VARIABLES
    slot,              \* Clock::slot
    book,              \* resting orders of each side, and next_seq
    events,            \* the event ring
    event_read_cursor, event_write_cursor,
    observations,      \* the TWAP ring
    twap_cursor        \* modulo its length

ringVars == <<events, event_read_cursor, event_write_cursor>>
twapVars == <<observations, twap_cursor>>
vars == <<slot, book, events, event_read_cursor, event_write_cursor,
          observations, twap_cursor>>

RingSlots == 0..(EVENT_QUEUE_LEN - 1)
Nobody == "nobody"                              \* Pubkey::default()
Unwritten == [kind |-> "Unwritten"]
ring == [events |-> events, read |-> event_read_cursor, write |-> event_write_cursor]

Init ==
    /\ slot = 1                                 \* markets open after genesis
    /\ book = [Bid |-> <<>>, Ask |-> <<>>, next_seq |-> 0]
    /\ events = [i \in RingSlots |-> Unwritten]
    /\ event_read_cursor = 0 /\ event_write_cursor = 0
    /\ observations = EmptyRing /\ twap_cursor = 0

-----------------------------------------------------------------------------
(* Prices *)

price_better(a, b, side) == IF side = "Bid" THEN a > b ELSE a < b
(* A taker on `side` at `price` crosses a maker resting at `resting`. *)
is_crossable(side, price, resting) ==
    IF side = "Bid" THEN price >= resting ELSE resting >= price

PricesOf(b, side) == {b[side][i].price : i \in DOMAIN b[side]}
best_price(b, side) ==
    IF b[side] = <<>> THEN 0
    ELSE CHOOSE p \in PricesOf(b, side) : \A q \in PricesOf(b, side) : ~price_better(q, p, side)
would_cross(b, o) ==
    /\ b[Opposite(o.side)] # <<>>
    /\ is_crossable(o.side, o.price, best_price(b, Opposite(o.side)))
mid(b) ==
    IF b.Bid = <<>> \/ b.Ask = <<>> THEN NoMid
    ELSE (best_price(b, "Bid") + best_price(b, "Ask")) \div 2

-----------------------------------------------------------------------------
(* Matching *)

(* The makers a taker may meet, as indices of the opposite side. *)
crossable_makers(b, taker, kind) ==
    {i \in DOMAIN b[Opposite(taker.side)] :
       LET maker == b[Opposite(taker.side)][i]
       IN  /\ maker.owner # taker.owner            \* no self-trade
           /\ kind = "Market" \/ is_crossable(taker.side, taker.price, maker.price)}

(* Price-time priority between makers; MutBetterMaker prefers the latest.     *)
MutBetterMaker(m, o, side) ==
    price_better(m.price, o.price, side) \/ (m.price = o.price /\ m.seq > o.seq)
better_maker(m, o, side) ==
    price_better(m.price, o.price, side) \/ (m.price = o.price /\ m.seq < o.seq)
best_maker(orders, side, C) ==
    CHOOSE i \in C : \A j \in C \ {i} : better_maker(orders[i], orders[j], side)
best_crossable_maker(b, taker, kind) ==
    best_maker(b[Opposite(taker.side)], Opposite(taker.side), crossable_makers(b, taker, kind))

Remove(orders, i) == SubSeq(orders, 1, i - 1) \o SubSeq(orders, i + 1, Len(orders))
Reduce(orders, i, size) ==
    IF size = orders[i].size THEN Remove(orders, i)
    ELSE [orders EXCEPT ![i].size = @ - size]

(* One turn of the loop: the best maker is filled, and removed once empty. *)
FillMaker(s, side, i) ==
    LET maker == s.book[side][i]
        size  == IF s.remaining <= maker.size THEN s.remaining ELSE maker.size
    IN  [book |-> [s.book EXCEPT ![side] = Reduce(@, i, size)],
         remaining |-> s.remaining - size,
         fills |-> Append(s.fills, [owner |-> maker.owner, price |-> maker.price, size |-> size])]
MatchDone(s, taker, kind) ==
    s.remaining = 0 \/ crossable_makers(s.book, taker, kind) = {}
MatchTurn(s, taker, kind) ==
    IF MatchDone(s, taker, kind) THEN s
    ELSE FillMaker(s, Opposite(taker.side), best_crossable_maker(s.book, taker, kind))

(* The loop after at most max_steps turns.  A limit order that could go on is *)
(* left with a residual; a market order has no budget and never leaves one.   *)
MatchOutcome(s, taker, kind) ==
    [book |-> s.book, remaining |-> s.remaining, fills |-> s.fills,
     residual |-> kind = "Limit" /\ ~MatchDone(s, taker, kind)]
match_order(b, taker, kind, max_steps) ==
    LET run[k \in 0..max_steps] ==
          IF k = 0 THEN [book |-> b, remaining |-> taker.size, fills |-> <<>>]
          ELSE MatchTurn(run[k - 1], taker, kind)
    IN  MatchOutcome(run[max_steps], taker, kind)
match_market(b, taker) == match_order(b, taker, "Market", Len(b[Opposite(taker.side)]))
match_limit(b, taker) == match_order(b, taker, "Limit", MAX_MATCH_STEPS)

-----------------------------------------------------------------------------
(* The event ring *)

Event(kind, owner, counterparty, side, price, size) ==
    [kind |-> kind, owner |-> owner, counterparty |-> counterparty,
     side |-> side, price |-> price, size |-> size]

(* The ring never overwrites what the crank has not drained; MutHasRoom does. *)
queued(r) == r.write - r.read
MutHasRoom(r, n) == TRUE
HasRoom(r, n) == queued(r) + n <= EVENT_QUEUE_LEN
append_event(r, event) ==
    IF HasRoom(r, 1)
    THEN [r EXCEPT !.events[r.write % EVENT_QUEUE_LEN] = event, !.write = @ + 1]
    ELSE r

(* One Fill per maker met, as far as the ring has room: the caller fails when *)
(* it has not enough.                                                         *)
emit_fill_events(r, fills, taker) ==
    LET emitted[k \in 0..Len(fills)] ==
          IF k = 0 THEN r
          ELSE append_event(emitted[k - 1],
                 Event("Fill", fills[k].owner, taker.owner, Opposite(taker.side),
                       fills[k].price, fills[k].size))
    IN  emitted[Len(fills)]

-----------------------------------------------------------------------------
(* Takers *)

MutHasSpace(b, side) == Len(b[side]) <= MAX_ORDERS_PER_SIDE     \* one too many
HasSpace(b, side) == Len(b[side]) < MAX_ORDERS_PER_SIDE
Resting(o) == [owner |-> o.owner, price |-> o.price, size |-> o.size, seq |-> o.seq]
post_limit(b, o) == [b EXCEPT ![o.side] = Append(@, Resting(o))]

(* What is left of a limit order rests when it no longer crosses and there is *)
(* space, and is cancelled otherwise; MutRestRemainder forgets that it may    *)
(* still cross its owner's own orders.                                        *)
MutRestRemainder(b, o) == IF HasSpace(b, o.side) THEN post_limit(b, o) ELSE b
RestRemainder(b, o) ==
    IF would_cross(b, o) \/ ~HasSpace(b, o.side) THEN b ELSE post_limit(b, o)

(* The Residual carries what is left; MutResidualSize the order's first size. *)
MutResidualSize(taker, remaining) == taker.size
ResidualSize(taker, remaining) == remaining

(* A taker once matched.  ok is FALSE when the Rust function returns an       *)
(* error: the book and the ring are then what it had written so far.          *)
EventsNeeded(out) == Len(out.fills) + IF out.residual THEN 1 ELSE 0
Remainder(out, taker) == [taker EXCEPT !.size = out.remaining]
Rests(out) == ~out.residual /\ out.remaining > 0
SelfTrade(out, taker) ==
    Rests(out) /\ out.fills = <<>> /\ would_cross(out.book, Remainder(out, taker))
BookAfter(out, taker) ==
    IF Rests(out) THEN RestRemainder(out.book, Remainder(out, taker)) ELSE out.book
Deferred(out, taker) ==
    Event("Residual", taker.owner, Nobody, taker.side, taker.price,
          ResidualSize(taker, out.remaining))

settle_limit(out, r, taker) ==
    LET emitted == emit_fill_events(r, out.fills, taker)
    IN  [ok   |-> HasRoom(r, EventsNeeded(out)) /\ ~SelfTrade(out, taker),
         book |-> BookAfter(out, taker),
         ring |-> IF out.residual THEN append_event(emitted, Deferred(out, taker)) ELSE emitted]
match_limit_taker(b, r, taker) == settle_limit(match_limit(b, taker), r, taker)

(* open_position's limit orders: a budget-hit remainder is cancelled instead. *)
settle_open(out, r, taker) ==
    [ok   |-> HasRoom(r, Len(out.fills)) /\ ~SelfTrade(out, taker),
     book |-> BookAfter(out, taker),
     ring |-> emit_fill_events(r, out.fills, taker)]
match_open_taker(b, r, taker) == settle_open(match_limit(b, taker), r, taker)

take_next_seq(b) == [b EXCEPT !.next_seq = @ + 1]
Order(b, q) == [owner |-> q.owner, side |-> q.side, price |-> q.price, size |-> q.size,
                seq |-> b.next_seq]

(* save_book, then record_observation: the end of every instruction. *)
Save(b) ==
    /\ book' = b
    /\ observations' = record_observation(observations, twap_cursor, mid(b), slot)
    /\ twap_cursor' = (twap_cursor + 1) % TWAP_OBSERVATIONS
SaveRing(r) ==
    /\ events' = r.events
    /\ event_read_cursor' = r.read
    /\ event_write_cursor' = r.write

(* A non-crossing limit order, placed or opening a position, rests or fails. *)
rest_order(o) ==
    /\ o.price # 0 /\ ~would_cross(book, o)
    /\ HasSpace(book, o.side)
    /\ Save(post_limit(take_next_seq(book), o))
    /\ UNCHANGED <<slot, ringVars>>

cross_limit(o, taken) ==
    /\ o.price # 0 /\ would_cross(book, o)
    /\ taken.ok
    /\ Save(taken.book)
    /\ SaveRing(taken.ring)
    /\ UNCHANGED slot

take_market(o, out) ==
    /\ HasRoom(ring, Len(out.fills))
    /\ Save(out.book)
    /\ SaveRing(emit_fill_events(ring, out.fills, o))
    /\ UNCHANGED slot
cross_market(o) == take_market(o, match_market(take_next_seq(book), o))

-----------------------------------------------------------------------------
(* Instructions *)

place_limit_order(q) ==
    LET o == Order(book, q)
    IN  rest_order(o) \/ cross_limit(o, match_limit_taker(take_next_seq(book), ring, o))

open_position(q) ==
    LET o == Order(book, q)
    IN  \/ rest_order(o)
        \/ cross_limit(o, match_open_taker(take_next_seq(book), ring, o))
        \/ o.price = 0 /\ cross_market(o)

place_market_order(q) == q.price = 0 /\ cross_market(Order(book, q))

(* A long is closed by an Ask and a short by a Bid, always at the market. *)
close_position(q) == q.price = 0 /\ cross_market(Order(book, q))

(* The Cancel event is appended if the ring has room; the order goes anyway. *)
cancel_order(side, i) ==
    LET o == book[side][i]
    IN  /\ i \in DOMAIN book[side]
        /\ Save([book EXCEPT ![side] = Remove(@, i)])
        /\ SaveRing(append_event(ring, Event("Cancel", o.owner, Nobody, side, o.price, o.size)))
        /\ UNCHANGED slot

(* A residual is resumed only when the ring can hold every event of it: one   *)
(* per fill, and one if the budget is hit again; MutResumeFits always is.     *)
MutResumeFits(s, o) == TRUE
ResumeFits(s, o) == HasRoom(s.ring, EventsNeeded(match_limit(s.book, o)))

(* One event: the read cursor advances first, and an error of the resumed     *)
(* order is swallowed; MutDrainOne fails on an order it cannot resume.        *)
NextEvent(r) == r.events[r.read % EVENT_QUEUE_LEN]
Pop(s) == [s EXCEPT !.ring.read = @ + 1]
resume(s, o) == match_limit_taker(take_next_seq(s.book), s.ring, o)
Resumed(taken) == [book |-> taken.book, ring |-> taken.ring, dirty |-> TRUE]
MutDrainOne(s) ==
    LET o == Order(s.book, NextEvent(s.ring))
    IN  IF NextEvent(s.ring).kind # "Residual" THEN Pop(s)
        ELSE IF ~resume(Pop(s), o).ok THEN s
        ELSE Resumed(resume(Pop(s), o))
drain_one(s) ==
    LET o == Order(s.book, NextEvent(s.ring))
    IN  IF NextEvent(s.ring).kind = "Residual" /\ ResumeFits(Pop(s), o)
        THEN Resumed(resume(Pop(s), o))
        ELSE Pop(s)

drain_events ==
    LET drain_next(s) == IF queued(s.ring) = 0 THEN s ELSE drain_one(s)
        drained[k \in 0..CRANK_BATCH_LEN] ==
          IF k = 0 THEN [book |-> book, ring |-> ring, dirty |-> FALSE]
          ELSE drain_next(drained[k - 1])
    IN  drained[CRANK_BATCH_LEN]

(* Anyone may crank; on an empty ring it does nothing.  The book is saved     *)
(* only when a residual was resumed.                                          *)
SaveDrained(out) ==
    /\ SaveRing(out.ring)
    /\ IF out.dirty THEN Save(out.book) ELSE UNCHANGED <<book, twapVars>>
crank ==
    /\ queued(ring) > 0
    /\ SaveDrained(drain_events)
    /\ UNCHANGED slot

tick ==
    /\ slot < MAX_SLOT
    /\ slot' = slot + 1
    /\ UNCHANGED <<book, ringVars, twapVars>>

Next ==
    \/ /\ book.next_seq < MAX_SEQ
       /\ \E q \in Requests : \/ place_limit_order(q)
                              \/ place_market_order(q)
                              \/ open_position(q)
                              \/ close_position(q)
    \/ \E side \in Sides, i \in 1..MAX_ORDERS_PER_SIDE : cancel_order(side, i)
    \/ crank
    \/ tick

Spec == Init /\ [][Next]_vars

(* Anyone may send a crank and its sender is paid nothing, so all that can be *)
(* asked is that while one would do something, one is sent at last.  This is  *)
(* WF_vars(crank) with ENABLED <<crank>>_vars spelled out: TLC re-evaluates   *)
(* every definition under ENABLED, which a whole batch is too deep for.       *)
CrankMoves == drain_events.ring # ring
FairSpec == Spec /\ ([]<>(~CrankMoves) \/ []<><<crank>>_vars)

-----------------------------------------------------------------------------
RestingOrder == [owner : Owners, price : Nat \ {0}, size : Nat \ {0}, seq : Nat]
OutEvent == [kind : {"Fill", "Cancel", "Residual"}, owner : Owners,
             counterparty : Owners \cup {Nobody}, side : Sides,
             price : Nat \ {0}, size : Nat \ {0}]

TypeOK ==
    /\ slot \in 1..MAX_SLOT
    /\ book \in [Bid : Seq(RestingOrder), Ask : Seq(RestingOrder), next_seq : Nat]
    /\ \A side \in Sides : Len(book[side]) <= MAX_ORDERS_PER_SIDE
    /\ events \in [RingSlots -> OutEvent \cup {Unwritten}]
    /\ event_read_cursor \in 0..event_write_cursor /\ event_write_cursor \in Nat
    /\ queued(ring) <= EVENT_QUEUE_LEN
    /\ observations \in [ObservationSlots -> Observation]
    /\ twap_cursor \in ObservationSlots

OrdersOf(b, side) == {b[side][i] : i \in DOMAIN b[side]}

(* No two resting orders cross, even two of one owner, through every rest,    *)
(* self-trade, budget hit and resumed residual: "a crossing order never       *)
(* rests" (order-book.md; post_limit and match_limit_taker).                  *)
BookUncrossed ==
    \A bid \in OrdersOf(book, "Bid"), ask \in OrdersOf(book, "Ask") : bid.price < ask.price

-----------------------------------------------------------------------------
(* Steps seen from outside, by comparing the book and the ring around them.   *)
Left(side, o) ==        \* what a step leaves of a resting order
    LET after == {p \in OrdersOf(book', side) : p.seq = o.seq}
    IN  IF after = {} THEN 0 ELSE (CHOOSE p \in after : TRUE).size
Taken(side, o) == o.size - Left(side, o)
Appended == event_write_cursor..(event_write_cursor' - 1)
NewFills == {n \in Appended : events'[n % EVENT_QUEUE_LEN].kind = "Fill"}
NewEvent(n) == events'[n % EVENT_QUEUE_LEN]
Matching == book'.next_seq # book.next_seq      \* any step but a cancel or a tick

TotalOf(S, f(_)) == SumFunction([x \in S |-> f(x)])

(* Whatever the makers of one owner at one price lose in a step is in its new *)
(* Fill events, so that settle_fill can book it.  The crank has to hold to it *)
(* when it resumes a residual into a ring that is nearly full (D10: fills are *)
(* never silently dropped).                                                   *)
FillsOf(side, owner, price) ==
    {n \in NewFills : <<NewEvent(n).side, NewEvent(n).owner, NewEvent(n).price>>
                        = <<side, owner, price>>}
FillsPersisted ==
    [][Matching =>
         \A side \in Sides : \A owner \in Owners, price \in PricesOf(book, side) :
           TotalOf({o \in OrdersOf(book, side) : o.owner = owner /\ o.price = price},
                   LAMBDA o : Taken(side, o))
             <= TotalOf(FillsOf(side, owner, price), LAMBDA n : NewEvent(n).size)]_vars

(* A maker is touched only once every better maker is gone, except those of   *)
(* the takers of the step themselves, which are skipped: a self-trade is      *)
(* never made, and skipping one never upsets the order of the others.         *)
Takers(side) == {NewEvent(n).counterparty : n \in {m \in NewFills : NewEvent(m).side = side}}
PriceTimePriority ==
    [][Matching =>
         \A side \in Sides : \A o, better \in OrdersOf(book, side) :
           /\ Taken(side, o) > 0
           /\ \/ price_better(better.price, o.price, side)
              \/ better.price = o.price /\ better.seq < o.seq
           /\ better.owner \notin Takers(side)
           => Left(side, better) = 0]_vars

(* A trader's orders of one side, resting or waiting in the ring, only ever   *)
(* turn into fills or are cancelled: an order is filled at most once per unit *)
(* of its size, however often its residual is deferred, resumed or rested.    *)
Undrained(read, write, evs) == {n \in read..(write - 1) : evs[n % EVENT_QUEUE_LEN].kind = "Residual"}
Demand(b, read, write, evs, owner, side) ==
    TotalOf({o \in OrdersOf(b, side) : o.owner = owner}, LAMBDA o : o.size)
    + TotalOf({n \in Undrained(read, write, evs) :
                 LET e == evs[n % EVENT_QUEUE_LEN] IN e.owner = owner /\ e.side = side},
              LAMBDA n : evs[n % EVENT_QUEUE_LEN].size)
Traded(owner, side) ==
    TotalOf({n \in NewFills : LET e == NewEvent(n)
                              IN  \/ e.owner = owner /\ e.side = side
                                  \/ e.counterparty = owner /\ e.side = Opposite(side)},
            LAMBDA n : NewEvent(n).size)
GrowsBy(owner, side, size) ==
    Demand(book, event_read_cursor, event_write_cursor, events, owner, side)'
      + Traded(owner, side)
      <= Demand(book, event_read_cursor, event_write_cursor, events, owner, side) + size
DemandConserved ==
    [][\E q \in Requests : \A owner \in Owners, side \in Sides :
         GrowsBy(owner, side,
           IF /\ <<owner, side>> = <<q.owner, q.side>>
              /\ Matching /\ event_read_cursor' = event_read_cursor
           THEN q.size ELSE 0)]_vars

(* An event stays in the ring until the crank has drained it, whoever else    *)
(* appends, and none is drained a second time: the cursors never go back      *)
(* (append_event: "must never overwrite an event the permissionless crank has *)
(* not yet drained").                                                         *)
UndrainedKept ==
    [][/\ event_read_cursor <= event_read_cursor' /\ event_write_cursor <= event_write_cursor'
       /\ \A n \in event_read_cursor'..(event_write_cursor - 1) :
            events'[n % EVENT_QUEUE_LEN] = events[n % EVENT_QUEUE_LEN]]_vars

(* The crank never wedges: every event appended is drained, even a residual   *)
(* whose only counterparty is by then its own owner (drain_events, F2).       *)
EventsDrained ==
    \A n \in 0..MAX_SEQ :
        event_write_cursor > n ~> event_read_cursor > n

(* The TWAP the SDK computes from the account is the one liquidate reads, for *)
(* any window, although one keeps the first and the other the last of several *)
(* observations of a slot, which have to agree therefore (sdk/src/orderbook.ts*)
(* and record_observation).                                                   *)
Sdk == INSTANCE SdkBook
SdkTwapAgrees ==
    \A window \in 0..MAX_SLOT :
        Sdk!twap(observations, window, slot) =
            LET mark == twap(observations, window, slot)
            IN  IF mark = NoTwap THEN Sdk!null ELSE Sdk!defined(mark)

-----------------------------------------------------------------------------
(* What the documentation says and the code does not do: each is violated.    *)

(* constants.rs: "a book that does not reach back a full window yields no     *)
(* reference price".  Unwritten entries of the ring count as observations of  *)
(* slot 0, so a new book has one as soon as the clock has passed the window.  *)
TwapNeedsHistory ==
    twap(observations, LIQUIDATION_TWAP_WINDOW, slot) # NoTwap =>
        \E i \in Written(observations) :
            observations[i].slot <= slot - LIQUIDATION_TWAP_WINDOW

(* order-book.md: the interval before a mutation "saw the pre-mutation mid, so*)
(* that is what is charged".  Of several observations of one slot on both     *)
(* sides of the ring's end, last_observation takes the one at the end, whose  *)
(* mid had been replaced in that slot.                                        *)
ChargesPreviousMid ==
    [][LET previous == observations[(twap_cursor - 1) % TWAP_OBSERVATIONS]
           new      == observations'[twap_cursor]
       IN  observations' # observations /\ previous.slot # 0 /\ new.mid # NoMid =>
             new.cumulative_mid - previous.cumulative_mid
               = mid(book) * (new.slot - previous.slot)]_vars

=============================================================================
