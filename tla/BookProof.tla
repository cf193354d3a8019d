----------------------------- MODULE BookProof -----------------------------
(* The order book is well typed and never crossed, and the ring of events     *)
(* never loses one that is not drained, for every size of the book, of the    *)
(* ring and of the match and crank budgets, and every sequence of orders.     *)
EXTENDS OrderBook, TLAPS, WellFoundedInduction, SequenceTheorems

(* A non-empty set of naturals has a least element. *)
LEMMA LeastNat ==
    ASSUME NEW T, T \subseteq Nat, T # {}
    PROVE  \E x \in T : \A y \in T : x <= y
<1>1. IsWellFoundedOn(OpToRel(<, Nat), Nat)
  BY NatLessThanWellFounded
<1>2. PICK x \in T : \A y \in T : ~(<<y, x>> \in OpToRel(<, Nat))
  BY <1>1, WFMin, Zenon
<1>3. \A y \in T : ~(y < x)
  <2> TAKE y \in T
  <2>1. x \in Nat /\ y \in Nat
    OBVIOUS
  <2>2. <<y, x>> \notin OpToRel(<, Nat)
    BY <1>2
  <2> QED BY <2>1, <2>2 DEF OpToRel
<1> QED BY <1>3

-----------------------------------------------------------------------------
(* Numbers *)

(* A non-empty set of naturals below a bound has a greatest element. *)
LEMMA GreatestNat ==
    ASSUME NEW T, T \subseteq Nat, T # {}, NEW M \in Nat, \A x \in T : x <= M
    PROVE  \E x \in T : \A y \in T : y <= x
<1> DEFINE D == {M - x : x \in T}
<1>1. D \subseteq Nat /\ D # {}
  <2>1. \A x \in T : M - x \in Nat
    OBVIOUS
  <2>2. PICK x \in T : TRUE
    OBVIOUS
  <2>3. M - x \in D
    BY <2>2
  <2> QED BY <2>1, <2>3
<1>2. PICK d \in D : \A e \in D : d <= e
  <2> HIDE DEF D
  <2> QED BY <1>1, LeastNat
<1>3. PICK x \in T : d = M - x
  OBVIOUS
<1>4. ASSUME NEW y \in T PROVE y <= x
  <2>1. M - x <= M - y
    BY <1>2, <1>3
  <2>2. x \in Nat /\ y \in Nat
    OBVIOUS
  <2> QED BY <2>1, <2>2
<1> QED BY <1>4

(* Finitely many naturals have a bound. *)
LEMMA ItemsBounded ==
    ASSUME NEW k \in Nat, NEW f \in [1..k -> Nat]
    PROVE  \E M \in Nat : \A i \in 1..k : f[i] <= M
<1> DEFINE Bounds(M, j) == \A i \in 1..j : f[i] <= M
           Bad == {j \in 0..k : \A M \in Nat : ~Bounds(M, j)}
<1>1. CASE Bad = {}
  <2>1. k \in 0..k
    OBVIOUS
  <2> QED BY <1>1, <2>1
<1>2. CASE Bad # {}
  <2>1. Bad \subseteq Nat
    OBVIOUS
  <2>2. PICK j \in Bad : \A i \in Bad : j <= i
    <3> HIDE DEF Bad
    <3> QED BY <1>2, <2>1, LeastNat
  <2>3. Bounds(0, 0)
    OBVIOUS
  <2>4. j \in 1..k
    <3>1. j # 0
      BY <2>2, <2>3
    <3> QED BY <2>2, <3>1
  <2>5. PICK M \in Nat : Bounds(M, j - 1)
    <3>1. j - 1 \in 0..k /\ ~(j <= j - 1)
      BY <2>2, <2>4
    <3>2. j - 1 \notin Bad
      <4> HIDE DEF Bad
      <4> QED BY <2>2, <3>1
    <3> QED BY <3>1, <3>2
  <2>6. f[j] \in Nat
    BY <2>4
  <2>7. PICK K \in Nat : M <= K /\ f[j] <= K
    <3>1. M + f[j] \in Nat /\ M <= M + f[j] /\ f[j] <= M + f[j]
      BY <2>6
    <3> QED BY <3>1
  <2>8. ASSUME NEW i \in 1..j PROVE f[i] <= K
    <3>1. CASE i = j
      BY <3>1, <2>7
    <3>2. CASE i # j
      <4>1. i \in 1..(j - 1) /\ f[i] \in Nat
        BY <2>4, <3>2
      <4> QED BY <4>1, <2>5, <2>7
    <3> QED BY <3>1, <3>2
  <2> QED BY <2>2, <2>8
<1> QED BY <1>1, <1>2

(* Two naturals less than L apart have different remainders by L. *)
LEMMA Apart ==
    ASSUME NEW L \in Nat \ {0}, NEW m \in Nat, NEW n \in Nat, m < n, n - m < L
    PROVE  m % L # n % L
<1> DEFINE p == m \div L
           q == n \div L
<1>1. m = (L * p) + (m % L) /\ n = (L * q) + (n % L) /\ p \in Int /\ q \in Int
  OBVIOUS
<1>2. m % L \in Int /\ n % L \in Int
  OBVIOUS
<1> HIDE DEF p, q
<1>3. SUFFICES ASSUME m % L = n % L PROVE FALSE
  OBVIOUS
<1>4. n - m = L * (q - p)
  BY <1>1, <1>2, <1>3, Z3
<1>5. CASE q - p <= 0
  BY <1>1, <1>4, <1>5, Z3
<1>6. CASE q - p >= 1
  <2>1. L * (q - p) >= L
    BY <1>1, <1>6, Z3
  <2> QED BY <1>4, <2>1
<1> QED BY <1>1, <1>5, <1>6

(* A function that is built from the one before by steps that stay in S does  *)
(* exist, and stays in S: what a loop of at most n turns computes.            *)
Iterates(r, n, a, step) == r = [k \in 0..n |-> IF k = 0 THEN a ELSE step[k][r[k - 1]]]

LEMMA IterationExists ==
    ASSUME NEW n \in Nat, NEW S, NEW a \in S, NEW step \in [1..n -> [S -> S]]
    PROVE  \E r \in [0..n -> S] : Iterates(r, n, a, step)
<1> DEFINE Ex(k) == \E r \in [0..k -> S] : Iterates(r, k, a, step)
           Bad == {k \in 0..n : ~Ex(k)}
<1>1. SUFFICES ASSUME ~Ex(n) PROVE FALSE
  OBVIOUS
<1>2. PICK k \in Bad : \A j \in Bad : k <= j
  <2>1. Bad \subseteq Nat /\ Bad # {}
    BY <1>1
  <2> HIDE DEF Bad
  <2> QED BY <2>1, LeastNat
<1>3. k # 0
  <2>1. [i \in 0..0 |-> a] \in [0..0 -> S] /\ Iterates([i \in 0..0 |-> a], 0, a, step)
    BY DEF Iterates
  <2> QED BY <2>1, <1>2
<1>4. PICK r \in [0..(k - 1) -> S] : Iterates(r, k - 1, a, step)
  <2>1. k - 1 \in 0..n /\ k - 1 \notin Bad
    BY <1>2, <1>3
  <2> QED BY <2>1
<1> DEFINE t == [i \in 0..k |-> IF i = k THEN step[k][r[k - 1]] ELSE r[i]]
<1>5. k \in 1..n
  BY <1>2, <1>3
<1>6. t \in [0..k -> S]
  BY <1>5
<1>7. \A i \in 0..k : t[i] = IF i = 0 THEN a ELSE step[i][t[i - 1]]
  <2> TAKE i \in 0..k
  <2>1. CASE i = k
    BY <1>5, <2>1
  <2>2. CASE i # k
    <3>1. i \in 0..(k - 1)
      BY <1>5, <2>2
    <3>2. r[i] = IF i = 0 THEN a ELSE step[i][r[i - 1]]
      BY <1>4, <3>1 DEF Iterates
    <3>3. t[i] = r[i]
      BY <2>2
    <3>4. i # 0 => t[i - 1] = r[i - 1]
      BY <1>5, <3>1
    <3> QED BY <3>2, <3>3, <3>4
  <2> QED BY <2>1, <2>2
<1>8. Iterates(t, k, a, step)
  <2> HIDE DEF t
  <2> QED BY <1>6, <1>7 DEF Iterates
<1> QED BY <1>2, <1>6, <1>8

(* What holds at first and is kept by every step holds all along. *)
LEMMA StaysIn ==
    ASSUME NEW n \in Nat, NEW S, NEW r,
           r[0] \in S, \A k \in 1..n : r[k - 1] \in S => r[k] \in S
    PROVE  \A k \in 0..n : r[k] \in S
<1> DEFINE Bad == {k \in 0..n : r[k] \notin S}
<1>1. SUFFICES ASSUME NEW b \in Bad PROVE FALSE
  OBVIOUS
<1>2. PICK k \in Bad : \A j \in Bad : k <= j
  <2>1. Bad \subseteq 0..n
    OBVIOUS
  <2> HIDE DEF Bad
  <2>2. Bad \subseteq Nat /\ Bad # {}
    BY <1>1, <2>1
  <2> QED BY <2>2, LeastNat
<1>3. k \in 1..n /\ k - 1 \in 0..n
  BY <1>2
<1>4. r[k - 1] \in S
  BY <1>2, <1>3
<1> QED BY <1>2, <1>3, <1>4

-----------------------------------------------------------------------------
(* Sides of the book *)

(* The prices traders ask for: every price in the book or the ring is one. *)
Limits == {q.price : q \in Requests}
(* Every size is one that traders ask for, or less.                           *)
Lots == UNION {1..q.size : q \in Requests}
LimitOrder == [owner : Owners, price : Limits \ {0}, size : Lots, seq : Nat]
Lists == Seq(LimitOrder)

LEMMA LotTypes ==
    /\ Lots \subseteq Nat \ {0}
    /\ \A x \in Lots : 1..x \subseteq Lots
    /\ \A q \in Requests : q.size \in Lots
<1>1. ASSUME NEW q \in Requests PROVE q.size \in Nat \ {0}
  BY BookAssumption
<1>2. ASSUME NEW x \in Lots PROVE x \in Nat \ {0} /\ 1..x \subseteq Lots
  <2>1. PICK q \in Requests : x \in 1..q.size
    BY DEF Lots
  <2>2. q.size \in Nat \ {0}
    BY <1>1
  <2>3. ASSUME NEW y \in 1..x PROVE y \in Lots
    <3>1. y \in 1..q.size
      BY <2>1, <2>2
    <3> QED BY <3>1 DEF Lots
  <2> QED BY <2>1, <2>2, <2>3
<1>3. ASSUME NEW q \in Requests PROVE q.size \in Lots
  <2>1. q.size \in 1..q.size
    BY <1>1
  <2> QED BY <2>1 DEF Lots
<1> QED BY <1>2, <1>3

(* What is left of an order, if anything is. *)
LEMMA LotOrNone ==
    ASSUME NEW x \in Lots \cup {0}
    PROVE  x \in Nat /\ (x # 0 => x \in Lots)
<1>1. x \in Lots => x \in Nat
  BY LotTypes
<1> QED BY <1>1

LEMMA LotLess ==
    ASSUME NEW x \in Lots, NEW y \in Nat \ {0}, y <= x
    PROVE  x \in Nat /\ y \in Lots
<1>1. x \in Nat /\ 1..x \subseteq Lots
  BY LotTypes
<1>2. y \in 1..x
  BY <1>1
<1> QED BY <1>1, <1>2

LEMMA LimitTypes ==
    /\ Limits \subseteq Nat
    /\ Lots \subseteq Nat \ {0}
    /\ LimitOrder \subseteq RestingOrder
<1>1. Limits \subseteq Nat
  BY BookAssumption DEF Limits
<1>2. Lots \subseteq Nat \ {0}
  BY LotTypes
<1> QED BY <1>1, <1>2 DEF LimitOrder, RestingOrder

(* l2 is what is left of l1 when orders are taken out or made smaller. *)
Thinned(l2, l1) ==
    \E m \in [1..Len(l2) -> 1..Len(l1)] :
        /\ \A j, k \in 1..Len(l2) : j # k => m[j] # m[k]
        /\ \A j \in 1..Len(l2) : l2[j].price = l1[m[j]].price /\ l2[j].seq = l1[m[j]].seq

LEMMA RemoveFacts ==
    ASSUME NEW S, NEW l \in Seq(S), NEW i \in 1..Len(l)
    PROVE  /\ Remove(l, i) \in Seq(S)
           /\ Len(Remove(l, i)) = Len(l) - 1
           /\ \A j \in 1..(Len(l) - 1) : Remove(l, i)[j] = IF j < i THEN l[j] ELSE l[j + 1]
<1> DEFINE f == SubSeq(l, 1, i - 1)
           g == SubSeq(l, i + 1, Len(l))
<1>0. Len(l) \in Nat /\ \A j \in 1..Len(l) : l[j] \in S
  OBVIOUS
<1>1. f \in Seq(S) /\ Len(f) = i - 1 /\ \A j \in 1..(i - 1) : f[j] = l[j]
  <2>1. \A j \in 1..(i - 1) : l[j] \in S
    BY <1>0
  <2> QED BY <2>1, <1>0, SubSeqProperties
<1>2. g \in Seq(S) /\ Len(g) = Len(l) - i /\ \A j \in 1..(Len(l) - i) : g[j] = l[i + j]
  <2>1. \A j \in (i + 1)..Len(l) : l[j] \in S
    BY <1>0
  <2>2. /\ g \in Seq(S) /\ Len(g) = (IF i + 1 <= Len(l) THEN Len(l) - (i + 1) + 1 ELSE 0)
        /\ \A j \in 1..(Len(l) - (i + 1) + 1) : g[j] = l[i + 1 + j - 1]
    BY <2>1, <1>0, SubSeqProperties
  <2>3. \A j \in 1..(Len(l) - i) : i + 1 + j - 1 = i + j
    BY <1>0
  <2>4. Len(g) = Len(l) - i /\ Len(l) - (i + 1) + 1 = Len(l) - i
    BY <2>2, <1>0
  <2> HIDE DEF g
  <2> QED BY <2>2, <2>3, <2>4
<1> HIDE DEF f, g
<1>3. /\ f \o g \in Seq(S) /\ Len(f \o g) = Len(f) + Len(g)
      /\ \A j \in 1..(Len(f) + Len(g)) :
            (f \o g)[j] = IF j <= Len(f) THEN f[j] ELSE g[j - Len(f)]
  BY <1>1, <1>2, ConcatProperties
<1>4. ASSUME NEW j \in 1..(Len(l) - 1)
      PROVE  (f \o g)[j] = IF j < i THEN l[j] ELSE l[j + 1]
  <2>1. CASE j < i
    BY <1>0, <1>1, <1>2, <1>3, <2>1
  <2>2. CASE j >= i
    <3>1. j - (i - 1) \in 1..(Len(l) - i) /\ i + (j - (i - 1)) = j + 1
      BY <1>0, <2>2
    <3>2. (f \o g)[j] = g[j - (i - 1)]
      BY <1>0, <1>1, <1>2, <1>3, <2>2
    <3> QED BY <1>2, <2>2, <3>1, <3>2
  <2>3. j < i \/ j >= i
    BY <1>0
  <2> QED BY <2>1, <2>2, <2>3, Zenon
<1>5. Remove(l, i) = f \o g
  BY DEF Remove, f, g
<1> QED BY <1>0, <1>1, <1>2, <1>3, <1>4, <1>5

LEMMA ThinnedItself ==
    ASSUME NEW l \in Lists
    PROVE  Thinned(l, l)
<1>1. [j \in 1..Len(l) |-> j] \in [1..Len(l) -> 1..Len(l)]
  OBVIOUS
<1> QED BY <1>1 DEF Thinned

LEMMA RemoveThins ==
    ASSUME NEW l \in Lists, NEW i \in 1..Len(l)
    PROVE  Remove(l, i) \in Lists /\ Len(Remove(l, i)) <= Len(l) /\ Thinned(Remove(l, i), l)
<1> DEFINE n == Len(l)
           m == [j \in 1..(n - 1) |-> IF j < i THEN j ELSE j + 1]
<1>1. n \in Nat
  BY DEF Lists
<1>2. /\ Remove(l, i) \in Lists /\ Len(Remove(l, i)) = n - 1
      /\ \A j \in 1..(n - 1) : Remove(l, i)[j] = IF j < i THEN l[j] ELSE l[j + 1]
  BY RemoveFacts DEF Lists
<1>3. m \in [1..(n - 1) -> 1..n] /\ \A j, k \in 1..(n - 1) : j # k => m[j] # m[k]
  BY <1>1
<1>4. \A j \in 1..(n - 1) : Remove(l, i)[j] = l[m[j]]
  BY <1>2
<1> HIDE DEF m
<1>5. Thinned(Remove(l, i), l)
  BY <1>2, <1>3, <1>4 DEF Thinned
<1> QED BY <1>1, <1>2, <1>5

(* Filling a maker leaves the others as they were. *)
LEMMA ReduceThins ==
    ASSUME NEW l \in Lists, NEW i \in 1..Len(l), NEW size \in Nat \ {0}, size <= l[i].size
    PROVE  Reduce(l, i, size) \in Lists /\ Len(Reduce(l, i, size)) <= Len(l)
           /\ Thinned(Reduce(l, i, size), l)
<1>1. CASE size = l[i].size
  BY <1>1, RemoveThins DEF Reduce
<1>2. CASE size # l[i].size
  <2> DEFINE e == [l[i] EXCEPT !.size = @ - size]
             r == [l EXCEPT ![i] = e]
  <2>1. l[i] \in LimitOrder
    BY ElementOfSeq DEF Lists
  <2>2. e \in LimitOrder /\ e.price = l[i].price /\ e.seq = l[i].seq
    <3>1. l[i].size \in Lots /\ l[i].size \in Nat \ {0} /\ 1..l[i].size \subseteq Lots
      BY <2>1, LotTypes DEF LimitOrder
    <3>2. l[i].size - size \in 1..l[i].size
      BY <1>2, <3>1
    <3>3. l[i].size - size \in Lots
      BY <3>1, <3>2
    <3> QED BY <2>1, <3>3 DEF LimitOrder
  <2> HIDE DEF e
  <2>3. r \in Lists /\ Len(r) = Len(l)
        /\ \A j \in 1..Len(l) : r[j] = IF j = i THEN e ELSE l[j]
    BY <2>2, ExceptSeq DEF Lists
  <2>4. Reduce(l, i, size) = r
    BY <1>2 DEF Reduce, e
  <2> HIDE DEF r
  <2> DEFINE m == [j \in 1..Len(l) |-> j]
  <2>5. m \in [1..Len(r) -> 1..Len(l)]
    BY <2>3
  <2>6. Thinned(r, l)
    BY <2>2, <2>3, <2>5 DEF Thinned
  <2>7. Len(l) <= Len(l)
    BY DEF Lists
  <2> QED BY <2>3, <2>4, <2>6, <2>7
<1> QED BY <1>1, <1>2

-----------------------------------------------------------------------------
(* Books *)

(* The orders of a side have different sequence numbers, all less than n, so  *)
(* that one maker is always the best; TypeOK alone does not say so.           *)
Good(l, n) ==
    /\ l \in Lists
    /\ Len(l) <= MAX_ORDERS_PER_SIDE
    /\ \A i \in 1..Len(l) : l[i].seq < n
    /\ \A i, j \in 1..Len(l) : i # j => l[i].seq # l[j].seq
Uncrossed(bids, asks) ==
    \A i \in 1..Len(bids), j \in 1..Len(asks) : bids[i].price < asks[j].price
(* The books whose orders were given numbers less than n, the next being      *)
(* next: while a taker is matched its own number is between the two.          *)
Books(n, next) ==
    {b \in [Bid : Lists, Ask : Lists, next_seq : {next}] :
       Good(b.Bid, n) /\ Good(b.Ask, n) /\ Uncrossed(b.Bid, b.Ask)}

LEMMA BookFacts ==
    ASSUME NEW n \in Nat, NEW next \in Nat, NEW b \in Books(n, next), NEW side \in Sides
    PROVE  /\ b \in [Bid : Lists, Ask : Lists, next_seq : {next}]
           /\ Good(b[side], n) /\ b.next_seq = next
           /\ Opposite(side) \in Sides /\ Opposite(Opposite(side)) = side
           /\ Len(b[side]) \in Nat /\ DOMAIN b[side] = 1..Len(b[side])
           /\ \A i \in 1..Len(b[side]) : b[side][i] \in LimitOrder
<1>1. /\ b \in [Bid : Lists, Ask : Lists, next_seq : {next}]
      /\ Good(b.Bid, n) /\ Good(b.Ask, n)
  BY DEF Books
<1>2. Good(b[side], n)
  BY <1>1 DEF Sides
<1>3. b[side] \in Seq(LimitOrder)
  BY <1>2 DEF Good, Lists
<1>4. /\ Len(b[side]) \in Nat /\ DOMAIN b[side] = 1..Len(b[side])
      /\ \A i \in 1..Len(b[side]) : b[side][i] \in LimitOrder
  BY <1>3
<1>5. Opposite(side) \in Sides /\ Opposite(Opposite(side)) = side
  BY DEF Sides, Opposite
<1> QED BY <1>1, <1>2, <1>4, <1>5

LEMMA ThinnedGood ==
    ASSUME NEW n \in Nat, NEW l1, Good(l1, n), NEW l2 \in Lists,
           Len(l2) <= Len(l1), Thinned(l2, l1)
    PROVE  /\ Good(l2, n)
           /\ \A j \in 1..Len(l2) : \E i \in 1..Len(l1) : l2[j].price = l1[i].price
<1>1. PICK m \in [1..Len(l2) -> 1..Len(l1)] :
        /\ \A j, k \in 1..Len(l2) : j # k => m[j] # m[k]
        /\ \A j \in 1..Len(l2) : l2[j].price = l1[m[j]].price /\ l2[j].seq = l1[m[j]].seq
  BY DEF Thinned
<1>2. Len(l1) \in Nat /\ Len(l2) \in Nat
  BY DEF Good, Lists
<1>3. \A i, j \in 1..Len(l2) : i # j => l2[i].seq # l2[j].seq
  BY <1>1 DEF Good
<1>4. \A j \in 1..Len(l2) : l2[j].seq < n
  BY <1>1 DEF Good
<1>5. Len(l2) <= MAX_ORDERS_PER_SIDE
  BY <1>2, BookAssumption DEF Good
<1> QED BY <1>1, <1>3, <1>4, <1>5 DEF Good

(* A book stays one when a side of it is thinned. *)
LEMMA ThinnedBook ==
    ASSUME NEW n \in Nat, NEW next \in Nat, NEW b \in Books(n, next),
           NEW side \in Sides, NEW l \in Lists,
           Len(l) <= Len(b[side]), Thinned(l, b[side])
    PROVE  [b EXCEPT ![side] = l] \in Books(n, next)
<1> DEFINE c == [b EXCEPT ![side] = l]
<1>1. /\ b \in [Bid : Lists, Ask : Lists, next_seq : {next}]
      /\ Good(b.Bid, n) /\ Good(b.Ask, n) /\ Uncrossed(b.Bid, b.Ask)
  BY DEF Books
<1>2. /\ Good(l, n)
      /\ \A j \in 1..Len(l) : \E i \in 1..Len(b[side]) : l[j].price = b[side][i].price
  <2>1. Good(b[side], n) /\ n \in Nat
    BY BookFacts
  <2> QED BY <2>1, ThinnedGood
<1>3. CASE side = "Bid"
  <2>1. c \in [Bid : Lists, Ask : Lists, next_seq : {next}]
        /\ c.Bid = l /\ c.Ask = b.Ask /\ c.next_seq = b.next_seq
    BY <1>1, <1>3
  <2>2. Uncrossed(l, b.Ask)
    BY <1>1, <1>2, <1>3 DEF Uncrossed
  <2> QED BY <1>1, <1>2, <2>1, <2>2 DEF Books
<1>4. CASE side = "Ask"
  <2>1. c \in [Bid : Lists, Ask : Lists, next_seq : {next}]
        /\ c.Bid = b.Bid /\ c.Ask = l /\ c.next_seq = b.next_seq
    BY <1>1, <1>4
  <2>2. Uncrossed(b.Bid, l)
    BY <1>1, <1>2, <1>4 DEF Uncrossed
  <2> QED BY <1>1, <1>2, <2>1, <2>2 DEF Books
<1> QED BY <1>3, <1>4 DEF Sides

(* The prices of a side are below a bound. *)
LEMMA PricesBounded ==
    ASSUME NEW n \in Nat, NEW next \in Nat, NEW b \in Books(n, next), NEW side \in Sides
    PROVE  \E M \in Nat : \A i \in 1..Len(b[side]) : b[side][i].price <= M
<1> DEFINE k == Len(b[side])
           f == [i \in 1..k |-> b[side][i].price]
<1>1. k \in Nat /\ f \in [1..k -> Nat]
  BY BookFacts, LimitTypes DEF LimitOrder
<1>2. \E M \in Nat : \A i \in 1..k : f[i] <= M
  <2> HIDE DEF k, f
  <2> QED BY <1>1, ItemsBounded
<1> QED BY <1>2

(* Among some prices of a side one is the best. *)
LEMMA BestOfPrices ==
    ASSUME NEW n \in Nat, NEW next \in Nat, NEW b \in Books(n, next), NEW side \in Sides,
           NEW P \in SUBSET PricesOf(b, side), P # {}
    PROVE  P \subseteq Nat /\ \E p \in P : \A q \in P : ~price_better(q, p, side)
<1>1. P \subseteq Nat
  <2>1. P \subseteq Limits
    BY BookFacts DEF PricesOf, LimitOrder
  <2> QED BY <2>1, LimitTypes
<1>2. CASE side = "Bid"
  <2>1. PICK M \in Nat : \A i \in 1..Len(b[side]) : b[side][i].price <= M
    BY PricesBounded
  <2>2. \A p \in P : p <= M
    BY <2>1, BookFacts DEF PricesOf
  <2>3. PICK p \in P : \A q \in P : q <= p
    BY <1>1, <2>2, GreatestNat
  <2> QED BY <1>1, <1>2, <2>3 DEF price_better
<1>3. CASE side = "Ask"
  <2>1. PICK p \in P : \A q \in P : p <= q
    BY <1>1, LeastNat
  <2> QED BY <1>1, <1>3, <2>1 DEF price_better
<1> QED BY <1>1, <1>2, <1>3 DEF Sides

LEMMA BestPrice ==
    ASSUME NEW n \in Nat, NEW next \in Nat, NEW b \in Books(n, next), NEW side \in Sides
    PROVE  /\ best_price(b, side) \in Nat
           /\ b[side] # <<>> => best_price(b, side) \in Limits
           /\ \A i \in 1..Len(b[side]) : ~price_better(b[side][i].price, best_price(b, side), side)
<1> DEFINE P == PricesOf(b, side)
<1>1. P = {b[side][i].price : i \in 1..Len(b[side])}
  BY BookFacts DEF PricesOf
<1>2. CASE b[side] = <<>>
  BY <1>2 DEF best_price
<1>3. CASE b[side] # <<>>
  <2>1. P # {}
    <3>1. Len(b[side]) \in Nat \ {0}
      BY <1>3, BookFacts, EmptySeq DEF Good, Lists
    <3>2. b[side][1].price \in P
      BY <1>1, <3>1
    <3> QED BY <3>2
  <2>2. best_price(b, side) = CHOOSE p \in P : \A q \in P : ~price_better(q, p, side)
    BY <1>3 DEF best_price
  <2> HIDE DEF P
  <2>3. P \subseteq Nat /\ \E p \in P : \A q \in P : ~price_better(q, p, side)
    <3>1. P \in SUBSET PricesOf(b, side)
      BY DEF P
    <3> QED BY <2>1, <3>1, BestOfPrices
  <2>4. best_price(b, side) \in P /\ \A q \in P : ~price_better(q, best_price(b, side), side)
    BY <2>2, <2>3
  <2>5. P \subseteq Limits
    BY BookFacts DEF P, PricesOf, LimitOrder
  <2> QED BY <1>1, <2>3, <2>4, <2>5
<1> QED BY <1>2, <1>3

LEMMA MidType ==
    ASSUME NEW n \in Nat, NEW next \in Nat, NEW b \in Books(n, next)
    PROVE  /\ mid(b) \in Nat
           /\ \A M \in Nat : (\A p \in Limits : p <= M) => mid(b) <= M
<1> DEFINE p == best_price(b, "Bid")
           q == best_price(b, "Ask")
<1>1. p \in Nat /\ q \in Nat /\ (b.Bid # <<>> => p \in Limits) /\ (b.Ask # <<>> => q \in Limits)
  BY BestPrice DEF Sides
<1> HIDE DEF p, q
<1>2. mid(b) = IF b.Bid = <<>> \/ b.Ask = <<>> THEN 0 ELSE (p + q) \div 2
  BY DEF mid, NoMid, p, q
<1>3. (p + q) \div 2 \in Nat
  BY <1>1
<1>4. \A M \in Nat : p <= M /\ q <= M => (p + q) \div 2 <= M
  BY <1>1
<1> QED BY <1>1, <1>2, <1>3, <1>4

(* Among makers one is the best: the earliest of those at the best price. *)
LEMMA BestMaker ==
    ASSUME NEW n \in Nat, NEW next \in Nat, NEW b \in Books(n, next), NEW side \in Sides,
           NEW C \in SUBSET (1..Len(b[side])), C # {}
    PROVE  LET best == best_maker(b[side], side, C)
           IN  best \in C /\ \A j \in C \ {best} : better_maker(b[side][best], b[side][j], side)
<1> DEFINE l == b[side]
           P == {l[i].price : i \in C}
<1>1. \A i \in C : l[i].price \in Nat /\ l[i].seq \in Nat
  BY BookFacts, LimitTypes DEF LimitOrder
<1>2. PICK p \in P : \A q \in P : ~price_better(q, p, side)
  <2>1. P # {}
    <3>1. PICK i \in C : TRUE
      OBVIOUS
    <3>2. l[i].price \in P
      BY <3>1
    <3> QED BY <3>2
  <2>2. P \in SUBSET PricesOf(b, side)
    BY BookFacts DEF PricesOf
  <2> HIDE DEF P
  <2> QED BY <2>1, <2>2, BestOfPrices
<1>3. p \in Nat
  BY <1>1
<1> DEFINE E == {i \in C : l[i].price = p}
           T == {l[i].seq : i \in E}
<1>4. PICK t \in T : \A u \in T : t <= u
  <2>1. T \subseteq Nat
    BY <1>1
  <2>2. T # {}
    BY <1>2
  <2> HIDE DEF T
  <2> QED BY <2>1, <2>2, LeastNat
<1>5. PICK i \in E : l[i].seq = t
  BY <1>4
<1>6. ASSUME NEW j \in C \ {i} PROVE better_maker(l[i], l[j], side)
  <2>1. ~price_better(l[j].price, p, side) /\ l[i].price = p
    BY <1>2, <1>5
  <2>2. CASE l[j].price = p
    <3>1. l[i].seq <= l[j].seq
      BY <1>4, <1>5, <2>2
    <3>2. l[i].seq # l[j].seq
      BY <1>5, <1>6, BookFacts DEF Good
    <3> QED BY <1>1, <1>5, <2>1, <2>2, <3>1, <3>2 DEF better_maker
  <2>3. CASE l[j].price # p
    <3>1. price_better(p, l[j].price, side)
      <4>1. l[j].price \in Nat /\ p \in Nat
        BY <1>1, <1>3
      <4> QED BY <2>1, <2>3, <4>1 DEF price_better
    <3> QED BY <2>1, <3>1 DEF better_maker
  <2> QED BY <2>2, <2>3
<1>7. \E k \in C : \A j \in C \ {k} : better_maker(l[k], l[j], side)
  BY <1>5, <1>6
<1> HIDE DEF l
<1>8. LET best == best_maker(l, side, C)
      IN  best \in C /\ \A j \in C \ {best} : better_maker(l[best], l[j], side)
  BY <1>7 DEF best_maker
<1> QED BY <1>8 DEF l

-----------------------------------------------------------------------------
(* Matching *)

MakerFill == [owner : Owners, price : Limits \ {0}, size : Lots]
MatchStates(n, next) ==
    [book : Books(n, next), remaining : Lots \cup {0}, fills : Seq(MakerFill)]
Outcomes(n, next) ==
    {out \in [book : Books(n, next), remaining : Lots \cup {0}, fills : Seq(MakerFill),
              residual : BOOLEAN] : out.residual => out.remaining > 0}
Taker == [owner : Owners, side : Sides, price : Limits, size : Lots, seq : Nat]

LEMMA MatchStateFacts ==
    ASSUME NEW n \in Nat, NEW next \in Nat, NEW s \in MatchStates(n, next)
    PROVE  /\ s.book \in Books(n, next) /\ s.fills \in Seq(MakerFill)
           /\ s.remaining \in Lots \cup {0} /\ s.remaining \in Nat
<1>1. s.book \in Books(n, next) /\ s.fills \in Seq(MakerFill) /\ s.remaining \in Lots \cup {0}
  BY DEF MatchStates
<1>2. s.remaining \in Nat
  BY <1>1, LotOrNone
<1> QED BY <1>1, <1>2

(* One turn of the loop fills a maker that is there, by no more than it has. *)
LEMMA TurnType ==
    ASSUME NEW n \in Nat, NEW next \in Nat, NEW s \in MatchStates(n, next),
           NEW taker \in Taker, NEW kind
    PROVE  MatchTurn(s, taker, kind) \in MatchStates(n, next)
<1> DEFINE side == Opposite(taker.side)
           i == best_crossable_maker(s.book, taker, kind)
           maker == s.book[side][i]
           size == IF s.remaining <= maker.size THEN s.remaining ELSE maker.size
<1>1. s.book \in Books(n, next) /\ s.remaining \in Nat /\ s.fills \in Seq(MakerFill)
  BY MatchStateFacts
<1>2. CASE MatchDone(s, taker, kind)
  BY <1>2 DEF MatchTurn
<1>3. CASE ~MatchDone(s, taker, kind)
  <2>1. side \in Sides
    BY DEF Taker, Sides, Opposite
  <2> DEFINE C == crossable_makers(s.book, taker, kind)
  <2>2. C \in SUBSET (1..Len(s.book[side])) /\ C # {}
    <3>1. DOMAIN s.book[side] = 1..Len(s.book[side])
      BY <1>1, <2>1, BookFacts
    <3> QED BY <1>3, <3>1 DEF MatchDone, crossable_makers
  <2>3. i \in 1..Len(s.book[side])
    <3>1. i = best_maker(s.book[side], side, C)
      BY DEF best_crossable_maker
    <3> HIDE DEF C, i, side
    <3> QED BY <1>1, <2>1, <2>2, <3>1, BestMaker
  <2> HIDE DEF i, C
  <2>4. maker \in LimitOrder
    BY <1>1, <2>1, <2>3, BookFacts
  <2>5. /\ size \in Nat \ {0} /\ size <= maker.size
        /\ size \in Lots /\ s.remaining - size \in Lots \cup {0}
    <3>1. s.remaining \in Lots /\ maker.size \in Lots
      BY <1>3, <2>4 DEF MatchDone, LimitOrder, MatchStates
    <3>2. s.remaining \in Nat \ {0} /\ maker.size \in Nat \ {0} /\ 1..s.remaining \subseteq Lots
      BY <3>1, LotTypes
    <3> HIDE DEF maker
    <3>3. size \in Nat \ {0} /\ size <= maker.size /\ size \in Lots
      BY <3>1, <3>2
    <3>4. s.remaining - size = 0 \/ s.remaining - size \in 1..s.remaining
      BY <3>2
    <3> QED BY <3>2, <3>3, <3>4
  <2> DEFINE l == Reduce(s.book[side], i, size)
             fill == [owner |-> maker.owner, price |-> maker.price, size |-> size]
  <2>6. [s.book EXCEPT ![side] = l] \in Books(n, next)
    <3>1. s.book[side] \in Lists
      BY <1>1, <2>1, BookFacts DEF Good
    <3> HIDE DEF size
    <3>2. l \in Lists /\ Len(l) <= Len(s.book[side]) /\ Thinned(l, s.book[side])
      BY <2>3, <2>5, <3>1, ReduceThins
    <3> HIDE DEF l, side
    <3> QED BY <1>1, <2>1, <3>2, ThinnedBook
  <2>7. Append(s.fills, fill) \in Seq(MakerFill)
    <3>1. fill \in MakerFill
      <4> HIDE DEF size
      <4> QED BY <2>4, <2>5 DEF MakerFill, LimitOrder
    <3> HIDE DEF fill
    <3> QED BY <1>1, <3>1, AppendProperties
  <2>8. MatchTurn(s, taker, kind) = FillMaker(s, side, i)
    BY <1>3 DEF MatchTurn, i
  <2>9. FillMaker(s, side, i) = [book |-> [s.book EXCEPT ![side] = l],
                                 remaining |-> s.remaining - size,
                                 fills |-> Append(s.fills, fill)]
    <3>1. s.book \in [Bid : Lists, Ask : Lists, next_seq : {next}]
      BY <1>1 DEF Books
    <3> QED BY <3>1 DEF FillMaker
  <2> HIDE DEF l, fill, size, maker, side
  <2> QED BY <2>5, <2>6, <2>7, <2>8, <2>9 DEF MatchStates
<1> QED BY <1>2, <1>3

(* The loop is a run of turns, however many the budget allows. *)
MatchRun(run, n, next, b, taker, kind, max_steps) ==
    /\ run[0] = [book |-> b, remaining |-> taker.size, fills |-> <<>>]
    /\ \A k \in 1..max_steps : run[k] = MatchTurn(run[k - 1], taker, kind)
    /\ \A k \in 0..max_steps : run[k] \in MatchStates(n, next)
    /\ match_order(b, taker, kind, max_steps) = MatchOutcome(run[max_steps], taker, kind)

LEMMA MatchRuns ==
    ASSUME NEW n \in Nat, NEW next \in Nat, NEW b \in Books(n, next),
           NEW taker \in Taker, NEW kind, NEW max_steps \in Nat
    PROVE  \E run : MatchRun(run, n, next, b, taker, kind, max_steps)
<1> DEFINE S == MatchStates(n, next)
           a == [book |-> b, remaining |-> taker.size, fills |-> <<>>]
           turn == [k \in 1..max_steps |-> [s \in S |-> MatchTurn(s, taker, kind)]]
           Turns(r) == r = [k \in 0..max_steps |->
                              IF k = 0 THEN a ELSE MatchTurn(r[k - 1], taker, kind)]
           run == CHOOSE r : Turns(r)
<1>1. a \in S
  <2>1. <<>> \in Seq(MakerFill)
    OBVIOUS
  <2> QED BY <2>1 DEF MatchStates, Taker
<1>2. turn \in [1..max_steps -> [S -> S]]
  BY TurnType
<1> HIDE DEF S, a
<1>3. \E r : Turns(r)
  <2>1. PICK r \in [0..max_steps -> S] : Iterates(r, max_steps, a, turn)
    <3> HIDE DEF turn
    <3> QED BY <1>1, <1>2, IterationExists
  <2>2. ASSUME NEW k \in 0..max_steps
        PROVE  r[k] = IF k = 0 THEN a ELSE MatchTurn(r[k - 1], taker, kind)
    <3>1. r[k] = IF k = 0 THEN a ELSE turn[k][r[k - 1]]
      BY <2>1 DEF Iterates
    <3>2. k # 0 => r[k - 1] \in S /\ k \in 1..max_steps
      BY <2>1
    <3> QED BY <3>1, <3>2
  <2>3. Turns(r)
    <3> HIDE DEF a, turn
    <3> QED BY <2>1, <2>2
  <2> QED BY <2>3
<1>4. Turns(run)
  BY <1>3
<1> HIDE DEF run
<1>5. run[0] = a /\ \A k \in 1..max_steps : run[k] = MatchTurn(run[k - 1], taker, kind)
  BY <1>4
<1>6. \A k \in 0..max_steps : run[k] \in S
  <2>1. ASSUME NEW k \in 1..max_steps, run[k - 1] \in S PROVE run[k] \in S
    <3>1. MatchTurn(run[k - 1], taker, kind) \in S
      BY <2>1, TurnType DEF S
    <3> QED BY <1>5, <3>1
  <2> QED BY <1>1, <1>5, <2>1, StaysIn
<1>7. match_order(b, taker, kind, max_steps) = MatchOutcome(run[max_steps], taker, kind)
  BY DEF match_order, run, a
<1> QED BY <1>5, <1>6, <1>7 DEF MatchRun, S, a

LEMMA MatchType ==
    ASSUME NEW n \in Nat, NEW next \in Nat, NEW b \in Books(n, next),
           NEW taker \in Taker, NEW kind, NEW max_steps \in Nat
    PROVE  match_order(b, taker, kind, max_steps) \in Outcomes(n, next)
<1>1. PICK s \in MatchStates(n, next) :
        match_order(b, taker, kind, max_steps) = MatchOutcome(s, taker, kind)
  <2>1. PICK run : MatchRun(run, n, next, b, taker, kind, max_steps)
    BY MatchRuns
  <2>2. max_steps \in 0..max_steps
    OBVIOUS
  <2> QED BY <2>1, <2>2 DEF MatchRun
<1> DEFINE out == MatchOutcome(s, taker, kind)
<1>2. /\ s.book \in Books(n, next) /\ s.fills \in Seq(MakerFill)
      /\ s.remaining \in Nat /\ s.remaining \in Lots \cup {0}
  BY MatchStateFacts
<1>3. out = [book |-> s.book, remaining |-> s.remaining, fills |-> s.fills,
             residual |-> out.residual]
      /\ out.residual \in BOOLEAN
  BY DEF MatchOutcome
<1>4. out.residual => s.remaining # 0
  BY DEF MatchOutcome, MatchDone
<1> HIDE DEF out
<1>5. out \in Outcomes(n, next)
  BY <1>2, <1>3, <1>4 DEF Outcomes
<1> QED BY <1>1, <1>5 DEF out

-----------------------------------------------------------------------------
(* The ring of events *)

OutEvents == {e \in OutEvent : e.price \in Limits /\ e.size \in Lots}
Rings ==
    {r \in [events : [RingSlots -> OutEvents \cup {Unwritten}], read : Nat, write : Nat] :
       r.read <= r.write /\ r.write - r.read <= EVENT_QUEUE_LEN}

(* Every event of r1 that is still waiting in r2 is where it was, and what    *)
(* was not written over is as it was.                                         *)
Untouched(i, low, high) == \A n \in low..(high - 1) : n % EVENT_QUEUE_LEN # i
Keeps(r2, r1) ==
    /\ r1.read <= r2.read /\ r1.write <= r2.write
    /\ \A k \in r2.read..(r1.write - 1) :
         r2.events[k % EVENT_QUEUE_LEN] = r1.events[k % EVENT_QUEUE_LEN]
    /\ \A i \in RingSlots : Untouched(i, r1.write, r2.write) => r2.events[i] = r1.events[i]

LEMMA RingFacts ==
    ASSUME NEW r \in Rings
    PROVE  /\ r \in [events : [RingSlots -> OutEvents \cup {Unwritten}], read : Nat, write : Nat]
           /\ r.read \in Nat /\ r.write \in Nat /\ r.read <= r.write
           /\ EVENT_QUEUE_LEN \in Nat \ {0}
           /\ \A k \in Nat : k % EVENT_QUEUE_LEN \in RingSlots
<1>1. EVENT_QUEUE_LEN \in Nat \ {0}
  BY BookAssumption
<1>2. ASSUME NEW k \in Nat PROVE k % EVENT_QUEUE_LEN \in RingSlots
  BY <1>1 DEF RingSlots
<1> QED BY <1>1, <1>2 DEF Rings

LEMMA KeepsItself == ASSUME NEW r \in Rings PROVE Keeps(r, r)
  BY DEF Keeps, Rings

LEMMA KeepsOn ==
    ASSUME NEW r1 \in Rings, NEW r2 \in Rings, NEW r3 \in Rings,
           Keeps(r2, r1), Keeps(r3, r2)
    PROVE  Keeps(r3, r1)
<1>1. /\ r1.read \in Nat /\ r2.read \in Nat /\ r3.read \in Nat
      /\ r1.write \in Nat /\ r2.write \in Nat /\ r3.write \in Nat
  BY DEF Rings
<1>2. /\ r1.read <= r2.read /\ r1.write <= r2.write
      /\ r2.read <= r3.read /\ r2.write <= r3.write
  BY DEF Keeps
<1>3. ASSUME NEW k \in r3.read..(r1.write - 1)
      PROVE  r3.events[k % EVENT_QUEUE_LEN] = r1.events[k % EVENT_QUEUE_LEN]
  <2>1. k \in r2.read..(r1.write - 1) /\ k \in r3.read..(r2.write - 1)
    BY <1>1, <1>2
  <2> QED BY <2>1 DEF Keeps
<1>4. ASSUME NEW i \in RingSlots, Untouched(i, r1.write, r3.write)
      PROVE  r3.events[i] = r1.events[i]
  <2>1. Untouched(i, r1.write, r2.write) /\ Untouched(i, r2.write, r3.write)
    BY <1>1, <1>2, <1>4 DEF Untouched
  <2> QED BY <2>1 DEF Keeps
<1>5. r1.read <= r3.read /\ r1.write <= r3.write
  BY <1>1, <1>2
<1> QED BY <1>3, <1>4, <1>5 DEF Keeps

LEMMA AppendType ==
    ASSUME NEW r \in Rings, NEW e \in OutEvents
    PROVE  append_event(r, e) \in Rings /\ Keeps(append_event(r, e), r)
<1> DEFINE L == EVENT_QUEUE_LEN
           t == append_event(r, e)
<1>1. /\ r \in [events : [RingSlots -> OutEvents \cup {Unwritten}], read : Nat, write : Nat]
      /\ r.read \in Nat /\ r.write \in Nat /\ r.read <= r.write
      /\ L \in Nat \ {0} /\ \A k \in Nat : k % L \in RingSlots
  BY RingFacts
<1>2. CASE ~HasRoom(r, 1)
  BY <1>2, KeepsItself DEF append_event
<1>3. CASE HasRoom(r, 1)
  <2>1. /\ t.events = [r.events EXCEPT ![r.write % L] = e]
        /\ t.read = r.read /\ t.write = r.write + 1
        /\ t = [events |-> t.events, read |-> t.read, write |-> t.write]
    BY <1>1, <1>3 DEF append_event
  <2>2. t.write - t.read <= L /\ t.read <= t.write
    BY <1>1, <1>3, <2>1 DEF HasRoom, queued
  <2>3. t.events \in [RingSlots -> OutEvents \cup {Unwritten}]
    BY <1>1, <2>1
  <2>4. ASSUME NEW k \in t.read..(r.write - 1)
        PROVE  t.events[k % L] = r.events[k % L]
    <3>1. k \in Nat /\ k < r.write /\ r.write - k < L
      BY <1>1, <2>1, <2>2
    <3>2. k % L # r.write % L
      BY <1>1, <3>1, Apart
    <3>3. k % L \in RingSlots
      BY <1>1, <3>1
    <3> HIDE DEF t
    <3> QED BY <1>1, <2>1, <3>2, <3>3
  <2> HIDE DEF t
  <2>5. t \in Rings
    BY <1>1, <2>1, <2>2, <2>3 DEF Rings
  <2>6. ASSUME NEW i \in RingSlots, Untouched(i, r.write, t.write)
        PROVE  t.events[i] = r.events[i]
    <3>1. r.write \in r.write..(t.write - 1)
      BY <1>1, <2>1
    <3>2. r.write % L # i
      BY <2>6, <3>1 DEF Untouched
    <3> QED BY <1>1, <2>1, <3>2
  <2>7. Keeps(t, r)
    BY <1>1, <2>1, <2>4, <2>6 DEF Keeps
  <2> QED BY <2>5, <2>7 DEF t
<1> QED BY <1>2, <1>3

LEMMA FillEventType ==
    ASSUME NEW fill \in MakerFill, NEW taker \in Taker
    PROVE  Event("Fill", fill.owner, taker.owner, Opposite(taker.side), fill.price, fill.size)
             \in OutEvents
<1>1. Opposite(taker.side) \in Sides
  BY DEF Taker, Sides, Opposite
<1>2. taker.owner \in Owners /\ fill.owner \in Owners /\ fill.price \in Limits \ {0}
      /\ fill.size \in Lots
  BY DEF Taker, MakerFill
<1> QED BY <1>1, <1>2, LimitTypes DEF Event, OutEvents, OutEvent

FillEvent(fill, taker) ==
    Event("Fill", fill.owner, taker.owner, Opposite(taker.side), fill.price, fill.size)

EmitRun(run, r, fills, taker) ==
    /\ run[0] = r
    /\ \A k \in 1..Len(fills) : run[k] = append_event(run[k - 1], FillEvent(fills[k], taker))
    /\ \A k \in 0..Len(fills) : run[k] \in Rings /\ Keeps(run[k], r)
    /\ emit_fill_events(r, fills, taker) = run[Len(fills)]

(* Emitting the fills of a match overwrites nothing, whether they fit or not. *)
LEMMA EmitRuns ==
    ASSUME NEW r \in Rings, NEW fills \in Seq(MakerFill), NEW taker \in Taker
    PROVE  \E run : EmitRun(run, r, fills, taker)
<1> DEFINE n == Len(fills)
           S == {t \in Rings : Keeps(t, r)}
           fill(k) == FillEvent(fills[k], taker)
           put == [k \in 1..n |-> [t \in S |-> append_event(t, fill(k))]]
           Puts(f) == f = [k \in 0..n |-> IF k = 0 THEN r ELSE append_event(f[k - 1], fill(k))]
           emitted == CHOOSE f : Puts(f)
<1>1. n \in Nat /\ r \in S
  BY KeepsItself
<1>2. ASSUME NEW k \in 1..n PROVE fill(k) \in OutEvents
  <2>1. fills[k] \in MakerFill
    OBVIOUS
  <2> QED BY <2>1, FillEventType DEF FillEvent
<1> HIDE DEF n, fill
<1>3. ASSUME NEW k \in 1..n, NEW t \in S PROVE append_event(t, fill(k)) \in S
  <2>1. append_event(t, fill(k)) \in Rings /\ Keeps(append_event(t, fill(k)), t)
    BY <1>2, AppendType
  <2> QED BY <2>1, KeepsOn
<1> HIDE DEF S
<1>4. put \in [1..n -> [S -> S]]
  BY <1>3
<1>5. \E f : Puts(f)
  <2>1. PICK f \in [0..n -> S] : Iterates(f, n, r, put)
    <3> HIDE DEF put
    <3> QED BY <1>1, <1>4, IterationExists
  <2>2. ASSUME NEW k \in 0..n
        PROVE  f[k] = IF k = 0 THEN r ELSE append_event(f[k - 1], fill(k))
    <3>1. f[k] = IF k = 0 THEN r ELSE put[k][f[k - 1]]
      BY <2>1 DEF Iterates
    <3>2. k # 0 => f[k - 1] \in S /\ k \in 1..n
      BY <1>1, <2>1
    <3> QED BY <3>1, <3>2
  <2>3. Puts(f)
    <3> HIDE DEF put
    <3> QED BY <2>1, <2>2
  <2> QED BY <2>3
<1>6. Puts(emitted)
  BY <1>5
<1> HIDE DEF emitted
<1>7. emitted[0] = r /\ \A k \in 1..n : emitted[k] = append_event(emitted[k - 1], fill(k))
  BY <1>1, <1>6
<1>8. \A k \in 0..n : emitted[k] \in S
  <2>1. ASSUME NEW k \in 1..n, emitted[k - 1] \in S PROVE emitted[k] \in S
    BY <1>3, <1>7, <2>1
  <2> QED BY <1>1, <1>7, <2>1, StaysIn
<1>9. emit_fill_events(r, fills, taker) = emitted[n]
  BY DEF emit_fill_events, emitted, fill, n, FillEvent
<1> QED BY <1>7, <1>8, <1>9 DEF EmitRun, S, n, fill

LEMMA EmitType ==
    ASSUME NEW r \in Rings, NEW fills \in Seq(MakerFill), NEW taker \in Taker
    PROVE  emit_fill_events(r, fills, taker) \in Rings
           /\ Keeps(emit_fill_events(r, fills, taker), r)
<1>1. PICK run : EmitRun(run, r, fills, taker)
  BY EmitRuns
<1>2. Len(fills) \in 0..Len(fills)
  OBVIOUS
<1> QED BY <1>1, <1>2 DEF EmitRun

-----------------------------------------------------------------------------
(* Takers *)

LEMMA LaterNumbers ==
    ASSUME NEW n \in Nat, NEW next \in Nat, NEW b \in Books(n, next)
    PROVE  b \in Books(n + 1, next)
<1>1. ASSUME NEW l, Good(l, n) PROVE Good(l, n + 1)
  <2>1. \A i \in 1..Len(l) : l[i] \in LimitOrder
    BY <1>1 DEF Good, Lists
  <2>2. \A i \in 1..Len(l) : l[i].seq \in Nat
    BY <2>1 DEF LimitOrder
  <2> QED BY <1>1, <2>2 DEF Good
<1> QED BY <1>1 DEF Books

LEMMA NumberTaken ==
    ASSUME NEW n \in Nat, NEW b \in Books(n, n)
    PROVE  take_next_seq(b) \in Books(n, n + 1)
  BY DEF take_next_seq, Books

(* Only an order that crosses nothing is posted, and with a number of its own. *)
LEMMA PostType ==
    ASSUME NEW n \in Nat, NEW next \in Nat, NEW b \in Books(n, next),
           NEW o \in Taker, o.seq = n, o.price # 0,
           HasSpace(b, o.side), ~would_cross(b, o)
    PROVE  post_limit(b, o) \in Books(n + 1, next)
<1> DEFINE side == o.side
           new == Resting(o)
           l == Append(b[side], new)
           c == post_limit(b, o)
<1>1. /\ o.side \in Sides /\ new \in LimitOrder /\ new.price = o.price /\ new.seq = n
      /\ o.price \in Nat
  BY LimitTypes DEF Taker, Resting, LimitOrder
<1> HIDE DEF new
<1>2. /\ b \in [Bid : Lists, Ask : Lists, next_seq : {next}]
      /\ Good(b.Bid, n + 1) /\ Good(b.Ask, n + 1) /\ Uncrossed(b.Bid, b.Ask)
  <2>1. b \in Books(n + 1, next)
    BY LaterNumbers
  <2> QED BY <2>1 DEF Books
<1>3. Good(b[side], n) /\ b[side] \in Seq(LimitOrder) /\ Len(b[side]) \in Nat
  <2>1. Good(b[side], n) /\ Len(b[side]) \in Nat
    <3>1. side \in Sides
      BY <1>1
    <3> HIDE DEF side, l, c
    <3> QED BY <3>1, BookFacts
  <2>2. b[side] \in Lists
    BY <2>1 DEF Good
  <2> QED BY <2>1, <2>2 DEF Lists
<1>4. /\ l \in Lists /\ Len(l) = Len(b[side]) + 1
      /\ \A i \in 1..Len(b[side]) : l[i] = b[side][i]
      /\ l[Len(b[side]) + 1] = new
  BY <1>1, <1>3, AppendProperties DEF Lists
<1>5. Good(l, n + 1)
  <2>1. Len(l) <= MAX_ORDERS_PER_SIDE
    BY <1>3, <1>4, BookAssumption DEF HasSpace
  <2>2. \A i \in 1..Len(b[side]) : l[i].seq \in Nat /\ l[i].seq < n
    <3>1. \A i \in 1..Len(b[side]) : b[side][i] \in LimitOrder
      BY <1>3
    <3> QED BY <1>3, <1>4, <3>1 DEF Good, LimitOrder
  <2> HIDE DEF l
  <2>3. ASSUME NEW i \in 1..Len(l) PROVE l[i].seq < n + 1
    <3>1. i \in 1..Len(b[side]) \/ i = Len(b[side]) + 1
      BY <1>3, <1>4
    <3> QED BY <1>1, <1>4, <2>2, <3>1
  <2>4. ASSUME NEW i \in 1..Len(l), NEW j \in 1..Len(l), i # j PROVE l[i].seq # l[j].seq
    <3>1. /\ i \in 1..Len(b[side]) \/ i = Len(b[side]) + 1
          /\ j \in 1..Len(b[side]) \/ j = Len(b[side]) + 1
      BY <1>3, <1>4
    <3>2. \A k \in 1..Len(b[side]) : l[k].seq # n
      BY <2>2
    <3>3. \A k, m \in 1..Len(b[side]) : k # m => l[k].seq # l[m].seq
      BY <1>3, <1>4 DEF Good
    <3> QED BY <1>1, <1>4, <2>4, <3>1, <3>2, <3>3
  <2> QED BY <1>4, <2>1, <2>3, <2>4 DEF Good
<1>6. \A i \in 1..Len(b[Opposite(side)]) : ~is_crossable(side, o.price, b[Opposite(side)][i].price)
  <2> DEFINE other == Opposite(side)
             best == best_price(b, other)
  <2>1. other \in Sides
    BY <1>1, BookFacts
  <2>2. best \in Nat /\ \A i \in 1..Len(b[other]) : ~price_better(b[other][i].price, best, other)
    BY <2>1, BestPrice
  <2>3. \A i \in 1..Len(b[other]) : b[other][i].price \in Nat
    BY <2>1, BookFacts, LimitTypes DEF LimitOrder
  <2>4. b[other] # <<>> => ~is_crossable(side, o.price, best)
    BY DEF would_cross
  <2>5. b[other] = <<>> => Len(b[other]) = 0
    OBVIOUS
  <2>6. ASSUME NEW i \in 1..Len(b[other]) PROVE ~is_crossable(side, o.price, b[other][i].price)
    <3>1. ~is_crossable(side, o.price, best)
      BY <2>4, <2>5
    <3>2. b[other][i].price \in Nat /\ ~price_better(b[other][i].price, best, other)
      BY <2>2, <2>3
    <3> HIDE DEF best
    <3> QED BY <1>1, <2>2, <3>1, <3>2 DEF is_crossable, price_better, Opposite, Sides
  <2> QED BY <2>6
<1>7. c = [b EXCEPT ![side] = l]
  BY <1>2 DEF post_limit, new
<1>8. CASE side = "Bid"
  <2>1. c \in [Bid : Lists, Ask : Lists, next_seq : {next}] /\ c.Bid = l /\ c.Ask = b.Ask
    BY <1>2, <1>4, <1>7, <1>8
  <2>2. ASSUME NEW i \in 1..Len(l), NEW j \in 1..Len(b.Ask) PROVE l[i].price < b.Ask[j].price
    <3>1. i \in 1..Len(b.Bid) \/ i = Len(b.Bid) + 1
      BY <1>3, <1>4, <1>8
    <3>2. CASE i \in 1..Len(b.Bid)
      BY <1>2, <1>4, <1>8, <3>2 DEF Uncrossed
    <3>3. CASE i = Len(b.Bid) + 1
      <4>1. l[i].price = o.price
        BY <1>1, <1>4, <1>8, <3>3
      <4>2. ~is_crossable("Bid", o.price, b.Ask[j].price)
        BY <1>6, <1>8 DEF Opposite
      <4>3. b.Ask[j].price \in Nat
        BY BookFacts, LimitTypes DEF Sides, LimitOrder
      <4> QED BY <1>1, <4>1, <4>2, <4>3 DEF is_crossable
    <3> QED BY <3>1, <3>2, <3>3
  <2>3. Uncrossed(l, b.Ask)
    BY <2>2 DEF Uncrossed
  <2> QED BY <1>2, <1>5, <2>1, <2>3 DEF Books
<1>9. CASE side = "Ask"
  <2>1. c \in [Bid : Lists, Ask : Lists, next_seq : {next}] /\ c.Ask = l /\ c.Bid = b.Bid
    BY <1>2, <1>4, <1>7, <1>9
  <2>2. ASSUME NEW i \in 1..Len(b.Bid), NEW j \in 1..Len(l) PROVE b.Bid[i].price < l[j].price
    <3>1. j \in 1..Len(b.Ask) \/ j = Len(b.Ask) + 1
      BY <1>3, <1>4, <1>9
    <3>2. CASE j \in 1..Len(b.Ask)
      BY <1>2, <1>4, <1>9, <3>2 DEF Uncrossed
    <3>3. CASE j = Len(b.Ask) + 1
      <4>1. l[j].price = o.price
        BY <1>1, <1>4, <1>9, <3>3
      <4>2. ~is_crossable("Ask", o.price, b.Bid[i].price)
        BY <1>6, <1>9 DEF Opposite
      <4>3. b.Bid[i].price \in Nat
        BY BookFacts, LimitTypes DEF Sides, LimitOrder
      <4> QED BY <1>1, <4>1, <4>2, <4>3 DEF is_crossable
    <3> QED BY <3>1, <3>2, <3>3
  <2>3. Uncrossed(b.Bid, l)
    BY <2>2 DEF Uncrossed
  <2> QED BY <1>2, <1>5, <2>1, <2>3 DEF Books
<1> QED BY <1>1, <1>8, <1>9 DEF Sides

(* A matched taker leaves a book, whatever becomes of its remainder. *)
LEMMA AfterType ==
    ASSUME NEW n \in Nat, NEW next \in Nat, NEW out \in Outcomes(n, next),
           NEW taker \in Taker, taker.seq = n, taker.price # 0
    PROVE  BookAfter(out, taker) \in Books(n + 1, next)
<1> DEFINE o == Remainder(out, taker)
<1>1. out.book \in Books(n, next) /\ out.remaining \in Lots \cup {0}
  BY DEF Outcomes
<1>2. out.book \in Books(n + 1, next)
  BY <1>1, LaterNumbers
<1>3. CASE ~Rests(out)
  BY <1>2, <1>3 DEF BookAfter
<1>4. CASE Rests(out)
  <2>1. o \in Taker /\ o.seq = n /\ o.price # 0
    <3>1. out.remaining \in Lots
      BY <1>1, <1>4 DEF Rests
    <3> QED BY <3>1 DEF Remainder, Taker
  <2>2. BookAfter(out, taker) = RestRemainder(out.book, o)
    BY <1>4 DEF BookAfter
  <2> HIDE DEF o
  <2>3. CASE would_cross(out.book, o) \/ ~HasSpace(out.book, o.side)
    BY <1>2, <2>2, <2>3 DEF RestRemainder
  <2>4. CASE ~would_cross(out.book, o) /\ HasSpace(out.book, o.side)
    <3>1. post_limit(out.book, o) \in Books(n + 1, next)
      BY <1>1, <2>1, <2>4, PostType
    <3> QED BY <2>2, <2>4, <3>1 DEF RestRemainder
  <2> QED BY <2>3, <2>4
<1> QED BY <1>3, <1>4

LEMMA OutcomeFacts ==
    ASSUME NEW n \in Nat, NEW next \in Nat, NEW out \in Outcomes(n, next)
    PROVE  /\ out.book \in Books(n, next) /\ out.fills \in Seq(MakerFill)
           /\ out.remaining \in Nat /\ out.residual \in BOOLEAN
           /\ out.residual => out.remaining > 0 /\ out.remaining \in Lots
           /\ out.remaining > 0 => out.remaining \in Lots
<1>1. out.remaining \in Lots \cup {0}
  BY DEF Outcomes
<1>2. out.remaining \in Nat /\ (out.remaining # 0 => out.remaining \in Lots)
  BY <1>1, LotOrNone
<1> QED BY <1>2 DEF Outcomes

LEMMA LimitMatched ==
    ASSUME NEW n \in Nat, NEW next \in Nat, NEW b \in Books(n, next), NEW taker \in Taker
    PROVE  /\ match_limit(b, taker) \in Outcomes(n, next)
           /\ match_market(b, taker) \in Outcomes(n, next)
<1>1. MAX_MATCH_STEPS \in Nat
  BY BookAssumption
<1>2. Len(b[Opposite(taker.side)]) \in Nat
  <2>1. Opposite(taker.side) \in Sides
    BY DEF Taker, Sides, Opposite
  <2> QED BY <2>1, BookFacts
<1> QED BY <1>1, <1>2, MatchType DEF match_limit, match_market

LEMMA LimitTaken ==
    ASSUME NEW n \in Nat, NEW next \in Nat, NEW b \in Books(n, next), NEW r \in Rings,
           NEW taker \in Taker, taker.seq = n, taker.price # 0
    PROVE  /\ match_limit_taker(b, r, taker).book \in Books(n + 1, next)
           /\ match_limit_taker(b, r, taker).ring \in Rings
           /\ Keeps(match_limit_taker(b, r, taker).ring, r)
           /\ match_open_taker(b, r, taker).book \in Books(n + 1, next)
           /\ match_open_taker(b, r, taker).ring \in Rings
           /\ Keeps(match_open_taker(b, r, taker).ring, r)
<1> DEFINE out == match_limit(b, taker)
           emitted == emit_fill_events(r, out.fills, taker)
<1>1. out \in Outcomes(n, next)
  BY LimitMatched
<1> HIDE DEF out
<1>2. /\ out.fills \in Seq(MakerFill) /\ out.remaining \in Nat /\ out.residual \in BOOLEAN
      /\ out.residual => out.remaining \in Lots
  BY <1>1, OutcomeFacts
<1>3. emitted \in Rings /\ Keeps(emitted, r)
  BY <1>2, EmitType
<1>4. BookAfter(out, taker) \in Books(n + 1, next)
  BY <1>1, AfterType
<1> HIDE DEF emitted
<1>5. ASSUME out.residual
      PROVE  append_event(emitted, Deferred(out, taker)) \in Rings
             /\ Keeps(append_event(emitted, Deferred(out, taker)), r)
  <2>1. Deferred(out, taker) \in OutEvents
    <3>1. taker.owner \in Owners /\ taker.side \in Sides /\ taker.price \in Limits \ {0}
      BY DEF Taker
    <3>2. taker.price \in Nat \ {0}
      BY <3>1, LimitTypes
    <3>3. out.remaining \in Nat \ {0} /\ out.remaining \in Lots
      BY <1>2, <1>5, LotTypes
    <3> QED BY <3>1, <3>2, <3>3 DEF Deferred, Event, OutEvents, OutEvent, ResidualSize
  <2> HIDE DEF out
  <2>2. append_event(emitted, Deferred(out, taker)) \in Rings
        /\ Keeps(append_event(emitted, Deferred(out, taker)), emitted)
    BY <1>3, <2>1, AppendType
  <2> QED BY <1>3, <2>2, KeepsOn
<1>6. match_limit_taker(b, r, taker).ring =
        IF out.residual THEN append_event(emitted, Deferred(out, taker)) ELSE emitted
  BY DEF match_limit_taker, settle_limit, out, emitted
<1>7. match_open_taker(b, r, taker).ring = emitted
  BY DEF match_open_taker, settle_open, out, emitted
<1>8. /\ match_limit_taker(b, r, taker).book = BookAfter(out, taker)
      /\ match_open_taker(b, r, taker).book = BookAfter(out, taker)
  BY DEF match_limit_taker, match_open_taker, settle_limit, settle_open, out
<1> QED BY <1>3, <1>4, <1>5, <1>6, <1>7, <1>8

-----------------------------------------------------------------------------
(* The crank *)

(* A book between two instructions: the next number is later than all. *)
Settled == {b \in [Bid : Lists, Ask : Lists, next_seq : Nat] : b \in Books(b.next_seq, b.next_seq)}
DrainStates(r) ==
    {s \in [book : Settled, ring : Rings, dirty : BOOLEAN] : Keeps(s.ring, r)}

LEMMA SettledBook ==
    ASSUME NEW n \in Nat
    PROVE  /\ \A b \in Books(n, n) : b \in Settled
           /\ \A b \in Books(n, n + 1) : b \in Books(n + 1, n + 1)
<1>1. \A b \in Books(n, n) : b.next_seq = n /\ b \in [Bid : Lists, Ask : Lists, next_seq : Nat]
  BY DEF Books
<1> QED BY <1>1, LaterNumbers DEF Settled

LEMMA PopType ==
    ASSUME NEW r0 \in Rings, NEW s \in DrainStates(r0), queued(s.ring) # 0
    PROVE  /\ Pop(s) \in DrainStates(r0)
           /\ Pop(s).book = s.book
           /\ NextEvent(s.ring) \in OutEvents \cup {Unwritten}
<1> DEFINE r == s.ring
           t == [r EXCEPT !.read = @ + 1]
<1>1. s \in [book : Settled, ring : Rings, dirty : BOOLEAN] /\ Keeps(r, r0)
  BY DEF DrainStates
<1>2. /\ r \in Rings
      /\ r \in [events : [RingSlots -> OutEvents \cup {Unwritten}], read : Nat, write : Nat]
      /\ r.read \in Nat /\ r.write \in Nat /\ r.read <= r.write
      /\ r.write - r.read <= EVENT_QUEUE_LEN /\ EVENT_QUEUE_LEN \in Nat \ {0}
      /\ \A k \in Nat : k % EVENT_QUEUE_LEN \in RingSlots
  BY <1>1, RingFacts DEF Rings
<1>3. r.read < r.write
  BY <1>2 DEF queued
<1> HIDE DEF r
<1>4. /\ t \in [events : [RingSlots -> OutEvents \cup {Unwritten}], read : Nat, write : Nat]
      /\ t.events = r.events /\ t.read = r.read + 1 /\ t.write = r.write
  BY <1>2
<1> HIDE DEF t
<1>5. t \in Rings
  BY <1>2, <1>3, <1>4 DEF Rings
<1>6. Keeps(t, r)
  BY <1>2, <1>4 DEF Keeps
<1>7. Keeps(t, r0)
  BY <1>1, <1>2, <1>5, <1>6, KeepsOn
<1>8. Pop(s) = [s EXCEPT !.ring = t]
  BY <1>1 DEF Pop, t, r
<1>9. Pop(s) \in DrainStates(r0) /\ Pop(s).book = s.book
  BY <1>1, <1>5, <1>7, <1>8 DEF DrainStates
<1>10. NextEvent(s.ring) \in OutEvents \cup {Unwritten}
  BY <1>2 DEF NextEvent, r
<1> QED BY <1>9, <1>10

LEMMA DrainOneType ==
    ASSUME NEW r0 \in Rings, NEW s \in DrainStates(r0), queued(s.ring) # 0
    PROVE  drain_one(s) \in DrainStates(r0)
<1> DEFINE e == NextEvent(s.ring)
           o == Order(s.book, e)
           p == Pop(s)
           taken == resume(p, o)
<1>1. p \in DrainStates(r0) /\ p.book = s.book /\ e \in OutEvents \cup {Unwritten}
  BY PopType
<1> HIDE DEF e, p
<1>2. CASE ~(e.kind = "Residual" /\ ResumeFits(p, o))
  <2>1. drain_one(s) = p
    BY <1>2 DEF drain_one, e, p
  <2> QED BY <1>1, <2>1
<1>3. CASE e.kind = "Residual" /\ ResumeFits(p, o)
  <2> DEFINE n == s.book.next_seq
  <2>1. s.book \in Settled /\ n \in Nat /\ s.book \in Books(n, n)
    BY DEF DrainStates, Settled
  <2>2. e \in OutEvents
    BY <1>1, <1>3 DEF Unwritten
  <2>3. o \in Taker /\ o.seq = n /\ o.price # 0
    BY <2>1, <2>2 DEF Order, OutEvents, OutEvent, Taker
  <2>4. take_next_seq(p.book) \in Books(n, n + 1)
    BY <1>1, <2>1, NumberTaken
  <2>5. p.ring \in Rings /\ Keeps(p.ring, r0)
    BY <1>1 DEF DrainStates
  <2>6. drain_one(s) = Resumed(taken)
    BY <1>3 DEF drain_one, e, p
  <2>7. taken = match_limit_taker(take_next_seq(p.book), p.ring, o)
    BY DEF resume
  <2> HIDE DEF n, o, taken
  <2>8. taken.book \in Books(n + 1, n + 1) /\ taken.ring \in Rings /\ Keeps(taken.ring, p.ring)
    BY <2>1, <2>3, <2>4, <2>5, <2>7, LimitTaken
  <2>9. taken.book \in Settled
    BY <2>1, <2>8, SettledBook
  <2>10. Keeps(taken.ring, r0)
    BY <2>5, <2>8, KeepsOn
  <2> QED BY <2>6, <2>8, <2>9, <2>10 DEF Resumed, DrainStates
<1> QED BY <1>2, <1>3

DrainTurn(s) == IF queued(s.ring) = 0 THEN s ELSE drain_one(s)

DrainRun(run) ==
    /\ run[0] = [book |-> book, ring |-> ring, dirty |-> FALSE]
    /\ \A k \in 1..CRANK_BATCH_LEN : run[k] = DrainTurn(run[k - 1])
    /\ \A k \in 0..CRANK_BATCH_LEN : run[k] \in DrainStates(ring)
    /\ drain_events = run[CRANK_BATCH_LEN]

LEMMA DrainRuns ==
    ASSUME book \in Settled, ring \in Rings
    PROVE  \E run : DrainRun(run)
<1> DEFINE n == CRANK_BATCH_LEN
           S == DrainStates(ring)
           a == [book |-> book, ring |-> ring, dirty |-> FALSE]
           turn == [k \in 1..n |-> [s \in S |-> DrainTurn(s)]]
           Turns(f) == f = [k \in 0..n |-> IF k = 0 THEN a ELSE DrainTurn(f[k - 1])]
           drained == CHOOSE f : Turns(f)
<1>1. n \in Nat
  BY BookAssumption
<1>2. a \in S
  BY KeepsItself DEF DrainStates
<1>3. \A s \in S : DrainTurn(s) \in S
  BY DrainOneType DEF DrainTurn
<1> HIDE DEF S, a, n
<1>4. turn \in [1..n -> [S -> S]]
  BY <1>3
<1>5. \E f : Turns(f)
  <2>1. PICK f \in [0..n -> S] : Iterates(f, n, a, turn)
    <3> HIDE DEF turn
    <3> QED BY <1>1, <1>2, <1>4, IterationExists
  <2>2. ASSUME NEW k \in 0..n PROVE f[k] = IF k = 0 THEN a ELSE DrainTurn(f[k - 1])
    <3>1. f[k] = IF k = 0 THEN a ELSE turn[k][f[k - 1]]
      BY <2>1 DEF Iterates
    <3>2. k # 0 => f[k - 1] \in S /\ k \in 1..n
      BY <1>1, <2>1
    <3> QED BY <3>1, <3>2
  <2>3. Turns(f)
    <3> HIDE DEF turn
    <3> QED BY <2>1, <2>2
  <2> QED BY <2>3
<1>6. Turns(drained)
  BY <1>5
<1> HIDE DEF drained
<1>7. drained[0] = a /\ \A k \in 1..n : drained[k] = DrainTurn(drained[k - 1])
  BY <1>1, <1>6
<1>8. \A k \in 0..n : drained[k] \in S
  <2>1. ASSUME NEW k \in 1..n, drained[k - 1] \in S PROVE drained[k] \in S
    BY <1>3, <1>7, <2>1
  <2> QED BY <1>1, <1>2, <1>7, <2>1, StaysIn
<1>9. drain_events = drained[n]
  BY DEF drain_events, drained, n, a, DrainTurn
<1> QED BY <1>7, <1>8, <1>9 DEF DrainRun, S, n, a

LEMMA DrainType ==
    ASSUME book \in Settled, ring \in Rings
    PROVE  drain_events \in DrainStates(ring)
<1>1. PICK run : DrainRun(run)
  BY DrainRuns
<1>2. CRANK_BATCH_LEN \in 0..CRANK_BATCH_LEN
  BY BookAssumption
<1> QED BY <1>1, <1>2 DEF DrainRun

-----------------------------------------------------------------------------
(* The TWAP ring *)

LEMMA LastObservation ==
    ASSUME NEW obs \in [ObservationSlots -> Observation],
           NEW I \in SUBSET ObservationSlots, I # {}
    PROVE  /\ max_by_slot(obs, I) \in I
           /\ \A j \in I : obs[j].slot <= obs[max_by_slot(obs, I)].slot
<1> DEFINE n == TWAP_OBSERVATIONS
           f == [k \in 1..n |-> obs[k - 1].slot]
           T == {obs[i].slot : i \in I}
<1>1. n \in Nat \ {0} /\ ObservationSlots = 0..(n - 1)
  BY TwapAssumption DEF ObservationSlots
<1>2. \A i \in 0..(n - 1) : obs[i].slot \in Nat
  BY <1>1 DEF Observation
<1>3. PICK M \in Nat : \A k \in 1..n : f[k] <= M
  <2>1. f \in [1..n -> Nat]
    BY <1>1, <1>2
  <2> HIDE DEF f, n
  <2> QED BY <1>1, <2>1, ItemsBounded
<1>4. T \subseteq Nat
  BY <1>1, <1>2
<1>5. T # {}
  <2>1. PICK i \in I : TRUE
    OBVIOUS
  <2>2. obs[i].slot \in T
    BY <2>1
  <2> QED BY <2>2
<1>6. \A t \in T : t <= M
  <2>1. ASSUME NEW i \in I PROVE obs[i].slot <= M
    <3>1. i + 1 \in 1..n /\ f[i + 1] = obs[i].slot
      BY <1>1
    <3> QED BY <1>3, <3>1
  <2> QED BY <2>1
<1>7. PICK t \in T : \A u \in T : u <= t
  <2> HIDE DEF T
  <2> QED BY <1>4, <1>5, <1>6, GreatestNat
<1> DEFINE E == {i \in I : obs[i].slot = t}
<1>8. PICK e \in E : \A i \in E : i <= e
  <2>1. E \subseteq 0..(n - 1) /\ E # {}
    BY <1>1, <1>7
  <2> HIDE DEF E, n
  <2>2. E \subseteq Nat /\ n \in Nat /\ \A i \in E : i <= n
    BY <1>1, <2>1
  <2> QED BY <2>1, <2>2, GreatestNat
<1>9. ASSUME NEW j \in I
      PROVE  obs[j].slot < obs[e].slot \/ (obs[j].slot = obs[e].slot /\ j <= e)
  <2>1. obs[j].slot \in T /\ obs[j].slot <= t /\ obs[e].slot = t
    BY <1>7, <1>8
  <2>2. t \in Nat /\ obs[j].slot \in Nat
    BY <1>4, <1>7, <2>1
  <2>3. CASE obs[j].slot = t
    BY <1>8, <2>1, <2>3
  <2>4. CASE obs[j].slot # t
    BY <2>1, <2>2, <2>4
  <2> QED BY <2>3, <2>4
<1>10. \E i \in I : \A j \in I : \/ obs[j].slot < obs[i].slot
                                 \/ obs[j].slot = obs[i].slot /\ j <= i
  BY <1>8, <1>9
<1> DEFINE last == max_by_slot(obs, I)
<1>11. /\ last \in I
       /\ \A j \in I : (obs[j].slot < obs[last].slot)
                        \/ (obs[j].slot = obs[last].slot /\ j <= last)
  BY <1>10 DEF max_by_slot
<1>12. \A j \in I : obs[j].slot \in Nat
  BY <1>1, <1>2
<1> HIDE DEF last
<1>13. last \in I /\ \A j \in I : obs[j].slot <= obs[last].slot
  BY <1>11, <1>12
<1> QED BY <1>13 DEF last

LEMMA RecordType ==
    ASSUME NEW obs \in [ObservationSlots -> Observation], NEW idx \in ObservationSlots,
           NEW m \in Nat, NEW now \in Nat
    PROVE  record_observation(obs, idx, m, now) \in [ObservationSlots -> Observation]
<1> DEFINE last == last_observation(obs)
           cum == IF Written(obs) = {} THEN 0 ELSE last.cumulative_mid + contribution(last, m, now)
           new == [slot |-> now, mid |-> m, cumulative_mid |-> cum]
<1>1. ASSUME Written(obs) # {} PROVE cum \in Nat
  <2>1. max_by_slot(obs, Written(obs)) \in ObservationSlots
    BY <1>1, LastObservation DEF Written
  <2>2. last \in Observation
    BY <2>1 DEF last_observation
  <2> HIDE DEF last
  <2>3. last.mid \in Nat /\ last.cumulative_mid \in Nat /\ Elapsed(last, now) \in Nat
    BY <2>2 DEF Observation, Elapsed
  <2>4. last.mid * Elapsed(last, now) \in Nat
    BY <2>3
  <2>5. contribution(last, m, now) \in Nat
    BY <2>4 DEF contribution
  <2> QED BY <1>1, <2>3, <2>5
<1>2. cum \in Nat
  BY <1>1
<1>3. record_observation(obs, idx, m, now) = [obs EXCEPT ![idx] = new]
  BY DEF record_observation
<1> HIDE DEF cum
<1>4. new \in Observation
  BY <1>2 DEF Observation
<1> HIDE DEF new
<1> QED BY <1>3, <1>4

-----------------------------------------------------------------------------
(* The specification *)

(* TypeOK is not inductive: that the best maker exists takes the numbers of   *)
(* the orders, and that what rests does not cross takes the book before it.   *)
IInv ==
    /\ slot \in 1..MAX_SLOT
    /\ book \in Settled
    /\ ring \in Rings
    /\ observations \in [ObservationSlots -> Observation]
    /\ twap_cursor \in ObservationSlots

LEMMA IInvImplies ==
    ASSUME IInv
    PROVE  TypeOK /\ BookUncrossed
<1> DEFINE n == book.next_seq
<1>1. /\ n \in Nat /\ book \in Books(n, n)
      /\ book \in [Bid : Lists, Ask : Lists, next_seq : Nat]
  BY DEF IInv, Settled
<1>2. \A side \in Sides : Len(book[side]) <= MAX_ORDERS_PER_SIDE
  BY <1>1, BookFacts DEF Good
<1>3. /\ events \in [RingSlots -> OutEvents \cup {Unwritten}]
      /\ event_read_cursor \in Nat /\ event_write_cursor \in Nat
      /\ event_read_cursor <= event_write_cursor
      /\ event_write_cursor - event_read_cursor <= EVENT_QUEUE_LEN
  BY DEF IInv, ring, Rings
<1>4. TypeOK
  <2>1. queued(ring) <= EVENT_QUEUE_LEN
    BY <1>3 DEF queued, ring
  <2>2. event_read_cursor \in 0..event_write_cursor
    BY <1>3
  <2>3. book \in [Bid : Seq(RestingOrder), Ask : Seq(RestingOrder), next_seq : Nat]
    <3>1. \A l \in Lists : l \in Seq(RestingOrder)
      BY LimitTypes, SeqMonotonic DEF Lists
    <3> QED BY <1>1, <3>1
  <2>4. events \in [RingSlots -> OutEvent \cup {Unwritten}]
    BY <1>3 DEF OutEvents
  <2> QED BY <1>2, <1>3, <2>1, <2>2, <2>3, <2>4 DEF TypeOK, IInv
<1>5. BookUncrossed
  <2>1. Uncrossed(book.Bid, book.Ask)
    BY <1>1 DEF Books
  <2>2. DOMAIN book.Bid = 1..Len(book.Bid) /\ DOMAIN book.Ask = 1..Len(book.Ask)
    BY <1>1, BookFacts DEF Sides
  <2>3. book["Bid"] = book.Bid /\ book["Ask"] = book.Ask
    OBVIOUS
  <2> QED BY <2>1, <2>2, <2>3 DEF BookUncrossed, OrdersOf, Uncrossed
<1> QED BY <1>4, <1>5

LEMMA InitInv == Init => IInv
<1> SUFFICES ASSUME Init PROVE IInv
  OBVIOUS
<1>1. slot \in 1..MAX_SLOT
  BY BookAssumption DEF Init
<1>2. book \in Settled
  <2>1. <<>> \in Lists /\ Len(<<>>) = 0
    BY EmptySeq DEF Lists
  <2>2. Good(<<>>, 0)
    BY <2>1, BookAssumption DEF Good
  <2>3. Uncrossed(<<>>, <<>>)
    BY <2>1 DEF Uncrossed
  <2> QED BY <2>1, <2>2, <2>3 DEF Init, Settled, Books
<1>3. ring \in Rings
  BY BookAssumption DEF Init, ring, Rings
<1>4. observations \in [ObservationSlots -> Observation]
  BY DEF Init, EmptyRing, Observation, NoMid
<1>5. twap_cursor \in ObservationSlots
  BY TwapAssumption DEF Init, ObservationSlots
<1> QED BY <1>1, <1>2, <1>3, <1>4, <1>5 DEF IInv

(* Every instruction ends in Save, SaveRing, or both. *)
LEMMA SaveKeeps ==
    ASSUME IInv, NEW b \in Settled, Save(b)
    PROVE  /\ book' \in Settled
           /\ observations' \in [ObservationSlots -> Observation]
           /\ twap_cursor' \in ObservationSlots
<1>1. book' \in Settled
  BY DEF Save
<1>2. mid(b) \in Nat
  BY MidType DEF Settled
<1>3. slot \in Nat
  BY DEF IInv
<1>4. observations' \in [ObservationSlots -> Observation]
  BY <1>2, <1>3, RecordType DEF Save, IInv
<1>5. twap_cursor' \in ObservationSlots
  <2>1. TWAP_OBSERVATIONS \in Nat \ {0} /\ twap_cursor \in Nat
    BY TwapAssumption DEF IInv, ObservationSlots
  <2> QED BY <2>1 DEF Save, ObservationSlots
<1> QED BY <1>1, <1>4, <1>5

LEMMA SaveRingKeeps ==
    ASSUME NEW r \in Rings, SaveRing(r)
    PROVE  ring' = r
  BY DEF SaveRing, ring, Rings

LEMMA Unsaved ==
    ASSUME IInv
    PROVE  /\ UNCHANGED ringVars => ring' \in Rings /\ Keeps(ring', ring)
           /\ UNCHANGED twapVars => observations' \in [ObservationSlots -> Observation]
                                    /\ twap_cursor' \in ObservationSlots
<1>1. ring \in Rings /\ Keeps(ring, ring)
  BY KeepsItself DEF IInv
<1>2. UNCHANGED ringVars => ring' = ring
  BY DEF ringVars, ring
<1> QED BY <1>1, <1>2 DEF twapVars, IInv

LEMMA OrderType ==
    ASSUME IInv, NEW q \in Requests
    PROVE  /\ Order(book, q) \in Taker /\ Order(book, q).seq = book.next_seq
           /\ book.next_seq \in Nat
           /\ book \in Books(book.next_seq, book.next_seq)
           /\ take_next_seq(book) \in Books(book.next_seq, book.next_seq + 1)
<1>1. book.next_seq \in Nat /\ book \in Books(book.next_seq, book.next_seq)
  BY DEF IInv, Settled
<1>2. q \in [owner : Owners, side : Sides, price : Nat, size : Nat \ {0}]
  BY BookAssumption
<1>3. Order(book, q) \in Taker /\ Order(book, q).seq = book.next_seq
  <2>1. q.price \in Limits
    BY DEF Limits
  <2>2. q.size \in Lots
    BY LotTypes
  <2> QED BY <1>1, <1>2, <2>1, <2>2 DEF Order, Taker
<1> QED BY <1>1, <1>3, NumberTaken

(* What every step keeps. *)
Step == IInv' /\ Keeps(ring', ring)

LEMMA RestStep ==
    ASSUME IInv, NEW q \in Requests, rest_order(Order(book, q))
    PROVE  Step
<1> DEFINE o == Order(book, q)
           n == book.next_seq
           b == take_next_seq(book)
<1>1. o \in Taker /\ o.seq = n /\ n \in Nat /\ book \in Books(n, n) /\ b \in Books(n, n + 1)
  BY OrderType
<1> HIDE DEF o
<1>2. /\ o.price # 0 /\ ~would_cross(book, o) /\ HasSpace(book, o.side)
      /\ Save(post_limit(b, o)) /\ UNCHANGED <<slot, ringVars>>
  BY DEF rest_order, o
<1>3. \A side \in Sides : b[side] = book[side]
  <2>1. book \in [Bid : Lists, Ask : Lists, next_seq : {n}]
    BY <1>1 DEF Books
  <2> QED BY <2>1 DEF take_next_seq, Sides
<1>4. o.side \in Sides /\ Opposite(o.side) \in Sides
  BY <1>1 DEF Taker, Opposite, Sides
<1>5. ~would_cross(b, o) /\ HasSpace(b, o.side)
  BY <1>2, <1>3, <1>4 DEF would_cross, HasSpace, best_price, PricesOf
<1> HIDE DEF b, n
<1>6. post_limit(b, o) \in Books(n + 1, n + 1)
  BY <1>1, <1>2, <1>5, PostType
<1>7. post_limit(b, o) \in Settled
  BY <1>1, <1>6, SettledBook
<1>8. slot' \in 1..MAX_SLOT
  BY <1>2 DEF IInv
<1> QED BY <1>2, <1>7, <1>8, SaveKeeps, Unsaved DEF Step, IInv

(* A saved book and a saved ring that keeps the old one are a step. *)
LEMMA SavedStep ==
    ASSUME IInv, NEW b \in Settled, NEW r \in Rings, Keeps(r, ring),
           Save(b), SaveRing(r), UNCHANGED slot
    PROVE  Step
<1>1. slot' \in 1..MAX_SLOT
  BY DEF IInv
<1> QED BY <1>1, SaveKeeps, SaveRingKeeps DEF Step, IInv

LEMMA LimitStep ==
    ASSUME IInv, NEW q \in Requests,
           \/ cross_limit(Order(book, q),
                          match_limit_taker(take_next_seq(book), ring, Order(book, q)))
           \/ cross_limit(Order(book, q),
                          match_open_taker(take_next_seq(book), ring, Order(book, q)))
    PROVE  Step
<1> DEFINE o == Order(book, q)
           n == book.next_seq
           b == take_next_seq(book)
<1>1. o \in Taker /\ o.seq = n /\ n \in Nat /\ b \in Books(n, n + 1)
  BY OrderType
<1>2. ring \in Rings
  BY DEF IInv
<1>3. o.price # 0
  BY DEF cross_limit
<1>4. PICK taken \in {match_limit_taker(b, ring, o), match_open_taker(b, ring, o)} :
        Save(taken.book) /\ SaveRing(taken.ring) /\ UNCHANGED slot
  BY DEF cross_limit
<1> HIDE DEF o, n, b
<1>5. taken.book \in Books(n + 1, n + 1) /\ taken.ring \in Rings /\ Keeps(taken.ring, ring)
  BY <1>1, <1>2, <1>3, <1>4, LimitTaken
<1>6. taken.book \in Settled
  BY <1>1, <1>5, SettledBook
<1> QED BY <1>4, <1>5, <1>6, SavedStep

LEMMA MarketStep ==
    ASSUME IInv, NEW q \in Requests, cross_market(Order(book, q))
    PROVE  Step
<1> DEFINE o == Order(book, q)
           n == book.next_seq
           b == take_next_seq(book)
           out == match_market(b, o)
           r == emit_fill_events(ring, out.fills, o)
<1>1. o \in Taker /\ n \in Nat /\ b \in Books(n, n + 1)
  BY OrderType
<1>2. ring \in Rings
  BY DEF IInv
<1>3. Save(out.book) /\ SaveRing(r) /\ UNCHANGED slot
  BY DEF cross_market, take_market
<1> HIDE DEF o, n, b
<1>4. out \in Outcomes(n, n + 1)
  BY <1>1, LimitMatched
<1> HIDE DEF out
<1>5. out.book \in Books(n, n + 1) /\ out.fills \in Seq(MakerFill)
  BY <1>1, <1>4, OutcomeFacts
<1>6. r \in Rings /\ Keeps(r, ring)
  BY <1>1, <1>2, <1>5, EmitType
<1>7. out.book \in Settled
  BY <1>1, <1>5, SettledBook
<1> QED BY <1>3, <1>6, <1>7, SavedStep

LEMMA CancelStep ==
    ASSUME IInv, NEW side \in Sides, NEW i, cancel_order(side, i)
    PROVE  Step
<1> DEFINE n == book.next_seq
           l == Remove(book[side], i)
           o == book[side][i]
           e == Event("Cancel", o.owner, Nobody, side, o.price, o.size)
<1>1. n \in Nat /\ book \in Books(n, n) /\ ring \in Rings
  BY DEF IInv, Settled
<1>2. /\ book \in [Bid : Lists, Ask : Lists, next_seq : {n}]
      /\ book[side] \in Lists /\ DOMAIN book[side] = 1..Len(book[side])
      /\ \A k \in 1..Len(book[side]) : book[side][k] \in LimitOrder
  BY <1>1, BookFacts DEF Good
<1>3. /\ i \in 1..Len(book[side])
      /\ Save([book EXCEPT ![side] = l])
      /\ SaveRing(append_event(ring, e)) /\ UNCHANGED slot
  BY <1>2 DEF cancel_order
<1>4. o \in LimitOrder
  BY <1>2, <1>3
<1>5. e \in OutEvents
  BY <1>4, LimitTypes DEF Event, OutEvents, OutEvent, LimitOrder
<1>6. append_event(ring, e) \in Rings /\ Keeps(append_event(ring, e), ring)
  BY <1>1, <1>5, AppendType
<1>7. l \in Lists /\ Len(l) <= Len(book[side]) /\ Thinned(l, book[side])
  BY <1>2, <1>3, RemoveThins
<1> HIDE DEF l, e, n
<1>8. [book EXCEPT ![side] = l] \in Books(n, n)
  BY <1>1, <1>7, ThinnedBook
<1>9. [book EXCEPT ![side] = l] \in Settled
  BY <1>1, <1>8, SettledBook
<1> QED BY <1>3, <1>6, <1>9, SavedStep

LEMMA CrankStep ==
    ASSUME IInv, crank
    PROVE  Step
<1> DEFINE out == drain_events
<1>1. book \in Settled /\ ring \in Rings
  BY DEF IInv
<1>2. out \in DrainStates(ring)
  BY <1>1, DrainType
<1>3. /\ SaveRing(out.ring) /\ UNCHANGED slot
      /\ IF out.dirty THEN Save(out.book) ELSE UNCHANGED <<book, twapVars>>
  BY DEF crank, SaveDrained
<1> HIDE DEF out
<1>4. out.book \in Settled /\ out.ring \in Rings /\ Keeps(out.ring, ring)
  BY <1>2 DEF DrainStates
<1>5. CASE out.dirty
  BY <1>3, <1>4, <1>5, SavedStep
<1>6. CASE ~out.dirty
  <2>1. slot' \in 1..MAX_SLOT /\ book' \in Settled
    BY <1>1, <1>3, <1>6 DEF IInv
  <2>2. ring' = out.ring
    BY <1>3, <1>4, SaveRingKeeps
  <2>3. UNCHANGED twapVars
    BY <1>3, <1>6
  <2> QED BY <1>4, <2>1, <2>2, <2>3, Unsaved DEF Step, IInv
<1> QED BY <1>5, <1>6

LEMMA NextStep ==
    ASSUME IInv, [Next]_vars
    PROVE  Step
<1>1. ASSUME NEW q \in Requests, place_limit_order(q) PROVE Step
  BY <1>1, RestStep, LimitStep DEF place_limit_order
<1>2. ASSUME NEW q \in Requests, place_market_order(q) \/ close_position(q) PROVE Step
  BY <1>2, MarketStep DEF place_market_order, close_position
<1>3. ASSUME NEW q \in Requests, open_position(q) PROVE Step
  BY <1>3, RestStep, LimitStep, MarketStep DEF open_position
<1>4. ASSUME NEW side \in Sides, NEW i \in 1..MAX_ORDERS_PER_SIDE, cancel_order(side, i)
      PROVE  Step
  BY <1>4, CancelStep
<1>5. CASE crank
  BY <1>5, CrankStep
<1>6. CASE tick
  <2>1. slot' \in 1..MAX_SLOT
    BY <1>6, BookAssumption DEF tick, IInv
  <2>2. UNCHANGED ringVars /\ UNCHANGED twapVars /\ book' = book
    BY <1>6 DEF tick
  <2> QED BY <2>1, <2>2, Unsaved DEF Step, IInv
<1>7. CASE UNCHANGED vars
  <2>1. UNCHANGED ringVars /\ UNCHANGED twapVars /\ book' = book /\ slot' = slot
    BY <1>7 DEF vars, ringVars, twapVars
  <2> QED BY <2>1, Unsaved DEF Step, IInv
<1> QED BY <1>1, <1>2, <1>3, <1>4, <1>5, <1>6, <1>7 DEF Next

LEMMA Inductive == Spec => []IInv
<1>1. IInv /\ [Next]_vars => IInv'
  BY NextStep DEF Step
<1> QED BY <1>1, InitInv, PTL DEF Spec

(* Every instruction, the crank included, leaves the book, the event ring and *)
(* the TWAP ring as their layouts say: no side beyond its capacity, no order  *)
(* without size or price, no more events waiting than the ring has slots.     *)
THEOREM BookTyped == Spec => []TypeOK
  BY Inductive, IInvImplies, PTL

(* The book is never crossed, not even by two orders of one owner, whatever   *)
(* the match budget defers and the crank resumes or rests.                    *)
THEOREM NeverCrossed == Spec => []BookUncrossed
  BY Inductive, IInvImplies, PTL

(* No instruction overwrites an event that the crank has not drained, however *)
(* many fills, cancellations and residuals compete for the ring, and neither  *)
(* cursor ever goes back.                                                     *)
THEOREM UndrainedStays == Spec => UndrainedKept
<1> DEFINE Kept ==
      /\ event_read_cursor <= event_read_cursor' /\ event_write_cursor <= event_write_cursor'
      /\ \A n \in event_read_cursor'..(event_write_cursor - 1) :
           events'[n % EVENT_QUEUE_LEN] = events[n % EVENT_QUEUE_LEN]
<1>1. ASSUME IInv, [Next]_vars PROVE Kept
  <2>1. Keeps(ring', ring)
    BY <1>1, NextStep DEF Step
  <2> QED BY <2>1 DEF Keeps, ring
<1>2. IInv /\ [Next]_vars => [Kept]_vars
  BY <1>1
<1> QED BY <1>2, Inductive, PTL DEF Spec, UndrainedKept
=============================================================================
