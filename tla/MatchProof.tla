----------------------------- MODULE MatchProof -----------------------------
(* What a match does, proved of every order, book and ring: price-time        *)
(* priority, no fill without its event, no unit filled twice.  Follows says   *)
(* it of any moment inside an instruction, compared with the state before the *)
(* instruction: a fill, a post, a Residual appended and an event drained each *)
(* keep it, so every match, every order and every crank does.                 *)
EXTENDS BookProof, FiniteSetTheorems

(* The crank stops before the residuals it has deferred itself: in the source *)
(* both constants are 8.  Were it to resume one of them, its new fills could  *)
(* overwrite those the same crank has already emitted and drained.            *)
BatchFits == CRANK_BATCH_LEN <= MAX_MATCH_STEPS + 1

-----------------------------------------------------------------------------
(* Totals over finite sets *)

(* A property of subsets that one has when it holds of every subset smaller   *)
(* by one element holds of all subsets of a finite set.                       *)
LEMMA AllSubsets ==
    ASSUME NEW D, IsFiniteSet(D), NEW T,
           \A s \in SUBSET D : (\A x \in s : s \ {x} \in T) => s \in T
    PROVE  SUBSET D \subseteq T
<1> DEFINE Bad == {s \in SUBSET D : s \notin T}
           N == {Cardinality(s) : s \in Bad}
<1>1. \A s \in SUBSET D : IsFiniteSet(s) /\ Cardinality(s) \in Nat
  BY FS_Subset, FS_CardinalityType
<1>2. CASE Bad = {}
  BY <1>2
<1>3. CASE Bad # {}
  <2>1. N \subseteq Nat
    BY <1>1
  <2>2. N # {}
    <3>1. PICK s \in Bad : TRUE
      BY <1>3
    <3>2. Cardinality(s) \in N
      BY <3>1
    <3> QED BY <3>2
  <2>3. PICK m \in N : \A k \in N : m <= k
    <3> HIDE DEF N
    <3> QED BY <2>1, <2>2, LeastNat
  <2>4. PICK s \in Bad : m = Cardinality(s)
    OBVIOUS
  <2>5. PICK x \in s : s \ {x} \notin T
    BY <2>4
  <2>6. s \ {x} \in Bad
    BY <2>5
  <2>7. Cardinality(s \ {x}) = Cardinality(s) - 1
    BY <1>1, <2>4, FS_RemoveElement
  <2>8. Cardinality(s \ {x}) \in N
    BY <2>6
  <2>9. m \in Nat /\ m <= m - 1
    <3> HIDE DEF N
    <3> QED BY <2>1, <2>3, <2>4, <2>7, <2>8
  <2> QED BY <2>9
<1> QED BY <1>2, <1>3

(* The order in which the community modules fold a set. *)
Pick(s) == CHOOSE x \in s : TRUE
SumTurn(f, it, s) == IF s = {} THEN 0 ELSE f[Pick(s)] + it[s \ {Pick(s)}]
(* it holds the totals of f over the subsets of its domain, as the folds of   *)
(* the community modules compute them. *)
Totals(f, it) == it = [s \in SUBSET DOMAIN f |-> SumTurn(f, it, s)]

(* Such an it exists: the total of any function on a finite set is defined.    *)
LEMMA TotalsExist ==
    ASSUME NEW D, IsFiniteSet(D), NEW f \in [D -> Int]
    PROVE  \E it : Totals(f, it) /\ \A s \in SUBSET D : it[s] \in Int
<1> DEFINE Level(m) == {s \in SUBSET D : Cardinality(s) <= m}
           Ex(m) == \E it \in [Level(m) -> Int] : \A s \in Level(m) : it[s] = SumTurn(f, it, s)
           Bad == {m \in 0..Cardinality(D) : ~Ex(m)}
<1>1. \A s \in SUBSET D : /\ IsFiniteSet(s) /\ Cardinality(s) \in Nat
                          /\ Cardinality(s) <= Cardinality(D)
                          /\ Cardinality(s) = 0 <=> s = {}
  BY FS_Subset, FS_CardinalityType, FS_EmptySet
<1>2. Cardinality(D) \in Nat
  BY FS_CardinalityType
<1>3. Ex(0)
  <2> DEFINE it == [s \in Level(0) |-> 0]
  <2>1. \A s \in Level(0) : s = {}
    BY <1>1
  <2>2. \A s \in Level(0) : it[s] = SumTurn(f, it, s)
    BY <2>1 DEF SumTurn
  <2>3. it \in [Level(0) -> Int]
    OBVIOUS
  <2> QED BY <2>2, <2>3
<1>4. ASSUME NEW m \in 1..Cardinality(D), Ex(m - 1) PROVE Ex(m)
  <2>1. PICK it \in [Level(m - 1) -> Int] : \A s \in Level(m - 1) : it[s] = SumTurn(f, it, s)
    BY <1>4
  <2> DEFINE jt == [s \in Level(m) |-> SumTurn(f, it, s)]
  <2>2. ASSUME NEW s \in Level(m), s # {}
        PROVE  Pick(s) \in s /\ s \ {Pick(s)} \in Level(m - 1)
    <3>1. Pick(s) \in s
      BY <2>2 DEF Pick
    <3>2. Cardinality(s \ {Pick(s)}) = Cardinality(s) - 1
      BY <1>1, <3>1, FS_RemoveElement
    <3>3. Cardinality(s) \in Nat /\ Cardinality(s) <= m
      BY <1>1
    <3>4. s \ {Pick(s)} \in SUBSET D /\ Cardinality(s \ {Pick(s)}) <= m - 1
      BY <3>2, <3>3
    <3> QED BY <3>1, <3>4
  <2>3. \A s \in Level(m - 1) : s \in Level(m)
    BY <1>1
  <2>4. ASSUME NEW s \in Level(m) PROVE SumTurn(f, it, s) \in Int
    <3>1. CASE s = {}
      BY <3>1 DEF SumTurn
    <3>2. CASE s # {}
      <4>1. Pick(s) \in D /\ s \ {Pick(s)} \in Level(m - 1)
        BY <2>2, <3>2
      <4>2. f[Pick(s)] \in Int /\ it[s \ {Pick(s)}] \in Int
        <5> HIDE DEF Level
        <5> QED BY <4>1
      <4> QED BY <3>2, <4>2 DEF SumTurn
    <3> QED BY <3>1, <3>2
  <2>5. jt \in [Level(m) -> Int]
    BY <2>4
  <2>6. \A s \in Level(m - 1) : jt[s] = it[s]
    BY <2>1, <2>3
  <2> HIDE DEF Level
  <2>7. ASSUME NEW s \in Level(m) PROVE jt[s] = SumTurn(f, jt, s)
    <3>1. jt[s] = SumTurn(f, it, s)
      OBVIOUS
    <3> HIDE DEF jt
    <3>2. s # {} => jt[s \ {Pick(s)}] = it[s \ {Pick(s)}]
      BY <2>2, <2>6
    <3> QED BY <3>1, <3>2 DEF SumTurn
  <2> QED BY <2>5, <2>7
<1>5. Bad = {}
  <2>1. SUFFICES ASSUME Bad # {} PROVE FALSE
    OBVIOUS
  <2>2. Bad \subseteq Nat
    OBVIOUS
  <2>3. PICK m \in Bad : \A k \in Bad : m <= k
    <3> HIDE DEF Bad
    <3> QED BY <2>1, <2>2, LeastNat
  <2>4. m \in 1..Cardinality(D)
    <3>1. m # 0
      BY <1>3, <2>3
    <3> QED BY <1>2, <2>3, <3>1
  <2>5. m - 1 \in 0..Cardinality(D) /\ ~(m <= m - 1)
    BY <1>2, <2>4
  <2>6. m - 1 \notin Bad
    <3> HIDE DEF Bad
    <3> QED BY <2>3, <2>5
  <2>7. Ex(m - 1)
    BY <2>5, <2>6
  <2>8. Ex(m)
    BY <1>4, <2>4, <2>7
  <2> QED BY <2>3, <2>8
<1>6. Ex(Cardinality(D))
  <2>1. Cardinality(D) \in 0..Cardinality(D)
    BY <1>2
  <2> QED BY <1>5, <2>1
<1>7. Level(Cardinality(D)) = SUBSET D
  BY <1>1
<1>8. DOMAIN f = D
  OBVIOUS
<1> HIDE DEF Level
<1>9. PICK it \in [Level(Cardinality(D)) -> Int] :
        \A s \in Level(Cardinality(D)) : it[s] = SumTurn(f, it, s)
  BY <1>6
<1>10. Totals(f, it)
  BY <1>7, <1>8, <1>9 DEF Totals
<1>11. \A s \in SUBSET D : it[s] \in Int
  BY <1>7, <1>9
<1> QED BY <1>10, <1>11

(* SumFunction is what it says of the whole domain. *)
LEMMA SumIs ==
    ASSUME NEW D, IsFiniteSet(D), NEW f \in [D -> Int]
    PROVE  \E it : /\ SumFunction(f) = it[D]
                   /\ \A s \in SUBSET D : it[s] = SumTurn(f, it, s) /\ it[s] \in Int
<1> DEFINE it == CHOOSE jt : Totals(f, jt)
<1>1. SumFunction(f) = it[DOMAIN f]
  BY DEF SumFunction, SumFunctionOnSet, FoldFunctionOnSet, MapThenFoldSet, Totals, SumTurn, Pick
<1>2. Totals(f, it)
  BY TotalsExist
<1>3. PICK kt : Totals(f, kt) /\ \A s \in SUBSET D : kt[s] \in Int
  BY TotalsExist
<1>4. DOMAIN f = D
  OBVIOUS
<1> HIDE DEF it
<1>5. \A s \in SUBSET D : it[s] = SumTurn(f, it, s)
  BY <1>2, <1>4 DEF Totals
<1>6. \A s \in SUBSET D : kt[s] = SumTurn(f, kt, s)
  BY <1>3, <1>4 DEF Totals
<1> DEFINE T == {s \in SUBSET D : it[s] = kt[s]}
<1>7. ASSUME NEW s \in SUBSET D, \A x \in s : s \ {x} \in T PROVE s \in T
  <2>1. s # {} => Pick(s) \in s
    BY DEF Pick
  <2>2. SumTurn(f, it, s) = SumTurn(f, kt, s)
    BY <1>7, <2>1 DEF SumTurn
  <2> QED BY <1>5, <1>6, <2>2
<1>8. SUBSET D \subseteq T
  <2>1. \A s \in SUBSET D : (\A x \in s : s \ {x} \in T) => s \in T
    BY <1>7
  <2> HIDE DEF T
  <2> QED BY <2>1, AllSubsets
<1>9. \A s \in SUBSET D : it[s] \in Int
  BY <1>3, <1>8
<1> QED BY <1>1, <1>4, <1>5, <1>9

(* Taking any one element out takes its value out of the total. *)
LEMMA SumWithout ==
    ASSUME NEW D, IsFiniteSet(D), NEW f \in [D -> Int]
    PROVE  /\ SumFunction(f) \in Int
           /\ D = {} => SumFunction(f) = 0
           /\ \A x \in D : SumFunction(f) = f[x] + SumFunction([y \in D \ {x} |-> f[y]])
<1>1. PICK it : /\ SumFunction(f) = it[D]
                /\ \A s \in SUBSET D : it[s] = SumTurn(f, it, s) /\ it[s] \in Int
  BY SumIs
<1>2. ASSUME NEW s \in SUBSET D, s # {}
      PROVE  Pick(s) \in s /\ it[s] = f[Pick(s)] + it[s \ {Pick(s)}]
  BY <1>1, <1>2 DEF SumTurn, Pick
<1> DEFINE T == {s \in SUBSET D : \A x \in s : it[s] = f[x] + it[s \ {x}]}
<1>3. ASSUME NEW s \in SUBSET D, \A x \in s : s \ {x} \in T PROVE s \in T
  <2> SUFFICES ASSUME NEW x \in s PROVE it[s] = f[x] + it[s \ {x}]
    OBVIOUS
  <2> DEFINE y == Pick(s)
  <2>1. y \in s /\ it[s] = f[y] + it[s \ {y}]
    BY <1>2
  <2> HIDE DEF y
  <2>2. CASE x = y
    BY <2>1, <2>2
  <2>3. CASE x # y
    <3>1. it[s \ {y}] = f[x] + it[(s \ {y}) \ {x}]
      BY <1>3, <2>1, <2>3
    <3>2. it[s \ {x}] = f[y] + it[(s \ {x}) \ {y}]
      BY <1>3, <2>1, <2>3
    <3>3. (s \ {x}) \ {y} = (s \ {y}) \ {x}
      OBVIOUS
    <3> DEFINE a == f[x]
               b == f[y]
               c == it[(s \ {y}) \ {x}]
    <3>4. a \in Int /\ b \in Int
      BY <2>1
    <3>5. c \in Int
      <4>1. (s \ {y}) \ {x} \in SUBSET D
        OBVIOUS
      <4> QED BY <1>1, <4>1
    <3>6. it[s] = b + (a + c)
      BY <2>1, <3>1
    <3>7. it[s \ {x}] = b + c
      BY <3>2, <3>3
    <3> HIDE DEF a, b, c
    <3>8. b + (a + c) = a + (b + c)
      BY <3>4, <3>5
    <3> QED BY <3>6, <3>7, <3>8 DEF a
  <2> QED BY <2>2, <2>3
<1>4. SUBSET D \subseteq T
  <2>1. \A s \in SUBSET D : (\A x \in s : s \ {x} \in T) => s \in T
    BY <1>3
  <2> HIDE DEF T
  <2> QED BY <2>1, AllSubsets
<1>5. it[D] \in Int /\ (D = {} => it[D] = 0)
  BY <1>1 DEF SumTurn
<1>6. ASSUME NEW x \in D PROVE it[D] = f[x] + SumFunction([y \in D \ {x} |-> f[y]])
  <2> DEFINE E == D \ {x}
             g == [y \in E |-> f[y]]
  <2>1. IsFiniteSet(E)
    BY FS_RemoveElement
  <2>2. g \in [E -> Int]
    OBVIOUS
  <2>3. PICK jt : /\ SumFunction(g) = jt[E]
                  /\ \A s \in SUBSET E : jt[s] = SumTurn(g, jt, s) /\ jt[s] \in Int
    <3> HIDE DEF E, g
    <3> QED BY <2>1, <2>2, SumIs
  <2> DEFINE U == {s \in SUBSET E : jt[s] = it[s]}
  <2>4. ASSUME NEW s \in SUBSET E, \A z \in s : s \ {z} \in U PROVE s \in U
    <3>1. s \in SUBSET D
      OBVIOUS
    <3>2. s # {} => Pick(s) \in s /\ g[Pick(s)] = f[Pick(s)]
      BY DEF Pick
    <3>3. SumTurn(g, jt, s) = SumTurn(f, it, s)
      BY <2>4, <3>2 DEF SumTurn
    <3> HIDE DEF E, g
    <3> QED BY <1>1, <2>3, <3>1, <3>3
  <2>5. SUBSET E \subseteq U
    <3>1. \A s \in SUBSET E : (\A z \in s : s \ {z} \in U) => s \in U
      BY <2>4
    <3> HIDE DEF U, E
    <3> QED BY <2>1, <3>1, AllSubsets
  <2>6. jt[E] = it[E]
    BY <2>5
  <2>7. it[D] = f[x] + it[E]
    BY <1>4
  <2> HIDE DEF E
  <2> QED BY <2>3, <2>6, <2>7 DEF E
<1> QED BY <1>1, <1>5, <1>6

(* Naturals add up to a natural, zeros to zero. *)
LEMMA SumStays ==
    ASSUME NEW D, IsFiniteSet(D), NEW C \in {Nat, {0}}, NEW f \in [D -> C]
    PROVE  SumFunction(f) \in C
<1>0. C \subseteq Int /\ 0 \in C /\ \A i, j \in C : i + j \in C
  OBVIOUS
<1> DEFINE part(s) == [y \in s |-> f[y]]
           T == {s \in SUBSET D : SumFunction(part(s)) \in C}
<1>1. ASSUME NEW s \in SUBSET D, \A x \in s : s \ {x} \in T PROVE s \in T
  <2>1. IsFiniteSet(s) /\ part(s) \in [s -> Int]
    BY <1>0, FS_Subset
  <2>2. CASE s = {}
    <3>1. SumFunction(part(s)) = 0
      <4> HIDE DEF part
      <4> QED BY <2>1, <2>2, SumWithout
    <3> QED BY <1>0, <3>1
  <2>3. CASE s # {}
    <3>1. PICK x \in s : TRUE
      BY <2>3
    <3>2. part(s)[x] = f[x] /\ f[x] \in C
      BY <3>1
    <3>3. [y \in s \ {x} |-> part(s)[y]] = part(s \ {x})
      OBVIOUS
    <3>4. SumFunction(part(s \ {x})) \in C
      BY <1>1, <3>1
    <3> DEFINE g == part(s)
    <3>6. g \in [s -> Int]
      BY <2>1
    <3>5. SumFunction(g) = g[x] + SumFunction([y \in s \ {x} |-> g[y]])
      <4> HIDE DEF g
      <4> QED BY <2>1, <3>1, <3>6, SumWithout
    <3> HIDE DEF part
    <3> QED BY <1>0, <3>2, <3>3, <3>4, <3>5
  <2> QED BY <2>2, <2>3
<1>2. SUBSET D \subseteq T
  <2>1. \A s \in SUBSET D : (\A x \in s : s \ {x} \in T) => s \in T
    BY <1>1
  <2> HIDE DEF T
  <2> QED BY <2>1, AllSubsets
<1>3. part(D) = f
  OBVIOUS
<1>4. D \in T
  <2> HIDE DEF T
  <2> QED BY <1>2
<1> HIDE DEF part
<1> QED BY <1>3, <1>4

LEMMA SumNat ==
    ASSUME NEW D, IsFiniteSet(D), NEW f \in [D -> Nat]
    PROVE  SumFunction(f) \in Nat
<1>1. Nat \in {Nat, {0}}
  OBVIOUS
<1> QED BY <1>1, SumStays

LEMMA SumZero ==
    ASSUME NEW D, IsFiniteSet(D), NEW f \in [D -> {0}]
    PROVE  SumFunction(f) = 0
<1> DEFINE C == {0}
<1>1. C \in {Nat, {0}} /\ f \in [D -> C]
  OBVIOUS
<1>2. SumFunction(f) \in C
  <2> HIDE DEF C
  <2> QED BY <1>1, SumStays
<1> QED BY <1>2

(* One more element adds its value. *)
LEMMA SumWith ==
    ASSUME NEW D, IsFiniteSet(D), NEW x, x \notin D, NEW f \in [D \cup {x} -> Int]
    PROVE  SumFunction(f) = f[x] + SumFunction([y \in D |-> f[y]])
<1> DEFINE E == D \cup {x}
<1>1. IsFiniteSet(E)
  BY FS_AddElement
<1>2. x \in E /\ E \ {x} = D /\ f \in [E -> Int]
  OBVIOUS
<1> HIDE DEF E
<1>3. SumFunction(f) = f[x] + SumFunction([y \in E \ {x} |-> f[y]])
  BY <1>1, <1>2, SumWithout
<1> QED BY <1>2, <1>3

(* Totals of two functions that differ in one element differ by as much. *)
LEMMA SumChanged ==
    ASSUME NEW D, IsFiniteSet(D), NEW f \in [D -> Int], NEW g \in [D -> Int],
           NEW x \in D, \A y \in D \ {x} : g[y] = f[y]
    PROVE  SumFunction(g) - SumFunction(f) = g[x] - f[x]
<1> DEFINE h == [y \in D \ {x} |-> f[y]]
<1>1. [y \in D \ {x} |-> g[y]] = h
  OBVIOUS
<1>2. IsFiniteSet(D \ {x}) /\ h \in [D \ {x} -> Int]
  BY FS_RemoveElement
<1>3. SumFunction(f) = f[x] + SumFunction(h) /\ SumFunction(g) = g[x] + SumFunction(h)
  BY <1>1, SumWithout
<1> HIDE DEF h
<1>4. SumFunction(h) \in Int
  BY <1>2, SumWithout
<1>5. f[x] \in Int /\ g[x] \in Int
  OBVIOUS
<1> QED BY <1>3, <1>4, <1>5

-----------------------------------------------------------------------------
(* Sizes *)

SizeOf(S) == SumFunction([o \in S |-> o.size])

LEMMA SizeFacts ==
    ASSUME NEW S, IsFiniteSet(S), \A o \in S : o.size \in Nat
    PROVE  /\ SizeOf(S) \in Nat
           /\ SizeOf({}) = 0
           /\ \A x \in S : SizeOf(S \ {x}) = SizeOf(S) - x.size
           /\ \A x : x \notin S /\ x.size \in Nat => SizeOf(S \cup {x}) = SizeOf(S) + x.size
<1> DEFINE f(T) == [o \in T |-> o.size]
<1>1. SizeOf(S) \in Nat
  <2>1. f(S) \in [S -> Nat]
    OBVIOUS
  <2> QED BY <2>1, SumNat DEF SizeOf
<1>2. SizeOf({}) = 0
  <2>1. f({}) \in [{} -> Int] /\ IsFiniteSet({})
    BY FS_EmptySet
  <2> HIDE DEF f
  <2>2. SumFunction(f({})) = 0
    BY <2>1, SumWithout
  <2> QED BY <2>2 DEF SizeOf, f
<1>3. ASSUME NEW x \in S PROVE SizeOf(S \ {x}) = SizeOf(S) - x.size
  <2>1. f(S) \in [S -> Int] /\ f(S)[x] = x.size
    OBVIOUS
  <2>2. [y \in S \ {x} |-> f(S)[y]] = f(S \ {x})
    OBVIOUS
  <2>3. IsFiniteSet(S \ {x}) /\ f(S \ {x}) \in [S \ {x} -> Int]
    BY FS_RemoveElement
  <2> HIDE DEF f
  <2>4. SumFunction(f(S)) = x.size + SumFunction(f(S \ {x}))
    BY <2>1, <2>2, SumWithout
  <2>5. SumFunction(f(S \ {x})) \in Int
    BY <2>3, SumWithout
  <2>6. x.size \in Int
    OBVIOUS
  <2> QED BY <2>4, <2>5, <2>6 DEF SizeOf, f
<1>4. ASSUME NEW x, x \notin S, x.size \in Nat
      PROVE  SizeOf(S \cup {x}) = SizeOf(S) + x.size
  <2> DEFINE g == f(S \cup {x})
  <2>1. g \in [S \cup {x} -> Int] /\ g[x] = x.size
    BY <1>4
  <2>2. [y \in S |-> g[y]] = f(S)
    OBVIOUS
  <2>3. SumFunction(g) = x.size + SumFunction(f(S))
    <3> HIDE DEF f, g
    <3> QED BY <1>4, <2>1, <2>2, SumWith
  <2> HIDE DEF f
  <2>4. SumFunction(f(S)) = SizeOf(S) /\ SumFunction(f(S \cup {x})) = SizeOf(S \cup {x})
    BY DEF SizeOf, f
  <2> QED BY <1>1, <1>4, <2>3, <2>4
<1> QED BY <1>1, <1>2, <1>3, <1>4

-----------------------------------------------------------------------------
(* Orders of a book *)

Items(l) == {l[i] : i \in 1..Len(l)}

(* The orders of a side are finitely many, each with a number of its own. *)
LEMMA OrderFacts ==
    ASSUME NEW n \in Nat, NEW next \in Nat, NEW b \in Books(n, next), NEW side \in Sides
    PROVE  /\ OrdersOf(b, side) = Items(b[side])
           /\ OrdersOf(b, side) \subseteq LimitOrder
           /\ IsFiniteSet(OrdersOf(b, side))
           /\ \A o \in OrdersOf(b, side) : /\ o.seq \in Nat /\ o.seq < n
                                           /\ o.price \in Nat /\ o.size \in Nat \ {0}
                                           /\ o.owner \in Owners
           /\ \A o, p \in OrdersOf(b, side) : o.seq = p.seq => o = p
<1> DEFINE l == b[side]
           k == Len(l)
           S == OrdersOf(b, side)
<1>1. k \in Nat /\ Good(l, n) /\ DOMAIN l = 1..k /\ \A i \in 1..k : l[i] \in LimitOrder
  BY BookFacts
<1>2. S = Items(l)
  BY <1>1 DEF OrdersOf, Items
<1>3. S \subseteq LimitOrder
  BY <1>1, <1>2 DEF Items
<1>4. IsFiniteSet(S)
  <2> DEFINE f == [i \in 1..k |-> l[i]]
  <2> HIDE DEF l, k
  <2>1. f \in Surjection(1..k, S)
    BY <1>2 DEF Surjection, Items, k
  <2>2. IsFiniteSet(1..k)
    BY <1>1, FS_Interval
  <2> HIDE DEF f, S
  <2> QED BY <2>1, <2>2, FS_Surjection
<1>5. \A o \in S : /\ o.seq \in Nat /\ o.seq < n /\ o.price \in Nat /\ o.size \in Nat \ {0}
                   /\ o.owner \in Owners
  BY <1>1, <1>2, <1>3, LimitTypes DEF Good, Items, LimitOrder
<1>6. \A o, p \in S : o.seq = p.seq => o = p
  BY <1>1, <1>2 DEF Good, Items
<1> QED BY <1>2, <1>3, <1>4, <1>5, <1>6

(* Removing an index removes its order and no other. *)
LEMMA RemovedItems ==
    ASSUME NEW n \in Nat, NEW l, Good(l, n), NEW i \in 1..Len(l)
    PROVE  Items(Remove(l, i)) = Items(l) \ {l[i]}
<1> DEFINE r == Remove(l, i)
<1>1. l \in Seq(LimitOrder) /\ Len(l) \in Nat
  BY DEF Good, Lists
<1>2. /\ Len(r) = Len(l) - 1
      /\ \A j \in 1..(Len(l) - 1) : r[j] = IF j < i THEN l[j] ELSE l[j + 1]
  BY <1>1, RemoveFacts
<1>3. \A j \in 1..Len(l) : j # i => l[j] # l[i]
  BY DEF Good
<1> HIDE DEF r
<1>4. ASSUME NEW x \in Items(r) PROVE x \in Items(l) \ {l[i]}
  <2>1. PICK j \in 1..(Len(l) - 1) : x = r[j]
    BY <1>2 DEF Items
  <2>2. PICK k \in 1..Len(l) : k # i /\ x = l[k]
    <3>1. j \in 1..Len(l) /\ j + 1 \in 1..Len(l)
      BY <1>1
    <3>2. CASE j < i
      BY <1>2, <2>1, <3>1, <3>2
    <3>3. CASE ~(j < i)
      <4>1. j + 1 # i
        BY <3>3
      <4> QED BY <1>2, <2>1, <3>1, <3>3, <4>1
    <3> QED BY <3>2, <3>3
  <2> QED BY <1>3, <2>2 DEF Items
<1>5. ASSUME NEW x \in Items(l) \ {l[i]} PROVE x \in Items(r)
  <2>1. PICK k \in 1..Len(l) : x = l[k] /\ k # i
    BY DEF Items
  <2>2. PICK j \in 1..(Len(l) - 1) : r[j] = x
    <3>1. CASE k < i
      <4>1. k \in 1..(Len(l) - 1)
        BY <1>1, <3>1
      <4> QED BY <1>2, <2>1, <3>1, <4>1
    <3>2. CASE k > i
      <4>1. k - 1 \in 1..(Len(l) - 1) /\ ~(k - 1 < i) /\ (k - 1) + 1 = k
        BY <1>1, <3>2
      <4> QED BY <1>2, <2>1, <4>1
    <3> QED BY <2>1, <3>1, <3>2
  <2> QED BY <1>2, <2>2 DEF Items
<1> QED BY <1>4, <1>5 DEF r

(* What is left of an order of which some is filled. *)
Rest(o, size) == IF size = o.size THEN {} ELSE {[o EXCEPT !.size = @ - size]}

LEMMA RestFacts ==
    ASSUME NEW o \in LimitOrder, NEW size \in Nat \ {0}, size <= o.size
    PROVE  \A e \in Rest(o, size) :
             /\ e \in LimitOrder /\ e.owner = o.owner /\ e.price = o.price /\ e.seq = o.seq
             /\ e.size = o.size - size /\ size # o.size /\ Rest(o, size) = {e}
<1>1. /\ o = [owner |-> o.owner, price |-> o.price, size |-> o.size, seq |-> o.seq]
      /\ o.owner \in Owners /\ o.price \in Limits \ {0} /\ o.size \in Lots /\ o.seq \in Nat
  BY DEF LimitOrder
<1>2. ASSUME NEW e \in Rest(o, size)
      PROVE  /\ e = [owner |-> o.owner, price |-> o.price, size |-> o.size - size, seq |-> o.seq]
             /\ size # o.size /\ Rest(o, size) = {e}
  <2>1. size # o.size /\ e = [o EXCEPT !.size = @ - size] /\ Rest(o, size) = {e}
    BY <1>2 DEF Rest
  <2> HIDE DEF Rest
  <2> QED BY <1>1, <2>1
<1>3. size # o.size => o.size - size \in Lots
  <2>1. o.size \in Nat
    BY <1>1, LotOrNone
  <2>2. size # o.size => o.size - size \in Nat \ {0} /\ o.size - size <= o.size
    BY <2>1
  <2> QED BY <1>1, <2>2, LotLess
<1> QED BY <1>1, <1>2, <1>3 DEF LimitOrder

(* A reduced order stays with what is left, in the same place. *)
LEMMA ReducedItems ==
    ASSUME NEW n \in Nat, NEW l, Good(l, n), NEW i \in 1..Len(l),
           NEW size \in Nat \ {0}, size <= l[i].size
    PROVE  Items(Reduce(l, i, size)) = (Items(l) \ {l[i]}) \cup Rest(l[i], size)
<1>1. CASE size = l[i].size
  BY <1>1, RemovedItems DEF Reduce, Rest
<1>2. CASE size # l[i].size
  <2> DEFINE e == [l[i] EXCEPT !.size = @ - size]
             r == [l EXCEPT ![i] = e]
  <2>1. l \in Seq(LimitOrder) /\ l[i] \in LimitOrder
    BY ElementOfSeq DEF Good, Lists
  <2>2. e \in LimitOrder
    BY <1>2, <2>1, RestFacts DEF Rest
  <2> HIDE DEF e
  <2>3. Len(r) = Len(l) /\ \A j \in 1..Len(l) : r[j] = IF j = i THEN e ELSE l[j]
    BY <2>1, <2>2, ExceptSeq
  <2>4. Reduce(l, i, size) = r
    BY <1>2 DEF Reduce, e
  <2>5. \A j \in 1..Len(l) : j # i => l[j] # l[i]
    BY DEF Good
  <2> HIDE DEF r
  <2>6. Items(r) = (Items(l) \ {l[i]}) \cup {e}
    BY <2>3, <2>5 DEF Items
  <2>7. Rest(l[i], size) = {e}
    BY <1>2 DEF Rest, e
  <2> QED BY <2>4, <2>6, <2>7
<1> QED BY <1>1, <1>2

-----------------------------------------------------------------------------
(* What is left of an order of an earlier book. *)
LeftIn(b, side, o) ==
    LET after == {p \in OrdersOf(b, side) : p.seq = o.seq}
    IN  IF after = {} THEN 0 ELSE (CHOOSE p \in after : TRUE).size
Gone(b, side, o) == \A p \in OrdersOf(b, side) : p.seq # o.seq

(* Numbers name orders: the one that has the number of o tells what is left of it. *)
LEMMA LeftFacts ==
    ASSUME NEW n \in Nat, NEW next \in Nat, NEW b \in Books(n, next), NEW side \in Sides, NEW o
    PROVE  /\ Gone(b, side, o) => LeftIn(b, side, o) = 0
           /\ \A p \in OrdersOf(b, side) : p.seq = o.seq => LeftIn(b, side, o) = p.size
           /\ LeftIn(b, side, o) \in Nat
<1> DEFINE after == {p \in OrdersOf(b, side) : p.seq = o.seq}
<1>1. Gone(b, side, o) => LeftIn(b, side, o) = 0
  BY DEF Gone, LeftIn
<1>2. ASSUME NEW p \in OrdersOf(b, side), p.seq = o.seq
      PROVE  LeftIn(b, side, o) = p.size
  <2>1. \A q \in after : q = p
    BY <1>2, OrderFacts
  <2>2. p \in after
    BY <1>2
  <2>3. (CHOOSE q \in after : TRUE) = p
    <3> HIDE DEF after
    <3> QED BY <2>1, <2>2
  <2>4. LeftIn(b, side, o) = IF after = {} THEN 0 ELSE (CHOOSE q \in after : TRUE).size
    BY DEF LeftIn
  <2> QED BY <2>2, <2>3, <2>4
<1>3. LeftIn(b, side, o) \in Nat
  <2>1. CASE Gone(b, side, o)
    BY <1>1, <2>1
  <2>2. CASE ~Gone(b, side, o)
    BY <1>2, <2>2, OrderFacts DEF Gone
  <2> QED BY <2>1, <2>2
<1> QED BY <1>1, <1>2, <1>3

-----------------------------------------------------------------------------
(* Events of a ring *)

(* The events of one kind from lo on, and what they are for together. *)
EventAt(r, n) == r.events[n % EVENT_QUEUE_LEN]
In(r, lo, K) == {n \in lo..(r.write - 1) : EventAt(r, n) \in K}
SumIn(r, lo, K) == SumFunction([n \in In(r, lo, K) |-> EventAt(r, n).size])

(* An appended event is the last, and those waiting stay. *)
LEMMA AppendFacts ==
    ASSUME NEW r \in Rings, NEW e \in OutEvents, HasRoom(r, 1)
    PROVE  LET t == append_event(r, e)
           IN  /\ t \in Rings /\ t.read = r.read /\ t.write = r.write + 1
               /\ EventAt(t, r.write) = e
               /\ \A n \in r.read..(r.write - 1) : EventAt(t, n) = EventAt(r, n)
<1> DEFINE t == append_event(r, e)
           L == EVENT_QUEUE_LEN
<1>1. t \in Rings /\ Keeps(t, r)
  BY AppendType
<1>2. /\ r \in [events : [RingSlots -> OutEvents \cup {Unwritten}], read : Nat, write : Nat]
      /\ r.read \in Nat /\ r.write \in Nat /\ r.write % L \in RingSlots
  BY RingFacts
<1>3. /\ t.events = [r.events EXCEPT ![r.write % L] = e]
      /\ t.read = r.read /\ t.write = r.write + 1
  BY <1>2 DEF append_event
<1> HIDE DEF t
<1>4. EventAt(t, r.write) = e
  BY <1>2, <1>3 DEF EventAt
<1>5. \A n \in r.read..(r.write - 1) : EventAt(t, n) = EventAt(r, n)
  BY <1>1, <1>3 DEF Keeps, EventAt
<1> QED BY <1>1, <1>3, <1>4, <1>5 DEF t

(* Their sizes add up. *)
LEMMA InFinite ==
    ASSUME NEW r \in Rings, NEW lo \in Nat, NEW K \in SUBSET OutEvents
    PROVE  /\ IsFiniteSet(In(r, lo, K))
           /\ \A n \in In(r, lo, K) : EventAt(r, n).size \in Nat
           /\ SumIn(r, lo, K) \in Nat
<1>1. r.write \in Nat
  BY RingFacts
<1>2. IsFiniteSet(lo..(r.write - 1))
  BY <1>1, FS_Interval
<1>3. IsFiniteSet(In(r, lo, K))
  BY <1>2, FS_Subset DEF In
<1>4. \A n \in In(r, lo, K) : EventAt(r, n).size \in Nat
  BY DEF In, OutEvents, OutEvent
<1> DEFINE f == [n \in In(r, lo, K) |-> EventAt(r, n).size]
<1>5. f \in [In(r, lo, K) -> Nat]
  BY <1>4
<1> HIDE DEF f
<1>6. SumFunction(f) \in Nat
  BY <1>3, <1>5, SumNat
<1> QED BY <1>3, <1>4, <1>6 DEF f, SumIn

(* The events of t from low on are those of r from lo on, and the one at x. *)
OneMore(t, low, r, lo, x) ==
    /\ \A n : n \in low..(t.write - 1) <=> n \in lo..(r.write - 1) \/ n = x
    /\ x \notin lo..(r.write - 1)
    /\ \A n \in lo..(r.write - 1) : EventAt(t, n) = EventAt(r, n)

(* One event more adds its size if it is of the kind. *)
LEMMA SumGrown ==
    ASSUME NEW r \in Rings, NEW t \in Rings, NEW lo \in Nat, NEW x \in Nat,
           NEW K \in SUBSET OutEvents, NEW low \in Nat,
           OneMore(t, low, r, lo, x)
    PROVE  SumIn(t, low, K) = SumIn(r, lo, K)
             + IF EventAt(t, x) \in K THEN EventAt(t, x).size ELSE 0
<1> DEFINE S == In(r, lo, K)
           f == [n \in S |-> EventAt(r, n).size]
           g == [n \in In(t, low, K) |-> EventAt(t, n).size]
<1>1. IsFiniteSet(S) /\ x \notin S /\ SumFunction(f) \in Nat
  BY InFinite DEF SumIn, In, OneMore
<1>2. CASE EventAt(t, x) \in K
  <2>1. In(t, low, K) = S \cup {x}
    BY <1>2 DEF In, OneMore
  <2>2. g \in [S \cup {x} -> Int] /\ g[x] = EventAt(t, x).size
    BY <2>1, InFinite
  <2>3. [n \in S |-> g[n]] = f
    BY <2>1 DEF In, OneMore
  <2>4. SumFunction(g) = g[x] + SumFunction(f)
    <3> HIDE DEF S, f, g
    <3> QED BY <1>1, <2>2, <2>3, SumWith
  <2>5. g[x] \in Int
    BY <2>2
  <2> HIDE DEF f
  <2>6. SumFunction(g) = SumFunction(f) + EventAt(t, x).size
    <3> HIDE DEF g
    <3> QED BY <1>1, <2>2, <2>4, <2>5
  <2> QED BY <1>2, <2>6 DEF SumIn, f
<1>3. CASE EventAt(t, x) \notin K
  <2>1. In(t, low, K) = S
    BY <1>3 DEF In, OneMore
  <2>2. g = f
    BY <2>1 DEF In, OneMore
  <2>3. SumIn(t, low, K) = SumIn(r, lo, K)
    BY <2>2 DEF SumIn
  <2> QED BY <1>1, <1>3, <2>3 DEF SumIn
<1> QED BY <1>2, <1>3

LEMMA AppendSum ==
    ASSUME NEW r \in Rings, NEW e \in OutEvents, HasRoom(r, 1), NEW K \in SUBSET OutEvents,
           NEW lo \in Nat, r.read <= lo, lo <= r.write
    PROVE  SumIn(append_event(r, e), lo, K) = SumIn(r, lo, K) + IF e \in K THEN e.size ELSE 0
<1> DEFINE t == append_event(r, e)
<1>1. /\ t \in Rings /\ t.write = r.write + 1 /\ EventAt(t, r.write) = e
      /\ \A n \in r.read..(r.write - 1) : EventAt(t, n) = EventAt(r, n)
  BY AppendFacts
<1> HIDE DEF t
<1>2. r.read \in Nat /\ r.write \in Nat
  BY RingFacts
<1>3. \A n : n \in lo..(t.write - 1) <=> n \in lo..(r.write - 1) \/ n = r.write
  BY <1>1, <1>2
<1>4. r.write \notin lo..(r.write - 1)
  BY <1>2
<1>5. \A n \in lo..(r.write - 1) : EventAt(t, n) = EventAt(r, n)
  BY <1>1, <1>2
<1>6. SumIn(t, lo, K) = SumIn(r, lo, K)
        + IF EventAt(t, r.write) \in K THEN EventAt(t, r.write).size ELSE 0
  <2>1. OneMore(t, lo, r, lo, r.write)
    BY <1>3, <1>4, <1>5 DEF OneMore
  <2> QED BY <1>1, <1>2, <2>1, SumGrown
<1> QED BY <1>1, <1>6 DEF t

LEMMA PopSum ==
    ASSUME NEW r \in Rings, r.read < r.write, NEW K \in SUBSET OutEvents
    PROVE  SumIn(r, r.read, K) = SumIn(r, r.read + 1, K)
             + IF EventAt(r, r.read) \in K THEN EventAt(r, r.read).size ELSE 0
<1>2. r.read \in Nat /\ r.write \in Nat
  BY RingFacts
<1>3. \A n : n \in r.read..(r.write - 1) <=> n \in (r.read + 1)..(r.write - 1) \/ n = r.read
  BY <1>2
<1>4. r.read \notin (r.read + 1)..(r.write - 1) /\ r.read + 1 \in Nat
  BY <1>2
<1>5. OneMore(r, r.read, r, r.read + 1, r.read)
  BY <1>3, <1>4 DEF OneMore
<1> QED BY <1>2, <1>4, <1>5, SumGrown

-----------------------------------------------------------------------------
(* What the steps of a match keep *)

(* Every order that is not new was in the earlier book, and was no smaller. *)
Descends(b, b0) ==
    \A side \in Sides : \A p \in OrdersOf(b, side) : p.seq < b0.next_seq =>
        \E o \in OrdersOf(b0, side) :
            o.seq = p.seq /\ o.owner = p.owner /\ o.price = p.price /\ p.size <= o.size

(* No order of b0 is gone while a better one, not of a taker, is still there. *)
TakersIn(r, lo, side) ==
    {EventAt(r, n).counterparty :
       n \in {m \in lo..(r.write - 1) : EventAt(r, m).kind = "Fill" /\ EventAt(r, m).side = side}}
Priority(b, r, b0, w0) ==
    \A side \in Sides : \A o, better \in OrdersOf(b0, side) :
        /\ o \notin OrdersOf(b, side)
        /\ better_maker(better, o, side)
        /\ better.owner \notin TakersIn(r, w0, side)
        => Gone(b, side, better)

(* What the orders of one owner at one price have lost since b0 is in fills. *)
FillsK(side, owner, price) ==
    {e \in OutEvents : e.kind = "Fill" /\ e.side = side /\ e.owner = owner /\ e.price = price}
Group(b0, side, owner, price) ==
    {o \in OrdersOf(b0, side) : o.owner = owner /\ o.price = price}
Lost(b, b0, side, owner, price) ==
    SumFunction([o \in Group(b0, side, owner, price) |-> o.size - LeftIn(b, side, o)])
Persisted(b, r, b0, w0) ==
    \A side \in Sides, owner \in Owners, price \in Nat :
        Lost(b, b0, side, owner, price) <= SumIn(r, w0, FillsK(side, owner, price))

(* What each trader has resting, waiting in the ring, traded since w0, and in  *)
(* the hand of its taker is no more than most.                                *)
ResidualsK(owner, side) ==
    {e \in OutEvents : e.kind = "Residual" /\ e.owner = owner /\ e.side = side}
TradesK(owner, side) ==
    {e \in OutEvents : /\ e.kind = "Fill"
                       /\ \/ e.owner = owner /\ e.side = side
                          \/ e.counterparty = owner /\ e.side = Opposite(side)}
OwnedBy(b, owner, side) == {o \in OrdersOf(b, side) : o.owner = owner}
RestingOf(b, owner, side) == SizeOf(OwnedBy(b, owner, side))
Held(taker, amount, owner, side) ==
    IF taker.owner = owner /\ taker.side = side THEN amount ELSE 0
Conserved(b, r, w0, most, taker, amount) ==
    \A owner \in Owners, side \in Sides :
        RestingOf(b, owner, side) + SumIn(r, r.read, ResidualsK(owner, side))
          + SumIn(r, w0, TradesK(owner, side)) + Held(taker, amount, owner, side)
          <= most[<<owner, side>>]

(* b1 is b after a fill of maker m by size *)
Filled(b1, b, side, m, size) ==
    /\ m \in OrdersOf(b, side)
    /\ OrdersOf(b1, side) = (OrdersOf(b, side) \ {m}) \cup Rest(m, size)
    /\ \A s \in Sides \ {side} : OrdersOf(b1, s) = OrdersOf(b, s)

(* Only orders of this owner, which its taker may not meet, are better than m. *)
BestFor(b, side, m, owner) ==
    \A p \in OrdersOf(b, side) : better_maker(p, m, side) => p.owner = owner

(* A fill only shrinks an order. *)
LEMMA FillDescends ==
    ASSUME NEW n \in Nat, NEW next \in Nat, NEW b \in Books(n, next), NEW b1 \in Books(n, next),
           NEW n0 \in Nat, NEW b0 \in Books(n0, n0),
           NEW side \in Sides, NEW m, NEW size \in Nat \ {0}, size <= m.size,
           Filled(b1, b, side, m, size), Descends(b, b0)
    PROVE  Descends(b1, b0)
<1> SUFFICES ASSUME NEW s \in Sides, NEW p \in OrdersOf(b1, s), p.seq < b0.next_seq
             PROVE  \E o \in OrdersOf(b0, s) : o.seq = p.seq /\ o.owner = p.owner
                                               /\ o.price = p.price /\ p.size <= o.size
  BY DEF Descends
<1>1. CASE p \in OrdersOf(b, s)
  BY <1>1 DEF Descends
<1>2. CASE p \notin OrdersOf(b, s)
  <2>1. s = side /\ p \in Rest(m, size) /\ m \in OrdersOf(b, side)
    BY <1>2 DEF Filled
  <2>2. m \in LimitOrder
    BY <2>1, OrderFacts
  <2>3. p.owner = m.owner /\ p.price = m.price /\ p.seq = m.seq /\ p.size = m.size - size
    BY <2>1, <2>2, RestFacts
  <2>4. PICK o \in OrdersOf(b0, s) : o.seq = m.seq /\ o.owner = m.owner
                                     /\ o.price = m.price /\ m.size <= o.size
    BY <2>1, <2>3 DEF Descends
  <2>5. o.size \in Nat /\ m.size \in Nat
    BY <2>1, <2>4, OrderFacts
  <2> QED BY <2>3, <2>4, <2>5
<1> QED BY <1>1, <1>2

(* A fill event adds its taker to those of the ring. *)
LEMMA TakersGrow ==
    ASSUME NEW r \in Rings, NEW e \in OutEvents, HasRoom(r, 1), NEW w0 \in Nat,
           r.read <= w0, w0 <= r.write
    PROVE  \A side : /\ TakersIn(r, w0, side) \subseteq TakersIn(append_event(r, e), w0, side)
                     /\ e.kind = "Fill" /\ e.side = side =>
                          e.counterparty \in TakersIn(append_event(r, e), w0, side)
<1> DEFINE t == append_event(r, e)
<1>1. /\ t.write = r.write + 1 /\ EventAt(t, r.write) = e
      /\ \A n \in r.read..(r.write - 1) : EventAt(t, n) = EventAt(r, n)
  BY AppendFacts
<1> HIDE DEF t
<1>2. r.read \in Nat /\ r.write \in Nat
  BY RingFacts
<1>3. /\ r.write \in w0..(t.write - 1)
      /\ \A n \in w0..(r.write - 1) : n \in w0..(t.write - 1) /\ EventAt(t, n) = EventAt(r, n)
  BY <1>1, <1>2
<1> TAKE side
<1>4. TakersIn(r, w0, side) \subseteq TakersIn(t, w0, side)
  BY <1>3 DEF TakersIn
<1>5. e.kind = "Fill" /\ e.side = side => e.counterparty \in TakersIn(t, w0, side)
  BY <1>1, <1>3 DEF TakersIn
<1> QED BY <1>4, <1>5 DEF t

(* The maker of a fill is the best but for the orders of its taker. *)
LEMMA FillPriority ==
    ASSUME NEW n \in Nat, NEW next \in Nat, NEW b \in Books(n, next), NEW b1 \in Books(n, next),
           NEW n0 \in Nat, NEW b0 \in Books(n0, n0),
           NEW side \in Sides, NEW m, NEW size \in Nat \ {0}, size <= m.size,
           Filled(b1, b, side, m, size), Descends(b, b0),
           NEW r \in Rings, NEW e \in OutEvents, HasRoom(r, 1), NEW w0 \in Nat,
           r.read <= w0, w0 <= r.write, e.kind = "Fill", e.side = side,
           BestFor(b, side, m, e.counterparty),
           Priority(b, r, b0, w0)
    PROVE  Priority(b1, append_event(r, e), b0, w0)
<1> DEFINE t == append_event(r, e)
<1>1. \A s : TakersIn(r, w0, s) \subseteq TakersIn(t, w0, s)
  BY TakersGrow
<1>2. e.counterparty \in TakersIn(t, w0, side)
  BY TakersGrow
<1> HIDE DEF t
<1> SUFFICES ASSUME NEW s \in Sides, NEW o \in OrdersOf(b0, s), NEW better \in OrdersOf(b0, s),
                    o \notin OrdersOf(b1, s), better_maker(better, o, s),
                    better.owner \notin TakersIn(t, w0, s),
                    NEW p \in OrdersOf(b1, s), p.seq = better.seq
             PROVE  FALSE
  BY DEF Priority, Gone, t
<1>3. b0.next_seq = n0 /\ better.seq < n0 /\ better.price \in Nat /\ better.seq \in Nat
  BY BookFacts, OrderFacts
<1>4. p.owner = better.owner /\ p.price = better.price
  <2>1. Descends(b1, b0)
    BY FillDescends
  <2>2. PICK q \in OrdersOf(b0, s) : q.seq = p.seq /\ q.owner = p.owner /\ q.price = p.price
    BY <1>3, <2>1 DEF Descends
  <2>3. q = better
    BY <2>2, OrderFacts
  <2> QED BY <2>2, <2>3
<1>5. m \in LimitOrder /\ m \in OrdersOf(b, side)
  BY OrderFacts DEF Filled
<1>6. CASE o \notin OrdersOf(b, s)
  <2>1. Gone(b, s, better)
    BY <1>1, <1>6 DEF Priority
  <2>2. p \notin OrdersOf(b, s)
    BY <2>1 DEF Gone
  <2>3. s = side /\ p \in Rest(m, size)
    BY <2>2 DEF Filled
  <2>4. p.seq = m.seq
    BY <1>5, <2>3, RestFacts
  <2> QED BY <1>5, <2>1, <2>3, <2>4 DEF Gone
<1>7. CASE o \in OrdersOf(b, s)
  <2>1. s = side /\ o = m
    BY <1>7 DEF Filled
  <2>2. CASE p \in OrdersOf(b, s)
    <3>1. better_maker(p, m, side)
      BY <1>4, <2>1 DEF better_maker
    <3>2. p.owner = e.counterparty
      BY <2>1, <2>2, <3>1 DEF BestFor
    <3> QED BY <1>2, <1>4, <2>1, <3>2
  <2>3. CASE p \notin OrdersOf(b, s)
    <3>1. p \in Rest(m, size)
      BY <2>1, <2>3 DEF Filled
    <3>2. p.seq = o.seq
      BY <1>5, <2>1, <3>1, RestFacts
    <3>3. better = o
      <4>1. \A x, y \in OrdersOf(b0, s) : x.seq = y.seq => x = y
        BY OrderFacts
      <4> QED BY <3>2, <4>1
    <3> QED BY <1>3, <3>3 DEF better_maker, price_better
  <2> QED BY <2>2, <2>3
<1> QED BY <1>6, <1>7

(* What is left of an order falls by the fill if it is the maker's. *)
LEMMA FillLeaves ==
    ASSUME NEW n \in Nat, NEW next \in Nat, NEW b \in Books(n, next), NEW b1 \in Books(n, next),
           NEW side \in Sides, NEW m, NEW size \in Nat \ {0}, size <= m.size,
           Filled(b1, b, side, m, size), NEW s \in Sides, NEW o
    PROVE  LeftIn(b1, s, o) =
             LeftIn(b, s, o) - IF s = side /\ o.seq = m.seq THEN size ELSE 0
<1>0. m \in LimitOrder /\ m \in OrdersOf(b, side) /\ m.size \in Nat
  BY OrderFacts DEF Filled
<1>1. CASE s = side /\ o.seq = m.seq
  <2>1. LeftIn(b, s, o) = m.size
    BY <1>0, <1>1, LeftFacts
  <2>2. CASE size = m.size
    <3>1. OrdersOf(b1, side) = OrdersOf(b, side) \ {m}
      BY <2>2 DEF Filled, Rest
    <3>2. \A p \in OrdersOf(b, side) : p.seq = m.seq => p = m
      BY <1>0, OrderFacts
    <3>3. Gone(b1, s, o)
      BY <1>1, <3>1, <3>2 DEF Gone
    <3>4. LeftIn(b1, s, o) = 0
      BY <3>3, LeftFacts
    <3> QED BY <1>0, <1>1, <2>1, <2>2, <3>4
  <2>3. CASE size # m.size
    <3>1. PICK e : e \in Rest(m, size)
      BY <2>3 DEF Rest
    <3>2. e.seq = m.seq /\ e.size = m.size - size /\ e \in OrdersOf(b1, side)
      BY <1>0, <3>1, RestFacts DEF Filled
    <3>3. LeftIn(b1, s, o) = m.size - size
      <4>1. \A p \in OrdersOf(b1, s) : p.seq = o.seq => LeftIn(b1, s, o) = p.size
        BY LeftFacts
      <4>2. e \in OrdersOf(b1, s) /\ e.seq = o.seq
        BY <1>1, <3>2
      <4> QED BY <3>2, <4>1, <4>2
    <3> QED BY <1>1, <2>1, <3>3
  <2> QED BY <2>2, <2>3
<1>2. CASE ~(s = side /\ o.seq = m.seq)
  <2>1. \A p : p.seq = o.seq => (p \in OrdersOf(b1, s) <=> p \in OrdersOf(b, s))
    <3>1. CASE s = side
      <4>1. \A p \in Rest(m, size) : p.seq # o.seq
        BY <1>0, <1>2, <3>1, RestFacts
      <4> QED BY <1>2, <3>1, <4>1 DEF Filled
    <3>2. CASE s # side
      BY <3>2 DEF Filled
    <3> QED BY <3>1, <3>2
  <2>2. LeftIn(b1, s, o) = LeftIn(b, s, o)
    <3>1. CASE Gone(b, s, o)
      <4>1. Gone(b1, s, o)
        BY <2>1, <3>1 DEF Gone
      <4> QED BY <3>1, <4>1, LeftFacts
    <3>2. CASE ~Gone(b, s, o)
      <4>1. PICK p \in OrdersOf(b, s) : p.seq = o.seq
        BY <3>2 DEF Gone
      <4>2. p \in OrdersOf(b1, s)
        BY <2>1, <4>1
      <4> QED BY <4>1, <4>2, LeftFacts
    <3> QED BY <3>1, <3>2
  <2>3. LeftIn(b, s, o) \in Nat
    BY LeftFacts
  <2> QED BY <1>2, <2>2, <2>3
<1> QED BY <1>1, <1>2

LEMMA LostFacts ==
    ASSUME NEW n \in Nat, NEW next \in Nat, NEW b \in Books(n, next),
           NEW n0 \in Nat, NEW b0 \in Books(n0, n0), NEW s \in Sides, NEW owner, NEW price
    PROVE  /\ IsFiniteSet(Group(b0, s, owner, price))
           /\ [o \in Group(b0, s, owner, price) |-> o.size - LeftIn(b, s, o)]
                \in [Group(b0, s, owner, price) -> Int]
           /\ Lost(b, b0, s, owner, price) \in Int
<1> DEFINE G == Group(b0, s, owner, price)
           f == [o \in G |-> o.size - LeftIn(b, s, o)]
<1>1. IsFiniteSet(OrdersOf(b0, s)) /\ G \in SUBSET OrdersOf(b0, s)
  BY OrderFacts DEF Group
<1>2. IsFiniteSet(G)
  <2> HIDE DEF G
  <2> QED BY <1>1, FS_Subset
<1>3. \A o \in G : o.size \in Nat /\ LeftIn(b, s, o) \in Nat
  BY <1>1, OrderFacts, LeftFacts
<1>4. f \in [G -> Int]
  BY <1>3
<1>5. SumFunction(f) \in Int
  <2> HIDE DEF f, G
  <2> QED BY <1>2, <1>4, SumWithout
<1> QED BY <1>2, <1>4, <1>5 DEF Lost

(* What the fill takes from its maker is in its event. *)
LEMMA FillPersists ==
    ASSUME NEW n \in Nat, NEW next \in Nat, NEW b \in Books(n, next), NEW b1 \in Books(n, next),
           NEW n0 \in Nat, NEW b0 \in Books(n0, n0),
           NEW side \in Sides, NEW m, NEW size \in Nat \ {0}, size <= m.size,
           Filled(b1, b, side, m, size), Descends(b, b0),
           NEW r \in Rings, NEW e \in OutEvents, HasRoom(r, 1), NEW w0 \in Nat,
           r.read <= w0, w0 <= r.write,
           e.kind = "Fill", e.side = side, e.owner = m.owner, e.price = m.price, e.size = size,
           Persisted(b, r, b0, w0)
    PROVE  Persisted(b1, append_event(r, e), b0, w0)
<1> SUFFICES ASSUME NEW s \in Sides, NEW owner \in Owners, NEW price \in Nat
             PROVE  Lost(b1, b0, s, owner, price)
                      <= SumIn(append_event(r, e), w0, FillsK(s, owner, price))
  BY DEF Persisted
<1> DEFINE G == Group(b0, s, owner, price)
           f == [o \in G |-> o.size - LeftIn(b, s, o)]
           g == [o \in G |-> o.size - LeftIn(b1, s, o)]
           K == FillsK(s, owner, price)
           mine == s = side /\ owner = m.owner /\ price = m.price
<1>1. Lost(b, b0, s, owner, price) <= SumIn(r, w0, K)
  BY DEF Persisted
<1>2. /\ SumIn(append_event(r, e), w0, K) = SumIn(r, w0, K) + (IF e \in K THEN e.size ELSE 0)
      /\ SumIn(r, w0, K) \in Nat
  <2>1. K \in SUBSET OutEvents
    BY DEF FillsK
  <2> HIDE DEF K
  <2> QED BY <2>1, AppendSum, InFinite
<1>3. e \in K <=> mine
  BY DEF FillsK
<1>4. IsFiniteSet(G) /\ f \in [G -> Int] /\ g \in [G -> Int]
      /\ SumFunction(f) \in Int /\ SumFunction(g) \in Int
  BY LostFacts DEF Lost
<1>5. /\ Lost(b, b0, s, owner, price) = SumFunction(f)
      /\ Lost(b1, b0, s, owner, price) = SumFunction(g)
  BY DEF Lost
<1>6. \A o \in G : LeftIn(b1, s, o) = LeftIn(b, s, o)
                     - IF s = side /\ o.seq = m.seq THEN size ELSE 0
  BY FillLeaves
<1>7. \A o \in G : o.size \in Nat /\ LeftIn(b, s, o) \in Nat /\ o \in OrdersOf(b0, s)
  BY OrderFacts, LeftFacts DEF Group
<1>8. SumFunction(g) <= SumFunction(f) + (IF mine THEN size ELSE 0)
  <2>1. CASE \E x \in G : s = side /\ x.seq = m.seq
    <3>1. PICK x \in G : s = side /\ x.seq = m.seq
      BY <2>1
    <3>2. mine
      <4>1. x.seq < b0.next_seq /\ m \in OrdersOf(b, side)
        BY <1>7, <3>1, BookFacts, OrderFacts DEF Filled
      <4>2. PICK q \in OrdersOf(b0, s) : q.seq = m.seq /\ q.owner = m.owner /\ q.price = m.price
        BY <3>1, <4>1 DEF Descends
      <4>3. q = x
        <5>1. \A y, z \in OrdersOf(b0, s) : y.seq = z.seq => y = z
          BY OrderFacts
        <5> QED BY <1>7, <3>1, <4>2, <5>1
      <4> QED BY <3>1, <4>2, <4>3 DEF Group
    <3>3. \A y \in G \ {x} : g[y] = f[y]
      <4>1. \A y, z \in OrdersOf(b0, s) : y.seq = z.seq => y = z
        BY OrderFacts
      <4>2. \A y \in G \ {x} : y.seq # m.seq
        BY <1>7, <3>1, <4>1
      <4> QED BY <1>6, <1>7, <4>2
    <3>4. g[x] - f[x] = size
      BY <1>6, <1>7, <3>1
    <3> HIDE DEF f, g, G, mine
    <3>5. SumFunction(g) - SumFunction(f) = g[x] - f[x]
      BY <1>4, <3>3, SumChanged
    <3> QED BY <1>4, <3>2, <3>4, <3>5
  <2>2. CASE ~\E x \in G : s = side /\ x.seq = m.seq
    <3>1. g = f
      BY <1>6, <1>7, <2>2
    <3> HIDE DEF f, g
    <3> QED BY <1>4, <3>1
  <2> QED BY <2>1, <2>2
<1> HIDE DEF f, g, G, K, mine
<1> QED BY <1>1, <1>2, <1>3, <1>4, <1>5, <1>8 DEF K

(* What an owner has resting on a side is a natural number. *)
LEMMA RestingFacts ==
    ASSUME NEW n \in Nat, NEW next \in Nat, NEW b \in Books(n, next), NEW s \in Sides, NEW owner
    PROVE  /\ IsFiniteSet(OwnedBy(b, owner, s))
           /\ \A o \in OwnedBy(b, owner, s) : o.size \in Nat
           /\ RestingOf(b, owner, s) = SizeOf(OwnedBy(b, owner, s))
           /\ RestingOf(b, owner, s) \in Nat
<1> DEFINE S == OwnedBy(b, owner, s)
<1>1. IsFiniteSet(OrdersOf(b, s)) /\ S \in SUBSET OrdersOf(b, s)
  BY OrderFacts DEF OwnedBy
<1>2. \A o \in S : o.size \in Nat
  BY OrderFacts DEF OwnedBy
<1>3. RestingOf(b, owner, s) = SizeOf(S)
  BY DEF RestingOf
<1> HIDE DEF S
<1>4. IsFiniteSet(S)
  BY <1>1, FS_Subset
<1>5. SizeOf(S) \in Nat
  BY <1>2, <1>4, SizeFacts
<1> QED BY <1>2, <1>3, <1>4, <1>5 DEF S

(* A fill takes its size from the side and the owner of its maker. *)
LEMMA FillRests ==
    ASSUME NEW n \in Nat, NEW next \in Nat, NEW b \in Books(n, next), NEW b1 \in Books(n, next),
           NEW side \in Sides, NEW m, NEW size \in Nat \ {0}, size <= m.size,
           Filled(b1, b, side, m, size), NEW s \in Sides, NEW owner
    PROVE  RestingOf(b1, owner, s) = RestingOf(b, owner, s)
             - IF s = side /\ owner = m.owner THEN size ELSE 0
<1> DEFINE S == OwnedBy(b, owner, s)
           T == OwnedBy(b1, owner, s)
<1>1. /\ IsFiniteSet(S) /\ \A o \in S : o.size \in Nat
      /\ RestingOf(b, owner, s) = SizeOf(S) /\ RestingOf(b, owner, s) \in Nat
      /\ RestingOf(b1, owner, s) = SizeOf(T)
  BY RestingFacts
<1>2. m \in LimitOrder /\ m \in OrdersOf(b, side) /\ m.size \in Nat
  BY OrderFacts DEF Filled
<1>3. CASE s = side /\ owner = m.owner
  <2>1. m \in S /\ T = (S \ {m}) \cup Rest(m, size)
    <3>1. \A p \in Rest(m, size) : p.owner = m.owner
      BY <1>2, RestFacts
    <3> QED BY <1>2, <1>3, <3>1 DEF Filled, OwnedBy
  <2>2. SizeOf(S \ {m}) = SizeOf(S) - m.size
    <3> HIDE DEF S
    <3> QED BY <1>1, <2>1, SizeFacts
  <2>3. CASE size = m.size
    <3>1. T = S \ {m}
      BY <2>1, <2>3 DEF Rest
    <3> HIDE DEF S, T
    <3> QED BY <1>1, <1>3, <2>2, <2>3, <3>1
  <2>4. CASE size # m.size
    <3>1. PICK x : x \in Rest(m, size)
      BY <2>4 DEF Rest
    <3>2. /\ x.seq = m.seq /\ x.size = m.size - size /\ x.size \in Nat
          /\ Rest(m, size) = {x}
      BY <1>2, <3>1, RestFacts DEF LimitOrder
    <3>3. x \notin S \ {m}
      BY <1>2, <1>3, <3>2, OrderFacts DEF OwnedBy
    <3>4. IsFiniteSet(S \ {m}) /\ \A o \in S \ {m} : o.size \in Nat
      <4> HIDE DEF S
      <4> QED BY <1>1, FS_RemoveElement
    <3>5. SizeOf((S \ {m}) \cup {x}) = SizeOf(S \ {m}) + x.size
      <4> DEFINE U == S \ {m}
      <4>1. IsFiniteSet(U) /\ x \notin U /\ \A o \in U : o.size \in Nat
        BY <3>3, <3>4
      <4>2. SizeOf(U \cup {x}) = SizeOf(U) + x.size
        <5> HIDE DEF U
        <5> QED BY <3>2, <4>1, SizeFacts
      <4> QED BY <4>2
    <3> HIDE DEF S, T
    <3>6. SizeOf(T) = (SizeOf(S) - m.size) + (m.size - size)
      BY <2>1, <2>2, <3>2, <3>5
    <3> QED BY <1>1, <1>2, <1>3, <3>6
  <2> QED BY <2>3, <2>4
<1>4. CASE ~(s = side /\ owner = m.owner)
  <2>1. T = S
    <3>1. \A p \in Rest(m, size) : p.owner = m.owner
      BY <1>2, RestFacts
    <3> QED BY <1>2, <1>4, <3>1 DEF Filled, OwnedBy
  <2> HIDE DEF S, T
  <2> QED BY <1>1, <1>4, <2>1
<1> QED BY <1>3, <1>4

(* A fill moves as much from maker and taker as its event says. *)
LEMMA FillConserves ==
    ASSUME NEW n \in Nat, NEW next \in Nat, NEW b \in Books(n, next), NEW b1 \in Books(n, next),
           NEW side \in Sides, NEW m, NEW size \in Nat \ {0}, size <= m.size,
           Filled(b1, b, side, m, size),
           NEW r \in Rings, NEW e \in OutEvents, HasRoom(r, 1), NEW w0 \in Nat,
           r.read <= w0, w0 <= r.write,
           NEW taker \in Taker, NEW amount \in Nat, size <= amount, side = Opposite(taker.side),
           e.kind = "Fill", e.side = side, e.owner = m.owner, e.counterparty = taker.owner,
           e.size = size, NEW most,
           Conserved(b, r, w0, most, taker, amount)
    PROVE  Conserved(b1, append_event(r, e), w0, most, taker, amount - size)
<1> DEFINE t == append_event(r, e)
<1> SUFFICES ASSUME NEW owner \in Owners, NEW s \in Sides
             PROVE  RestingOf(b1, owner, s) + SumIn(t, t.read, ResidualsK(owner, s))
                      + SumIn(t, w0, TradesK(owner, s)) + Held(taker, amount - size, owner, s)
                      <= most[<<owner, s>>]
  BY DEF Conserved
<1> DEFINE maker == s = side /\ owner = m.owner
           taking == s = taker.side /\ owner = taker.owner
           R == RestingOf(b, owner, s)
           D == SumIn(r, r.read, ResidualsK(owner, s))
           V == SumIn(r, w0, TradesK(owner, s))
<1>1. R + D + V + Held(taker, amount, owner, s) <= most[<<owner, s>>]
  BY DEF Conserved
<1>2. R \in Nat /\ RestingOf(b1, owner, s) = R - (IF maker THEN size ELSE 0)
  <2>1. R \in Nat
    BY RestingFacts
  <2>2. RestingOf(b1, owner, s) = R - IF maker THEN size ELSE 0
    BY FillRests
  <2> QED BY <2>1, <2>2
<1>3. r.read \in Nat /\ r.write \in Nat /\ r.read <= r.write /\ t.read = r.read
  BY RingFacts, AppendFacts
<1>4. D \in Nat /\ SumIn(t, t.read, ResidualsK(owner, s)) = D
  <2>1. ResidualsK(owner, s) \in SUBSET OutEvents /\ e \notin ResidualsK(owner, s)
    BY DEF ResidualsK
  <2>2. SumIn(t, r.read, ResidualsK(owner, s)) = D + 0 /\ D \in Nat
    BY <1>3, <2>1, AppendSum, InFinite
  <2> QED BY <1>3, <2>2
<1>5. V \in Nat /\ SumIn(t, w0, TradesK(owner, s)) = V + (IF maker \/ taking THEN size ELSE 0)
  <2>1. TradesK(owner, s) \in SUBSET OutEvents
    BY DEF TradesK
  <2>2. e \in TradesK(owner, s) <=> maker \/ taking
    BY DEF TradesK, Taker, Sides, Opposite
  <2>3. SumIn(t, w0, TradesK(owner, s)) =
          V + (IF e \in TradesK(owner, s) THEN e.size ELSE 0) /\ V \in Nat
    BY <1>3, <2>1, AppendSum, InFinite
  <2> QED BY <2>2, <2>3
<1>6. ~(maker /\ taking)
  BY DEF Taker, Sides, Opposite
<1>7. /\ Held(taker, amount, owner, s) = IF taking THEN amount ELSE 0
      /\ Held(taker, amount - size, owner, s) = IF taking THEN amount - size ELSE 0
  BY DEF Held
<1> HIDE DEF t, maker, taking, R, D, V
<1> DEFINE x == IF maker THEN size ELSE 0
           y == IF taking THEN size ELSE 0
           h == Held(taker, amount, owner, s)
<1>8. x \in Nat /\ y \in Nat /\ h \in Nat
  BY <1>7
<1>9. (IF maker \/ taking THEN size ELSE 0) = x + y /\ Held(taker, amount - size, owner, s) = h - y
  BY <1>6, <1>7
<1> HIDE DEF x, y, h
<1>10. (R - x) + D + (V + (x + y)) + (h - y) = R + D + V + h
  BY <1>2, <1>4, <1>5, <1>8
<1>11. /\ RestingOf(b1, owner, s) = R - x /\ SumIn(t, t.read, ResidualsK(owner, s)) = D
       /\ SumIn(t, w0, TradesK(owner, s)) = V + (x + y)
       /\ Held(taker, amount - size, owner, s) = h - y
  BY <1>2, <1>4, <1>5, <1>9 DEF x
<1> QED BY <1>1, <1>10, <1>11 DEF h

-----------------------------------------------------------------------------
(* A book and a ring that follow from those before the step *)

(* The book b and the ring r follow from the book b0 and the events before w0. *)
Follows(b, r, b0, w0, most, taker, amount) ==
    /\ Descends(b, b0)
    /\ Priority(b, r, b0, w0)
    /\ Persisted(b, r, b0, w0)
    /\ Conserved(b, r, w0, most, taker, amount)

(* A fill of the best maker the taker may meet, and its event. *)
LEMMA FillFollows ==
    ASSUME NEW n \in Nat, NEW next \in Nat, NEW b \in Books(n, next), NEW b1 \in Books(n, next),
           NEW n0 \in Nat, NEW b0 \in Books(n0, n0),
           NEW side \in Sides, NEW m, NEW size \in Nat \ {0}, size <= m.size,
           Filled(b1, b, side, m, size),
           NEW r \in Rings, NEW e \in OutEvents, HasRoom(r, 1), NEW w0 \in Nat,
           r.read <= w0, w0 <= r.write,
           NEW taker \in Taker, NEW amount \in Nat, size <= amount, side = Opposite(taker.side),
           e.kind = "Fill", e.side = side, e.owner = m.owner, e.counterparty = taker.owner,
           e.price = m.price, e.size = size, NEW most,
           BestFor(b, side, m, taker.owner),
           Follows(b, r, b0, w0, most, taker, amount)
    PROVE  Follows(b1, append_event(r, e), b0, w0, most, taker, amount - size)
<1>1. Descends(b1, b0)
  BY FillDescends DEF Follows
<1>2. Priority(b1, append_event(r, e), b0, w0)
  BY FillPriority DEF Follows
<1>3. Persisted(b1, append_event(r, e), b0, w0)
  BY FillPersists DEF Follows
<1>4. Conserved(b1, append_event(r, e), w0, most, taker, amount - size)
  BY FillConserves DEF Follows
<1> QED BY <1>1, <1>2, <1>3, <1>4 DEF Follows

LEMMA SumsOf ==
    ASSUME NEW r \in Rings, NEW w0 \in Nat, NEW owner, NEW side
    PROVE  /\ SumIn(r, r.read, ResidualsK(owner, side)) \in Nat
           /\ SumIn(r, w0, TradesK(owner, side)) \in Nat
           /\ ResidualsK(owner, side) \in SUBSET OutEvents
           /\ TradesK(owner, side) \in SUBSET OutEvents
<1>1. /\ ResidualsK(owner, side) \in SUBSET OutEvents
      /\ TradesK(owner, side) \in SUBSET OutEvents
  BY DEF ResidualsK, TradesK
<1>2. r.read \in Nat
  BY RingFacts
<1> QED BY <1>1, <1>2, InFinite

(* What is not held any more may be dropped. *)
LEMMA DropFollows ==
    ASSUME NEW n \in Nat, NEW next \in Nat, NEW b \in Books(n, next), NEW r \in Rings,
           NEW b0, NEW w0 \in Nat, NEW most \in [Owners \X Sides -> Nat],
           NEW taker, NEW amount \in Nat, Follows(b, r, b0, w0, most, taker, amount)
    PROVE  Follows(b, r, b0, w0, most, taker, 0)
<1> SUFFICES Conserved(b, r, w0, most, taker, 0)
  BY DEF Follows
<1> SUFFICES ASSUME NEW owner \in Owners, NEW s \in Sides
             PROVE  RestingOf(b, owner, s) + SumIn(r, r.read, ResidualsK(owner, s))
                      + SumIn(r, w0, TradesK(owner, s)) + Held(taker, 0, owner, s)
                      <= most[<<owner, s>>]
  BY DEF Conserved
<1> DEFINE A == RestingOf(b, owner, s) + SumIn(r, r.read, ResidualsK(owner, s))
                  + SumIn(r, w0, TradesK(owner, s))
<1>1. A + Held(taker, amount, owner, s) <= most[<<owner, s>>]
  BY DEF Follows, Conserved
<1>2. A \in Nat
  BY RestingFacts, SumsOf
<1>3. Held(taker, 0, owner, s) <= Held(taker, amount, owner, s)
      /\ Held(taker, 0, owner, s) \in Nat /\ Held(taker, amount, owner, s) \in Nat
  BY DEF Held
<1> HIDE DEF A
<1>4. A + Held(taker, 0, owner, s) <= A + Held(taker, amount, owner, s)
  BY <1>2, <1>3
<1>5. A + Held(taker, 0, owner, s) <= most[<<owner, s>>]
  <2>1. most[<<owner, s>>] \in Nat
    OBVIOUS
  <2> QED BY <1>1, <1>2, <1>3, <1>4, <2>1
<1> QED BY <1>5 DEF A

(* The number of the next order says nothing about those there are. *)
LEMMA SameOrdersFollow ==
    ASSUME NEW b, NEW b1, \A side \in Sides : OrdersOf(b1, side) = OrdersOf(b, side),
           NEW r, NEW b0, NEW w0, NEW most, NEW taker, NEW amount,
           Follows(b, r, b0, w0, most, taker, amount)
    PROVE  Follows(b1, r, b0, w0, most, taker, amount)
<1>1. Descends(b1, b0) /\ Priority(b1, r, b0, w0)
  BY DEF Follows, Descends, Priority, Gone
<1>2. \A side \in Sides : \A o : LeftIn(b1, side, o) = LeftIn(b, side, o)
  <2> TAKE side \in Sides
  <2> TAKE o
  <2>1. OrdersOf(b1, side) = OrdersOf(b, side)
    OBVIOUS
  <2> DEFINE F(S) == IF {p \in S : p.seq = o.seq} = {} THEN 0
                     ELSE (CHOOSE p \in {p \in S : p.seq = o.seq} : TRUE).size
  <2>2. LeftIn(b1, side, o) = F(OrdersOf(b1, side)) /\ LeftIn(b, side, o) = F(OrdersOf(b, side))
    BY DEF LeftIn
  <2> HIDE DEF F
  <2> QED BY <2>1, <2>2
<1>3. Persisted(b1, r, b0, w0)
  BY <1>2 DEF Follows, Persisted, Lost
<1>4. Conserved(b1, r, w0, most, taker, amount)
  BY DEF Follows, Conserved, RestingOf, OwnedBy
<1> QED BY <1>1, <1>3, <1>4 DEF Follows

(* A Residual takes over what its taker held. *)
LEMMA ResidualFollows ==
    ASSUME NEW n \in Nat, NEW next \in Nat, NEW b \in Books(n, next),
           NEW b0, NEW r \in Rings, NEW e \in OutEvents, HasRoom(r, 1), NEW w0 \in Nat,
           r.read <= w0, w0 <= r.write,
           NEW taker, NEW amount \in Nat, NEW most,
           e.kind = "Residual", e.owner = taker.owner, e.side = taker.side, e.size = amount,
           Follows(b, r, b0, w0, most, taker, amount)
    PROVE  Follows(b, append_event(r, e), b0, w0, most, taker, 0)
<1> DEFINE t == append_event(r, e)
<1>1. r.read \in Nat /\ r.write \in Nat /\ r.read <= r.write /\ t.read = r.read /\ t \in Rings
  BY RingFacts, AppendFacts
<1>2. Priority(b, t, b0, w0)
  <2>1. \A s : TakersIn(r, w0, s) \subseteq TakersIn(t, w0, s)
    BY TakersGrow
  <2> HIDE DEF t
  <2> QED BY <2>1 DEF Follows, Priority
<1>3. Persisted(b, t, b0, w0)
  <2>1. ASSUME NEW s \in Sides, NEW owner \in Owners, NEW price \in Nat
        PROVE  SumIn(t, w0, FillsK(s, owner, price)) = SumIn(r, w0, FillsK(s, owner, price))
    <3>1. FillsK(s, owner, price) \in SUBSET OutEvents /\ e \notin FillsK(s, owner, price)
      BY DEF FillsK
    <3>2. /\ SumIn(t, w0, FillsK(s, owner, price)) = SumIn(r, w0, FillsK(s, owner, price)) + 0
          /\ SumIn(r, w0, FillsK(s, owner, price)) \in Nat
      BY <3>1, AppendSum, InFinite
    <3> QED BY <3>2
  <2> HIDE DEF t
  <2> QED BY <2>1 DEF Follows, Persisted
<1>4. Conserved(b, t, w0, most, taker, 0)
  <2> SUFFICES ASSUME NEW owner \in Owners, NEW s \in Sides
               PROVE  RestingOf(b, owner, s) + SumIn(t, t.read, ResidualsK(owner, s))
                        + SumIn(t, w0, TradesK(owner, s)) + Held(taker, 0, owner, s)
                        <= most[<<owner, s>>]
    BY DEF Conserved
  <2> DEFINE R == RestingOf(b, owner, s)
             D == SumIn(r, r.read, ResidualsK(owner, s))
             V == SumIn(r, w0, TradesK(owner, s))
             h == Held(taker, amount, owner, s)
  <2>1. R + D + V + h <= most[<<owner, s>>]
    BY DEF Follows, Conserved
  <2>2. R \in Nat /\ D \in Nat /\ V \in Nat
    BY RestingFacts, SumsOf
  <2>3. h \in Nat /\ Held(taker, 0, owner, s) = 0
    BY DEF Held
  <2>4. SumIn(t, t.read, ResidualsK(owner, s)) = D + h
    <3>1. ResidualsK(owner, s) \in SUBSET OutEvents
      BY SumsOf
    <3>2. SumIn(t, r.read, ResidualsK(owner, s)) =
            D + (IF e \in ResidualsK(owner, s) THEN e.size ELSE 0)
      BY <1>1, <3>1, AppendSum
    <3>3. (IF e \in ResidualsK(owner, s) THEN e.size ELSE 0) = h
      BY DEF ResidualsK, Held
    <3> QED BY <1>1, <3>2, <3>3
  <2>5. SumIn(t, w0, TradesK(owner, s)) = V
    <3>1. TradesK(owner, s) \in SUBSET OutEvents /\ e \notin TradesK(owner, s)
      BY DEF TradesK
    <3>2. SumIn(t, w0, TradesK(owner, s)) = V + 0
      BY <3>1, AppendSum
    <3> QED BY <2>2, <3>2
  <2> HIDE DEF t, R, D, V, h
  <2>6. R + (D + h) + V + 0 = R + D + V + h
    BY <2>2, <2>3
  <2> QED BY <2>1, <2>3, <2>4, <2>5, <2>6 DEF R
<1> QED BY <1>2, <1>3, <1>4 DEF Follows

(* A posted order is new, so it takes the place of what its taker held. *)
LEMMA PostFollows ==
    ASSUME NEW n \in Nat, NEW next \in Nat, NEW b \in Books(n, next),
           NEW n0 \in Nat, n0 <= n, NEW b0 \in Books(n0, n0),
           NEW o \in Taker, o.seq = n, o.price # 0, post_limit(b, o) \in Books(n + 1, next),
           NEW r \in Rings, NEW w0 \in Nat, NEW most,
           NEW taker, taker.owner = o.owner, taker.side = o.side,
           Follows(b, r, b0, w0, most, taker, o.size)
    PROVE  Follows(post_limit(b, o), r, b0, w0, most, taker, 0)
<1> DEFINE b1 == post_limit(b, o)
           new == Resting(o)
<1>1. /\ o.side \in Sides /\ new.seq = n /\ new.size = o.size /\ new.owner = o.owner
      /\ o.size \in Nat
  BY LimitTypes DEF Taker, Resting
<1>2. OrdersOf(b1, o.side) = OrdersOf(b, o.side) \cup {new}
      /\ \A s \in Sides \ {o.side} : OrdersOf(b1, s) = OrdersOf(b, s)
  <2> DEFINE l == b[o.side]
             l1 == Append(l, new)
  <2>1. /\ l \in Seq(LimitOrder) /\ Len(l) \in Nat
        /\ b \in [Bid : Lists, Ask : Lists, next_seq : {next}]
    BY <1>1, BookFacts DEF Good, Lists
  <2>2. new \in LimitOrder
    BY LimitTypes DEF Taker, Resting, LimitOrder
  <2> HIDE DEF new
  <2>3. /\ Len(l1) = Len(l) + 1 /\ l1[Len(l) + 1] = new
        /\ \A i \in 1..Len(l) : l1[i] = l[i]
    BY <2>1, <2>2, AppendProperties
  <2>4. b1 = [b EXCEPT ![o.side] = l1]
    BY DEF post_limit, new
  <2>5. b1[o.side] = l1 /\ \A s \in Sides \ {o.side} : b1[s] = b[s]
    BY <1>1, <2>1, <2>4 DEF Sides
  <2>6. OrdersOf(b, o.side) = Items(l) /\ OrdersOf(b1, o.side) = Items(l1)
    <3>1. OrdersOf(b, o.side) = Items(b[o.side])
      BY <1>1, OrderFacts
    <3>2. OrdersOf(b1, o.side) = Items(b1[o.side])
      <4>1. n + 1 \in Nat /\ b1 \in Books(n + 1, next)
        OBVIOUS
      <4> HIDE DEF b1
      <4> QED BY <1>1, <4>1, OrderFacts
    <3> QED BY <2>5, <3>1, <3>2
  <2>7. Items(l1) = Items(l) \cup {new}
    <3> HIDE DEF l1, l
    <3>1. 1..Len(l1) = (1..Len(l)) \cup {Len(l) + 1}
      BY <2>1, <2>3
    <3> QED BY <2>3, <3>1 DEF Items
  <2>8. \A s \in Sides \ {o.side} : OrdersOf(b1, s) = OrdersOf(b, s)
    BY <2>5 DEF OrdersOf
  <2> QED BY <2>6, <2>7, <2>8
<1>3. b0.next_seq = n0 /\ \A s \in Sides : \A p \in OrdersOf(b0, s) : p.seq \in Nat /\ p.seq < n
  <2>1. \A s \in Sides : \A p \in OrdersOf(b0, s) : p.seq \in Nat /\ p.seq < n0
    BY OrderFacts
  <2>2. b0.next_seq = n0
    BY DEF Books
  <2> QED BY <2>1, <2>2
<1>4. \A s \in Sides : \A p \in OrdersOf(b, s) : p.seq < n
  BY OrderFacts
<1> HIDE DEF b1, new
<1>5. Descends(b1, b0)
  BY <1>1, <1>2, <1>3 DEF Follows, Descends
<1>6. \A s \in Sides : OrdersOf(b, s) \subseteq OrdersOf(b1, s)
                       /\ OrdersOf(b1, s) \subseteq OrdersOf(b, s) \cup {new}
  BY <1>2
<1>7. Priority(b1, r, b0, w0)
  <2>1. \A s \in Sides : \A better \in OrdersOf(b0, s) : Gone(b, s, better) => Gone(b1, s, better)
    BY <1>1, <1>3, <1>6 DEF Gone
  <2> QED BY <1>6, <2>1 DEF Follows, Priority
<1>8. Persisted(b1, r, b0, w0)
  <2>1. ASSUME NEW s \in Sides, NEW q \in OrdersOf(b0, s)
        PROVE  LeftIn(b1, s, q) = LeftIn(b, s, q)
    <3>0. q.seq # new.seq
      BY <1>1, <1>3
    <3>1. CASE Gone(b, s, q)
      <4>1. Gone(b1, s, q)
        BY <1>6, <3>0, <3>1 DEF Gone
      <4>2. LeftIn(b, s, q) = 0
        BY <3>1, LeftFacts
      <4>3. LeftIn(b1, s, q) = 0
        BY <4>1, LeftFacts DEF b1
      <4> QED BY <4>2, <4>3
    <3>2. CASE ~Gone(b, s, q)
      <4>1. PICK p \in OrdersOf(b, s) : p.seq = q.seq
        BY <3>2 DEF Gone
      <4>2. p \in OrdersOf(b1, s)
        BY <1>6
      <4>3. LeftIn(b, s, q) = p.size
        BY <4>1, LeftFacts
      <4>4. LeftIn(b1, s, q) = p.size
        BY <4>1, <4>2, LeftFacts DEF b1
      <4> QED BY <4>3, <4>4
    <3> QED BY <3>1, <3>2
  <2>2. ASSUME NEW s \in Sides, NEW owner \in Owners, NEW price \in Nat
        PROVE  Lost(b1, b0, s, owner, price) = Lost(b, b0, s, owner, price)
    <3>1. \A q \in Group(b0, s, owner, price) : LeftIn(b1, s, q) = LeftIn(b, s, q)
      BY <2>1 DEF Group
    <3>2. [q \in Group(b0, s, owner, price) |-> q.size - LeftIn(b1, s, q)]
            = [q \in Group(b0, s, owner, price) |-> q.size - LeftIn(b, s, q)]
      BY <3>1
    <3> QED BY <3>2 DEF Lost
  <2> QED BY <2>2 DEF Follows, Persisted
<1>9. Conserved(b1, r, w0, most, taker, 0)
  <2> SUFFICES ASSUME NEW owner \in Owners, NEW s \in Sides
               PROVE  RestingOf(b1, owner, s) + SumIn(r, r.read, ResidualsK(owner, s))
                        + SumIn(r, w0, TradesK(owner, s)) + Held(taker, 0, owner, s)
                        <= most[<<owner, s>>]
    BY DEF Conserved
  <2> DEFINE R == RestingOf(b, owner, s)
             D == SumIn(r, r.read, ResidualsK(owner, s))
             V == SumIn(r, w0, TradesK(owner, s))
             h == Held(taker, o.size, owner, s)
  <2>1. R + D + V + h <= most[<<owner, s>>]
    BY DEF Follows, Conserved
  <2>2. R \in Nat /\ D \in Nat /\ V \in Nat
    BY RestingFacts, SumsOf
  <2>3. h \in Nat /\ Held(taker, 0, owner, s) = 0
    BY <1>1 DEF Held
  <2>4. RestingOf(b1, owner, s) = R + h
    <3>1. CASE taker.owner = owner /\ taker.side = s
      <4> DEFINE S == OwnedBy(b, owner, s)
      <4>1. OwnedBy(b1, owner, s) = S \cup {new}
        BY <1>1, <1>2, <3>1 DEF OwnedBy
      <4>2. new \notin S
        BY <1>1, <1>4 DEF OwnedBy
      <4>3. IsFiniteSet(S) /\ \A q \in S : q.size \in Nat
        BY RestingFacts
      <4> HIDE DEF S
      <4>4. SizeOf(S \cup {new}) = SizeOf(S) + new.size
        BY <1>1, <4>2, <4>3, SizeFacts
      <4> QED BY <1>1, <3>1, <4>1, <4>4 DEF RestingOf, Held, S
    <3>2. CASE ~(taker.owner = owner /\ taker.side = s)
      <4>1. OwnedBy(b1, owner, s) = OwnedBy(b, owner, s)
        BY <1>1, <1>2, <3>2 DEF OwnedBy
      <4>2. h = 0
        BY <3>2 DEF Held
      <4> QED BY <2>2, <4>1, <4>2 DEF RestingOf
    <3> QED BY <3>1, <3>2
  <2> HIDE DEF R, D, V, h
  <2>5. (R + h) + D + V + 0 = R + D + V + h
    BY <2>2, <2>3
  <2> QED BY <2>1, <2>3, <2>4, <2>5 DEF D, V
<1> QED BY <1>5, <1>7, <1>8, <1>9 DEF Follows, b1

(* A drained event is not waiting any more: what it carries is held if it is  *)
(* a residual.                                                                *)
LEMMA PopFollows ==
    ASSUME NEW n \in Nat, NEW next \in Nat, NEW b \in Books(n, next), NEW r \in Rings,
           r.read < r.write, NEW t, t = [r EXCEPT !.read = @ + 1],
           NEW b0, NEW w0 \in Nat, NEW most, NEW taker,
           Follows(b, r, b0, w0, most, taker, 0), NEW other, NEW amount \in Nat,
           \/ EventAt(r, r.read).kind # "Residual" /\ amount = 0
           \/ /\ EventAt(r, r.read) \in OutEvents
              /\ EventAt(r, r.read).kind = "Residual"
              /\ other.owner = EventAt(r, r.read).owner
              /\ other.side = EventAt(r, r.read).side
              /\ amount = EventAt(r, r.read).size
    PROVE  Follows(b, t, b0, w0, most, other, amount)
<1>1. /\ r.read \in Nat /\ r.write \in Nat
      /\ t.events = r.events /\ t.write = r.write /\ t.read = r.read + 1
  BY RingFacts
<1>2. \A lo, K : SumIn(t, lo, K) = SumIn(r, lo, K)
  BY <1>1 DEF SumIn, In, EventAt
<1>3. \A s : TakersIn(t, w0, s) = TakersIn(r, w0, s)
  BY <1>1 DEF TakersIn, EventAt
<1>4. Descends(b, b0) /\ Priority(b, t, b0, w0) /\ Persisted(b, t, b0, w0)
  BY <1>2, <1>3 DEF Follows, Priority, Persisted
<1>5. Conserved(b, t, w0, most, other, amount)
  <2> SUFFICES ASSUME NEW owner \in Owners, NEW s \in Sides
               PROVE  RestingOf(b, owner, s) + SumIn(t, t.read, ResidualsK(owner, s))
                        + SumIn(t, w0, TradesK(owner, s)) + Held(other, amount, owner, s)
                        <= most[<<owner, s>>]
    BY DEF Conserved
  <2> DEFINE R == RestingOf(b, owner, s)
             K == ResidualsK(owner, s)
             D == SumIn(r, r.read, K)
             D1 == SumIn(r, r.read + 1, K)
             V == SumIn(r, w0, TradesK(owner, s))
             h == Held(other, amount, owner, s)
             e == EventAt(r, r.read)
  <2>1. R + D + V + Held(taker, 0, owner, s) <= most[<<owner, s>>]
    BY DEF Follows, Conserved
  <2>2. R \in Nat /\ D \in Nat /\ V \in Nat /\ K \in SUBSET OutEvents
    BY RestingFacts, SumsOf
  <2>3. Held(taker, 0, owner, s) = 0 /\ h \in Nat
    BY DEF Held
  <2>4. D1 \in Nat
    <3>1. r.read + 1 \in Nat
      BY <1>1
    <3> HIDE DEF K
    <3> QED BY <2>2, <3>1, InFinite
  <2>5. D = D1 + IF e \in K THEN e.size ELSE 0
    <3> HIDE DEF K
    <3> QED BY <2>2, PopSum
  <2>6. (IF e \in K THEN e.size ELSE 0) = h
    BY DEF ResidualsK, Held
  <2>7. D = D1 + h
    <3> HIDE DEF D, D1, h, K, e
    <3> QED BY <2>5, <2>6
  <2>8. SumIn(t, t.read, K) = D1 /\ SumIn(t, w0, TradesK(owner, s)) = V
    BY <1>1, <1>2
  <2> HIDE DEF R, D, D1, V, h, e, K
  <2>9. R + D1 + V + h = R + D + V + 0
    BY <2>2, <2>3, <2>4, <2>7
  <2> QED BY <2>1, <2>3, <2>8, <2>9 DEF R, h, K
<1> QED BY <1>4, <1>5 DEF Follows

(* A cancelled order leaves the book, and its event asks for nothing. *)
LEMMA CancelConserves ==
    ASSUME NEW n \in Nat, NEW next \in Nat, NEW b \in Books(n, next), NEW side \in Sides,
           NEW i \in 1..Len(b[side]), NEW r \in Rings, NEW e \in OutEvents, e.kind = "Cancel",
           NEW w0 \in Nat, r.read <= w0, w0 <= r.write,
           NEW most \in [Owners \X Sides -> Nat], NEW taker,
           Conserved(b, r, w0, most, taker, 0)
    PROVE  Conserved([b EXCEPT ![side] = Remove(@, i)], append_event(r, e), w0, most, taker, 0)
<1> DEFINE b1 == [b EXCEPT ![side] = Remove(@, i)]
           t == append_event(r, e)
<1>1. OrdersOf(b1, side) = OrdersOf(b, side) \ {b[side][i]}
      /\ \A s \in Sides \ {side} : OrdersOf(b1, s) = OrdersOf(b, s)
  <2>1. b \in [Bid : Lists, Ask : Lists, next_seq : {next}] /\ Good(b[side], n)
    BY BookFacts
  <2>2. b1[side] = Remove(b[side], i) /\ \A s \in Sides \ {side} : b1[s] = b[s]
    BY <2>1 DEF Sides
  <2>3. Remove(b[side], i) \in Lists
    BY <2>1, RemoveFacts DEF Good, Lists
  <2>4. Items(Remove(b[side], i)) = Items(b[side]) \ {b[side][i]}
    BY <2>1, RemovedItems
  <2>5. OrdersOf(b1, side) = Items(Remove(b[side], i))
    <3> DEFINE l == Remove(b[side], i)
    <3>1. l \in Seq(LimitOrder)
      BY <2>3 DEF Lists
    <3> HIDE DEF l
    <3>2. DOMAIN l = 1..Len(l)
      BY <3>1
    <3> QED BY <2>2, <3>2 DEF OrdersOf, Items, l
  <2>6. OrdersOf(b, side) = Items(b[side])
    BY OrderFacts
  <2>7. \A s \in Sides \ {side} : OrdersOf(b1, s) = OrdersOf(b, s)
    BY <2>2 DEF OrdersOf
  <2> HIDE DEF b1
  <2> QED BY <2>4, <2>5, <2>6, <2>7
<1>2. r.read \in Nat /\ r.write \in Nat /\ r.read <= r.write
  BY RingFacts
<1> SUFFICES ASSUME NEW owner \in Owners, NEW s \in Sides
             PROVE  RestingOf(b1, owner, s) + SumIn(t, t.read, ResidualsK(owner, s))
                      + SumIn(t, w0, TradesK(owner, s)) + Held(taker, 0, owner, s)
                      <= most[<<owner, s>>]
  BY DEF Conserved
<1> DEFINE R == RestingOf(b, owner, s)
           D == SumIn(r, r.read, ResidualsK(owner, s))
           V == SumIn(r, w0, TradesK(owner, s))
<1>3. R + D + V + Held(taker, 0, owner, s) <= most[<<owner, s>>]
  BY DEF Conserved
<1>4. R \in Nat /\ D \in Nat /\ V \in Nat /\ Held(taker, 0, owner, s) = 0
  BY RestingFacts, SumsOf DEF Held
<1>5. SumIn(t, t.read, ResidualsK(owner, s)) = D /\ SumIn(t, w0, TradesK(owner, s)) = V
  <2>1. CASE HasRoom(r, 1)
    <3>1. e \notin ResidualsK(owner, s) /\ e \notin TradesK(owner, s)
      BY DEF ResidualsK, TradesK
    <3>2. ResidualsK(owner, s) \in SUBSET OutEvents /\ TradesK(owner, s) \in SUBSET OutEvents
      BY SumsOf
    <3>3. t.read = r.read
      BY <2>1, AppendFacts
    <3>4. SumIn(t, r.read, ResidualsK(owner, s)) = D + 0
      BY <1>2, <2>1, <3>1, <3>2, AppendSum
    <3>5. SumIn(t, w0, TradesK(owner, s)) = V + 0
      BY <1>2, <2>1, <3>1, <3>2, AppendSum
    <3> HIDE DEF t, D, V
    <3> QED BY <1>4, <3>3, <3>4, <3>5
  <2>2. CASE ~HasRoom(r, 1)
    BY <2>2 DEF append_event
  <2> QED BY <2>1, <2>2
<1>6. RestingOf(b1, owner, s) <= R /\ RestingOf(b1, owner, s) \in Nat
  <2> DEFINE S == OwnedBy(b, owner, s)
             m == b[side][i]
  <2>1. IsFiniteSet(S) /\ (\A q \in S : q.size \in Nat) /\ R = SizeOf(S)
    BY RestingFacts
  <2>2. CASE m \in S /\ s = side
    <3>1. OwnedBy(b1, owner, s) = S \ {m}
      BY <1>1, <2>2 DEF OwnedBy
    <3>2. SizeOf(S \ {m}) = SizeOf(S) - m.size /\ m.size \in Nat
      <4> HIDE DEF S, m
      <4> QED BY <2>1, <2>2, SizeFacts
    <3>3. IsFiniteSet(S \ {m}) /\ \A q \in S \ {m} : q.size \in Nat
      <4> HIDE DEF S, m
      <4> QED BY <2>1, FS_RemoveElement
    <3>4. SizeOf(S \ {m}) \in Nat
      <4> DEFINE U == S \ {m}
      <4>1. IsFiniteSet(U) /\ \A q \in U : q.size \in Nat
        BY <3>3
      <4> HIDE DEF U
      <4>2. SizeOf(U) \in Nat
        BY <4>1, SizeFacts
      <4> QED BY <4>2 DEF U
    <3> HIDE DEF S, m, b1, R
    <3> QED BY <1>4, <2>1, <3>1, <3>2, <3>4 DEF RestingOf
  <2>3. CASE ~(m \in S /\ s = side)
    <3>1. OwnedBy(b1, owner, s) = S
      BY <1>1, <2>3 DEF OwnedBy
    <3> HIDE DEF S, m, b1, R
    <3> QED BY <1>4, <2>1, <3>1 DEF RestingOf
  <2> QED BY <2>2, <2>3
<1> HIDE DEF R, D, V, t, b1
<1>7. most[<<owner, s>>] \in Nat
  OBVIOUS
<1> QED BY <1>3, <1>4, <1>5, <1>6, <1>7

-----------------------------------------------------------------------------
(* A whole match *)

(* What is true of the first turn and kept by every turn is true of all. *)
LEMMA AllTurns ==
    ASSUME NEW n \in Nat, NEW T, 0 \in T, \A k \in 1..n : k - 1 \in T => k \in T
    PROVE  \A k \in 0..n : k \in T
<1> DEFINE r == [k \in 0..n |-> k]
<1>1. r[0] \in T /\ \A k \in 1..n : r[k - 1] \in T => r[k] \in T
  OBVIOUS
<1>2. \A k \in 0..n : r[k] \in T
  <2> HIDE DEF r
  <2> QED BY <1>1, StaysIn
<1> QED BY <1>2

(* Emitting one fill more appends it to what the others left. *)
LEMMA EmitAppend ==
    ASSUME NEW r \in Rings, NEW fills \in Seq(MakerFill), NEW taker \in Taker,
           NEW fill \in MakerFill
    PROVE  emit_fill_events(r, Append(fills, fill), taker)
             = append_event(emit_fill_events(r, fills, taker), FillEvent(fill, taker))
<1> DEFINE n == Len(fills)
           more == Append(fills, fill)
<1>1. /\ n \in Nat /\ more \in Seq(MakerFill) /\ Len(more) = n + 1
      /\ more[n + 1] = fill /\ \A k \in 1..n : more[k] = fills[k]
  BY AppendProperties
<1>2. PICK f : EmitRun(f, r, fills, taker)
  BY EmitRuns
<1> HIDE DEF more
<1>3. PICK g : EmitRun(g, r, more, taker)
  BY <1>1, EmitRuns
<1> DEFINE T == {k \in 0..n : f[k] = g[k]}
<1>4. \A k \in 0..n : k \in T
  <2>1. 0 \in T
    BY <1>1, <1>2, <1>3 DEF EmitRun
  <2>2. ASSUME NEW k \in 1..n, k - 1 \in T PROVE k \in T
    <3>1. k \in 1..Len(more) /\ k \in 1..Len(fills) /\ k \in 0..n
      BY <1>1
    <3>2. f[k - 1] = g[k - 1]
      BY <2>2
    <3>3. f[k] = g[k]
      BY <1>1, <1>2, <1>3, <3>1, <3>2 DEF EmitRun
    <3> QED BY <3>1, <3>3
  <2> HIDE DEF T
  <2> QED BY <1>1, <2>1, <2>2, AllTurns
<1>5. g[n] = f[n] /\ n + 1 \in 1..Len(more) /\ (n + 1) - 1 = n
  <2>1. n \in 0..n /\ n + 1 \in 1..Len(more) /\ (n + 1) - 1 = n
    BY <1>1
  <2> QED BY <1>4, <2>1
<1>6. g[n + 1] = append_event(f[n], FillEvent(fill, taker))
  BY <1>1, <1>3, <1>5 DEF EmitRun
<1> QED BY <1>1, <1>2, <1>3, <1>6 DEF EmitRun, more

(* No fills, no events. *)
LEMMA EmitNone ==
    ASSUME NEW r \in Rings, NEW taker \in Taker
    PROVE  emit_fill_events(r, <<>>, taker) = r
<1> DEFINE fills == <<>>
<1>1. fills \in Seq(MakerFill) /\ Len(fills) = 0
  OBVIOUS
<1> HIDE DEF fills
<1>2. PICK f : EmitRun(f, r, fills, taker)
  BY <1>1, EmitRuns
<1> QED BY <1>1, <1>2 DEF EmitRun, fills

(* What a turn that is not the last does: t follows s. *)
Turned(t, s, taker, m, size) ==
    /\ size \in Nat \ {0} /\ size <= m.size /\ size <= s.remaining
    /\ Filled(t.book, s.book, Opposite(taker.side), m, size)
    /\ t.remaining = s.remaining - size
    /\ t.fills = Append(s.fills, [owner |-> m.owner, price |-> m.price, size |-> size])
    /\ BestFor(s.book, Opposite(taker.side), m, taker.owner)
    /\ m.owner # taker.owner

(* A turn that is not the last fills the best maker. *)
LEMMA TurnFills ==
    ASSUME NEW n \in Nat, NEW next \in Nat, NEW s \in MatchStates(n, next),
           NEW taker \in Taker, NEW kind, ~MatchDone(s, taker, kind)
    PROVE  \E m, size : Turned(MatchTurn(s, taker, kind), s, taker, m, size)
<1> DEFINE side == Opposite(taker.side)
           l == s.book[side]
           C == crossable_makers(s.book, taker, kind)
           i == best_crossable_maker(s.book, taker, kind)
           m == l[i]
           size == IF s.remaining <= m.size THEN s.remaining ELSE m.size
           t == MatchTurn(s, taker, kind)
<1>1. s.book \in Books(n, next) /\ s.remaining \in Nat /\ s.fills \in Seq(MakerFill)
  BY MatchStateFacts
<1>2. /\ side \in Sides /\ taker.side \in Sides /\ Opposite(side) = taker.side
      /\ taker.price \in Nat
  BY LimitTypes DEF Taker, Sides, Opposite
<1> HIDE DEF side
<1>3. DOMAIN l = 1..Len(l) /\ Good(l, n) /\ \A j \in 1..Len(l) : l[j] \in LimitOrder
  BY <1>1, <1>2, BookFacts
<1>4. C = {j \in 1..Len(l) : /\ l[j].owner # taker.owner
                             /\ \/ kind = "Market"
                                \/ is_crossable(taker.side, taker.price, l[j].price)}
  BY <1>3 DEF crossable_makers, side
<1>5. C # {} /\ s.remaining # 0
  BY DEF MatchDone
<1>6. i = best_maker(l, side, C)
  BY DEF best_crossable_maker, side
<1>7. i \in C /\ \A j \in C \ {i} : better_maker(l[i], l[j], side)
  <2>1. C \in SUBSET (1..Len(l))
    BY <1>4
  <2> HIDE DEF C, i
  <2> QED BY <1>1, <1>2, <1>5, <1>6, <2>1, BestMaker
<1> HIDE DEF C, i
<1>8. i \in 1..Len(l) /\ m \in LimitOrder
  BY <1>3, <1>4, <1>7
<1>9. size \in Nat \ {0} /\ size <= m.size /\ size <= s.remaining
  <2>1. m.size \in Nat \ {0}
    BY <1>8, LimitTypes DEF LimitOrder
  <2> HIDE DEF m
  <2> QED BY <1>1, <1>5, <2>1
<1>10. t = [book |-> [s.book EXCEPT ![side] = Reduce(l, i, size)],
            remaining |-> s.remaining - size,
            fills |-> Append(s.fills, [owner |-> m.owner, price |-> m.price, size |-> size])]
  <2>1. t = FillMaker(s, side, i)
    BY DEF MatchTurn, side, i
  <2>2. s.book \in [Bid : Lists, Ask : Lists, next_seq : {next}]
    BY <1>1, <1>2, BookFacts
  <2> QED BY <1>2, <2>1, <2>2 DEF FillMaker, Sides
<1> HIDE DEF size
<1>11. Filled(t.book, s.book, side, m, size)
  <2> DEFINE k == Reduce(l, i, size)
  <2>1. s.book \in [Bid : Lists, Ask : Lists, next_seq : {next}]
    BY <1>1, <1>2, BookFacts
  <2>2. t.book[side] = k /\ \A x \in Sides \ {side} : t.book[x] = s.book[x]
    BY <1>2, <1>10, <2>1 DEF Sides
  <2>3. OrdersOf(s.book, side) = Items(l)
    BY <1>1, <1>2, OrderFacts
  <2>4. OrdersOf(t.book, side) = Items(k)
    <3>1. k \in Seq(LimitOrder)
      <4>1. l \in Lists
        BY <1>3 DEF Good
      <4> HIDE DEF l
      <4> QED BY <1>8, <1>9, <4>1, ReduceThins DEF Lists, m
    <3> HIDE DEF k
    <3>2. DOMAIN k = 1..Len(k)
      BY <3>1
    <3> QED BY <2>2, <3>2 DEF OrdersOf, Items
  <2>5. Items(k) = (Items(l) \ {m}) \cup Rest(m, size)
    <3> HIDE DEF l
    <3> QED BY <1>3, <1>8, <1>9, ReducedItems DEF m
  <2>6. m \in Items(l)
    BY <1>8 DEF Items
  <2>7. \A x \in Sides \ {side} : OrdersOf(t.book, x) = OrdersOf(s.book, x)
    BY <2>2 DEF OrdersOf
  <2> HIDE DEF k, l, m, t
  <2> QED BY <2>3, <2>4, <2>5, <2>6, <2>7 DEF Filled
<1>12. ASSUME NEW p \in OrdersOf(s.book, side), better_maker(p, m, side), p.owner # taker.owner
       PROVE  FALSE
  <2>1. PICK j \in 1..Len(l) : p = l[j]
    <3>1. OrdersOf(s.book, side) = Items(l)
      BY <1>1, <1>2, OrderFacts
    <3> QED BY <3>1 DEF Items
  <2>2. /\ p.price \in Nat /\ p.seq \in Nat /\ m.price \in Nat /\ m.seq \in Nat
    BY <1>3, <1>8, <2>1, LimitTypes DEF LimitOrder
  <2>3. kind = "Market" \/ is_crossable(taker.side, taker.price, m.price)
    BY <1>4, <1>7
  <2>4. kind = "Market" \/ is_crossable(taker.side, taker.price, p.price)
    <3> HIDE DEF m, l
    <3> QED BY <1>2, <1>12, <2>2, <2>3
            DEF is_crossable, better_maker, price_better, Opposite, Sides
  <2>5. j \in C
    BY <1>4, <1>12, <2>1, <2>4
  <2>6. CASE j = i
    BY <1>12, <2>1, <2>2, <2>6 DEF better_maker, price_better
  <2>7. CASE j # i
    <3>1. better_maker(m, p, side)
      BY <1>7, <2>1, <2>5, <2>7
    <3> HIDE DEF m, l
    <3> QED BY <1>12, <2>2, <3>1 DEF better_maker, price_better
  <2> QED BY <2>6, <2>7
<1>13. t.remaining = s.remaining - size
       /\ t.fills = Append(s.fills, [owner |-> m.owner, price |-> m.price, size |-> size])
  BY <1>10
<1>14. m.owner # taker.owner
  BY <1>4, <1>7
<1> HIDE DEF m, t, l
<1>15. Turned(t, s, taker, m, size)
  <2>1. BestFor(s.book, side, m, taker.owner)
    BY <1>12 DEF BestFor
  <2> QED BY <1>9, <1>11, <1>13, <1>14, <2>1 DEF Turned, side
<1> QED BY <1>15 DEF t

(* e is r with m fills appended. *)
Emitted(e, r, m) ==
    /\ e \in Rings /\ Keeps(e, r)
    /\ e.read = r.read /\ e.write = r.write + m
    /\ \A k \in r.write..(e.write - 1) : EventAt(e, k).kind = "Fill"

(* What a taker may hold after its fills are emitted, if there is room for them. *)
Matched(book_, remaining, fills, r, b0, w0, most, taker) ==
    LET e == emit_fill_events(r, fills, taker)
    IN  HasRoom(r, Len(fills)) => /\ Follows(book_, e, b0, w0, most, taker, remaining)
                                  /\ Emitted(e, r, Len(fills))

(* One turn more, one fill and one event more. *)
LEMMA TurnFollows ==
    ASSUME NEW n \in Nat, NEW next \in Nat,
           NEW s \in MatchStates(n, next), NEW t \in MatchStates(n, next),
           NEW n0 \in Nat, NEW b0 \in Books(n0, n0),
           NEW r \in Rings, NEW w0 \in Nat, r.read <= w0, w0 <= r.write,
           NEW taker \in Taker, NEW most, NEW m, NEW size, Turned(t, s, taker, m, size),
           Matched(s.book, s.remaining, s.fills, r, b0, w0, most, taker)
    PROVE  Matched(t.book, t.remaining, t.fills, r, b0, w0, most, taker)
<1> DEFINE e == emit_fill_events(r, s.fills, taker)
           side == Opposite(taker.side)
           fill == [owner |-> m.owner, price |-> m.price, size |-> size]
           f == FillEvent(fill, taker)
<1> SUFFICES ASSUME HasRoom(r, Len(t.fills))
             PROVE  LET a == emit_fill_events(r, t.fills, taker)
                    IN  /\ Follows(t.book, a, b0, w0, most, taker, t.remaining)
                        /\ Emitted(a, r, Len(t.fills))
  BY DEF Matched
<1>1. /\ s.book \in Books(n, next) /\ s.remaining \in Nat /\ s.fills \in Seq(MakerFill)
      /\ t.book \in Books(n, next)
  BY MatchStateFacts
<1>2. /\ size \in Nat \ {0} /\ size <= m.size /\ size <= s.remaining
      /\ Filled(t.book, s.book, side, m, size)
      /\ t.remaining = s.remaining - size /\ t.fills = Append(s.fills, fill)
      /\ BestFor(s.book, side, m, taker.owner)
  BY DEF Turned
<1>3. side \in Sides
  BY DEF Taker, Sides, Opposite
<1> HIDE DEF side
<1>4. m \in LimitOrder
  BY <1>1, <1>2, <1>3, OrderFacts DEF Filled
<1>5. fill \in MakerFill
  <2>1. m.size \in Lots
    BY <1>4 DEF LimitOrder
  <2>2. size \in Lots
    BY <1>2, <2>1, LotLess
  <2> QED BY <1>4, <2>2 DEF MakerFill, LimitOrder
<1>6. /\ f \in OutEvents /\ f.kind = "Fill" /\ f.side = side /\ f.owner = m.owner
      /\ f.counterparty = taker.owner /\ f.price = m.price /\ f.size = size
  BY <1>5, FillEventType DEF FillEvent, Event, side
<1> HIDE DEF fill
<1>7. /\ Len(s.fills) \in Nat /\ Len(t.fills) = Len(s.fills) + 1
      /\ r.read \in Nat /\ r.write \in Nat /\ r.read <= r.write /\ EVENT_QUEUE_LEN \in Nat
  BY <1>1, <1>2, <1>5, AppendProperties, RingFacts
<1>8. HasRoom(r, Len(s.fills))
  BY <1>7 DEF HasRoom, queued
<1>9. Follows(s.book, e, b0, w0, most, taker, s.remaining) /\ Emitted(e, r, Len(s.fills))
  BY <1>8 DEF Matched
<1>10. emit_fill_events(r, t.fills, taker) = append_event(e, f)
  BY <1>1, <1>2, <1>5, EmitAppend
<1> HIDE DEF e, f
<1>11. /\ e \in Rings /\ Keeps(e, r) /\ e.read = r.read /\ e.write = r.write + Len(s.fills)
       /\ \A k \in r.write..(e.write - 1) : EventAt(e, k).kind = "Fill"
  BY <1>9 DEF Emitted
<1>12. HasRoom(e, 1) /\ e.read <= w0 /\ w0 <= e.write
  <2>1. e.read = r.read /\ e.write = r.write + Len(s.fills)
    BY <1>11
  <2>2. (r.write - r.read) + Len(t.fills) <= EVENT_QUEUE_LEN
    BY DEF HasRoom, queued
  <2>3. (e.write - e.read) + 1 <= EVENT_QUEUE_LEN /\ e.read <= w0 /\ w0 <= e.write
    BY <1>7, <2>1, <2>2
  <2> QED BY <2>3 DEF HasRoom, queued
<1> DEFINE a == append_event(e, f)
<1>13. Follows(t.book, a, b0, w0, most, taker, s.remaining - size)
  <2>1. side = Opposite(taker.side)
    BY DEF side
  <2> HIDE DEF a
  <2>2. Follows(t.book, append_event(e, f), b0, w0, most, taker, s.remaining - size)
    BY <1>1, <1>2, <1>3, <1>6, <1>9, <1>11, <1>12, <2>1, FillFollows
  <2> QED BY <2>2 DEF a
<1>14. Emitted(a, r, Len(t.fills))
  <2>1. /\ a \in Rings /\ a.read = e.read /\ a.write = e.write + 1 /\ EventAt(a, e.write) = f
        /\ \A k \in e.read..(e.write - 1) : EventAt(a, k) = EventAt(e, k)
    BY <1>6, <1>11, <1>12, AppendFacts
  <2>2. Keeps(a, r)
    <3>1. Keeps(a, e)
      BY <1>6, <1>11, AppendType
    <3> HIDE DEF a
    <3> QED BY <1>11, <2>1, <3>1, KeepsOn
  <2> HIDE DEF a
  <2>3. ASSUME NEW k \in r.write..(a.write - 1) PROVE EventAt(a, k).kind = "Fill"
    <3>1. e.write \in Nat /\ e.read \in Nat /\ e.read <= r.write /\ a.write = e.write + 1
      BY <1>7, <1>11, <2>1
    <3>2. k = e.write \/ (k \in r.write..(e.write - 1) /\ k \in e.read..(e.write - 1))
      BY <1>7, <3>1
    <3> QED BY <1>6, <1>11, <2>1, <3>2
  <2>4. a.read = r.read /\ a.write = r.write + Len(t.fills)
    BY <1>7, <1>11, <2>1
  <2> QED BY <2>1, <2>2, <2>3, <2>4 DEF Emitted
<1> QED BY <1>2, <1>10, <1>13, <1>14

(* A match of a taker, emitted to a ring that has room for it; a limit order  *)
(* is left with a residual only by a match that used its whole budget.        *)
MatchLeaves(out, max_steps, r, b0, w0, most, taker) ==
    /\ Matched(out.book, out.remaining, out.fills, r, b0, w0, most, taker)
    /\ out.residual => Len(out.fills) = max_steps

(* By induction on the turns of the loop. *)
LEMMA MatchFollows ==
    ASSUME NEW n \in Nat, NEW next \in Nat, NEW b \in Books(n, next), NEW b0 \in Settled,
           NEW r \in Rings, NEW w0 \in Nat, r.read <= w0, w0 <= r.write,
           NEW taker \in Taker, NEW kind, NEW max_steps \in Nat, NEW most,
           Follows(b, r, b0, w0, most, taker, taker.size)
    PROVE  MatchLeaves(match_order(b, taker, kind, max_steps), max_steps, r, b0, w0, most, taker)
<1> DEFINE out == match_order(b, taker, kind, max_steps)
           n0 == b0.next_seq
<1>0. n0 \in Nat /\ b0 \in Books(n0, n0)
  BY DEF Settled
<1> HIDE DEF out, n0
<1>1. PICK run : MatchRun(run, n, next, b, taker, kind, max_steps)
  BY MatchRuns
<1> DEFINE M(s) == Matched(s.book, s.remaining, s.fills, r, b0, w0, most, taker)
           T == {k \in 0..max_steps :
                   /\ M(run[k])
                   /\ MatchDone(run[k], taker, kind) \/ Len(run[k].fills) = k}
<1>2. 0 \in T
  <2> DEFINE s == run[0]
  <2>1. s.book = b /\ s.remaining = taker.size /\ s.fills = <<>>
    BY <1>1 DEF MatchRun
  <2>2. Len(s.fills) = 0
    BY <2>1
  <2>3. emit_fill_events(r, s.fills, taker) = r
    BY <2>1, EmitNone
  <2>4. Emitted(r, r, Len(s.fills))
    <3>1. r.read \in Nat /\ r.write \in Nat
      BY RingFacts
    <3> QED BY <2>2, <3>1, KeepsItself DEF Emitted
  <2>5. M(s)
    BY <2>1, <2>3, <2>4 DEF Matched
  <2> HIDE DEF M
  <2> QED BY <2>2, <2>5
<1>3. ASSUME NEW k \in 1..max_steps, k - 1 \in T PROVE k \in T
  <2> DEFINE s == run[k - 1]
             t == run[k]
  <2>1. /\ t = MatchTurn(s, taker, kind) /\ k - 1 \in 0..max_steps /\ k \in 0..max_steps
        /\ s \in MatchStates(n, next) /\ t \in MatchStates(n, next)
    BY <1>1 DEF MatchRun
  <2>2. M(s) /\ (MatchDone(s, taker, kind) \/ Len(s.fills) = k - 1)
    BY <1>3
  <2> HIDE DEF s, t
  <2>3. CASE MatchDone(s, taker, kind)
    <3>1. t = s
      BY <2>1, <2>3 DEF MatchTurn
    <3> HIDE DEF M
    <3> QED BY <2>1, <2>2, <2>3, <3>1 DEF t
  <2>4. CASE ~MatchDone(s, taker, kind)
    <3>1. PICK m, size : Turned(t, s, taker, m, size)
      BY <2>1, <2>4, TurnFills
    <3>2. M(t)
      BY <1>0, <2>1, <2>2, <3>1, TurnFollows
    <3>3. Len(t.fills) = Len(s.fills) + 1
      <4>1. s.fills \in Seq(MakerFill) /\ t.fills \in Seq(MakerFill)
        BY <2>1 DEF MatchStates
      <4>2. t.fills = Append(s.fills, [owner |-> m.owner, price |-> m.price, size |-> size])
        BY <3>1 DEF Turned
      <4> DEFINE f == [owner |-> m.owner, price |-> m.price, size |-> size]
      <4> HIDE DEF f
      <4>3. Len(Append(s.fills, f)) = Len(s.fills) + 1
        BY <4>1
      <4> QED BY <4>2, <4>3 DEF f
    <3>4. Len(t.fills) = k
      BY <2>2, <2>4, <3>3
    <3> HIDE DEF M
    <3> QED BY <2>1, <3>2, <3>4 DEF t
  <2> QED BY <2>3, <2>4
<1>4. max_steps \in T
  <2> HIDE DEF T
  <2>1. \A k \in 0..max_steps : k \in T
    BY <1>2, <1>3, AllTurns
  <2> QED BY <2>1
<1> DEFINE s == run[max_steps]
<1>5. out = MatchOutcome(s, taker, kind)
  BY <1>1 DEF MatchRun, out
<1>6. M(s) /\ (MatchDone(s, taker, kind) \/ Len(s.fills) = max_steps)
  BY <1>4
<1> HIDE DEF s
<1>7. out.book = s.book /\ out.remaining = s.remaining /\ out.fills = s.fills
  BY <1>5 DEF MatchOutcome
<1>8. out.residual => ~MatchDone(s, taker, kind)
  <2>1. MatchOutcome(s, taker, kind).residual => ~MatchDone(s, taker, kind)
    BY DEF MatchOutcome
  <2> QED BY <1>5, <2>1
<1> QED BY <1>6, <1>7, <1>8 DEF MatchLeaves, out

-----------------------------------------------------------------------------
(* What becomes of a taker *)

(* What is left of a matched order rests, or is not asked for any more. *)
LEMMA AfterFollows ==
    ASSUME NEW n \in Nat, NEW next \in Nat, NEW out \in Outcomes(n, next),
           NEW b0 \in Settled, b0.next_seq <= n,
           NEW e \in Rings, NEW w0 \in Nat, NEW most \in [Owners \X Sides -> Nat],
           NEW taker \in Taker, taker.seq = n, taker.price # 0, ~out.residual,
           Follows(out.book, e, b0, w0, most, taker, out.remaining)
    PROVE  Follows(BookAfter(out, taker), e, b0, w0, most, taker, 0)
<1> DEFINE o == Remainder(out, taker)
<1>0. b0.next_seq \in Nat /\ b0 \in Books(b0.next_seq, b0.next_seq)
  BY DEF Settled
<1>1. /\ out.book \in Books(n, next) /\ out.remaining \in Nat
      /\ out.remaining > 0 => out.remaining \in Lots
  BY OutcomeFacts
<1>2. Follows(out.book, e, b0, w0, most, taker, 0)
  BY <1>1, DropFollows
<1>3. CASE ~Rests(out)
  BY <1>2, <1>3 DEF BookAfter
<1>4. CASE Rests(out)
  <2>1. /\ o \in Taker /\ o.seq = n /\ o.price # 0 /\ o.size = out.remaining
        /\ o.owner = taker.owner /\ o.side = taker.side
    <3>1. out.remaining \in Lots
      BY <1>1, <1>4 DEF Rests
    <3> QED BY <3>1 DEF Remainder, Taker
  <2>2. BookAfter(out, taker) = RestRemainder(out.book, o)
    BY <1>4 DEF BookAfter
  <2> HIDE DEF o
  <2>3. CASE would_cross(out.book, o) \/ ~HasSpace(out.book, o.side)
    BY <1>2, <2>2, <2>3 DEF RestRemainder
  <2>4. CASE ~would_cross(out.book, o) /\ HasSpace(out.book, o.side)
    <3>1. post_limit(out.book, o) \in Books(n + 1, next)
      BY <1>1, <2>1, <2>4, PostType
    <3>2. Follows(post_limit(out.book, o), e, b0, w0, most, taker, 0)
      BY <1>0, <1>1, <2>1, <3>1, PostFollows
    <3> QED BY <2>2, <2>4, <3>2 DEF RestRemainder
  <2> QED BY <2>3, <2>4
<1> QED BY <1>3, <1>4

(* No residual is among the first events from w0 on. *)
FillsFirst(r, w0) ==
    \A k \in w0..(w0 + MAX_MATCH_STEPS - 1) : k < r.write => EventAt(r, k).kind = "Fill"

(* What becomes of an order: all it asked for is accounted for. *)
Leaves(b, e, b0, r, w0, most, taker) ==
    Follows(b, e, b0, w0, most, taker, 0) /\ e.read = r.read

(* A limit order the ring has room for, wherever it comes from. *)
LEMMA LimitFollows ==
    ASSUME NEW n \in Nat, NEW next \in Nat, NEW b \in Books(n, next),
           NEW b0 \in Settled, b0.next_seq <= n,
           NEW r \in Rings, NEW w0 \in Nat, r.read <= w0, w0 <= r.write,
           NEW most \in [Owners \X Sides -> Nat],
           NEW taker \in Taker, taker.seq = n, taker.price # 0,
           Follows(b, r, b0, w0, most, taker, taker.size),
           HasRoom(r, EventsNeeded(match_limit(b, taker)))
    PROVE  /\ Leaves(match_limit_taker(b, r, taker).book, match_limit_taker(b, r, taker).ring,
                     b0, r, w0, most, taker)
           /\ FillsFirst(match_limit_taker(b, r, taker).ring, r.write)
<1> DEFINE taken == match_limit_taker(b, r, taker)
           out == match_limit(b, taker)
           e == emit_fill_events(r, out.fills, taker)
           d == Deferred(out, taker)
<1>1. out \in Outcomes(n, next)
  BY LimitMatched
<1>2. MAX_MATCH_STEPS \in Nat /\ r.read \in Nat /\ r.write \in Nat /\ EVENT_QUEUE_LEN \in Nat
  BY BookAssumption, RingFacts
<1>3. /\ Matched(out.book, out.remaining, out.fills, r, b0, w0, most, taker)
      /\ out.residual => Len(out.fills) = MAX_MATCH_STEPS
  <2>1. MatchLeaves(match_order(b, taker, "Limit", MAX_MATCH_STEPS), MAX_MATCH_STEPS,
                    r, b0, w0, most, taker)
    BY <1>2, MatchFollows
  <2> QED BY <2>1 DEF MatchLeaves, match_limit
<1>4. /\ taken.book = BookAfter(out, taker)
      /\ taken.ring = IF out.residual THEN append_event(e, d) ELSE e
  BY DEF match_limit_taker, settle_limit
<1> HIDE DEF out, taken
<1>5. /\ out.book \in Books(n, next) /\ out.fills \in Seq(MakerFill) /\ out.remaining \in Nat
      /\ out.residual \in BOOLEAN /\ (out.residual => out.remaining > 0 /\ out.remaining \in Lots)
  BY <1>1, OutcomeFacts
<1>6. Len(out.fills) \in Nat
  BY <1>5
<1>7. HasRoom(r, Len(out.fills)) /\ (out.residual => HasRoom(r, Len(out.fills) + 1))
  <2>1. HasRoom(r, EventsNeeded(out))
    BY DEF out
  <2>2. CASE out.residual
    <3>1. EventsNeeded(out) = Len(out.fills) + 1
      BY <2>2, Zenon DEF EventsNeeded
    <3> QED BY <1>2, <1>6, <2>1, <3>1 DEF HasRoom, queued
  <2>3. CASE ~out.residual
    <3>1. EventsNeeded(out) = Len(out.fills) + 0
      BY <2>3, Zenon DEF EventsNeeded
    <3> QED BY <1>2, <1>6, <2>1, <2>3, <3>1 DEF HasRoom, queued
  <2> QED BY <2>2, <2>3
<1>8. Follows(out.book, e, b0, w0, most, taker, out.remaining) /\ Emitted(e, r, Len(out.fills))
  BY <1>3, <1>7 DEF Matched
<1> HIDE DEF e
<1>9. /\ e \in Rings /\ e.read = r.read /\ e.write = r.write + Len(out.fills)
      /\ \A k \in r.write..(e.write - 1) : EventAt(e, k).kind = "Fill"
  BY <1>8 DEF Emitted
<1>10. CASE ~out.residual
  <2>1. Follows(BookAfter(out, taker), e, b0, w0, most, taker, 0)
    BY <1>1, <1>8, <1>9, <1>10, AfterFollows
  <2>2. FillsFirst(e, r.write)
    <3>1. e.write \in Nat
      BY <1>2, <1>6, <1>9
    <3> SUFFICES ASSUME NEW k \in r.write..(r.write + MAX_MATCH_STEPS - 1), k < e.write
                 PROVE  EventAt(e, k).kind = "Fill"
      BY DEF FillsFirst
    <3>2. k \in r.write..(e.write - 1)
      BY <1>2, <3>1
    <3> QED BY <1>9, <3>2
  <2> QED BY <1>4, <1>9, <1>10, <2>1, <2>2 DEF Leaves, taken
<1>11. CASE out.residual
  <2> DEFINE t == append_event(e, d)
  <2>1. /\ Len(out.fills) = MAX_MATCH_STEPS
        /\ out.remaining \in Lots /\ out.remaining \in Nat \ {0}
    BY <1>3, <1>5, <1>11
  <2>2. /\ d \in OutEvents /\ d.kind = "Residual" /\ d.owner = taker.owner
        /\ d.side = taker.side /\ d.size = out.remaining
    <3>1. taker.owner \in Owners /\ taker.side \in Sides /\ taker.price \in Limits \ {0}
      BY DEF Taker
    <3>2. taker.price \in Nat \ {0}
      BY <3>1, LimitTypes
    <3> QED BY <2>1, <3>1, <3>2 DEF Event, Deferred, OutEvents, OutEvent, ResidualSize
  <2> HIDE DEF d
  <2>3. HasRoom(e, 1) /\ e.read <= w0 /\ w0 <= e.write
    BY <1>2, <1>6, <1>7, <1>9, <1>11 DEF HasRoom, queued
  <2>4. Follows(out.book, t, b0, w0, most, taker, 0)
    BY <1>5, <1>8, <1>9, <2>2, <2>3, ResidualFollows
  <2>5. /\ t.read = r.read /\ t.write = e.write + 1
        /\ \A k \in e.read..(e.write - 1) : EventAt(t, k) = EventAt(e, k)
    BY <1>9, <2>2, <2>3, AppendFacts
  <2> HIDE DEF t
  <2>6. FillsFirst(t, r.write)
    <3> SUFFICES ASSUME NEW k \in r.write..(r.write + MAX_MATCH_STEPS - 1)
                 PROVE  EventAt(t, k).kind = "Fill"
      BY DEF FillsFirst
    <3>1. e.write = r.write + MAX_MATCH_STEPS /\ e.read <= r.write /\ e.read \in Nat
      BY <1>2, <1>9, <2>1, RingFacts
    <3>2. k \in r.write..(e.write - 1) /\ k \in e.read..(e.write - 1)
      BY <1>2, <3>1
    <3> QED BY <1>9, <2>5, <3>2
  <2>7. BookAfter(out, taker) = out.book
    BY <1>11 DEF BookAfter, Rests
  <2> QED BY <1>4, <1>11, <2>4, <2>5, <2>6, <2>7 DEF t, Leaves, taken
<1> QED BY <1>5, <1>10, <1>11 DEF taken

(* The same of an order that opens a position: its residual is cancelled. *)
LEMMA OpenFollows ==
    ASSUME NEW n \in Nat, NEW next \in Nat, NEW b \in Books(n, next),
           NEW b0 \in Settled, b0.next_seq <= n,
           NEW r \in Rings, NEW w0 \in Nat, r.read <= w0, w0 <= r.write,
           NEW most \in [Owners \X Sides -> Nat],
           NEW taker \in Taker, taker.seq = n, taker.price # 0,
           Follows(b, r, b0, w0, most, taker, taker.size), match_open_taker(b, r, taker).ok
    PROVE  Leaves(match_open_taker(b, r, taker).book, match_open_taker(b, r, taker).ring,
                  b0, r, w0, most, taker)
<1> DEFINE taken == match_open_taker(b, r, taker)
           out == match_limit(b, taker)
           e == emit_fill_events(r, out.fills, taker)
<1>1. out \in Outcomes(n, next)
  BY LimitMatched
<1>2. Matched(out.book, out.remaining, out.fills, r, b0, w0, most, taker)
  <2>1. MAX_MATCH_STEPS \in Nat
    BY BookAssumption
  <2>2. MatchLeaves(match_order(b, taker, "Limit", MAX_MATCH_STEPS), MAX_MATCH_STEPS,
                    r, b0, w0, most, taker)
    BY <2>1, MatchFollows
  <2> QED BY <2>2 DEF MatchLeaves, match_limit
<1>3. taken.book = BookAfter(out, taker) /\ taken.ring = e /\ HasRoom(r, Len(out.fills))
  BY DEF match_open_taker, settle_open
<1> HIDE DEF out, taken
<1>4. out.book \in Books(n, next) /\ out.remaining \in Nat
  BY <1>1, OutcomeFacts
<1>5. Follows(out.book, e, b0, w0, most, taker, out.remaining) /\ Emitted(e, r, Len(out.fills))
  BY <1>2, <1>3 DEF Matched
<1> HIDE DEF e
<1>6. e \in Rings /\ e.read = r.read
  BY <1>5 DEF Emitted
<1>7. CASE ~out.residual
  <2>1. Follows(BookAfter(out, taker), e, b0, w0, most, taker, 0)
    BY <1>1, <1>5, <1>6, <1>7, AfterFollows
  <2> QED BY <1>3, <1>6, <2>1 DEF Leaves, taken
<1>8. CASE out.residual
  <2>1. Follows(out.book, e, b0, w0, most, taker, 0)
    BY <1>4, <1>5, <1>6, DropFollows
  <2>2. BookAfter(out, taker) = out.book
    BY <1>8 DEF BookAfter, Rests
  <2> QED BY <1>3, <1>6, <2>1, <2>2 DEF Leaves, taken
<1> QED BY <1>7, <1>8

(* The same of a market order: what it cannot get is not asked for any more. *)
LEMMA MarketFollows ==
    ASSUME NEW n \in Nat, NEW next \in Nat, NEW b \in Books(n, next),
           NEW b0 \in Settled,
           NEW r \in Rings, NEW w0 \in Nat, r.read <= w0, w0 <= r.write,
           NEW most \in [Owners \X Sides -> Nat], NEW taker \in Taker,
           Follows(b, r, b0, w0, most, taker, taker.size),
           HasRoom(r, Len(match_market(b, taker).fills))
    PROVE  Leaves(match_market(b, taker).book,
                  emit_fill_events(r, match_market(b, taker).fills, taker),
                  b0, r, w0, most, taker)
<1> DEFINE out == match_market(b, taker)
           e == emit_fill_events(r, out.fills, taker)
<1>1. Len(b[Opposite(taker.side)]) \in Nat
  <2>1. Opposite(taker.side) \in Sides
    BY DEF Taker, Sides, Opposite
  <2> QED BY <2>1, BookFacts
<1>2. Matched(out.book, out.remaining, out.fills, r, b0, w0, most, taker)
  <2> DEFINE max == Len(b[Opposite(taker.side)])
  <2>1. MatchLeaves(match_order(b, taker, "Market", max), max, r, b0, w0, most, taker)
    <3> HIDE DEF max
    <3> QED BY <1>1, MatchFollows DEF max
  <2> QED BY <2>1 DEF MatchLeaves, match_market
<1>3. out.book \in Books(n, next) /\ out.remaining \in Nat
  BY LimitMatched, OutcomeFacts
<1>4. Follows(out.book, e, b0, w0, most, taker, out.remaining) /\ e \in Rings /\ e.read = r.read
  BY <1>2 DEF Matched, Emitted
<1> HIDE DEF out, e
<1>5. Follows(out.book, e, b0, w0, most, taker, 0)
  BY <1>3, <1>4, DropFollows
<1> QED BY <1>4, <1>5 DEF Leaves, out, e

(* A book matches a taker the same way when it has given out a number more. *)
Numbered(s) ==
    [book |-> take_next_seq(s.book), remaining |-> s.remaining, fills |-> s.fills]

(* One turn of the loop does not look at the number. *)
LEMMA NumberedTurn ==
    ASSUME NEW n \in Nat, NEW next \in Nat, NEW s \in MatchStates(n, next),
           NEW taker \in Taker, NEW kind
    PROVE  /\ MatchTurn(Numbered(s), taker, kind) = Numbered(MatchTurn(s, taker, kind))
           /\ MatchDone(Numbered(s), taker, kind) <=> MatchDone(s, taker, kind)
<1> DEFINE b == s.book
           c == take_next_seq(b)
           side == Opposite(taker.side)
           i == best_crossable_maker(b, taker, kind)
<1>1. /\ b \in [Bid : Lists, Ask : Lists, next_seq : {next}]
      /\ s = [book |-> b, remaining |-> s.remaining, fills |-> s.fills]
  BY DEF MatchStates, Books
<1>2. side \in Sides
  BY DEF Taker, Sides, Opposite
<1>3. \A x \in Sides : c[x] = b[x]
  BY <1>1 DEF take_next_seq, Sides
<1>4. c[side] = b[side]
  BY <1>2, <1>3
<1> HIDE DEF c, b
<1>5. crossable_makers(c, taker, kind) = crossable_makers(b, taker, kind)
  BY <1>4 DEF crossable_makers
<1>6. best_crossable_maker(c, taker, kind) = i
  BY <1>4, <1>5 DEF best_crossable_maker
<1>7. /\ Numbered(s).book = c /\ Numbered(s).remaining = s.remaining
      /\ Numbered(s).fills = s.fills
  BY DEF Numbered, c, b
<1>8. MatchDone(Numbered(s), taker, kind) <=> MatchDone(s, taker, kind)
  BY <1>5, <1>7 DEF MatchDone, b
<1>9. CASE MatchDone(s, taker, kind)
  BY <1>8, <1>9 DEF MatchTurn
<1>10. CASE ~MatchDone(s, taker, kind)
  <2> DEFINE maker == b[side][i]
             size == IF s.remaining <= maker.size THEN s.remaining ELSE maker.size
             l == Reduce(b[side], i, size)
             fill == [owner |-> maker.owner, price |-> maker.price, size |-> size]
  <2>1. MatchTurn(Numbered(s), taker, kind) =
          [book |-> [c EXCEPT ![side] = l], remaining |-> s.remaining - size,
           fills |-> Append(s.fills, fill)]
    <3>1. MatchTurn(Numbered(s), taker, kind) = FillMaker(Numbered(s), side, i)
      BY <1>6, <1>7, <1>8, <1>10 DEF MatchTurn
    <3> QED BY <1>4, <1>7, <3>1 DEF FillMaker
  <2>2. MatchTurn(s, taker, kind) =
          [book |-> [b EXCEPT ![side] = l], remaining |-> s.remaining - size,
           fills |-> Append(s.fills, fill)]
    BY <1>10 DEF MatchTurn, FillMaker, b
  <2> HIDE DEF l, fill, size
  <2>3. [c EXCEPT ![side] = l] = take_next_seq([b EXCEPT ![side] = l])
    BY <1>1, <1>2 DEF c, take_next_seq, Sides
  <2>4. Numbered(MatchTurn(s, taker, kind)) =
          [book |-> take_next_seq([b EXCEPT ![side] = l]), remaining |-> s.remaining - size,
           fills |-> Append(s.fills, fill)]
    BY <2>2 DEF Numbered
  <2> QED BY <1>8, <2>1, <2>3, <2>4
<1> QED BY <1>8, <1>9, <1>10

(* So the crank checks the room for the events that the resumed order will need. *)
LEMMA NumberedNeeds ==
    ASSUME NEW n \in Nat, NEW b \in Books(n, n), NEW taker \in Taker
    PROVE  EventsNeeded(match_limit(take_next_seq(b), taker)) = EventsNeeded(match_limit(b, taker))
<1> DEFINE c == take_next_seq(b)
           kind == "Limit"
           M == MAX_MATCH_STEPS
<1>1. c \in Books(n, n + 1) /\ M \in Nat /\ n + 1 \in Nat
  BY NumberTaken, BookAssumption
<1>2. PICK f : MatchRun(f, n, n, b, taker, kind, M)
  BY <1>1, MatchRuns
<1>3. PICK g : MatchRun(g, n, n + 1, c, taker, kind, M)
  <2> HIDE DEF c
  <2> QED BY <1>1, MatchRuns
<1> DEFINE T == {k \in 0..M : g[k] = Numbered(f[k])}
<1>4. M \in T
  <2>1. 0 \in T
    BY <1>1, <1>2, <1>3 DEF MatchRun, Numbered
  <2>2. ASSUME NEW k \in 1..M, k - 1 \in T PROVE k \in T
    <3>1. g[k - 1] = Numbered(f[k - 1]) /\ k \in 0..M /\ k - 1 \in 0..M
      BY <1>1, <2>2
    <3>2. /\ g[k] = MatchTurn(g[k - 1], taker, kind)
          /\ f[k] = MatchTurn(f[k - 1], taker, kind) /\ f[k - 1] \in MatchStates(n, n)
      BY <1>2, <1>3, <3>1 DEF MatchRun
    <3>3. g[k] = Numbered(f[k])
      BY <3>1, <3>2, NumberedTurn
    <3> QED BY <3>1, <3>3
  <2> HIDE DEF T
  <2>3. \A k \in 0..M : k \in T
    BY <1>1, <2>1, <2>2, AllTurns
  <2> QED BY <1>1, <2>3
<1> DEFINE s == f[M]
           t == g[M]
<1>5. /\ t = Numbered(s) /\ s \in MatchStates(n, n)
      /\ match_limit(b, taker) = MatchOutcome(s, taker, kind)
      /\ match_limit(c, taker) = MatchOutcome(t, taker, kind)
  BY <1>1, <1>2, <1>3, <1>4 DEF MatchRun, match_limit
<1> HIDE DEF s, t, c
<1>6. MatchDone(t, taker, kind) <=> MatchDone(s, taker, kind)
  BY <1>5, NumberedTurn
<1>7. t.fills = s.fills
  BY <1>5 DEF Numbered
<1>8. EventsNeeded(MatchOutcome(t, taker, kind)) = EventsNeeded(MatchOutcome(s, taker, kind))
  BY <1>6, <1>7 DEF EventsNeeded, MatchOutcome
<1> QED BY <1>5, <1>8 DEF c

-----------------------------------------------------------------------------
(* A whole crank *)

(* Nobody holds anything between instructions. *)
NoTaker == [owner |-> Nobody, side |-> "Bid"]

(* Once nothing is held it does not matter who held it. *)
LEMMA NothingHeld ==
    ASSUME NEW b, NEW r, NEW b0, NEW w0, NEW most, NEW taker, NEW other,
           Follows(b, r, b0, w0, most, taker, 0)
    PROVE  Follows(b, r, b0, w0, most, other, 0)
<1>1. \A owner, side : Held(taker, 0, owner, side) = 0 /\ Held(other, 0, owner, side) = 0
  BY DEF Held
<1>2. Conserved(b, r, w0, most, other, 0)
  BY <1>1 DEF Follows, Conserved
<1> QED BY <1>2 DEF Follows

(* What the crank has done in k turns, from the book b0 and the ring r0. *)
Draining(s, k, b0, r0, most) ==
    /\ Follows(s.book, s.ring, b0, r0.write, most, NoTaker, 0)
    /\ s.ring.read <= r0.read + k
    /\ s.ring.write <= r0.write + EVENT_QUEUE_LEN
    /\ FillsFirst(s.ring, r0.write)
    /\ b0.next_seq <= s.book.next_seq

(* A drained Residual is in the hand of the order that resumes it. *)
LEMMA PopDrains ==
    ASSUME NEW b0 \in Settled, NEW r0 \in Rings, NEW most \in [Owners \X Sides -> Nat],
           NEW s \in DrainStates(r0), queued(s.ring) # 0,
           NEW k \in Nat, Draining(s, k, b0, r0, most)
    PROVE  /\ Draining(Pop(s), k + 1, b0, r0, most)
           /\ NextEvent(s.ring).kind = "Residual" =>
                LET o == Order(s.book, NextEvent(s.ring))
                IN  Follows(s.book, Pop(s).ring, b0, r0.write, most, o, o.size)
<1> DEFINE r == s.ring
           t == Pop(s).ring
           e == NextEvent(s.ring)
           o == Order(s.book, e)
           n == s.book.next_seq
           w0 == r0.write
<1>1. r \in Rings /\ s \in [book : Settled, ring : Rings, dirty : BOOLEAN]
  BY DEF DrainStates
<1>2. n \in Nat /\ s.book \in Books(n, n)
  BY <1>1 DEF Settled
<1>3. r.read \in Nat /\ r.write \in Nat /\ r.read < r.write /\ w0 \in Nat /\ r0.read \in Nat
  BY <1>1, RingFacts DEF queued
<1>4. Pop(s).book = s.book /\ e \in OutEvents \cup {Unwritten}
  BY PopType
<1>5. t = [r EXCEPT !.read = @ + 1]
  BY <1>1 DEF Pop
<1>6. t.read = r.read + 1 /\ t.write = r.write /\ t.events = r.events
  BY <1>1, <1>5, RingFacts
<1>7. e = EventAt(r, r.read)
  BY DEF NextEvent, EventAt
<1>8. /\ Follows(s.book, r, b0, w0, most, NoTaker, 0)
      /\ r.read <= r0.read + k /\ FillsFirst(r, w0) /\ b0.next_seq <= n
      /\ r.write <= w0 + EVENT_QUEUE_LEN
  BY DEF Draining
<1>9. /\ t.read <= r0.read + (k + 1) /\ FillsFirst(t, w0)
      /\ t.write <= w0 + EVENT_QUEUE_LEN
  BY <1>3, <1>6, <1>8 DEF FillsFirst, EventAt
<1> HIDE DEF r, t, n, w0
<1>10. CASE e.kind # "Residual"
  <2>1. Follows(s.book, t, b0, w0, most, NoTaker, 0)
    <3> HIDE DEF e
    <3> QED BY <1>1, <1>2, <1>3, <1>5, <1>7, <1>8, <1>10, PopFollows
  <2> QED BY <1>4, <1>8, <1>9, <1>10, <2>1 DEF Draining, t, w0, n
<1>11. CASE e.kind = "Residual"
  <2>1. e \in OutEvents
    BY <1>4, <1>11 DEF Unwritten
  <2>2. o.owner = e.owner /\ o.side = e.side /\ o.size = e.size /\ o.size \in Nat
    BY <2>1 DEF Order, OutEvents, OutEvent
  <2> HIDE DEF e, o
  <2>3. Follows(s.book, t, b0, w0, most, o, o.size)
    BY <1>1, <1>2, <1>3, <1>5, <1>7, <1>8, <1>11, <2>1, <2>2, PopFollows
  <2>4. t \in Rings
    <3>1. Pop(s) \in DrainStates(r0)
      BY PopType
    <3> QED BY <3>1 DEF DrainStates, t
  <2>5. Follows(s.book, t, b0, w0, most, o, 0)
    BY <1>2, <1>3, <2>2, <2>3, <2>4, DropFollows
  <2>6. Follows(s.book, t, b0, w0, most, NoTaker, 0)
    BY <2>5, NothingHeld
  <2> QED BY <1>4, <1>8, <1>9, <2>3, <2>6 DEF Draining, t, w0, n, o, e
<1> QED BY <1>10, <1>11

(* The residual a turn resumes was in the ring before the crank: those it may *)
(* defer itself are further on than the crank goes.                           *)
LEMMA TurnDrains ==
    ASSUME BatchFits,
           NEW b0 \in Settled, NEW r0 \in Rings, r0.read < r0.write,
           NEW most \in [Owners \X Sides -> Nat],
           NEW s \in DrainStates(r0), NEW k \in 1..CRANK_BATCH_LEN,
           Draining(s, k - 1, b0, r0, most)
    PROVE  Draining(DrainTurn(s), k, b0, r0, most)
<1> DEFINE r == s.ring
           p == Pop(s)
           t == p.ring
           e == NextEvent(r)
           o == Order(s.book, e)
           n == s.book.next_seq
           w0 == r0.write
           M == MAX_MATCH_STEPS
<1>1. r \in Rings /\ s \in [book : Settled, ring : Rings, dirty : BOOLEAN] /\ Keeps(r, r0)
  BY DEF DrainStates
<1>2. n \in Nat /\ s.book \in Books(n, n)
  BY <1>1 DEF Settled
<1>3. /\ r.read \in Nat /\ r.write \in Nat /\ r.read <= r.write
      /\ w0 \in Nat /\ r0.read \in Nat /\ M \in Nat /\ CRANK_BATCH_LEN \in Nat
      /\ CRANK_BATCH_LEN <= M + 1 /\ EVENT_QUEUE_LEN \in Nat
  BY <1>1, RingFacts, BookAssumption DEF BatchFits
<1>4. /\ r.read <= r0.read + (k - 1) /\ FillsFirst(r, w0) /\ b0.next_seq <= n
      /\ Follows(s.book, r, b0, w0, most, NoTaker, 0)
      /\ r.write <= w0 + EVENT_QUEUE_LEN
  BY DEF Draining
<1>5. CASE queued(r) = 0
  <2>1. DrainTurn(s) = s
    BY <1>5 DEF DrainTurn
  <2>2. r.read <= r0.read + k
    BY <1>3, <1>4
  <2> QED BY <1>4, <2>1, <2>2 DEF Draining
<1>6. CASE queued(r) # 0
  <2>1. k - 1 \in Nat /\ (k - 1) + 1 = k
    OBVIOUS
  <2>2. /\ Draining(p, k, b0, r0, most)
        /\ e.kind = "Residual" => Follows(s.book, t, b0, w0, most, o, o.size)
    <3>1. /\ Draining(p, (k - 1) + 1, b0, r0, most)
          /\ e.kind = "Residual" => Follows(s.book, t, b0, w0, most, o, o.size)
      BY <1>6, <2>1, PopDrains
    <3> QED BY <2>1, <3>1
  <2>3. p \in DrainStates(r0) /\ p.book = s.book /\ e \in OutEvents \cup {Unwritten}
    BY <1>6, PopType
  <2>4. t.read = r.read + 1 /\ t.write = r.write /\ t \in Rings
    <3>1. t = [r EXCEPT !.read = @ + 1]
      BY <1>1 DEF Pop
    <3>2. t.read = r.read + 1 /\ t.write = r.write
      BY <1>1, <3>1, RingFacts
    <3> QED BY <2>3, <3>2 DEF DrainStates
  <2> HIDE DEF p
  <2>5. CASE ~(e.kind = "Residual" /\ ResumeFits(p, o))
    <3>1. DrainTurn(s) = p
      BY <1>6, <2>5 DEF DrainTurn, drain_one, p
    <3> QED BY <2>2, <3>1
  <2>6. CASE e.kind = "Residual" /\ ResumeFits(p, o)
    <3> DEFINE b == take_next_seq(p.book)
               taken == match_limit_taker(b, t, o)
    <3>1. DrainTurn(s) = [book |-> taken.book, ring |-> taken.ring, dirty |-> TRUE]
      BY <1>6, <2>6 DEF DrainTurn, drain_one, p, Resumed, resume
    <3>2. r.read < w0
      <4> SUFFICES ASSUME r.read >= w0 PROVE FALSE
        BY <1>3
      <4>1. r.read \in w0..(w0 + M - 1) /\ r.read < r.write
        BY <1>3, <1>4, <1>6 DEF queued
      <4>2. EventAt(r, r.read).kind = "Fill"
        BY <1>4, <4>1 DEF FillsFirst
      <4> QED BY <2>6, <4>2 DEF NextEvent, EventAt
    <3>3. t.read <= w0 /\ w0 <= t.write
      BY <1>1, <1>3, <2>4, <3>2 DEF Keeps
    <3>4. e \in OutEvents
      BY <2>3, <2>6 DEF Unwritten
    <3>5. o \in Taker /\ o.seq = n /\ o.price # 0
      BY <1>2, <3>4 DEF Order, OutEvents, OutEvent, Taker
    <3>6. b \in Books(n, n + 1)
      BY <1>2, <2>3, NumberTaken
    <3>7. Follows(b, t, b0, w0, most, o, o.size)
      <4>1. \A side \in Sides : OrdersOf(b, side) = OrdersOf(s.book, side)
        <5>1. s.book \in [Bid : Lists, Ask : Lists, next_seq : {n}]
          BY <1>2 DEF Books
        <5>2. b.Bid = s.book.Bid /\ b.Ask = s.book.Ask
          BY <2>3, <5>1 DEF take_next_seq
        <5> HIDE DEF b
        <5> QED BY <5>2 DEF OrdersOf, Sides
      <4>2. Follows(s.book, t, b0, w0, most, o, o.size)
        BY <2>2, <2>6
      <4> HIDE DEF b, t, o, w0
      <4> QED BY <4>1, <4>2, SameOrdersFollow
    <3>8. HasRoom(t, EventsNeeded(match_limit(b, o)))
      <4>1. ResumeFits(p, o)
        BY <2>6
      <4>2. HasRoom(t, EventsNeeded(match_limit(s.book, o)))
        BY <2>3, <4>1 DEF ResumeFits
      <4>3. EventsNeeded(match_limit(b, o)) = EventsNeeded(match_limit(s.book, o))
        <5> HIDE DEF o
        <5> QED BY <1>2, <2>3, <3>5, NumberedNeeds
      <4> HIDE DEF t, b, o
      <4> QED BY <4>2, <4>3
    <3>9. n + 1 \in Nat
      BY <1>2
    <3> HIDE DEF b, t, o, taken, e
    <3>10. /\ Follows(taken.book, taken.ring, b0, w0, most, o, 0)
           /\ taken.ring.read = t.read /\ FillsFirst(taken.ring, t.write)
      <4>1. /\ Leaves(taken.book, taken.ring, b0, t, w0, most, o)
            /\ FillsFirst(taken.ring, t.write)
        <5>1. t.read <= w0 /\ w0 <= t.write /\ w0 \in Nat /\ b0.next_seq <= n /\ n \in Nat
          BY <1>2, <1>3, <1>4, <3>3
        <5>2. o \in Taker /\ o.seq = n /\ o.price # 0 /\ t \in Rings
          BY <2>4, <3>5
        <5> HIDE DEF n, w0
        <5> QED BY <3>6, <3>7, <3>8, <3>9, <5>1, <5>2, LimitFollows DEF taken
      <4> QED BY <4>1 DEF Leaves
    <3>11. taken.book \in Books(n + 1, n + 1) /\ taken.ring \in Rings /\ Keeps(taken.ring, t)
      BY <1>2, <2>4, <3>5, <3>6, <3>9, LimitTaken DEF taken
    <3>12. Follows(taken.book, taken.ring, b0, w0, most, NoTaker, 0)
      BY <3>10, NothingHeld
    <3>13. FillsFirst(taken.ring, w0)
      <4> SUFFICES ASSUME NEW i \in w0..(w0 + M - 1), i < taken.ring.write
                   PROVE  EventAt(taken.ring, i).kind = "Fill"
        BY DEF FillsFirst
      <4>1. i \in Nat /\ t.read \in Nat /\ t.write \in Nat
        BY <1>3, <2>4
      <4>2. CASE i < t.write
        <5>1. i \in t.read..(t.write - 1)
          BY <1>3, <3>3, <4>1, <4>2
        <5>2. EventAt(taken.ring, i) = EventAt(t, i)
          BY <3>11, <3>10, <5>1 DEF Keeps, EventAt
        <5>3. FillsFirst(t, w0)
          BY <2>2 DEF Draining, t
        <5> QED BY <4>2, <5>2, <5>3 DEF FillsFirst
      <4>3. CASE i >= t.write
        <5>1. i \in t.write..(t.write + M - 1)
          BY <1>3, <3>3, <4>1, <4>3
        <5> QED BY <3>10, <5>1 DEF FillsFirst
      <4> QED BY <4>1, <4>2, <4>3
    <3>14. b0.next_seq <= taken.book.next_seq
      <4>1. taken.book.next_seq = n + 1 /\ b0.next_seq \in Nat
        BY <3>11 DEF Books, Settled
      <4> QED BY <1>2, <1>4, <4>1
    <3>15. taken.ring.read <= r0.read + k
      BY <1>3, <1>4, <2>4, <3>10
    <3>16. taken.ring.write <= w0 + EVENT_QUEUE_LEN
      <4>1. /\ taken.ring.read \in Nat /\ taken.ring.write \in Nat
            /\ taken.ring.write - taken.ring.read <= EVENT_QUEUE_LEN
        BY <3>11 DEF Rings
      <4>2. taken.ring.read <= w0
        BY <3>3, <3>10
      <4> QED BY <1>3, <4>1, <4>2
    <3> QED BY <3>1, <3>12, <3>13, <3>14, <3>15, <3>16 DEF Draining
  <2> QED BY <2>5, <2>6
<1> QED BY <1>5, <1>6

(* What each trader has resting, deferred and in hand before a step. *)
Start(b, r, taker, amount) ==
    [p \in Owners \X Sides |->
       RestingOf(b, p[1], p[2]) + SumIn(r, r.read, ResidualsK(p[1], p[2]))
         + Held(taker, amount, p[1], p[2])]

(* No event has been appended since now. *)
LEMMA NothingYet ==
    ASSUME NEW r \in Rings, NEW K \in SUBSET OutEvents
    PROVE  SumIn(r, r.write, K) = 0
<1>1. r.write \in Nat
  BY RingFacts
<1>2. In(r, r.write, K) = {}
  BY <1>1 DEF In
<1> DEFINE f == [n \in In(r, r.write, K) |-> EventAt(r, n).size]
<1>3. f \in [{} -> {0}]
  BY <1>2
<1> HIDE DEF f
<1>4. SumFunction(f) = 0
  BY <1>3, FS_EmptySet, SumZero
<1> QED BY <1>4 DEF f, SumIn

(* No order has lost anything since now. *)
LEMMA NothingLost ==
    ASSUME NEW b \in Settled, NEW side \in Sides, NEW owner, NEW price
    PROVE  Lost(b, b, side, owner, price) = 0
<1> DEFINE G == Group(b, side, owner, price)
           f == [o \in G |-> o.size - LeftIn(b, side, o)]
           n == b.next_seq
<1>1. n \in Nat /\ b \in Books(n, n)
  BY DEF Settled
<1>2. /\ IsFiniteSet(OrdersOf(b, side)) /\ G \subseteq OrdersOf(b, side)
      /\ \A o \in OrdersOf(b, side) : o.size \in Nat
  BY <1>1, OrderFacts DEF Group
<1>3. \A o \in G : o.size - LeftIn(b, side, o) = 0
  <2> TAKE o \in G
  <2>1. o \in OrdersOf(b, side) /\ o.size \in Nat
    BY <1>2
  <2>2. LeftIn(b, side, o) = o.size
    BY <1>1, <2>1, LeftFacts
  <2> QED BY <2>1, <2>2
<1>4. f \in [G -> {0}]
  BY <1>3
<1>5. IsFiniteSet(G)
  BY <1>2, FS_Subset
<1> HIDE DEF f, G
<1>6. SumFunction(f) = 0
  BY <1>4, <1>5, SumZero
<1> QED BY <1>6 DEF Lost, f, G

(* The book and the ring follow from themselves. *)
LEMMA StartFollows ==
    ASSUME NEW b \in Settled, NEW r \in Rings, NEW taker, NEW amount \in Nat
    PROVE  /\ Start(b, r, taker, amount) \in [Owners \X Sides -> Nat]
           /\ Follows(b, r, b, r.write, Start(b, r, taker, amount), taker, amount)
<1> DEFINE most == Start(b, r, taker, amount)
           n == b.next_seq
<1>1. n \in Nat /\ b \in Books(n, n) /\ r.write \in Nat
  BY RingFacts DEF Settled
<1>2. ASSUME NEW owner \in Owners, NEW side \in Sides
      PROVE  /\ RestingOf(b, owner, side) \in Nat
             /\ SumIn(r, r.read, ResidualsK(owner, side)) \in Nat
             /\ SumIn(r, r.write, TradesK(owner, side)) = 0
             /\ Held(taker, amount, owner, side) \in Nat
             /\ most[<<owner, side>>] = RestingOf(b, owner, side)
                  + SumIn(r, r.read, ResidualsK(owner, side)) + Held(taker, amount, owner, side)
  <2>1. RestingOf(b, owner, side) \in Nat
    BY <1>1, RestingFacts
  <2>2. /\ SumIn(r, r.read, ResidualsK(owner, side)) \in Nat
        /\ TradesK(owner, side) \in SUBSET OutEvents
    BY <1>1, SumsOf
  <2>3. SumIn(r, r.write, TradesK(owner, side)) = 0
    BY <2>2, NothingYet
  <2>4. Held(taker, amount, owner, side) \in Nat
    BY DEF Held
  <2>5. most[<<owner, side>>] = RestingOf(b, owner, side)
          + SumIn(r, r.read, ResidualsK(owner, side)) + Held(taker, amount, owner, side)
    BY DEF Start
  <2> QED BY <2>1, <2>2, <2>3, <2>4, <2>5
<1>3. most \in [Owners \X Sides -> Nat]
  <2>1. ASSUME NEW p \in Owners \X Sides
        PROVE  RestingOf(b, p[1], p[2]) + SumIn(r, r.read, ResidualsK(p[1], p[2]))
                 + Held(taker, amount, p[1], p[2]) \in Nat
    BY <1>2
  <2> QED BY <2>1 DEF Start
<1> HIDE DEF most
<1>4. Descends(b, b)
  <2> SUFFICES ASSUME NEW side \in Sides, NEW p \in OrdersOf(b, side)
               PROVE  p.size <= p.size
    BY DEF Descends
  <2>1. p.size \in Nat
    BY <1>1, OrderFacts
  <2> QED BY <2>1
<1>5. Priority(b, r, b, r.write)
  BY DEF Priority
<1>6. Persisted(b, r, b, r.write)
  <2> SUFFICES ASSUME NEW side \in Sides, NEW owner \in Owners, NEW price \in Nat
               PROVE  Lost(b, b, side, owner, price)
                        <= SumIn(r, r.write, FillsK(side, owner, price))
    BY DEF Persisted
  <2>1. FillsK(side, owner, price) \in SUBSET OutEvents
    BY DEF FillsK
  <2>2. SumIn(r, r.write, FillsK(side, owner, price)) = 0
    BY <2>1, NothingYet
  <2>3. Lost(b, b, side, owner, price) = 0
    BY NothingLost
  <2> QED BY <2>2, <2>3
<1>7. Conserved(b, r, r.write, most, taker, amount)
  <2> SUFFICES ASSUME NEW owner \in Owners, NEW side \in Sides
               PROVE  RestingOf(b, owner, side) + SumIn(r, r.read, ResidualsK(owner, side))
                        + SumIn(r, r.write, TradesK(owner, side)) + Held(taker, amount, owner, side)
                        <= most[<<owner, side>>]
    BY DEF Conserved
  <2> QED BY <1>2
<1> QED BY <1>3, <1>4, <1>5, <1>6, <1>7 DEF Follows, most

(* The book the crank has not resumed a residual in is as it was. *)
Clean(s, b) == s.dirty = FALSE => s.book = b

(* By induction on the events that a crank drains. *)
LEMMA DrainFollows ==
    ASSUME BatchFits,
           book \in Settled, ring \in Rings, ring.read < ring.write,
           NEW most \in [Owners \X Sides -> Nat],
           Follows(book, ring, book, ring.write, most, NoTaker, 0)
    PROVE  /\ Follows(drain_events.book, drain_events.ring, book, ring.write, most, NoTaker, 0)
           /\ drain_events.ring.write <= ring.write + EVENT_QUEUE_LEN
           /\ Clean(drain_events, book)
<1> DEFINE L == CRANK_BATCH_LEN
<1>1. L \in Nat /\ ring.read \in Nat /\ ring.write \in Nat /\ book.next_seq \in Nat
  BY BookAssumption, RingFacts DEF Settled
<1>2. PICK run : DrainRun(run)
  BY DrainRuns
<1>3. /\ run[0] = [book |-> book, ring |-> ring, dirty |-> FALSE]
      /\ \A k \in 1..L : run[k] = DrainTurn(run[k - 1])
      /\ \A k \in 0..L : run[k] \in DrainStates(ring)
      /\ drain_events = run[L]
  BY <1>2 DEF DrainRun
<1> DEFINE T == {k \in 0..L : Draining(run[k], k, book, ring, most) /\ Clean(run[k], book)}
<1>4. 0 \in T
  <2>1. FillsFirst(ring, ring.write)
    BY <1>1 DEF FillsFirst
  <2>2. /\ ring.read <= ring.read + 0 /\ book.next_seq <= book.next_seq /\ 0 \in 0..L
        /\ ring.write <= ring.write + EVENT_QUEUE_LEN
    BY <1>1, BookAssumption
  <2>3. run[0].book = book /\ run[0].ring = ring
    BY <1>3
  <2>4. Draining(run[0], 0, book, ring, most)
    BY <2>1, <2>2, <2>3 DEF Draining
  <2>5. Clean(run[0], book)
    BY <2>3 DEF Clean
  <2> QED BY <2>2, <2>4, <2>5
<1>5. ASSUME NEW k \in 1..L, k - 1 \in T PROVE k \in T
  <2> DEFINE s == run[k - 1]
  <2>1. k - 1 \in 0..L /\ k \in 0..L
    BY <1>1
  <2>2. s \in DrainStates(ring) /\ run[k] = DrainTurn(s)
    BY <1>3, <2>1
  <2>3. Draining(s, k - 1, book, ring, most) /\ Clean(s, book)
    BY <1>5
  <2> HIDE DEF s
  <2>4. Draining(DrainTurn(s), k, book, ring, most)
    BY <2>2, <2>3, TurnDrains
  <2>5. Clean(DrainTurn(s), book)
    <3>1. s \in [book : Settled, ring : Rings, dirty : BOOLEAN]
      BY <2>2 DEF DrainStates
    <3>2. Pop(s).book = s.book /\ Pop(s).dirty = s.dirty
      BY <3>1 DEF Pop
    <3>3. \A taken : Resumed(taken).dirty = TRUE
      BY DEF Resumed
    <3> QED BY <2>3, <3>2, <3>3 DEF DrainTurn, drain_one, Clean
  <2> QED BY <2>1, <2>2, <2>4, <2>5
<1>6. L \in T
  <2> HIDE DEF T, L
  <2>1. \A k \in 0..L : k \in T
    BY <1>1, <1>4, <1>5, AllTurns
  <2> QED BY <1>1, <2>1
<1> QED BY <1>3, <1>6 DEF Draining

-----------------------------------------------------------------------------
(* The steps of the specification *)

(* A step that gives out what a taker has asked for. *)
Followed(taker, amount) ==
    Follows(book', ring', book, ring.write, Start(book, ring, taker, amount), NoTaker, 0)
Placed(q) ==
    /\ Followed(Order(book, q), q.size)
    /\ ring'.read = ring.read
    /\ book'.next_seq = book.next_seq + 1
Kept ==
    /\ Conserved(book', ring', ring.write, Start(book, ring, NoTaker, 0), NoTaker, 0)
    /\ ring'.read = ring.read
    /\ book'.next_seq = book.next_seq

(* A new order holds what it asks for. *)
LEMMA NumberFollows ==
    ASSUME IInv, NEW q \in Requests
    PROVE  LET o == Order(book, q)
               most == Start(book, ring, o, q.size)
           IN  /\ o.size = q.size /\ q.size \in Nat
               /\ most \in [Owners \X Sides -> Nat]
               /\ Follows(take_next_seq(book), ring, book, ring.write, most, o, q.size)
<1> DEFINE o == Order(book, q)
           n == book.next_seq
           b == take_next_seq(book)
           most == Start(book, ring, o, q.size)
<1>1. n \in Nat /\ book \in Books(n, n) /\ book \in Settled /\ ring \in Rings
  BY OrderType DEF IInv
<1>2. o.size = q.size /\ q.size \in Nat
  <2>1. q \in [owner : Owners, side : Sides, price : Nat, size : Nat \ {0}]
    BY BookAssumption
  <2> QED BY <2>1 DEF Order
<1>3. \A side \in Sides : OrdersOf(b, side) = OrdersOf(book, side)
  <2>1. book \in [Bid : Lists, Ask : Lists, next_seq : {n}]
    BY <1>1 DEF Books
  <2>2. b.Bid = book.Bid /\ b.Ask = book.Ask
    BY <2>1 DEF take_next_seq
  <2> HIDE DEF b
  <2> QED BY <2>2 DEF OrdersOf, Sides
<1> HIDE DEF o, n, b
<1>4. /\ most \in [Owners \X Sides -> Nat]
      /\ Follows(book, ring, book, ring.write, most, o, q.size)
  BY <1>1, <1>2, StartFollows
<1> HIDE DEF most
<1>5. Follows(b, ring, book, ring.write, most, o, q.size)
  BY <1>3, <1>4, SameOrdersFollow
<1> QED BY <1>2, <1>4, <1>5 DEF most, o, b

(* A non-crossing order is posted. *)
LEMMA RestFollows ==
    ASSUME IInv, NEW q \in Requests, rest_order(Order(book, q))
    PROVE  Placed(q)
<1> DEFINE o == Order(book, q)
           n == book.next_seq
           b == take_next_seq(book)
           most == Start(book, ring, o, q.size)
           w0 == ring.write
<1>1. /\ o \in Taker /\ o.seq = n /\ n \in Nat /\ book \in Books(n, n)
      /\ b \in Books(n, n + 1) /\ ring \in Rings /\ w0 \in Nat /\ n + 1 \in Nat /\ n <= n
  BY OrderType, RingFacts DEF IInv
<1>2. o.size = q.size /\ Follows(b, ring, book, w0, most, o, o.size)
  BY NumberFollows
<1>3. /\ o.price # 0 /\ ~would_cross(book, o) /\ HasSpace(book, o.side)
      /\ book' = post_limit(b, o) /\ UNCHANGED ringVars
  BY DEF rest_order, Save
<1>4. \A side \in Sides : b[side] = book[side]
  <2>1. book \in [Bid : Lists, Ask : Lists, next_seq : {n}]
    BY <1>1 DEF Books
  <2> QED BY <2>1 DEF take_next_seq, Sides
<1>5. o.side \in Sides /\ Opposite(o.side) \in Sides
  BY <1>1 DEF Taker, Opposite, Sides
<1>6. ~would_cross(b, o) /\ HasSpace(b, o.side)
  BY <1>3, <1>4, <1>5 DEF would_cross, HasSpace, best_price, PricesOf
<1> HIDE DEF o, b, n, most, w0
<1>7. post_limit(b, o) \in Books(n + 1, n + 1)
  BY <1>1, <1>3, <1>6, PostType
<1>8. Follows(post_limit(b, o), ring, book, w0, most, o, 0)
  BY <1>1, <1>2, <1>3, <1>7, PostFollows
<1>9. Follows(post_limit(b, o), ring, book, w0, most, NoTaker, 0)
  BY <1>8, NothingHeld
<1>10. ring' = ring
  BY <1>3 DEF ringVars, ring
<1>11. book'.next_seq = n + 1
  BY <1>3, <1>7 DEF Books
<1> QED BY <1>2, <1>3, <1>9, <1>10, <1>11 DEF Placed, Followed, o, n, most, w0

(* A crossing limit order, placed or opening a position. *)
LEMMA LimitPlaced ==
    ASSUME IInv, NEW q \in Requests,
           \/ cross_limit(Order(book, q),
                          match_limit_taker(take_next_seq(book), ring, Order(book, q)))
           \/ cross_limit(Order(book, q),
                          match_open_taker(take_next_seq(book), ring, Order(book, q)))
    PROVE  Placed(q)
<1> DEFINE o == Order(book, q)
           n == book.next_seq
           b == take_next_seq(book)
           most == Start(book, ring, o, q.size)
           w0 == ring.write
<1>1. /\ o \in Taker /\ o.seq = n /\ n \in Nat /\ b \in Books(n, n + 1) /\ n + 1 \in Nat
      /\ book \in Settled /\ book.next_seq <= n
      /\ ring \in Rings /\ w0 \in Nat /\ ring.read <= w0 /\ w0 <= ring.write
  BY OrderType, RingFacts DEF IInv
<1>2. /\ o.size = q.size /\ most \in [Owners \X Sides -> Nat]
      /\ Follows(b, ring, book, w0, most, o, o.size)
  BY NumberFollows
<1>3. o.price # 0
  BY DEF cross_limit
<1>4. PICK taken \in {match_limit_taker(b, ring, o), match_open_taker(b, ring, o)} :
        taken.ok /\ Save(taken.book) /\ SaveRing(taken.ring)
  BY DEF cross_limit
<1> HIDE DEF o, n, b, most, w0
<1>5. taken.book \in Books(n + 1, n + 1) /\ taken.ring \in Rings
  BY <1>1, <1>3, <1>4, LimitTaken
<1>6. Leaves(taken.book, taken.ring, book, ring, w0, most, o)
  <2>1. CASE taken = match_open_taker(b, ring, o)
    BY <1>1, <1>2, <1>3, <1>4, <2>1, OpenFollows
  <2>2. CASE taken = match_limit_taker(b, ring, o)
    <3>1. HasRoom(ring, EventsNeeded(match_limit(b, o)))
      BY <1>4, <2>2 DEF match_limit_taker, settle_limit
    <3>2. Leaves(match_limit_taker(b, ring, o).book, match_limit_taker(b, ring, o).ring,
                 book, ring, w0, most, o)
      BY <1>1, <1>2, <1>3, <3>1, LimitFollows
    <3> QED BY <2>2, <3>2
  <2> QED BY <1>4, <2>1, <2>2
<1>7. Follows(taken.book, taken.ring, book, w0, most, NoTaker, 0) /\ taken.ring.read = ring.read
  BY <1>6, NothingHeld DEF Leaves
<1>8. ring' = taken.ring
  BY <1>4, <1>5, SaveRingKeeps
<1>9. book' = taken.book /\ taken.book.next_seq = n + 1
  BY <1>4, <1>5 DEF Save, Books
<1> QED BY <1>2, <1>7, <1>8, <1>9 DEF Placed, Followed, o, n, most, w0

(* A market order, whichever instruction sends it. *)
LEMMA MarketPlaced ==
    ASSUME IInv, NEW q \in Requests, cross_market(Order(book, q))
    PROVE  Placed(q)
<1> DEFINE o == Order(book, q)
           n == book.next_seq
           b == take_next_seq(book)
           out == match_market(b, o)
           r == emit_fill_events(ring, out.fills, o)
           most == Start(book, ring, o, q.size)
           w0 == ring.write
<1>1. /\ o \in Taker /\ n \in Nat /\ b \in Books(n, n + 1) /\ n + 1 \in Nat
      /\ book \in Settled
      /\ ring \in Rings /\ w0 \in Nat /\ ring.read <= w0 /\ w0 <= ring.write
  BY OrderType, RingFacts DEF IInv
<1>2. /\ o.size = q.size /\ most \in [Owners \X Sides -> Nat]
      /\ Follows(b, ring, book, w0, most, o, o.size)
  BY NumberFollows
<1>3. HasRoom(ring, Len(out.fills)) /\ Save(out.book) /\ SaveRing(r)
  BY DEF cross_market, take_market
<1> HIDE DEF o, n, b, most, w0
<1>4. Leaves(out.book, r, book, ring, w0, most, o)
  BY <1>1, <1>2, <1>3, MarketFollows
<1>5. out \in Outcomes(n, n + 1)
  BY <1>1, LimitMatched
<1> HIDE DEF out
<1>6. out.book \in Books(n, n + 1) /\ out.fills \in Seq(MakerFill)
  BY <1>1, <1>5, OutcomeFacts
<1>7. r \in Rings
  BY <1>1, <1>6, EmitType
<1> HIDE DEF r
<1>8. Follows(out.book, r, book, w0, most, NoTaker, 0) /\ r.read = ring.read
  BY <1>4, NothingHeld DEF Leaves
<1>9. ring' = r
  BY <1>3, <1>7, SaveRingKeeps
<1>10. book' = out.book /\ out.book.next_seq = n + 1
  BY <1>3, <1>6 DEF Save, Books
<1> QED BY <1>2, <1>8, <1>9, <1>10 DEF Placed, Followed, o, n, most, w0

(* The crank asks for nothing of its own. *)
LEMMA CrankFollows ==
    ASSUME BatchFits, IInv, crank
    PROVE  Followed(NoTaker, 0) /\ ring'.write <= ring.write + EVENT_QUEUE_LEN
<1> DEFINE most == Start(book, ring, NoTaker, 0)
           out == drain_events
<1>1. book \in Settled /\ ring \in Rings /\ ring.read \in Nat /\ ring.write \in Nat
  BY RingFacts DEF IInv
<1>2. /\ most \in [Owners \X Sides -> Nat]
      /\ Follows(book, ring, book, ring.write, most, NoTaker, 0)
  BY <1>1, StartFollows
<1>3. /\ queued(ring) > 0 /\ SaveRing(out.ring)
      /\ IF out.dirty THEN Save(out.book) ELSE UNCHANGED <<book, twapVars>>
  BY DEF crank, SaveDrained
<1> HIDE DEF most
<1>4. ring.read < ring.write
  BY <1>1, <1>3 DEF queued
<1>5. /\ Follows(out.book, out.ring, book, ring.write, most, NoTaker, 0)
      /\ Clean(out, book) /\ out.ring.write <= ring.write + EVENT_QUEUE_LEN
  BY <1>1, <1>2, <1>4, DrainFollows
<1>6. out \in DrainStates(ring)
  BY <1>1, DrainType
<1> HIDE DEF out
<1>7. ring' = out.ring /\ out.dirty \in BOOLEAN
  BY <1>3, <1>6, SaveRingKeeps DEF DrainStates
<1>8. book' = out.book
  BY <1>3, <1>5, <1>7 DEF Save, Clean
<1> QED BY <1>5, <1>7, <1>8 DEF Followed, most

(* A cancellation may only lower what a trader has. *)
LEMMA CancelKeeps ==
    ASSUME IInv, NEW side \in Sides, NEW i, cancel_order(side, i)
    PROVE  Kept
<1> DEFINE most == Start(book, ring, NoTaker, 0)
           n == book.next_seq
           o == book[side][i]
           e == Event("Cancel", o.owner, Nobody, side, o.price, o.size)
<1>1. /\ n \in Nat /\ book \in Books(n, n) /\ book \in Settled /\ ring \in Rings
      /\ ring.write \in Nat /\ ring.read <= ring.write /\ ring.write <= ring.write
  BY RingFacts DEF IInv, Settled
<1>2. /\ book \in [Bid : Lists, Ask : Lists, next_seq : {n}]
      /\ DOMAIN book[side] = 1..Len(book[side])
      /\ \A k \in 1..Len(book[side]) : book[side][k] \in LimitOrder
  BY <1>1, BookFacts DEF Good
<1>3. /\ i \in 1..Len(book[side])
      /\ book' = [book EXCEPT ![side] = Remove(@, i)]
      /\ SaveRing(append_event(ring, e))
  BY <1>2 DEF cancel_order, Save
<1>4. o \in LimitOrder
  BY <1>2, <1>3
<1>5. e \in OutEvents /\ e.kind = "Cancel"
  BY <1>4, LimitTypes DEF Event, OutEvents, OutEvent, LimitOrder
<1>6. append_event(ring, e) \in Rings
  BY <1>1, <1>5, AppendType
<1> HIDE DEF e, n
<1>7. /\ most \in [Owners \X Sides -> Nat]
      /\ Follows(book, ring, book, ring.write, most, NoTaker, 0)
  BY <1>1, StartFollows
<1> HIDE DEF most
<1>8. Conserved([book EXCEPT ![side] = Remove(@, i)], append_event(ring, e),
                ring.write, most, NoTaker, 0)
  <2>1. Conserved(book, ring, ring.write, most, NoTaker, 0)
    BY <1>7 DEF Follows
  <2> QED BY <1>1, <1>3, <1>5, <1>7, <2>1, CancelConserves
<1>9. ring' = append_event(ring, e)
  BY <1>3, <1>6, SaveRingKeeps
<1>10. book'.next_seq = book.next_seq
  BY <1>2, <1>3 DEF Sides
<1>11. ring'.read = ring.read
  BY <1>1, <1>9, RingFacts DEF append_event
<1> QED BY <1>3, <1>8, <1>9, <1>10, <1>11 DEF Kept, most

(* So do the steps that leave book and ring alone. *)
LEMMA UnchangedKeeps ==
    ASSUME IInv, UNCHANGED <<book, ringVars>>
    PROVE  Kept
<1>1. book' = book /\ ring' = ring
  BY DEF ringVars, ring
<1>2. book \in Settled /\ ring \in Rings
  BY DEF IInv
<1>3. Follows(book, ring, book, ring.write, Start(book, ring, NoTaker, 0), NoTaker, 0)
  BY <1>2, StartFollows
<1> QED BY <1>1, <1>3 DEF Kept, Follows

(* What a step may do to the book and the ring. *)
Moved ==
    \/ \E q \in Requests : Placed(q)
    \/ Followed(NoTaker, 0) /\ ring'.write <= ring.write + EVENT_QUEUE_LEN
    \/ Kept

(* One case per instruction. *)
LEMMA NextMoves ==
    ASSUME BatchFits, IInv, [Next]_vars
    PROVE  Moved
<1>1. ASSUME NEW q \in Requests, place_limit_order(q) PROVE Placed(q)
  BY <1>1, RestFollows, LimitPlaced DEF place_limit_order
<1>2. ASSUME NEW q \in Requests, place_market_order(q) \/ close_position(q) PROVE Placed(q)
  BY <1>2, MarketPlaced DEF place_market_order, close_position
<1>3. ASSUME NEW q \in Requests, open_position(q) PROVE Placed(q)
  BY <1>3, RestFollows, LimitPlaced, MarketPlaced DEF open_position
<1>4. ASSUME NEW side \in Sides, NEW i \in 1..MAX_ORDERS_PER_SIDE, cancel_order(side, i)
      PROVE  Kept
  BY <1>4, CancelKeeps
<1>5. CASE crank
  BY <1>5, CrankFollows DEF Moved
<1>6. CASE tick
  BY <1>6, UnchangedKeeps DEF tick, Moved
<1>7. CASE UNCHANGED vars
  <2>1. UNCHANGED <<book, ringVars>>
    BY <1>7 DEF vars, ringVars
  <2> QED BY <2>1, UnchangedKeeps DEF Moved
<1> QED BY <1>1, <1>2, <1>3, <1>4, <1>5, <1>6, <1>7 DEF Next, Moved

-----------------------------------------------------------------------------
(* The steps as the properties of OrderBook see them *)

(* A slot holds an event or has never been written. *)
LEMMA EventTyped ==
    ASSUME NEW r \in Rings, NEW n \in Nat
    PROVE  EventAt(r, n) \in OutEvents \cup {Unwritten}
<1>1. r.events \in [RingSlots -> OutEvents \cup {Unwritten}]
  BY DEF Rings
<1>2. EVENT_QUEUE_LEN \in Nat \ {0}
  BY BookAssumption
<1>3. n % EVENT_QUEUE_LEN \in RingSlots
  BY <1>2 DEF RingSlots
<1> QED BY <1>1, <1>3 DEF EventAt

(* The events of one kind, as the properties of the module list them. *)
LEMMA OfKind ==
    ASSUME NEW r \in Rings, NEW lo \in Nat, NEW n \in lo..(r.write - 1)
    PROVE  /\ \A side, owner, price :
                EventAt(r, n) \in FillsK(side, owner, price) <=>
                  /\ EventAt(r, n).kind = "Fill"
                  /\ <<EventAt(r, n).side, EventAt(r, n).owner, EventAt(r, n).price>>
                       = <<side, owner, price>>
           /\ \A owner, side :
                /\ EventAt(r, n) \in ResidualsK(owner, side) <=>
                     /\ EventAt(r, n).kind = "Residual"
                     /\ EventAt(r, n).owner = owner /\ EventAt(r, n).side = side
                /\ EventAt(r, n) \in TradesK(owner, side) <=>
                     /\ EventAt(r, n).kind = "Fill"
                     /\ \/ EventAt(r, n).owner = owner /\ EventAt(r, n).side = side
                        \/ /\ EventAt(r, n).counterparty = owner
                           /\ EventAt(r, n).side = Opposite(side)
<1>1. r.write \in Nat
  BY RingFacts
<1>2. EventAt(r, n) \in OutEvents \cup {Unwritten}
  BY <1>1, EventTyped
<1>3. EventAt(r, n).kind \in {"Fill", "Residual"} => EventAt(r, n) \in OutEvents
  BY <1>2 DEF Unwritten
<1> QED BY <1>3 DEF FillsK, ResidualsK, TradesK

(* Left, Takers, FillsOf, Taken, Demand and Traded in the terms of this module. *)
LEMMA SeenLeft ==
    ASSUME NEW side, NEW o
    PROVE  Left(side, o) = LeftIn(book', side, o)
  BY DEF Left, LeftIn

LEMMA SeenTakers ==
    ASSUME NEW side
    PROVE  Takers(side) = TakersIn(ring', ring.write, side)
<1>1. /\ ring.write = event_write_cursor /\ ring'.write = event_write_cursor'
      /\ \A n : EventAt(ring', n) = NewEvent(n)
  BY DEF ring, EventAt, NewEvent
<1>2. NewFills = {n \in ring.write..(ring'.write - 1) : EventAt(ring', n).kind = "Fill"}
  BY <1>1 DEF NewFills, Appended, NewEvent
<1>3. {m \in NewFills : NewEvent(m).side = side}
        = {m \in ring.write..(ring'.write - 1) :
             EventAt(ring', m).kind = "Fill" /\ EventAt(ring', m).side = side}
  BY <1>1, <1>2
<1> QED BY <1>1, <1>3 DEF Takers, TakersIn

LEMMA SeenFills ==
    ASSUME ring \in Rings, ring' \in Rings, NEW side, NEW owner, NEW price
    PROVE  TotalOf(FillsOf(side, owner, price), LAMBDA n : NewEvent(n).size)
             = SumIn(ring', ring.write, FillsK(side, owner, price))
<1>1. /\ ring.write = event_write_cursor /\ ring'.write = event_write_cursor'
      /\ \A n : EventAt(ring', n) = NewEvent(n)
  BY DEF ring, EventAt, NewEvent
<1>2. ring.write \in Nat
  BY RingFacts
<1> DEFINE S == FillsOf(side, owner, price)
           T == In(ring', ring.write, FillsK(side, owner, price))
<1>3. S = T
  <2>1. \A n : n \in S <=> /\ n \in ring.write..(ring'.write - 1)
                           /\ NewEvent(n).kind = "Fill"
                           /\ <<NewEvent(n).side, NewEvent(n).owner, NewEvent(n).price>>
                                = <<side, owner, price>>
    BY <1>1 DEF FillsOf, NewFills, Appended, NewEvent
  <2>2. \A n : n \in T <=> /\ n \in ring.write..(ring'.write - 1)
                           /\ EventAt(ring', n) \in FillsK(side, owner, price)
    BY DEF In
  <2>3. \A n \in ring.write..(ring'.write - 1) :
          EventAt(ring', n) \in FillsK(side, owner, price) <=>
            /\ NewEvent(n).kind = "Fill"
            /\ <<NewEvent(n).side, NewEvent(n).owner, NewEvent(n).price>>
                 = <<side, owner, price>>
    BY <1>1, <1>2, OfKind
  <2> HIDE DEF S, T
  <2> QED BY <2>1, <2>2, <2>3
<1>4. TotalOf(S, LAMBDA n : NewEvent(n).size) = SumFunction([n \in S |-> NewEvent(n).size])
  BY DEF TotalOf
<1> HIDE DEF S, T
<1>5. [n \in S |-> NewEvent(n).size] = [n \in T |-> EventAt(ring', n).size]
  BY <1>1, <1>3
<1> QED BY <1>4, <1>5 DEF S, T, SumIn

LEMMA SeenLost ==
    ASSUME NEW side, NEW owner, NEW price
    PROVE  TotalOf({o \in OrdersOf(book, side) : o.owner = owner /\ o.price = price},
                   LAMBDA o : Taken(side, o))
             = Lost(book', book, side, owner, price)
<1> DEFINE S == Group(book, side, owner, price)
<1>1. TotalOf(S, LAMBDA o : Taken(side, o)) = SumFunction([o \in S |-> Taken(side, o)])
  BY DEF TotalOf
<1> HIDE DEF S
<1>2. [o \in S |-> Taken(side, o)] = [o \in S |-> o.size - LeftIn(book', side, o)]
  BY SeenLeft DEF Taken
<1> QED BY <1>1, <1>2 DEF S, Group, Lost

LEMMA SeenDemand ==
    ASSUME NEW b, NEW r \in Rings, NEW owner, NEW side
    PROVE  Demand(b, r.read, r.write, r.events, owner, side)
             = RestingOf(b, owner, side) + SumIn(r, r.read, ResidualsK(owner, side))
<1> DEFINE D == {n \in Undrained(r.read, r.write, r.events) :
                   LET e == r.events[n % EVENT_QUEUE_LEN]
                   IN  e.owner = owner /\ e.side = side}
           S == OwnedBy(b, owner, side)
           T == In(r, r.read, ResidualsK(owner, side))
<1>1. r.read \in Nat
  BY RingFacts
<1>2. D = T
  <2>1. \A n : n \in D <=> /\ n \in r.read..(r.write - 1)
                           /\ EventAt(r, n).kind = "Residual"
                           /\ EventAt(r, n).owner = owner /\ EventAt(r, n).side = side
    BY DEF Undrained, EventAt
  <2>2. \A n : n \in T <=> /\ n \in r.read..(r.write - 1)
                           /\ EventAt(r, n) \in ResidualsK(owner, side)
    BY DEF In
  <2>3. \A n \in r.read..(r.write - 1) :
          EventAt(r, n) \in ResidualsK(owner, side) <=>
            /\ EventAt(r, n).kind = "Residual"
            /\ EventAt(r, n).owner = owner /\ EventAt(r, n).side = side
    BY <1>1, OfKind
  <2> HIDE DEF D, T
  <2> QED BY <2>1, <2>2, <2>3
<1>3. TotalOf(D, LAMBDA n : r.events[n % EVENT_QUEUE_LEN].size)
        = SumFunction([n \in D |-> r.events[n % EVENT_QUEUE_LEN].size])
  BY DEF TotalOf
<1>4. TotalOf(S, LAMBDA o : o.size) = RestingOf(b, owner, side)
  BY DEF TotalOf, RestingOf, SizeOf
<1>5. Demand(b, r.read, r.write, r.events, owner, side)
        = TotalOf(S, LAMBDA o : o.size)
            + TotalOf(D, LAMBDA n : r.events[n % EVENT_QUEUE_LEN].size)
  BY DEF Demand, OwnedBy
<1> HIDE DEF D, T, S
<1>6. [n \in D |-> r.events[n % EVENT_QUEUE_LEN].size] = [n \in T |-> EventAt(r, n).size]
  BY <1>2 DEF EventAt
<1>7. TotalOf(D, LAMBDA n : r.events[n % EVENT_QUEUE_LEN].size)
        = SumIn(r, r.read, ResidualsK(owner, side))
  BY <1>3, <1>6 DEF T, SumIn
<1> QED BY <1>4, <1>5, <1>7

LEMMA SeenTraded ==
    ASSUME ring \in Rings, ring' \in Rings, NEW owner, NEW side
    PROVE  Traded(owner, side) = SumIn(ring', ring.write, TradesK(owner, side))
<1>1. /\ ring.write = event_write_cursor /\ ring'.write = event_write_cursor'
      /\ \A n : EventAt(ring', n) = NewEvent(n)
  BY DEF ring, EventAt, NewEvent
<1>2. ring.write \in Nat
  BY RingFacts
<1> DEFINE S == {n \in NewFills : LET e == NewEvent(n)
                                  IN  \/ e.owner = owner /\ e.side = side
                                      \/ e.counterparty = owner /\ e.side = Opposite(side)}
           T == In(ring', ring.write, TradesK(owner, side))
<1>3. S = T
  <2>1. \A n : n \in S <=> /\ n \in ring.write..(ring'.write - 1)
                           /\ NewEvent(n).kind = "Fill"
                           /\ \/ NewEvent(n).owner = owner /\ NewEvent(n).side = side
                              \/ /\ NewEvent(n).counterparty = owner
                                 /\ NewEvent(n).side = Opposite(side)
    BY <1>1 DEF NewFills, Appended, NewEvent
  <2>2. \A n : n \in T <=> /\ n \in ring.write..(ring'.write - 1)
                           /\ EventAt(ring', n) \in TradesK(owner, side)
    BY DEF In
  <2>3. \A n \in ring.write..(ring'.write - 1) :
          EventAt(ring', n) \in TradesK(owner, side) <=>
            /\ NewEvent(n).kind = "Fill"
            /\ \/ NewEvent(n).owner = owner /\ NewEvent(n).side = side
               \/ NewEvent(n).counterparty = owner /\ NewEvent(n).side = Opposite(side)
    BY <1>1, <1>2, OfKind
  <2> HIDE DEF S, T
  <2> QED BY <2>1, <2>2, <2>3
<1>4. Traded(owner, side) = TotalOf(S, LAMBDA n : NewEvent(n).size)
  BY DEF Traded
<1>5. TotalOf(S, LAMBDA n : NewEvent(n).size) = SumFunction([n \in S |-> NewEvent(n).size])
  BY DEF TotalOf
<1> HIDE DEF S, T
<1>6. [n \in S |-> NewEvent(n).size] = [n \in T |-> EventAt(ring', n).size]
  BY <1>1, <1>3
<1> QED BY <1>4, <1>5, <1>6 DEF T, SumIn

-----------------------------------------------------------------------------
(* Every step, and what follows *)

(* A step that gives out a number settles what the book and the ring say of it. *)
LEMMA MatchingFollows ==
    ASSUME BatchFits, IInv, [Next]_vars, Matching
    PROVE  /\ Descends(book', book)
           /\ Priority(book', ring', book, ring.write)
           /\ Persisted(book', ring', book, ring.write)
<1>1. Moved
  BY NextMoves
<1>2. ~Kept
  BY DEF Kept, Matching
<1>3. PICK taker, amount : Followed(taker, amount)
  BY <1>1, <1>2 DEF Moved, Placed
<1> QED BY <1>3 DEF Followed, Follows

(* The book and the ring on both sides of a step. *)
LEMMA Around ==
    ASSUME IInv, [Next]_vars
    PROVE  /\ book \in Settled /\ book' \in Settled /\ ring \in Rings /\ ring' \in Rings
           /\ book.next_seq \in Nat /\ book \in Books(book.next_seq, book.next_seq)
           /\ book'.next_seq \in Nat /\ book' \in Books(book'.next_seq, book'.next_seq)
<1>1. book \in Settled /\ book' \in Settled /\ ring \in Rings /\ ring' \in Rings
  BY NextStep DEF Step, IInv
<1> QED BY <1>1 DEF Settled

(* PriceTimePriority, of one step and two orders. *)
LEMMA PriorityStep ==
    ASSUME BatchFits, IInv, [Next]_vars, Matching,
           NEW side \in Sides, NEW o \in OrdersOf(book, side), NEW better \in OrdersOf(book, side),
           Taken(side, o) > 0,
           \/ price_better(better.price, o.price, side)
           \/ better.price = o.price /\ better.seq < o.seq,
           better.owner \notin Takers(side)
    PROVE  Left(side, better) = 0
<1>1. Priority(book', ring', book, ring.write)
  BY MatchingFollows
<1>2. o \notin OrdersOf(book', side)
  <2> SUFFICES ASSUME o \in OrdersOf(book', side) PROVE FALSE
    OBVIOUS
  <2>1. LeftIn(book', side, o) = o.size
    BY Around, LeftFacts
  <2>2. o.size \in Nat
    BY Around, OrderFacts
  <2>3. Taken(side, o) = o.size - o.size
    BY <2>1, SeenLeft DEF Taken
  <2> QED BY <2>2, <2>3
<1>3. better_maker(better, o, side)
  BY DEF better_maker
<1>4. Gone(book', side, better)
  BY <1>1, <1>2, <1>3, SeenTakers DEF Priority
<1>5. LeftIn(book', side, better) = 0
  BY <1>4, Around, LeftFacts
<1> QED BY <1>5, SeenLeft

(* FillsPersisted, of one step and one level of one owner. *)
LEMMA PersistedStep ==
    ASSUME BatchFits, IInv, [Next]_vars, Matching,
           NEW side \in Sides, NEW owner \in Owners, NEW price \in PricesOf(book, side)
    PROVE  TotalOf({o \in OrdersOf(book, side) : o.owner = owner /\ o.price = price},
                   LAMBDA o : Taken(side, o))
             <= TotalOf(FillsOf(side, owner, price), LAMBDA n : NewEvent(n).size)
<1>1. price \in Nat
  <2>1. PICK i \in DOMAIN book[side] : price = book[side][i].price
    BY DEF PricesOf
  <2>2. book[side][i] \in OrdersOf(book, side)
    BY DEF OrdersOf
  <2> QED BY <2>1, <2>2, Around, OrderFacts
<1>2. Lost(book', book, side, owner, price) <= SumIn(ring', ring.write, FillsK(side, owner, price))
  BY <1>1, MatchingFollows DEF Persisted
<1>3. ring \in Rings /\ ring' \in Rings
  BY Around
<1>4. TotalOf(FillsOf(side, owner, price), LAMBDA n : NewEvent(n).size)
        = SumIn(ring', ring.write, FillsK(side, owner, price))
  BY <1>3, SeenFills
<1>5. TotalOf({o \in OrdersOf(book, side) : o.owner = owner /\ o.price = price},
              LAMBDA o : Taken(side, o))
        = Lost(book', book, side, owner, price)
  BY SeenLost
<1> QED BY <1>2, <1>4, <1>5

(* What a trader has in the book and the ring before and after a step. *)
LEMMA DemandAround ==
    ASSUME IInv, [Next]_vars, NEW owner \in Owners, NEW side \in Sides
    PROVE  /\ Demand(book, event_read_cursor, event_write_cursor, events, owner, side)
                = RestingOf(book, owner, side) + SumIn(ring, ring.read, ResidualsK(owner, side))
           /\ Demand(book, event_read_cursor, event_write_cursor, events, owner, side)'
                = RestingOf(book', owner, side) + SumIn(ring', ring'.read, ResidualsK(owner, side))
           /\ Demand(book, event_read_cursor, event_write_cursor, events, owner, side) \in Nat
           /\ Traded(owner, side) = SumIn(ring', ring.write, TradesK(owner, side))
<1>1. /\ ring.read = event_read_cursor /\ ring.write = event_write_cursor /\ ring.events = events
      /\ ring'.read = event_read_cursor' /\ ring'.write = event_write_cursor'
      /\ ring'.events = events'
  BY DEF ring
<1>2. ring \in Rings /\ ring' \in Rings /\ ring.read \in Nat
  BY Around, RingFacts
<1>3. Demand(book, event_read_cursor, event_write_cursor, events, owner, side)
        = RestingOf(book, owner, side) + SumIn(ring, ring.read, ResidualsK(owner, side))
  BY <1>1, <1>2, SeenDemand
<1>4. Demand(book', event_read_cursor', event_write_cursor', events', owner, side)
        = RestingOf(book', owner, side) + SumIn(ring', ring'.read, ResidualsK(owner, side))
  BY <1>1, <1>2, SeenDemand
<1>5. RestingOf(book, owner, side) \in Nat
  BY Around, RestingFacts
<1>6. SumIn(ring, ring.read, ResidualsK(owner, side)) \in Nat
  BY <1>2, SumsOf
<1>7. Traded(owner, side) = SumIn(ring', ring.write, TradesK(owner, side))
  BY <1>2, SeenTraded
<1> QED BY <1>3, <1>4, <1>5, <1>6, <1>7

(* A trader's demand grows by what it held at first and nothing more. *)
LEMMA GrownBy ==
    ASSUME IInv, [Next]_vars, NEW owner \in Owners, NEW side \in Sides,
           NEW taker, NEW amount \in Nat,
           Conserved(book', ring', ring.write, Start(book, ring, taker, amount), NoTaker, 0)
    PROVE  GrowsBy(owner, side, Held(taker, amount, owner, side))
<1> DEFINE D == Demand(book, event_read_cursor, event_write_cursor, events, owner, side)
           A == RestingOf(book', owner, side) + SumIn(ring', ring'.read, ResidualsK(owner, side))
           B == SumIn(ring', ring.write, TradesK(owner, side))
           H == Held(taker, amount, owner, side)
           most == Start(book, ring, taker, amount)
<1>1. A + B + Held(NoTaker, 0, owner, side) <= most[<<owner, side>>]
  BY DEF Conserved
<1>2. Held(NoTaker, 0, owner, side) = 0
  BY DEF Held
<1>3. most[<<owner, side>>]
        = RestingOf(book, owner, side) + SumIn(ring, ring.read, ResidualsK(owner, side)) + H
  BY DEF Start
<1>4. most[<<owner, side>>] = D + H
  BY <1>3, DemandAround
<1>5. A \in Nat /\ B \in Nat
  <2>1. RestingOf(book', owner, side) \in Nat
    BY Around, RestingFacts
  <2>2. ring \in Rings /\ ring' \in Rings /\ ring.write \in Nat
    BY Around, RingFacts
  <2>3. SumIn(ring', ring'.read, ResidualsK(owner, side)) \in Nat /\ B \in Nat
    BY <2>2, SumsOf
  <2> QED BY <2>1, <2>3
<1>6. D' = A /\ Traded(owner, side) = B
  BY DemandAround
<1> HIDE DEF A, B, D, H, most
<1>7. A + B <= D + H
  BY <1>1, <1>2, <1>4, <1>5
<1> QED BY <1>6, <1>7 DEF GrowsBy, D, H

(* DemandConserved, of one step. *)
LEMMA DemandStep ==
    ASSUME BatchFits, IInv, [Next]_vars
    PROVE  \E q \in Requests : \A owner \in Owners, side \in Sides :
             GrowsBy(owner, side,
               IF /\ <<owner, side>> = <<q.owner, q.side>>
                  /\ Matching /\ event_read_cursor' = event_read_cursor
               THEN q.size ELSE 0)
<1> DEFINE More(q, owner, side) ==
             IF /\ <<owner, side>> = <<q.owner, q.side>>
                /\ Matching /\ event_read_cursor' = event_read_cursor
             THEN q.size ELSE 0
<1>1. Moved
  BY NextMoves
<1>2. \A q \in Requests : q.size \in Nat
  BY BookAssumption
<1>3. CASE \E q \in Requests : Placed(q)
  <2>1. PICK q \in Requests : Placed(q)
    BY <1>3
  <2> SUFFICES ASSUME NEW owner \in Owners, NEW side \in Sides
               PROVE  GrowsBy(owner, side, More(q, owner, side))
    OBVIOUS
  <2> DEFINE o == Order(book, q)
  <2>2. GrowsBy(owner, side, Held(o, q.size, owner, side))
    BY <1>2, <2>1, GrownBy DEF Placed, Followed, Follows
  <2>3. Held(o, q.size, owner, side) = More(q, owner, side)
    <3>1. o.owner = q.owner /\ o.side = q.side
      BY DEF Order
    <3>2. event_read_cursor' = event_read_cursor
      BY <2>1 DEF Placed, ring
    <3>3. Matching
      <4>1. book'.next_seq = book.next_seq + 1 /\ book.next_seq \in Nat
        BY <2>1, Around DEF Placed
      <4> QED BY <4>1 DEF Matching
    <3> QED BY <3>1, <3>2, <3>3 DEF Held
  <2> QED BY <2>2, <2>3
<1>4. CASE Followed(NoTaker, 0) \/ Kept
  <2>1. PICK q \in Requests : TRUE
    BY BookAssumption
  <2> SUFFICES ASSUME NEW owner \in Owners, NEW side \in Sides
               PROVE  GrowsBy(owner, side, More(q, owner, side))
    OBVIOUS
  <2>2. GrowsBy(owner, side, Held(NoTaker, 0, owner, side))
    BY <1>4, GrownBy DEF Followed, Follows, Kept
  <2>3. Held(NoTaker, 0, owner, side) = 0
    BY DEF Held
  <2> DEFINE D == Demand(book, event_read_cursor, event_write_cursor, events, owner, side)
             G == D' + Traded(owner, side)
  <2>4. G <= D + 0 /\ D \in Nat
    BY <2>2, <2>3, DemandAround DEF GrowsBy
  <2>5. G \in Nat
    <3>1. RestingOf(book', owner, side) \in Nat
      BY Around, RestingFacts
    <3>2. ring \in Rings /\ ring' \in Rings /\ ring.write \in Nat
      BY Around, RingFacts
    <3>3. /\ SumIn(ring', ring'.read, ResidualsK(owner, side)) \in Nat
          /\ SumIn(ring', ring.write, TradesK(owner, side)) \in Nat
      BY <3>2, SumsOf
    <3> QED BY <3>1, <3>3, DemandAround
  <2>6. More(q, owner, side) \in Nat
    BY <1>2
  <2> HIDE DEF D, G, More
  <2>7. G <= D + More(q, owner, side)
    BY <2>4, <2>5, <2>6
  <2> QED BY <2>7 DEF GrowsBy, D, G
<1> QED BY <1>1, <1>3, <1>4 DEF Moved

(* Whatever one instruction fills, and whatever a crank resumes one after the *)
(* other, a maker is touched only once every better maker is gone, those of   *)
(* the takers themselves excepted (best_crossable_maker).                     *)
THEOREM PriceTimeKept ==
    ASSUME BatchFits
    PROVE  Spec => PriceTimePriority
<1> DEFINE Kept1 ==
      Matching =>
         \A side \in Sides : \A o, better \in OrdersOf(book, side) :
           /\ Taken(side, o) > 0
           /\ \/ price_better(better.price, o.price, side)
              \/ better.price = o.price /\ better.seq < o.seq
           /\ better.owner \notin Takers(side)
           => Left(side, better) = 0
<1>1. IInv /\ [Next]_vars => [Kept1]_vars
  BY PriorityStep
<1> QED BY <1>1, Inductive, PTL DEF Spec, PriceTimePriority

(* What makers lose to a taker is in Fill events for settle_fill to book, also *)
(* when the crank resumes residuals into a ring that is nearly full           *)
(* (emit_fill_events and the room check of drain_events).                     *)
THEOREM FillsNeverLost ==
    ASSUME BatchFits
    PROVE  Spec => FillsPersisted
<1> DEFINE Kept1 ==
      Matching =>
         \A side \in Sides : \A owner \in Owners, price \in PricesOf(book, side) :
           TotalOf({o \in OrdersOf(book, side) : o.owner = owner /\ o.price = price},
                   LAMBDA o : Taken(side, o))
             <= TotalOf(FillsOf(side, owner, price), LAMBDA n : NewEvent(n).size)
<1>1. IInv /\ [Next]_vars => [Kept1]_vars
  BY PersistedStep
<1> QED BY <1>1, Inductive, PTL DEF Spec, FillsPersisted

(* Through deferral, resumption, rest and cancellation an order is filled at  *)
(* most once per unit of its size (match_limit_taker, drain_events).          *)
THEOREM FilledOnce ==
    ASSUME BatchFits
    PROVE  Spec => DemandConserved
<1> DEFINE Kept1 ==
      \E q \in Requests : \A owner \in Owners, side \in Sides :
         GrowsBy(owner, side,
           IF /\ <<owner, side>> = <<q.owner, q.side>>
              /\ Matching /\ event_read_cursor' = event_read_cursor
           THEN q.size ELSE 0)
<1>1. IInv /\ [Next]_vars => [Kept1]_vars
  BY DemandStep
<1> QED BY <1>1, Inductive, PTL DEF Spec, DemandConserved
-----------------------------------------------------------------------------
(* What the accounts are told of a step: the events it appends *)

(* No step appends more than the ring holds, so none of its events is lost to *)
(* those who read the ring after it; the slots it does not write are kept.    *)
Appends ==
    /\ event_write_cursor \in Nat /\ event_write_cursor' \in Nat
    /\ event_write_cursor <= event_write_cursor'
    /\ event_write_cursor' <= event_write_cursor + EVENT_QUEUE_LEN
    /\ events' \in [RingSlots -> OutEvents \cup {Unwritten}]
    /\ \A i \in RingSlots :
         (\A n \in Appended : n % EVENT_QUEUE_LEN # i) => events'[i] = events[i]

LEMMA NextAppends ==
    ASSUME BatchFits, IInv, [Next]_vars
    PROVE  IInv' /\ Appends
<1>1. IInv' /\ Keeps(ring', ring) /\ ring \in Rings /\ ring' \in Rings
  BY NextStep DEF Step, IInv
<1>2. /\ ring.read \in Nat /\ ring.write \in Nat /\ ring'.read \in Nat /\ ring'.write \in Nat
      /\ ring.read <= ring.write /\ ring'.write - ring'.read <= EVENT_QUEUE_LEN
      /\ EVENT_QUEUE_LEN \in Nat
      /\ ring'.events \in [RingSlots -> OutEvents \cup {Unwritten}]
  BY <1>1, BookAssumption DEF Rings
<1>3. ring.write <= ring'.write
  BY <1>1 DEF Keeps
<1>4. ring'.write <= ring.write + EVENT_QUEUE_LEN
  <2>1. ring'.read = ring.read => ring'.write <= ring.write + EVENT_QUEUE_LEN
    BY <1>2
  <2>2. Moved
    BY NextMoves
  <2> QED BY <2>1, <2>2 DEF Moved, Placed, Kept
<1>5. /\ ring.write = event_write_cursor /\ ring'.write = event_write_cursor'
      /\ ring.events = events /\ ring'.events = events'
  BY DEF ring
<1>6. ASSUME NEW i \in RingSlots, \A n \in Appended : n % EVENT_QUEUE_LEN # i
      PROVE  events'[i] = events[i]
  <2>1. Untouched(i, ring.write, ring'.write)
    BY <1>5, <1>6 DEF Untouched, Appended
  <2> QED BY <1>1, <1>5, <2>1 DEF Keeps
<1> QED BY <1>1, <1>2, <1>3, <1>4, <1>5, <1>6 DEF Appends

(* What one more number adds to a total over a set of them.                   *)
LEMMA SumOneMore ==
    ASSUME NEW S, IsFiniteSet(S), NEW x, x \notin S, NEW f, NEW g \in [S \cup {x} -> Int],
           [n \in S |-> g[n]] = f
    PROVE  SumFunction(g) = g[x] + SumFunction(f)
BY SumWith

(* A total over consecutive numbers is what adding them up in turn comes to.  *)
Consecutive(w, j) == w..(w + j - 1)
Portion(g, w, j) == [n \in Consecutive(w, j) |-> g[n]]

LEMMA PortionGrows ==
    ASSUME NEW w \in Nat, NEW j \in Nat \ {0}, NEW g,
           \A n \in Consecutive(w, j) : g[n] \in Int
    PROVE  SumFunction(Portion(g, w, j)) = g[w + (j - 1)] + SumFunction(Portion(g, w, j - 1))
<1> DEFINE x == w + (j - 1)
           E == Consecutive(w, j - 1)
           f == Portion(g, w, j)
           p == Portion(g, w, j - 1)
<1>1. Consecutive(w, j) = E \cup {x}
  <2>1. ASSUME NEW n PROVE n \in Consecutive(w, j) <=> n \in E \/ n = x
    <3>1. CASE n \in Int
      BY <3>1 DEF Consecutive
    <3> QED BY <3>1 DEF Consecutive
  <2> HIDE DEF E, x
  <2> QED BY <2>1
<1>2. IsFiniteSet(E) /\ x \notin E
  BY FS_Interval DEF Consecutive
<1> HIDE DEF E, x
<1>3. f \in [E \cup {x} -> Int] /\ f[x] = g[x]
  BY <1>1 DEF Portion
<1>4. [n \in E |-> f[n]] = p
  BY <1>1 DEF Portion, E
<1> HIDE DEF f, p
<1>5. SumFunction(f) = f[x] + SumFunction(p)
  BY <1>2, <1>3, <1>4, SumOneMore
<1> QED BY <1>3, <1>5 DEF f, p, x

(* s adds up the values of g at the first N numbers from w.                   *)
AddsUp(s, g, w, N) ==
    /\ g = Portion(g, w, N) /\ \A n \in Consecutive(w, N) : g[n] \in Int
    /\ s \in [0..N -> Int] /\ s[0] = 0
    /\ \A j \in 1..N : s[j] = s[j - 1] + g[w + (j - 1)]

LEMMA RunTotal ==
    ASSUME NEW w \in Nat, NEW N \in Nat, NEW g, NEW s, AddsUp(s, g, w, N)
    PROVE  SumFunction(g) = s[N]
<1>0. /\ g = Portion(g, w, N) /\ \A n \in Consecutive(w, N) : g[n] \in Int
      /\ s \in [0..N -> Int] /\ s[0] = 0
      /\ \A j \in 1..N : s[j] = s[j - 1] + g[w + (j - 1)]
  BY DEF AddsUp
<1> DEFINE T == {j \in 0..N : SumFunction(Portion(g, w, j)) = s[j]}
<1>1. 0 \in T
  <2> DEFINE f == Portion(g, w, 0)
  <2>1. IsFiniteSet({}) /\ f \in [{} -> {0}]
    <3>1. Consecutive(w, 0) = {}
      BY DEF Consecutive
    <3> QED BY <3>1, FS_EmptySet DEF Portion
  <2> HIDE DEF f
  <2>2. SumFunction(f) = 0
    BY <2>1, SumZero
  <2> QED BY <1>0, <2>2 DEF f
<1>2. ASSUME NEW j \in 1..N, j - 1 \in T PROVE j \in T
  <2>1. \A n \in Consecutive(w, j) : g[n] \in Int
    <3>1. ASSUME NEW n \in Consecutive(w, j) PROVE n \in Consecutive(w, N)
      BY DEF Consecutive
    <3> QED BY <1>0, <3>1
  <2>2. SumFunction(Portion(g, w, j)) = g[w + (j - 1)] + SumFunction(Portion(g, w, j - 1))
    <3>1. j \in Nat \ {0}
      OBVIOUS
    <3> QED BY <2>1, <3>1, PortionGrows
  <2>3. s[j] = s[j - 1] + g[w + (j - 1)] /\ s[j - 1] \in Int /\ g[w + (j - 1)] \in Int
    <3>1. w + (j - 1) \in Consecutive(w, j)
      BY DEF Consecutive
    <3> QED BY <1>0, <2>1, <3>1
  <2>4. SumFunction(Portion(g, w, j - 1)) = s[j - 1]
    BY <1>2
  <2>5. SumFunction(Portion(g, w, j)) = s[j]
    BY <2>2, <2>3, <2>4
  <2> QED BY <2>5
<1>3. \A j \in 0..N : j \in T
  <2>1. \A j \in 1..N : j - 1 \in T => j \in T
    BY <1>2
  <2> HIDE DEF T
  <2> QED BY <1>1, <2>1, AllTurns
<1>4. SumFunction(Portion(g, w, N)) = s[N]
  BY <1>3
<1> QED BY <1>0, <1>4

(* No trader meets an order of their own. *)
Foreign(fills, owner) == \A j \in 1..Len(fills) : fills[j].owner # owner

LEMMA NoSelfFills ==
    ASSUME NEW n \in Nat, NEW next \in Nat, NEW b \in Books(n, next),
           NEW taker \in Taker, NEW kind, NEW max_steps \in Nat
    PROVE  Foreign(match_order(b, taker, kind, max_steps).fills, taker.owner)
<1> DEFINE S == {s \in MatchStates(n, next) : Foreign(s.fills, taker.owner)}
<1>1. PICK run : MatchRun(run, n, next, b, taker, kind, max_steps)
  BY MatchRuns
<1>2. /\ run[0] = [book |-> b, remaining |-> taker.size, fills |-> <<>>]
      /\ \A k \in 1..max_steps : run[k] = MatchTurn(run[k - 1], taker, kind)
      /\ \A k \in 0..max_steps : run[k] \in MatchStates(n, next)
      /\ match_order(b, taker, kind, max_steps).fills = run[max_steps].fills
  BY <1>1 DEF MatchRun, MatchOutcome
<1>3. run[0] \in S
  <2>1. run[0] \in MatchStates(n, next)
    BY <1>2
  <2> QED BY <1>2, <2>1 DEF Foreign
<1>4. ASSUME NEW k \in 1..max_steps, run[k - 1] \in S PROVE run[k] \in S
  <2> DEFINE s == run[k - 1]
             t == run[k]
  <2>1. s \in MatchStates(n, next) /\ t \in MatchStates(n, next) /\ t = MatchTurn(s, taker, kind)
        /\ Foreign(s.fills, taker.owner)
    BY <1>2, <1>4
  <2> HIDE DEF s, t
  <2>2. CASE MatchDone(s, taker, kind)
    BY <2>1, <2>2 DEF MatchTurn, t
  <2>3. CASE ~MatchDone(s, taker, kind)
    <3>1. PICK m, size : Turned(t, s, taker, m, size)
      BY <2>1, <2>3, TurnFills
    <3> DEFINE fill == [owner |-> m.owner, price |-> m.price, size |-> size]
    <3>2. t.fills = Append(s.fills, fill) /\ fill.owner # taker.owner
      BY <3>1 DEF Turned
    <3>3. s.fills \in Seq(MakerFill) /\ t.fills \in Seq(MakerFill)
      BY <2>1, MatchStateFacts
    <3> HIDE DEF fill
    <3>4. ASSUME NEW j \in 1..Len(t.fills) PROVE t.fills[j].owner # taker.owner
      <4>1. Len(t.fills) = Len(s.fills) + 1 /\ Len(s.fills) \in Nat
        BY <3>2, <3>3
      <4>2. CASE j \in 1..Len(s.fills)
        <5>1. t.fills[j] = s.fills[j]
          BY <3>2, <3>3, <4>2
        <5> QED BY <2>1, <4>2, <5>1 DEF Foreign
      <4>3. CASE j = Len(s.fills) + 1
        BY <3>2, <3>3, <4>3
      <4> QED BY <4>1, <4>2, <4>3
    <3> QED BY <2>1, <3>4 DEF Foreign, t
  <2> QED BY <2>2, <2>3
<1>5. \A k \in 0..max_steps : run[k] \in S
  <2> HIDE DEF S
  <2> QED BY <1>3, <1>4, StaysIn
<1> QED BY <1>2, <1>5

(* What is appended to r are fills, of makers other than the taker. *)
FillsFor(e, r, taker) ==
    \A n \in r.write..(e.write - 1) :
      /\ EventAt(e, n).kind = "Fill"
      /\ EventAt(e, n).owner # taker.owner
      /\ EventAt(e, n).side = Opposite(taker.side)

LEMMA EmitsFills ==
    ASSUME NEW r \in Rings, NEW fills \in Seq(MakerFill), NEW taker \in Taker,
           Foreign(fills, taker.owner)
    PROVE  FillsFor(emit_fill_events(r, fills, taker), r, taker)
<1> DEFINE S == {e \in Rings : e.read = r.read /\ r.write <= e.write /\ FillsFor(e, r, taker)}
<1>1. PICK run : EmitRun(run, r, fills, taker)
  BY EmitRuns
<1>2. /\ run[0] = r /\ Len(fills) \in Nat
      /\ \A k \in 1..Len(fills) : run[k] = append_event(run[k - 1], FillEvent(fills[k], taker))
      /\ emit_fill_events(r, fills, taker) = run[Len(fills)]
  BY <1>1 DEF EmitRun
<1>3. r.read \in Nat /\ r.write \in Nat /\ r.read <= r.write
  BY RingFacts
<1>4. run[0] \in S
  BY <1>2, <1>3 DEF FillsFor
<1>5. ASSUME NEW k \in 1..Len(fills), run[k - 1] \in S PROVE run[k] \in S
  <2> DEFINE e == run[k - 1]
             f == FillEvent(fills[k], taker)
             a == append_event(e, f)
  <2>1. /\ e \in Rings /\ e.read = r.read /\ r.write <= e.write /\ FillsFor(e, r, taker)
        /\ e.write \in Nat
    <3>1. e \in Rings /\ e.read = r.read /\ r.write <= e.write /\ FillsFor(e, r, taker)
      BY <1>5
    <3> HIDE DEF e
    <3> QED BY <3>1, RingFacts
  <2>2. fills[k] \in MakerFill
    OBVIOUS
  <2>3. /\ f \in OutEvents /\ f.kind = "Fill" /\ f.owner # taker.owner
        /\ f.side = Opposite(taker.side)
    BY <2>2, FillEventType DEF FillEvent, Event, Foreign
  <2> HIDE DEF e, f
  <2>4. CASE ~HasRoom(e, 1)
    <3>1. a = e
      BY <2>4 DEF append_event
    <3> QED BY <1>2, <1>5, <3>1 DEF e, f
  <2>5. CASE HasRoom(e, 1)
    <3>1. /\ a \in Rings /\ a.read = e.read /\ a.write = e.write + 1 /\ EventAt(a, e.write) = f
          /\ \A n \in e.read..(e.write - 1) : EventAt(a, n) = EventAt(e, n)
      BY <2>1, <2>3, <2>5, AppendFacts
    <3> HIDE DEF a
    <3>2. FillsFor(a, r, taker)
      <4> SUFFICES ASSUME NEW n \in r.write..(a.write - 1)
                   PROVE  /\ EventAt(a, n).kind = "Fill"
                          /\ EventAt(a, n).owner # taker.owner
                          /\ EventAt(a, n).side = Opposite(taker.side)
        BY DEF FillsFor
      <4>1. n = e.write \/ (n \in r.write..(e.write - 1) /\ n \in e.read..(e.write - 1))
        BY <1>3, <2>1, <3>1
      <4> QED BY <2>1, <2>3, <3>1, <4>1 DEF FillsFor
    <3>3. a \in S
      BY <1>3, <2>1, <3>1, <3>2
    <3> QED BY <1>2, <3>3 DEF a, e, f
  <2> QED BY <2>4, <2>5
<1>6. \A k \in 0..Len(fills) : run[k] \in S
  <2> HIDE DEF S
  <2> QED BY <1>2, <1>4, <1>5, StaysIn
<1> QED BY <1>2, <1>6

(* An order that opens or closes a position appends its fills and no other    *)
(* event: none of a maker who is its taker, all of the side it takes from.    *)
AppendsFills(q) ==
    \A n \in Appended :
      /\ NewEvent(n).kind = "Fill"
      /\ NewEvent(n).owner # q.owner
      /\ NewEvent(n).side = Opposite(q.side)

LEMMA OpenAppends ==
    ASSUME IInv, NEW q \in Requests, open_position(q) \/ close_position(q)
    PROVE  AppendsFills(q)
<1> DEFINE o == Order(book, q)
           n == book.next_seq
           b == take_next_seq(book)
<1>1. o \in Taker /\ n \in Nat /\ b \in Books(n, n + 1) /\ ring \in Rings /\ n + 1 \in Nat
  BY OrderType DEF IInv
<1>2. o.owner = q.owner /\ o.side = q.side
  BY DEF Order
<1> HIDE DEF o, n, b
<1>3. ASSUME NEW kind, NEW max_steps \in Nat,
             SaveRing(emit_fill_events(ring, match_order(b, o, kind, max_steps).fills, o))
      PROVE  AppendsFills(q)
  <2> DEFINE out == match_order(b, o, kind, max_steps)
             e == emit_fill_events(ring, out.fills, o)
  <2>1. Foreign(out.fills, o.owner)
    BY <1>1, NoSelfFills
  <2>2. out \in Outcomes(n, n + 1)
    BY <1>1, MatchType
  <2> HIDE DEF out
  <2>3. out.fills \in Seq(MakerFill)
    BY <1>1, <2>2, OutcomeFacts
  <2>4. FillsFor(e, ring, o) /\ e \in Rings
    BY <1>1, <2>1, <2>3, EmitsFills, EmitType
  <2>5. SaveRing(e)
    BY <1>3 DEF out
  <2> HIDE DEF e
  <2>6. ring' = e
    BY <2>4, <2>5, SaveRingKeeps
  <2> QED BY <1>2, <2>4, <2>6 DEF AppendsFills, FillsFor, Appended, NewEvent, EventAt, ring
<1>4. ASSUME rest_order(o) PROVE AppendsFills(q)
  <2>1. event_write_cursor' = event_write_cursor
    BY <1>4 DEF rest_order, ringVars
  <2>2. event_write_cursor \in Nat
    BY <1>1 DEF Rings, ring
  <2>3. Appended = {}
    BY <2>1, <2>2 DEF Appended
  <2> QED BY <2>3 DEF AppendsFills
<1>5. ASSUME cross_limit(o, match_open_taker(b, ring, o)) PROVE AppendsFills(q)
  <2>1. MAX_MATCH_STEPS \in Nat
    BY BookAssumption
  <2>2. match_open_taker(b, ring, o).ring = emit_fill_events(ring, match_limit(b, o).fills, o)
    BY DEF match_open_taker, settle_open
  <2>3. SaveRing(emit_fill_events(ring, match_limit(b, o).fills, o))
    BY <1>5, <2>2 DEF cross_limit
  <2> QED BY <1>3, <2>1, <2>3 DEF match_limit
<1>6. ASSUME cross_market(o) PROVE AppendsFills(q)
  <2>1. Len(b[Opposite(o.side)]) \in Nat
    <3>1. Opposite(o.side) \in Sides
      BY <1>1 DEF Taker, Sides, Opposite
    <3> QED BY <1>1, <3>1, BookFacts
  <2>2. SaveRing(emit_fill_events(ring, match_market(b, o).fills, o))
    BY <1>6 DEF cross_market, take_market, b
  <2> QED BY <1>3, <2>1, <2>2 DEF match_market
<1> QED BY <1>4, <1>5, <1>6 DEF open_position, close_position, o, b

=============================================================================
