----------------------------- MODULE OracleProof -----------------------------
(* That the version alone orders the keepers, for any number of keepers,      *)
(* keys, rotations and points, and whatever is delayed, lost or replayed.     *)
(* A reading of the oracle is never ahead of it and, while its version is     *)
(* still the oracle's, agrees with it; so the only update validate_version    *)
(* lets through is one decided on the present value.                          *)
EXTENDS Oracle, TLAPS

(* What a keeper or a message knows of the oracle. *)
Behind(current) ==
    /\ current.version <= oracle.version
    /\ current.version = oracle.version => SameReading(current, oracle)
Fetched(current, seen) ==
    /\ seen <= point
    /\ current.version = oracle.version => landed <= seen

TaskInv ==
    \A k \in Keepers :
        /\ task[k].pc # "read" => Behind(task[k].current)
        /\ task[k].pc \in {"slot", "send"} => Fetched(task[k].current, task[k].seen)
SignedInv ==
    \A m \in signed :
        /\ m.version = m.current.version + 1
        /\ Behind(m.current) /\ Fetched(m.current, m.seen)
IInv == TypeOK /\ TaskInv /\ SignedInv

-----------------------------------------------------------------------------
(* A scaled APY is always one the oracle accepts (toScaledApy's clamp). *)
LEMMA ScaledInBounds ==
    ASSUME NEW x \in Int \cup {NotFinite}
    PROVE  toScaledApy(x) \in 0..MAX_APY
  BY OracleAssumption DEF toScaledApy

LEMMA PointType == ASSUME TypeOK PROVE Series[point] \in Int \cup {NotFinite}
  BY OracleAssumption DEF TypeOK

LEMMA Reading ==
    ASSUME TypeOK
    PROVE  /\ decodeOracle(oracle) \in OracleState
           /\ Behind(decodeOracle(oracle))
<1>1. oracle.last_update_slot \in U64
  BY OracleAssumption DEF TypeOK, U64
<1>2. QED
  BY <1>1 DEF TypeOK, decodeOracle, OracleState, Behind, SameReading, U64

LEMMA TaskKinds ==
    ASSUME TypeOK, NEW k \in Keepers
    PROVE  /\ task[k].pc \in {"read", "fetch", "slot", "send"}
           /\ task[k].pc # "read" => task[k].current \in OracleState
           /\ task[k].pc \in {"slot", "send"} =>
                /\ task[k] \in [pc : {"slot", "send"}, current : OracleState,
                                apy : 0..MAX_APY, seen : 1..Len(Series)]
                /\ task[k].apy \in 0..MAX_APY /\ task[k].seen \in 1..Len(Series)
  BY DEF TypeOK, Task

(* What an update that lands is: the successor of the present version,        *)
(* decided on the present value.                                              *)
LEMMA LandsOnCurrent ==
    ASSUME IInv, NEW m \in signed, validate_version(oracle.version, m.version)
    PROVE  /\ m.version = oracle.version + 1
           /\ SameReading(m.current, oracle)
           /\ landed <= m.seen /\ m.seen <= point
<1>1. m.version \in Nat /\ m.current.version \in Nat /\ oracle.version \in Nat
  BY OracleAssumption DEF IInv, TypeOK, Update, OracleState, U64
<1>2. QED
  BY <1>1 DEF IInv, SignedInv, Behind, Fetched, validate_version

-----------------------------------------------------------------------------
LEMMA InitInv == Init => IInv
<1> SUFFICES ASSUME Init PROVE IInv
  OBVIOUS
<1>1. TypeOK
  BY OracleAssumption DEF Init, TypeOK, Task, Update, U64
<1>2. TaskInv /\ SignedInv
  BY DEF Init, TaskInv, SignedInv
<1>3. QED
  BY <1>1, <1>2 DEF IInv

(* The steps that move a keeper along and leave the oracle alone.             *)
LEMMA ContinueInv ==
    ASSUME IInv, NEW k \in Keepers, NEW t \in Task, Continue(k, t),
           t.pc # "read" => Behind(t.current),
           t.pc \in {"slot", "send"} => Fetched(t.current, t.seen)
    PROVE  /\ task' \in [Keepers -> Task]
           /\ TaskInv'
           /\ signed' = signed => IInv'
<1>1. task' \in [Keepers -> Task] /\ task'[k] = t
  BY DEF IInv, TypeOK, Continue
<1>2. \A j \in Keepers : j # k => task'[j] = task[j]
  BY DEF IInv, TypeOK, Continue
<1>3. TaskInv'
  BY <1>1, <1>2 DEF IInv, TaskInv, Behind, Fetched, Continue
<1>4. ASSUME signed' = signed PROVE IInv'
  BY <1>1, <1>3, <1>4 DEF IInv, TypeOK, SignedInv, Behind, Fetched, Continue
<1>5. QED
  BY <1>1, <1>3, <1>4

LEMMA LandInv == ASSUME IInv, NEW m \in signed, update_apy(m) PROVE IInv'
<1>1. /\ m.version = oracle.version + 1
      /\ landed <= m.seen /\ m.seen <= point
  BY LandsOnCurrent DEF update_apy
<1>2. m \in Update /\ m.version \in U64 /\ m.apy \in 0..MAX_APY /\ m.seen \in 1..Len(Series)
  BY DEF IInv, TypeOK, Update
<1>3. TypeOK'
  <2>1. slot \in 0..slot /\ point \in 0..point /\ m.seen \in 0..point
    BY <1>1, <1>2, OracleAssumption DEF IInv, TypeOK
  <2>2. oracle' \in [apy : 0..MAX_APY, version : U64, last_update_slot : 0..slot,
                     publisher : Publishers, stale_after_slots : U64]
    BY <1>2, <2>1 DEF IInv, TypeOK, update_apy
  <2>3. QED
    BY <2>1, <2>2 DEF IInv, TypeOK, update_apy
<1>4. oracle.version \in Nat /\ oracle'.version = oracle.version + 1
  BY <1>1, OracleAssumption DEF IInv, TypeOK, update_apy, U64
<1>5. ASSUME NEW current \in OracleState, Behind(current)
      PROVE  Behind(current)' /\ current.version # oracle'.version
  <2>1. current.version \in Nat
    BY <1>5, OracleAssumption DEF OracleState, U64
  <2>2. QED
    BY <1>4, <1>5, <2>1 DEF Behind
<1>6. point' = point /\ task' = task /\ signed' = signed
  BY DEF update_apy
<1>7. TaskInv'
  BY <1>5, <1>6, TaskKinds DEF IInv, TaskInv, Behind, Fetched
<1>8. SignedInv'
  BY <1>5, <1>6 DEF IInv, TypeOK, Update, SignedInv, Behind, Fetched
<1>9. QED
  BY <1>3, <1>7, <1>8 DEF IInv

(* The authority changes the window or the key, which no reading compares. *)
LEMMA AdminInv ==
    ASSUME IInv, set_stale_window \/ set_publisher
    PROVE  IInv'
<1>1. /\ oracle' \in [apy : 0..MAX_APY, version : U64, last_update_slot : 0..slot,
                      publisher : Publishers, stale_after_slots : U64]
      /\ oracle'.version = oracle.version /\ oracle'.apy = oracle.apy
      /\ oracle'.last_update_slot = oracle.last_update_slot
      /\ admin' \in 0..MAX_ADMIN
      /\ UNCHANGED <<slot, point, task, signed, landed, origin>>
  <2>1. \A o : Administer(o) => /\ oracle' = o
                                /\ UNCHANGED <<slot, point, task, signed, landed, origin>>
                                /\ admin' \in 0..MAX_ADMIN
    BY OracleAssumption DEF Administer, IInv, TypeOK
  <2>2. CASE set_stale_window
    <3>1. PICK window \in Windows : Administer([oracle EXCEPT !.stale_after_slots = window])
      BY <2>2 DEF set_stale_window
    <3>2. window \in U64
      BY OracleAssumption DEF U64
    <3>3. oracle' = [oracle EXCEPT !.stale_after_slots = window]
      BY <2>1, <3>1
    <3>4. /\ oracle' \in [apy : 0..MAX_APY, version : U64, last_update_slot : 0..slot,
                          publisher : Publishers, stale_after_slots : U64]
          /\ oracle'.version = oracle.version /\ oracle'.apy = oracle.apy
          /\ oracle'.last_update_slot = oracle.last_update_slot
      BY <3>2, <3>3 DEF IInv, TypeOK
    <3>5. QED
      BY <2>1, <3>1, <3>4
  <2>3. CASE set_publisher
    <3>1. PICK publisher \in Publishers :
            Administer([oracle EXCEPT !.publisher = publisher])
      BY <2>3 DEF set_publisher
    <3>2. oracle' = [oracle EXCEPT !.publisher = publisher]
      BY <2>1, <3>1
    <3>3. /\ oracle' \in [apy : 0..MAX_APY, version : U64, last_update_slot : 0..slot,
                          publisher : Publishers, stale_after_slots : U64]
          /\ oracle'.version = oracle.version /\ oracle'.apy = oracle.apy
          /\ oracle'.last_update_slot = oracle.last_update_slot
      BY <3>2 DEF IInv, TypeOK
    <3>4. QED
      BY <2>1, <3>1, <3>3
  <2>4. QED
    BY <2>2, <2>3
<1>2. TypeOK'
  BY <1>1 DEF IInv, TypeOK
<1>3. TaskInv' /\ SignedInv'
  BY <1>1 DEF IInv, TaskInv, SignedInv, Behind, Fetched, SameReading
<1>4. QED
  BY <1>2, <1>3 DEF IInv

LEMMA KeeperInv ==
    ASSUME IInv, NEW k \in Keepers,
           \/ getAccountInfo(k) \/ fetchLatestApy(k) \/ getSlot(k)
           \/ submitUpdate(k) \/ Fail(k)
    PROVE  IInv'
<1> USE DEF IInv
<1>0. [pc |-> "read"] \in Task
  BY DEF Task
<1>1. CASE getAccountInfo(k)
  <2> DEFINE t == [pc |-> "fetch", current |-> decodeOracle(oracle)]
  <2>1. t \in Task /\ Behind(t.current)
    BY Reading DEF Task
  <2>2. QED
    BY <1>1, <2>1, ContinueInv DEF getAccountInfo
<1>2. CASE fetchLatestApy(k)
  <2> DEFINE t == [pc |-> "slot", current |-> task[k].current,
                   apy |-> toScaledApy(Series[point]), seen |-> point]
  <2>1. task[k].current \in OracleState /\ Behind(task[k].current)
    BY <1>2, TaskKinds DEF fetchLatestApy, TaskInv
  <2>2. toScaledApy(Series[point]) \in 0..MAX_APY
    BY PointType, ScaledInBounds
  <2>3. point \in 1..Len(Series) /\ landed <= point /\ point <= point
    BY OracleAssumption DEF TypeOK
  <2>4. t \in Task /\ Fetched(t.current, t.seen)
    BY <2>1, <2>2, <2>3 DEF Task, Fetched
  <2>5. QED
    BY <1>2, <2>1, <2>4, ContinueInv DEF fetchLatestApy
<1>3. CASE getSlot(k)
  <2> DEFINE t == [task[k] EXCEPT !.pc = "send"]
  <2>1. task[k] \in [pc : {"slot", "send"}, current : OracleState,
                     apy : 0..MAX_APY, seen : 1..Len(Series)]
    BY <1>3, TaskKinds DEF getSlot
  <2>2. t \in Task /\ t.current = task[k].current /\ t.seen = task[k].seen
    BY <2>1 DEF Task
  <2>3. Behind(task[k].current) /\ Fetched(task[k].current, task[k].seen)
    BY <1>3 DEF getSlot, TaskInv
  <2> HIDE DEF t
  <2>4. CASE Continue(k, t)
    BY <1>3, <2>2, <2>3, <2>4, ContinueInv DEF getSlot
  <2>5. CASE Continue(k, [pc |-> "read"])
    BY <1>0, <1>3, <2>5, ContinueInv DEF getSlot
  <2>6. QED
    BY <1>3, <2>4, <2>5 DEF getSlot, t
<1>4. CASE submitUpdate(k)
  <2> DEFINE m == [publisher |-> keypair[k], apy |-> task[k].apy,
                   version |-> NextVersion(task[k]),
                   current |-> task[k].current, seen |-> task[k].seen]
  <2>1. /\ task[k].current \in OracleState /\ task[k].apy \in 0..MAX_APY
        /\ task[k].seen \in 1..Len(Series)
    BY <1>4, TaskKinds DEF submitUpdate
  <2>2. NextVersion(task[k]) \in U64
    BY <1>4, <2>1, OracleAssumption DEF submitUpdate, NextVersion, OracleState, U64
  <2>3. m \in Update
    BY <2>1, <2>2, OracleAssumption DEF Update
  <2>4. Behind(task[k].current) /\ Fetched(task[k].current, task[k].seen)
    BY <1>4 DEF submitUpdate, TaskInv
  <2>5. m.version = m.current.version + 1 /\ Behind(m.current) /\ Fetched(m.current, m.seen)
    BY <2>4 DEF NextVersion
  <2>6. task' \in [Keepers -> Task] /\ TaskInv' /\ Continue(k, [pc |-> "read"])
    BY <1>0, <1>4, ContinueInv DEF submitUpdate
  <2>7. signed' = signed \cup {m}
    BY <1>4 DEF submitUpdate
  <2> HIDE DEF m
  <2>8. TypeOK'
    BY <2>3, <2>6, <2>7 DEF TypeOK, Continue
  <2>9. SignedInv'
    BY <2>5, <2>6, <2>7 DEF SignedInv, Behind, Fetched, Continue
  <2>10. QED
    BY <2>6, <2>8, <2>9
<1>5. CASE Fail(k)
  BY <1>0, <1>5, ContinueInv DEF Fail
<1>6. QED
  BY <1>1, <1>2, <1>3, <1>4, <1>5

(* The clock and the series only move on. *)
LEMMA EnvironmentInv == ASSUME IInv, tick \/ publish_point PROVE IInv'
<1>1. CASE tick
  <2>1. slot' = slot + 1 /\ slot' \in 0..MAX_SLOT /\ oracle.last_update_slot \in 0..slot'
    BY <1>1, OracleAssumption DEF IInv, TypeOK, tick, U64
  <2>2. TypeOK'
    BY <1>1, <2>1 DEF IInv, TypeOK, tick
  <2>3. QED
    BY <1>1, <2>2 DEF IInv, TaskInv, SignedInv, Behind, Fetched, tick
<1>2. CASE publish_point
  <2>1. point' = point + 1 /\ point' \in 1..Len(Series) /\ point \in Nat
    BY <1>2, OracleAssumption DEF IInv, TypeOK, publish_point
  <2>2. TypeOK'
    BY <1>2, <2>1 DEF IInv, TypeOK, publish_point
  <2>3. TaskInv'
    BY <1>2, <2>1, TaskKinds DEF IInv, TaskInv, Behind, Fetched, publish_point
  <2>4. SignedInv'
    BY <1>2, <2>1 DEF IInv, TypeOK, Update, SignedInv, Behind, Fetched, publish_point
  <2>5. QED
    BY <2>2, <2>3, <2>4 DEF IInv
<1>3. QED
  BY <1>1, <1>2

LEMMA NextInv == IInv /\ [Next]_vars => IInv'
<1> SUFFICES ASSUME IInv, [Next]_vars PROVE IInv'
  OBVIOUS
<1>1. CASE Land
  BY <1>1, LandInv DEF Land
<1>2. CASE set_stale_window \/ set_publisher
  BY <1>2, AdminInv
<1>3. ASSUME NEW k \in Keepers,
             \/ getAccountInfo(k) \/ fetchLatestApy(k) \/ getSlot(k)
             \/ submitUpdate(k) \/ Fail(k)
      PROVE  IInv'
  BY <1>3, KeeperInv
<1>4. CASE tick \/ publish_point
  BY <1>4, EnvironmentInv
<1>5. CASE UNCHANGED vars
  BY <1>5 DEF vars, IInv, TypeOK, TaskInv, SignedInv, Behind, Fetched
<1>6. QED
  BY <1>1, <1>2, <1>3, <1>4, <1>5 DEF Next

LEMMA Invariance == Spec => []IInv
  BY InitInv, NextInv, PTL DEF Spec

(* Only a landing update changes the version. *)
LEMMA OnlyLandUpdates ==
    ASSUME IInv, [Next]_vars, Updated
    PROVE  Land
<1>1. ~(set_stale_window \/ set_publisher)
  BY DEF set_stale_window, set_publisher, Administer, Updated, IInv, TypeOK
<1>2. ~(UNCHANGED vars) /\ ~tick /\ ~publish_point
  BY DEF vars, tick, publish_point, Updated
<1>3. \A k \in Keepers : ~(\/ getAccountInfo(k) \/ fetchLatestApy(k) \/ getSlot(k)
                           \/ submitUpdate(k) \/ Fail(k))
  BY DEF getAccountInfo, fetchLatestApy, getSlot, submitUpdate, Fail, Continue, Updated
<1>4. QED
  BY <1>1, <1>2, <1>3 DEF Next

-----------------------------------------------------------------------------
(* Every field of the account, every message and every keeper keeps its type: *)
(* nothing a keeper signs is above MAX_APY or beyond a u64.                   *)
THEOREM OracleTyped == Spec => []TypeOK
  BY Invariance, PTL DEF IInv

(* No lost update, for any number of keepers: what lands was decided on the   *)
(* value it replaces.                                                         *)
THEOREM NoLostUpdate == Spec => DecidedOnCurrent
<1> DEFINE A == \E m \in signed : /\ m.version = oracle'.version /\ m.apy = oracle'.apy
                                  /\ SameReading(m.current, oracle)
<1>1. IInv /\ [Next]_vars => [Updated => A]_vars
  <2> SUFFICES ASSUME IInv, [Next]_vars, Updated PROVE A
    OBVIOUS
  <2>1. PICK m \in signed : update_apy(m)
    BY OnlyLandUpdates DEF Land
  <2>2. SameReading(m.current, oracle)
    BY <2>1, LandsOnCurrent DEF update_apy
  <2>3. oracle'.version = m.version /\ oracle'.apy = m.apy
    BY <2>1 DEF update_apy, IInv, TypeOK
  <2>4. QED
    BY <2>2, <2>3
<1>2. QED
  BY <1>1, Invariance, PTL DEF Spec, DecidedOnCurrent

(* The oracle never goes back to a value fetched before its present one       *)
(* landed, through any race, delay, replay or rotation.                       *)
THEOREM OracleNeverOlder == Spec => NeverOlder
<1>1. IInv /\ [Next]_vars => [Updated => origin' >= landed]_vars
  <2> SUFFICES ASSUME IInv, [Next]_vars, Updated PROVE origin' >= landed
    OBVIOUS
  <2>1. PICK m \in signed : update_apy(m)
    BY OnlyLandUpdates DEF Land
  <2>2. landed <= m.seen /\ m.seen \in Int /\ landed \in Int
    BY <2>1, LandsOnCurrent DEF update_apy, IInv, TypeOK, Update
  <2>3. QED
    BY <2>1, <2>2 DEF update_apy
<1>2. QED
  BY <1>1, Invariance, PTL DEF Spec, NeverOlder
=============================================================================
