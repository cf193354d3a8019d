------------------------------- MODULE Oracle -------------------------------
(* The yield oracle and its keepers.  The oracle is one account, changed by   *)
(* whoever relays a message its publisher signed.  A keeper reads it, asks    *)
(* the Jito API for the yield, asks for the slot and sends a signed update,   *)
(* with an await between any two of these.  Nothing locks: the version in the *)
(* message is all that orders the keepers.  A signed message stays valid, so  *)
(* it may land late, out of order, several times or never.                    *)
EXTENDS Integers, Sequences

CONSTANTS
    U64_MAX,       \* the widest version
    MAX_APY,
    Publishers,    \* ed25519 keys
    Keepers,
    keypair,       \* the key each keeper signs with (PUBLISHER_KEYPAIR)
    NotFinite,     \* NaN or an infinity, out of the API's answer
    Series,        \* bound: the APY points the API comes to have, scaled
    Windows,       \* bound: staleness windows the authority sets
    MAX_SLOT,      \* bound: the last slot
    MAX_ADMIN      \* bound: instructions of the authority

ASSUME OracleAssumption ==
    /\ U64_MAX \in Nat /\ MAX_APY \in 0..U64_MAX
    /\ keypair \in [Keepers -> Publishers]
    /\ Series \in Seq(Int \cup {NotFinite}) /\ Series # <<>>
    /\ Windows \subseteq 0..U64_MAX /\ MAX_SLOT \in 0..U64_MAX /\ MAX_ADMIN \in Nat

VARIABLES
    oracle,        \* YieldOracle
    slot,          \* Clock::slot
    point,         \* the newest point of the API's series (external)
    task,          \* what each keeper's runOnce holds between two awaits
    signed,        \* every update that was ever sent, signature included
    admin,         \* instructions the authority has sent
    landed,        \* history: the newest point when the last update landed
    origin         \* history: the point the oracle's APY came from

vars == <<oracle, slot, point, task, signed, admin, landed, origin>>

U64 == 0..U64_MAX
(* decodeOracle's OracleState. *)
OracleState == [apy : 0..MAX_APY, version : U64, last_update_slot : U64, stale_after_slots : U64]
decodeOracle(o) == [apy |-> o.apy, version |-> o.version,
                    last_update_slot |-> o.last_update_slot,
                    stale_after_slots |-> o.stale_after_slots]
(* The message of update_apy; current and seen are history, not signed.       *)
Update == [publisher : Publishers, apy : 0..MAX_APY, version : U64,
           current : OracleState, seen : 1..Len(Series)]
Task == [pc : {"read"}]
        \cup [pc : {"fetch"}, current : OracleState]
        \cup [pc : {"slot", "send"}, current : OracleState, apy : 0..MAX_APY, seen : 1..Len(Series)]

TypeOK ==
    /\ oracle \in [apy : 0..MAX_APY, version : U64, last_update_slot : 0..slot,
                   publisher : Publishers, stale_after_slots : U64]
    /\ slot \in 0..MAX_SLOT
    /\ point \in 1..Len(Series)
    /\ task \in [Keepers -> Task]
    /\ signed \subseteq Update
    /\ admin \in 0..MAX_ADMIN
    /\ landed \in 0..point /\ origin \in 0..point

is_stale(last_update_slot, stale_after_slots, current_slot) ==
    (IF current_slot >= last_update_slot THEN current_slot - last_update_slot ELSE 0)
        >= stale_after_slots
apy_in_bounds(apy) == apy <= MAX_APY
(* MutValidateVersion accepts the current version again.                      *)
MutValidateVersion(current, next) == next >= current
validate_version(current, next) == next > current

-----------------------------------------------------------------------------
(* The oracle's instructions.  initialize is Init.                            *)

Init ==
    /\ \E apy \in 0..MAX_APY, publisher \in Publishers, window \in Windows :
         oracle = [apy |-> apy, version |-> 0, last_update_slot |-> 0,
                   publisher |-> publisher, stale_after_slots |-> window]
    /\ slot = 0 /\ point = 1 /\ admin = 0
    /\ task = [k \in Keepers |-> [pc |-> "read"]]
    /\ signed = {}
    /\ landed = 0 /\ origin = 0

(* The transaction carries an ed25519 instruction, which the runtime has      *)
(* checked, of the oracle's publisher over exactly this apy and version.      *)
verify_publisher_signature(publisher, m) == m \in signed /\ m.publisher = publisher

update_apy(m) ==
    /\ apy_in_bounds(m.apy)
    /\ verify_publisher_signature(oracle.publisher, m)
    /\ validate_version(oracle.version, m.version)
    /\ oracle' = [oracle EXCEPT !.apy = m.apy, !.version = m.version,
                                !.last_update_slot = slot]
    /\ landed' = point /\ origin' = m.seen
    /\ UNCHANGED <<slot, point, task, signed, admin>>

Administer(o) ==
    /\ admin < MAX_ADMIN /\ admin' = admin + 1
    /\ oracle' = o
    /\ UNCHANGED <<slot, point, task, signed, landed, origin>>

set_stale_window ==
    \E window \in Windows : Administer([oracle EXCEPT !.stale_after_slots = window])

set_publisher ==
    \E publisher \in Publishers : Administer([oracle EXCEPT !.publisher = publisher])

-----------------------------------------------------------------------------
(* A keeper's runOnce, one step per await.                                    *)

(* Not a finite number gives 0; the rest is clamped.  Points are whole        *)
(* multiples of 1/APY_SCALE here, so Math.round has nothing to do.            *)
(* MutToScaledApy leaves out the cap.                                         *)
MutToScaledApy(x) == IF x = NotFinite \/ x < 0 THEN 0 ELSE x
toScaledApy(x) ==
    IF x = NotFinite \/ x < 0 THEN 0 ELSE IF x > MAX_APY THEN MAX_APY ELSE x

Continue(k, t) ==
    /\ task' = [task EXCEPT ![k] = t]
    /\ UNCHANGED <<oracle, slot, point, admin, landed, origin>>

getAccountInfo(k) ==
    /\ task[k].pc = "read"
    /\ Continue(k, [pc |-> "fetch", current |-> decodeOracle(oracle)])
    /\ UNCHANGED signed

fetchLatestApy(k) ==
    /\ task[k].pc = "fetch"
    /\ Continue(k, [pc |-> "slot", current |-> task[k].current,
                    apy |-> toScaledApy(Series[point]), seen |-> point])
    /\ UNCHANGED signed

(* MutOnChange forgets the flat yield, MutOnStale the one that moved.         *)
MutOnChange(t) == t.apy # t.current.apy
MutOnStale(t) == is_stale(t.current.last_update_slot, t.current.stale_after_slots, slot)
ShouldPublish(t) ==
    \/ t.apy # t.current.apy
    \/ is_stale(t.current.last_update_slot, t.current.stale_after_slots, slot)

getSlot(k) ==
    /\ task[k].pc = "slot"
    /\ Continue(k, IF ShouldPublish(task[k]) THEN [task[k] EXCEPT !.pc = "send"]
                                             ELSE [pc |-> "read"])
    /\ UNCHANGED signed

(* submitUpdate.  A version beyond u64 makes writeU64LE throw: see Fail.      *)
(* MutNextVersion reads the version when it sends.                            *)
MutNextVersion(t) == oracle.version + 1
NextVersion(t) == t.current.version + 1
submitUpdate(k) ==
    /\ task[k].pc = "send"
    /\ NextVersion(task[k]) <= U64_MAX
    /\ Continue(k, [pc |-> "read"])
    /\ signed' = signed \cup
         {[publisher |-> keypair[k], apy |-> task[k].apy, version |-> NextVersion(task[k]),
           current |-> task[k].current, seen |-> task[k].seen]}

(* Any await may reject, and the process may be restarted: main polls again.  *)
Fail(k) ==
    /\ task[k].pc # "read"
    /\ Continue(k, [pc |-> "read"])
    /\ UNCHANGED signed

-----------------------------------------------------------------------------
(* The clock, and the API's series.                                           *)
tick ==
    /\ slot < MAX_SLOT /\ slot' = slot + 1
    /\ UNCHANGED <<oracle, point, task, signed, admin, landed, origin>>

publish_point ==
    /\ point < Len(Series) /\ point' = point + 1
    /\ UNCHANGED <<oracle, slot, task, signed, admin, landed, origin>>

Land == \E m \in signed : update_apy(m)

Next ==
    \/ Land \/ set_stale_window \/ set_publisher
    \/ \E k \in Keepers :
         \/ getAccountInfo(k) \/ fetchLatestApy(k) \/ getSlot(k)
         \/ submitUpdate(k) \/ Fail(k)
    \/ tick \/ publish_point

Spec == Init /\ [][Next]_vars

(* A keeper polls for ever, and what it asks again and again is answered now  *)
(* and then; of updates that stay valid, resent at every poll, one lands.     *)
FairSpec ==
    /\ Spec
    /\ WF_vars(Land)
    /\ \A k \in Keepers :
         /\ WF_vars(getAccountInfo(k)) /\ SF_vars(fetchLatestApy(k))
         /\ SF_vars(getSlot(k)) /\ SF_vars(submitUpdate(k))

-----------------------------------------------------------------------------
(* Properties.                                                                *)

(* No lost update: the update that lands was decided by its keeper on the     *)
(* very value it replaces.  validate_version asks only for a greater version; *)
(* that this amounts to compare-and-set rests on every keeper signing the     *)
(* successor of what it read before it read anything else.                    *)
SameReading(a, b) ==
    a.version = b.version /\ a.apy = b.apy /\ a.last_update_slot = b.last_update_slot
Updated == oracle'.version # oracle.version
DecidedOnCurrent ==
    [][Updated => \E m \in signed : /\ m.version = oracle'.version /\ m.apy = oracle'.apy
                                    /\ SameReading(m.current, oracle)]_vars

(* The oracle never goes back in time: a value that lands was fetched no      *)
(* earlier than its predecessor landed, whatever keepers race, whatever       *)
(* update was held back, and across rotations of the publisher there and back.*)
NeverOlder == [][Updated => origin' >= landed]_vars

(* The keeper's purpose (index.ts): a stale oracle does not stay stale.  It   *)
(* is excused when a window of 0 makes it stale by definition, and when no    *)
(* keeper can help: versions used up, or a publisher none has the key of.     *)
Exhausted == oracle.version = U64_MAX \/ \A k \in Keepers : keypair[k] # oracle.publisher
Stale == is_stale(oracle.last_update_slot, oracle.stale_after_slots, slot)
Refreshed == Stale ~> (~Stale \/ oracle.stale_after_slots = 0 \/ Exhausted)

(* Once the API's answer has settled, the oracle shows it and keeps showing   *)
(* it: a value that a race or a late message put there is corrected.          *)
Converges == <>[](oracle.apy = toScaledApy(Series[point]) \/ Exhausted)
=============================================================================
