-------------------------- MODULE NotificationProofs --------------------------
(* What holds of the event queue for any number of calls, subscribers and    *)
(* any capacity.  The race in getNewID is the only cause of equal ids, of    *)
(* replays out of order and of events that are dropped too early: with a     *)
(* lock there (SerialSpec) none of them happens.                             *)
EXTENDS Notification, FiniteSetTheorems, WellFoundedInduction, TLAPS

N == Cardinality(Calls)
Started == {c \in Calls : pc[c] # "idle"}
Numbered == {"notify", "scan", "write"}

(* The part of TypeOK about the queue and its callers.                       *)
QueueTypes ==
    /\ latestID \in 0..N
    /\ log \in [EventIds -> Optional(Calls)]
    /\ pc \in [Calls -> {"idle", "done", "lost"} \cup InFlight]
    /\ reg \in [Calls -> 0..N]
    /\ id \in [Calls -> Optional(EventIds)]
    /\ victims \in [Calls -> SUBSET EventIds]

(* No number in use is larger than the number of calls that have started,    *)
(* even if increments are lost, so that ids stay within their range.         *)
CounterBound ==
    /\ latestID <= Cardinality(Started)
    /\ \A k \in EventIds : Stored(k) => k <= Cardinality(Started)
    /\ \A c \in Calls : id[c] # None => id[c] <= Cardinality(Started)
    /\ \A c \in Calls : pc[c] \in {"increment", "format"} => reg[c] + 1 <= Cardinality(Started)
    /\ \A c \in Calls : pc[c] = "format" => latestID >= 1

QueueInv == QueueTypes /\ CounterBound

(* A step of the handler or of a request leaves the queue alone.             *)
LEMMA StepOfQueue ==
    ASSUME [Next]_vars
    PROVE  \/ \E c \in Calls : StoreAndNotify(c)
           \/ Crash
           \/ UNCHANGED <<queueVars, callVars>>
BY DEF Next, Handler, Subscribe, Broadcast, Send, Unsubscribe, Connect, Flush, Disconnect,
       Signal, Stop, Wait, Close, vars, queueVars, callVars

(* Every set of numbers up to a bound that is not empty has a largest member. *)
LEMMA LargestExists ==
    ASSUME NEW n \in Nat, NEW S \in SUBSET (0..n), S # {}
    PROVE  \E m \in S : \A k \in S : k <= m
<1> DEFINE T == {n - k : k \in S}
<1>1. T \subseteq Nat /\ T # {}
  <2>1. \A k \in S : n - k \in Nat
    OBVIOUS
  <2>2. PICK k \in S : TRUE
    OBVIOUS
  <2>3. n - k \in T
    BY <2>2
  <2> QED BY <2>1, <2>3
<1>2. PICK t \in T : \A u \in T : ~ (<<u, t>> \in OpToRel(<, Nat))
  <2> HIDE DEF T
  <2> QED BY <1>1, NatLessThanWellFounded, WFMin
<1>3. PICK m \in S : t = n - m
  OBVIOUS
<1>4. ASSUME NEW k \in S PROVE k <= m
  <2>1. n - k \in T /\ n - k \in Nat /\ t \in Nat
    BY <1>1
  <2>2. ~ (n - k < t)
    BY <1>2, <2>1 DEF OpToRel
  <2> QED BY <1>3, <2>2
<1> QED BY <1>4

(* The counter a restart begins with is the largest id in the log.           *)
LEMMA LastKeyIsLargest ==
    ASSUME QueueTypes
    PROVE  /\ LastKey \in {0} \cup {i \in EventIds : Stored(i)}
           /\ \A i \in EventIds : Stored(i) => i <= LastKey
<1> DEFINE K == {0} \cup {i \in EventIds : Stored(i)}
<1>1. N \in Nat
  BY NotificationAssumption, FS_CardinalityType DEF N
<1>2. K \in SUBSET (0..N) /\ K # {}
  BY <1>1 DEF EventIds, N
<1>3. \E m \in K : \A k \in K : k <= m
  <2> HIDE DEF K
  <2> QED BY <1>1, <1>2, LargestExists
<1>4. \E k \in K : \A i \in EventIds : Stored(i) => i <= k
  BY <1>3
<1> QED BY <1>4 DEF LastKey

LEMMA StartedBounds ==
    ASSUME QueueTypes
    PROVE  /\ IsFiniteSet(Started) /\ Cardinality(Started) \in Nat
           /\ N \in Nat /\ Cardinality(Started) <= N
<1>1. IsFiniteSet(Calls) /\ Started \subseteq Calls
  BY NotificationAssumption DEF Started
<1> QED BY <1>1, FS_Subset, FS_CardinalityType DEF N

LEMMA InitQueueInv == Init => QueueInv
<1> SUFFICES ASSUME Init PROVE QueueInv
  OBVIOUS
<1>1. Started = {} /\ N \in Nat
  BY NotificationAssumption, FS_CardinalityType DEF Init, Started, N
<1>2. Cardinality(Started) = 0
  BY <1>1, FS_EmptySet
<1>3. QueueTypes
  BY <1>1 DEF Init, QueueTypes, Optional, InFlight
<1>4. CounterBound
  BY <1>1, <1>2 DEF Init, CounterBound, Stored
<1> QED BY <1>3, <1>4 DEF QueueInv

(* Load is the step that lets the set of started calls grow.                 *)
LEMMA LoadQueueInv ==
    ASSUME QueueInv, NEW c \in Calls, Load(c)
    PROVE  QueueInv'
<1>1. /\ pc[c] = "idle" /\ pc' = [pc EXCEPT ![c] = "increment"]
      /\ reg' = [reg EXCEPT ![c] = latestID]
      /\ UNCHANGED <<latestID, log, id, victims>>
  BY DEF Load, At, queueVars
<1>2. Started' = Started \cup {c} /\ c \notin Started
  BY <1>1 DEF QueueInv, QueueTypes, Started
<1>3. Cardinality(Started') = Cardinality(Started) + 1
  BY <1>2, StartedBounds, FS_AddElement DEF QueueInv
<1>4. QueueTypes'
  BY <1>1 DEF QueueInv, QueueTypes, InFlight
<1>5. CounterBound'
  <2> DEFINE s == Cardinality(Started)
  <2>1. s \in Nat /\ Cardinality(Started') = s + 1
    BY <1>3, StartedBounds DEF QueueInv
  <2>2. latestID \in Nat /\ latestID <= s
    BY StartedBounds DEF QueueInv, QueueTypes, CounterBound
  <2>3. \A k \in EventIds : Stored(k)' => k <= s + 1
    BY <1>1, <2>1, StartedBounds DEF QueueInv, CounterBound, Stored, EventIds, N
  <2>4. \A d \in Calls : id'[d] # None => id'[d] <= s + 1
    <3> SUFFICES ASSUME NEW d \in Calls, id[d] # None PROVE id[d] <= s + 1
      BY <1>1
    <3>1. id[d] \in Int /\ id[d] <= s
      BY DEF QueueInv, QueueTypes, CounterBound, Optional, EventIds
    <3> QED BY <2>1, <3>1
  <2>5. \A d \in Calls : pc'[d] \in {"increment", "format"} => reg'[d] + 1 <= s + 1
    <3> SUFFICES ASSUME NEW d \in Calls, pc'[d] \in {"increment", "format"}
                 PROVE  reg'[d] + 1 <= s + 1
      OBVIOUS
    <3>1. CASE d = c
      BY <1>1, <2>1, <2>2, <3>1 DEF QueueInv, QueueTypes
    <3>2. CASE d # c
      <4>1. reg[d] \in Int /\ reg[d] + 1 <= s
        BY <1>1, <3>2, StartedBounds DEF QueueInv, QueueTypes, CounterBound
      <4> QED BY <1>1, <2>1, <3>2, <4>1 DEF QueueInv, QueueTypes
    <3> QED BY <3>1, <3>2
  <2>6. \A d \in Calls : pc'[d] = "format" => latestID' >= 1
    BY <1>1 DEF QueueInv, QueueTypes, CounterBound
  <2> HIDE DEF s
  <2>7. latestID' <= s + 1
    BY <1>1, <2>1, <2>2
  <2> QED BY <2>1, <2>3, <2>4, <2>5, <2>6, <2>7 DEF CounterBound
<1> QED BY <1>4, <1>5 DEF QueueInv

(* The other steps of a call leave the set of started calls as it is.        *)
LEMMA CallQueueInv ==
    ASSUME QueueInv, NEW c \in Calls, StoreAndNotify(c)
    PROVE  QueueInv'
<1> USE DEF QueueInv
<1>b. /\ Cardinality(Started) \in Nat /\ N \in Nat
      /\ Cardinality(Started) <= N
  BY StartedBounds
<1>s. ASSUME NEW from, NEW to, from # "idle", to # "idle", At(c, from, to)
      PROVE  Started' = Started
  BY <1>s DEF At, Started, QueueTypes
<1>1. CASE Load(c)
  BY <1>1, LoadQueueInv
<1>2. CASE Increment(c)
  <2>1. Started' = Started
    BY <1>2, <1>s DEF Increment
  <2>2. QueueTypes'
    BY <1>2, <1>b DEF Increment, At, QueueTypes, CounterBound, InFlight
  <2>3. CounterBound'
    BY <1>2, <1>b, <2>1 DEF Increment, At, QueueTypes, CounterBound, Stored
  <2> QED BY <2>2, <2>3
<1>3. CASE Format(c)
  <2>1. Started' = Started
    BY <1>3, <1>s DEF Format
  <2>2. \A n \in {latestID, reg[c] + 1} : n \in EventIds /\ n <= Cardinality(Started)
    BY <1>3, <1>b DEF Format, At, QueueTypes, CounterBound, EventIds, N
  <2>3. QueueTypes'
    BY <1>3, <2>2 DEF Format, At, QueueTypes, InFlight, Optional, queueVars
  <2>4. CounterBound'
    BY <1>3, <2>1, <2>2 DEF Format, At, QueueTypes, CounterBound, queueVars, Stored
  <2> QED BY <2>3, <2>4
<1>4. CASE Notify(c)
  <2>1. Started' = Started
    BY <1>4, <1>s DEF Notify
  <2> QED BY <1>4, <2>1 DEF Notify, At, QueueTypes, CounterBound, InFlight, queueVars, Stored
<1>5. CASE Scan(c)
  <2>1. Started' = Started
    BY <1>5, <1>s DEF Scan
  <2> QED BY <1>5, <2>1 DEF Scan, At, QueueTypes, CounterBound, InFlight, queueVars, Stored
<1>6. CASE Write(c)
  <2>1. Started' = Started
    BY <1>6, <1>s DEF Write
  <2>2. QueueTypes'
    BY <1>6 DEF Write, At, QueueTypes, InFlight, Optional
  <2>3. \A k \in EventIds : Stored(k)' => Stored(k) \/ k = id[c]
    BY <1>6 DEF Write, Stored, QueueTypes
  <2>4. ASSUME NEW k \in EventIds, Stored(k)' PROVE k <= Cardinality(Started)
    <3>1. k # None
      BY NotificationAssumption, <1>b DEF EventIds, N
    <3> QED BY <2>3, <2>4, <3>1 DEF CounterBound
  <2>5. CounterBound'
    BY <1>6, <2>1, <2>4 DEF Write, At, QueueTypes, CounterBound
  <2> QED BY <2>2, <2>5
<1>7. CASE StoreError(c)
  <2>1. Started' = Started
    BY <1>7, <1>s DEF StoreError
  <2> QED BY <1>7, <2>1 DEF StoreError, At, QueueTypes, CounterBound, InFlight, queueVars, Stored
<1> QED BY <1>1, <1>2, <1>3, <1>4, <1>5, <1>6, <1>7 DEF StoreAndNotify

(* A crash goes back to an id that is stored, and no call goes on.           *)
LEMMA CrashQueueInv ==
    ASSUME QueueInv, Crash
    PROVE  QueueInv'
<1>1. Started' = Started
  BY DEF QueueInv, QueueTypes, Started, Crash, InFlight
<1>2. LastKey \in 0..N /\ LastKey <= Cardinality(Started)
  BY LastKeyIsLargest, StartedBounds DEF QueueInv, CounterBound, EventIds, N
<1>3. QueueTypes'
  BY <1>2 DEF QueueInv, QueueTypes, Crash
<1>4. CounterBound'
  BY <1>1, <1>2, StartedBounds DEF QueueInv, QueueTypes, CounterBound, Crash, InFlight, Stored
<1> QED BY <1>3, <1>4 DEF QueueInv

(* Ids, the counter and the log keep their ranges, also when increments are  *)
(* lost and the process restarts: the counter never passes the number of     *)
(* calls (getNewID, addRotate, fetchLatestID).                               *)
THEOREM QueueTypesCorrect == Spec => []QueueInv
<1>1. Init => QueueInv
  BY InitQueueInv
<1>2. QueueInv /\ [Next]_vars => QueueInv'
  <2> SUFFICES ASSUME QueueInv, [Next]_vars PROVE QueueInv'
    OBVIOUS
  <2>1. CASE \E c \in Calls : StoreAndNotify(c)
    BY <2>1, CallQueueInv
  <2>2. CASE Crash
    BY <2>2, CrashQueueInv
  <2>3. CASE UNCHANGED <<queueVars, callVars>>
    <3>1. Started' = Started
      BY <2>3 DEF Started, callVars
    <3> QED BY <2>3, <3>1 DEF queueVars, callVars, QueueInv, QueueTypes, CounterBound, Stored
  <2> QED BY <2>1, <2>2, <2>3, StepOfQueue
<1> QED BY <1>1, <1>2, PTL DEF Spec

---------------------------------------------------------------------------
(* With a lock in getNewID                                                 *)

(* While a call is between Increment and Format its number is the counter,   *)
(* and every number that is in use is smaller.                               *)
CounterHeld ==
    /\ \A c \in Calls : pc[c] = "increment" => reg[c] = latestID
    /\ \A c \in Calls : pc[c] = "format" => reg[c] + 1 = latestID
StoredBelow ==
    \A k \in EventIds : Stored(k) =>
        k <= latestID /\ \A f \in Calls : pc[f] = "format" => k < latestID
NumbersBelow ==
    \A c \in Calls : pc[c] \in Numbered =>
        /\ id[c] \in EventIds /\ id[c] <= latestID
        /\ \A f \in Calls : pc[f] = "format" => id[c] < latestID
(* What a call is about to delete is out of the window, and stays so.        *)
VictimsOld ==
    \A c \in Calls : pc[c] = "write" => \A k \in victims[c] : k + Capacity <= latestID

SerialInv ==
    QueueInv /\ SerialIds /\ CounterHeld /\ StoredBelow /\ NumbersBelow /\ VictimsOld

LEMMA InitSerialInv == Init => SerialInv
<1> SUFFICES ASSUME Init PROVE SerialInv
  OBVIOUS
<1>1. QueueInv
  BY InitQueueInv
<1>2. SerialIds /\ CounterHeld /\ NumbersBelow /\ VictimsOld
  BY DEF Init, SerialIds, CounterHeld, NumbersBelow, VictimsOld, Numbered
<1>3. StoredBelow
  BY DEF Init, StoredBelow, Stored
<1> QED BY <1>1, <1>2, <1>3 DEF SerialInv

(* QueueInv and SerialIds are known of the next state: one of them is the    *)
(* theorem above, the other is the assumption of SerialSpec.                 *)
LEMMA CallSerialInv ==
    ASSUME SerialInv, QueueInv', SerialIds', NEW c \in Calls, StoreAndNotify(c)
    PROVE  SerialInv'
<1> USE DEF SerialInv, QueueInv, QueueTypes, At, queueVars, Numbered
<1>n. N \in Nat /\ EventIds = 1..N /\ EventIds \subseteq Int /\ None \notin Int /\ Capacity \in Nat
  BY StartedBounds, NotificationAssumption DEF EventIds, N
<1>1. CASE Load(c)
  <2>1. CounterHeld'
    BY <1>1 DEF Load, CounterHeld
  <2>2. StoredBelow'
    BY <1>1 DEF Load, StoredBelow, Stored
  <2>3. NumbersBelow'
    BY <1>1 DEF Load, NumbersBelow
  <2>4. VictimsOld'
    BY <1>1 DEF Load, VictimsOld
  <2> QED BY <2>1, <2>2, <2>3, <2>4
<1>2. CASE Increment(c)
  <2>1. latestID' = latestID + 1 /\ latestID \in Nat
    BY <1>2 DEF Increment, CounterHeld
  <2>2. \A d \in Calls \ {c} : pc[d] \notin {"increment", "format"} /\ pc'[d] = pc[d]
    BY <1>2 DEF Increment, SerialIds
  <2>3. CounterHeld'
    BY <1>2, <2>1, <2>2 DEF Increment, CounterHeld
  <2>4. StoredBelow'
    BY <1>2, <2>1, <1>n DEF Increment, StoredBelow, Stored
  <2>5. NumbersBelow'
    BY <1>2, <2>1, <1>n DEF Increment, NumbersBelow
  <2>6. VictimsOld'
    BY <1>2, <2>1, <1>n DEF Increment, VictimsOld
  <2> QED BY <2>3, <2>4, <2>5, <2>6
<1>3. CASE Format(c)
  <2>0. reg[c] + 1 = latestID /\ latestID \in EventIds /\ latestID' = latestID
    BY <1>3, <1>n DEF Format, CounterHeld, CounterBound
  <2>1. id' = [id EXCEPT ![c] = latestID]
    BY <1>3, <2>0 DEF Format
  <2>2. \A f \in Calls : pc'[f] # "format"
    BY <1>3 DEF Format, SerialIds
  <2>3. CounterHeld'
    BY <1>3 DEF Format, CounterHeld
  <2>4. StoredBelow'
    BY <1>3, <2>2 DEF Format, StoredBelow, Stored
  <2>5. NumbersBelow'
    BY <1>3, <1>n, <2>0, <2>1, <2>2 DEF Format, NumbersBelow
  <2>6. VictimsOld'
    BY <1>3 DEF Format, VictimsOld
  <2> QED BY <2>3, <2>4, <2>5, <2>6
<1>4. CASE Notify(c)
  <2>1. CounterHeld' /\ VictimsOld'
    BY <1>4 DEF Notify, CounterHeld, VictimsOld
  <2>2. StoredBelow'
    BY <1>4 DEF Notify, StoredBelow, Stored
  <2>3. NumbersBelow'
    BY <1>4 DEF Notify, NumbersBelow
  <2> QED BY <2>1, <2>2, <2>3
<1>5. CASE Scan(c)
  <2>1. CounterHeld'
    BY <1>5 DEF Scan, CounterHeld
  <2>2. StoredBelow'
    BY <1>5 DEF Scan, StoredBelow, Stored
  <2>3. NumbersBelow'
    BY <1>5 DEF Scan, NumbersBelow
  <2>4. \A k \in victims'[c] : k + Capacity <= latestID
    BY <1>5, <1>n DEF Scan
  <2>5. VictimsOld'
    BY <1>5, <2>4 DEF Scan, VictimsOld
  <2> QED BY <2>1, <2>2, <2>3, <2>5
<1>6. CASE Write(c)
  <2>1. CounterHeld' /\ VictimsOld'
    BY <1>6 DEF Write, CounterHeld, VictimsOld
  <2>2. \A k \in EventIds : Stored(k)' => Stored(k) \/ k = id[c]
    BY <1>6 DEF Write, Stored
  <2>3. StoredBelow'
    BY <1>6, <2>2 DEF Write, StoredBelow, NumbersBelow
  <2>4. NumbersBelow'
    BY <1>6 DEF Write, NumbersBelow
  <2> QED BY <2>1, <2>3, <2>4
<1>7. CASE StoreError(c)
  <2>1. CounterHeld' /\ VictimsOld'
    BY <1>7 DEF StoreError, CounterHeld, VictimsOld
  <2>2. StoredBelow'
    BY <1>7 DEF StoreError, StoredBelow, Stored
  <2>3. NumbersBelow'
    BY <1>7 DEF StoreError, NumbersBelow
  <2> QED BY <2>1, <2>2, <2>3
<1> QED BY <1>1, <1>2, <1>3, <1>4, <1>5, <1>6, <1>7 DEF StoreAndNotify

(* No call survives a crash, and the counter is the largest id in the log.   *)
LEMMA CrashSerialInv ==
    ASSUME SerialInv, QueueInv', SerialIds', Crash
    PROVE  SerialInv'
<1>1. \A c \in Calls : pc'[c] \notin {"increment", "format", "write"} \cup Numbered
  BY DEF SerialInv, QueueInv, QueueTypes, Crash, InFlight, Numbered
<1>2. CounterHeld' /\ NumbersBelow' /\ VictimsOld'
  BY <1>1 DEF CounterHeld, NumbersBelow, VictimsOld
<1>3. StoredBelow'
  BY <1>1, LastKeyIsLargest DEF SerialInv, QueueInv, StoredBelow, Crash, Stored
<1> QED BY <1>2, <1>3 DEF SerialInv

LEMMA NextSerialInv ==
    ASSUME SerialInv, [Next /\ SerialIds']_vars
    PROVE  SerialInv'
<1>1. [Next]_vars /\ SerialIds'
  BY DEF SerialInv, SerialIds, vars, callVars
<1>2. CASE \E c \in Calls : StoreAndNotify(c)
  BY <1>1, <1>2, CallQueueInv, CallSerialInv DEF SerialInv
<1>3. CASE Crash
  BY <1>1, <1>3, CrashQueueInv, CrashSerialInv DEF SerialInv
<1>4. CASE UNCHANGED <<queueVars, callVars>>
  <2> USE <1>4 DEF queueVars, callVars, SerialInv, QueueInv
  <2>1. Started' = Started
    BY DEF Started
  <2>2. QueueTypes'
    BY DEF QueueTypes
  <2>3. CounterBound'
    BY <2>1 DEF CounterBound, Stored
  <2>4. CounterHeld'
    BY DEF CounterHeld
  <2>5. StoredBelow'
    BY DEF StoredBelow, Stored
  <2>6. NumbersBelow' /\ VictimsOld'
    BY DEF NumbersBelow, VictimsOld
  <2> QED BY <1>1, <2>2, <2>3, <2>4, <2>5, <2>6
<1> QED BY <1>1, <1>2, <1>3, <1>4, StepOfQueue

LEMMA SerialInvHolds == SerialSpec => []SerialInv
<1>1. SerialInv /\ [Next /\ SerialIds']_vars => SerialInv'
  BY NextSerialInv
<1> QED BY <1>1, InitSerialInv, PTL DEF SerialSpec

(* With a lock in getNewID rotation never drops an event that is still       *)
(* within the window, although the counter moves on between the scan and the *)
(* write of a call (addRotate).                                              *)
THEOREM RotationDropsOnlyOld == SerialSpec => OnlyOldDropped
<1>1. ASSUME SerialInv, [Next /\ SerialIds']_vars,
             NEW k \in EventIds, Stored(k), ~Stored(k)'
      PROVE  k + Capacity <= latestID
  <2>1. [Next]_vars
    BY <1>1
  <2>2. ~ UNCHANGED <<queueVars, callVars>> /\ ~ Crash
    BY <1>1 DEF queueVars, Stored, Crash
  <2>3. PICK c \in Calls : StoreAndNotify(c)
    BY <2>1, <2>2, StepOfQueue
  <2>4. Write(c)
    BY <1>1, <2>3 DEF StoreAndNotify, Load, Increment, Format, Notify, Scan, StoreError,
                      queueVars, Stored
  <2>5. k \in victims[c]
    BY <1>1, <2>4, NotificationAssumption DEF Write, Stored, SerialInv, QueueInv, QueueTypes
  <2> QED BY <1>1, <2>4, <2>5 DEF Write, At, SerialInv, VictimsOld
<1>2. SerialInv /\ [Next /\ SerialIds']_vars =>
          [\A k \in EventIds : (Stored(k) /\ ~Stored(k)') => k + Capacity <= latestID]_vars
  BY <1>1
<1> QED BY <1>2, SerialInvHolds, PTL DEF SerialSpec, OnlyOldDropped

(* With a lock in getNewID a new id is larger than every id in the log, also *)
(* after any number of restarts (getNewID, fetchLatestID).                   *)
THEOREM NewIdsAreLargest == SerialSpec => NewIdsLargest
<1>1. ASSUME SerialInv, [Next /\ SerialIds']_vars,
             NEW c \in Calls, pc[c] = "format", id'[c] # id[c], NEW k \in EventIds, Stored(k)
      PROVE  k < id'[c]
  <2>1. [Next]_vars
    BY <1>1
  <2>2. ~ UNCHANGED <<queueVars, callVars>> /\ ~ Crash
    BY <1>1 DEF callVars, Crash
  <2>3. PICK d \in Calls : StoreAndNotify(d)
    BY <2>1, <2>2, StepOfQueue
  <2>4. Format(d)
    BY <1>1, <2>3 DEF StoreAndNotify, Load, Increment, Notify, Scan, Write, StoreError
  <2>5. d = c
    BY <1>1, <2>4 DEF Format, SerialInv, QueueInv, QueueTypes
  <2>6. id'[c] = latestID
    BY <1>1, <2>4, <2>5 DEF Format, SerialInv, QueueInv, QueueTypes, CounterHeld
  <2> QED BY <1>1, <2>6 DEF SerialInv, StoredBelow
<1>2. SerialInv /\ [Next /\ SerialIds']_vars =>
          [\A c \in Calls : (pc[c] = "format" /\ id'[c] # id[c])
              => \A k \in EventIds : Stored(k) => k < id'[c]]_vars
  BY <1>1
<1> QED BY <1>2, SerialInvHolds, PTL DEF SerialSpec, NewIdsLargest

(* Every number that was ever given out, stored or not.                      *)
GivenBelow ==
    \A c \in Calls : id[c] # None =>
        id[c] <= latestID /\ \A f \in Calls : pc[f] = "format" => id[c] < latestID
UniqueInv == SerialInv /\ GivenBelow /\ UniqueIds

LEMMA CallUniqueInv ==
    ASSUME SerialInv, SerialInv', GivenBelow, UniqueIds, NEW c \in Calls, StoreAndNotify(c)
    PROVE  GivenBelow' /\ UniqueIds'
<1> USE DEF SerialInv, QueueInv, QueueTypes, At, queueVars
<1>n. N \in Nat /\ EventIds = 1..N /\ None \notin Int
  BY StartedBounds, NotificationAssumption DEF EventIds, N
<1>i. \A d \in Calls : id[d] # None => id[d] \in Int
  BY <1>n DEF Optional
<1>1. CASE Increment(c)
  <2>1. latestID' = latestID + 1 /\ latestID \in Nat
    BY <1>1 DEF Increment, CounterHeld
  <2> QED BY <1>1, <1>i, <2>1 DEF Increment, GivenBelow, UniqueIds
<1>2. CASE Format(c)
  <2>0. reg[c] + 1 = latestID /\ latestID' = latestID /\ latestID \in Nat
    BY <1>2, <1>n DEF Format, CounterHeld
  <2>1. id' = [id EXCEPT ![c] = latestID]
    BY <1>2, <2>0 DEF Format
  <2>2. \A d \in Calls : id[d] # latestID
    BY <1>2, <1>n, <1>i, <2>0 DEF Format, GivenBelow
  <2>3. \A f \in Calls : pc'[f] # "format"
    BY <1>2 DEF Format, SerialIds
  <2>4. GivenBelow'
    BY <1>2, <2>0, <2>1, <2>3 DEF GivenBelow
  <2>5. UniqueIds'
    BY <2>1, <2>2 DEF UniqueIds
  <2> QED BY <2>4, <2>5
<1>3. CASE Load(c)
  BY <1>3 DEF Load, GivenBelow, UniqueIds
<1>4. CASE Notify(c) \/ Scan(c) \/ Write(c) \/ StoreError(c)
  BY <1>4 DEF Notify, Scan, Write, StoreError, GivenBelow, UniqueIds
<1> QED BY <1>1, <1>2, <1>3, <1>4 DEF StoreAndNotify

(* With a lock in getNewID, and as long as the process does not crash, no    *)
(* two events have the same id (getNewID).  After a crash between Notify and *)
(* the write an id can be given again: the event was sent but not stored.    *)
THEOREM IdsAreUnique == (~Crashes) /\ SerialSpec => []UniqueIds
<1> SUFFICES ASSUME ~Crashes PROVE SerialSpec => []UniqueIds
  OBVIOUS
<1>1. Init => UniqueInv
  BY InitSerialInv DEF Init, UniqueInv, GivenBelow, UniqueIds
<1>2. UniqueInv /\ [Next /\ SerialIds']_vars => UniqueInv'
  <2> SUFFICES ASSUME UniqueInv, [Next /\ SerialIds']_vars PROVE UniqueInv'
    OBVIOUS
  <2>1. SerialInv' /\ [Next]_vars
    BY NextSerialInv DEF UniqueInv
  <2>2. CASE \E c \in Calls : StoreAndNotify(c)
    BY <2>1, <2>2, CallUniqueInv DEF UniqueInv
  <2>3. CASE UNCHANGED <<queueVars, callVars>>
    BY <2>1, <2>3 DEF UniqueInv, GivenBelow, UniqueIds, queueVars, callVars
  <2> QED BY <2>1, <2>2, <2>3, StepOfQueue DEF Crash
<1>3. UniqueInv => UniqueIds
  BY DEF UniqueInv
<1> QED BY <1>1, <1>2, <1>3, PTL DEF SerialSpec
=============================================================================
