-------------------------- MODULE DirectoryProofs --------------------------
(* What holds of Directory for all values of its constants.                  *)
EXTENDS Directory, FiniteSetTheorems, TLAPS

CP == INSTANCE CatalogAtomicProofs WITH StorageFaults <- TRUE
NS == INSTANCE NotificationStreamProofs WITH pc <- call, todo <- sending,
          StorageFaults <- TRUE, Crashes <- TRUE, Stops <- FALSE

---------------------------------------------------------------------------
(* The part that notifies                                                  *)

LEMMA NotificationStep ==
    ASSUME [Next]_vars
    PROVE  [N!Next]_N!vars
<1> USE DEF notificationVars, N!vars, N!queueVars, N!callVars, N!connVars, N!handlerVars
<1>1. CASE Request BY <1>1 DEF Request
<1>2. CASE Clean BY <1>2 DEF Clean
<1>3. CASE \E c \in Calls : Listen(c) BY <1>3 DEF Listen, N!Next, N!StoreAndNotify
<1>4. CASE Handler BY <1>4 DEF Handler, N!Next, N!Handler
<1>5. CASE Restart BY <1>5 DEF Restart, N!Next
<1>6. CASE \E s \in Conns : Subscribe(s) \/ Connect(s) \/ Flush(s) \/ Disconnect(s)
  BY <1>6 DEF Subscribe, Connect, Flush, Disconnect, N!Next, N!Handler
<1>7. CASE UNCHANGED vars BY <1>7 DEF vars
<1> QED BY <1>1, <1>2, <1>3, <1>4, <1>5, <1>6, <1>7 DEF Next

(* The lemmas of NotificationStreamProofs are about an instance of their own. *)
LEMMA SameSizes ==
    /\ \A S : N!Cardinality(S) = NS!Cardinality(S)
    /\ \A S : IsFiniteSet(S) <=> NS!IsFiniteSet(S)
<1>1. \A S : N!Cardinality(S) = NS!Cardinality(S)
  BY Zenon DEF N!Cardinality, NS!Cardinality
<1>2. \A S : IsFiniteSet(S) <=> NS!IsFiniteSet(S)
  BY Zenon DEF IsFiniteSet, NS!IsFiniteSet
<1> QED BY <1>1, <1>2

LEMMA SameExtract == \A seq, places : N!Extract(seq, places) = NS!Extract(seq, places)
<1>1. \A S, x : N!Rank(S, x) = NS!Rank(S, x)
  BY SameSizes DEF N!Rank, NS!Rank
<1>2. \A S : N!Sorted(S) = NS!Sorted(S)
  BY Zenon DEF N!Sorted, NS!Sorted, N!Rank, NS!Rank, N!Cardinality, NS!Cardinality
<1> QED BY <1>2, SameSizes, Zenon DEF N!Extract, NS!Extract

LEMMA SameVars == /\ N!vars = NS!vars
                  /\ N!queueVars = NS!queueVars /\ N!callVars = NS!callVars
                  /\ N!connVars = NS!connVars /\ N!handlerVars = NS!handlerVars
                  /\ N!EventIds = NS!EventIds /\ N!InFlight = NS!InFlight
                  /\ N!vars' = NS!vars'
                  /\ N!queueVars' = NS!queueVars' /\ N!callVars' = NS!callVars'
                  /\ N!connVars' = NS!connVars' /\ N!handlerVars' = NS!handlerVars'
BY SameSizes
   DEF N!vars, NS!vars, N!queueVars, NS!queueVars, N!callVars, NS!callVars,
       N!connVars, NS!connVars, N!handlerVars, NS!handlerVars, N!EventIds, NS!EventIds,
       N!InFlight, NS!InFlight

LEMMA SameState ==
    /\ \A k : N!Stored(k) <=> NS!Stored(k)
    /\ \A s : N!Active(s) <=> NS!Active(s)
    /\ \A s, e : N!Wanted(s, e) <=> NS!Wanted(s, e)
    /\ N!Open <=> NS!Open
    /\ N!AtSelect <=> NS!AtSelect
BY DEF N!Stored, NS!Stored, N!Active, NS!Active, N!Wanted, NS!Wanted, N!Open, NS!Open,
       N!AtSelect, NS!AtSelect, N!Handling, NS!Handling

LEMMA SameMissed == \A s, n : N!Missed(s, n) = NS!Missed(s, n)
<1> TAKE s, n
<1> DEFINE all == [k \in NS!EventIds |-> [id |-> k, call |-> log[k]]]
           places == {k \in NS!EventIds : k > n /\ NS!Stored(k) /\ NS!Wanted(s, all[k])}
<1>1. places = {k \in NS!EventIds : k > n /\ N!Stored(k) /\ N!Wanted(s, all[k])}
  BY SameState
<1>2. N!Missed(s, n) = N!Extract(all, places) BY <1>1, SameVars DEF N!Missed
<1>3. NS!Missed(s, n) = NS!Extract(all, places) BY DEF NS!Missed
<1> HIDE DEF all, places
<1> QED BY <1>2, <1>3, SameExtract

LEMMA SameCalls ==
    ASSUME NEW c \in Calls, N!StoreAndNotify(c)
    PROVE  NS!StoreAndNotify(c)
BY SameVars, SameState
   DEF N!StoreAndNotify, NS!StoreAndNotify, N!Load, NS!Load, N!Increment, NS!Increment,
       N!Format, NS!Format, N!Notify, NS!Notify, N!Scan, NS!Scan, N!Write, NS!Write,
       N!StoreError, NS!StoreError, N!At, NS!At

LEMMA SameHandler == N!Handler => NS!Handler
BY SameVars, SameState, SameMissed
   DEF N!Handler, NS!Handler, N!Broadcast, NS!Broadcast, N!Subscribe, NS!Subscribe,
       N!Send, NS!Send, N!Unsubscribe, NS!Unsubscribe

LEMMA SameLastKey == N!LastKey = NS!LastKey
BY Zenon DEF N!LastKey, NS!LastKey, N!EventIds, NS!EventIds, N!Stored, NS!Stored,
             N!Cardinality, NS!Cardinality

LEMMA SameNotification == N!Next => NS!Next
<1>1. ASSUME NEW s \in Conns, N!Connect(s) \/ N!Flush(s) \/ N!Disconnect(s)
      PROVE  NS!Connect(s) \/ NS!Flush(s) \/ NS!Disconnect(s)
  BY <1>1, SameVars
     DEF N!Connect, NS!Connect, N!Flush, NS!Flush, N!Disconnect, NS!Disconnect
<1>2. N!Signal \/ N!Stop \/ N!Wait \/ N!Close => NS!Signal \/ NS!Stop \/ NS!Wait \/ NS!Close
  BY SameVars, SameState
     DEF N!Signal, NS!Signal, N!Stop, NS!Stop, N!Wait, NS!Wait, N!Close, NS!Close
<1>3. N!Crash => NS!Crash
  BY SameVars, SameLastKey DEF N!Crash, NS!Crash
<1> QED BY <1>1, <1>2, <1>3, SameCalls, SameHandler DEF N!Next, NS!Next

LEMMA NotificationConstants ==
    /\ IsFiniteSet(Calls)
    /\ TypeOf \in [Calls -> Types]
    /\ Wants \in [Conns -> SUBSET Types]
    /\ Capacity \in Nat \ {0}
    /\ TRUE \in BOOLEAN /\ FALSE \in BOOLEAN
    /\ None \notin Int /\ None \notin Calls
<1>1. IsFiniteSet(Types)
  <2>1. Types = (({} \cup {"create"}) \cup {"update"}) \cup {"delete"} BY DEF Types
  <2> QED BY <2>1, FS_EmptySet, FS_AddElement
<1>2. IsFiniteSet(Requests \X Types) BY <1>1, DirectoryAssumption, FS_Product
<1>3. None \notin Int BY CatalogAssumption
<1>4. TypeOf \in [Calls -> Types] BY DEF TypeOf, Calls
<1>5. Wants \in [Conns -> SUBSET Types] BY DEF Wants
<1> QED BY <1>2, <1>3, <1>4, <1>5, DirectoryAssumption DEF Calls

---------------------------------------------------------------------------
(* The catalog                                                             *)

LEMMA CatalogStep ==
    ASSUME [Next]_vars
    PROVE  Restart \/ [C!Next]_C!vars
<1> USE DEF catalogVars, C!vars, C!requestVars, C!cleanerVars
<1>1. CASE Request BY <1>1 DEF Request, C!Next
<1>2. CASE Clean BY <1>2 DEF Clean, C!Next, C!Cleaner
<1>3. CASE \E c \in Calls : Listen(c) BY <1>3 DEF Listen
<1>4. CASE Handler BY <1>4 DEF Handler
<1>5. CASE \E s \in Conns : Subscribe(s) \/ Connect(s) \/ Flush(s) \/ Disconnect(s)
  BY <1>5 DEF Subscribe, Connect, Flush, Disconnect
<1>6. CASE UNCHANGED vars BY <1>6 DEF vars
<1> QED BY <1>1, <1>2, <1>3, <1>4, <1>5, <1>6 DEF Next

(* The lemmas of CatalogProofs are about an instance of their own.           *)
LEMMA SameStep == C!Next => CP!Next
BY DEF C!Next, CP!Next, C!Start, CP!Start, C!Post, CP!Post, C!Put, CP!Put, C!PatchTD,
         CP!PatchTD, C!Delete, CP!Delete, C!Get, CP!Get, C!Begin, CP!Begin, C!Refuse,
         CP!Refuse, C!Finish, CP!Finish, C!Access, CP!Access, C!Publish, CP!Publish,
         C!Continue, CP!Continue, C!Handle, CP!Handle, C!AddHas, CP!AddHas, C!AddPut,
         CP!AddPut, C!UpdateHas, CP!UpdateHas, C!UpdatePut, CP!UpdatePut, C!DeleteHas,
         CP!DeleteHas, C!DeleteDo, CP!DeleteDo, C!StorageError, CP!StorageError,
         C!Advance, CP!Advance, C!TickerFire, CP!TickerFire, C!Cleaner, CP!Cleaner,
         C!CleanScan, CP!CleanScan, C!CleanScanFails, CP!CleanScanFails, C!CleanHas, CP!CleanHas, C!CleanDelete,
         CP!CleanDelete, C!CleanError, CP!CleanError, C!First, CP!First, C!ExpiredAt,
         CP!ExpiredAt, C!Known, CP!Known, C!Rejection, CP!Rejection, C!Document,
         CP!Document, C!MergePatch, CP!MergePatch, C!Merged, CP!Merged, C!Registered,
         CP!Registered, C!computeExpiry, CP!computeExpiry, C!Duration, CP!Duration,
         C!Fits, CP!Fits, C!WithoutRegistration, CP!WithoutRegistration, C!cleanerVars,
         CP!cleanerVars, C!requestVars, CP!requestVars, C!vars, CP!vars, C!Steps,
         CP!Steps

LEMMA SameAssumptions ==
    /\ Ids \subseteq Nat /\ Urns \subseteq Ids
    /\ Bodies \subseteq CP!Body /\ Patches \subseteq CP!Patch /\ Ops \subseteq CP!Methods
    /\ None \notin Int /\ Keep \notin Int /\ EmptyId \notin Int
    /\ None \notin Contents /\ Keep \notin Contents
    /\ None \notin CP!TD
BY CatalogAssumption
   DEF C!Body, CP!Body, C!Patch, CP!Patch, C!Methods, CP!Methods, C!TD, CP!TD,
       C!Forms, CP!Forms, C!Optional, CP!Optional

LEMMA StepCoherent ==
    ASSUME CP!TypeInv, CP!CoherentInv, [C!Next]_C!vars
    PROVE  CP!TypeInv' /\ CP!CoherentInv'
<1>1. [CP!Next]_CP!vars
  BY SameStep DEF C!vars, CP!vars, C!requestVars, CP!requestVars, C!cleanerVars, CP!cleanerVars
<1> QED BY <1>1, SameAssumptions, CatalogAssumption, CP!NextTyped, CP!NextCoherent
LEMMA RestartTyped ==
    ASSUME CP!TypeInv, Restart
    PROVE  CP!TypeInv'
<1> USE DEF CP!Optional, C!Steps, CP!Steps
<1>1. \A k \in Ids : Written(k) \subseteq CP!Optional(CP!TD)
  BY DEF Written, CP!TypeInv, CP!JobTyped, CP!Job
<1>2. db' \in [Ids -> CP!Optional(CP!TD)]
  BY <1>1 DEF Restart, CP!TypeInv, CP!TypeOK
<1>3. /\ pc' \in [Requests -> {"ready", "done"} \cup CP!Steps]
      /\ \A r \in Requests : pc'[r] \notin CP!Steps
  BY DEF Restart, CP!TypeInv, CP!TypeOK
<1>4. job' \in [Requests -> CP!Optional(CP!Job)] BY DEF Restart
<1>5. tick' \in CP!Optional(0..MaxTime) /\ cpc' \in {"has", "delete"}
      /\ todo' \subseteq Ids \X CP!Optional(Ids)
  BY DEF Restart
<1>6. UNCHANGED <<now, urns, reply, events>> BY DEF Restart
<1>7. CP!TypeOK' BY <1>2, <1>3, <1>4, <1>5, <1>6 DEF CP!TypeInv, CP!TypeOK, CP!Event, CP!Reply
<1>8. \A r \in Requests : CP!JobTyped(r)' BY <1>3 DEF CP!JobTyped
<1> QED BY <1>7, <1>8 DEF CP!TypeInv

(* What may be on its way to the database when the process ends is coherent. *)
LEMMA RestartCoherent ==
    ASSUME CP!TypeInv, CP!CoherentInv, Restart
    PROVE  CP!CoherentInv'
<1>1. \A td : CP!Coherent(td)' <=> CP!Coherent(td) BY DEF Restart, CP!Coherent
<1>2. \A k \in Ids : \A td \in Written(k) : td # None => CP!Coherent(td)
  BY DEF Written, CP!CoherentInv, CP!JobCoherent
<1>3. \A k \in Ids : db[k] # None => CP!Coherent(db[k])
  BY DEF CP!CoherentInv, CP!RegistrationCoherent
<1>4. \A k \in Ids : db'[k] \in Written(k) \cup {db[k]} BY DEF Restart
<1>5. CP!RegistrationCoherent' BY <1>1, <1>2, <1>3, <1>4 DEF CP!RegistrationCoherent
<1>6. \A r \in Requests : CP!JobCoherent(r)'
  BY DEF Restart, CP!JobCoherent, CP!TypeInv, CP!TypeOK, C!Steps, CP!Steps
<1> QED BY <1>5, <1>6 DEF CP!CoherentInv

(* The registrations in the database are coherent at any moment, and         *)
(* whenever the process ends: in the middle of a write as well the old or    *)
(* the new document is there, and both are coherent (add, update, patch).    *)
THEOREM CoherenceSurvives == Spec => []CoherentAcrossRestarts
<1>1. Init => CP!TypeInv /\ CP!CoherentInv
  <2>1. Init => CP!Init BY DEF Init, C!Init, CP!Init
  <2> QED BY <2>1, SameAssumptions, CatalogAssumption, CP!InitTyped, CP!InitCoherent
<1>2. CP!TypeInv /\ CP!CoherentInv /\ [Next]_vars => CP!TypeInv' /\ CP!CoherentInv'
  BY CatalogStep, StepCoherent, RestartTyped, RestartCoherent
<1>3. CP!CoherentInv => CoherentAcrossRestarts
  BY DEF CoherentAcrossRestarts, CP!CoherentInv, CP!RegistrationCoherent, CP!Coherent,
         C!RegistrationCoherent, C!Coherent, C!Fits, CP!Fits
<1> QED BY <1>1, <1>2, <1>3, PTL DEF Spec
=============================================================================
