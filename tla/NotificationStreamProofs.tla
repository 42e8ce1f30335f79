----------------------- MODULE NotificationStreamProofs -----------------------
(* What subscribers get, for any number of calls and requests, any capacity  *)
(* and any number of crashes.                                                *)
EXTENDS NotificationProofs, OrderProofs

StreamTypes ==
    /\ notifier \in Seq(Event) /\ Len(notifier) <= 1
    /\ conn \in [Conns -> {"new", "subscribing", "on", "leaving", "closed"}]
    /\ last \in [Conns -> Optional(0..N)]
    /\ busy \in [Conns -> BOOLEAN]
    /\ got \in [Conns -> Seq(Event)]
    /\ todo \in [Conns -> Seq(Event)]
    /\ stage \in {"serving", "stopping", "waiting", "closing", "closed"}
    /\ taken \in Seq(Event)
    /\ joined \in [Conns -> Nat]
    /\ replay \in [Conns -> Seq(Event)]

(* A call that has come to the channel has given its event an id.            *)
NumberKnown == \A c \in Calls : pc[c] \in Numbered => id[c] # None

TypeInv == QueueInv /\ StreamTypes /\ NumberKnown

LEMMA TypeInvIsTypeOK == TypeInv => TypeOK
BY DEF TypeInv, QueueInv, QueueTypes, StreamTypes, TypeOK, N

(* A step is one of a call before or behind the channel, or else leaves the  *)
(* calls alone, or is a crash.                                               *)
LEMMA StepOfStreams ==
    ASSUME [Next]_vars
    PROVE  \/ \E c \in Calls : Notify(c)
           \/ Broadcast \/ Crash
           \/ \E s \in Conns : \/ Subscribe(s) \/ Send(s) \/ Unsubscribe(s)
                               \/ Connect(s) \/ Flush(s) \/ Disconnect(s)
           \/ /\ UNCHANGED <<notifier, connVars, handlerVars>>
              /\ stage' = stage \/ stage' \in {"stopping", "waiting", "closing", "closed"}
BY DEF Next, Handler, StoreAndNotify, Load, Increment, Format, Scan, Write, StoreError,
       Signal, Stop, Wait, Close, vars

(* The events behind an id are stored ones.                                  *)
LEMMA MissedTyped ==
    ASSUME QueueInv, NEW s \in Conns, NEW after
    PROVE  /\ Missed(s, after) \in Seq(Event)
           /\ \A k \in EventIds : (k > after /\ Stored(k) /\ TypeOf[log[k]] \in Wants[s]) =>
                 \E i \in 1..Len(Missed(s, after)) :
                     Missed(s, after)[i] = [id |-> k, call |-> log[k]]
<1> DEFINE all == [k \in EventIds |-> [id |-> k, call |-> log[k]]]
           places == {k \in EventIds : k > after /\ Stored(k) /\ Wanted(s, all[k])}
<1>1. Missed(s, after) = Extract(all, places)
  BY DEF Missed
<1>2. places \in SUBSET Int /\ IsFiniteSet(places)
  <2>1. N \in Nat /\ EventIds = 1..N
    BY StartedBounds DEF QueueInv, EventIds, N
  <2>2. IsFiniteSet(EventIds) /\ places \in SUBSET EventIds
    BY <2>1, FS_Interval
  <2>3. \A k \in EventIds : k \in Int
    BY <2>1
  <2> HIDE DEF places
  <2>4. places \in SUBSET Int
    BY <2>2, <2>3
  <2> QED BY <2>2, <2>4, FS_Subset
<1>3. \A k \in places : all[k] \in Event
  BY DEF Event, QueueInv, QueueTypes, Optional, Stored
<1>4. \A k \in EventIds : (k > after /\ Stored(k) /\ TypeOf[log[k]] \in Wants[s]) => k \in places
  BY DEF Wanted
<1>5. \A k \in EventIds : all[k] = [id |-> k, call |-> log[k]]
  OBVIOUS
<1>6. \A k \in places : k \in EventIds
  OBVIOUS
<1> HIDE DEF all, places
<1>7. /\ Extract(all, places) \in Seq(Event)
      /\ Len(Extract(all, places)) = Cardinality(places)
      /\ \A k \in places : \E i \in 1..Cardinality(places) : Extract(all, places)[i] = all[k]
  BY <1>2, <1>3, ExtractHas
<1> QED BY <1>1, <1>4, <1>5, <1>7

LEMMA InitTypeInv == Init => TypeInv
<1> SUFFICES ASSUME Init PROVE TypeInv
  OBVIOUS
<1>1. QueueInv /\ N \in Nat
  BY InitQueueInv, NotificationAssumption, FS_CardinalityType DEF N
<1>2. StreamTypes
  BY <1>1 DEF Init, StreamTypes, Optional
<1>3. NumberKnown
  BY DEF Init, NumberKnown, Numbered
<1> QED BY <1>1, <1>2, <1>3 DEF TypeInv

(* An event that enters the channel has its id.                              *)
LEMMA NextNumberKnown ==
    ASSUME QueueInv, NumberKnown, [Next]_vars
    PROVE  NumberKnown'
<1> USE DEF QueueInv, QueueTypes, NumberKnown, Numbered
<1>1. ASSUME NEW c \in Calls, StoreAndNotify(c) PROVE NumberKnown'
  <2>1. CASE Format(c)
    <3>1. \A n \in {latestID, reg[c] + 1} : n \in Int
      BY StartedBounds
    <3> QED BY <2>1, <3>1, NotificationAssumption DEF Format, At
  <2>2. CASE Load(c) \/ Increment(c) \/ Notify(c) \/ Scan(c) \/ Write(c) \/ StoreError(c)
    BY <2>2 DEF Load, Increment, Notify, Scan, Write, StoreError, At
  <2> QED BY <1>1, <2>1, <2>2 DEF StoreAndNotify
<1>2. CASE Crash
  BY <1>2 DEF Crash, InFlight
<1>3. CASE UNCHANGED <<queueVars, callVars>>
  BY <1>3 DEF callVars
<1> QED BY <1>1, <1>2, <1>3, StepOfQueue

LEMMA NextStreamTypes ==
    ASSUME TypeInv, [Next]_vars
    PROVE  StreamTypes'
<1> USE DEF TypeInv, StreamTypes, connVars, handlerVars
<1>1. ASSUME NEW c \in Calls, Notify(c) PROVE StreamTypes'
  <2>1. id[c] \in EventIds
    BY <1>1 DEF Notify, At, NumberKnown, Numbered, QueueInv, QueueTypes, Optional
  <2>2. [id |-> id[c], call |-> c] \in Event
    BY <2>1 DEF Event
  <2>3. notifier' \in Seq(Event) /\ Len(notifier') <= 1
    BY <1>1, <2>2 DEF Notify
  <2> QED BY <1>1, <2>3 DEF Notify
<1>2. CASE Broadcast
  <2>1. Head(notifier) \in Event
    BY <1>2 DEF Broadcast
  <2> DEFINE e == Head(notifier)
  <2>2. <<e>> \in Seq(Event) /\ Append(taken, e) \in Seq(Event)
    BY <2>1
  <2>3. /\ notifier' = <<>> /\ taken' = Append(taken, e)
        /\ todo' = [s \in Conns |-> IF Active(s) /\ Wanted(s, e) THEN <<e>> ELSE <<>>]
        /\ UNCHANGED <<connVars, joined, replay, stage>>
    BY <1>2 DEF Broadcast
  <2> HIDE DEF e
  <2> QED BY <2>2, <2>3
<1>3. CASE Crash
  BY <1>3 DEF Crash
<1>4. ASSUME NEW s \in Conns, Subscribe(s) PROVE StreamTypes'
  <2>1. PICK missed \in Seq(Event) :
            todo' = [todo EXCEPT ![s] = missed] /\ replay' = [replay EXCEPT ![s] = missed]
    <3>1. \A n : Missed(s, n) \in Seq(Event)
      BY MissedTyped
    <3>2. <<>> \in Seq(Event)
      OBVIOUS
    <3> QED BY <1>4, <3>1, <3>2, Zenon DEF Subscribe
  <2>2. Len(taken) \in Nat
    OBVIOUS
  <2> QED BY <1>4, <2>1, <2>2 DEF Subscribe
<1>5. ASSUME NEW s \in Conns, Send(s) PROVE StreamTypes'
  <2>1. Head(todo[s]) \in Event /\ Tail(todo[s]) \in Seq(Event)
    BY <1>5, HeadTailProperties DEF Send
  <2>2. Append(got[s], Head(todo[s])) \in Seq(Event)
    BY <2>1, AppendProperties
  <2> QED BY <1>5, <2>1, <2>2 DEF Send
<1>6. ASSUME NEW s \in Conns, Connect(s) PROVE StreamTypes'
  <2>1. \A n \in {None, 0} \cup {id[c] : c \in Calls} : n \in Optional(0..N)
    BY StartedBounds DEF QueueInv, QueueTypes, Optional, EventIds, N
  <2> QED BY <1>6, <2>1 DEF Connect
<1>7. ASSUME NEW s \in Conns, Unsubscribe(s) \/ Flush(s) \/ Disconnect(s) PROVE StreamTypes'
  BY <1>7 DEF Unsubscribe, Flush, Disconnect
<1>8. CASE /\ UNCHANGED <<notifier, connVars, handlerVars>>
           /\ stage' = stage \/ stage' \in {"stopping", "waiting", "closing", "closed"}
  BY <1>8
<1> QED BY <1>1, <1>2, <1>3, <1>4, <1>5, <1>6, <1>7, <1>8, StepOfStreams

LEMMA NextQueueInv ==
    ASSUME QueueInv, [Next]_vars
    PROVE  QueueInv'
<1>1. CASE \E c \in Calls : StoreAndNotify(c)
  BY <1>1, CallQueueInv
<1>2. CASE Crash
  BY <1>2, CrashQueueInv
<1>3. CASE UNCHANGED <<queueVars, callVars>>
  <2>1. Started' = Started
    BY <1>3 DEF Started, callVars
  <2> QED BY <1>3, <2>1 DEF queueVars, callVars, QueueInv, QueueTypes, CounterBound, Stored
<1> QED BY <1>1, <1>2, <1>3, StepOfQueue

LEMMA NextTypeInv == TypeInv /\ [Next]_vars => TypeInv'
BY NextQueueInv, NextNumberKnown, NextStreamTypes DEF TypeInv

(* Ids, channels, requests and the histories of what was sent keep their     *)
(* ranges, also across crashes: the channel never holds more than one event, *)
(* and only events that have an id (the notification package).               *)
THEOREM NotificationTyped == Spec => []TypeOK
BY InitTypeInv, NextTypeInv, TypeInvIsTypeOK, PTL DEF Spec

---------------------------------------------------------------------------
(* Streams                                                                 *)

(* Where the handler is with a request: nothing was sent to one it has not   *)
(* accepted, it sends only to those it serves, and those it accepted before  *)
(* the last event it took.                                                   *)
Served ==
    \A s \in Conns :
        /\ conn[s] \in {"new", "subscribing"} => got[s] = <<>>
        /\ todo[s] # <<>> => Active(s)
        /\ Active(s) => joined[s] <= Len(taken)

(* What a subscriber was promised: its replay and what was taken since.      *)
Since(s) == {i \in (joined[s] + 1)..Len(taken) : Wanted(s, taken[i])}
InOrder(s) == got[s] \o todo[s] = replay[s] \o Extract(taken, Since(s))

StreamInv == TypeInv /\ Served /\ \A s \in Conns : Active(s) => InOrder(s)

LEMMA SinceIsPart ==
    ASSUME TypeInv, NEW s \in Conns
    PROVE  /\ Since(s) \in SUBSET (1..Len(taken))
           /\ Extract(taken, Since(s)) \in Seq(Event)
           /\ \A i \in Since(s) : \E j \in 1..Len(Extract(taken, Since(s))) :
                 Extract(taken, Since(s))[j] = taken[i]
<1>1. taken \in Seq(Event) /\ joined[s] \in Nat /\ Len(taken) \in Nat
  BY DEF TypeInv, StreamTypes
<1>2. Since(s) \in SUBSET (1..Len(taken))
  BY <1>1 DEF Since
<1>3. IsFiniteSet(1..Len(taken))
  BY <1>1, FS_Interval
<1>4. \A i \in Since(s) : taken[i] \in Event /\ i \in Int
  BY <1>1, <1>2, ElementOfSeq
<1>5. IsFiniteSet(Since(s)) /\ Since(s) \in SUBSET Int
  BY <1>2, <1>3, <1>4, FS_Subset
<1> DEFINE places == Since(s)
<1>6. places \in SUBSET Int /\ IsFiniteSet(places) /\ \A i \in places : taken[i] \in Event
  BY <1>4, <1>5
<1> HIDE DEF places
<1>7. /\ Extract(taken, places) \in Seq(Event)
      /\ Len(Extract(taken, places)) = Cardinality(places)
      /\ \A i \in places : \E j \in 1..Cardinality(places) : Extract(taken, places)[j] = taken[i]
  BY <1>6, ExtractHas
<1> QED BY <1>2, <1>7 DEF places

(* Accepting a subscriber sets out its replay, and nothing was taken since.  *)
LEMMA SubscribeInOrder ==
    ASSUME StreamInv, TypeInv', NEW s \in Conns, Subscribe(s)
    PROVE  Served' /\ \A t \in Conns : Active(t)' => InOrder(t)'
<1> USE DEF StreamInv, TypeInv, StreamTypes
<1>1. PICK missed :
          /\ todo' = [todo EXCEPT ![s] = missed] /\ replay' = [replay EXCEPT ![s] = missed]
  BY DEF Subscribe
<1>2. /\ conn[s] = "subscribing" /\ conn' = [conn EXCEPT ![s] = "on"]
      /\ joined' = [joined EXCEPT ![s] = Len(taken)]
      /\ taken' = taken /\ got' = got
  BY DEF Subscribe
<1>3. got[s] = <<>> /\ Len(taken) \in Nat
  BY <1>2 DEF Served
<1>4. Served'
  BY <1>1, <1>2, <1>3 DEF Served, Active
<1>5. InOrder(s)'
  <2>1. missed \in Seq(Event) /\ todo'[s] = missed /\ replay'[s] = missed
    BY <1>1
  <2>2. Since(s)' = {}
    BY <1>2, <1>3 DEF Since
  <2>3. (replay[s] \o Extract(taken, Since(s)))' = missed \o <<>>
    BY <2>1, <2>2, ExtractNothing
  <2>4. (got[s] \o todo[s])' = <<>> \o missed
    BY <1>2, <1>3, <2>1
  <2> QED BY <2>1, <2>3, <2>4, ConcatEmptySeq DEF InOrder
<1>6. ASSUME NEW t \in Conns, t # s, Active(t)' PROVE InOrder(t)'
  <2>1. Active(t) /\ Since(t)' = Since(t)
    BY <1>2, <1>6 DEF Active, Since, Wanted
  <2> QED BY <1>1, <1>2, <1>6, <2>1 DEF InOrder
<1> QED BY <1>4, <1>5, <1>6

(* The event that is taken comes last for all who want it.                   *)
LEMMA BroadcastInOrder ==
    ASSUME StreamInv, TypeInv', Broadcast
    PROVE  Served' /\ \A s \in Conns : Active(s)' => InOrder(s)'
<1> USE DEF StreamInv, TypeInv, StreamTypes
<1> DEFINE e == Head(notifier)
           n == Len(taken)
<1>1. /\ \A s \in Conns : todo[s] = <<>>
      /\ todo' = [s \in Conns |-> IF Active(s) /\ Wanted(s, e) THEN <<e>> ELSE <<>>]
      /\ taken' = Append(taken, e)
      /\ UNCHANGED <<conn, got, joined, replay>>
  BY DEF Broadcast, AtSelect, connVars
<1>2. e \in Event /\ n \in Nat
  BY DEF Broadcast
<1> HIDE DEF e
<1>3. Len(taken') = n + 1 /\ taken'[n + 1] = e /\ \A i \in 1..n : taken'[i] = taken[i]
  BY <1>1, <1>2, AppendProperties
<1> HIDE DEF n
<1>4. Served'
  <2>1. \A s \in Conns : joined[s] \in Nat /\ (joined[s] <= n => joined[s] <= n + 1)
    BY <1>2
  <2> QED BY <1>1, <1>3, <2>1 DEF Served, Active, n
<1>5. ASSUME NEW s \in Conns, Active(s) PROVE InOrder(s)'
  <2>1. joined[s] \in Nat /\ joined[s] <= n /\ got[s] \in Seq(Event) /\ replay[s] \in Seq(Event)
    BY <1>5 DEF Served, n
  <2>2. got[s] = replay[s] \o Extract(taken, Since(s))
    BY <1>1, <1>5, <2>1, ConcatEmptySeq DEF InOrder
  <2>3. Since(s)' = IF Wanted(s, e) THEN Since(s) \cup {n + 1} ELSE Since(s)
    <3>1. \A i \in (joined[s] + 1)..(n + 1) : i = n + 1 \/ i \in (joined[s] + 1)..n
      BY <1>2, <2>1
    <3>2. n + 1 \in (joined[s] + 1)..(n + 1) /\ (joined[s] + 1)..n \subseteq 1..n
          /\ \A i \in (joined[s] + 1)..n : i \in (joined[s] + 1)..(n + 1)
      BY <1>2, <2>1
    <3>3. Since(s)' = {i \in (joined[s] + 1)..(n + 1) : Wanted(s, taken'[i])}
      BY <1>1, <1>3 DEF Since, Wanted
    <3>4. Since(s) = {i \in (joined[s] + 1)..n : Wanted(s, taken[i])}
      BY DEF Since, n
    <3> QED BY <1>3, <3>1, <3>2, <3>3, <3>4
  <2>4. Since(s) \in SUBSET (1..n) /\ Extract(taken, Since(s)) \in Seq(Event)
    BY SinceIsPart DEF n
  <2> DEFINE x == Extract(taken, Since(s))
             more == Since(s) \cup {n + 1}
  <2>5. Extract(taken', Since(s)) = x /\ Extract(taken', more) = x \o <<e>>
    <3> DEFINE places == Since(s)
    <3>1. taken \in Seq(Event) /\ places \in SUBSET (1..Len(taken))
      BY <2>4 DEF n
    <3> HIDE DEF places, x, more, StreamInv, TypeInv, StreamTypes
    <3>2. /\ Extract(Append(taken, e), places) = Extract(taken, places)
          /\ Extract(Append(taken, e), places \cup {Len(taken) + 1}) = Append(Extract(taken, places), e)
      BY <1>2, <3>1, ExtractAppend
    <3>3. x \in Seq(Event) /\ x = Extract(taken, places)
      BY <2>4 DEF x, places
    <3>4. Append(x, e) = x \o <<e>>
      BY <1>2, <3>3, AppendIsConcat
    <3>5. taken' = Append(taken, e) /\ more = places \cup {Len(taken) + 1} /\ places = Since(s)
      BY <1>1 DEF n, more, places
    <3> QED BY <3>2, <3>3, <3>4, <3>5
  <2>0. x \in Seq(Event) /\ got[s] = replay[s] \o x
    BY <2>2, <2>4
  <2> HIDE DEF x, more
  <2>6. CASE Wanted(s, e)
    <3>1. (got[s] \o todo[s])' = got[s] \o <<e>>
      BY <1>1, <1>5, <2>6
    <3>2. (replay[s] \o Extract(taken, Since(s)))' = replay[s] \o (x \o <<e>>)
      BY <1>1, <2>3, <2>5, <2>6 DEF more
    <3>3. (replay[s] \o x) \o <<e>> = replay[s] \o (x \o <<e>>)
      <4> HIDE DEF StreamInv, TypeInv, StreamTypes
      <4> DEFINE r == replay[s]
                 u == <<e>>
      <4>1. r \in Seq(Event) /\ x \in Seq(Event) /\ u \in Seq(Event)
        BY <1>2, <2>1, <2>0
      <4> HIDE DEF r, u
      <4>2. (r \o x) \o u = r \o (x \o u)
        BY <4>1, ConcatAssociative
      <4> QED BY <4>2 DEF r, u
    <3> QED BY <2>0, <3>1, <3>2, <3>3 DEF InOrder
  <2>7. CASE ~Wanted(s, e)
    <3>1. (got[s] \o todo[s])' = got[s] \o <<>>
      BY <1>1, <1>5, <2>7
    <3>2. got[s] \o <<>> = got[s]
      BY <2>1, ConcatEmptySeq
    <3>3. (replay[s] \o Extract(taken, Since(s)))' = replay[s] \o x
      BY <1>1, <2>3, <2>5, <2>7
    <3> QED BY <2>0, <3>1, <3>2, <3>3 DEF InOrder
  <2> QED BY <2>6, <2>7
<1> QED BY <1>1, <1>4, <1>5 DEF Active

LEMMA SendInOrder ==
    ASSUME StreamInv, TypeInv', NEW s \in Conns, Send(s)
    PROVE  Served' /\ \A t \in Conns : Active(t)' => InOrder(t)'
<1> USE DEF StreamInv, TypeInv, StreamTypes
<1>1. /\ todo[s] # <<>> /\ todo' = [todo EXCEPT ![s] = Tail(todo[s])]
      /\ got' = [got EXCEPT ![s] = Append(got[s], Head(todo[s]))]
      /\ UNCHANGED <<conn, taken, joined, replay>>
  BY DEF Send
<1>2. got[s] \in Seq(Event) /\ todo[s] \in Seq(Event)
  OBVIOUS
<1>3. Active(s)
  BY <1>1 DEF Served
<1>4. Served'
  BY <1>1, <1>3 DEF Served, Active
<1>5. \A t \in Conns : Since(t)' = Since(t)
  BY <1>1 DEF Since, Wanted
<1>6. InOrder(s)'
  <2>1. Append(got[s], Head(todo[s])) \o Tail(todo[s]) = got[s] \o todo[s]
    <3> HIDE DEF StreamInv, TypeInv, StreamTypes
    <3> QED BY <1>1, <1>2, MoveOver
  <2>2. got'[s] = Append(got[s], Head(todo[s])) /\ todo'[s] = Tail(todo[s])
    BY <1>1
  <2>3. got[s] \o todo[s] = replay[s] \o Extract(taken, Since(s))
    BY <1>3 DEF InOrder
  <2>4. (replay[s] \o Extract(taken, Since(s)))' = replay[s] \o Extract(taken, Since(s))
    BY <1>1, <1>5
  <2> HIDE DEF StreamInv, TypeInv, StreamTypes
  <2> QED BY <2>1, <2>2, <2>3, <2>4 DEF InOrder
<1>7. ASSUME NEW t \in Conns, t # s, Active(t)' PROVE InOrder(t)'
  BY <1>1, <1>5, <1>7 DEF InOrder, Active
<1> QED BY <1>4, <1>6, <1>7

(* Steps that neither send nor take, and accept no one.                      *)
LEMMA OtherInOrder ==
    ASSUME StreamInv, UNCHANGED <<got, todo, taken, joined, replay>>,
           \A s \in Conns : Active(s)' => Active(s),
           \A s \in Conns : todo[s] # <<>> => Active(s)',
           \A s \in Conns : conn'[s] \in {"new", "subscribing"} => conn[s] \in {"new", "subscribing"}
    PROVE  Served' /\ \A s \in Conns : Active(s)' => InOrder(s)'
<1>1. \A s \in Conns : Since(s)' = Since(s)
  BY DEF Since, Wanted
<1>2. \A s \in Conns : Active(s)' => InOrder(s)'
  BY <1>1 DEF InOrder, StreamInv
<1>3. Served'
  BY DEF Served, StreamInv
<1> QED BY <1>2, <1>3

LEMMA NextStreamInv ==
    ASSUME StreamInv, [Next]_vars
    PROVE  StreamInv'
<1>t. TypeInv /\ TypeInv'
  BY NextTypeInv DEF StreamInv
<1>c. conn \in [Conns -> {"new", "subscribing", "on", "leaving", "closed"}]
  BY <1>t DEF TypeInv, StreamTypes
<1> SUFFICES Served' /\ \A s \in Conns : Active(s)' => InOrder(s)'
  BY <1>t DEF StreamInv
<1>1. ASSUME NEW c \in Calls, Notify(c) PROVE Served' /\ \A s \in Conns : Active(s)' => InOrder(s)'
  BY <1>1, OtherInOrder DEF Notify, connVars, handlerVars, StreamInv, Served, Active
<1>2. CASE Broadcast
  BY <1>2, <1>t, BroadcastInOrder
<1>3. CASE Crash
  <2>1. \A s \in Conns : conn'[s] \in {"new", "closed"} /\ todo'[s] = <<>>
    BY <1>3, <1>c DEF Crash
  <2>2. \A s \in Conns : conn'[s] = "new" => conn[s] = "new"
    BY <1>3, <1>c DEF Crash
  <2> QED BY <1>3, <2>1, <2>2 DEF Crash, Served, Active, StreamInv
<1>4. ASSUME NEW s \in Conns, Subscribe(s) \/ Send(s)
      PROVE  Served' /\ \A t \in Conns : Active(t)' => InOrder(t)'
  BY <1>4, <1>t, SubscribeInOrder, SendInOrder
<1>5. ASSUME NEW s \in Conns, Unsubscribe(s)
      PROVE  Served' /\ \A t \in Conns : Active(t)' => InOrder(t)'
  <2>1. \A t \in Conns : todo[t] = <<>>
    BY <1>5 DEF Unsubscribe, AtSelect
  <2> QED BY <1>5, <1>c, <2>1, OtherInOrder DEF Unsubscribe, handlerVars, Active
<1>6. ASSUME NEW s \in Conns, Connect(s) \/ Flush(s) \/ Disconnect(s)
      PROVE  Served' /\ \A t \in Conns : Active(t)' => InOrder(t)'
  <2>1. /\ UNCHANGED <<got, todo, taken, joined, replay>>
        /\ \A t \in Conns : Active(t)' = Active(t)
        /\ \A t \in Conns : conn'[t] \in {"new", "subscribing"}
                               => conn[t] \in {"new", "subscribing"}
    BY <1>6, <1>c DEF Connect, Flush, Disconnect, handlerVars, Active
  <2> QED BY <2>1, OtherInOrder DEF StreamInv, Served
<1>7. CASE UNCHANGED <<notifier, connVars, handlerVars>>
  <2>1. UNCHANGED <<got, todo, taken, joined, replay, conn>>
    BY <1>7 DEF connVars, handlerVars
  <2> QED BY <2>1, OtherInOrder DEF StreamInv, Served, Active
<1> QED BY <1>1, <1>2, <1>3, <1>4, <1>5, <1>6, <1>7, StepOfStreams

LEMMA InitStreamInv == Init => StreamInv
BY InitTypeInv DEF Init, StreamInv, Served, Active

(* However slow a client is, and whenever it comes or leaves, it receives    *)
(* the replay it asked for and then every event of its types that was taken  *)
(* since, in the order they were taken, for any number of clients, and over  *)
(* crashes (handler, sendToSubscriber).                                      *)
THEOREM StreamsAreInOrder == Spec => []StreamInOrder
<1>1. StreamInv => StreamInOrder
  BY DEF StreamInv, InOrder, Since, StreamInOrder
<1>2. StreamInv /\ [Next]_vars => StreamInv'
  BY NextStreamInv
<1> QED BY <1>1, <1>2, InitStreamInv, PTL DEF Spec

---------------------------------------------------------------------------
(* Events that are missed                                                  *)

(* What a subscriber will have received once the handler is idle again.      *)
Promised(s, e) ==
    \/ notifier = <<e>>
    \/ \E i \in 1..Len(replay[s]) : replay[s][i] = e
    \/ \E i \in Since(s) : taken[i] = e

(* A subscriber gets the events that are about to be stored, and those that  *)
(* are stored behind the one it has named.                                   *)
ComingInv ==
    \A s \in Conns : conn[s] = "on" =>
        /\ \A c \in Calls : (pc[c] \in {"scan", "write"} /\ TypeOf[c] \in Wants[s])
              => Promised(s, [id |-> id[c], call |-> c])
        /\ last[s] # None =>
              \A k \in EventIds : (k > last[s] /\ Stored(k) /\ TypeOf[log[k]] \in Wants[s])
                 => Promised(s, [id |-> k, call |-> log[k]])

CalmInv == StreamInv /\ ComingInv

(* A step that neither stores nor sends leaves all promises as they are.     *)
Still ==
    /\ UNCHANGED <<notifier, taken, joined, replay, log>>
    /\ \A s \in Conns : conn'[s] = "on" => conn[s] = "on" /\ last'[s] = last[s]
    /\ \A c \in Calls : pc'[c] \in {"scan", "write"} => pc[c] \in {"scan", "write"} /\ id'[c] = id[c]

LEMMA StepOfPromises ==
    ASSUME TypeInv, [Next]_vars
    PROVE  \/ \E c \in Calls : Notify(c) \/ Write(c)
           \/ Broadcast \/ Crash
           \/ \E s \in Conns : Subscribe(s)
           \/ Still
<1> USE DEF TypeInv, QueueInv, QueueTypes, StreamTypes, queueVars, callVars, connVars, handlerVars
<1>1. ASSUME NEW c \in Calls, Load(c) \/ Increment(c) \/ Format(c) \/ Scan(c) \/ StoreError(c)
      PROVE  Still
  <2>1. /\ UNCHANGED <<notifier, taken, joined, replay, log, conn, last>>
        /\ \A d \in Calls : d # c => pc'[d] = pc[d] /\ id'[d] = id[d]
    BY <1>1 DEF Load, Increment, Format, Scan, StoreError, At
  <2>2. pc'[c] \in {"scan", "write"} => pc[c] \in {"scan", "write"} /\ id'[c] = id[c]
    BY <1>1 DEF Load, Increment, Format, Scan, StoreError, At
  <2> QED BY <2>1, <2>2 DEF Still
<1>2. ASSUME NEW s \in Conns, Send(s) \/ Unsubscribe(s) \/ Connect(s) \/ Flush(s) \/ Disconnect(s)
      PROVE  Still
  <2>1. /\ UNCHANGED <<notifier, taken, joined, replay, log, pc, id>>
        /\ \A t \in Conns : t # s => conn'[t] = conn[t] /\ last'[t] = last[t]
    BY <1>2 DEF Send, Unsubscribe, Connect, Flush, Disconnect
  <2>2. conn'[s] = "on" => conn[s] = "on" /\ last'[s] = last[s]
    BY <1>2 DEF Send, Unsubscribe, Connect, Flush, Disconnect
  <2> QED BY <2>1, <2>2 DEF Still
<1>3. CASE Signal \/ Stop \/ Wait \/ Close \/ UNCHANGED vars
  BY <1>3 DEF Signal, Stop, Wait, Close, vars, Still
<1> QED BY <1>1, <1>2, <1>3 DEF Next, StoreAndNotify, Handler

(* A promise to a subscriber that stays is kept.                             *)
LEMMA PromiseKept ==
    ASSUME StreamInv, [Next]_vars, NEW s \in Conns, conn[s] = "on", conn'[s] = "on",
           NEW e, Wanted(s, e), Promised(s, e)
    PROVE  Promised(s, e)'
<1>t. TypeInv
  BY DEF StreamInv
<1>1. CASE UNCHANGED <<taken, joined, replay>> /\ (notifier = <<e>> => notifier' = notifier)
  <2>1. Since(s)' = Since(s)
    BY <1>1 DEF Since, Wanted
  <2> QED BY <1>1, <2>1 DEF Promised
<1>2. ASSUME NEW c \in Calls, Notify(c) PROVE Promised(s, e)'
  <2>1. notifier = <<>> /\ notifier # <<e>>
    BY <1>2 DEF Notify
  <2> QED BY <1>1, <1>2, <2>1 DEF Notify, handlerVars
<1>3. CASE Broadcast
  <2> DEFINE n == Len(taken)
  <2>1. /\ taken' = Append(taken, Head(notifier)) /\ UNCHANGED <<joined, replay>>
        /\ taken \in Seq(Event) /\ n \in Nat
        /\ joined[s] \in Nat /\ joined[s] <= n
    BY <1>3, <1>t DEF Broadcast, TypeInv, StreamTypes, StreamInv, Served, Active
  <2>2. Len(taken') = n + 1 /\ taken'[n + 1] = Head(notifier) /\ \A i \in 1..n : taken'[i] = taken[i]
    <3>1. Head(notifier) \in Event
      BY <1>3, <1>t DEF Broadcast, TypeInv, StreamTypes
    <3> QED BY <2>1, <3>1, AppendProperties
  <2>3. CASE notifier = <<e>>
    <3>1. taken'[n + 1] = e
      BY <2>2, <2>3
    <3>2. n + 1 \in (joined'[s] + 1)..Len(taken')
      BY <2>1, <2>2
    <3> HIDE DEF n
    <3>3. n + 1 \in Since(s)'
      BY <3>1, <3>2 DEF Since, Wanted
    <3> QED BY <3>1, <3>3 DEF Promised
  <2>4. ASSUME NEW i \in Since(s), taken[i] = e PROVE Promised(s, e)'
    <3>1. i \in (joined[s] + 1)..n
      BY DEF Since
    <3>2. i \in 1..n /\ i \in (joined'[s] + 1)..Len(taken')
      BY <2>1, <2>2, <3>1
    <3>3. taken'[i] = e
      BY <2>2, <2>4, <3>2
    <3> HIDE DEF n
    <3>4. i \in Since(s)'
      BY <3>2, <3>3 DEF Since, Wanted
    <3> QED BY <3>3, <3>4 DEF Promised
  <2>5. CASE \E i \in 1..Len(replay[s]) : replay[s][i] = e
    BY <2>1, <2>5 DEF Promised
  <2> QED BY <2>3, <2>4, <2>5 DEF Promised
<1>4. ASSUME NEW r \in Conns, Subscribe(r) PROVE Promised(s, e)'
  <2>1. conn[r] = "subscribing" /\ r # s
    BY <1>4 DEF Subscribe
  <2>2. /\ notifier' = notifier /\ taken' = taken
        /\ joined'[s] = joined[s] /\ replay'[s] = replay[s]
    BY <1>4, <1>t, <2>1 DEF Subscribe, TypeInv, StreamTypes
  <2>3. Since(s)' = Since(s)
    BY <2>2 DEF Since, Wanted
  <2> QED BY <2>2, <2>3 DEF Promised
<1>5. CASE Crash
  BY <1>5 DEF Crash
<1>6. ASSUME NEW c \in Calls, Write(c) PROVE Promised(s, e)'
  BY <1>1, <1>6 DEF Write, handlerVars
<1>7. CASE Still
  BY <1>1, <1>7 DEF Still
<1> QED BY <1>t, <1>2, <1>3, <1>4, <1>5, <1>6, <1>7, StepOfPromises

(* Accepting a subscriber promises it what is stored, and by CalmJoin there  *)
(* is nothing else that was taken before.                                    *)
LEMMA SubscribePromises ==
    ASSUME ~StorageFaults, StreamInv, CalmJoin, NEW s \in Conns, Subscribe(s)
    PROVE  /\ \A c \in Calls : (pc[c] \in {"scan", "write"} /\ TypeOf[c] \in Wants[s])
                 => Promised(s, [id |-> id[c], call |-> c])'
           /\ last[s] # None =>
                 \A k \in EventIds : (k > last[s] /\ Stored(k) /\ TypeOf[log[k]] \in Wants[s])
                    => Promised(s, [id |-> k, call |-> log[k]])'
<1>1. /\ conn[s] = "subscribing" /\ conn'[s] = "on"
      /\ UNCHANGED <<pc, id, log, notifier, last>>
  BY DEF Subscribe, StreamInv, TypeInv, StreamTypes, callVars, queueVars
<1>2. \A c \in Calls : ~Unstored(c)
  BY <1>1 DEF CalmJoin
<1>3. ASSUME NEW c \in Calls, pc[c] \in {"scan", "write"}
      PROVE  Promised(s, [id |-> id[c], call |-> c])'
  BY <1>1, <1>2, <1>3 DEF Unstored, Promised
<1>4. ASSUME last[s] # None, NEW k \in EventIds, k > last[s], Stored(k), TypeOf[log[k]] \in Wants[s]
      PROVE  Promised(s, [id |-> k, call |-> log[k]])'
  <2>1. replay'[s] = Missed(s, last[s])
    BY <1>4 DEF Subscribe, StreamInv, TypeInv, StreamTypes
  <2>2. \E i \in 1..Len(Missed(s, last[s])) : Missed(s, last[s])[i] = [id |-> k, call |-> log[k]]
    BY <1>4, MissedTyped DEF StreamInv, TypeInv
  <2> QED BY <1>1, <2>1, <2>2 DEF Promised
<1> QED BY <1>3, <1>4

LEMMA NextComingInv ==
    ASSUME ~StorageFaults, CalmInv, [Next /\ CalmJoin]_vars
    PROVE  ComingInv'
<1>t. StreamInv /\ TypeInv /\ [Next]_vars
  BY DEF CalmInv, StreamInv
<1> SUFFICES ASSUME NEW s \in Conns, conn'[s] = "on"
             PROVE  /\ \A c \in Calls : (pc'[c] \in {"scan", "write"} /\ TypeOf[c] \in Wants[s])
                          => Promised(s, [id |-> id[c], call |-> c])'
                    /\ last'[s] # None =>
                          \A k \in EventIds :
                             (k > last'[s] /\ Stored(k)' /\ TypeOf[log'[k]] \in Wants[s])
                                => Promised(s, [id |-> k, call |-> log[k]])'
  BY DEF ComingInv
<1>k. ASSUME conn[s] = "on", NEW e, Wanted(s, e), Promised(s, e)
      PROVE  Promised(s, e)'
  BY <1>t, <1>k, PromiseKept
<1>c. ASSUME conn[s] = "on", NEW c \in Calls, pc[c] \in {"scan", "write"}, TypeOf[c] \in Wants[s],
             NEW e, e = [id |-> id[c], call |-> c]
      PROVE  Promised(s, e)'
  <2>1. Promised(s, e) /\ Wanted(s, e)
    BY <1>c DEF CalmInv, ComingInv, Wanted
  <2> QED BY <1>c, <1>k, <2>1
<1>s. ASSUME conn[s] = "on", last[s] # None, NEW k \in EventIds, k > last[s], Stored(k),
             TypeOf[log[k]] \in Wants[s], NEW e, e = [id |-> k, call |-> log[k]]
      PROVE  Promised(s, e)'
  <2>1. Promised(s, e) /\ Wanted(s, e)
    BY <1>s DEF CalmInv, ComingInv, Wanted
  <2> QED BY <1>s, <1>k, <2>1
<1> DEFINE Unmoved(c) ==
        pc'[c] \in {"scan", "write"} => pc[c] \in {"scan", "write"} /\ id'[c] = id[c]
           CallsKept(x) == (pc'[x] \in {"scan", "write"} /\ TypeOf[x] \in Wants[s])
                          => Promised(s, [id |-> id[x], call |-> x])'
           LogKept == last'[s] # None =>
                     \A k \in EventIds :
                        (k > last'[s] /\ Stored(k)' /\ TypeOf[log'[k]] \in Wants[s])
                           => Promised(s, [id |-> k, call |-> log[k]])'
<1>1. CASE /\ conn[s] = "on" /\ last'[s] = last[s] /\ log' = log
           /\ \A c \in Calls : Unmoved(c)
  <2>1. conn[s] = "on" /\ last'[s] = last[s] /\ log' = log
    BY <1>1
  <2>2. \A c \in Calls : pc'[c] \in {"scan", "write"} => pc[c] \in {"scan", "write"} /\ id'[c] = id[c]
    BY <1>1
  <2>3. ASSUME NEW c \in Calls, pc'[c] \in {"scan", "write"}, TypeOf[c] \in Wants[s]
        PROVE  Promised(s, [id |-> id[c], call |-> c])'
    <3> DEFINE e == [id |-> id[c], call |-> c]
    <3>1. Promised(s, e)'
      BY <1>c, <2>1, <2>2, <2>3
    <3> QED BY <2>2, <2>3, <3>1
  <2>4. ASSUME last'[s] # None, NEW k \in EventIds, k > last'[s], Stored(k)', TypeOf[log'[k]] \in Wants[s]
        PROVE  Promised(s, [id |-> k, call |-> log[k]])'
    BY <1>s, <2>1, <2>4 DEF Stored
  <2> QED BY <2>3, <2>4
<1>2. CASE Still
  BY <1>1, <1>2 DEF Still
<1>3. CASE Broadcast
  BY <1>1, <1>3 DEF Broadcast, queueVars, callVars, connVars
<1>4. CASE Crash
  BY <1>4, <1>t DEF Crash, TypeInv, StreamTypes
<1>5. ASSUME NEW c \in Calls, Notify(c)
      PROVE  (\A d \in Calls : CallsKept(d)) /\ LogKept
  <2>1. /\ UNCHANGED <<log, conn, last, id>> /\ notifier' = <<[id |-> id[c], call |-> c]>>
        /\ \A d \in Calls : d # c => pc'[d] = pc[d]
    BY <1>5, <1>t DEF Notify, At, queueVars, connVars, TypeInv, QueueInv, QueueTypes
  <2>2. ASSUME NEW d \in Calls, d # c, pc[d] \in {"scan", "write"}, TypeOf[d] \in Wants[s]
        PROVE  Promised(s, [id |-> id[d], call |-> d])'
    <3> DEFINE e == [id |-> id[d], call |-> d]
    <3>1. Promised(s, e)'
      BY <1>c, <2>1, <2>2
    <3> QED BY <3>1
  <2>3. Promised(s, [id |-> id[c], call |-> c])'
    BY <2>1 DEF Promised
  <2>4. \A d \in Calls : CallsKept(d)
    BY <2>1, <2>2, <2>3
  <2>5. LogKept
    BY <1>s, <2>1 DEF Stored
  <2> QED BY <2>4, <2>5
<1>6. ASSUME NEW c \in Calls, Write(c)
      PROVE  (\A d \in Calls : CallsKept(d)) /\ LogKept
  <2>1. /\ UNCHANGED <<conn, last, id>> /\ pc[c] = "write" /\ pc'[c] = "done"
        /\ \A d \in Calls : d # c => pc'[d] = pc[d]
        /\ log' = [k \in EventIds |-> IF k \in victims[c] THEN None
                                      ELSE IF k = id[c] THEN c ELSE log[k]]
    BY <1>6, <1>t DEF Write, At, connVars, TypeInv, QueueInv, QueueTypes
  <2>2. ASSUME NEW d \in Calls, pc[d] \in {"scan", "write"}, TypeOf[d] \in Wants[s]
        PROVE  Promised(s, [id |-> id[d], call |-> d])'
    <3> DEFINE e == [id |-> id[d], call |-> d]
    <3>1. Promised(s, e)'
      BY <1>c, <2>1, <2>2
    <3> QED BY <3>1
  <2>3. \A d \in Calls : CallsKept(d)
    BY <2>1, <2>2
  <2>4. ASSUME last'[s] # None, NEW k \in EventIds, k > last'[s], Stored(k)', TypeOf[log'[k]] \in Wants[s]
        PROVE  Promised(s, [id |-> k, call |-> log[k]])'
    <3>1. CASE log'[k] = log[k]
      BY <1>s, <2>1, <2>4, <3>1 DEF Stored
    <3>2. CASE k = id[c] /\ log'[k] = c
      BY <2>1, <2>2, <2>4, <3>2
    <3> QED BY <2>1, <2>4, <3>1, <3>2 DEF Stored
  <2> QED BY <2>3, <2>4
<1>7. ASSUME NEW r \in Conns, Subscribe(r)
      PROVE  (\A c \in Calls : CallsKept(c)) /\ LogKept
  <2>1. UNCHANGED <<log, last, pc, id>> /\ (r # s => conn[s] = "on") /\ conn' # conn
    BY <1>7, <1>t DEF Subscribe, queueVars, callVars, TypeInv, StreamTypes
  <2>2. CASE r # s
    BY <1>1, <2>1, <2>2
  <2>3. CASE r = s
    <3>1. CalmJoin
      BY <2>1 DEF vars, connVars
    <3>2. /\ \A c \in Calls : (pc[c] \in {"scan", "write"} /\ TypeOf[c] \in Wants[s])
                => Promised(s, [id |-> id[c], call |-> c])'
          /\ last[s] # None =>
                \A k \in EventIds : (k > last[s] /\ Stored(k) /\ TypeOf[log[k]] \in Wants[s])
                   => Promised(s, [id |-> k, call |-> log[k]])'
      BY <1>7, <1>t, <2>3, <3>1, SubscribePromises
    <3> QED BY <2>1, <3>2 DEF Stored
  <2> QED BY <2>2, <2>3
<1> QED BY <1>t, <1>2, <1>3, <1>4, <1>5, <1>6, <1>7, StepOfPromises

(* An idle handler has sent all it had promised.                             *)
LEMMA PromisesAreMet ==
    ASSUME CalmInv
    PROVE  NoMissedEvents
<1> SUFFICES ASSUME Quiet, NEW s \in Conns, conn[s] = "on", NEW e, Promised(s, e)
             PROVE  \E i \in 1..Len(got[s]) : got[s][i] = e
  BY DEF NoMissedEvents, CalmInv, ComingInv
<1> DEFINE r == replay[s]
           x == Extract(taken, Since(s))
<1>t. TypeInv
  BY DEF CalmInv, StreamInv
<1>1. notifier = <<>> /\ todo[s] = <<>> /\ Active(s)
  BY DEF Quiet, AtSelect, Active
<1>2. r \in Seq(Event) /\ x \in Seq(Event) /\ got[s] \in Seq(Event)
  BY <1>t, SinceIsPart DEF TypeInv, StreamTypes
<1>3. got[s] = r \o x
  <2>1. got[s] \o <<>> = r \o x
    BY <1>1 DEF CalmInv, StreamInv, InOrder
  <2> HIDE DEF r, x
  <2> QED BY <1>2, <2>1, ConcatEmptySeq
<1>4. \A i \in Since(s) : \E j \in 1..Len(x) : x[j] = taken[i]
  BY <1>t, SinceIsPart
<1> HIDE DEF r, x
<1>5. /\ Len(r) \in Nat /\ Len(x) \in Nat /\ Len(r \o x) = Len(r) + Len(x)
      /\ \A i \in 1..(Len(r) + Len(x)) : (r \o x)[i] = IF i <= Len(r) THEN r[i] ELSE x[i - Len(r)]
  BY <1>2, ConcatProperties
<1>6. ASSUME NEW i \in 1..Len(r), r[i] = e PROVE \E j \in 1..Len(got[s]) : got[s][j] = e
  <2>1. i \in 1..(Len(r) + Len(x)) /\ i <= Len(r)
    BY <1>5
  <2> QED BY <1>3, <1>5, <1>6, <2>1
<1>7. ASSUME NEW i \in 1..Len(x), x[i] = e PROVE \E j \in 1..Len(got[s]) : got[s][j] = e
  <2> DEFINE j == Len(r) + i
  <2>1. j \in 1..(Len(r) + Len(x)) /\ ~(j <= Len(r)) /\ j - Len(r) = i
    BY <1>5
  <2> HIDE DEF j
  <2> QED BY <1>3, <1>5, <1>7, <2>1
<1> QED BY <1>1, <1>4, <1>6, <1>7 DEF Promised, r

LEMMA InitCalmInv == Init => CalmInv
BY InitStreamInv DEF Init, CalmInv, ComingInv

(* Without storage errors, the gap between the channel and the log is the    *)
(* only way to miss an event: if no one is accepted in it, a subscriber that *)
(* named the last event it had seen receives all later ones that are stored, *)
(* for any number of calls and subscribers, over crashes, and even when ids  *)
(* are given out twice (getAllAfter, handler).                               *)
THEOREM NothingIsMissed ==
    ASSUME ~StorageFaults
    PROVE  CalmSpec => []NoMissedEvents
<1>1. CalmInv /\ [Next /\ CalmJoin]_vars => CalmInv'
  <2> SUFFICES ASSUME CalmInv, [Next /\ CalmJoin]_vars PROVE CalmInv'
    OBVIOUS
  <2>1. [Next]_vars
    OBVIOUS
  <2> QED BY <2>1, NextStreamInv, NextComingInv DEF CalmInv
<1>2. CalmInv => NoMissedEvents
  BY PromisesAreMet
<1> QED BY <1>1, <1>2, InitCalmInv, PTL DEF CalmSpec

---------------------------------------------------------------------------
(* Events that come twice                                                  *)

(* The events that have been in the channel: their calls are past Notify.    *)
Out == {e \in Event : pc[e.call] \in {"scan", "write", "done", "lost"} /\ e.id = id[e.call]}

(* What is stored, taken and replayed has been in the channel; nothing is    *)
(* taken twice, and no replay has an event twice.                            *)
OutInv ==
    /\ \A k \in EventIds : Stored(k) => [id |-> k, call |-> log[k]] \in Out
    /\ \A i \in 1..Len(taken) : taken[i] \in Out /\ \A h \in 1..(i - 1) : taken[h] # taken[i]
    /\ notifier # <<>> => notifier[1] \in Out /\ \A i \in 1..Len(taken) : taken[i] # notifier[1]
    /\ \A s \in Conns : \A j \in 1..Len(replay[s]) :
          replay[s][j] \in Out /\ \A i \in 1..(j - 1) : replay[s][i] # replay[s][j]

(* From the n-th live event of a subscriber on, none is in its replay.       *)
Replayed(s) == {replay[s][j] : j \in 1..Len(replay[s])}
NewFrom(n) ==
    \A s \in Conns :
        /\ \A i \in (joined[s] + n)..Len(taken) : taken[i] \notin Replayed(s)
        /\ (notifier # <<>> /\ Len(taken) + 1 >= joined[s] + n) => notifier[1] \notin Replayed(s)

RepeatInv(n) == StreamInv /\ OutInv /\ NewFrom(n)

LEMMA OutStays ==
    ASSUME TypeInv, [Next]_vars
    PROVE  Out \subseteq Out'
<1> SUFFICES ASSUME NEW e \in Out PROVE e \in Out'
  OBVIOUS
<1> USE DEF TypeInv, QueueInv, QueueTypes, Out, Event
<1>1. ASSUME NEW c \in Calls, StoreAndNotify(c) PROVE e \in Out'
  BY <1>1 DEF StoreAndNotify, Load, Increment, Format, Notify, Scan, Write, StoreError, At
<1>2. CASE Crash
  BY <1>2 DEF Crash
<1>3. CASE UNCHANGED <<queueVars, callVars>>
  BY <1>3 DEF callVars
<1> QED BY <1>1, <1>2, <1>3, StepOfQueue

(* A replay is of stored events, each once: they differ in their ids.        *)
LEMMA MissedOnce ==
    ASSUME TypeInv, NEW s \in Conns, NEW after, NEW j \in 1..Len(Missed(s, after))
    PROVE  /\ \E k \in EventIds : Stored(k) /\ Missed(s, after)[j] = [id |-> k, call |-> log[k]]
           /\ \A i \in 1..(j - 1) : Missed(s, after)[i] # Missed(s, after)[j]
<1> DEFINE all == [k \in EventIds |-> [id |-> k, call |-> log[k]]]
           places == {k \in EventIds : k > after /\ Stored(k) /\ Wanted(s, all[k])}
           at == Sorted(places)
<1>1. Missed(s, after) = Extract(all, places)
  BY DEF Missed
<1>2. places \in SUBSET Int /\ IsFiniteSet(places)
  <2>1. N \in Nat /\ EventIds = 1..N
    BY StartedBounds DEF TypeInv, QueueInv, EventIds, N
  <2>2. IsFiniteSet(EventIds) /\ places \in SUBSET EventIds
    BY <2>1, FS_Interval
  <2>3. \A k \in EventIds : k \in Int
    BY <2>1
  <2> HIDE DEF places
  <2>4. places \in SUBSET Int
    BY <2>2, <2>3
  <2> QED BY <2>2, <2>4, FS_Subset
<1>3. \A k \in places : k \in EventIds /\ Stored(k) /\ all[k] = [id |-> k, call |-> log[k]]
  OBVIOUS
<1> HIDE DEF all, places
<1>4. Len(Extract(all, places)) = Cardinality(places) /\ Cardinality(places) \in Nat
  BY <1>2, SortedRanks DEF Extract
<1>5. j \in 1..Cardinality(places) /\ \A i \in 1..(j - 1) : i \in 1..Cardinality(places)
  BY <1>1, <1>4
<1>6. \A m \in 1..Cardinality(places) :
         /\ at[m] \in places /\ Missed(s, after)[m] = all[at[m]]
         /\ \A i \in 1..(m - 1) : at[i] < at[m]
  BY <1>1, <1>2, ExtractFrom
<1> HIDE DEF at
<1>7. ASSUME NEW i \in 1..(j - 1) PROVE Missed(s, after)[i] # Missed(s, after)[j]
  <2>1. at[i] \in places /\ at[j] \in places /\ at[i] < at[j]
    BY <1>5, <1>6
  <2>2. at[i] # at[j]
    <3>1. at[i] \in Int /\ at[j] \in Int
      BY <1>2, <2>1
    <3> QED BY <2>1, <3>1
  <2>3. Missed(s, after)[i] = all[at[i]] /\ Missed(s, after)[j] = all[at[j]]
    BY <1>5, <1>6
  <2>4. all[at[i]].id = at[i] /\ all[at[j]].id = at[j]
    <3>1. \A k \in EventIds : [id |-> k, call |-> log[k]].id = k
      OBVIOUS
    <3> QED BY <1>3, <2>1, <3>1
  <2> QED BY <2>2, <2>3, <2>4
<1> QED BY <1>3, <1>5, <1>6, <1>7

(* What Subscribe sets out to send.                                          *)
LEMMA ReplayOnce ==
    ASSUME TypeInv, TypeInv', OutInv, NEW s \in Conns, Subscribe(s)
    PROVE  /\ \A t \in Conns : t # s => replay'[t] = replay[t]
           /\ \A j \in 1..Len(replay'[s]) :
                 /\ replay'[s][j] \in Event /\ replay'[s][j] \in Out
                 /\ log[replay'[s][j].id] = replay'[s][j].call
                 /\ \A i \in 1..(j - 1) : replay'[s][i] # replay'[s][j]
<1>1. PICK missed \in {<<>>, Missed(s, last[s])} : replay' = [replay EXCEPT ![s] = missed]
  BY DEF Subscribe
<1>2. replay'[s] = missed /\ \A t \in Conns : t # s => replay'[t] = replay[t]
  BY <1>1 DEF TypeInv, StreamTypes
<1>3. missed \in Seq(Event)
  BY <1>2 DEF TypeInv, StreamTypes
<1>4. ASSUME NEW j \in 1..Len(missed)
      PROVE  /\ missed[j] \in Event /\ missed[j] \in Out
             /\ log[missed[j].id] = missed[j].call
             /\ \A i \in 1..(j - 1) : missed[i] # missed[j]
  <2>1. missed = Missed(s, last[s])
    BY <1>1, <1>4
  <2>2. PICK k \in EventIds : Stored(k) /\ missed[j] = [id |-> k, call |-> log[k]]
    BY <2>1, MissedOnce
  <2>3. \A i \in 1..(j - 1) : missed[i] # missed[j]
    BY <2>1, MissedOnce
  <2>4. missed[j] \in Event
    BY <1>3, ElementOfSeq
  <2> QED BY <2>2, <2>3, <2>4 DEF OutInv
<1> QED BY <1>2, <1>4

LEMMA NextOutInv ==
    ASSUME TypeInv, TypeInv', OutInv, [Next]_vars
    PROVE  OutInv'
<1> USE DEF handlerVars
<1>0. /\ taken \in Seq(Event) /\ notifier \in Seq(Event) /\ Len(notifier) <= 1
      /\ replay \in [Conns -> Seq(Event)]
      /\ id \in [Calls -> Optional(EventIds)] /\ log \in [EventIds -> Optional(Calls)]
      /\ pc' \in [Calls -> {"idle", "done", "lost"} \cup InFlight]
      /\ QueueTypes
  BY DEF TypeInv, StreamTypes, QueueInv, QueueTypes
<1>e. /\ \A k \in EventIds : Stored(k) => [id |-> k, call |-> log[k]] \in Event
      /\ \A i \in 1..Len(taken) : taken[i] \in Event
      /\ notifier # <<>> => notifier[1] \in Event /\ Head(notifier) = notifier[1]
      /\ \A s \in Conns : \A j \in 1..Len(replay[s]) : replay[s][j] \in Event
  <2>1. \A k \in EventIds : Stored(k) => log[k] \in Calls
    BY <1>0 DEF Optional, Stored
  <2>2. \A k \in EventIds : Stored(k) => [id |-> k, call |-> log[k]] \in Event
    BY <2>1 DEF Event
  <2>3. \A q \in Seq(Event) : \A i \in 1..Len(q) : q[i] \in Event
    BY ElementOfSeq
  <2>4. ASSUME notifier # <<>> PROVE notifier[1] \in Event /\ Head(notifier) = notifier[1]
    <3>1. Len(notifier) \in Nat \ {0} /\ Head(notifier) = notifier[1]
      BY <1>0, <2>4, EmptySeq
    <3>2. 1 \in 1..Len(notifier)
      BY <3>1
    <3> QED BY <1>0, <3>1, <3>2, ElementOfSeq
  <2> HIDE DEF Event
  <2> QED BY <1>0, <2>2, <2>3, <2>4
<1>o. \A e \in Out : e \in Out'
  BY OutStays
<1>l. ASSUME log' = log
      PROVE  \A k \in EventIds : Stored(k)' => [id |-> k, call |-> log'[k]] \in Out'
  BY <1>e, <1>o, <1>l DEF OutInv, Stored
<1>t. ASSUME taken' = taken
      PROVE  \A i \in 1..Len(taken') : taken'[i] \in Out' /\ \A h \in 1..(i - 1) : taken'[h] # taken'[i]
  BY <1>e, <1>o, <1>t DEF OutInv
<1>n. ASSUME taken' = taken, notifier' = notifier
      PROVE  notifier' # <<>> => notifier'[1] \in Out' /\ \A i \in 1..Len(taken') : taken'[i] # notifier'[1]
  BY <1>e, <1>o, <1>n DEF OutInv
<1>r. ASSUME NEW s \in Conns, replay'[s] = replay[s]
      PROVE  \A j \in 1..Len(replay'[s]) :
                replay'[s][j] \in Out' /\ \A i \in 1..(j - 1) : replay'[s][i] # replay'[s][j]
  BY <1>e, <1>o, <1>r DEF OutInv
<1>1. ASSUME NEW c \in Calls, Notify(c) PROVE OutInv'
  <2>1. /\ UNCHANGED <<log, taken, replay, id>> /\ notifier' = <<[id |-> id[c], call |-> c]>>
        /\ pc[c] = "notify" /\ pc'[c] = "scan"
    BY <1>0, <1>1 DEF Notify, At, queueVars, QueueTypes
  <2> DEFINE e == [id |-> id[c], call |-> c]
  <2>2. e \in Out' /\ e \notin Out /\ notifier'[1] = e
    <3>1. id[c] \in EventIds
      BY <1>0, <2>1 DEF TypeInv, NumberKnown, Numbered, Optional
    <3> QED BY <2>1, <3>1 DEF Out, Event
  <2> HIDE DEF e
  <2>3. \A i \in 1..Len(taken') : taken'[i] # notifier'[1]
    BY <2>1, <2>2 DEF OutInv
  <2>4. notifier'[1] \in Out'
    BY <2>2
  <2> HIDE DEF Out
  <2> QED BY <2>1, <2>3, <2>4, <1>l, <1>t, <1>r DEF OutInv
<1>2. CASE Broadcast
  <2> DEFINE n == Len(taken)
             e == notifier[1]
  <2>1. /\ notifier # <<>> /\ notifier' = <<>> /\ UNCHANGED <<log, replay>>
        /\ taken' = Append(taken, e) /\ e \in Event /\ n \in Nat
    BY <1>0, <1>2, <1>e DEF Broadcast, queueVars
  <2>2. Len(taken') = n + 1 /\ taken'[n + 1] = e /\ \A i \in 1..n : taken'[i] = taken[i]
    BY <1>0, <2>1, AppendProperties
  <2>3. e \in Out' /\ \A i \in 1..n : taken[i] # e
    BY <2>1, <1>o DEF OutInv
  <2>4. \A i \in 1..n : taken[i] \in Out' /\ \A h \in 1..(i - 1) : taken[h] # taken[i]
    BY <1>e, <1>o DEF OutInv
  <2> HIDE DEF n, e
  <2>5. ASSUME NEW i \in 1..(n + 1)
        PROVE  taken'[i] \in Out' /\ \A h \in 1..(i - 1) : taken'[h] # taken'[i]
    <3>1. CASE i = n + 1
      BY <2>1, <2>2, <2>3, <3>1
    <3>2. CASE i \in 1..n
      <4>1. \A h \in 1..(i - 1) : h \in 1..n
        BY <2>1, <3>2
      <4> QED BY <2>2, <2>4, <3>2, <4>1
    <3>3. n \in Nat
      BY <2>1
    <3>4. i = n + 1 \/ i \in 1..n
      BY <3>3
    <3> QED BY <3>1, <3>2, <3>4
  <2> QED BY <2>1, <2>2, <2>5, <1>l, <1>r DEF OutInv
<1>3. CASE Crash
  BY <1>3, <1>l, <1>t, <1>r DEF Crash, OutInv
<1>4. ASSUME NEW s \in Conns, Subscribe(s) PROVE OutInv'
  <2>1. UNCHANGED <<log, taken, notifier>>
    BY <1>4 DEF Subscribe, queueVars
  <2>2. \A j \in 1..Len(replay'[s]) :
           replay'[s][j] \in Out' /\ \A i \in 1..(j - 1) : replay'[s][i] # replay'[s][j]
    <3>1. UNCHANGED <<pc, id>>
      BY <1>4 DEF Subscribe, callVars
    <3>2. \A j \in 1..Len(replay'[s]) :
             /\ replay'[s][j] \in Out
             /\ \A i \in 1..(j - 1) : replay'[s][i] # replay'[s][j]
      BY <1>4, ReplayOnce
    <3> QED BY <3>1, <3>2 DEF Out
  <2>3. \A t \in Conns : t # s => replay'[t] = replay[t]
    BY <1>4, ReplayOnce
  <2> QED BY <2>1, <2>2, <2>3, <1>l, <1>t, <1>n, <1>r DEF OutInv
<1>5. ASSUME NEW c \in Calls, Write(c) PROVE OutInv'
  <2>1. /\ UNCHANGED <<taken, notifier, replay, id>> /\ pc'[c] = "done"
        /\ log' = [k \in EventIds |-> IF k \in victims[c] THEN None
                                      ELSE IF k = id[c] THEN c ELSE log[k]]
    BY <1>0, <1>5 DEF Write, At, QueueTypes
  <2>2. \A k \in EventIds : Stored(k)' => [id |-> k, call |-> log'[k]] \in Out'
    <3> SUFFICES ASSUME NEW k \in EventIds, Stored(k)' PROVE [id |-> k, call |-> log'[k]] \in Out'
      OBVIOUS
    <3>1. CASE k = id[c] /\ log'[k] = c
      BY <2>1, <3>1 DEF Out, Event
    <3>2. CASE log'[k] = log[k]
      BY <1>e, <1>o, <3>2 DEF OutInv, Stored
    <3> QED BY <2>1, <3>1, <3>2 DEF Stored
  <2> QED BY <2>1, <2>2, <1>t, <1>n, <1>r DEF OutInv
<1>6. CASE UNCHANGED <<log, taken, notifier, replay>>
  BY <1>6, <1>l, <1>t, <1>n, <1>r DEF OutInv
<1>7. Still => UNCHANGED <<log, taken, notifier, replay>>
  BY DEF Still
<1> QED BY <1>1, <1>2, <1>3, <1>4, <1>5, <1>6, <1>7, StepOfPromises

(* A subscriber is accepted before the event after next is taken, and before *)
(* the next if that is not stored yet.                                       *)
LEMMA NextNewFrom ==
    ASSUME TypeInv, TypeInv', OutInv, [Next]_vars, NEW n \in {1, 2}, NewFrom(n),
           n = 1 => FreshJoin \/ conn' = conn
    PROVE  NewFrom(n)'
<1> USE DEF handlerVars
<1>0. /\ taken \in Seq(Event) /\ notifier \in Seq(Event)
      /\ joined \in [Conns -> Nat] /\ replay \in [Conns -> Seq(Event)]
      /\ conn \in [Conns -> {"new", "subscribing", "on", "leaving", "closed"}]
      /\ Len(taken) \in Nat
  BY DEF TypeInv, StreamTypes
<1>l. ASSUME NEW s \in Conns, taken' = taken, joined'[s] = joined[s], replay'[s] = replay[s]
      PROVE  \A i \in (joined'[s] + n)..Len(taken') : taken'[i] \notin Replayed(s)'
  BY <1>l DEF NewFrom, Replayed
<1>1. ASSUME NEW c \in Calls, Notify(c) PROVE NewFrom(n)'
  <2>1. /\ UNCHANGED <<taken, joined, replay, id>> /\ notifier' = <<[id |-> id[c], call |-> c]>>
        /\ pc[c] = "notify"
    BY <1>1 DEF Notify, At
  <2>2. notifier'[1] \notin Out
    BY <2>1 DEF Out
  <2>3. \A s \in Conns : Replayed(s)' \subseteq Out
    BY <2>1 DEF Replayed, OutInv
  <2> QED BY <1>l, <2>1, <2>2, <2>3 DEF NewFrom
<1>2. CASE Broadcast
  <2> DEFINE m == Len(taken)
  <2>1. /\ notifier # <<>> /\ notifier' = <<>> /\ UNCHANGED <<joined, replay>>
        /\ taken' = Append(taken, notifier[1]) /\ notifier[1] \in Event /\ m \in Nat
    <3>1. Head(notifier) = notifier[1] /\ Len(notifier) \in Nat \ {0}
      BY <1>0, <1>2, EmptySeq DEF Broadcast
    <3>2. 1 \in 1..Len(notifier)
      BY <3>1
    <3>3. notifier[1] \in Event
      BY <1>0, <3>2, ElementOfSeq
    <3> QED BY <1>0, <1>2, <3>1, <3>3 DEF Broadcast
  <2>2. Len(taken') = m + 1 /\ taken'[m + 1] = notifier[1] /\ \A i \in 1..m : taken'[i] = taken[i]
    BY <1>0, <2>1, AppendProperties
  <2>3. ASSUME NEW s \in Conns, NEW i \in (joined[s] + n)..(m + 1)
        PROVE  taken'[i] \notin Replayed(s)
    <3>0. joined[s] \in Nat /\ m \in Nat
      BY <1>0
    <3>1. CASE i = m + 1
      <4>1. m + 1 >= joined[s] + n
        BY <2>3, <3>0, <3>1
      <4> QED BY <2>1, <2>2, <3>1, <4>1 DEF NewFrom
    <3>2. CASE i \in (joined[s] + n)..m
      <4>1. i \in 1..m
        BY <3>0, <3>2
      <4> QED BY <2>2, <3>2, <4>1 DEF NewFrom
    <3>3. i = m + 1 \/ i \in (joined[s] + n)..m
      BY <3>0
    <3> QED BY <3>1, <3>2, <3>3
  <2> HIDE DEF m
  <2>4. \A s \in Conns : Replayed(s)' = Replayed(s)
    BY <2>1 DEF Replayed
  <2> QED BY <2>1, <2>2, <2>3, <2>4 DEF NewFrom
<1>3. CASE Crash
  BY <1>l, <1>3 DEF Crash, NewFrom
<1>4. ASSUME NEW s \in Conns, Subscribe(s) PROVE NewFrom(n)'
  <2>1. /\ UNCHANGED <<taken, notifier>> /\ joined'[s] = Len(taken)
        /\ \A t \in Conns : t # s => joined'[t] = joined[t] /\ replay'[t] = replay[t]
        /\ conn[s] = "subscribing" /\ conn'[s] = "on"
    BY <1>0, <1>4 DEF Subscribe
  <2>2. ASSUME n = 1, notifier # <<>> PROVE notifier[1] \notin Replayed(s)'
    <3>1. log[notifier[1].id] # notifier[1].call
      BY <2>1, <2>2 DEF FreshJoin
    <3>2. \A j \in 1..Len(replay'[s]) : log[replay'[s][j].id] = replay'[s][j].call
      BY <1>4, ReplayOnce
    <3> QED BY <3>1, <3>2 DEF Replayed
  <2>3. /\ \A i \in (joined'[s] + n)..Len(taken') : taken'[i] \notin Replayed(s)'
        /\ (notifier' # <<>> /\ Len(taken') + 1 >= joined'[s] + n) => notifier'[1] \notin Replayed(s)'
    <3>1. \A i \in (Len(taken) + n)..Len(taken) : FALSE
      BY <1>0
    <3>2. Len(taken) + 1 >= Len(taken) + n => n = 1
      BY <1>0
    <3> QED BY <2>1, <2>2, <3>1, <3>2
  <2>4. ASSUME NEW t \in Conns, t # s
        PROVE  /\ \A i \in (joined'[t] + n)..Len(taken') : taken'[i] \notin Replayed(t)'
               /\ (notifier' # <<>> /\ Len(taken') + 1 >= joined'[t] + n) => notifier'[1] \notin Replayed(t)'
    BY <2>1, <2>4 DEF NewFrom, Replayed
  <2> QED BY <2>3, <2>4 DEF NewFrom
<1>5. CASE UNCHANGED <<notifier, taken, joined, replay>>
  BY <1>5 DEF NewFrom, Replayed
<1>6. (Still \/ \E c \in Calls : Write(c)) => UNCHANGED <<notifier, taken, joined, replay>>
  BY DEF Still, Write
<1> QED BY <1>1, <1>2, <1>3, <1>4, <1>5, <1>6, StepOfPromises

LEMMA InitRepeatInv ==
    ASSUME NEW n \in {1, 2}, Init
    PROVE  RepeatInv(n)
<1>1. StreamInv
  BY InitStreamInv
<1>2. OutInv
  BY DEF Init, OutInv, Stored
<1>3. NewFrom(n)
  BY DEF Init, NewFrom
<1> QED BY <1>1, <1>2, <1>3 DEF RepeatInv

LEMMA NextRepeatInv ==
    ASSUME NEW n \in {1, 2}, RepeatInv(n), [Next]_vars, n = 1 => FreshJoin \/ conn' = conn
    PROVE  RepeatInv(n)'
<1>1. StreamInv /\ TypeInv /\ OutInv /\ NewFrom(n)
  BY DEF RepeatInv, StreamInv
<1>2. StreamInv' /\ TypeInv'
  BY <1>1, NextStreamInv DEF StreamInv
<1>3. OutInv'
  BY <1>1, <1>2, NextOutInv
<1>4. NewFrom(n)'
  BY <1>1, <1>2, NextNewFrom
<1> QED BY <1>2, <1>3, <1>4 DEF RepeatInv

LEMMA WhereItRepeats ==
    ASSUME NEW n \in {1, 2}, RepeatInv(n), NEW s \in Conns, Active(s),
           NEW j \in 1..Len(got[s] \o todo[s]), NEW i \in 1..(j - 1),
           (got[s] \o todo[s])[i] = (got[s] \o todo[s])[j]
    PROVE  n = 2 /\ i < Len(replay[s]) + 1 /\ j = Len(replay[s]) + 1
<1> DEFINE r == replay[s]
           x == Extract(taken, Since(s))
           p == Sorted(Since(s))
           stream == got[s] \o todo[s]
           m == j - Len(r)
<1>t. /\ TypeInv /\ taken \in Seq(Event) /\ joined[s] \in Nat
      /\ Len(taken) \in Nat /\ r \in Seq(Event)
  BY DEF RepeatInv, StreamInv, TypeInv, StreamTypes
<1>1. stream = r \o x /\ x \in Seq(Event)
  BY <1>t, SinceIsPart DEF RepeatInv, StreamInv, InOrder
<1>2. /\ Since(s) \in SUBSET Int /\ IsFiniteSet(Since(s))
      /\ \A k \in Since(s) : k >= joined[s] + 1 /\ k \in 1..Len(taken)
  <2>1. Since(s) \in SUBSET (1..Len(taken)) /\ IsFiniteSet(1..Len(taken))
    BY <1>t, SinceIsPart, FS_Interval
  <2>2. IsFiniteSet(Since(s))
    BY <2>1, FS_Subset
  <2>3. \A k \in Since(s) : k \in (joined[s] + 1)..Len(taken)
    BY DEF Since
  <2> HIDE DEF r, x, p, stream, m
  <2> QED BY <1>t, <2>1, <2>2, <2>3
<1>3. /\ Len(x) = Cardinality(Since(s)) /\ Cardinality(Since(s)) \in Nat
      /\ \A k \in 1..Cardinality(Since(s)) :
            /\ p[k] \in Since(s) /\ x[k] = taken[p[k]]
            /\ \A h \in 1..(k - 1) : p[h] < p[k]
  <2>1. Since(s) \in SUBSET Int /\ IsFiniteSet(Since(s))
    BY <1>2
  <2>2. Cardinality(Since(s)) \in Nat
    BY <2>1, FS_CardinalityType
  <2>3. Len(x) = Cardinality(Since(s))
    BY <2>2 DEF Extract
  <2>4. \A k \in 1..Cardinality(Since(s)) :
           /\ p[k] \in Since(s) /\ x[k] = taken[p[k]]
           /\ \A h \in 1..(k - 1) : p[h] < p[k]
    <3> HIDE DEF Since
    <3> QED BY <2>1, ExtractFrom
  <2> QED BY <2>2, <2>3, <2>4
<1>4. /\ Len(r) \in Nat /\ Len(x) \in Nat /\ Len(stream) = Len(r) + Len(x)
      /\ \A k \in 1..(Len(r) + Len(x)) : stream[k] = IF k <= Len(r) THEN r[k] ELSE x[k - Len(r)]
  <2> HIDE DEF r, x, stream
  <2> QED BY <1>t, <1>1, ConcatProperties
<1>5. /\ \A k \in 1..Len(r) : \A h \in 1..(k - 1) : r[h] # r[k]
      /\ \A k \in 1..Len(taken) : \A h \in 1..(k - 1) : taken[h] # taken[k]
      /\ \A k \in (joined[s] + n)..Len(taken) : \A h \in 1..Len(r) : r[h] # taken[k]
  BY DEF RepeatInv, OutInv, NewFrom, Replayed
<1>6. j \in 1..Len(stream) /\ i \in 1..(j - 1) /\ stream[i] = stream[j]
  OBVIOUS
<1> HIDE DEF r, x, p, stream
<1>7. j > Len(r)
  <2> SUFFICES ASSUME j <= Len(r) PROVE FALSE
    BY <1>4, <1>6
  <2>1. j \in 1..Len(r) /\ i \in 1..(Len(r) + Len(x)) /\ j \in 1..(Len(r) + Len(x)) /\ i <= Len(r)
    BY <1>4, <1>6
  <2>2. stream[j] = r[j] /\ stream[i] = r[i]
    BY <1>4, <2>1
  <2> QED BY <1>5, <1>6, <2>1, <2>2
<1>8. m \in 1..Len(x) /\ stream[j] = taken[p[m]] /\ p[m] \in Since(s)
  <2>1. j \in 1..(Len(r) + Len(x)) /\ m \in 1..Len(x)
    BY <1>4, <1>6, <1>7
  <2> QED BY <1>3, <1>4, <1>7, <2>1
<1>9. i <= Len(r)
  <2> SUFFICES ASSUME i > Len(r) PROVE FALSE
    BY <1>4, <1>6
  <2> DEFINE h == i - Len(r)
  <2>1. h \in 1..(m - 1) /\ h \in 1..Len(x) /\ i \in 1..(Len(r) + Len(x))
    BY <1>4, <1>6, <1>8
  <2>2. stream[i] = taken[p[h]] /\ p[h] < p[m] /\ p[h] \in Since(s)
    BY <1>3, <1>4, <1>8, <2>1
  <2>3. p[m] \in 1..Len(taken) /\ p[h] \in 1..(p[m] - 1)
    BY <1>2, <1>8, <2>2
  <2> QED BY <1>5, <1>6, <1>8, <2>2, <2>3
<1>10. p[m] \notin (joined[s] + n)..Len(taken)
  <2>1. i \in 1..Len(r) /\ i \in 1..(Len(r) + Len(x))
    BY <1>4, <1>6, <1>9
  <2>2. stream[i] = r[i]
    BY <1>4, <1>9, <2>1
  <2>3. r[i] = taken[p[m]]
    BY <1>6, <1>8, <2>2
  <2>4. \A k \in (joined[s] + n)..Len(taken) : r[i] # taken[k]
    BY <1>5, <2>1
  <2> QED BY <2>3, <2>4, Zenon
<1>11. n = 2 /\ p[m] = joined[s] + 1
  <2>1. p[m] >= joined[s] + 1 /\ p[m] \in 1..Len(taken)
    BY <1>2, <1>8
  <2> QED BY <1>t, <1>10, <2>1
<1>12. m = 1
  <2> SUFFICES ASSUME m # 1 PROVE FALSE
    OBVIOUS
  <2>1. 1 \in 1..(m - 1) /\ 1 \in 1..Len(x)
    BY <1>4, <1>8
  <2>2. p[1] < p[m] /\ p[1] \in Since(s)
    BY <1>3, <1>8, <2>1
  <2> QED BY <1>t, <1>2, <1>11, <2>2
<1>13. i < Len(r) + 1 /\ j = Len(r) + 1
  <2>1. j \in Int /\ i \in Int /\ Len(r) \in Int
    BY <1>4
  <2> QED BY <1>9, <1>12, <2>1
<1> QED BY <1>11, <1>13 DEF r

(* The one event a subscriber can find twice is the first it gets live: it   *)
(* was stored, and so replayed, while it was waiting in the channel.  This   *)
(* holds for any number of calls, clients and crashes, even with equal ids   *)
(* (storeAndNotify, handler).                                                *)
THEOREM RepeatsOnlyAtJoin == Spec => []TwiceOnlyAtJoin
<1>1. Init => RepeatInv(2)
  BY InitRepeatInv
<1>2. RepeatInv(2) /\ [Next]_vars => RepeatInv(2)'
  BY NextRepeatInv
<1>3. RepeatInv(2) => TwiceOnlyAtJoin
  <2> SUFFICES ASSUME RepeatInv(2), NEW s \in Conns, Active(s),
                      NEW j \in 1..Len(got[s] \o todo[s]), NEW i \in 1..(j - 1),
                      (got[s] \o todo[s])[i] = (got[s] \o todo[s])[j]
               PROVE  i < Len(replay[s]) + 1 /\ j = Len(replay[s]) + 1
    BY DEF TwiceOnlyAtJoin
  <2> QED BY WhereItRepeats
<1> QED BY <1>1, <1>2, <1>3, PTL DEF Spec

(* A stream that has no event twice.                                         *)
Single(s) ==
    \A j \in 1..Len(got[s] \o todo[s]) : \A i \in 1..(j - 1) :
        (got[s] \o todo[s])[i] # (got[s] \o todo[s])[j]
SingleInv == StreamInv /\ \A s \in Conns : Active(s) => Single(s)

LEMMA NextReceivedOnce ==
    ASSUME SingleInv, SingleInv', ReceivedOnce, [Next]_vars
    PROVE  ReceivedOnce'
<1>t. StreamInv /\ StreamInv' /\ TypeInv /\ TypeInv'
  BY DEF SingleInv, StreamInv
<1> SUFFICES ASSUME NEW s \in Conns
             PROVE  \A j \in 1..Len(got'[s]) : \A i \in 1..(j - 1) : got'[s][i] # got'[s][j]
  BY DEF ReceivedOnce
<1>1. CASE got'[s] = got[s]
  BY <1>1 DEF ReceivedOnce
<1>2. CASE Send(s)
  <2> DEFINE g == got'[s]
             u == todo'[s]
  <2>1. Active(s)'
    BY <1>2, <1>t DEF Send, StreamInv, Served, Active
  <2>2. g \in Seq(Event) /\ u \in Seq(Event)
    BY <1>t DEF TypeInv, StreamTypes
  <2> HIDE DEF g, u
  <2>3. /\ Len(g) \in Nat /\ Len(u) \in Nat /\ Len(g \o u) = Len(g) + Len(u)
        /\ \A k \in 1..(Len(g) + Len(u)) : (g \o u)[k] = IF k <= Len(g) THEN g[k] ELSE u[k - Len(g)]
    BY <2>2, ConcatProperties
  <2>4. \A j \in 1..Len(g \o u) : \A i \in 1..(j - 1) : (g \o u)[i] # (g \o u)[j]
    BY <2>1 DEF SingleInv, Single, g, u
  <2>5. ASSUME NEW j \in 1..Len(g), NEW i \in 1..(j - 1) PROVE g[i] # g[j]
    <3>1. /\ j \in 1..(Len(g) + Len(u)) /\ i \in 1..(Len(g) + Len(u))
          /\ j <= Len(g) /\ i <= Len(g)
      BY <2>3
    <3> QED BY <2>3, <2>4, <3>1
  <2> QED BY <2>5 DEF g
<1>3. ASSUME NEW r \in Conns, r # s, Send(r) PROVE got'[s] = got[s]
  BY <1>3, <1>t DEF Send, TypeInv, StreamTypes
<1>4. got' = got \/ \E r \in Conns : Send(r)
  BY StepOfStreams DEF Notify, Broadcast, Crash, Subscribe, Unsubscribe, Connect, Flush,
     Disconnect, connVars
<1> QED BY <1>1, <1>2, <1>3, <1>4

(* If no one is accepted while the event in the channel is already stored,   *)
(* no subscriber receives anything twice, over crashes and storage errors    *)
(* and for any number of calls and clients (storeAndNotify, handler).        *)
THEOREM NothingIsReceivedTwice == FreshSpec => []ReceivedOnce
<1>1. Init => RepeatInv(1) /\ ReceivedOnce
  BY InitRepeatInv DEF Init, ReceivedOnce
<1>2. RepeatInv(1) /\ [Next /\ FreshJoin]_vars => RepeatInv(1)'
  <2> SUFFICES ASSUME RepeatInv(1), [Next /\ FreshJoin]_vars PROVE RepeatInv(1)'
    OBVIOUS
  <2>1. [Next]_vars /\ (FreshJoin \/ conn' = conn)
    BY DEF vars, connVars
  <2> QED BY <2>1, NextRepeatInv
<1>3. RepeatInv(1) => SingleInv
  <2> SUFFICES ASSUME RepeatInv(1) PROVE SingleInv
    OBVIOUS
  <2>1. \A s \in Conns : Active(s) => Single(s)
    <3> SUFFICES ASSUME NEW s \in Conns, Active(s),
                        NEW j \in 1..Len(got[s] \o todo[s]), NEW i \in 1..(j - 1),
                        (got[s] \o todo[s])[i] = (got[s] \o todo[s])[j]
                 PROVE  FALSE
      BY DEF Single
    <3> DEFINE n == 1
    <3>1. n \in {1, 2} /\ RepeatInv(n) /\ n # 2
      OBVIOUS
    <3> HIDE DEF n
    <3>2. n = 2
      BY <3>1, WhereItRepeats
    <3> QED BY <3>1, <3>2
  <2> QED BY <2>1 DEF RepeatInv, SingleInv
<1>4. SingleInv /\ SingleInv' /\ ReceivedOnce /\ [Next /\ FreshJoin]_vars => ReceivedOnce'
  <2>1. [Next /\ FreshJoin]_vars => [Next]_vars
    OBVIOUS
  <2> QED BY <2>1, NextReceivedOnce
<1> QED BY <1>1, <1>2, <1>3, <1>4, PTL DEF FreshSpec
=============================================================================
