---------------------------- MODULE Notification ----------------------------
(* The notification of catalog events over SSE: Controller, SSEAPI and       *)
(* LevelDBEventQueue (src/notification/controller.go, sse.go,                *)
(* ldb_eventqueue.go).                                                       *)
(*                                                                           *)
(* The catalog starts one goroutine per event, which numbers the event,      *)
(* hands it to the handler through the channel Notifier and then stores it.  *)
(* The handler is one goroutine; it sends to the subscribers one after the   *)
(* other over unbuffered channels.  Every subscriber is an HTTP request.     *)
EXTENDS Order

CONSTANTS
    Calls,         \* the listener calls of a run, one per event
    Conns,         \* the SSE requests of a run, each with a channel of its own
    Types,         \* the event types
    TypeOf,        \* the type of the event of each call
    Wants,         \* the types each request subscribes to
    Capacity,      \* how many events the queue keeps
    StorageFaults, \* whether LevelDB may answer with an error
    Crashes,       \* whether the process may crash and restart
    Stops,         \* whether it may be told to stop
    None           \* the empty Last-Event-ID, or an absent entry

EventIds == 1..Cardinality(Calls)
Optional(S) == S \cup {None}
Event == [id : EventIds, call : Calls]

ASSUME NotificationAssumption ==
    /\ IsFiniteSet(Calls)
    /\ TypeOf \in [Calls -> Types]
    /\ Wants \in [Conns -> SUBSET Types]
    /\ Capacity \in Nat \ {0}
    /\ StorageFaults \in BOOLEAN /\ Crashes \in BOOLEAN /\ Stops \in BOOLEAN
    /\ None \notin Int /\ None \notin Calls

VARIABLES
    latestID,  \* the counter of the queue, written without a lock
    log,       \* the database of the queue: id -> the call of the event, or None
    pc,        \* where the goroutine of each call is
    reg,       \* the value of latestID a call has loaded
    id,        \* the id a call has given its event, or None
    victims,   \* the old entries a call has found
    notifier,  \* the channel Notifier (capacity 1)
    conn,      \* where each SSE request is
    last,      \* its Last-Event-ID
    busy,      \* whether its goroutine is writing an event to the client
    got,       \* the events it has received from its channel
    todo,      \* the events the handler has still to send in this iteration
    stage,     \* where main and the handler are on the way to the end
    taken,     \* the events the handler has taken from Notifier (history)
    joined,    \* Len(taken) when the handler accepted each subscriber (history)
    replay     \* the missed events it then set out to send (history)

queueVars == <<latestID, log>>
callVars == <<pc, reg, id, victims>>
connVars == <<conn, last, busy, got>>
handlerVars == <<todo, taken, joined, replay>>
vars == <<queueVars, callVars, notifier, connVars, handlerVars, stage>>

InFlight == {"increment", "format", "notify", "scan", "write"}

(* Ids, channels and the states of calls and requests stay in their ranges   *)
(* (the notification package).                                               *)
TypeOK ==
    /\ latestID \in 0..Cardinality(Calls)
    /\ log \in [EventIds -> Optional(Calls)]
    /\ pc \in [Calls -> {"idle", "done", "lost"} \cup InFlight]
    /\ reg \in [Calls -> 0..Cardinality(Calls)]
    /\ id \in [Calls -> Optional(EventIds)]
    /\ victims \in [Calls -> SUBSET EventIds]
    /\ notifier \in Seq(Event) /\ Len(notifier) <= 1
    /\ conn \in [Conns -> {"new", "subscribing", "on", "leaving", "closed"}]
    /\ last \in [Conns -> Optional(0..Cardinality(Calls))]
    /\ busy \in [Conns -> BOOLEAN]
    /\ got \in [Conns -> Seq(Event)]
    /\ todo \in [Conns -> Seq(Event)]
    /\ stage \in {"serving", "stopping", "waiting", "closing", "closed"}
    /\ taken \in Seq(Event)
    /\ joined \in [Conns -> Nat]
    /\ replay \in [Conns -> Seq(Event)]

Init ==
    /\ latestID = 0
    /\ log = [k \in EventIds |-> None]
    /\ pc = [c \in Calls |-> "idle"]
    /\ reg = [c \in Calls |-> 0]
    /\ id = [c \in Calls |-> None]
    /\ victims = [c \in Calls |-> {}]
    /\ notifier = <<>>
    /\ conn = [s \in Conns |-> "new"]
    /\ last = [s \in Conns |-> None]
    /\ busy = [s \in Conns |-> FALSE]
    /\ got = [s \in Conns |-> <<>>]
    /\ todo = [s \in Conns |-> <<>>]
    /\ stage = "serving"
    /\ taken = <<>>
    /\ joined = [s \in Conns |-> 0]
    /\ replay = [s \in Conns |-> <<>>]

---------------------------------------------------------------------------
(* storeAndNotify                                                          *)

At(c, from, to) == pc[c] = from /\ pc' = [pc EXCEPT ![c] = to]

(* getNewID: "latestID += 1" is a load and a store, and the value returned   *)
(* is either loaded again or kept in a register.                             *)
Load(c) ==
    /\ At(c, "idle", "increment")
    /\ reg' = [reg EXCEPT ![c] = latestID]
    /\ UNCHANGED <<queueVars, id, victims, notifier, connVars, handlerVars, stage>>

Increment(c) ==
    /\ At(c, "increment", "format")
    /\ latestID' = reg[c] + 1
    /\ UNCHANGED <<log, reg, id, victims, notifier, connVars, handlerVars, stage>>

Format(c) ==
    /\ At(c, "format", "notify")
    /\ \E n \in {latestID, reg[c] + 1} : id' = [id EXCEPT ![c] = n]
    /\ UNCHANGED <<queueVars, reg, victims, notifier, connVars, handlerVars, stage>>

(* A mutant of Notify: the channel has no bound, so that a call never waits. *)
NotifyAtOnce(c) ==
    /\ At(c, "notify", "scan")
    /\ notifier' = Append(notifier, [id |-> id[c], call |-> c])
    /\ UNCHANGED <<queueVars, reg, id, victims, connVars, handlerVars, stage>>

(* A mutant of Notify: a call may hand its event over once more.             *)
NotifyRetried(c) ==
    /\ \E to \in {"notify", "scan"} : At(c, "notify", to)
    /\ notifier = <<>>
    /\ notifier' = <<[id |-> id[c], call |-> c]>>
    /\ UNCHANGED <<queueVars, reg, id, victims, connVars, handlerVars, stage>>

Notify(c) ==
    /\ At(c, "notify", "scan")
    /\ notifier = <<>>
    /\ notifier' = <<[id |-> id[c], call |-> c]>>
    /\ UNCHANGED <<queueVars, reg, id, victims, connVars, handlerVars, stage>>

Stored(k) == log[k] # None
Open == stage # "closed"

(* A mutant of Scan: the limit of the range counted as if it were inclusive. *)
ScanOneMore(c) ==
    /\ At(c, "scan", "write") /\ Open
    /\ victims' = [victims EXCEPT ![c] =
          {k \in EventIds : Stored(k) /\ latestID > Capacity /\ k <= latestID - Capacity + 1}]
    /\ UNCHANGED <<queueVars, reg, id, notifier, connVars, handlerVars, stage>>

(* addRotate collects the keys below the window in a snapshot of the log.    *)
(* The code reads latestID just before it takes the snapshot, the model at   *)
(* the same time: with a counter that has grown in between, the code finds a *)
(* part of these keys.                                                       *)
Scan(c) ==
    /\ At(c, "scan", "write") /\ Open
    /\ victims' = [victims EXCEPT ![c] =
          {k \in EventIds : Stored(k) /\ latestID > Capacity /\ k < latestID - Capacity + 1}]
    /\ UNCHANGED <<queueVars, reg, id, notifier, connVars, handlerVars, stage>>

(* ... and writes one batch: the new event first, then the deletions.        *)
Write(c) ==
    /\ At(c, "write", "done") /\ Open
    /\ log' = [k \in EventIds |-> IF k \in victims[c] THEN None
                             ELSE IF k = id[c] THEN c ELSE log[k]]
    /\ UNCHANGED <<latestID, reg, id, victims, notifier, connVars, handlerVars, stage>>

(* The event is not stored, and its call returns an error nobody looks at.   *)
StoreError(c) ==
    /\ StorageFaults \/ ~Open
    /\ At(c, "scan", "done") \/ At(c, "write", "done")
    /\ UNCHANGED <<queueVars, reg, id, victims, notifier, connVars, handlerVars, stage>>

---------------------------------------------------------------------------
(* The handler                                                             *)

Handling == stage \in {"serving", "stopping"}
AtSelect == Handling /\ \A s \in Conns : todo[s] = <<>>
Wanted(s, e) == TypeOf[e.call] \in Wants[s]

(* A mutant of Missed: the range starts behind the next id.                  *)
MissedButNext(s, after) ==
    LET all == [k \in EventIds |-> [id |-> k, call |-> log[k]]]
    IN Extract(all, {k \in EventIds : k > after + 1 /\ Stored(k) /\ Wanted(s, all[k])})

(* getAllAfter: the stored events behind the given id, in the order of ids.  *)
Missed(s, after) ==
    LET all == [k \in EventIds |-> [id |-> k, call |-> log[k]]]
    IN Extract(all, {k \in EventIds : k > after /\ Stored(k) /\ Wanted(s, all[k])})

Subscribe(s) ==
    /\ AtSelect /\ conn[s] = "subscribing"
    /\ conn' = [conn EXCEPT ![s] = "on"]
    /\ joined' = [joined EXCEPT ![s] = Len(taken)]
    /\ \E missed \in (IF last[s] = None THEN {<<>>}
                      ELSE {Missed(s, last[s])} \cup (IF StorageFaults THEN {<<>>} ELSE {})) :
          /\ todo' = [todo EXCEPT ![s] = missed]
          /\ replay' = [replay EXCEPT ![s] = missed]
    /\ UNCHANGED <<queueVars, callVars, notifier, last, busy, got, taken, stage>>

Active(s) == conn[s] \in {"on", "leaving"}

(* A mutant of Broadcast: events stay in the channel until there is a client. *)
BroadcastIfHeard ==
    /\ AtSelect /\ notifier # <<>> /\ \E s \in Conns : Active(s)
    /\ LET e == Head(notifier) IN
          /\ todo' = [s \in Conns |-> IF Active(s) /\ Wanted(s, e) THEN <<e>> ELSE <<>>]
          /\ taken' = Append(taken, e)
    /\ notifier' = <<>>
    /\ UNCHANGED <<queueVars, callVars, connVars, joined, replay, stage>>

Broadcast ==
    /\ AtSelect /\ notifier # <<>>
    /\ LET e == Head(notifier) IN
          /\ todo' = [s \in Conns |-> IF Active(s) /\ Wanted(s, e) THEN <<e>> ELSE <<>>]
          /\ taken' = Append(taken, e)
    /\ notifier' = <<>>
    /\ UNCHANGED <<queueVars, callVars, connVars, joined, replay, stage>>

(* A mutant of Send: a client that is still writing is passed over.          *)
SendOrSkip(s) ==
    /\ todo[s] # <<>>
    /\ got' = IF busy[s] THEN got ELSE [got EXCEPT ![s] = Append(@, Head(todo[s]))]
    /\ busy' = [busy EXCEPT ![s] = TRUE]
    /\ todo' = [todo EXCEPT ![s] = Tail(@)]
    /\ UNCHANGED <<queueVars, callVars, notifier, conn, last, taken, joined, replay, stage>>

(* The send is synchronous: it waits for a goroutine that is still writing.  *)
(* The map of clients has no order, so that any of those left may be next.   *)
Send(s) ==
    /\ todo[s] # <<>> /\ ~busy[s]
    /\ got' = [got EXCEPT ![s] = Append(@, Head(todo[s]))]
    /\ busy' = [busy EXCEPT ![s] = TRUE]
    /\ todo' = [todo EXCEPT ![s] = Tail(@)]
    /\ UNCHANGED <<queueVars, callVars, notifier, conn, last, taken, joined, replay, stage>>

(* The channel is closed, which ends the request's loop.                     *)
Unsubscribe(s) ==
    /\ AtSelect /\ conn[s] = "leaving"
    /\ conn' = [conn EXCEPT ![s] = "closed"]
    /\ UNCHANGED <<queueVars, callVars, notifier, last, busy, got, handlerVars, stage>>

---------------------------------------------------------------------------
(* SSE requests                                                            *)

(* A client that has lost its connection names the last id it has seen,      *)
(* maybe in an earlier life of the process; zero asks for the whole log.     *)
Connect(s) ==
    /\ conn[s] = "new"
    /\ conn' = [conn EXCEPT ![s] = "subscribing"]
    /\ \E n \in {None, 0} \cup {id[c] : c \in Calls} : last' = [last EXCEPT ![s] = n]
    /\ UNCHANGED <<queueVars, callVars, notifier, busy, got, handlerVars, stage>>

(* A mutant of Flush: the loop ends when the context is done.                *)
FlushUntilDone(s) ==
    /\ busy[s] /\ conn[s] # "leaving"
    /\ busy' = [busy EXCEPT ![s] = FALSE]
    /\ UNCHANGED <<queueVars, callVars, notifier, conn, last, got, handlerVars, stage>>

Flush(s) ==
    /\ busy[s]
    /\ busy' = [busy EXCEPT ![s] = FALSE]
    /\ UNCHANGED <<queueVars, callVars, notifier, conn, last, got, handlerVars, stage>>

(* The context is done: a goroutine waits to unsubscribe while the loop goes *)
(* on to receive.                                                            *)
Disconnect(s) ==
    /\ conn[s] = "on"
    /\ conn' = [conn EXCEPT ![s] = "leaving"]
    /\ UNCHANGED <<queueVars, callVars, notifier, last, busy, got, handlerVars, stage>>

---------------------------------------------------------------------------
(* The process                                                             *)

(* main calls notificationController.Stop, which waits for the handler ...    *)
Signal ==
    /\ Stops /\ stage = "serving"
    /\ stage' = "stopping"
    /\ UNCHANGED <<queueVars, callVars, notifier, connVars, handlerVars>>

(* ... to come to its select, and ends it.  Calls and requests go on.        *)
Stop ==
    /\ AtSelect /\ stage = "stopping"
    /\ stage' = "waiting"
    /\ UNCHANGED <<queueVars, callVars, notifier, connVars, handlerVars>>

(* A mutant of Wait: a call counts from the moment it has its id.            *)
WaitForCalls ==
    /\ stage = "waiting" /\ \A c \in Calls : pc[c] \notin {"notify", "scan", "write"}
    /\ stage' = "closing"
    /\ UNCHANGED <<queueVars, callVars, notifier, connVars, handlerVars>>

(* eventQueue.Close waits for the calls that are in addRotate.  One that     *)
(* enters after that may find the database closed.                           *)
Wait ==
    /\ stage = "waiting" /\ \A c \in Calls : pc[c] # "write"
    /\ stage' = "closing"
    /\ UNCHANGED <<queueVars, callVars, notifier, connVars, handlerVars>>

Close ==
    /\ stage = "closing"
    /\ stage' = "closed"
    /\ UNCHANGED <<queueVars, callVars, notifier, connVars, handlerVars>>

LastKey == CHOOSE k \in {0} \cup {i \in EventIds : Stored(i)} : \A i \in EventIds : Stored(i) => i <= k

(* A mutant of Crash: the counter starts again from zero.                    *)
CrashForgets ==
    /\ Crashes
    /\ latestID' = 0
    /\ pc' = [c \in Calls |-> IF pc[c] \in InFlight THEN "lost" ELSE pc[c]]
    /\ notifier' = <<>>
    /\ conn' = [s \in Conns |-> IF conn[s] = "new" THEN "new" ELSE "closed"]
    /\ busy' = [s \in Conns |-> FALSE]
    /\ todo' = [s \in Conns |-> <<>>]
    /\ stage' = "serving"
    /\ UNCHANGED <<log, reg, id, victims, last, got, taken, joined, replay>>

(* The process ends, with or without Close, and starts again.  Only the log  *)
(* survives; the counter starts from its last key.                           *)
Crash ==
    /\ Crashes
    /\ latestID' = LastKey
    /\ pc' = [c \in Calls |-> IF pc[c] \in InFlight THEN "lost" ELSE pc[c]]
    /\ notifier' = <<>>
    /\ conn' = [s \in Conns |-> IF conn[s] = "new" THEN "new" ELSE "closed"]
    /\ busy' = [s \in Conns |-> FALSE]
    /\ todo' = [s \in Conns |-> <<>>]
    /\ stage' = "serving"
    /\ UNCHANGED <<log, reg, id, victims, last, got, taken, joined, replay>>

StoreAndNotify(c) ==
    Load(c) \/ Increment(c) \/ Format(c) \/ Notify(c) \/ Scan(c) \/ Write(c) \/ StoreError(c)

Handler == Broadcast \/ \E s \in Conns : Subscribe(s) \/ Send(s) \/ Unsubscribe(s)

Next ==
    \/ \E c \in Calls : StoreAndNotify(c)
    \/ Handler
    \/ \E s \in Conns : Connect(s) \/ Flush(s) \/ Disconnect(s)
    \/ Signal \/ Stop \/ Wait \/ Close \/ Crash

Spec == Init /\ [][Next]_vars

(* The Go scheduler runs every goroutine that can run; a select with several *)
(* ready cases picks one at random, so that no case is passed over for ever; *)
(* and the clients read what is sent to them.                                *)
Fairness ==
    /\ \A c \in Calls : WF_vars(pc[c] # "idle" /\ StoreAndNotify(c))
    /\ WF_vars(Broadcast)
    /\ \A s \in Conns : SF_vars(Subscribe(s)) /\ WF_vars(Send(s)) /\ SF_vars(Unsubscribe(s))
    /\ \A s \in Conns : WF_vars(Flush(s))
    /\ SF_vars(Stop) /\ WF_vars(Wait \/ Close)

FairSpec == Spec /\ Fairness

(* The specification as it would be with a lock in getNewID.                 *)
SerialIds ==
    \A c, d \in Calls : pc[c] \in {"increment", "format"} /\ pc[d] \in {"increment", "format"}
                        => c = d
SerialSpec == Init /\ [][Next /\ SerialIds']_vars

(* The specification as it would be if no subscriber were accepted while an  *)
(* event that the handler has taken is not stored.                           *)
Unstored(c) ==
    pc[c] \in {"scan", "write"} /\ notifier # <<[id |-> id[c], call |-> c]>>
CalmJoin ==
    (\E s \in Conns : conn[s] = "subscribing" /\ conn'[s] = "on") => \A c \in Calls : ~Unstored(c)
CalmSpec == Init /\ [][Next /\ CalmJoin]_vars

(* The specification as it would be if no subscriber were accepted while the *)
(* event in the channel is already stored.                                   *)
FreshJoin ==
    (\E s \in Conns : conn[s] = "subscribing" /\ conn'[s] = "on") =>
        (notifier # <<>> => log[notifier[1].id] # notifier[1].call)
FreshSpec == Init /\ [][Next /\ FreshJoin]_vars

---------------------------------------------------------------------------
(* Properties                                                              *)

(* What a subscriber has received, and what the handler has still to send,   *)
(* is the replay it asked for followed by every event of its types that was  *)
(* taken since, in the same order for all (handler, sendToSubscriber).  The  *)
(* first of these may be one the replay has too: TwiceOnlyAtJoin.            *)
StreamInOrder ==
    \A s \in Conns : Active(s) =>
        LET since == {i \in (joined[s] + 1)..Len(taken) : Wanted(s, taken[i])} IN
        got[s] \o todo[s] = replay[s] \o Extract(taken, since)

(* A stream holds an event twice only where the replay goes over into the    *)
(* live events: one that was stored while it was waiting in the channel is   *)
(* in the replay, and is the first to be broadcast.  Nothing else is sent    *)
(* again, whatever is replayed, rotated or lost (storeAndNotify, handler).   *)
TwiceOnlyAtJoin ==
    \A s \in Conns : Active(s) =>
        LET stream == got[s] \o todo[s]
            firstLive == Len(replay[s]) + 1
        IN \A j \in 1..Len(stream) : \A i \in 1..(j - 1) :
              stream[i] = stream[j] => i < firstLive /\ j = firstLive

(* No subscriber receives an event twice: the replay is of events it has     *)
(* missed ("Send the missed events", handler).  Violated by one that is      *)
(* stored before it is broadcast.                                            *)
ReceivedOnce ==
    \A s \in Conns : \A j \in 1..Len(got[s]) : \A i \in 1..(j - 1) : got[s][i] # got[s][j]

(* Rotation drops an event only when Capacity later ids have been given out, *)
(* although the call that drops it counted from an earlier moment (addRotate). *)
OnlyOldDropped ==
    [][\A k \in EventIds : (Stored(k) /\ ~Stored(k)') => k + Capacity <= latestID]_vars

(* Two events never have the same id (getNewID).  Violated by two calls that *)
(* are in getNewID at once, and by one that was sent, but not stored when    *)
(* the process ended.                                                        *)
UniqueIds == \A c, d \in Calls : (c # d /\ id[c] # None) => id[c] # id[d]

(* An id is larger than that of every event stored before, also after a      *)
(* restart, so that the order of ids is the order a replay promises          *)
(* (getNewID, fetchLatestID).                                                *)
NewIdsLargest ==
    [][\A c \in Calls : (pc[c] = "format" /\ id'[c] # id[c])
                       => \A k \in EventIds : Stored(k) => k < id'[c]]_vars

(* When nothing is under way, a subscriber that named the last event it had  *)
(* seen has received all later ones that are stored (getAllAfter, handler).  *)
Quiet ==
    /\ \A c \in Calls : pc[c] \notin InFlight
    /\ notifier = <<>> /\ AtSelect
NoMissedEvents ==
    Quiet => \A s \in Conns : (conn[s] = "on" /\ last[s] # None) =>
        \A k \in EventIds : (k > last[s] /\ Stored(k) /\ TypeOf[log[k]] \in Wants[s])
            => \E i \in 1..Len(got[s]) : got[s][i] = [id |-> k, call |-> log[k]]

(* A call that waits for a handler that has ended, and a client that does.   *)
Stranded(c) == pc[c] = "notify" /\ ~Handling
Deserted(s) == conn[s] = "leaving" /\ ~Handling

(* Every call ends, and every client that leaves is let go, as long as the   *)
(* clients read and the handler is there (storeAndNotify, SubscribeEvent).   *)
CallsReturn ==
    \A c \in Calls : pc[c] \in InFlight ~> (pc[c] \in {"done", "lost"} \/ Stranded(c))
LeaversReleased ==
    \A s \in Conns : conn[s] = "leaving" ~> (conn[s] = "closed" \/ Deserted(s))

(* A process that is told to stop comes to its end, with calls that wait for *)
(* the handler and clients that nobody unsubscribes, as long as the clients  *)
(* read (Controller.Stop, LevelDBEventQueue.Close, the deferred calls of main). *)
StopEnds == stage = "stopping" ~> stage \in {"closed", "serving"}
=============================================================================
