---------------------------- MODULE FollowerProofs ----------------------------
(* What the follower of a directory holds, for all values of the constants.  *)
EXTENDS DirectoryProofs, SequenceTheorems

OP == INSTANCE OrderProofs

---------------------------------------------------------------------------
(* The invariant                                                           *)

(* The place of a call's event in the order of all events.                   *)
Number(c) == IF id[c] = None THEN Len(taken) + 1 ELSE id[c]

CallOf(e) == <<e.req, e.type>>
KeyOf(e) == IF e.type = "create" THEN e.td.id ELSE e.old.id

(* An event shows the versions that its type tells of, all under one id, and *)
(* a request that has started one has been answered.                         *)
WellFormed(e) ==
    /\ e.req \in Requests /\ e.type \in Types
    /\ e.type # "create" => e.old \in C!TD /\ e.old.id \in Ids
    /\ e.type # "delete" => e.td \in C!TD /\ e.td.id \in Ids
    /\ e.type = "update" => e.td.id = e.old.id
    /\ e.type = "delete" => e.td = None
EventsKnown ==
    /\ \A e \in events : WellFormed(e) /\ reply[e.req] # None
    /\ \A e, f \in events : e.req = f.req => e = f

(* A call that has no event has not begun, and none was lost.                *)
CallsKnown ==
    /\ \A c \in Calls : ~Started(c) => call[c] = "idle" /\ c \notin over
    /\ \A c \in Calls : call[c] # "lost" /\ (c \in over => call[c] = "done")
    /\ \A c \in Calls : id[c] # None <=> call[c] \in {"notify", "scan", "write", "done"}

(* One event at a time is under way, so that the numbers follow each other.  *)
OneAtATime ==
    /\ \A c, d \in Calls : Pending(c) /\ Pending(d) => c = d
    /\ \A c \in Calls : call[c] \in {"increment", "format"} => reg[c] = Len(taken)
    /\ \A c \in Calls : Pending(c) /\ id[c] # None => id[c] = latestID
    /\ \A c \in Calls : call[c] \in {"format", "notify"} => latestID = Len(taken) + 1
    /\ notifier # <<>> =>
          /\ latestID = Len(taken) + 1
          /\ notifier[1].id = Len(taken) + 1 /\ id[notifier[1].call] = Len(taken) + 1
          /\ call[notifier[1].call] \in {"scan", "write", "done"}
          /\ \A d \in Calls : Pending(d) => d = notifier[1].call
    /\ notifier = <<>> /\ (\A c \in Calls : call[c] \notin {"format", "notify"}) =>
          latestID = Len(taken)

(* The handler takes them in that order, and every number is in use once.    *)
TakenInOrder ==
    /\ \A i \in 1..Len(taken) : taken[i].id = i /\ id[taken[i].call] = i
    /\ \A c \in Calls : id[c] # None =>
          \/ id[c] \in 1..Len(taken) /\ taken[id[c]].call = c
          \/ /\ id[c] = Len(taken) + 1
             /\ call[c] = "notify" \/ (notifier # <<>> /\ notifier[1].call = c)

(* The log has every event, except those the follower has heard, and of      *)
(* these it has the newest.                                                  *)
Superseded(c) ==
    /\ heard # <<>> /\ id[c] <= LastHeard
    /\ \E d \in Calls : call[d] = "done" /\ id[d] > id[c]
LogComplete ==
    /\ \A k \in N!EventIds : log[k] # None => id[log[k]] = k
    /\ \A c \in Calls : call[c] = "done" => log[id[c]] = c \/ Superseded(c)
    /\ \A c \in Calls : call[c] = "write" => \A k \in victims[c] : k < id[c]

(* The follower hears the events in order.                                   *)
HeardInOrder ==
    /\ heard \in Seq(N!Event)
    /\ \A i \in 1..Len(heard) : heard[i].id <= LastHeard
    /\ heard # <<>> => LastHeard \in 1..Len(taken)

(* The number of the event that a connection delivers next is one larger.    *)
Place(s) == Len(taken) - Len(sending[s]) - IF busy[s] THEN 1 ELSE 0

(* It has to deliver what is behind the last event that the follower heard.  *)
Delivers(s) ==
    /\ Place(s) >= 0
    /\ \A j \in 1..Len(sending[s]) :
          sending[s][j] = taken[Len(taken) - Len(sending[s]) + j]
    /\ busy[s] => got[s] # <<>> /\ got[s][Len(got[s])] = taken[Place(s) + 1]
    /\ heard # <<>> => LastHeard = Place(s)

(* The follower has at most one connection that is not over.                 *)
ConnectionInv ==
    /\ \A s, t \in Conns : conn[s] # "new" /\ t < s => conn[t] \in {"leaving", "closed"}
    /\ \A s \in Conns : conn[s] = "subscribing" => last[s] = LastHeard
    /\ \A s \in Conns : conn[s] \in {"new", "subscribing"} => ~busy[s]
    /\ \A s \in Conns : conn[s] = "on" => Delivers(s)

(* Version v of k is what the events behind number n start from: the first   *)
(* of them about k, if it is an update, has changed v, and if there is none, *)
(* v is in the catalog, or is expired and gone.                              *)
IsNext(n, k, e) ==
    /\ e \in events /\ KeyOf(e) = k /\ Number(CallOf(e)) > n
    /\ \A f \in events : KeyOf(f) = k /\ Number(CallOf(f)) > n
                          => Number(CallOf(e)) <= Number(CallOf(f))
Stands(v, k) == v = db[k] \/ (db[k] = None /\ C!ExpiredAt(v, now))
Continues(v, k, n) ==
    /\ \A e \in events : IsNext(n, k, e) /\ e.type = "update" => e.old = v
    /\ (\A e \in events : KeyOf(e) = k => Number(CallOf(e)) <= n) => Stands(v, k)

(* Every event leaves the version that the later ones start from.            *)
EventsChain == \A e \in events : Continues(e.td, KeyOf(e), Number(CallOf(e)))
MirrorInv ==
    /\ mirror \in [Ids -> C!Optional(C!TD)]
    /\ heard # <<>> => \A k \in Ids : Continues(mirror[k], k, LastHeard)
    /\ \A s \in Conns : conn[s] = "on" => \A k \in Ids : Continues(mirror[k], k, Place(s))

Numbers == CallsKnown /\ OneAtATime /\ TakenInOrder
CatalogInv == CP!AtomicInv /\ C!Apart /\ EventsKnown
Agreement ==
    /\ CatalogInv /\ Numbers /\ LogComplete /\ HeardInOrder
    /\ ConnectionInv /\ EventsChain /\ MirrorInv
FollowerInv ==
    /\ NS!StreamInv /\ CP!TypeInv /\ CP!CoherentInv /\ restarts \in Nat
    /\ calm => Agreement

---------------------------------------------------------------------------
(* Types                                                                   *)

LEMMA ForTypes ==
    ASSUME NS!TypeInv
    PROVE  /\ taken \in Seq(N!Event) /\ Len(taken) \in Nat
           /\ notifier \in Seq(N!Event) /\ Len(notifier) <= 1
           /\ latestID \in Nat /\ reg \in [Calls -> Nat]
           /\ call \in [Calls -> {"idle", "done", "lost"} \cup N!InFlight]
           /\ id \in [Calls -> N!EventIds \cup {None}]
           /\ log \in [N!EventIds -> Calls \cup {None}]
           /\ victims \in [Calls -> SUBSET N!EventIds]
           /\ conn \in [Conns -> {"new", "subscribing", "on", "leaving", "closed"}]
           /\ busy \in [Conns -> BOOLEAN]
           /\ got \in [Conns -> Seq(N!Event)] /\ sending \in [Conns -> Seq(N!Event)]
           /\ last \in [Conns -> Nat \cup {None}] /\ replay \in [Conns -> Seq(N!Event)]
           /\ N!EventIds \subseteq Nat /\ None \notin Nat /\ None \notin Calls
           /\ N!Event = [id : N!EventIds, call : Calls]
<1>1. NS!N \in Nat /\ NS!N = N!Cardinality(Calls)
  BY NotificationConstants, SameSizes, NS!StartedBounds DEF NS!TypeInv, NS!QueueInv, NS!N
<1>2. NS!EventIds = N!EventIds /\ N!EventIds = 1..NS!N /\ N!InFlight = NS!InFlight
  BY <1>1, SameVars DEF N!EventIds
<1>3. N!Event = NS!Event /\ N!Event = [id : N!EventIds, call : Calls]
  BY SameVars DEF N!Event, NS!Event
<1>4. NS!QueueTypes /\ NS!StreamTypes BY DEF NS!TypeInv, NS!QueueInv
<1>5. N!EventIds \subseteq Nat /\ None \notin Nat /\ None \notin Calls
  BY <1>1, <1>2, NotificationConstants
<1>6. /\ latestID \in Nat /\ reg \in [Calls -> Nat]
      /\ call \in [Calls -> {"idle", "done", "lost"} \cup N!InFlight]
      /\ id \in [Calls -> N!EventIds \cup {None}]
      /\ log \in [N!EventIds -> Calls \cup {None}]
      /\ victims \in [Calls -> SUBSET N!EventIds]
  BY <1>1, <1>2, <1>4 DEF NS!QueueTypes, NS!Optional
<1>7. /\ taken \in Seq(N!Event) /\ notifier \in Seq(N!Event) /\ Len(notifier) <= 1
      /\ conn \in [Conns -> {"new", "subscribing", "on", "leaving", "closed"}]
      /\ busy \in [Conns -> BOOLEAN]
      /\ got \in [Conns -> Seq(N!Event)] /\ sending \in [Conns -> Seq(N!Event)]
      /\ replay \in [Conns -> Seq(N!Event)]
  BY <1>3, <1>4 DEF NS!StreamTypes
<1>8. Len(taken) \in Nat BY <1>7, LenProperties
<1>9. last \in [Conns -> Nat \cup {None}]
  BY <1>1, <1>4 DEF NS!StreamTypes, NS!Optional
<1> QED BY <1>3, <1>5, <1>6, <1>7, <1>8, <1>9

LEMMA EntriesOf ==
    ASSUME NEW q \in Seq(N!Event)
    PROVE  /\ Len(q) \in Nat /\ (q # <<>> => Len(q) >= 1)
           /\ \A i \in 1..Len(q) :
                 q[i] \in N!Event /\ q[i].call \in Calls /\ q[i].id \in N!EventIds
<1>1. Len(q) \in Nat /\ (q # <<>> => Len(q) >= 1) BY EmptySeq, LenProperties
<1>2. \A i \in 1..Len(q) : q[i] \in N!Event BY ElementOfSeq
<1> QED BY <1>1, <1>2 DEF N!Event

---------------------------------------------------------------------------
(* Numbers                                                                 *)

LEMMA NumbersFrame ==
    ASSUME Numbers, UNCHANGED <<events, over, latestID, call, reg, id, notifier, taken>>
    PROVE  Numbers'
<1> USE DEF Numbers
<1>1. \A c : Started(c)' <=> Started(c) BY DEF Started
<1>2. \A c : Pending(c)' <=> Pending(c) BY <1>1 DEF Pending
<1>3. CallsKnown' BY <1>1 DEF CallsKnown
<1>4. OneAtATime' BY <1>2 DEF OneAtATime
<1>5. TakenInOrder' BY DEF TakenInOrder
<1> QED BY <1>3, <1>4, <1>5

(* A call that has not come to the channel is the one that is under way, and *)
(* its event is not in the channel.                                          *)
LEMMA BeforeTheChannel ==
    ASSUME Numbers, NS!TypeInv, NEW c \in Calls, Started(c) \/ call[c] # "idle",
           call[c] \in {"idle", "increment", "format", "notify"}, c \notin over
    PROVE  /\ Pending(c) /\ notifier = <<>>
           /\ \A d \in Calls : Pending(d) => d = c
           /\ call[c] \in {"idle", "increment"} => latestID = Len(taken)
           /\ call[c] \in {"format", "notify"} => latestID = Len(taken) + 1
<1> USE DEF Numbers
<1>1. Pending(c) BY DEF Pending, CallsKnown
<1>2. notifier = <<>> BY <1>1 DEF OneAtATime
<1>3. \A d \in Calls : Pending(d) => d = c BY <1>1 DEF OneAtATime
<1>4. \A d \in Calls : call[d] \in {"format", "notify"} => Pending(d)
  BY DEF Pending, CallsKnown
<1>5. call[c] \in {"idle", "increment"} => latestID = Len(taken)
  BY <1>2, <1>3, <1>4 DEF OneAtATime
<1>6. call[c] \in {"format", "notify"} => latestID = Len(taken) + 1
  BY DEF OneAtATime
<1> QED BY <1>1, <1>2, <1>3, <1>5, <1>6

(* While nothing is under way, every event is taken and stored.              *)
LEMMA NothingUnderWay ==
    ASSUME Numbers, NS!TypeInv, ~UnderWay
    PROVE  /\ notifier = <<>> /\ latestID = Len(taken)
           /\ \A c \in Calls : ~Pending(c)
           /\ \A s \in Conns : sending[s] = <<>>
           /\ \A c \in Calls : Started(c) => call[c] = "done"
           /\ \A c \in Calls : call[c] \in {"idle", "done"}
           /\ \A c \in Calls : id[c] # None => id[c] \in 1..Len(taken) /\ taken[id[c]].call = c
<1> USE DEF Numbers
<1>1. /\ notifier = <<>> /\ \A c \in Calls : ~Pending(c)
      /\ \A s \in Conns : sending[s] = <<>>
  BY DEF UnderWay, N!AtSelect
<1>2. \A c \in Calls : Started(c) => call[c] = "done"
  BY <1>1 DEF Pending, CallsKnown
<1>3. \A c \in Calls : call[c] \in {"idle", "done"} BY <1>2 DEF CallsKnown
<1>4. latestID = Len(taken) BY <1>1, <1>3 DEF OneAtATime
<1>5. \A c \in Calls : id[c] # None => id[c] \in 1..Len(taken) /\ taken[id[c]].call = c
  BY <1>1, <1>3 DEF TakenInOrder
<1> QED BY <1>1, <1>2, <1>3, <1>4, <1>5

LEMMA NumbersPublish ==
    ASSUME Numbers, NS!TypeInv, ~UnderWay,
           NEW e, e.req \in Requests, e.type \in Types, \A f \in events : f.req # e.req,
           events' = events \cup {e},
           UNCHANGED <<over, latestID, call, reg, id, notifier, taken>>
    PROVE  Numbers'
<1> USE DEF Numbers
<1> DEFINE n == <<e.req, e.type>>
<1>1. n \in Calls /\ ~Started(n) BY DEF Calls, Started
<1>2. \A c \in Calls : Started(c)' <=> Started(c) \/ c = n
  BY DEF Started, Calls
<1>3. call[n] = "idle" /\ id[n] = None BY <1>1 DEF CallsKnown
<1>4. \A c \in Calls : Pending(c)' => c = n
  BY <1>2, NothingUnderWay DEF Pending
<1>5. CallsKnown' BY <1>2 DEF CallsKnown
<1>6. OneAtATime' BY <1>3, <1>4, NothingUnderWay DEF OneAtATime
<1>7. TakenInOrder' BY DEF TakenInOrder
<1> QED BY <1>5, <1>6, <1>7

LEMMA NumbersCall ==
    ASSUME Numbers, NS!TypeInv, NEW c \in Calls, Started(c), c \notin over,
           N!StoreAndNotify(c), UNCHANGED <<events, over>>
    PROVE  Numbers'
<1> USE DEF Numbers
<1>0. /\ taken \in Seq(N!Event) /\ Len(taken) \in Nat
      /\ latestID \in Nat /\ reg \in [Calls -> Nat]
      /\ call \in [Calls -> {"idle", "done", "lost"} \cup N!InFlight]
      /\ id \in [Calls -> N!EventIds \cup {None}]
      /\ None \notin Nat
  BY ForTypes
<1>1. taken' = taken
  BY DEF N!StoreAndNotify, N!Load, N!Increment, N!Format, N!Notify, N!Scan, N!Write,
         N!StoreError, N!handlerVars
<1>2. \A d : Started(d)' <=> Started(d) BY DEF Started
<1>3. ASSUME NEW from, NEW to, N!At(c, from, to)
      PROVE  /\ call[c] = from /\ call'[c] = to
             /\ \A d \in Calls : d # c => call'[d] = call[d]
             /\ call' \in [Calls -> {"idle", "done", "lost"} \cup N!InFlight \cup {to}]
  BY <1>0, <1>3 DEF N!At
<1>4. ASSUME NEW from, NEW to, from # "done", from # "lost", N!At(c, from, to)
      PROVE  Pending(c) /\ \A d \in Calls : Pending(d)' => Pending(d)
  BY <1>2, <1>3, <1>4 DEF Pending
<1>5. CASE N!Load(c)
  <2>1. /\ N!At(c, "idle", "increment") /\ reg' = [reg EXCEPT ![c] = latestID]
        /\ UNCHANGED <<latestID, id, notifier>>
    BY <1>5 DEF N!Load, N!queueVars
  <2>2. /\ notifier = <<>> /\ latestID = Len(taken)
        /\ \A d \in Calls : Pending(d) => d = c
    BY <1>3, <2>1, BeforeTheChannel
  <2>3. CallsKnown' BY <1>2, <1>3, <2>1 DEF CallsKnown
  <2>4. OneAtATime'
    BY <1>0, <1>1, <1>3, <1>4, <2>1, <2>2 DEF OneAtATime
  <2>5. TakenInOrder' BY <1>1, <1>3, <2>1 DEF TakenInOrder
  <2> QED BY <2>3, <2>4, <2>5
<1>6. CASE N!Increment(c)
  <2>1. /\ N!At(c, "increment", "format") /\ latestID' = reg[c] + 1
        /\ UNCHANGED <<reg, id, notifier>>
    BY <1>6 DEF N!Increment
  <2>2. /\ notifier = <<>> /\ latestID = Len(taken)
        /\ \A d \in Calls : Pending(d) => d = c
    BY <1>3, <2>1, BeforeTheChannel
  <2>3. CallsKnown' BY <1>2, <1>3, <2>1 DEF CallsKnown
  <2>4. reg[c] = Len(taken) /\ id[c] = None BY <1>3, <2>1 DEF OneAtATime, CallsKnown
  <2>5. OneAtATime'
    BY <1>0, <1>1, <1>3, <1>4, <2>1, <2>2, <2>4 DEF OneAtATime
  <2>6. TakenInOrder' BY <1>1, <1>3, <2>1 DEF TakenInOrder
  <2> QED BY <2>3, <2>5, <2>6
<1>7. CASE N!Format(c)
  <2>1. /\ N!At(c, "format", "notify")
        /\ \E n \in {latestID, reg[c] + 1} : id' = [id EXCEPT ![c] = n]
        /\ UNCHANGED <<latestID, reg, notifier>>
    BY <1>7 DEF N!Format, N!queueVars
  <2>2. /\ notifier = <<>> /\ latestID = Len(taken) + 1
        /\ \A d \in Calls : Pending(d) => d = c
    BY <1>3, <2>1, BeforeTheChannel
  <2>3. reg[c] = Len(taken) /\ id[c] = None BY <1>3, <2>1 DEF OneAtATime, CallsKnown
  <2>4. /\ id' = [id EXCEPT ![c] = Len(taken) + 1] /\ id'[c] = Len(taken) + 1
        /\ \A d \in Calls : d # c => id'[d] = id[d]
    BY <1>0, <2>1, <2>2, <2>3
  <2>5. CallsKnown' BY <1>0, <1>2, <1>3, <2>1, <2>4 DEF CallsKnown
  <2>6. OneAtATime'
    BY <1>0, <1>1, <1>3, <1>4, <2>1, <2>2, <2>4 DEF OneAtATime
  <2>7. \A i \in 1..Len(taken) : taken[i].call \in Calls /\ taken[i].call # c
    <3>1. \A i \in 1..Len(taken) : taken[i].call \in Calls BY <1>0, EntriesOf
    <3>2. \A i \in 1..Len(taken) : id[taken[i].call] = i BY <1>0 DEF TakenInOrder
    <3>3. \A i \in 1..Len(taken) : i # None BY <1>0
    <3> QED BY <2>3, <3>1, <3>2, <3>3
  <2>8. TakenInOrder'
    BY <1>1, <1>3, <2>1, <2>4, <2>7 DEF TakenInOrder
  <2> QED BY <2>5, <2>6, <2>8
<1>8. CASE N!Notify(c)
  <2>1. /\ N!At(c, "notify", "scan") /\ notifier' = <<[id |-> id[c], call |-> c]>>
        /\ UNCHANGED <<latestID, reg, id>>
    BY <1>8 DEF N!Notify, N!queueVars
  <2>2. /\ notifier = <<>> /\ latestID = Len(taken) + 1 /\ Pending(c)
        /\ \A d \in Calls : Pending(d) => d = c
    BY <1>3, <2>1, BeforeTheChannel
  <2>3. id[c] = Len(taken) + 1
    BY <1>3, <2>1, <2>2 DEF OneAtATime, CallsKnown
  <2>4. notifier'[1] = [id |-> id[c], call |-> c] /\ notifier' # <<>> BY <2>1
  <2>5. CallsKnown' BY <1>2, <1>3, <2>1 DEF CallsKnown
  <2>6. OneAtATime'
    BY <1>0, <1>1, <1>3, <1>4, <2>1, <2>2, <2>3, <2>4 DEF OneAtATime
  <2>7. TakenInOrder'
    BY <1>1, <1>3, <2>1, <2>2, <2>4 DEF TakenInOrder
  <2> QED BY <2>5, <2>6, <2>7
<1>9. CASE N!Scan(c) \/ N!Write(c) \/ N!StoreError(c)
  <2>1. PICK from \in {"scan", "write"}, to \in {"write", "done"} : N!At(c, from, to)
    BY <1>9 DEF N!Scan, N!Write, N!StoreError
  <2>2. UNCHANGED <<latestID, reg, id, notifier>>
    BY <1>9 DEF N!Scan, N!Write, N!StoreError, N!queueVars
  <2>3. CallsKnown' BY <1>2, <1>3, <2>1, <2>2 DEF CallsKnown
  <2>4. OneAtATime'
    BY <1>1, <1>3, <1>4, <2>1, <2>2 DEF OneAtATime
  <2>5. TakenInOrder' BY <1>1, <1>3, <2>1, <2>2 DEF TakenInOrder
  <2> QED BY <2>3, <2>4, <2>5
<1> QED BY <1>5, <1>6, <1>7, <1>8, <1>9 DEF N!StoreAndNotify

LEMMA NumbersBroadcast ==
    ASSUME Numbers, NS!TypeInv, N!Broadcast, UNCHANGED <<events, over>>
    PROVE  Numbers'
<1> USE DEF Numbers
<1>0. /\ taken \in Seq(N!Event) /\ Len(taken) \in Nat
      /\ notifier \in Seq(N!Event) /\ N!Event = [id : N!EventIds, call : Calls]
  BY ForTypes
<1> DEFINE e == notifier[1]
<1>1. /\ notifier # <<>> /\ notifier' = <<>> /\ taken' = Append(taken, e)
      /\ UNCHANGED <<latestID, call, reg, id>>
  BY <1>0 DEF N!Broadcast, N!queueVars, N!callVars
<1>2. e \in N!Event /\ e.call \in Calls
  <2>1. 1 \in 1..Len(notifier) BY <1>0, <1>1, EntriesOf
  <2> QED BY <1>0, <2>1, EntriesOf
<1>3. /\ Len(taken') = Len(taken) + 1 /\ taken'[Len(taken) + 1] = e
      /\ \A i \in 1..Len(taken) : taken'[i] = taken[i]
  BY <1>0, <1>1, <1>2
<1>4. /\ latestID = Len(taken) + 1
      /\ e.id = Len(taken) + 1 /\ id[e.call] = Len(taken) + 1
      /\ call[e.call] \in {"scan", "write", "done"}
      /\ \A d \in Calls : Pending(d) => d = e.call
  BY <1>1 DEF OneAtATime
<1> HIDE DEF e
<1>5. \A d \in Calls : call[d] \notin {"increment", "format", "notify"}
  BY <1>1, BeforeTheChannel DEF CallsKnown
<1>6. \A d : (Started(d)' <=> Started(d)) /\ (Pending(d)' <=> Pending(d))
  BY <1>1 DEF Started, Pending
<1>7. CallsKnown' BY <1>1, <1>6 DEF CallsKnown
<1>8. OneAtATime' BY <1>0, <1>1, <1>3, <1>4, <1>5, <1>6 DEF OneAtATime
<1>9. TakenInOrder'
  <2>1. \A i \in 1..Len(taken') : taken'[i].id = i /\ id'[taken'[i].call] = i
    BY <1>0, <1>1, <1>3, <1>4 DEF TakenInOrder
  <2>2. \A c \in Calls : id[c] # None =>
          \/ id[c] \in 1..Len(taken) /\ taken[id[c]].call = c
          \/ id[c] = Len(taken) + 1 /\ e.call = c
    BY <1>5 DEF TakenInOrder, e
  <2>3. \A c \in Calls : id[c] # None =>
          id[c] \in 1..Len(taken') /\ taken'[id[c]].call = c
    BY <1>0, <1>3, <2>2
  <2> QED BY <1>1, <2>1, <2>3 DEF TakenInOrder
<1> QED BY <1>7, <1>8, <1>9

(* No process ends with an event under way, and the next one counts on.      *)
LEMMA NumbersRestart ==
    ASSUME Numbers, NS!TypeInv, ~UnderWay, N!Crash, N!LastKey = Len(taken),
           over' = over \cup {c \in Calls : Started(c)}, UNCHANGED events
    PROVE  Numbers'
<1> USE DEF Numbers
<1>1. /\ latestID' = Len(taken) /\ notifier' = <<>>
      /\ call' = [c \in Calls |-> IF call[c] \in N!InFlight THEN "lost" ELSE call[c]]
      /\ UNCHANGED <<reg, id, taken>>
  BY DEF N!Crash
<1>2. \A c \in Calls : call[c] \in {"idle", "done"} /\ (Started(c) => call[c] = "done")
  BY NothingUnderWay
<1>3. \A c \in Calls : call'[c] = call[c] BY <1>1, <1>2 DEF N!InFlight
<1>4. \A c : Started(c)' <=> Started(c) BY DEF Started
<1>5. \A c \in Calls : ~Pending(c)' BY <1>2, <1>3, <1>4 DEF Pending
<1>6. CallsKnown' BY <1>1, <1>2, <1>3, <1>4 DEF CallsKnown
<1>7. OneAtATime' BY <1>1, <1>2, <1>3, <1>5 DEF OneAtATime
<1>8. TakenInOrder' BY <1>1, <1>2, <1>3, NothingUnderWay DEF TakenInOrder
<1> QED BY <1>6, <1>7, <1>8

---------------------------------------------------------------------------
(* The catalog                                                             *)

(* What a step of the catalog does to what the listeners can see.            *)
Silently ==
    /\ events' = events
    /\ \A k \in Ids : db'[k] = db[k] \/ (db'[k] = None /\ C!ExpiredAt(db[k], now))
Publishing(e) ==
    /\ WellFormed(e)
    /\ \A f \in events : f.req # e.req
    /\ events' = events \cup {e}
    /\ db' = [db EXCEPT ![KeyOf(e)] = e.td]
    /\ e.type = "update" => e.old = db[KeyOf(e)]

LEMMA CatalogIsRegistry ==
    ASSUME C!PatchesKeepIds, CP!AtomicInv, C!Apart, C!Apart', [C!Next]_C!vars
    PROVE  CP!AtomicInv' /\ [CP!R!Next]_(CP!R!vars)
<1>1. [CP!Next]_CP!vars
  BY SameStep DEF C!vars, CP!vars, C!requestVars, CP!requestVars, C!cleanerVars, CP!cleanerVars
<1>2. (C!Apart <=> CP!Apart) /\ (C!Apart' <=> CP!Apart')
  BY DEF C!Apart, CP!Apart, C!Working, CP!Working, C!Steps, CP!Steps
<1>3. CP!PatchesKeepIds BY DEF C!PatchesKeepIds, CP!PatchesKeepIds
<1>4. [CP!Next /\ CP!Apart']_CP!vars BY <1>1, <1>2
<1> QED BY <1>2, <1>3, <1>4, SameAssumptions, CatalogAssumption, CP!NextAtomic

LEMMA StoreKeyed ==
    ASSUME CP!AtomicInv
    PROVE  /\ db \in [Ids -> C!TD \cup {None}] /\ now \in Nat
           /\ \A k \in Ids : db[k] # None => db[k].id = k
           /\ reply \in [Requests -> CP!Optional(CP!Reply)] /\ Ids \subseteq Nat
<1>1. CP!TypeOK /\ CP!KeyMatchesBody BY DEF CP!AtomicInv, CP!TypeInv, CP!KeyedInv
<1>2. C!TD = CP!TD BY DEF C!TD, CP!TD, C!Optional, CP!Optional
<1> QED BY <1>1, <1>2, CatalogAssumption DEF CP!TypeOK, CP!KeyMatchesBody, CP!Optional

LEMMA RegistryPublishes ==
    ASSUME CatalogInv, CP!AtomicInv', NEW r \in Requests, NEW k \in Ids,
           CP!R!Create(r, k) \/ CP!R!Replace(r, k) \/ CP!R!Amend(r, k) \/ CP!R!Remove(r, k)
    PROVE  EventsKnown' /\ \E e : Publishing(e)
<1>1. /\ db \in [Ids -> C!TD \cup {None}]
      /\ \A i \in Ids : db[i] # None => db[i].id = i
      /\ reply \in [Requests -> CP!Optional(CP!Reply)]
  BY StoreKeyed DEF CatalogInv
<1>2. /\ db' \in [Ids -> C!TD \cup {None}]
      /\ \A i \in Ids : db'[i] # None => db'[i].id = i
  <2>1. CP!TypeOK' /\ CP!KeyMatchesBody' BY DEF CP!AtomicInv, CP!TypeInv, CP!KeyedInv
  <2>2. C!TD = CP!TD BY DEF C!TD, CP!TD, C!Optional, CP!Optional
  <2> QED BY <2>1, <2>2 DEF CP!TypeOK, CP!KeyMatchesBody, CP!Optional
<1>3. EventsKnown BY DEF CatalogInv
<1>4. ASSUME NEW type \in Types, NEW old, NEW td, CP!R!Tell(r, type, old, td),
             NEW op \in C!Methods, NEW status \in {201, 204}, CP!R!Answer(r, op, k, status, None),
             type # "create" => old = db[k] /\ db[k] # None,
             type # "delete" => td = db'[k] /\ db'[k] # None,
             type = "delete" => td = None,
             db' = [db EXCEPT ![k] = td]
      PROVE  EventsKnown' /\ \E e : Publishing(e)
  <2> DEFINE e == [req |-> r, type |-> type, old |-> old, td |-> td]
  <2>1. events' = events \cup {e} BY <1>4 DEF CP!R!Tell
  <2>2. /\ reply[r] = None /\ reply'[r] # None
        /\ \A q \in Requests : q # r => reply'[q] = reply[q]
    <3>1. [op |-> op, key |-> k, status |-> status, td |-> None] \in C!Reply
      BY DEF C!Reply, C!Statuses, C!Optional
    <3> QED BY <1>1, <1>4, <3>1, DirectoryAssumption DEF CP!R!Answer
  <2>3. WellFormed(e) /\ KeyOf(e) = k
    BY <1>1, <1>2, <1>4 DEF WellFormed, KeyOf, Types
  <2>4. \A f \in events : f.req # e.req /\ f.req \in Requests
    BY <2>2 DEF CatalogInv, EventsKnown, WellFormed
  <2>5. e.req = r /\ e.type = type /\ e.old = old /\ e.td = td OBVIOUS
  <2> HIDE DEF e
  <2>6. EventsKnown' BY <1>3, <2>1, <2>2, <2>3, <2>4, <2>5 DEF EventsKnown, WellFormed
  <2>7. Publishing(e) BY <1>4, <2>1, <2>3, <2>4, <2>5 DEF Publishing
  <2> QED BY <2>6, <2>7
<1>5. CASE CP!R!Create(r, k)
  <2>1. PICK op \in {"POST", "PUT"} : CP!R!Answer(r, op, k, 201, None)
    BY <1>5 DEF CP!R!Create
  <2>2. /\ CP!R!Tell(r, "create", None, db'[k]) /\ db'[k] # None
        /\ db' = [db EXCEPT ![k] = db'[k]]
    BY <1>5 DEF CP!R!Create
  <2> QED BY <1>4, <2>1, <2>2 DEF Types, C!Methods
<1>6. CASE \E op \in {"PUT", "PATCH"} : CP!R!Overwrite(r, op, k)
  <2>1. PICK op \in {"PUT", "PATCH"} : CP!R!Overwrite(r, op, k) BY <1>6
  <2>2. /\ CP!R!Tell(r, "update", db[k], db'[k]) /\ db[k] # None /\ db'[k] # None
        /\ db' = [db EXCEPT ![k] = db'[k]] /\ CP!R!Answer(r, op, k, 204, None)
    BY <2>1 DEF CP!R!Overwrite
  <2> QED BY <1>4, <2>2 DEF Types, C!Methods
<1>7. CASE CP!R!Remove(r, k)
  <2>1. /\ CP!R!Tell(r, "delete", db[k], None) /\ db[k] # None
        /\ db' = [db EXCEPT ![k] = None] /\ CP!R!Answer(r, "DELETE", k, 204, None)
    BY <1>7 DEF CP!R!Remove
  <2> QED BY <1>4, <2>1, ZenonT(30) DEF Types, C!Methods
<1> QED BY <1>5, <1>6, <1>7 DEF CP!R!Replace, CP!R!Amend

LEMMA CatalogEffect ==
    ASSUME C!PatchesKeepIds, CatalogInv, C!Apart', [C!Next]_C!vars
    PROVE  /\ CatalogInv' /\ now' >= now
           /\ Silently \/ \E e : Publishing(e)
<1>1. CP!AtomicInv' /\ [CP!R!Next]_(CP!R!vars) BY CatalogIsRegistry DEF CatalogInv
<1>2. now \in Nat BY StoreKeyed DEF CatalogInv
<1>3. /\ db \in [Ids -> C!TD \cup {None}] /\ reply \in [Requests -> CP!Optional(CP!Reply)]
  BY StoreKeyed DEF CatalogInv
<1>4. ASSUME events' = events, \A q \in Requests : reply[q] # None => reply'[q] = reply[q]
      PROVE  EventsKnown'
  BY <1>4 DEF CatalogInv, EventsKnown, WellFormed
<1>5. ASSUME NEW r, NEW op, NEW k, NEW status, NEW td, CP!R!Answer(r, op, k, status, td)
      PROVE  \A q \in Requests : reply[q] # None => reply'[q] = reply[q]
  BY <1>3, <1>5 DEF CP!R!Answer
<1>6. CASE UNCHANGED CP!R!vars
  <2>1. UNCHANGED <<now, db, events, reply>> BY <1>6 DEF CP!R!vars
  <2>2. EventsKnown' /\ Silently BY <1>4, <2>1 DEF Silently
  <2> QED BY <1>1, <1>2, <2>1, <2>2 DEF CatalogInv
<1>7. ASSUME NEW r \in Requests, CP!R!Refuse(r) \/ \E k \in Ids : CP!R!Read(r, k)
      PROVE  EventsKnown' /\ Silently
  <2>1. UNCHANGED <<db, events>> BY <1>7 DEF CP!R!Refuse, CP!R!Read
  <2>2. \A q \in Requests : reply[q] # None => reply'[q] = reply[q]
    BY <1>5, <1>7 DEF CP!R!Refuse, CP!R!Read
  <2> QED BY <1>4, <2>1, <2>2 DEF Silently
<1>8. ASSUME NEW k \in Ids, CP!R!Expire(k)
      PROVE  EventsKnown' /\ Silently
  <2>1. /\ db' = [db EXCEPT ![k] = None] /\ UNCHANGED <<events, reply>>
        /\ C!ExpiredAt(db[k], now)
    BY <1>8 DEF CP!R!Expire, C!ExpiredAt
  <2> QED BY <1>3, <1>4, <2>1 DEF Silently
<1>9. CASE CP!R!Tick
  BY <1>1, <1>2, <1>4, <1>9 DEF CP!R!Tick, Silently, CatalogInv
<1>10. ASSUME NEW r \in Requests, NEW k \in Ids,
              CP!R!Create(r, k) \/ CP!R!Replace(r, k) \/ CP!R!Amend(r, k) \/ CP!R!Remove(r, k)
       PROVE  EventsKnown' /\ \E e : Publishing(e)
  BY <1>1, <1>10, RegistryPublishes
<1> QED
  BY <1>1, <1>2, <1>6, <1>7, <1>8, <1>9, <1>10 DEF CP!R!Next, CP!R!Request, CatalogInv

(* The end of the process at most completes a removal by the cleaner.        *)
LEMMA RestartEffect ==
    ASSUME CatalogInv, Restart, \A r \in Requests : pc[r] \notin C!Steps
    PROVE  CatalogInv' /\ now' = now /\ Silently
<1> USE DEF C!Steps, CP!Steps
<1>1. CP!TypeInv /\ CP!CoherentInv /\ CP!KeyedInv /\ CP!ListCurrent
      /\ \A r \in Requests : CP!JobCurrent(r)
  BY DEF CatalogInv, CP!AtomicInv
<1>2. CP!TypeInv' /\ CP!CoherentInv' BY <1>1, RestartTyped, RestartCoherent
<1>3. /\ UNCHANGED <<now, reply, events>> /\ todo' = {} /\ tick' = None
      /\ pc' = [r \in Requests |-> IF pc[r] \in C!Steps THEN "done" ELSE pc[r]]
      /\ \A k \in Ids : db'[k] \in Written(k) \cup {db[k]}
  BY DEF Restart
<1>4. \A r \in Requests : pc'[r] = pc[r] BY <1>3
<1>5. \A k \in Ids : db'[k] = db[k] \/ (db'[k] = None /\ C!ExpiredAt(db[k], now))
  <2> SUFFICES ASSUME NEW k \in Ids, db'[k] # db[k]
               PROVE  db'[k] = None /\ C!ExpiredAt(db[k], now)
    OBVIOUS
  <2>1. PICK e \in todo : e[2] = k /\ db'[k] = None
    BY <1>3 DEF Written
  <2>2. k = e[1] /\ CP!ExpiredAt(db[e[1]], now)
    BY <1>1, <2>1 DEF CP!ListCurrent
  <2> QED BY <2>1, <2>2 DEF CP!ExpiredAt, C!ExpiredAt
<1>6. CP!KeyedInv'
  BY <1>1, <1>4, <1>5 DEF CP!KeyedInv, CP!KeyMatchesBody, CP!JobKeyed
<1>7. \A r \in Requests : CP!JobCurrent(r)' BY <1>1, <1>3, <1>4 DEF CP!JobCurrent
<1>8. CP!ListCurrent' BY <1>3 DEF CP!ListCurrent
<1>9. C!Apart' BY <1>3, <1>4 DEF C!Apart, C!Working
<1>10. EventsKnown' BY <1>3 DEF CatalogInv, EventsKnown, WellFormed
<1> QED
  BY <1>2, <1>3, <1>5, <1>6, <1>7, <1>8, <1>9, <1>10
     DEF CatalogInv, CP!AtomicInv, Silently

---------------------------------------------------------------------------
(* The log                                                                 *)

LEMMA LogFrame ==
    ASSUME LogComplete, UNCHANGED <<log, call, id, victims, heard>>
    PROVE  LogComplete'
BY DEF LogComplete, Superseded, LastHeard, N!EventIds

LEMMA HeardNumbers ==
    ASSUME HeardInOrder, NS!TypeInv
    PROVE  /\ heard # <<>> => LastHeard \in Nat
           /\ \A i \in 1..Len(heard) :
                 heard # <<>> /\ heard[i].id \in Nat /\ heard[i].id <= LastHeard
<1>1. heard \in Seq(N!Event) BY DEF HeardInOrder
<1>2. Len(taken) \in Nat /\ N!EventIds \subseteq Nat BY ForTypes
<1>3. heard # <<>> => LastHeard \in Nat BY <1>2 DEF HeardInOrder
<1>4. \A i \in 1..Len(heard) : heard[i].id \in Nat BY <1>1, <1>2, EntriesOf
<1>5. heard = <<>> => 1..Len(heard) = {} OBVIOUS
<1>6. \A i \in 1..Len(heard) : heard # <<>> /\ heard[i].id <= LastHeard
  BY <1>5 DEF HeardInOrder
<1> QED BY <1>3, <1>4, <1>6

LEMMA UniqueNumbers ==
    ASSUME Numbers, NS!TypeInv, NEW c \in Calls, NEW d \in Calls, id[c] # None, id[d] = id[c]
    PROVE  c = d
<1> USE DEF Numbers
<1>0. Len(taken) \in Nat BY ForTypes
<1>1. ASSUME NEW b \in Calls, id[b] = Len(taken) + 1, id[b] # None
      PROVE  \/ call[b] = "notify"
             \/ notifier # <<>> /\ notifier[1].call = b
  BY <1>0, <1>1 DEF TakenInOrder
<1>2. ASSUME NEW b \in Calls, call[b] = "notify"
      PROVE  /\ notifier = <<>>
             /\ \A a \in Calls : call[a] = "notify" => a = b
  BY <1>2, BeforeTheChannel DEF CallsKnown
<1>3. CASE id[c] \in 1..Len(taken)
  BY <1>0, <1>3 DEF TakenInOrder
<1>4. CASE id[c] = Len(taken) + 1
  BY <1>1, <1>2, <1>4
<1> QED BY <1>3, <1>4 DEF TakenInOrder

(* A call scans the log for what is older than its own event, ...            *)
LEMMA ScanBelow ==
    ASSUME Numbers, NS!TypeInv, NEW c \in Calls, Started(c), c \notin over, N!Scan(c)
    PROVE  \A k \in victims'[c] : k < id[c]
<1>0. /\ latestID \in Nat /\ victims \in [Calls -> SUBSET N!EventIds]
      /\ N!EventIds \subseteq Nat /\ Capacity \in Nat \ {0}
  BY ForTypes, DirectoryAssumption
<1>1. /\ call[c] = "scan"
      /\ victims'[c] = {k \in N!EventIds : /\ N!Stored(k) /\ latestID > Capacity
                                           /\ k < latestID - Capacity + 1}
  BY <1>0 DEF N!Scan, N!At
<1>2. id[c] = latestID BY <1>1 DEF Numbers, CallsKnown, OneAtATime, Pending
<1>3. \A k \in victims'[c] : k \in Nat /\ k < latestID - Capacity + 1 BY <1>0, <1>1
<1> QED BY <1>0, <1>2, <1>3

(* ... and what it removes the follower has heard.                           *)
LEMMA WriteKeeps ==
    ASSUME Numbers, LogComplete, HeardInOrder, NS!TypeInv, NEW c \in Calls,
           Started(c), c \notin over, N!Write(c), UNCHANGED heard,
           ~Unstored(c), \A k \in N!EventIds : ~Forgotten(k)
    PROVE  LogComplete'
<1>0. /\ call \in [Calls -> {"idle", "done", "lost"} \cup N!InFlight]
      /\ id \in [Calls -> N!EventIds \cup {None}] /\ log \in [N!EventIds -> Calls \cup {None}]
      /\ N!EventIds \subseteq Nat /\ None \notin Nat /\ None \notin Calls
  BY ForTypes
<1>1. /\ call[c] = "write" /\ call' = [call EXCEPT ![c] = "done"] /\ UNCHANGED <<id, victims>>
      /\ log' = [k \in N!EventIds |-> IF k \in victims[c] THEN None
                                      ELSE IF k = id[c] THEN c ELSE log[k]]
  BY DEF N!Write, N!At
<1>2. id[c] \in N!EventIds /\ log'[id[c]] = c
  BY <1>0, <1>1 DEF Numbers, CallsKnown, Unstored
<1>3. \A k \in N!EventIds : log'[k] # None => id'[log'[k]] = k
  BY <1>0, <1>1 DEF LogComplete
<1>4. N!EventIds' = N!EventIds BY DEF N!EventIds
<1>5. ASSUME NEW d \in Calls, call'[d] = "done" PROVE log'[id'[d]] = d \/ Superseded(d)'
  <2>1. CASE d = c BY <1>1, <1>2, <2>1
  <2>2. CASE d # c
    <3>1. call[d] = "done" /\ id[d] \in N!EventIds /\ id[d] # id[c] /\ id[d] # None
      BY <1>0, <1>1, <1>2, <1>5, <2>2, UniqueNumbers DEF Numbers, CallsKnown
    <3>2. CASE Superseded(d)
      <4>1. PICK b \in Calls : call[b] = "done" /\ id[b] > id[d] BY <3>2 DEF Superseded
      <4>2. call'[b] = "done" BY <1>0, <1>1, <4>1
      <4> QED BY <1>1, <3>2, <4>1, <4>2 DEF Superseded, LastHeard
    <3>3. CASE log[id[d]] = d
      <4>1. CASE id[d] \notin victims[c] BY <1>0, <1>1, <3>1, <3>3, <4>1
      <4>2. CASE id[d] \in victims[c]
        <5>1. log'[id[d]] = None /\ log[id[d]] # None BY <1>0, <1>1, <3>1, <3>3, <4>2
        <5>2. PICK i \in 1..Len(heard) : ~(heard[i].id < id[d])
          BY <3>1, <5>1 DEF Forgotten
        <5>3. heard # <<>> /\ heard[i].id \in Nat /\ heard[i].id <= LastHeard
              /\ LastHeard \in Nat
          BY <5>2, HeardNumbers
        <5>4. id[d] \in Nat BY <1>0, <3>1
        <5>5. id[d] <= LastHeard BY <5>2, <5>3, <5>4
        <5>6. id[d] < id[c] /\ id[c] \in Nat BY <1>0, <1>1, <1>2, <4>2 DEF LogComplete
        <5>7. call'[c] = "done" /\ id'[c] > id'[d] BY <1>0, <1>1, <5>4, <5>6
        <5> QED BY <1>1, <5>3, <5>5, <5>7 DEF Superseded, LastHeard
      <4> QED BY <4>1, <4>2
    <3> QED BY <3>1, <3>2, <3>3 DEF LogComplete
  <2> QED BY <2>1, <2>2
<1>6. \A d \in Calls : call'[d] = "write" => \A k \in victims'[d] : k < id'[d]
  BY <1>0, <1>1 DEF LogComplete
<1> QED BY <1>3, <1>4, <1>5, <1>6 DEF LogComplete

LEMMA LogCall ==
    ASSUME Numbers, LogComplete, HeardInOrder, NS!TypeInv, NEW c \in Calls,
           Started(c), c \notin over, N!StoreAndNotify(c), UNCHANGED heard,
           ~Unstored(c), \A k \in N!EventIds : ~Forgotten(k)
    PROVE  LogComplete'
<1>0. /\ call \in [Calls -> {"idle", "done", "lost"} \cup N!InFlight]
      /\ id \in [Calls -> N!EventIds \cup {None}] /\ log \in [N!EventIds -> Calls \cup {None}]
      /\ victims \in [Calls -> SUBSET N!EventIds]
      /\ N!EventIds \subseteq Nat /\ None \notin Nat /\ None \notin Calls
  BY ForTypes
<1>1. \A d : Superseded(d)' <=> (/\ heard # <<>> /\ id'[d] <= LastHeard
                                 /\ \E b \in Calls : call'[b] = "done" /\ id'[b] > id'[d])
  BY DEF Superseded, LastHeard
<1>2. N!EventIds' = N!EventIds BY DEF N!EventIds
<1>3. CASE N!Load(c) \/ N!Increment(c) \/ N!Notify(c)
  <2>1. UNCHANGED <<log, id, victims>>
    BY <1>3 DEF N!Load, N!Increment, N!Notify, N!queueVars
  <2>2. PICK from, to : /\ N!At(c, from, to) /\ from \notin {"write", "done"}
                        /\ to \notin {"write", "done"}
    BY <1>3 DEF N!Load, N!Increment, N!Notify
  <2>3. \A d \in Calls : (call'[d] = "done" <=> call[d] = "done")
                          /\ (call'[d] = "write" <=> call[d] = "write")
    BY <1>0, <2>2 DEF N!At
  <2> QED BY <1>1, <1>2, <2>1, <2>3 DEF LogComplete, Superseded
<1>4. CASE N!Format(c)
  <2>1. /\ UNCHANGED <<log, victims>> /\ N!At(c, "format", "notify")
        /\ \A d \in Calls : d # c => id'[d] = id[d]
    BY <1>0, <1>4 DEF N!Format, N!queueVars
  <2>2. id[c] = None BY <2>1 DEF N!At, Numbers, CallsKnown
  <2>3. \A d \in Calls : (call'[d] = "done" <=> call[d] = "done")
                          /\ (call'[d] = "write" <=> call[d] = "write")
                          /\ (call[d] \in {"done", "write"} => id'[d] = id[d])
    BY <1>0, <2>1 DEF N!At
  <2>4. \A k \in N!EventIds : log'[k] # None => id'[log'[k]] = k
    BY <1>0, <2>1, <2>2 DEF LogComplete
  <2>5. \A d \in Calls : Superseded(d) /\ call[d] = "done" => Superseded(d)'
    BY <1>1, <2>3 DEF Superseded
  <2> QED BY <1>2, <2>1, <2>3, <2>4, <2>5 DEF LogComplete
<1>5. CASE N!Scan(c)
  <2>1. /\ UNCHANGED <<log, id>> /\ N!At(c, "scan", "write")
        /\ \A d \in Calls : d # c => victims'[d] = victims[d]
    BY <1>0, <1>5 DEF N!Scan, N!queueVars
  <2>2. \A d \in Calls : (call'[d] = "done" <=> call[d] = "done")
                          /\ (d # c => (call'[d] = "write" <=> call[d] = "write"))
    BY <1>0, <2>1 DEF N!At
  <2>3. \A k \in victims'[c] : k < id[c] BY <1>5, ScanBelow
  <2>4. \A d \in Calls : Superseded(d) => Superseded(d)'
    BY <1>1, <2>1, <2>2 DEF Superseded
  <2> QED BY <1>2, <2>1, <2>2, <2>3, <2>4 DEF LogComplete
<1>6. CASE N!Write(c) BY <1>6, WriteKeeps
<1>7. CASE N!StoreError(c)
  <2>1. UNCHANGED <<log, id, victims>> BY <1>7 DEF N!StoreError, N!queueVars
  <2>2. PICK from \in {"scan", "write"} : N!At(c, from, "done") BY <1>7 DEF N!StoreError
  <2>3. /\ call[c] \in {"scan", "write"} /\ call'[c] = "done"
        /\ \A d \in Calls : d # c => call'[d] = call[d]
    BY <1>0, <2>2 DEF N!At
  <2>4. log'[id'[c]] = c BY <2>1, <2>3 DEF Unstored
  <2>5. \A d \in Calls : Superseded(d) => Superseded(d)'
    BY <1>1, <2>1, <2>3 DEF Superseded
  <2> QED BY <1>2, <2>1, <2>3, <2>4, <2>5 DEF LogComplete
<1> QED BY <1>3, <1>4, <1>5, <1>6, <1>7 DEF N!StoreAndNotify

LEMMA LogRestart ==
    ASSUME Numbers, LogComplete, NS!TypeInv, ~UnderWay, N!Crash, UNCHANGED heard
    PROVE  LogComplete'
<1>1. /\ UNCHANGED <<log, id, victims>>
      /\ call' = [c \in Calls |-> IF call[c] \in N!InFlight THEN "lost" ELSE call[c]]
  BY DEF N!Crash
<1>2. \A c \in Calls : call[c] \in {"idle", "done"} BY NothingUnderWay
<1>3. \A c \in Calls : call'[c] = call[c] BY <1>1, <1>2 DEF N!InFlight
<1> QED BY <1>1, <1>3 DEF LogComplete, Superseded, LastHeard, N!EventIds

(* Hearing the next event takes no other from the log.                       *)
LEMMA LogHeard ==
    ASSUME LogComplete, HeardInOrder, NS!TypeInv, Numbers,
           heard' # <<>>, LastHeard' \in Nat, heard # <<>> => LastHeard <= LastHeard',
           UNCHANGED <<log, id, call, victims>>
    PROVE  LogComplete'
<1>1. heard # <<>> => LastHeard \in Nat BY HeardNumbers
<1>2. ASSUME NEW c \in Calls, Superseded(c), call[c] = "done" PROVE Superseded(c)'
  <2>1. id[c] \in Nat BY <1>2, ForTypes DEF Numbers, CallsKnown
  <2>2. id[c] <= LastHeard' BY <1>1, <1>2, <2>1 DEF Superseded
  <2> QED BY <1>2, <2>2 DEF Superseded
<1> QED BY <1>2 DEF LogComplete, N!EventIds

(* The next process counts on from the newest event.                         *)
LEMMA LastKeyIs ==
    ASSUME Numbers, LogComplete, NS!TypeInv, ~UnderWay
    PROVE  N!LastKey = Len(taken)
<1>0. /\ taken \in Seq(N!Event) /\ Len(taken) \in Nat /\ N!EventIds \subseteq Nat
      /\ log \in [N!EventIds -> Calls \cup {None}]
      /\ id \in [Calls -> N!EventIds \cup {None}] /\ None \notin Nat /\ None \notin Calls
  BY ForTypes
<1>1. /\ N!LastKey \in {0} \cup {i \in N!EventIds : N!Stored(i)}
      /\ \A i \in N!EventIds : N!Stored(i) => i <= N!LastKey
  <2>1. NS!QueueTypes BY DEF NS!TypeInv, NS!QueueInv
  <2> QED BY <2>1, SameLastKey, SameVars, SameState, SameSizes, NotificationConstants,
             NS!LastKeyIsLargest
<1>2. ASSUME NEW i \in N!EventIds, N!Stored(i) PROVE i \in 1..Len(taken)
  <2>1. log[i] \in Calls /\ id[log[i]] = i /\ i # None
    BY <1>0, <1>2 DEF N!Stored, LogComplete
  <2> QED BY <2>1, NothingUnderWay
<1>3. CASE Len(taken) = 0
  BY <1>0, <1>1, <1>2, <1>3
<1>4. CASE Len(taken) > 0
  <2> DEFINE n == Len(taken)
             c == taken[n].call
  <2>1. n \in 1..Len(taken) BY <1>0, <1>4
  <2>2. c \in Calls /\ id[c] = n BY <1>0, <2>1, EntriesOf DEF Numbers, TakenInOrder
  <2> HIDE DEF c
  <2>3. id[c] # None /\ n \in N!EventIds BY <1>0, <2>2
  <2>4. call[c] = "done" BY <2>2, <2>3, NothingUnderWay DEF Numbers, CallsKnown
  <2>5. ~Superseded(c)
    <3> SUFFICES ASSUME NEW d \in Calls, call[d] = "done", id[d] > id[c] PROVE FALSE
      BY DEF Superseded
    <3>1. id[d] # None BY DEF Numbers, CallsKnown
    <3>2. id[d] \in 1..Len(taken) BY <3>1, NothingUnderWay
    <3> QED BY <1>0, <2>2, <3>2
  <2>6. log[n] = c BY <2>2, <2>4, <2>5 DEF LogComplete
  <2>7. N!Stored(n) BY <1>0, <2>2, <2>6 DEF N!Stored
  <2>8. n <= N!LastKey BY <1>1, <2>3, <2>7
  <2>9. N!LastKey \in 1..n
    BY <1>0, <1>1, <1>2, <1>4, <2>8
  <2> QED BY <1>0, <2>8, <2>9
<1> QED BY <1>0, <1>3, <1>4

---------------------------------------------------------------------------
(* Connections                                                             *)

LEMMA IntervalExtracted ==
    ASSUME NEW seq, NEW a \in Nat, NEW b \in Nat, a <= b
    PROVE  /\ Len(N!Extract(seq, (a + 1)..b)) = b - a
           /\ \A j \in 1..(b - a) : N!Extract(seq, (a + 1)..b)[j] = seq[a + j]
<1>1. \A S : N!Cardinality(S) = OP!Cardinality(S)
  BY Zenon DEF N!Cardinality, OP!Cardinality
<1>2. \A S : N!Sorted(S) = OP!Sorted(S)
  BY Zenon DEF N!Sorted, OP!Sorted, N!Rank, OP!Rank, N!Cardinality, OP!Cardinality
<1>3. N!Extract(seq, (a + 1)..b) = OP!Extract(seq, (a + 1)..b)
  BY <1>1, <1>2, Zenon DEF N!Extract, OP!Extract
<1> QED BY <1>3, OP!ExtractInterval, ZenonT(30)

(* What a connection that is accepted while nothing is under way has still   *)
(* to send: what came behind the last event that the follower has heard.     *)
LEMMA MissedIs ==
    ASSUME Numbers, LogComplete, HeardInOrder, NS!TypeInv, ~UnderWay, heard # <<>>,
           NEW s \in Conns
    PROVE  /\ Len(N!Missed(s, LastHeard)) = Len(taken) - LastHeard
           /\ \A j \in 1..(Len(taken) - LastHeard) :
                 N!Missed(s, LastHeard)[j] = taken[LastHeard + j]
<1> DEFINE n == LastHeard
           all == [k \in N!EventIds |-> [id |-> k, call |-> log[k]]]
           places == {k \in N!EventIds : k > n /\ N!Stored(k) /\ N!Wanted(s, all[k])}
<1>0. /\ taken \in Seq(N!Event) /\ Len(taken) \in Nat /\ N!EventIds \subseteq Nat
      /\ log \in [N!EventIds -> Calls \cup {None}]
      /\ id \in [Calls -> N!EventIds \cup {None}] /\ None \notin Nat /\ None \notin Calls
      /\ n \in Nat /\ n <= Len(taken) /\ N!Event = [id : N!EventIds, call : Calls]
  <2>1. Len(taken) \in Nat /\ LastHeard \in 1..Len(taken) BY ForTypes DEF HeardInOrder
  <2>2. n \in Nat /\ n <= Len(taken) BY <2>1
  <2> QED BY <2>2, ForTypes
<1> HIDE DEF n
<1>1. ASSUME NEW k \in 1..Len(taken), k > n
      PROVE  /\ k \in N!EventIds /\ N!Stored(k) /\ taken[k] = [id |-> k, call |-> log[k]]
             /\ log[k] \in Calls
  <2> DEFINE c == taken[k].call
  <2>1. c \in Calls /\ id[c] = k /\ taken[k] = [id |-> k, call |-> c]
    <3>1. taken[k] \in [id : N!EventIds, call : Calls] BY <1>0, EntriesOf
    <3>2. taken[k].id = k /\ id[taken[k].call] = k BY DEF Numbers, TakenInOrder
    <3> QED BY <3>1, <3>2
  <2> HIDE DEF c
  <2>2. id[c] # None /\ k \in N!EventIds BY <1>0, <2>1
  <2>3. call[c] = "done" BY <2>1, <2>2, NothingUnderWay DEF Numbers, CallsKnown
  <2>4. ~Superseded(c) BY <1>0, <1>1, <2>1 DEF Superseded, n
  <2>5. log[k] = c BY <2>1, <2>3, <2>4 DEF LogComplete
  <2> QED BY <1>0, <2>1, <2>2, <2>5 DEF N!Stored
<1>2. ASSUME NEW k \in N!EventIds, N!Stored(k) PROVE k \in 1..Len(taken)
  <2>1. log[k] \in Calls /\ id[log[k]] = k /\ k # None
    BY <1>0, <1>2 DEF N!Stored, LogComplete
  <2> QED BY <2>1, NothingUnderWay
<1>3. \A k \in N!EventIds : log[k] \in Calls => N!Wanted(s, all[k])
  BY DEF N!Wanted, TypeOf, Wants, Calls
<1>4. places = (n + 1)..Len(taken)
  <2>1. \A k \in places : k \in (n + 1)..Len(taken) BY <1>0, <1>2
  <2>2. ASSUME NEW k \in (n + 1)..Len(taken) PROVE k \in places
    <3>1. k \in 1..Len(taken) /\ k > n BY <1>0
    <3>2. k \in N!EventIds /\ N!Stored(k) /\ log[k] \in Calls BY <1>1, <3>1
    <3> QED BY <1>3, <3>1, <3>2
  <2> HIDE DEF places
  <2> QED BY <2>1, <2>2
<1>5. ASSUME NEW k \in (n + 1)..Len(taken) PROVE all[k] = taken[k]
  <2>1. k \in 1..Len(taken) /\ k > n BY <1>0
  <2> QED BY <1>1, <2>1
<1>6. N!Missed(s, n) = N!Extract(all, places) BY DEF N!Missed
<1> HIDE DEF all, places
<1>7. /\ Len(N!Extract(all, places)) = Len(taken) - n
      /\ \A j \in 1..(Len(taken) - n) : N!Extract(all, places)[j] = all[n + j]
  <2>1. n \in Nat /\ Len(taken) \in Nat /\ n <= Len(taken) BY <1>0
  <2> QED BY <1>4, <2>1, IntervalExtracted
<1>8. \A j \in 1..(Len(taken) - n) : all[n + j] = taken[n + j]
  BY <1>0, <1>5
<1> QED BY <1>6, <1>7, <1>8 DEF n

LEMMA ConnectionFrame ==
    ASSUME HeardInOrder, ConnectionInv,
           UNCHANGED <<heard, taken, conn, last, sending, busy, got>>
    PROVE  HeardInOrder' /\ ConnectionInv' /\ \A s \in Conns : Place(s)' = Place(s)
<1>1. LastHeard' = LastHeard BY DEF LastHeard
<1>2. N!Event' = N!Event BY DEF N!Event, N!EventIds
<1>3. HeardInOrder' BY <1>1, <1>2 DEF HeardInOrder
<1>4. \A s \in Conns : (Delivers(s)' <=> Delivers(s)) /\ Place(s)' = Place(s)
  BY <1>1 DEF Delivers, Place
<1>5. ConnectionInv' BY <1>1, <1>4 DEF ConnectionInv
<1> QED BY <1>3, <1>4, <1>5

LEMMA OneConnection ==
    ASSUME ConnectionInv, NEW s \in Conns, NEW t \in Conns,
           conn[s] \in {"subscribing", "on"}, conn[t] \in {"subscribing", "on"}
    PROVE  s = t
<1>1. s \in Nat /\ t \in Nat BY DirectoryAssumption DEF Conns
<1>2. ~(t < s) /\ ~(s < t) BY DEF ConnectionInv
<1> QED BY <1>1, <1>2

LEMMA PlaceIsNumber ==
    ASSUME NS!TypeInv, NEW s \in Conns, Delivers(s)
    PROVE  /\ Place(s) \in Nat /\ Place(s) <= Len(taken)
           /\ busy[s] => Place(s) + 1 \in 1..Len(taken)
<1>1. Len(taken) \in Nat /\ sending[s] \in Seq(N!Event) /\ busy[s] \in BOOLEAN
  BY ForTypes
<1>2. Len(sending[s]) \in Nat BY <1>1, EntriesOf
<1>3. Place(s) >= 0 BY DEF Delivers
<1>4. CASE busy[s]
  <2> DEFINE n == Len(taken)
             m == Len(sending[s])
             p == Place(s)
  <2>1. p = n - m - 1 BY <1>4 DEF Place
  <2>2. n \in Nat /\ m \in Nat /\ p >= 0 BY <1>1, <1>2, <1>3
  <2> HIDE DEF n, m, p
  <2>3. p \in Nat /\ p <= n /\ p + 1 \in 1..n BY <2>1, <2>2
  <2> QED BY <2>3 DEF p, n
<1>5. CASE ~busy[s]
  <2>1. Place(s) = Len(taken) - Len(sending[s]) - 0 BY <1>5 DEF Place
  <2> QED BY <1>1, <1>2, <1>3, <1>5, <2>1
<1> QED BY <1>1, <1>4, <1>5

LEMMA ConnectionBroadcast ==
    ASSUME Numbers, HeardInOrder, ConnectionInv, NS!TypeInv, N!Broadcast, UNCHANGED heard
    PROVE  /\ HeardInOrder' /\ ConnectionInv'
           /\ \A s \in Conns : conn[s] = "on" => Place(s)' = Place(s)
<1>0. /\ taken \in Seq(N!Event) /\ Len(taken) \in Nat
      /\ notifier \in Seq(N!Event) /\ busy \in [Conns -> BOOLEAN]
  BY ForTypes
<1> DEFINE e == notifier[1]
<1>1. /\ notifier # <<>> /\ taken' = Append(taken, e) /\ UNCHANGED <<conn, last, busy, got>>
      /\ sending' = [s \in Conns |-> IF N!Active(s) /\ N!Wanted(s, e) THEN <<e>> ELSE <<>>]
      /\ \A s \in Conns : sending[s] = <<>>
  BY <1>0 DEF N!Broadcast, N!AtSelect, N!connVars
<1>2. e \in N!Event /\ e.call \in Calls
  <2>1. 1 \in 1..Len(notifier) BY <1>0, <1>1, EntriesOf
  <2> QED BY <1>0, <2>1, EntriesOf
<1>3. /\ Len(taken') = Len(taken) + 1 /\ taken'[Len(taken) + 1] = e
      /\ \A i \in 1..Len(taken) : taken'[i] = taken[i]
  BY <1>0, <1>1, <1>2
<1>4. \A s \in Conns : N!Wanted(s, e) BY <1>2 DEF N!Wanted, TypeOf, Wants, Calls
<1> HIDE DEF e
<1>5. LastHeard' = LastHeard BY DEF LastHeard
<1>6. ASSUME NEW s \in Conns, conn[s] = "on"
      PROVE  Delivers(s)' /\ Place(s)' = Place(s)
  <2>1. sending'[s] = <<e>> /\ Len(sending'[s]) = 1 /\ sending'[s][1] = e
    BY <1>1, <1>4, <1>6 DEF N!Active
  <2>2. Len(sending[s]) = 0 /\ Delivers(s) BY <1>1, <1>6 DEF ConnectionInv
  <2>3. Place(s) = Len(taken) - (IF busy[s] THEN 1 ELSE 0) BY <1>0, <2>2 DEF Place
  <2>4. Place(s)' = Place(s)
    <3> DEFINE b == IF busy[s] THEN 1 ELSE 0
    <3>1. Place(s)' = Len(taken') - Len(sending'[s]) - b BY <1>1 DEF Place
    <3>2. Place(s) = Len(taken) - b /\ b \in Nat BY <2>3
    <3> HIDE DEF b
    <3> QED BY <1>0, <1>3, <2>1, <3>1, <3>2
  <2>5. busy[s] => Place(s) + 1 \in 1..Len(taken) BY <2>2, PlaceIsNumber
  <2>6. busy[s] => taken'[Place(s) + 1] = taken[Place(s) + 1] BY <1>3, <2>5
  <2>7. \A j \in 1..Len(sending'[s]) :
           sending'[s][j] = taken'[Len(taken') - Len(sending'[s]) + j]
    BY <1>0, <1>3, <2>1
  <2> QED BY <1>1, <1>5, <2>2, <2>4, <2>6, <2>7 DEF Delivers
<1>7. N!Event' = N!Event BY DEF N!Event, N!EventIds
<1>8. HeardInOrder' BY <1>0, <1>3, <1>5, <1>7 DEF HeardInOrder
<1>9. ConnectionInv' BY <1>1, <1>5, <1>6 DEF ConnectionInv
<1> QED BY <1>6, <1>8, <1>9

LEMMA ConnectionSend ==
    ASSUME HeardInOrder, ConnectionInv, NS!TypeInv, NS!Served, NEW s \in Conns, N!Send(s),
           UNCHANGED heard
    PROVE  /\ HeardInOrder' /\ ConnectionInv'
           /\ \A t \in Conns : conn[t] = "on" => Place(t)' = Place(t)
<1>0. /\ Len(taken) \in Nat /\ busy \in [Conns -> BOOLEAN]
      /\ got \in [Conns -> Seq(N!Event)] /\ sending \in [Conns -> Seq(N!Event)]
  BY ForTypes
<1>1. /\ sending[s] # <<>> /\ ~busy[s] /\ UNCHANGED <<taken, conn, last>>
      /\ got' = [got EXCEPT ![s] = Append(@, Head(sending[s]))]
      /\ busy' = [busy EXCEPT ![s] = TRUE] /\ sending' = [sending EXCEPT ![s] = Tail(@)]
  BY DEF N!Send
<1>2. LastHeard' = LastHeard /\ N!Event' = N!Event BY DEF LastHeard, N!Event, N!EventIds
<1>3. HeardInOrder' BY <1>1, <1>2 DEF HeardInOrder
<1>4. ASSUME NEW t \in Conns, t # s
      PROVE  (Delivers(t)' <=> Delivers(t)) /\ Place(t)' = Place(t)
  <2>1. sending'[t] = sending[t] /\ busy'[t] = busy[t] /\ got'[t] = got[t]
    BY <1>0, <1>1, <1>4
  <2> QED BY <1>1, <1>2, <2>1 DEF Delivers, Place
<1>5. ASSUME conn[s] = "on" PROVE Delivers(s)' /\ Place(s)' = Place(s)
  <2> DEFINE q == sending[s]
             g == got[s]
  <2>1. Delivers(s) BY <1>5 DEF ConnectionInv
  <2>2. /\ q \in Seq(N!Event) /\ g \in Seq(N!Event) /\ q # <<>>
        /\ sending'[s] = Tail(q) /\ busy'[s] = TRUE /\ got'[s] = Append(g, q[1])
    BY <1>0, <1>1
  <2>3. /\ Len(q) \in Nat /\ Len(q) >= 1 /\ Len(Tail(q)) = Len(q) - 1
        /\ \A j \in 1..Len(Tail(q)) : Tail(q)[j] = q[j + 1]
        /\ q[1] \in N!Event
    BY <2>2, EntriesOf, HeadTailProperties
  <2>4. Len(got'[s]) = Len(g) + 1 /\ got'[s][Len(got'[s])] = q[1] /\ got'[s] # <<>>
    BY <2>2, <2>3, AppendProperties
  <2>5. \A j \in 1..Len(q) : q[j] = taken[Len(taken) - Len(q) + j]
    BY <2>1 DEF Delivers
  <2> HIDE DEF q, g
  <2>6. Place(s) = Len(taken) - Len(q) BY <1>0, <1>1, <2>3 DEF Place, q
  <2>7. Place(s)' = Place(s) BY <1>0, <1>1, <2>2, <2>3, <2>6 DEF Place
  <2>8. \A j \in 1..Len(Tail(q)) : Tail(q)[j] = taken[Len(taken) - Len(Tail(q)) + j]
    <3> SUFFICES ASSUME NEW j \in 1..Len(Tail(q))
                 PROVE  Tail(q)[j] = taken[Len(taken) - Len(Tail(q)) + j]
      OBVIOUS
    <3>1. j + 1 \in 1..Len(q) /\ Len(taken) - Len(q) + (j + 1) = Len(taken) - Len(Tail(q)) + j
      <4> DEFINE n == Len(q)
                 m == Len(Tail(q))
                 l == Len(taken)
      <4>1. n \in Nat /\ m = n - 1 /\ l \in Nat /\ j \in 1..m BY <1>0, <2>3
      <4> HIDE DEF n, m, l
      <4>2. j + 1 \in 1..n /\ l - n + (j + 1) = l - m + j BY <4>1
      <4> QED BY <4>2 DEF n, m, l
    <3>2. q[j + 1] = taken[Len(taken) - Len(q) + (j + 1)] BY <2>5, <3>1
    <3> QED BY <2>3, <3>1, <3>2
  <2>9. q[1] = taken[Place(s) + 1] BY <1>0, <2>3, <2>5, <2>6
  <2> QED BY <1>1, <1>2, <2>1, <2>2, <2>4, <2>7, <2>8, <2>9 DEF Delivers
<1>6. \A t \in Conns : conn[t] = "on" => Delivers(t)' /\ Place(t)' = Place(t)
  BY <1>4, <1>5 DEF ConnectionInv
<1>7. \A t \in Conns : conn'[t] \in {"new", "subscribing"} => ~busy'[t]
  <2>1. conn[s] \notin {"new", "subscribing"} BY <1>1 DEF NS!Served, NS!Active
  <2> QED BY <1>0, <1>1, <2>1 DEF ConnectionInv
<1>8. ConnectionInv' BY <1>1, <1>2, <1>6, <1>7 DEF ConnectionInv
<1> QED BY <1>3, <1>6, <1>8

(* A connection that ends has nothing to deliver any more.                   *)
LEMMA ConnectionEnds ==
    ASSUME HeardInOrder, ConnectionInv, NS!TypeInv, NEW s \in Conns,
           N!Unsubscribe(s) \/ N!Disconnect(s), UNCHANGED heard
    PROVE  /\ HeardInOrder' /\ ConnectionInv'
           /\ \A t \in Conns : conn'[t] = "on" => conn[t] = "on" /\ Place(t)' = Place(t)
<1>0. conn \in [Conns -> {"new", "subscribing", "on", "leaving", "closed"}] BY ForTypes
<1>1. PICK to \in {"leaving", "closed"} : conn' = [conn EXCEPT ![s] = to]
  BY DEF N!Unsubscribe, N!Disconnect
<1>2. /\ conn[s] \in {"on", "leaving"}
      /\ UNCHANGED <<taken, last, sending, busy, got>>
  BY DEF N!Unsubscribe, N!Disconnect, N!handlerVars
<1>3. LastHeard' = LastHeard /\ N!Event' = N!Event BY DEF LastHeard, N!Event, N!EventIds
<1>4. HeardInOrder' BY <1>2, <1>3 DEF HeardInOrder
<1>5. \A t \in Conns : (Delivers(t)' <=> Delivers(t)) /\ Place(t)' = Place(t)
  BY <1>2, <1>3 DEF Delivers, Place
<1>6. \A t \in Conns : \/ conn'[t] = conn[t]
                       \/ conn[t] \in {"on", "leaving"} /\ conn'[t] \in {"leaving", "closed"}
  BY <1>0, <1>1, <1>2
<1>7. ConnectionInv' BY <1>2, <1>3, <1>5, <1>6 DEF ConnectionInv
<1> QED BY <1>4, <1>5, <1>6, <1>7

LEMMA ConnectionRestart ==
    ASSUME HeardInOrder, ConnectionInv, N!Crash, UNCHANGED heard
    PROVE  HeardInOrder' /\ ConnectionInv' /\ \A s \in Conns : conn'[s] # "on"
<1>1. /\ conn' = [s \in Conns |-> IF conn[s] = "new" THEN "new" ELSE "closed"]
      /\ busy' = [s \in Conns |-> FALSE] /\ UNCHANGED taken
  BY DEF N!Crash
<1>2. LastHeard' = LastHeard /\ N!Event' = N!Event BY DEF LastHeard, N!Event, N!EventIds
<1>3. HeardInOrder' BY <1>1, <1>2 DEF HeardInOrder
<1>4. \A s \in Conns : /\ conn'[s] \in {"new", "closed"} /\ ~busy'[s]
                       /\ (conn'[s] = "new" <=> conn[s] = "new")
  BY <1>1
<1>5. \A s, t \in Conns : conn'[s] # "new" /\ t < s => conn'[t] \in {"leaving", "closed"}
  BY <1>4 DEF ConnectionInv
<1>6. ConnectionInv' BY <1>4, <1>5 DEF ConnectionInv
<1> QED BY <1>3, <1>4, <1>6

LEMMA ConnectionConnect ==
    ASSUME HeardInOrder, ConnectionInv, NS!TypeInv, NEW s \in Conns, N!Connect(s),
           \A t \in 1..(s - 1) : conn[t] \in {"leaving", "closed"},
           last'[s] = LastHeard, UNCHANGED heard
    PROVE  /\ HeardInOrder' /\ ConnectionInv'
           /\ \A t \in Conns : conn'[t] = "on" => conn[t] = "on" /\ Place(t)' = Place(t)
<1>0. conn \in [Conns -> {"new", "subscribing", "on", "leaving", "closed"}] BY ForTypes
<1>1. /\ conn[s] = "new" /\ conn' = [conn EXCEPT ![s] = "subscribing"]
      /\ \E n : last' = [last EXCEPT ![s] = n]
      /\ UNCHANGED <<taken, sending, busy, got>>
  BY DEF N!Connect, N!handlerVars
<1>2. LastHeard' = LastHeard /\ N!Event' = N!Event BY DEF LastHeard, N!Event, N!EventIds
<1>3. HeardInOrder' BY <1>1, <1>2 DEF HeardInOrder
<1>4. \A t \in Conns : (Delivers(t)' <=> Delivers(t)) /\ Place(t)' = Place(t)
  BY <1>1, <1>2 DEF Delivers, Place
<1>5. conn'[s] = "subscribing" /\ \A t \in Conns : t # s => conn'[t] = conn[t]
  BY <1>0, <1>1
<1>6. \A t \in Conns : t < s => t \in 1..(s - 1)
  BY DirectoryAssumption DEF Conns
<1>7. \A t, u \in Conns : conn'[t] # "new" /\ u < t => conn'[u] \in {"leaving", "closed"}
  <2> SUFFICES ASSUME NEW t \in Conns, NEW u \in Conns, conn'[t] # "new", u < t
               PROVE  conn'[u] \in {"leaving", "closed"}
    OBVIOUS
  <2>1. u # s
    <3>1. t = s \/ conn[t] # "new" BY <1>5
    <3>2. t \in Nat /\ u \in Nat BY DirectoryAssumption DEF Conns
    <3> QED BY <1>1, <3>1, <3>2 DEF ConnectionInv
  <2>2. conn[u] \in {"leaving", "closed"} BY <1>5, <1>6 DEF ConnectionInv
  <2> QED BY <1>5, <2>1, <2>2
<1>8. \A t \in Conns : t # s => last'[t] = last[t] BY <1>1, ForTypes
<1>9. ConnectionInv' BY <1>1, <1>2, <1>4, <1>5, <1>7, <1>8 DEF ConnectionInv
<1> QED BY <1>3, <1>4, <1>5, <1>9

(* A connection that is accepted has to deliver what its client has missed.  *)
LEMMA ConnectionSubscribe ==
    ASSUME Numbers, LogComplete, HeardInOrder, ConnectionInv, NS!TypeInv, ~UnderWay,
           NEW s \in Conns, N!Subscribe(s),
           last[s] # None => replay'[s] = N!Missed(s, last[s]), UNCHANGED heard
    PROVE  /\ HeardInOrder' /\ ConnectionInv' /\ last[s] = LastHeard
           /\ Place(s)' = IF heard = <<>> THEN Len(taken) ELSE LastHeard
           /\ \A t \in Conns : conn'[t] = "on" => t = s
<1>0. /\ Len(taken) \in Nat /\ sending \in [Conns -> Seq(N!Event)]
      /\ conn \in [Conns -> {"new", "subscribing", "on", "leaving", "closed"}]
      /\ replay \in [Conns -> Seq(N!Event)] /\ None \notin Nat
  BY ForTypes
<1>1. PICK missed \in (IF last[s] = None THEN {<<>>} ELSE {N!Missed(s, last[s]), <<>>}) :
        /\ sending' = [sending EXCEPT ![s] = missed]
        /\ replay' = [replay EXCEPT ![s] = missed]
  BY DEF N!Subscribe
<1>2. /\ conn[s] = "subscribing" /\ conn' = [conn EXCEPT ![s] = "on"]
      /\ UNCHANGED <<taken, last, busy, got>>
  BY DEF N!Subscribe
<1>3. LastHeard' = LastHeard /\ N!Event' = N!Event BY DEF LastHeard, N!Event, N!EventIds
<1>4. HeardInOrder' BY <1>2, <1>3 DEF HeardInOrder
<1>5. last[s] = LastHeard /\ ~busy[s] /\ ~busy'[s] BY <1>2 DEF ConnectionInv
<1>6. sending'[s] = missed /\ replay'[s] = missed BY <1>0, <1>1
<1>7. heard = <<>> => missed = <<>> BY <1>1, <1>5 DEF LastHeard
<1>8. heard # <<>> => missed = N!Missed(s, LastHeard) /\ LastHeard \in 1..Len(taken)
  <2>1. heard # <<>> => LastHeard \in 1..Len(taken) BY DEF HeardInOrder
  <2> QED BY <1>0, <1>5, <1>6, <2>1
<1>9. /\ Place(s)' = IF heard = <<>> THEN Len(taken) ELSE LastHeard
      /\ Delivers(s)'
  <2>1. Place(s)' = Len(taken) - Len(missed) BY <1>0, <1>2, <1>5, <1>6, <1>8, MissedIs DEF Place
  <2>2. CASE heard = <<>>
    <3>1. Len(missed) = 0 BY <1>7, <2>2
    <3>2. Place(s)' = Len(taken) BY <1>0, <2>1, <3>1
    <3> QED BY <1>0, <1>5, <1>6, <2>2, <3>1, <3>2 DEF Delivers
  <2>3. CASE heard # <<>>
    <3>1. /\ Len(missed) = Len(taken) - LastHeard /\ LastHeard \in 1..Len(taken)
          /\ \A j \in 1..(Len(taken) - LastHeard) : missed[j] = taken[LastHeard + j]
      BY <1>8, <2>3, MissedIs
    <3> DEFINE n == LastHeard
               m == Len(missed)
               l == Len(taken)
    <3>2. l \in Nat /\ n \in 1..l /\ m = l - n BY <1>0, <3>1
    <3>3. \A j \in 1..(l - n) : missed[j] = taken[n + j] BY <3>1
    <3>4. Place(s)' = l - m BY <2>1
    <3> HIDE DEF n, m, l
    <3>5. Place(s)' = n /\ n >= 0 BY <3>2, <3>4
    <3>6. \A j \in 1..m : missed[j] = taken[l - m + j]
      <4> SUFFICES ASSUME NEW j \in 1..m PROVE missed[j] = taken[l - m + j] OBVIOUS
      <4>1. j \in 1..(l - n) /\ l - m + j = n + j BY <3>2
      <4> QED BY <3>3, <4>1
    <3>7. \A j \in 1..Len(sending'[s]) :
             sending'[s][j] = taken'[Len(taken') - Len(sending'[s]) + j]
      BY <1>2, <1>6, <3>6 DEF m, l
    <3>8. heard' # <<>> => LastHeard' = Place(s)' BY <1>3, <3>5 DEF n
    <3>9. Delivers(s)' BY <1>5, <3>5, <3>7, <3>8 DEF Delivers
    <3> QED BY <2>3, <3>5, <3>9 DEF n
  <2> QED BY <2>2, <2>3
<1>10. \A t \in Conns : conn'[t] = "on" => t = s
  BY <1>0, <1>2, OneConnection
<1>11. conn'[s] = "on" /\ \A t \in Conns : t # s => conn'[t] = conn[t] BY <1>0, <1>2
<1>12. ConnectionInv'
  BY <1>2, <1>3, <1>5, <1>9, <1>10, <1>11 DEF ConnectionInv
<1> QED BY <1>4, <1>5, <1>9, <1>10, <1>12

(* What the follower hears is the event behind the last one.                 *)
LEMMA ConnectionFlush ==
    ASSUME Numbers, HeardInOrder, ConnectionInv, NS!TypeInv, NEW s \in Conns, N!Flush(s),
           conn[s] = "on", heard' = Append(heard, got[s][Len(got[s])])
    PROVE  /\ HeardInOrder' /\ ConnectionInv'
           /\ Place(s) \in Nat /\ Place(s) + 1 \in 1..Len(taken)
           /\ got[s][Len(got[s])] = taken[Place(s) + 1]
           /\ heard' # <<>> /\ LastHeard' = Place(s) + 1 /\ Place(s)' = Place(s) + 1
           /\ heard # <<>> => LastHeard = Place(s)
           /\ \A t \in Conns : conn'[t] = "on" => t = s
<1> DEFINE e == taken[Place(s) + 1]
<1>0. /\ taken \in Seq(N!Event) /\ Len(taken) \in Nat /\ sending \in [Conns -> Seq(N!Event)]
      /\ busy \in [Conns -> BOOLEAN]
  BY ForTypes
<1>1. /\ busy[s] /\ busy' = [busy EXCEPT ![s] = FALSE]
      /\ UNCHANGED <<conn, last, got, taken, sending>>
  BY DEF N!Flush, N!handlerVars
<1>2. Delivers(s) BY DEF ConnectionInv
<1>3. /\ Place(s) \in Nat /\ Place(s) + 1 \in 1..Len(taken)
      /\ got[s][Len(got[s])] = e
  BY <1>1, <1>2, PlaceIsNumber DEF Delivers
<1>4. e \in N!Event /\ e.id = Place(s) + 1
  BY <1>0, <1>3, EntriesOf DEF Numbers, TakenInOrder
<1>5. heard \in Seq(N!Event) /\ heard' = Append(heard, e) BY <1>3 DEF HeardInOrder
<1> HIDE DEF e
<1>6. /\ Len(heard) \in Nat /\ Len(heard') = Len(heard) + 1
      /\ heard'[Len(heard) + 1] = e
      /\ \A i \in 1..Len(heard) : heard'[i] = heard[i]
      /\ heard' \in Seq(N!Event)
  BY <1>4, <1>5, AppendProperties, EntriesOf
<1>7. heard' # <<>> BY <1>6
<1>8. LastHeard' = Place(s) + 1 BY <1>4, <1>6, <1>7 DEF LastHeard
<1>9. heard # <<>> => LastHeard = Place(s) BY <1>2 DEF Delivers
<1>10. \A i \in 1..Len(heard) : heard[i].id \in Nat /\ heard[i].id <= Place(s)
  BY <1>9, HeardNumbers
<1>11. \A i \in 1..Len(heard') : heard'[i].id <= Place(s) + 1
  <2> SUFFICES ASSUME NEW i \in 1..Len(heard') PROVE heard'[i].id <= Place(s) + 1 OBVIOUS
  <2>1. CASE i = Len(heard) + 1 BY <1>3, <1>4, <1>6, <2>1
  <2>2. CASE i # Len(heard) + 1
    <3>1. i \in 1..Len(heard) BY <1>6, <2>2
    <3> QED BY <1>3, <1>6, <1>10, <3>1
  <2> QED BY <2>1, <2>2
<1>12. HeardInOrder'
  <2>1. N!Event' = N!Event BY DEF N!Event, N!EventIds
  <2> QED BY <1>1, <1>3, <1>6, <1>8, <1>11, <2>1 DEF HeardInOrder
<1>13. Place(s)' = Place(s) + 1
  <2> DEFINE n == Len(taken)
             m == Len(sending[s])
  <2>1. n \in Nat /\ m \in Nat BY <1>0, EntriesOf
  <2>2. Place(s) = n - m - 1 BY <1>1 DEF Place
  <2>3. busy'[s] = FALSE BY <1>0, <1>1
  <2>4. Place(s)' = n - m - 0 BY <1>1, <2>3 DEF Place
  <2> HIDE DEF n, m
  <2> QED BY <2>1, <2>2, <2>4
<1>14. Delivers(s)'
  <2>1. ~busy'[s] BY <1>0, <1>1
  <2>2. Place(s)' >= 0 BY <1>3, <1>13
  <2>3. \A j \in 1..Len(sending'[s]) :
           sending'[s][j] = taken'[Len(taken') - Len(sending'[s]) + j]
    BY <1>1, <1>2 DEF Delivers
  <2> QED BY <1>8, <1>13, <2>1, <2>2, <2>3 DEF Delivers
<1>15. \A t \in Conns : conn[t] \in {"subscribing", "on"} => t = s BY OneConnection
<1>16. \A t \in Conns : t # s => busy'[t] = busy[t] BY <1>0, <1>1
<1>17. ConnectionInv' BY <1>1, <1>14, <1>15, <1>16 DEF ConnectionInv
<1> QED BY <1>1, <1>3, <1>7, <1>8, <1>9, <1>12, <1>13, <1>15, <1>17 DEF e

(* What is written to a connection that is gone is not heard.                *)
LEMMA ConnectionFlushed ==
    ASSUME HeardInOrder, ConnectionInv, NS!TypeInv, NEW s \in Conns, N!Flush(s),
           conn[s] # "on", UNCHANGED heard
    PROVE  /\ HeardInOrder' /\ ConnectionInv'
           /\ \A t \in Conns : conn'[t] = "on" => conn[t] = "on" /\ Place(t)' = Place(t)
<1>0. busy \in [Conns -> BOOLEAN] BY ForTypes
<1>1. busy' = [busy EXCEPT ![s] = FALSE] /\ UNCHANGED <<conn, last, got, taken, sending>>
  BY DEF N!Flush, N!handlerVars
<1>2. LastHeard' = LastHeard /\ N!Event' = N!Event BY DEF LastHeard, N!Event, N!EventIds
<1>3. HeardInOrder' BY <1>1, <1>2 DEF HeardInOrder
<1>4. ASSUME NEW t \in Conns, t # s
      PROVE  (Delivers(t)' <=> Delivers(t)) /\ Place(t)' = Place(t) /\ busy'[t] = busy[t]
  <2>1. busy'[t] = busy[t] BY <1>0, <1>1, <1>4
  <2> QED BY <1>1, <1>2, <2>1 DEF Delivers, Place
<1>5. ~busy'[s] BY <1>0, <1>1
<1>6. ConnectionInv' BY <1>1, <1>2, <1>4, <1>5 DEF ConnectionInv
<1> QED BY <1>1, <1>3, <1>4, <1>6

---------------------------------------------------------------------------
(* What the events say                                                     *)

LEMMA NumberIs ==
    ASSUME Numbers, NS!TypeInv, NEW c \in Calls
    PROVE  /\ Len(taken) \in Nat /\ Number(c) \in Nat
           /\ Number(c) > 0 /\ Number(c) <= Len(taken) + 1
<1>1. Len(taken) \in Nat BY ForTypes
<1>2. id[c] # None => id[c] \in 1..Len(taken) \/ id[c] = Len(taken) + 1
  BY DEF Numbers, TakenInOrder
<1> QED BY <1>1, <1>2 DEF Number

LEMMA NumbersDiffer ==
    ASSUME Numbers, NS!TypeInv, NEW c \in Calls, NEW d \in Calls, Started(c), Started(d),
           Number(c) = Number(d)
    PROVE  c = d
<1>0. Len(taken) \in Nat BY ForTypes
<1>1. ASSUME NEW a \in Calls, NEW b \in Calls, Started(a), Started(b), id[a] = None,
             Number(b) = Number(a)
      PROVE  a = b
  <2>1. call[a] \in {"idle", "increment"} \cup {"format", "notify"} /\ a \notin over
    <3>1. call[a] \in {"idle", "done", "lost"} \cup N!InFlight BY ForTypes
    <3> QED BY <1>1, <3>1 DEF Numbers, CallsKnown, N!InFlight
  <2>2. notifier = <<>> /\ \A x \in Calls : Pending(x) => x = a
    BY <1>1, <2>1, BeforeTheChannel
  <2>3. CASE id[b] = None
    <3>1. call[b] \in {"idle", "done", "lost"} \cup N!InFlight BY ForTypes
    <3>2. call[b] \notin {"done", "lost"} /\ b \notin over
      BY <2>3, <3>1 DEF Numbers, CallsKnown
    <3> QED BY <1>1, <2>2, <3>2 DEF Pending
  <2>4. CASE id[b] # None
    <3>1. id[b] = Len(taken) + 1 BY <1>1, <2>4 DEF Number
    <3>2. call[b] = "notify" BY <1>0, <2>2, <2>4, <3>1 DEF Numbers, TakenInOrder
    <3>3. b \notin over BY <3>2 DEF Numbers, CallsKnown
    <3> QED BY <1>1, <2>2, <3>2, <3>3 DEF Pending
  <2> QED BY <2>3, <2>4
<1>2. CASE id[c] # None /\ id[d] # None BY <1>2, UniqueNumbers DEF Number
<1> QED BY <1>1, <1>2

LEMMA EventIsCall ==
    ASSUME EventsKnown, NEW e \in events
    PROVE  /\ CallOf(e) \in Calls /\ Started(CallOf(e)) /\ EventOf(CallOf(e)) = e
           /\ KeyOf(e) \in Ids /\ e.td \in C!Optional(C!TD)
           /\ \A f \in events : CallOf(f) = CallOf(e) => f = e
<1>1. WellFormed(e) BY DEF EventsKnown
<1>2. CallOf(e) \in Calls /\ Started(CallOf(e)) BY <1>1 DEF CallOf, Calls, WellFormed, Started
<1>3. \A f \in events : f.req = e.req => f = e BY DEF EventsKnown
<1>4. EventOf(CallOf(e)) = e BY <1>3 DEF EventOf, CallOf
<1>5. KeyOf(e) \in Ids /\ e.td \in C!Optional(C!TD)
  BY <1>1 DEF WellFormed, KeyOf, Types, C!Optional
<1> QED BY <1>2, <1>3, <1>4, <1>5 DEF CallOf

(* The event of a number that has been given out.                            *)
LEMMA CallIsEvent ==
    ASSUME EventsKnown, Numbers, NS!TypeInv, NEW i \in 1..Len(taken)
    PROVE  /\ EventOf(taken[i].call) \in events
           /\ CallOf(EventOf(taken[i].call)) = taken[i].call
           /\ Number(taken[i].call) = i
<1> DEFINE c == taken[i].call
<1>0. taken \in Seq(N!Event) /\ Len(taken) \in Nat /\ None \notin Nat BY ForTypes
<1>1. c \in Calls /\ id[c] = i /\ id[c] # None
  BY <1>0, EntriesOf DEF Numbers, TakenInOrder
<1> HIDE DEF c
<1>2. Started(c) BY <1>1 DEF Numbers, CallsKnown
<1>3. PICK e \in events : e.req = c[1] /\ e.type = c[2] BY <1>2 DEF Started
<1>4. CallOf(e) = c BY <1>1, <1>3 DEF CallOf, Calls
<1>5. EventOf(c) = e BY <1>4, EventIsCall
<1> QED BY <1>1, <1>3, <1>4, <1>5 DEF Number, c

(* The number of an event does not change when it is given out, ...          *)
LEMMA NumberGivenOut ==
    ASSUME Numbers, NS!TypeInv, NEW c \in Calls, Started(c), c \notin over,
           N!StoreAndNotify(c), NEW d \in Calls
    PROVE  Number(d)' = Number(d)
<1>0. /\ latestID \in Nat /\ reg \in [Calls -> Nat] /\ None \notin Nat
      /\ id \in [Calls -> N!EventIds \cup {None}] /\ Len(taken) \in Nat
  BY ForTypes
<1>1. taken' = taken
  BY DEF N!StoreAndNotify, N!Load, N!Increment, N!Format, N!Notify, N!Scan, N!Write,
         N!StoreError, N!handlerVars
<1>2. CASE N!Format(c)
  <2>1. call[c] = "format" /\ \E n \in {latestID, reg[c] + 1} : id' = [id EXCEPT ![c] = n]
    BY <1>2 DEF N!Format, N!At
  <2>2. latestID = Len(taken) + 1 /\ reg[c] = Len(taken) /\ id[c] = None
    BY <2>1 DEF Numbers, OneAtATime, CallsKnown
  <2>3. id' = [id EXCEPT ![c] = Len(taken) + 1] BY <2>1, <2>2
  <2>4. CASE d = c
    <3>1. id'[d] = Len(taken) + 1 /\ id'[d] # None BY <1>0, <2>3, <2>4
    <3> QED BY <1>1, <2>2, <2>4, <3>1 DEF Number
  <2>5. CASE d # c BY <1>0, <1>1, <2>3, <2>5 DEF Number
  <2> QED BY <2>4, <2>5
<1>3. CASE ~N!Format(c)
  <2>1. id' = id
    BY <1>3 DEF N!StoreAndNotify, N!Load, N!Increment, N!Notify, N!Scan, N!Write,
                N!StoreError, N!queueVars
  <2> QED BY <1>1, <2>1 DEF Number
<1> QED BY <1>2, <1>3

(* ... nor when another is taken.                                            *)
LEMMA NumberTaken ==
    ASSUME Numbers, NS!TypeInv, N!Broadcast, NEW c \in Calls, Started(c)
    PROVE  Number(c)' = Number(c)
<1>1. notifier # <<>> /\ UNCHANGED id
  BY DEF N!Broadcast, N!queueVars, N!callVars
<1>2. id[c] # None
  <2> SUFFICES ASSUME id[c] = None PROVE FALSE OBVIOUS
  <2>1. call[c] \in {"idle", "done", "lost"} \cup N!InFlight BY ForTypes
  <2>2. call[c] \in {"idle", "increment", "format", "notify"} /\ c \notin over
    BY <2>1 DEF Numbers, CallsKnown, N!InFlight
  <2> QED BY <1>1, <2>2, BeforeTheChannel
<1> QED BY <1>1, <1>2 DEF Number

LEMMA StandsStill ==
    ASSUME NEW v \in C!Optional(C!TD), NEW k \in Ids, Stands(v, k),
           now \in Nat, now' \in Nat, now' >= now,
           db'[k] = db[k] \/ (db'[k] = None /\ C!ExpiredAt(db[k], now))
    PROVE  Stands(v, k)'
<1>1. C!ExpiredAt(v, now) => C!ExpiredAt(v, now')
  <2> SUFFICES ASSUME v \in C!TD, v.expires # None, v.expires < now PROVE v.expires < now'
    BY DEF C!ExpiredAt, C!Optional
  <2>1. v.expires \in Int BY DEF C!TD, C!Optional
  <2> QED BY <2>1
<1> QED BY <1>1 DEF Stands

(* Without a new event everything follows from a version as it did before.   *)
LEMMA ContinuesSilently ==
    ASSUME EventsKnown, Silently, now \in Nat, now' \in Nat, now' >= now,
           \A c \in Calls : Started(c) => Number(c)' = Number(c),
           NEW v \in C!Optional(C!TD), NEW k \in Ids, NEW n, Continues(v, k, n)
    PROVE  Continues(v, k, n)'
<1>1. events' = events /\ (db'[k] = db[k] \/ (db'[k] = None /\ C!ExpiredAt(db[k], now)))
  BY DEF Silently
<1>2. \A e \in events : KeyOf(e)' = KeyOf(e) /\ Number(CallOf(e))' = Number(CallOf(e))
  <2>1. \A e \in events : CallOf(e)' = CallOf(e) /\ KeyOf(e)' = KeyOf(e)
    BY DEF CallOf, KeyOf
  <2> QED BY <2>1, EventIsCall
<1>3. \A e : IsNext(n, k, e)' <=> IsNext(n, k, e) BY <1>1, <1>2 DEF IsNext
<1>4. Stands(v, k) => Stands(v, k)' BY <1>1, StandsStill
<1> QED BY <1>1, <1>2, <1>3, <1>4 DEF Continues

(* A new event changes the version that there was.                           *)
LEMMA ContinuesPublished ==
    ASSUME Numbers, NS!TypeInv, EventsKnown, ~UnderWay, UNCHANGED <<id, taken>>,
           now \in Nat, now' \in Nat, now' >= now,
           db \in [Ids -> C!TD \cup {None}], None \notin C!TD,
           NEW e, Publishing(e)
    PROVE  /\ Continues(e.td, KeyOf(e), Number(CallOf(e)))'
           /\ \A v \in C!Optional(C!TD), k \in Ids, n \in 0..Len(taken) :
                 Continues(v, k, n) => Continues(v, k, n)'
           /\ \A f \in events : Number(CallOf(f)) \in 0..Len(taken)
<1> DEFINE new == CallOf(e)
           key == KeyOf(e)
<1>0. Len(taken) \in Nat BY ForTypes
<1>1. /\ events' = events \cup {e} /\ WellFormed(e) /\ e \notin events
      /\ db' = [db EXCEPT ![key] = e.td] /\ (e.type = "update" => e.old = db[key])
      /\ \A f \in events : f.req # e.req
  BY DEF Publishing
<1>2. key \in Ids /\ (e.type = "update" => db[key] # None) /\ e.req \in Requests
  BY <1>1 DEF WellFormed, KeyOf, Types
<1>3. new \in Calls /\ ~Started(new) BY <1>1 DEF CallOf, Calls, WellFormed, Started
<1>4. id[new] = None BY <1>3 DEF Numbers, CallsKnown
<1>5. Number(new)' = Len(taken) + 1 BY <1>4 DEF Number
<1>6. \A f \in events : Number(CallOf(f)) \in 0..Len(taken)
  <2> SUFFICES ASSUME NEW f \in events PROVE Number(CallOf(f)) \in 0..Len(taken) OBVIOUS
  <2>1. CallOf(f) \in Calls /\ Started(CallOf(f)) BY EventIsCall
  <2>2. id[CallOf(f)] # None BY <2>1, NothingUnderWay DEF Numbers, CallsKnown
  <2> QED BY <1>0, <2>1, <2>2, NothingUnderWay DEF Number
<1>7. \A f \in events' : KeyOf(f)' = KeyOf(f) /\ Number(CallOf(f))' = Number(CallOf(f))
  BY DEF KeyOf, CallOf, Number
<1>8. e \in events' /\ Number(CallOf(e))' = Len(taken) + 1 /\ KeyOf(e)' = key
  BY <1>1, <1>5, <1>7 DEF CallOf
<1> HIDE DEF new
<1>9. \A f \in events' : Number(CallOf(f))' <= Len(taken) + 1
  BY <1>0, <1>1, <1>6, <1>7, <1>8
<1>10. Continues(e.td, key, Len(taken) + 1)'
  <2>1. ~\E f : IsNext(Len(taken) + 1, key, f)'
    <3> SUFFICES ASSUME NEW f, IsNext(Len(taken) + 1, key, f)' PROVE FALSE OBVIOUS
    <3>1. f \in events' /\ Number(CallOf(f))' > Len(taken) + 1 BY DEF IsNext
    <3>2. f \in events \/ f = e BY <1>1, <3>1
    <3>3. Number(CallOf(f))' \in Nat BY <1>0, <1>6, <1>7, <1>8, <3>1, <3>2
    <3> QED BY <1>0, <1>9, <3>1, <3>3
  <2>2. db'[key] = e.td BY <1>1, <1>2
  <2> QED BY <2>1, <2>2 DEF Continues, Stands
<1>11. ASSUME NEW v \in C!Optional(C!TD), NEW k \in Ids, NEW n \in 0..Len(taken),
              Continues(v, k, n)
       PROVE  Continues(v, k, n)'
  <2>1. \A f \in events : IsNext(n, k, f)' => IsNext(n, k, f)
    BY <1>1, <1>7 DEF IsNext
  <2>2. CASE k # key
    <3>1. db'[k] = db[k] BY <1>1, <1>2, <2>2
    <3>2. \A f \in events' : IsNext(n, k, f)' => f \in events
      BY <1>1, <1>8, <2>2 DEF IsNext
    <3>3. Stands(v, k) => Stands(v, k)' BY <3>1, StandsStill
    <3>4. (\A f \in events : KeyOf(f) = k => Number(CallOf(f)) <= n)'
             => \A f \in events : KeyOf(f) = k => Number(CallOf(f)) <= n
      BY <1>1, <1>7
    <3> QED BY <1>11, <2>1, <3>2, <3>3, <3>4 DEF Continues
  <2>3. CASE k = key
    <3>1. ASSUME IsNext(n, k, e)', e.type = "update" PROVE e.old = v
      <4>1. \A f \in events : KeyOf(f) = k => Number(CallOf(f)) <= n
        <5> SUFFICES ASSUME NEW f \in events, KeyOf(f) = k, ~(Number(CallOf(f)) <= n)
                     PROVE  FALSE
          OBVIOUS
        <5>1. Number(CallOf(f)) > n /\ Number(CallOf(f)) < Len(taken) + 1
          BY <1>0, <1>6
        <5>2. Len(taken) + 1 <= Number(CallOf(f))
          BY <1>1, <1>7, <1>8, <3>1, <5>1 DEF IsNext
        <5> QED BY <1>0, <1>6, <5>1, <5>2
      <4>2. Stands(v, k) BY <1>11, <4>1 DEF Continues
      <4> QED BY <1>1, <1>2, <2>3, <3>1, <4>2 DEF Stands
    <3>2. \A f \in events' : IsNext(n, k, f)' /\ f.type = "update" => f.old = v
      BY <1>1, <1>11, <2>1, <3>1 DEF Continues
    <3>3. ~(\A f \in events : KeyOf(f) = k => Number(CallOf(f)) <= n)'
      <4>1. ~(Len(taken) + 1 <= n) BY <1>0
      <4> QED BY <1>8, <2>3, <4>1
    <3> QED BY <3>2, <3>3 DEF Continues
  <2> QED BY <2>2, <2>3
<1> QED BY <1>6, <1>8, <1>10, <1>11 DEF new

---------------------------------------------------------------------------
(* The mirror                                                              *)

(* A step of the catalog as the follower may see it.                         *)
CatalogMoves ==
    /\ now \in Nat /\ now' \in Nat /\ now' >= now
    /\ db \in [Ids -> C!TD \cup {None}] /\ None \notin C!TD
    /\ \/ Silently
       \/ ~UnderWay /\ UNCHANGED <<id, taken>> /\ \E e : Publishing(e)

LEMMA MirrorKept ==
    ASSUME EventsKnown, Numbers, NS!TypeInv, HeardInOrder, ConnectionInv, EventsChain, MirrorInv,
           CatalogMoves, UNCHANGED <<mirror, heard>>,
           \A c \in Calls : Started(c) => Number(c)' = Number(c),
           \A s \in Conns : conn'[s] = "on" => conn[s] = "on" /\ Place(s)' = Place(s)
    PROVE  EventsChain' /\ MirrorInv'
<1>0. Len(taken) \in Nat BY ForTypes
<1>1. /\ LastHeard' = LastHeard /\ (heard # <<>> => LastHeard \in 0..Len(taken))
      /\ C!Optional(C!TD)' = C!Optional(C!TD)
  <2>1. heard # <<>> => LastHeard \in 1..Len(taken) BY DEF HeardInOrder
  <2>2. C!Optional(C!TD)' = C!Optional(C!TD) BY DEF C!Optional, C!TD
  <2> QED BY <1>0, <2>1, <2>2 DEF LastHeard
<1>2. \A s \in Conns : conn[s] = "on" => Place(s) \in 0..Len(taken)
  <2> SUFFICES ASSUME NEW s \in Conns, conn[s] = "on" PROVE Place(s) \in 0..Len(taken) OBVIOUS
  <2>1. Place(s) \in Nat /\ Place(s) <= Len(taken) BY PlaceIsNumber DEF ConnectionInv
  <2> QED BY <1>0, <2>1
<1>3. ASSUME \A v \in C!Optional(C!TD), k \in Ids, n \in 0..Len(taken) :
                Continues(v, k, n) => Continues(v, k, n)'
      PROVE  MirrorInv'
  <2>1. \A k \in Ids : mirror[k] \in C!Optional(C!TD) /\ mirror'[k] = mirror[k]
    BY DEF MirrorInv
  <2>2. heard # <<>> => \A k \in Ids : Continues(mirror[k], k, LastHeard)'
    BY <1>1, <1>3, <2>1 DEF MirrorInv
  <2>3. \A s \in Conns : conn'[s] = "on" => \A k \in Ids : Continues(mirror[k], k, Place(s))'
    BY <1>2, <1>3, <2>1 DEF MirrorInv
  <2> QED BY <1>1, <2>2, <2>3 DEF MirrorInv
<1>4. \A e : KeyOf(e)' = KeyOf(e) /\ CallOf(e)' = CallOf(e) BY DEF KeyOf, CallOf
<1>5. CASE Silently
  <2>1. \A n : \A v \in C!Optional(C!TD), k \in Ids : Continues(v, k, n) => Continues(v, k, n)'
    BY <1>5, ContinuesSilently DEF CatalogMoves
  <2>2. \A e \in events : Number(CallOf(e))' = Number(CallOf(e)) BY <1>4, EventIsCall
  <2>3. \A e \in events : Continues(e.td, KeyOf(e), Number(CallOf(e)))'
    BY <1>4, <2>1, <2>2, EventIsCall DEF EventsChain
  <2>4. EventsChain' BY <1>5, <2>3 DEF EventsChain, Silently
  <2> QED BY <1>3, <2>1, <2>4
<1>6. CASE ~UnderWay /\ UNCHANGED <<id, taken>> /\ \E e : Publishing(e)
  <2>1. PICK e : Publishing(e) BY <1>6
  <2>2. /\ Continues(e.td, KeyOf(e), Number(CallOf(e)))'
        /\ \A v \in C!Optional(C!TD), k \in Ids, n \in 0..Len(taken) :
              Continues(v, k, n) => Continues(v, k, n)'
        /\ \A f \in events : Number(CallOf(f)) \in 0..Len(taken)
    BY <1>6, <2>1, ContinuesPublished DEF CatalogMoves
  <2>3. \A f \in events : Number(CallOf(f))' = Number(CallOf(f)) BY <1>4, EventIsCall
  <2>4. \A f \in events : Continues(f.td, KeyOf(f), Number(CallOf(f)))'
    BY <1>4, <2>2, <2>3, EventIsCall DEF EventsChain
  <2>5. EventsChain' BY <2>1, <2>2, <2>4 DEF EventsChain, Publishing
  <2> QED BY <1>3, <2>2, <2>5
<1> QED BY <1>5, <1>6 DEF CatalogMoves

(* A follower that has heard nothing reads the catalog itself.               *)
LEMMA MirrorSubscribe ==
    ASSUME EventsKnown, Numbers, NS!TypeInv, HeardInOrder, EventsChain, MirrorInv, ~UnderWay,
           now \in Nat, db \in [Ids -> C!TD \cup {None}],
           NEW s \in Conns, last[s] = LastHeard,
           mirror' = (IF last[s] = None THEN db ELSE mirror),
           UNCHANGED <<now, db, events, id, taken, heard>>,
           Place(s)' = IF heard = <<>> THEN Len(taken) ELSE LastHeard,
           \A t \in Conns : conn'[t] = "on" => t = s
    PROVE  EventsChain' /\ MirrorInv'
<1>0. Len(taken) \in Nat /\ None \notin Nat BY ForTypes
<1>1. LastHeard' = LastHeard /\ (heard = <<>> <=> last[s] = None)
  BY <1>0 DEF LastHeard, HeardInOrder
<1>2. C!Optional(C!TD)' = C!Optional(C!TD) /\ C!Optional(C!TD) = C!TD \cup {None}
  BY DEF C!Optional, C!TD
<1>3. \A e : KeyOf(e)' = KeyOf(e) /\ CallOf(e)' = CallOf(e) BY DEF KeyOf, CallOf
<1>4. \A c : Number(c)' = Number(c) BY DEF Number
<1>5. \A n : \A v \in C!Optional(C!TD), k \in Ids : Continues(v, k, n) => Continues(v, k, n)'
  <2>1. Silently BY DEF Silently
  <2>2. now' \in Nat /\ now' >= now OBVIOUS
  <2> QED BY <1>4, <2>1, <2>2, ContinuesSilently
<1>6. EventsChain' BY <1>3, <1>4, <1>5, EventIsCall DEF EventsChain
<1>7. CASE heard # <<>>
  <2>1. \A k \in Ids : mirror'[k] = mirror[k] /\ mirror[k] \in C!Optional(C!TD)
    BY <1>1, <1>7 DEF MirrorInv
  <2>2. \A k \in Ids : Continues(mirror[k], k, LastHeard)'
    BY <1>1, <1>5, <1>7, <2>1 DEF MirrorInv
  <2>3. Place(s)' = LastHeard' BY <1>1, <1>7
  <2>4. \A k \in Ids : Continues(mirror[k], k, Place(s))'
    BY <1>1, <1>5, <1>7, <2>1, <2>3 DEF MirrorInv
  <2>5. mirror' \in [Ids -> C!Optional(C!TD)] BY <1>1, <1>7 DEF MirrorInv
  <2> QED BY <1>2, <1>6, <2>2, <2>4, <2>5 DEF MirrorInv
<1>8. CASE heard = <<>>
  <2>1. mirror' = db /\ Place(s)' = Len(taken) BY <1>1, <1>8
  <2>2. \A e \in events : Number(CallOf(e)) <= Len(taken)
    <3> SUFFICES ASSUME NEW e \in events PROVE Number(CallOf(e)) <= Len(taken) OBVIOUS
    <3>1. CallOf(e) \in Calls /\ Started(CallOf(e)) BY EventIsCall
    <3>2. id[CallOf(e)] # None BY <3>1, NothingUnderWay DEF Numbers, CallsKnown
    <3> QED BY <1>0, <3>1, <3>2, NothingUnderWay DEF Number
  <2>3. \A e \in events : CallOf(e) \in Calls /\ Number(CallOf(e)) \in Nat
    BY EventIsCall, NumberIs
  <2>4. \A k \in Ids : Continues(db[k], k, Len(taken))
    BY <1>0, <2>2, <2>3 DEF Continues, IsNext, Stands
  <2>5. \A k \in Ids : db[k] \in C!Optional(C!TD) /\ mirror'[k] = db[k] BY <1>2, <2>1
  <2>6. \A k \in Ids : Continues(mirror[k], k, Place(s))' BY <1>5, <2>1, <2>4, <2>5
  <2>7. mirror' \in [Ids -> C!Optional(C!TD)] BY <1>2, <2>1
  <2> QED BY <1>2, <1>6, <1>8, <2>6, <2>7 DEF MirrorInv
<1> QED BY <1>7, <1>8

(* A merge patch makes the new version of the old one.                       *)
LEMMA MergeMakesNew ==
    ASSUME NEW old \in C!TD, NEW td \in C!TD, td.id = old.id
    PROVE  Over(Over([id |-> old.id], CreateMergePatch(old, td)), old) = td
<1> DEFINE members == {"id", "content", "created", "modified", "ttl", "expires"}
           head == [id |-> old.id]
           patch == CreateMergePatch(old, td)
<1>1. \A doc \in C!TD : DOMAIN doc = members /\ doc = [m \in members |-> doc[m]]
  BY DEF C!TD
<1>2. DOMAIN head = {"id"} /\ head["id"] = td["id"] OBVIOUS
<1>3. /\ DOMAIN patch = {n \in members : td[n] # old[n]}
      /\ \A m \in DOMAIN patch : patch[m] = td[m]
  BY <1>1 DEF CreateMergePatch
<1> HIDE DEF head, patch
<1> DEFINE data == Over(head, patch)
<1>4. /\ DOMAIN data = {"id"} \cup {n \in members : td[n] # old[n]}
      /\ \A m \in DOMAIN data : data[m] = td[m]
  BY <1>2, <1>3 DEF Over
<1> HIDE DEF data
<1>5. Over(data, old) = [m \in members |-> td[m]]
  <2>1. DOMAIN data \cup DOMAIN old = members BY <1>1, <1>4
  <2>2. \A m \in members : (IF m \in DOMAIN data THEN data[m] ELSE old[m]) = td[m]
    BY <1>1, <1>4
  <2>3. Over(data, old) = [m \in members |-> IF m \in DOMAIN data THEN data[m] ELSE old[m]]
    BY <2>1 DEF Over
  <2> QED BY <2>2, <2>3
<1> QED BY <1>1, <1>5 DEF head, patch, data

(* The follower that hears the next event comes to the version it tells of.  *)
LEMMA FollowNext ==
    ASSUME EventsKnown, Numbers, NS!TypeInv, None \notin C!TD,
           NEW held \in [Ids -> C!Optional(C!TD)], NEW p \in Nat, p + 1 \in 1..Len(taken),
           \A k \in Ids : Continues(held[k], k, p)
    PROVE  LET e == EventOf(taken[p + 1].call) IN
           /\ e \in events /\ KeyOf(e) \in Ids /\ Number(CallOf(e)) = p + 1
           /\ Follow(held, taken[p + 1]) = [held EXCEPT ![KeyOf(e)] = e.td]
<1> DEFINE e == EventOf(taken[p + 1].call)
           key == KeyOf(e)
<1>1. e \in events /\ Number(CallOf(e)) = p + 1 BY CallIsEvent
<1>2. key \in Ids /\ WellFormed(e) BY <1>1, EventIsCall DEF EventsKnown
<1>3. Follow(held, taken[p + 1]) =
        CASE e.type = "create" -> [held EXCEPT ![Data(e).id] = Data(e)]
          [] e.type = "update" -> [held EXCEPT ![Data(e).id] = IF @ = None THEN None
                                                               ELSE Over(Data(e), @)]
          [] e.type = "delete" -> [held EXCEPT ![Data(e).id] = None]
  BY DEF Follow
<1> HIDE DEF e
<1>4. CASE e.type = "create"
  <2>1. Data(e) = e.td /\ key = e.td.id BY <1>4 DEF Data, KeyOf
  <2> QED BY <1>1, <1>2, <1>3, <1>4, <2>1 DEF e
<1>5. CASE e.type = "delete"
  <2>1. Data(e) = [id |-> e.old.id] BY <1>5 DEF Data
  <2>2. key = e.old.id /\ e.td = None BY <1>2, <1>5 DEF KeyOf, WellFormed
  <2>3. Data(e).id = key BY <2>1, <2>2
  <2> QED BY <1>1, <1>2, <1>3, <1>5, <2>2, <2>3 DEF e
<1>6. CASE e.type = "update"
  <2>1. /\ Data(e) = Over([id |-> e.old.id], CreateMergePatch(e.old, e.td))
        /\ key = e.old.id /\ e.old \in C!TD /\ e.td \in C!TD /\ e.td.id = e.old.id
    BY <1>2, <1>6 DEF Data, KeyOf, WellFormed
  <2>2. IsNext(p, key, e)
    <3>1. \A f \in events : Number(CallOf(f)) \in Nat BY EventIsCall, NumberIs
    <3> QED BY <1>1, <3>1 DEF IsNext
  <2>3. e.old = held[key] BY <1>1, <1>2, <1>6, <2>2 DEF Continues
  <2>4. Over(Data(e), held[key]) = e.td /\ held[key] # None
    BY <2>1, <2>3, MergeMakesNew
  <2>5. Data(e).id = key
    <3> DEFINE head == [id |-> e.old.id]
               patch == CreateMergePatch(e.old, e.td)
    <3>1. DOMAIN head = {"id"} /\ head["id"] = e.old.id OBVIOUS
    <3> HIDE DEF head, patch
    <3>2. Over(head, patch)["id"] = e.old.id BY <3>1 DEF Over
    <3> QED BY <2>1, <3>2 DEF head, patch
  <2>6. Follow(held, taken[p + 1]) =
          [held EXCEPT ![key] = IF @ = None THEN None ELSE Over(Data(e), @)]
    BY <1>3, <1>6, <2>5
  <2>7. Follow(held, taken[p + 1]) = [held EXCEPT ![key] = e.td] BY <1>2, <2>4, <2>6
  <2> QED BY <1>1, <1>2, <2>7 DEF e
<1> QED BY <1>2, <1>4, <1>5, <1>6 DEF WellFormed, Types

(* Of another key there is no event of this number.                          *)
LEMMA ContinuesBehind ==
    ASSUME EventsKnown, Numbers, NS!TypeInv, NEW e \in events, NEW p \in Nat,
           Number(CallOf(e)) = p + 1, NEW k, k # KeyOf(e), NEW v, Continues(v, k, p)
    PROVE  Continues(v, k, p + 1)
<1>1. \A f \in events : Number(CallOf(f)) \in Nat BY EventIsCall, NumberIs
<1>2. ASSUME NEW f \in events, KeyOf(f) = k PROVE Number(CallOf(f)) # p + 1
  <2> SUFFICES ASSUME Number(CallOf(f)) = p + 1 PROVE FALSE OBVIOUS
  <2>1. CallOf(f) = CallOf(e) BY EventIsCall, NumbersDiffer
  <2>2. f = e BY <2>1, EventIsCall
  <2> QED BY <1>2, <2>2
<1>3. \A f \in events : KeyOf(f) = k =>
         /\ Number(CallOf(f)) > p + 1 <=> Number(CallOf(f)) > p
         /\ Number(CallOf(f)) <= p + 1 <=> Number(CallOf(f)) <= p
  BY <1>1, <1>2
<1>4. \A f : IsNext(p + 1, k, f) => IsNext(p, k, f) BY <1>3 DEF IsNext
<1> QED BY <1>3, <1>4 DEF Continues

LEMMA MirrorFlush ==
    ASSUME EventsKnown, Numbers, NS!TypeInv, EventsChain, MirrorInv,
           now \in Nat, None \notin C!TD, NEW s \in Conns, conn[s] = "on",
           Place(s) \in Nat, Place(s) + 1 \in 1..Len(taken),
           mirror' = Follow(mirror, taken[Place(s) + 1]),
           heard' # <<>>, LastHeard' = Place(s) + 1, Place(s)' = Place(s) + 1,
           UNCHANGED <<now, db, events, id, taken>>,
           \A t \in Conns : conn'[t] = "on" => t = s
    PROVE  EventsChain' /\ MirrorInv'
<1> DEFINE p == Place(s)
           e == EventOf(taken[p + 1].call)
<1>1. C!Optional(C!TD)' = C!Optional(C!TD) BY DEF C!Optional, C!TD
<1>2. \A f : KeyOf(f)' = KeyOf(f) /\ CallOf(f)' = CallOf(f) BY DEF KeyOf, CallOf
<1>3. \A c : Number(c)' = Number(c) BY DEF Number
<1>4. \A n : \A v \in C!Optional(C!TD), k \in Ids : Continues(v, k, n) => Continues(v, k, n)'
  <2>1. Silently BY DEF Silently
  <2>2. now' \in Nat /\ now' >= now OBVIOUS
  <2> QED BY <1>3, <2>1, <2>2, ContinuesSilently
<1>5. EventsChain' BY <1>2, <1>3, <1>4, EventIsCall DEF EventsChain
<1>6. p \in Nat /\ p + 1 \in 1..Len(taken) OBVIOUS
<1>7. mirror \in [Ids -> C!Optional(C!TD)] /\ \A k \in Ids : Continues(mirror[k], k, p)
  BY DEF MirrorInv
<1>8. mirror' = Follow(mirror, taken[p + 1]) /\ LastHeard' = p + 1 /\ Place(s)' = p + 1
  OBVIOUS
<1> HIDE DEF p
<1>9. /\ e \in events /\ KeyOf(e) \in Ids /\ Number(CallOf(e)) = p + 1
      /\ mirror' = [mirror EXCEPT ![KeyOf(e)] = e.td]
  BY <1>6, <1>7, <1>8, FollowNext
<1> HIDE DEF e
<1>10. e.td \in C!Optional(C!TD) /\ Continues(e.td, KeyOf(e), p + 1)
  BY <1>9, EventIsCall DEF EventsChain
<1>11. ASSUME NEW k \in Ids
       PROVE  mirror'[k] \in C!Optional(C!TD) /\ Continues(mirror'[k], k, p + 1)
  <2>1. CASE k = KeyOf(e)
    <3>1. mirror'[k] = e.td BY <1>7, <1>9, <2>1
    <3> QED BY <1>10, <2>1, <3>1
  <2>2. CASE k # KeyOf(e)
    <3>1. mirror'[k] = mirror[k] BY <1>7, <1>9, <2>2
    <3>2. Continues(mirror[k], k, p + 1) BY <1>6, <1>7, <1>9, <2>2, ContinuesBehind
    <3> QED BY <1>7, <3>1, <3>2
  <2> QED BY <2>1, <2>2
<1>12. mirror' \in [Ids -> C!Optional(C!TD)] BY <1>7, <1>9, <1>10
<1>13. \A k \in Ids : Continues(mirror[k], k, LastHeard)' BY <1>4, <1>8, <1>11
<1>14. \A k \in Ids : Continues(mirror[k], k, Place(s))' BY <1>4, <1>8, <1>11
<1> QED BY <1>1, <1>5, <1>12, <1>13, <1>14 DEF MirrorInv

---------------------------------------------------------------------------
(* The steps                                                               *)

LEMMA FollowerTypes ==
    ASSUME NS!StreamInv, CP!TypeInv, CP!CoherentInv, [Next]_vars
    PROVE  NS!StreamInv' /\ CP!TypeInv' /\ CP!CoherentInv'
<1>1. NS!StreamInv'
  <2>1. [NS!Next]_NS!vars BY NotificationStep, SameNotification, SameVars
  <2> QED BY <2>1, NotificationConstants, SameSizes, NS!NextStreamInv
<1> QED BY <1>1, CatalogStep, StepCoherent, RestartTyped, RestartCoherent

LEMMA CatalogAdvances ==
    ASSUME C!PatchesKeepIds, CatalogInv, C!Apart', [C!Next]_C!vars,
           events' # events => ~UnderWay /\ UNCHANGED <<id, taken>>
    PROVE  CatalogInv' /\ CatalogMoves
<1>1. CatalogInv' /\ now' >= now /\ (Silently \/ \E e : Publishing(e)) BY CatalogEffect
<1>2. now \in Nat /\ db \in [Ids -> C!TD \cup {None}] BY StoreKeyed DEF CatalogInv
<1>3. now' \in Nat
  <2>1. CP!TypeOK' BY <1>1 DEF CatalogInv, CP!AtomicInv, CP!TypeInv
  <2> QED BY <2>1, CatalogAssumption DEF CP!TypeOK
<1>4. \A e : Publishing(e) => events' # events BY DEF Publishing
<1> QED BY <1>1, <1>2, <1>3, <1>4, CatalogAssumption DEF CatalogMoves

LEMMA CatalogStays ==
    ASSUME C!PatchesKeepIds, CatalogInv, UNCHANGED catalogVars
    PROVE  CatalogInv' /\ CatalogMoves
<1>1. UNCHANGED C!vars
  BY DEF catalogVars, C!vars, C!requestVars, C!cleanerVars
<1>2. C!Apart' BY DEF catalogVars, CatalogInv, C!Apart, C!Working
<1>3. events' = events BY DEF catalogVars
<1> QED BY <1>1, <1>2, <1>3, CatalogAdvances

LEMMA CalmCatalog ==
    ASSUME C!PatchesKeepIds, Agreement, NS!TypeInv, Request \/ Clean, calm'
    PROVE  Agreement'
<1>1. [C!Next]_C!vars BY DEF Request, Clean, C!Next, C!Cleaner
<1>2. /\ C!Apart' /\ (events' # events => ~UnderWay)
      /\ UNCHANGED <<notificationVars, processVars, followerVars>>
  BY DEF Request, Clean, Watch
<1>3. /\ UNCHANGED <<over, latestID, log, call, reg, id, victims, notifier, taken>>
      /\ UNCHANGED <<heard, mirror, conn, last, sending, busy, got>>
  BY <1>2 DEF notificationVars, processVars, followerVars
<1>4. CatalogInv' /\ CatalogMoves BY <1>1, <1>2, <1>3, CatalogAdvances DEF Agreement
<1>5. Numbers'
  <2>1. CASE events' = events BY <1>3, <2>1, NumbersFrame DEF Agreement
  <2>2. CASE events' # events
    <3>1. PICK e : Publishing(e) BY <1>4, <2>2 DEF CatalogMoves, Silently
    <3>2. /\ e.req \in Requests /\ e.type \in Types /\ (\A f \in events : f.req # e.req)
          /\ events' = events \cup {e}
      BY <3>1 DEF Publishing, WellFormed
    <3> QED BY <1>2, <1>3, <2>2, <3>2, NumbersPublish DEF Agreement
  <2> QED BY <2>1, <2>2
<1>6. LogComplete' BY <1>3, LogFrame DEF Agreement
<1>7. HeardInOrder' /\ ConnectionInv' /\ \A s \in Conns : Place(s)' = Place(s)
  BY <1>3, ConnectionFrame DEF Agreement
<1>8. \A c : Number(c)' = Number(c) BY <1>3 DEF Number
<1>9. EventsChain' /\ MirrorInv'
  BY <1>3, <1>4, <1>7, <1>8, MirrorKept DEF Agreement, CatalogInv
<1> QED BY <1>4, <1>5, <1>6, <1>7, <1>9 DEF Agreement

LEMMA CalmListen ==
    ASSUME C!PatchesKeepIds, Agreement, NS!TypeInv, NEW c \in Calls, Listen(c), calm'
    PROVE  Agreement'
<1>1. /\ Started(c) /\ c \notin over /\ N!StoreAndNotify(c)
      /\ UNCHANGED <<catalogVars, processVars, followerVars>>
      /\ ~Unstored(c) /\ \A k \in N!EventIds : ~Forgotten(k)
  BY DEF Listen, Watch, N!StoreAndNotify
<1>2. UNCHANGED <<events, over, heard, mirror>>
  BY <1>1 DEF catalogVars, processVars, followerVars
<1>3. UNCHANGED <<taken, conn, last, sending, busy, got>>
  BY <1>1 DEF N!StoreAndNotify, N!Load, N!Increment, N!Format, N!Notify, N!Scan, N!Write,
              N!StoreError, N!handlerVars, N!connVars
<1>4. CatalogInv' /\ CatalogMoves BY <1>1, CatalogStays DEF Agreement
<1>5. Numbers' BY <1>1, <1>2, NumbersCall DEF Agreement
<1>6. LogComplete' BY <1>1, <1>2, LogCall DEF Agreement
<1>7. HeardInOrder' /\ ConnectionInv' /\ \A s \in Conns : Place(s)' = Place(s)
  BY <1>2, <1>3, ConnectionFrame DEF Agreement
<1>8. \A d \in Calls : Number(d)' = Number(d) BY <1>1, NumberGivenOut DEF Agreement
<1>9. EventsChain' /\ MirrorInv'
  BY <1>2, <1>3, <1>4, <1>7, <1>8, MirrorKept DEF Agreement, CatalogInv
<1> QED BY <1>4, <1>5, <1>6, <1>7, <1>9 DEF Agreement

(* Steps of connections leave the numbers and the log as they are.           *)
LEMMA CalmConnection ==
    ASSUME C!PatchesKeepIds, Agreement, NS!TypeInv,
           UNCHANGED <<catalogVars, processVars, followerVars>>,
           UNCHANGED <<latestID, log, call, reg, id, victims, notifier, taken>>,
           HeardInOrder', ConnectionInv',
           \A s \in Conns : conn'[s] = "on" => conn[s] = "on" /\ Place(s)' = Place(s)
    PROVE  Agreement'
<1>1. UNCHANGED <<events, over, heard, mirror>> BY DEF catalogVars, processVars, followerVars
<1>2. CatalogInv' /\ CatalogMoves BY CatalogStays DEF Agreement
<1>3. Numbers' BY <1>1, NumbersFrame DEF Agreement
<1>4. LogComplete' BY <1>1, LogFrame DEF Agreement
<1>5. \A c : Number(c)' = Number(c) BY DEF Number
<1>6. EventsChain' /\ MirrorInv'
  BY <1>1, <1>2, <1>5, MirrorKept DEF Agreement, CatalogInv
<1> QED BY <1>2, <1>3, <1>4, <1>6 DEF Agreement

LEMMA CalmHandler ==
    ASSUME C!PatchesKeepIds, Agreement, NS!TypeInv, NS!Served, Handler, calm'
    PROVE  Agreement'
<1>1. UNCHANGED <<catalogVars, processVars, followerVars>> BY DEF Handler
<1>2. UNCHANGED <<events, over, heard, mirror>>
  BY <1>1 DEF catalogVars, processVars, followerVars
<1>3. CASE N!Broadcast
  <2>1. CatalogInv' /\ CatalogMoves BY <1>1, CatalogStays DEF Agreement
  <2>2. Numbers' BY <1>2, <1>3, NumbersBroadcast DEF Agreement
  <2>3. UNCHANGED <<log, call, id, victims, conn>>
    BY <1>3 DEF N!Broadcast, N!queueVars, N!callVars, N!connVars
  <2>4. LogComplete' BY <1>2, <2>3, LogFrame DEF Agreement
  <2>5. /\ HeardInOrder' /\ ConnectionInv'
        /\ \A s \in Conns : conn[s] = "on" => Place(s)' = Place(s)
    BY <1>2, <1>3, ConnectionBroadcast DEF Agreement
  <2>6. \A c \in Calls : Started(c) => Number(c)' = Number(c)
    BY <1>3, NumberTaken DEF Agreement
  <2>7. EventsChain' /\ MirrorInv'
    BY <1>2, <2>1, <2>3, <2>5, <2>6, MirrorKept DEF Agreement, CatalogInv
  <2> QED BY <2>1, <2>2, <2>4, <2>5, <2>7 DEF Agreement
<1>4. ASSUME NEW s \in Conns, N!Send(s) PROVE Agreement'
  <2>1. UNCHANGED <<latestID, log, call, reg, id, victims, notifier, taken, conn>>
    BY <1>4 DEF N!Send, N!queueVars, N!callVars
  <2>2. /\ HeardInOrder' /\ ConnectionInv'
        /\ \A t \in Conns : conn[t] = "on" => Place(t)' = Place(t)
    BY <1>2, <1>4, ConnectionSend DEF Agreement
  <2> QED BY <1>1, <2>1, <2>2, CalmConnection
<1>5. ASSUME NEW s \in Conns, N!Unsubscribe(s) PROVE Agreement'
  <2>1. UNCHANGED <<latestID, log, call, reg, id, victims, notifier, taken>>
    BY <1>5 DEF N!Unsubscribe, N!queueVars, N!callVars, N!handlerVars
  <2>2. /\ HeardInOrder' /\ ConnectionInv'
        /\ \A t \in Conns : conn'[t] = "on" => conn[t] = "on" /\ Place(t)' = Place(t)
    BY <1>2, <1>5, ConnectionEnds DEF Agreement
  <2> QED BY <1>1, <2>1, <2>2, CalmConnection
<1> QED BY <1>3, <1>4, <1>5 DEF Handler

LEMMA CalmSubscribe ==
    ASSUME C!PatchesKeepIds, Agreement, NS!TypeInv, NEW s \in Conns, Subscribe(s), calm'
    PROVE  Agreement'
<1>1. /\ N!Subscribe(s) /\ UNCHANGED <<catalogVars, processVars, heard>>
      /\ mirror' = IF last[s] = None THEN db ELSE mirror
  BY DEF Subscribe
<1>2. UNCHANGED <<now, db, events, over>> BY <1>1 DEF catalogVars, processVars
<1>3. /\ UNCHANGED <<latestID, log, call, reg, id, victims, notifier, taken>>
      /\ conn[s] = "subscribing" /\ conn' = [conn EXCEPT ![s] = "on"]
  BY <1>1 DEF N!Subscribe, N!queueVars, N!callVars
<1>4. conn'[s] = "on"
  <2>1. conn \in [Conns -> {"new", "subscribing", "on", "leaving", "closed"}] BY ForTypes
  <2> QED BY <1>3, <2>1
<1>5. ~UnderWay /\ (last[s] # None => replay'[s] = N!Missed(s, last[s]))
  BY <1>3, <1>4 DEF Subscribe, Watch, Accepts
<1>6. CatalogInv' BY <1>1, CatalogStays DEF Agreement
<1>7. Numbers' BY <1>2, <1>3, NumbersFrame DEF Agreement
<1>8. LogComplete' BY <1>1, <1>3, LogFrame DEF Agreement
<1>9. /\ HeardInOrder' /\ ConnectionInv' /\ last[s] = LastHeard
      /\ Place(s)' = IF heard = <<>> THEN Len(taken) ELSE LastHeard
      /\ \A t \in Conns : conn'[t] = "on" => t = s
  BY <1>1, <1>5, ConnectionSubscribe DEF Agreement
<1>10. now \in Nat /\ db \in [Ids -> C!TD \cup {None}]
  BY StoreKeyed DEF Agreement, CatalogInv
<1>11. EventsChain' /\ MirrorInv'
  BY <1>1, <1>2, <1>3, <1>5, <1>9, <1>10, MirrorSubscribe DEF Agreement, CatalogInv
<1> QED BY <1>6, <1>7, <1>8, <1>9, <1>11 DEF Agreement

LEMMA CalmConnect ==
    ASSUME C!PatchesKeepIds, Agreement, NS!TypeInv, NEW s \in Conns, Connect(s), calm'
    PROVE  Agreement'
<1>1. /\ N!Connect(s) /\ UNCHANGED <<catalogVars, processVars, followerVars>>
      /\ \A t \in 1..(s - 1) : conn[t] \in {"leaving", "closed"}
      /\ last'[s] = LastHeard
  BY DEF Connect
<1>2. UNCHANGED heard BY <1>1 DEF followerVars
<1>3. UNCHANGED <<latestID, log, call, reg, id, victims, notifier, taken>>
  BY <1>1 DEF N!Connect, N!queueVars, N!callVars, N!handlerVars
<1>4. /\ HeardInOrder' /\ ConnectionInv'
      /\ \A t \in Conns : conn'[t] = "on" => conn[t] = "on" /\ Place(t)' = Place(t)
  BY <1>1, <1>2, ConnectionConnect DEF Agreement
<1> QED BY <1>1, <1>3, <1>4, CalmConnection

LEMMA CalmDisconnect ==
    ASSUME C!PatchesKeepIds, Agreement, NS!TypeInv, NEW s \in Conns, Disconnect(s), calm'
    PROVE  Agreement'
<1>1. N!Disconnect(s) /\ UNCHANGED <<catalogVars, processVars, followerVars>>
  BY DEF Disconnect
<1>2. UNCHANGED heard BY <1>1 DEF followerVars
<1>3. UNCHANGED <<latestID, log, call, reg, id, victims, notifier, taken>>
  BY <1>1 DEF N!Disconnect, N!queueVars, N!callVars, N!handlerVars
<1>4. /\ HeardInOrder' /\ ConnectionInv'
      /\ \A t \in Conns : conn'[t] = "on" => conn[t] = "on" /\ Place(t)' = Place(t)
  BY <1>1, <1>2, ConnectionEnds DEF Agreement
<1> QED BY <1>1, <1>3, <1>4, CalmConnection

LEMMA CalmFlush ==
    ASSUME C!PatchesKeepIds, Agreement, NS!TypeInv, NEW s \in Conns, Flush(s), calm'
    PROVE  Agreement'
<1>1. N!Flush(s) /\ UNCHANGED <<catalogVars, processVars>> BY DEF Flush
<1>2. UNCHANGED <<latestID, log, call, reg, id, victims, notifier, taken>>
  BY <1>1 DEF N!Flush, N!queueVars, N!callVars, N!handlerVars
<1>3. UNCHANGED <<now, db, events, over>> BY <1>1 DEF catalogVars, processVars
<1>4. CASE conn[s] # "on"
  <2>1. UNCHANGED followerVars BY <1>4 DEF Flush
  <2>2. UNCHANGED heard BY <2>1 DEF followerVars
  <2>3. /\ HeardInOrder' /\ ConnectionInv'
        /\ \A t \in Conns : conn'[t] = "on" => conn[t] = "on" /\ Place(t)' = Place(t)
    BY <1>1, <1>4, <2>2, ConnectionFlushed DEF Agreement
  <2> QED BY <1>1, <1>2, <2>1, <2>3, CalmConnection
<1>5. CASE conn[s] = "on"
  <2>1. /\ heard' = Append(heard, got[s][Len(got[s])])
        /\ mirror' = Follow(mirror, got[s][Len(got[s])])
    BY <1>5 DEF Flush
  <2>2. /\ HeardInOrder' /\ ConnectionInv'
        /\ Place(s) \in Nat /\ Place(s) + 1 \in 1..Len(taken)
        /\ got[s][Len(got[s])] = taken[Place(s) + 1]
        /\ heard' # <<>> /\ LastHeard' = Place(s) + 1 /\ Place(s)' = Place(s) + 1
        /\ heard # <<>> => LastHeard = Place(s)
        /\ \A t \in Conns : conn'[t] = "on" => t = s
    BY <1>1, <1>5, <2>1, ConnectionFlush DEF Agreement
  <2>3. CatalogInv' BY <1>1, CatalogStays DEF Agreement
  <2>4. Numbers' BY <1>2, <1>3, NumbersFrame DEF Agreement
  <2>5. LastHeard' \in Nat /\ (heard # <<>> => LastHeard <= LastHeard') BY <2>2
  <2>6. LogComplete' BY <1>2, <2>2, <2>5, LogHeard DEF Agreement
  <2>7. now \in Nat BY StoreKeyed DEF Agreement, CatalogInv
  <2>8. mirror' = Follow(mirror, taken[Place(s) + 1]) BY <2>1, <2>2
  <2>9. EventsChain' /\ MirrorInv'
    BY <1>2, <1>3, <1>5, <2>2, <2>7, <2>8, CatalogAssumption, MirrorFlush
       DEF Agreement, CatalogInv
  <2> QED BY <2>2, <2>3, <2>4, <2>6, <2>9 DEF Agreement
<1> QED BY <1>4, <1>5

LEMMA CalmRestart ==
    ASSUME C!PatchesKeepIds, Agreement, NS!TypeInv, restarts \in Nat, Restart, calm'
    PROVE  Agreement'
<1>1. /\ N!Crash /\ UNCHANGED <<now, events, followerVars>>
      /\ over' = over \cup {c \in Calls : Started(c)}
  BY DEF Restart
<1>2. ~UnderWay /\ \A r \in Requests : pc[r] \notin C!Steps
  <2>1. restarts' # restarts BY DEF Restart
  <2> QED BY <2>1 DEF Restart, Watch
<1>3. UNCHANGED <<heard, mirror>> BY <1>1 DEF followerVars
<1>4. CatalogInv' /\ now' = now /\ Silently BY <1>2, RestartEffect DEF Agreement
<1>5. CatalogMoves
  <2>1. now \in Nat /\ db \in [Ids -> C!TD \cup {None}]
    BY StoreKeyed DEF Agreement, CatalogInv
  <2> QED BY <1>4, <2>1, CatalogAssumption DEF CatalogMoves
<1>6. Numbers' BY <1>1, <1>2, LastKeyIs, NumbersRestart DEF Agreement
<1>7. LogComplete' BY <1>1, <1>2, <1>3, LogRestart DEF Agreement
<1>8. HeardInOrder' /\ ConnectionInv' /\ \A s \in Conns : conn'[s] # "on"
  BY <1>1, <1>3, ConnectionRestart DEF Agreement
<1>9. \A c : Number(c)' = Number(c) BY <1>1 DEF N!Crash, Number
<1>10. EventsChain' /\ MirrorInv'
  BY <1>3, <1>5, <1>8, <1>9, MirrorKept DEF Agreement, CatalogInv
<1> QED BY <1>4, <1>6, <1>7, <1>8, <1>10 DEF Agreement

LEMMA CalmStutter ==
    ASSUME C!PatchesKeepIds, Agreement, NS!TypeInv, UNCHANGED vars
    PROVE  Agreement'
<1>1. /\ UNCHANGED <<catalogVars, processVars, followerVars>>
      /\ UNCHANGED <<latestID, log, call, reg, id, victims, notifier, taken>>
      /\ UNCHANGED <<heard, conn, last, sending, busy, got>>
  BY DEF vars, notificationVars, followerVars
<1>2. HeardInOrder' /\ ConnectionInv' /\ \A s \in Conns : Place(s)' = Place(s)
  BY <1>1, ConnectionFrame DEF Agreement
<1>3. \A s \in Conns : conn'[s] = "on" => conn[s] = "on" /\ Place(s)' = Place(s)
  BY <1>1, <1>2
<1> QED BY <1>1, <1>2, <1>3, CalmConnection

LEMMA FollowerNext ==
    ASSUME C!PatchesKeepIds, FollowerInv, [Next]_vars
    PROVE  FollowerInv'
<1>1. NS!StreamInv' /\ CP!TypeInv' /\ CP!CoherentInv' BY FollowerTypes DEF FollowerInv
<1>2. NS!TypeInv /\ NS!Served /\ restarts \in Nat BY DEF FollowerInv, NS!StreamInv
<1>3. ASSUME calm' PROVE Agreement'
  <2>1. calm
    BY <1>3 DEF Next, vars, Request, Clean, Listen, Handler, Restart, Subscribe, Connect, Flush,
                Disconnect, Watch
  <2>2. Agreement BY <2>1 DEF FollowerInv
  <2> QED
    BY <1>2, <1>3, <2>2, CalmCatalog, CalmListen, CalmHandler, CalmRestart, CalmSubscribe,
       CalmConnect, CalmFlush, CalmDisconnect, CalmStutter
       DEF Next
<1>4. restarts' \in Nat
  <2>1. restarts' = restarts \/ restarts' = restarts + 1
    BY DEF Next, vars, processVars, Request, Clean, Listen, Handler, Restart, Subscribe,
           Connect, Flush, Disconnect
  <2> QED BY <1>2, <2>1
<1> QED BY <1>1, <1>3, <1>4 DEF FollowerInv

LEMMA FollowerInit == Init => FollowerInv
<1> SUFFICES ASSUME Init PROVE FollowerInv OBVIOUS
<1>1. CP!TypeInv /\ CP!CoherentInv /\ CP!AtomicInv /\ CP!Apart
  <2>1. CP!Init BY DEF Init, C!Init, CP!Init
  <2> QED BY <2>1, SameAssumptions, CatalogAssumption, CP!InitAtomic DEF CP!AtomicInv
<1>2. NS!StreamInv
  <2>1. NS!Init BY SameVars DEF Init, N!Init, NS!Init
  <2> QED BY <2>1, NotificationConstants, SameSizes, NS!InitStreamInv
<1>3. /\ events = {} /\ db = [k \in Ids |-> None] /\ mirror = db /\ heard = <<>> /\ over = {}
      /\ call = [c \in Calls |-> "idle"] /\ id = [c \in Calls |-> None] /\ latestID = 0
      /\ log = [k \in N!EventIds |-> None] /\ notifier = <<>> /\ taken = <<>>
      /\ conn = [s \in Conns |-> "new"] /\ busy = [s \in Conns |-> FALSE]
  BY DEF Init, C!Init, N!Init
<1>4. CatalogInv
  <2>1. C!Apart BY <1>1 DEF C!Apart, CP!Apart, C!Working, CP!Working, C!Steps, CP!Steps
  <2> QED BY <1>1, <1>3, <2>1 DEF CatalogInv, EventsKnown
<1>5. Numbers
  <2>1. CallsKnown BY <1>3 DEF CallsKnown
  <2>2. OneAtATime BY <1>3 DEF OneAtATime, Pending, Started
  <2>3. TakenInOrder BY <1>3 DEF TakenInOrder
  <2> QED BY <2>1, <2>2, <2>3 DEF Numbers
<1>6. LogComplete BY <1>3 DEF LogComplete
<1>7. HeardInOrder BY <1>3 DEF HeardInOrder
<1>8. ConnectionInv BY <1>3 DEF ConnectionInv
<1>9. EventsChain BY <1>3 DEF EventsChain
<1>10. MirrorInv BY <1>3 DEF MirrorInv, C!Optional
<1>11. restarts \in Nat BY DEF Init
<1> QED
  BY <1>1, <1>2, <1>4, <1>5, <1>6, <1>7, <1>8, <1>9, <1>10, <1>11 DEF FollowerInv, Agreement

(* A follower that has heard everything has the version of every TD behind   *)
(* which there is no event.                                                  *)
LEMMA FollowerExactNow == FollowerInv => FollowerExact
<1> SUFFICES ASSUME FollowerInv, calm, Settled, NEW k \in Ids
             PROVE  mirror[k] = db[k] \/ (db[k] = None /\ C!ExpiredAt(mirror[k], now))
  BY DEF FollowerExact
<1>1. Agreement /\ NS!TypeInv BY DEF FollowerInv, NS!StreamInv
<1>2. /\ ~UnderWay /\ (\A s \in Conns : ~busy[s])
  BY DEF Settled
<1>3. PICK s \in Conns : conn[s] = "on" BY DEF Settled
<1>4. Len(taken) \in Nat BY <1>1, ForTypes
<1>5. Place(s) = Len(taken)
  <2>1. sending[s] = <<>> BY <1>1, <1>2, NothingUnderWay DEF Agreement
  <2>2. Place(s) = Len(taken) - Len(sending[s]) - 0 BY <1>2 DEF Place
  <2> QED BY <1>4, <2>1, <2>2
<1>6. Continues(mirror[k], k, Len(taken)) BY <1>1, <1>3, <1>5 DEF Agreement, MirrorInv
<1>7. \A e \in events : Number(CallOf(e)) <= Len(taken)
  <2> SUFFICES ASSUME NEW e \in events PROVE Number(CallOf(e)) <= Len(taken) OBVIOUS
  <2>1. CallOf(e) \in Calls /\ Started(CallOf(e)) BY <1>1, EventIsCall DEF Agreement, CatalogInv
  <2>2. id[CallOf(e)] # None BY <1>1, <1>2, <2>1, NothingUnderWay DEF Agreement, Numbers, CallsKnown
  <2>3. id[CallOf(e)] \in 1..Len(taken) BY <1>1, <1>2, <2>1, <2>2, NothingUnderWay DEF Agreement
  <2> QED BY <1>4, <2>2, <2>3 DEF Number
<1> QED BY <1>6, <1>7 DEF Continues, Stands

(* As long as nothing comes in its way, a connected follower that has heard  *)
(* everything holds exactly the catalog, except for expired TDs, for any     *)
(* numbers of TDs, requests, connections and ends of the process             *)
(* (UpdateHandler, storeAndNotify, getAllAfter, handler, cleanExpired).      *)
THEOREM FollowerIsExact == C!PatchesKeepIds /\ Spec => []FollowerExact
<1> SUFFICES ASSUME C!PatchesKeepIds PROVE Spec => []FollowerExact OBVIOUS
<1>1. Init => FollowerInv BY FollowerInit
<1>2. FollowerInv /\ [Next]_vars => FollowerInv' BY FollowerNext
<1>3. FollowerInv => FollowerExact BY FollowerExactNow
<1> QED BY <1>1, <1>2, <1>3, PTL DEF Spec
=============================================================================
