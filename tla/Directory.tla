----------------------------- MODULE Directory -----------------------------
(* The directory as main puts it together: the catalog, the notification of  *)
(* its events, the end of the process at any moment and its next start, and  *)
(* a client that keeps a mirror of the catalog by following the events       *)
(* (src/main.go, src/catalog/events.go, src/notification).                   *)
EXTENDS Integers, Sequences, FiniteSets

CONSTANTS
    Ids, Urns, Contents, Requests, Ops, Bodies, Patches,  \* see Catalog
    MaxTime, MaxTTL, Wrapped, None, Keep, EmptyId,        \* see Catalog
    Capacity,      \* how many events the queue keeps
    StorageFaults, \* whether LevelDB may answer with an error
    MaxConns,      \* how often the follower may connect
    MaxRestarts    \* how often the process may end and start again

VARIABLES
    now, db, urns, pc, job, reply, events, tick, cpc, todo,  \* see Catalog
    latestID, log, call, reg, id, victims, notifier,         \* see Notification
    conn, last, busy, got, sending, stage, taken, joined, replay,
    restarts,      \* how often the process has started again
    over,          \* the calls that had been started before that
    mirror,        \* the catalog as the follower holds it
    heard,         \* the events it has read from its connections
    calm           \* whether nothing came in the way of its mirror (history)

Conns == 1..MaxConns
Types == {"create", "update", "delete"}

(* A request starts at most one listener call, of the type of its event.     *)
Calls == Requests \X Types
TypeOf == [c \in Calls |-> c[2]]
Wants == [s \in Conns |-> Types]

C == INSTANCE CatalogAtomic WITH StorageFaults <- TRUE
N == INSTANCE Notification WITH pc <- call, todo <- sending,
                                StorageFaults <- TRUE, Crashes <- TRUE, Stops <- FALSE

catalogVars == <<now, db, urns, pc, job, reply, events, tick, cpc, todo>>
notificationVars == <<latestID, log, call, reg, id, victims, notifier, conn, last, busy, got,
                      sending, stage, taken, joined, replay>>
processVars == <<restarts, over>>
followerVars == <<mirror, heard>>
vars == <<catalogVars, notificationVars, processVars, followerVars, calm>>

ASSUME DirectoryAssumption ==
    /\ IsFiniteSet(Requests)
    /\ Capacity \in Nat \ {0} /\ MaxConns \in Nat /\ MaxRestarts \in Nat
    /\ StorageFaults \in BOOLEAN
    /\ None \notin Calls /\ None \notin C!Reply

(* What Catalog assumes of its constants.                                    *)
ASSUME CatalogAssumption ==
    /\ Ids \subseteq Nat /\ Urns \subseteq Ids
    /\ Bodies \subseteq C!Body /\ Patches \subseteq C!Patch /\ Ops \subseteq C!Methods
    /\ MaxTime \in Nat /\ MaxTTL \in Nat /\ Wrapped \in -MaxTTL..MaxTTL
    /\ {None, Keep, EmptyId} \cap Int = {} /\ {None, Keep} \cap Contents = {}
    /\ None # Keep /\ None # EmptyId /\ Keep # EmptyId
    /\ None \notin C!TD

---------------------------------------------------------------------------
(* What an event says                                                      *)

Started(c) == \E e \in events : e.req = c[1] /\ e.type = c[2]
EventOf(c) == CHOOSE e \in events : e.req = c[1] /\ e.type = c[2]

(* Mutant: a member that the new document lacks is not mentioned.            *)
CreateMergePatchOfPresent(old, new) ==
    [m \in {n \in DOMAIN new : new[n] # old[n] /\ new[n] # None} |-> new[m]]

(* jsonpatch.CreateMergePatch: what has changed, null for what is gone.      *)
CreateMergePatch(old, new) == [m \in {n \in DOMAIN new : new[n] # old[n]} |-> new[m]]

(* What f says, and g where f says nothing.                                  *)
Over(f, g) ==
    [m \in DOMAIN f \cup DOMAIN g |-> IF m \in DOMAIN f THEN f[m] ELSE g[m]]

(* The document of an event: the whole of a new TD, the merge patch of one   *)
(* that has changed with the id it had, the id of one that was deleted.      *)
Data(e) ==
    CASE e.type = "create" -> e.td
      [] e.type = "update" -> Over([id |-> e.old.id], CreateMergePatch(e.old, e.td))
      [] e.type = "delete" -> [id |-> e.old.id]

(* What the follower makes of an event; of an update only if it has the TD.  *)
Follow(held, e) ==
    LET type == EventOf(e.call).type
        data == Data(EventOf(e.call))
    IN CASE type = "create" -> [held EXCEPT ![data.id] = data]
         [] type = "update" -> [held EXCEPT ![data.id] = IF @ = None THEN None ELSE Over(data, @)]
         [] type = "delete" -> [held EXCEPT ![data.id] = None]

---------------------------------------------------------------------------
(* What may come in the way of the mirror                                  *)

(* An event is under way until it is stored and handed to the subscribers.   *)
Pending(c) == Started(c) /\ c \notin over /\ call[c] \notin {"done", "lost"}
UnderWay == (\E c \in Calls : Pending(c)) \/ notifier # <<>> \/ ~N!AtSelect

Accepts(s) == conn[s] = "subscribing" /\ conn'[s] = "on"
Unstored(c) == call[c] \in {"scan", "write"} /\ call'[c] = "done" /\ log'[id[c]] # c
Forgotten(k) ==
    /\ log[k] # None /\ log'[k] = None
    /\ \A i \in 1..Len(heard) : heard[i].id < k

(* Activities on one id that overlap, a write that is done while an event is *)
(* under way, a connection accepted or a process ended then, a request cut   *)
(* short by that end, an event that cannot be stored, a replay that cannot   *)
(* be read, and an event rotated away before the follower has heard it.      *)
Watch ==
    calm' = /\ calm
            /\ C!Apart'
            /\ events' # events => ~UnderWay
            /\ \A s \in Conns : Accepts(s) =>
                  ~UnderWay /\ (last[s] # None => replay'[s] = N!Missed(s, last[s]))
            /\ restarts' # restarts => ~UnderWay /\ \A r \in Requests : pc[r] \notin C!Steps
            /\ \A c \in Calls : ~Unstored(c)
            /\ \A k \in N!EventIds : ~Forgotten(k)

---------------------------------------------------------------------------
(* The parts at work                                                       *)

Request ==
    /\ \E r \in Requests :
          \/ C!Start(r) \/ C!Handle(r)
          \/ StorageFaults /\ C!StorageError(r)
    /\ UNCHANGED <<notificationVars, processVars, followerVars>>
    /\ Watch

(* The clock, the ticker and the cleaner.                                    *)
Clean ==
    /\ \/ C!Advance \/ C!TickerFire \/ C!CleanScan
       \/ \E e \in todo : C!CleanHas(e) \/ C!CleanDelete(e) \/ (StorageFaults /\ C!CleanError(e))
       \/ StorageFaults /\ C!CleanScanFails
    /\ UNCHANGED <<notificationVars, processVars, followerVars>>
    /\ Watch

(* The goroutine of an event, in the process that started it.                *)
Listen(c) ==
    /\ Started(c) /\ c \notin over
    /\ \/ N!Load(c) \/ N!Increment(c) \/ N!Format(c) \/ N!Notify(c) \/ N!Scan(c) \/ N!Write(c)
       \/ StorageFaults /\ N!StoreError(c)
    /\ UNCHANGED <<catalogVars, processVars, followerVars>>
    /\ Watch

Handler ==
    /\ N!Broadcast \/ \E s \in Conns : N!Send(s) \/ N!Unsubscribe(s)
    /\ UNCHANGED <<catalogVars, processVars, followerVars>>
    /\ Watch

(* A follower that has heard nothing reads the whole catalog in the moment   *)
(* the handler accepts it: an ideal client.  A real one has to read after it *)
(* is accepted, and to put what it hears meanwhile in order with it.         *)
Subscribe(s) ==
    /\ N!Subscribe(s)
    /\ (~StorageFaults /\ last[s] # None) => replay'[s] = N!Missed(s, last[s])
    /\ mirror' = IF last[s] = None THEN db ELSE mirror
    /\ UNCHANGED <<catalogVars, processVars, heard>>
    /\ Watch

---------------------------------------------------------------------------
(* The follower                                                            *)

LastHeard == IF heard = <<>> THEN None ELSE heard[Len(heard)].id

(* Its next connection names the last event that it has heard.               *)
Connect(s) ==
    /\ N!Connect(s)
    /\ \A t \in 1..(s - 1) : conn[t] \in {"leaving", "closed"}
    /\ last'[s] = LastHeard
    /\ UNCHANGED <<catalogVars, processVars, followerVars>>
    /\ Watch

(* What is written to a connection that is gone is not heard.                *)
Flush(s) ==
    /\ N!Flush(s)
    /\ IF conn[s] = "on"
       THEN LET e == got[s][Len(got[s])]
            IN  heard' = Append(heard, e) /\ mirror' = Follow(mirror, e)
       ELSE UNCHANGED followerVars
    /\ UNCHANGED <<catalogVars, processVars>>
    /\ Watch

Disconnect(s) ==
    /\ N!Disconnect(s)
    /\ UNCHANGED <<catalogVars, processVars, followerVars>>
    /\ Watch

---------------------------------------------------------------------------
(* The process                                                             *)

(* Mutant: a document can be stored before it has got its registration.      *)
WrittenEarly(k) ==
    {job[r].doc : r \in {q \in Requests : pc[q] \in {"addHas", "addPut", "updatePut"}
                                           /\ job[q].key = k}}

(* What a request or the cleaner that is about to write k leaves there.      *)
Written(k) ==
    {job[r].doc : r \in {q \in Requests : pc[q] \in {"addPut", "updatePut"} /\ job[q].key = k}}
    \cup {None : r \in {q \in Requests : pc[q] = "deleteDo" /\ job[q].key = k}}
    \cup {None : e \in {f \in todo : cpc = "delete" /\ C!First(f) /\ f[2] = k}}

(* The process crashes, or main returns, and it is started again.  Nothing   *)
(* but the databases survives.  A write under way may be done, and its event *)
(* is never sent; the counter of the event queue is read from the log.       *)
Restart ==
    /\ restarts < MaxRestarts
    /\ restarts' = restarts + 1
    /\ \E survives \in [Ids -> UNION {Written(k) \cup {db[k]} : k \in Ids}] :
          /\ \A k \in Ids : survives[k] \in Written(k) \cup {db[k]}
          /\ db' = survives
    /\ pc' = [r \in Requests |-> IF pc[r] \in C!Steps THEN "done" ELSE pc[r]]
    /\ job' = [r \in Requests |-> None]
    /\ tick' = None /\ cpc' = "has" /\ todo' = {}
    /\ N!Crash
    /\ over' = over \cup {c \in Calls : Started(c)}
    /\ UNCHANGED <<now, urns, reply, events, followerVars>>
    /\ Watch

Init ==
    /\ C!Init /\ N!Init
    /\ restarts = 0 /\ over = {}
    /\ mirror = db /\ heard = <<>>
    /\ calm = TRUE

Next ==
    \/ Request \/ Clean \/ Handler \/ Restart
    \/ \E c \in Calls : Listen(c)
    \/ \E s \in Conns : Subscribe(s) \/ Connect(s) \/ Flush(s) \/ Disconnect(s)

Spec == Init /\ [][Next]_vars

---------------------------------------------------------------------------
(* Properties                                                              *)

(* As long as nothing came in its way (Watch), a follower that is connected  *)
(* and has heard everything holds exactly the catalog, whatever connections  *)
(* and processes have ended meanwhile, except for expired TDs, the removal   *)
(* of which is not announced (UpdateHandler, storeAndNotify, getAllAfter,    *)
(* cleanExpired).                                                            *)
Settled == ~UnderWay /\ (\A s \in Conns : ~busy[s]) /\ \E s \in Conns : conn[s] = "on"
FollowerExact ==
    calm /\ Settled =>
        \A k \in Ids : mirror[k] = db[k] \/ (db[k] = None /\ C!ExpiredAt(mirror[k], now))

(* The registrations in the database are coherent whenever the process ends, *)
(* also in the middle of a write (add, update, patch).                       *)
CoherentAcrossRestarts == C!RegistrationCoherent
=============================================================================
