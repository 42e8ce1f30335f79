------------------------------ MODULE Catalog ------------------------------
(* The catalog of Thing Descriptions (TDs): HTTPAPI, Controller and          *)
(* LevelDBStorage (src/catalog/http.go, controller.go, ldbstorage.go).       *)
(*                                                                           *)
(* net/http runs every request in a goroutine of its own and the controller  *)
(* runs one more, the cleaner.  They share nothing but the database and take *)
(* no lock, so the grain of the model is one storage access per step: the    *)
(* local computation (validation, reading the clock, building the document)  *)
(* belongs to the step of the access it leads to.                            *)
EXTENDS Integers

CONSTANTS
    Ids,           \* keys of the database, ordered as LevelDB iterates over them
    Urns,          \* the keys newURN can generate
    Contents,      \* what a TD says apart from its id and its registration
    Requests,      \* the HTTP requests of a run, each handled once
    Ops,           \* the methods the clients use
    Bodies,        \* the bodies of POST and PUT requests
    Patches,       \* the bodies of PATCH requests
    StorageFaults, \* whether LevelDB may answer with an error
    MaxTime,       \* bound on the clock
    MaxTTL,        \* the longest TTL that fits a time.Duration (292 years)
    Wrapped,       \* the Duration that the build makes of a longer one
    None,          \* Go's nil: an absent entry, field or result
    Keep,          \* a member that a merge patch does not mention
    EmptyId        \* the id ""

Methods == {"POST", "PUT", "PATCH", "DELETE", "GET"}
Optional(S) == S \cup {None}

(* "garbage" is not JSON, "invalid" fails the JSON schema, "badtime" holds a *)
(* registration time that ThingRegistration cannot parse, and panics.        *)
Forms == {"ok", "garbage", "invalid", "badtime"}

Body == [form : Forms, id : Optional(Ids), content : Contents,
         ttl : Optional(Int), expires : Optional(Int)]

Patch == [form : Forms, id : Optional(Ids) \cup {Keep, EmptyId},
          content : Contents \cup {Keep},
          ttl : Optional(Int) \cup {Keep}, expires : Optional(Int) \cup {Keep}]

(* A stored TD, flattened: its id member (None when it has no string id),    *)
(* its content and the members of its registration.                          *)
TD == [id : Optional(Ids), content : Contents, created : Optional(Int),
       modified : Optional(Int), ttl : Optional(Int), expires : Optional(Int)]

ASSUME IdsAssumption == Ids \subseteq Nat /\ Urns \subseteq Ids
ASSUME InputsAssumption ==
    /\ Bodies \subseteq Body
    /\ Patches \subseteq Patch
    /\ Ops \subseteq Methods
    /\ StorageFaults \in BOOLEAN
    /\ MaxTime \in Nat
ASSUME DurationAssumption == MaxTTL \in Nat /\ Wrapped \in -MaxTTL..MaxTTL
ASSUME SentinelsAssumption ==
    /\ None \notin Int /\ Keep \notin Int /\ EmptyId \notin Int
    /\ None \notin Contents /\ Keep \notin Contents
    /\ None # Keep /\ None # EmptyId /\ Keep # EmptyId
    /\ None \notin TD

VARIABLES
    now,      \* the wall clock
    db,       \* the LevelDB database: key -> TD, or None
    urns,     \* the ids newURN has given out
    pc,       \* where the goroutine of each request is
    job,      \* what it carries from one storage access to the next
    reply,    \* the HTTP response of each request
    events,   \* the listener calls started with "go c.listeners..."
    tick,     \* the channel of time.Tick (capacity 1): a time, or None
    cpc,      \* the next storage access of the cleaner
    todo      \* the expired TDs its scan found and it has not dealt with

requestVars == <<urns, pc, job, reply, events>>
cleanerVars == <<tick, cpc, todo>>
vars == <<now, db, requestVars, cleanerVars>>

Steps == {"addHas", "addPut", "updateHas", "updatePut", "deleteHas", "deleteDo"}
Statuses == {200, 201, 204, 400, 404, 409, 500}
Job == [op : Methods, key : Ids, old : Optional(TD), doc : TD]
Reply == [op : Methods, key : Optional(Ids), status : Statuses, td : Optional(TD)]
Event == [req : Requests, type : {"create", "update", "delete"},
          old : Optional(TD), td : Optional(TD)]

(* Every variable stays in its range: requests, stored documents, responses, *)
(* started listener calls and the cleaner's work list (the catalog package). *)
TypeOK ==
    /\ now \in 0..MaxTime
    /\ db \in [Ids -> Optional(TD)]
    /\ urns \subseteq Urns
    /\ pc \in [Requests -> {"ready", "done"} \cup Steps]
    /\ job \in [Requests -> Optional(Job)]
    /\ reply \in [Requests -> Optional(Reply)]
    /\ events \subseteq Event
    /\ tick \in Optional(0..MaxTime)
    /\ cpc \in {"has", "delete"}
    /\ todo \subseteq Ids \X Optional(Ids)

Init ==
    /\ now = 0
    /\ db = [k \in Ids |-> None]
    /\ urns = {}
    /\ pc = [r \in Requests |-> "ready"]
    /\ job = [r \in Requests |-> None]
    /\ reply = [r \in Requests |-> None]
    /\ events = {}
    /\ tick = None
    /\ cpc = "has"
    /\ todo = {}

---------------------------------------------------------------------------
(* Documents                                                               *)

Fits(ttl) == ttl \in -MaxTTL..MaxTTL

(* The conversion of a float64 to a 64-bit count of nanoseconds, whose       *)
(* result Go leaves to the build if it does not fit.                         *)
Duration(ttl) == IF Fits(ttl) THEN ttl ELSE Wrapped

(* Mutant: a date given earlier wins over the TTL.                           *)
computeExpiryOfDate(doc, t) ==
    IF doc.expires # None THEN doc.expires
    ELSE IF doc.ttl # None THEN t + Duration(doc.ttl) ELSE None

computeExpiry(doc, t) == IF doc.ttl # None THEN t + Duration(doc.ttl) ELSE doc.expires

Document(b, id) == [id |-> id, content |-> b.content, created |-> None,
                    modified |-> None, ttl |-> b.ttl, expires |-> b.expires]

(* Mutant: update stamps the document as if it were new.                     *)
RegisteredAnew(doc, created, t) ==
    [doc EXCEPT !.created = t, !.modified = t, !.expires = computeExpiry(doc, t)]

(* The registration that add, update and patch put into the document.       *)
Registered(doc, created, t) ==
    [doc EXCEPT !.created = created, !.modified = t, !.expires = computeExpiry(doc, t)]

(* jsonpatch.MergePatch: null removes a member, an absent member stays.     *)
Merged(member, patch) == IF patch = Keep THEN member ELSE patch

(* Mutant: the members of the patch are assigned without merging.            *)
MergePatchAssigns(old, p) ==
    [old EXCEPT !.id = Merged(@, p.id), !.content = p.content,
                !.ttl = Merged(@, p.ttl), !.expires = Merged(@, p.expires)]

(* Mutant: a registration that the patch leaves out loses its TTL.           *)
MergePatchResets(old, p) ==
    [old EXCEPT !.id = Merged(@, p.id), !.content = Merged(@, p.content),
                !.ttl = IF p.ttl = Keep THEN None ELSE p.ttl,
                !.expires = Merged(@, p.expires)]

MergePatch(old, p) ==
    [old EXCEPT !.id = Merged(@, p.id), !.content = Merged(@, p.content),
                !.ttl = Merged(@, p.ttl), !.expires = Merged(@, p.expires)]

(* update has replaced the registration member by a Go struct by the time    *)
(* its storage.update fails; ThingRegistration of that document is nil.      *)
WithoutRegistration(doc) == [doc EXCEPT !.ttl = None, !.expires = None]

Rejection(form) == IF form = "badtime" THEN 500 ELSE 400

---------------------------------------------------------------------------
(* Requests                                                                *)

Access(r, step, j) ==
    /\ pc' = [pc EXCEPT ![r] = step]
    /\ job' = [job EXCEPT ![r] = j]
    /\ UNCHANGED <<db, reply, events>>

Finish(r, op, k, status, td) ==
    /\ pc' = [pc EXCEPT ![r] = "done"]
    /\ job' = [job EXCEPT ![r] = None]
    /\ reply' = [reply EXCEPT ![r] = [op |-> op, key |-> k, status |-> status, td |-> td]]

Refuse(r, op, k, status) ==
    Finish(r, op, k, status, None) /\ UNCHANGED <<db, events>>

Publish(r, type, old, td) ==
    events' = events \cup {[req |-> r, type |-> type, old |-> old, td |-> td]}

Begin(r, op) ==
    pc[r] = "ready" /\ op \in Ops /\ UNCHANGED <<now, cleanerVars>>

Continue(r, step) ==
    pc[r] = step /\ UNCHANGED <<now, urns, cleanerVars>>

(* A client can only address ids it has been told of.                       *)
Known(k) == k \in Urns => k \in urns

Post(r, b) ==
    /\ Begin(r, "POST")
    /\ \/ /\ b.form # "ok" \/ b.id # None
          /\ Refuse(r, "POST", None, IF b.id # None THEN 400 ELSE Rejection(b.form))
          /\ UNCHANGED urns
       \/ /\ b.form = "ok" /\ b.id = None
          /\ \E k \in Urns \ urns :
                /\ urns' = urns \cup {k}
                /\ Access(r, "addHas", [op |-> "POST", key |-> k, old |-> None,
                                        doc |-> Document(b, k)])

(* Mutant: the id of the body is not compared with the path.                 *)
PutUnchecked(r, k, b) ==
    /\ Begin(r, "PUT") /\ Known(k)
    /\ b.form = "ok" /\ b.id # None
    /\ Access(r, IF db[k] = None THEN "addHas" ELSE "updateHas",
              [op |-> "PUT", key |-> k, old |-> db[k], doc |-> Document(b, b.id)])
    /\ UNCHANGED urns

(* A garbage body and an id that differs from the path are refused before    *)
(* the storage is read; otherwise update or, for an unknown id, add validates. *)
Put(r, k, b) ==
    /\ Begin(r, "PUT") /\ Known(k)
    /\ \/ /\ b.form # "ok" \/ b.id # k
          /\ Refuse(r, "PUT", k, IF b.id # k THEN 400 ELSE Rejection(b.form))
       \/ /\ b.form = "ok" /\ b.id = k
          /\ Access(r, IF db[k] = None THEN "addHas" ELSE "updateHas",
                    [op |-> "PUT", key |-> k, old |-> db[k], doc |-> Document(b, b.id)])
    /\ UNCHANGED urns

(* The id check of the handler compares an id with the path only when it is  *)
(* empty, so any other id in the patch reaches MergePatch.                   *)
PatchTD(r, k, p) ==
    /\ Begin(r, "PATCH") /\ Known(k)
    /\ \/ /\ p.form = "garbage" \/ p.id = EmptyId
          /\ Refuse(r, "PATCH", k, 400)
       \/ /\ p.form # "garbage" /\ p.id # EmptyId
          /\ \/ /\ db[k] = None
                /\ Refuse(r, "PATCH", k, 404)
             \/ /\ db[k] # None /\ p.form # "ok"
                /\ Refuse(r, "PATCH", k, Rejection(p.form))
             \/ /\ db[k] # None /\ p.form = "ok"
                /\ Access(r, "updateHas", [op |-> "PATCH", key |-> k, old |-> db[k],
                                           doc |-> MergePatch(db[k], p)])
    /\ UNCHANGED urns

Delete(r, k) ==
    /\ Begin(r, "DELETE") /\ Known(k)
    /\ \/ /\ db[k] = None
          /\ Refuse(r, "DELETE", k, 404)
       \/ /\ db[k] # None
          /\ Access(r, "deleteHas", [op |-> "DELETE", key |-> k, old |-> db[k], doc |-> db[k]])
    /\ UNCHANGED urns

Get(r, k) ==
    /\ Begin(r, "GET") /\ Known(k)
    /\ Finish(r, "GET", k, IF db[k] = None THEN 404 ELSE 200, db[k])
    /\ UNCHANGED <<db, urns, events>>

AddHas(r) ==
    LET j == job[r] IN
    /\ Continue(r, "addHas")
    /\ \/ db[j.key] # None /\ Refuse(r, j.op, j.key, 409)
       \/ db[j.key] = None /\ Access(r, "addPut", [j EXCEPT !.doc = Registered(@, now, now)])

AddPut(r) ==
    LET j == job[r] IN
    /\ Continue(r, "addPut")
    /\ db' = [db EXCEPT ![j.key] = j.doc]
    /\ Publish(r, "create", None, j.doc)
    /\ Finish(r, j.op, j.key, 201, None)

(* Not found again: PATCH gives up, PUT falls back to add.                   *)
UpdateHas(r) ==
    LET j == job[r] IN
    /\ Continue(r, "updateHas")
    /\ \/ /\ db[j.key] # None
          /\ Access(r, "updatePut", [j EXCEPT !.doc = Registered(@, j.old.created, now)])
       \/ /\ db[j.key] = None /\ j.op = "PATCH"
          /\ Refuse(r, j.op, j.key, 404)
       \/ /\ db[j.key] = None /\ j.op = "PUT"
          /\ Access(r, "addHas", [j EXCEPT !.doc = WithoutRegistration(@)])

UpdatePut(r) ==
    LET j == job[r] IN
    /\ Continue(r, "updatePut")
    /\ db' = [db EXCEPT ![j.key] = j.doc]
    /\ Publish(r, "update", j.old, j.doc)
    /\ Finish(r, j.op, j.key, 204, None)

DeleteHas(r) ==
    LET j == job[r] IN
    /\ Continue(r, "deleteHas")
    /\ \/ db[j.key] = None /\ Refuse(r, j.op, j.key, 404)
       \/ db[j.key] # None /\ Access(r, "deleteDo", j)

DeleteDo(r) ==
    LET j == job[r] IN
    /\ Continue(r, "deleteDo")
    /\ db' = [db EXCEPT ![j.key] = None]
    /\ Publish(r, "delete", j.old, None)
    /\ Finish(r, j.op, j.key, 204, None)

(* LevelDB answers the access with an error: a 500, and nothing is written.  *)
StorageError(r) ==
    /\ StorageFaults
    /\ UNCHANGED <<now, urns, cleanerVars>>
    /\ \/ /\ pc[r] \in Steps
          /\ Refuse(r, job[r].op, job[r].key, 500)
       \/ /\ pc[r] = "ready"
          /\ \E op \in Ops \ {"POST"}, k \in Ids : Known(k) /\ Refuse(r, op, k, 500)

---------------------------------------------------------------------------
(* The cleaner                                                             *)

ExpiredAt(td, t) == td # None /\ td.expires # None /\ td.expires < t

(* The wall clock.  That nobody sets it back is an assumption: the code takes *)
(* time.Now().UTC(), which has no monotonic reading once it is stored.       *)
Advance ==
    /\ now < MaxTime
    /\ now' = now + 1
    /\ UNCHANGED <<db, requestVars, cleanerVars>>

(* The ticker drops a tick that finds its channel full.                     *)
TickerFire ==
    /\ tick = None
    /\ tick' = now
    /\ UNCHANGED <<now, db, requestVars, cpc, todo>>

(* Mutant: an entry is removed in the instant it expires.                    *)
CleanScanEarly ==
    /\ todo = {} /\ tick # None
    /\ todo' = {<<k, db[k].id>> : k \in {i \in Ids : ExpiredAt(db[i], tick + 1)}}
    /\ tick' = None
    /\ UNCHANGED <<now, db, requestVars, cpc>>

(* One pass over a snapshot of the database, on the next tick.              *)
CleanScan ==
    /\ todo = {} /\ tick # None
    /\ todo' = {<<k, db[k].id>> : k \in {i \in Ids : ExpiredAt(db[i], tick)}}
    /\ tick' = None
    /\ UNCHANGED <<now, db, requestVars, cpc>>

(* An iterator that fails, or meets an entry it cannot decode, ends early:   *)
(* the list is that of the keys in front.                                    *)
CleanScanFails ==
    /\ StorageFaults
    /\ todo = {} /\ tick # None
    /\ \E n \in Ids :
          todo' = {<<k, db[k].id>> : k \in {i \in Ids : i < n /\ ExpiredAt(db[i], tick)}}
    /\ tick' = None
    /\ UNCHANGED <<now, db, requestVars, cpc>>

(* The snapshot was read in the order of the keys.                          *)
First(e) == e \in todo /\ \A f \in todo : e[1] <= f[1]

(* Mutant: the cleaner retries an entry that is gone instead of continuing.  *)
CleanHasRetries(e) ==
    /\ First(e) /\ cpc = "has"
    /\ e[2] # None /\ db[e[2]] # None
    /\ cpc' = "delete"
    /\ UNCHANGED <<now, db, requestVars, tick, todo>>

(* A TD without a string id fails the type assertion: recover restarts       *)
(* cleanExpired with a new ticker and the rest of the list is forgotten.     *)
CleanHas(e) ==
    /\ First(e) /\ cpc = "has"
    /\ \/ /\ e[2] = None
          /\ todo' = {} /\ tick' = None /\ UNCHANGED cpc
       \/ /\ e[2] # None /\ db[e[2]] = None
          /\ todo' = todo \ {e} /\ UNCHANGED <<tick, cpc>>
       \/ /\ e[2] # None /\ db[e[2]] # None
          /\ cpc' = "delete" /\ UNCHANGED <<tick, todo>>
    /\ UNCHANGED <<now, db, requestVars>>

CleanDelete(e) ==
    /\ First(e) /\ cpc = "delete"
    /\ db' = [db EXCEPT ![e[2]] = None]
    /\ todo' = todo \ {e}
    /\ cpc' = "has"
    /\ UNCHANGED <<now, requestVars, tick>>

(* An error of the storage: the cleaner logs it and continues with the next. *)
CleanError(e) ==
    /\ StorageFaults
    /\ First(e) /\ e[2] # None
    /\ todo' = todo \ {e}
    /\ cpc' = "has"
    /\ UNCHANGED <<now, db, requestVars, tick>>

---------------------------------------------------------------------------

Start(r) ==
    \/ \E b \in Bodies : Post(r, b) \/ \E k \in Ids : Put(r, k, b)
    \/ \E k \in Ids : Delete(r, k) \/ Get(r, k) \/ \E p \in Patches : PatchTD(r, k, p)

Handle(r) ==
    AddHas(r) \/ AddPut(r) \/ UpdateHas(r) \/ UpdatePut(r) \/ DeleteHas(r) \/ DeleteDo(r)

Cleaner ==
    CleanScan \/ CleanScanFails \/ \E e \in todo : CleanHas(e) \/ CleanDelete(e) \/ CleanError(e)

Next ==
    \/ \E r \in Requests : Start(r) \/ Handle(r) \/ StorageError(r)
    \/ Advance \/ TickerFire \/ Cleaner

Spec == Init /\ [][Next]_vars

(* The runtime keeps the ticker firing and schedules the cleaner's goroutine; *)
(* nothing is assumed of clients or of the handlers of their requests.       *)
CleanerFairness ==
    WF_vars(TickerFire) /\ WF_vars(Cleaner)

FairSpec == Spec /\ CleanerFairness

---------------------------------------------------------------------------
(* Properties                                                              *)

(* Every TD is stored under the id it carries, so that GET, DELETE and the   *)
(* cleaner, which takes the key from the document, mean the same entry       *)
(* (the id checks of Put and Patch, add's newURN, cleanExpired).             *)
KeyMatchesBody == \A k \in Ids : db[k] # None => db[k].id = k

(* What the id check of Put enforces and that of Patch does not.            *)
PatchesKeepIds == \A p \in Patches : p.id \in {Keep, EmptyId}

(* The registration that is read back is coherent, however add, update,      *)
(* patch and the clock interleave: created at or before the last change,     *)
(* which is not in the future, and expiring one TTL after that change; a TTL *)
(* too long for a Duration counts as some other one that is not.             *)
Coherent(td) ==
    /\ td.created # None /\ td.modified # None
    /\ td.created <= td.modified /\ td.modified <= now
    /\ td.ttl # None =>
          LET lifetime == td.expires - td.modified IN
          Fits(lifetime) /\ (Fits(td.ttl) => lifetime = td.ttl)
RegistrationCoherent == \A k \in Ids : db[k] # None => Coherent(db[k])

Announced(td) == \E e \in events : e.td = td

(* The listeners can follow the catalog: every version that the storage      *)
(* holds, that a GET returned, or that an update or delete event shows as    *)
(* old was announced as the new version of an event, and an update event     *)
(* keeps the creation time.  So every version traces back to a create event  *)
(* (the calls of add, update, patch and delete to the listeners).            *)
EventsExplainVersions ==
    /\ \A k \in Ids : db[k] # None => Announced(db[k])
    /\ \A r \in Requests : (reply[r] # None /\ reply[r].td # None) => Announced(reply[r].td)
    /\ \A e \in events :
          /\ e.old # None => Announced(e.old)
          /\ e.type = "update" => e.td.created = e.old.created

SilentlyRemoved(k) == db[k] # None /\ db'[k] = None /\ events' = events

(* The cleaner acts by a list that may be out of date and takes the key from *)
(* the document it read.  Whatever requests have done since the scan, it     *)
(* removes nothing under an id of which no announced version had expired.    *)
(* (It may remove a later version of that: SilentRemovalOnlyOfExpired.)      *)
AnnouncedAndExpired(k) ==
    \E e \in events : e.td # None /\ e.td.id = k /\ ExpiredAt(e.td, now)
RemovalsExplained == \A k \in Ids : SilentlyRemoved(k) => AnnouncedAndExpired(k)
RemovedWasExpired == [][RemovalsExplained]_vars

(* What the cleaner's message "Removing expired registration" says: the entry *)
(* it removes has expired.  Violated by a TD that is renewed between the     *)
(* cleaner's scan and its delete (cleanExpired).                             *)
SilentRemovalOnlyOfExpired ==
    [][\A k \in Ids : SilentlyRemoved(k) => ExpiredAt(db[k], now)]_vars

(* A create is only confirmed for an id that was free (ConflictError of      *)
(* LevelDBStorage.add).                                                      *)
CreateNeverOverwrites ==
    [][\A r \in Requests : (reply'[r] # reply[r] /\ reply'[r].status = 201)
                            => db[reply'[r].key] = None]_vars

(* An entry that has expired is removed, or its expiry is moved, in the end  *)
(* (cleanExpired is to be run on every tick).                                *)
ExpiredEventuallyRemoved ==
    \A k \in Ids : ExpiredAt(db[k], now) ~> ~ExpiredAt(db[k], now)
=============================================================================
