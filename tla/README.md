# A verification development of the LinkSmart Thing Directory

TLA+ models of the Thing Directory's catalog and of its event notification, TLC
configurations that check them on small instances, and TLAPS proofs for every
instance. The models are translated from `src/`; the map from each definition to
its lines is in `PROJECT.json`.

## The system

The directory stores Thing Descriptions (TDs) in LevelDB, serves them over HTTP,
removes those that have expired and tells subscribers over Server-Sent Events
(SSE) what has changed.

| Component | State | Operations | Talks to |
|---|---|---|---|
| `catalog.HTTPAPI` (`catalog/http.go`) | none | Post, Put, Patch, Get, Delete; GetMany, GetAll, searches, GetValidation | the catalog controller, by call; one goroutine per request |
| `catalog.Controller` (`catalog/controller.go`) | listeners (fixed at start) | add, get, update, patch, delete, list..., filter..., cleanExpired | storage, by call; listeners, in one new goroutine per event |
| the cleaner (`cleanExpired`) | its ticker, the list of one scan | scan, delete one by one, recover and restart | storage |
| `LevelDBStorage` (`catalog/ldbstorage.go`) | the database, a wait group | add, get, update, delete, list, listAllBytes, total, iterator, iterateBytes, Close | LevelDB; each LevelDB call is atomic, no call spans two |
| `notification.Controller` (`notification/controller.go`) | the channels, the active clients | Create/Update/DeleteHandler and storeAndNotify (callers' goroutines), the handler loop (one goroutine), subscribe, unsubscribe, Stop | the event queue; subscribers over unbuffered channels |
| `LevelDBEventQueue` (`notification/ldb_eventqueue.go`) | `latestID`, the log, a wait group | getNewID, addRotate, getAllAfter, fetchLatestID, Close | LevelDB |
| `SSEAPI` (`notification/sse.go`) | a channel per request | SubscribeEvent | the notification controller |
| `main.go` | none | start, wait for a signal, deferred Stop and Close calls in reverse order | all |
| searches (`filterJSONPath`, `filterXPath`, ... in `catalog/controller.go`) | none | list everything, evaluate a path, convert what it finds | the storage's listings; jsonquery and jsonpath |
| router, configuration, DNS-SD, service catalog, JSON Schemas | none of interest | stateless or at start only | third-party libraries |

What is hard about it:

* **No locks.** Requests, the cleaner and the listener calls share the database and
  `latestID`, and nothing orders them. `add`, `update` and `delete` are a `Has`
  followed by a `Put` or `Delete`; `patch` is a read, a merge, a `Has` and a `Put`.
* **Snapshots.** The cleaner deletes by a list that was true when it was made.
* **Panics.** A registration time that does not parse panics in a request (recovered
  by the middleware: 500); a TD without an id panics in the cleaner (recovered by
  its own restart).
* **Channels.** The handler sends synchronously to clients that may be slow or
  leaving, and every listener call needs the handler.
* **Crashes.** The log of events and the catalog survive, the counter, the channels and
  the events under way do not.
* **Followers.** A client that mirrors the catalog depends on the order of goroutines it
  cannot see, on a window of past events, and on merge patches that fit one version.
* **Shutdown.** `main` calls `Stop` and `Close` while requests and listener calls go on.
* **Conversions.** A TTL may not fit a `time.Duration`; XPath results are rebuilt from
  texts that no longer say of which type they were.

What makes the components correct, in one line each: every version a reader can see
was announced to the listeners; the registration of a TD is coherent; a TD is stored
under its own id; nothing disappears without a delete that never had expired; what has
expired goes in the end; requests on one id look atomic; an SSE subscriber gets every event
of its types in one order, including those it missed, and none twice; event ids are unique
and grow; rotation keeps the window; no call and no client is stuck; a client that follows
the events, over reconnections and restarts, holds the catalog; what a search answers is
what it found. The code does not keep all of this in every case: where it does not,
a property is stated under the condition that keeps it, and a violating run shows the
case (see Findings).

## The modules

| Module | What it is |
|---|---|
| `Registry` | the abstract specification: a store in which every request is one step |
| `Catalog` | HTTPAPI + Controller + LevelDBStorage for single TDs, and the cleaner |
| `CatalogAtomic` | the condition under which `Catalog` implements `Registry`, and the refinement |
| `CatalogProofs`, `CatalogAtomicProofs` | theorems about `Catalog` |
| `MCCatalog`, `MCCatalogAtomic` | TLC instances |
| `Notification` | notification controller, SSE requests and event queue |
| `NotificationProofs`, `NotificationStreamProofs` | theorems about `Notification`: its queue, and what subscribers get |
| `MCNotification` | TLC instances |
| `Directory` | `Catalog` and `Notification` composed, the process that ends and starts again, a client that follows the events |
| `DirectoryProofs`, `FollowerProofs` | theorems about `Directory`: what its components' promises become in it, and what a follower holds |
| `MCDirectory` | a TLC instance |
| `Listing` | pages, listings of everything, streams, the storage's wait group and `Close` |
| `ListingProofs` | theorems about `Listing` |
| `XPath`, `Search` | what searches answer |
| `MCListing` | TLC instances of `Search`, and so of `Listing` |
| `Order`, `OrderProofs` | the order of a LevelDB iterator, and lemmas about it |

`Directory` takes `CatalogAtomic` and `Notification` by `INSTANCE`, `CatalogAtomic` takes
`Registry`; `Search` extends `Listing` and `XPath`; `Listing` and `Notification` extend
`Order`.

### Catalog

`db` is LevelDB (key to TD), `now` the clock. Each request has a program counter `pc`
and a `job`, the local variables it carries between two storage accesses. One action
is one storage access together with the local computation it leads to:

* `Post`, `Put`, `PatchTD`, `Delete`, `Get`: the handler up to the first access that
  can be observed (reading and parsing the body, the id checks, `storage.get`,
  validation, the merge of a patch). A refusal is complete in this action.
* `AddHas`/`AddPut`, `UpdateHas`/`UpdatePut`, `DeleteHas`/`DeleteDo`: the two LevelDB
  calls of `storage.add`, `update`, `delete`. The `...Has` step also builds the
  registration (it reads the clock); the `...Put` step starts the listener goroutine
  (`events`) and answers.
* `UpdateHas` of a `PUT` that finds nothing falls back to `add`; the document has by
  then lost the registration members a second `ThingRegistration` could read
  (`WithoutRegistration`).
* `StorageError`: LevelDB fails at any access: 500.
* `TickerFire`, `CleanScan`, `CleanHas`, `CleanDelete`, `CleanError`: `cleanExpired`.
  A tick carries the time it was sent at and is dropped if the channel is full.
  `CleanScanFails`: an iterator with an error, or an entry that cannot be decoded, ends
  the scan early, and the cleaner works on what it has got.
* `Advance`: the wall clock. The code takes `time.Now().UTC()`, and nothing keeps an
  operator from setting the clock back; the model assumes that nobody does. The coherence
  of registrations (`created <= modified <= now`) depends on it; it is listed as a hazard.

Data: a TD is a record of its id, an opaque content and the registration's members,
times are small integers, `Forms` stands for what parsing and validation find.
JSON, the schemas and error texts are left out. `Optional(S)` adds Go's nil.
An iterator's scan is one step: LevelDB iterators read a snapshot.

`Duration` is the conversion of a TTL, a float64 of seconds, to the 64-bit nanoseconds of
`time.Duration`: up to `MaxTTL` it is exact, beyond it is `Wrapped`, which Go leaves to
the build. On amd64 the conversion gives the least integer (`LeastDuration` in
`MCCatalog`), so that a TD with a TTL of 300 years has expired when it is created; the
proofs hold for any value of `Wrapped` within the range. `RegistrationCoherent` says
what is kept: the lifetime is one a Duration can be, and the TTL if that fits.

`events` is a set: the goroutines that call the listeners run in any order, so no
order is claimed here.

`Registry` is what clients and listeners may take the catalog for: `Create`, `Replace`,
`Amend`, `Remove`, `Read`, `Refuse` and `Expire`, each in one step, with the response and
the event it gives. The mapping is `store <- db`. `Apart` (in `CatalogAtomic`) says that
no two requests with a key in hand have the same key, and that none has the key of an
entry on the cleaner's list; `ApartSpec` are the behaviours in which it stays true.

### Notification

Each listener call runs `Load`, `Increment`, `Format` (the load, the store and the
result of `getNewID`, which has no lock), `Notify` (the channel of capacity 1),
`Scan` and `Write` (the snapshot and the batch of `addRotate`). The result of
`getNewID` may be the value read back or the one in the register: both are outcomes
of a racy program. `addRotate` reads `latestID` immediately before its snapshot, and
`Scan` is both; no access to the log lies between them, and an id that is given out between
them only makes the window of that call an older one. The compiler
loads it once. The handler is `Subscribe`, `Broadcast`, `Send`,
`Unsubscribe`; it is at its `select` when nothing is left `todo`. A request
(`conn`) goes new, subscribing, on, leaving, closed; `busy` is the time its
goroutine writes to the client. `Crash` loses everything but `log` and starts
the counter from the last key; running calls are lost. `taken`, `joined`, `replay`
and `got` are history, used by properties only.

`stage` is where `main` and the handler are on the way to the end: `Signal` (`main` calls
`Stop`, which sends to the handler), `Stop` (the handler takes it at its `select` and
returns), `Wait` and `Close` (`eventQueue.Close`: the wait group, which counts the calls
in the batch of `addRotate`, then the database). The handler's end releases nobody: a
call at `Notify` and a client that is leaving wait until the process is gone
(`Stranded`, `Deserted`), and a call that comes to the queue late finds it closed.

The handler walks over Go's unordered map of clients: `Send` of any client with
something to do may be next. Only one send is under way in the code, and since a
client that reads ends each of them this makes no difference to what is delivered.
An event carries its id and its call; the document it holds is in `Directory`.

Three restrictions of the behaviours say what some promises depend on. `SerialIds`: one
call at a time is in `getNewID`, as with a lock. `CalmJoin`: no subscriber is accepted
while an event that the handler has taken is not stored. `FreshJoin`: none is accepted while
an event that is stored is still in the channel. `SerialSpec`, `CalmSpec` and `FreshSpec`
keep to one each; the run `notification_calm` (`CalmSerialSpec`) keeps to the first two. The
first restriction of subscribers keeps the replay from lacking an event, the other keeps it
from holding one that is still to be broadcast: the code does neither.

### Order

LevelDB iterates over its keys in ascending order; keys and ids are numbers here. `Rank`
counts the smaller elements of a set, `Sorted` is the set in order, and `Extract` the
elements of a sequence at the places in a set. They are defined by counting rather than by
sorting or filtering step by step, because the prover can reason about cardinalities and
not about a recursive definition.

### Directory

`Request`, `Clean`, `Listen`, `Handler`, `Subscribe`, `Connect`, `Flush` and `Disconnect` are
steps of the two components on their own variables (`pc` and `todo` of `Notification` are
called `call` and `sending` here). What joins them is `events`: a listener call is named
by the request that started it and the type of its event, and runs only if that event
was started (`Started`) in the life of the process that started it (`over`).

`Restart` ends the process at any moment and starts it again. Both databases survive; a
write under way may be done or not (`Written`), its request gets no answer, its event is
never sent, the cleaner forgets its list, and `Notification` does its `Crash`.

The follower is a client of this API as a user would write it; it is external. It reads the
catalog into its `mirror` when it subscribes for the first time, then hears events (`heard`) and
reconnects with the id of the last one. It is an ideal client: that it reads the catalog in
one step, at the moment the handler accepts it, is something the API gives no client a way to
do, so that `FollowerExact` speaks of what the events can do and not of how the first copy
is made. It hears an event when a live connection is flushed, and
brings its mirror up to date in the same step (`Follow`). `Data` is what the code puts in an
event: the TD of a create, the merge patch of an update with the id (`CreateMergePatch`: null
for members that are gone), the id of a delete. An update of a TD that the follower does not
hold, it cannot apply.

`Watch` says what may make the mirror wrong, and `calm` that none of it has happened: activities
on one id overlap (`Apart` of `CatalogAtomic`); a write is done while an earlier event is under
way; a subscription is accepted, or the process ends, while one is; a request is cut short by
the end of the process; an event cannot be stored, or a replay cannot be read; an event is
rotated away before the follower has heard it. `FollowerExact` promises the mirror as long as
`calm`. None of these conditions is idle: without any one of them the property fails, most in
this instance, the last one with three requests.

### Listing

`db` is the set of keys; what an entry holds does not matter here. A LevelDB iterator
reads the snapshot of the moment it was opened, so that a scan within one function is
one step, and what races is what lies between two scans.

* `GetMany` parses a request for a page, or begins a search, which reads everything by
  `listAll`. Each page is `Total` (one snapshot) and `Scan` (another); `Scan` fills the
  slots of the page that `GetPagingAttr` computed from the first. Slots behind the end
  of the second snapshot stay `Nil`, as in the code, and are answered as `null`.
  `listAll` goes on while the pages so far hold fewer entries than were counted last.
* `ListAllBytes` is the present search API: one snapshot.
* `Evaluate` is the end of either: a page is answered; a search may be refused because
  its path cannot be evaluated (400), or fail (500) because a definite JSONPath gives no
  list, or because its result is more than JSON can say.
* `GetAll` starts the goroutine of `iterateBytes`. `prod` is where that is (`start`,
  `next`, `send`, `end`), `cons` where the handler is (`receive`, `write`, `finished`,
  `left`). `OpenIterator` is `wg.Add` and `NewIterator`; `Produce` the loop's head with
  its look at the context; `Transfer` the rendezvous on the channel, which has no
  buffer; `WriteItem`, `EndOfStream` the handler; `Release` the deferred calls.
* `ListError` and `ListBroken` are the ways a list can fail. At an entry that it cannot
  decode, `list` returns without `iter.Release` and `wg.Done`: the request is `broken` and
  its count in the wait group stays.
* `Leave` is the client closing its connection; each side finds out for itself, the
  goroutine before it sends and the handler after it has received.
* `Signal`, `Wait`, `Close`: `main` in `storage.Close`. Nothing keeps requests from
  beginning between `wg.Wait` and `db.Close`, so these are two steps. An iterator that is
  open when the database is closed goes on or ends with an error; `late` marks those
  opened after `Wait` returned.

`before`, `grew`, `shrank`, `snap`, `cut` and `late` are history.

### XPath and Search

Which values a path finds is the business of the jsonpath and jsonquery libraries: `Finds`
gives them for each entry. What the code does with them is modelled. JSONPath answers
with them as they are. For XPath, jsonquery has parsed the listing into nodes with
texts (`parseValue`), and `getObjectFromXPathNode` makes values of nodes again, with
`basicTypeFromXPathStr` at the leaves. `Plain` characterises the values that come back
as they were. Others do not: a string that reads like a number or a truth value becomes
one, an empty string becomes an array that holds it, an empty array and null become an empty
object, an object with a nameless member an array; a string like `NaN` becomes a number
that JSON cannot say, and the whole answer a 500. `Slice` is the page of the results
that the deprecated searches of `GetMany` answer with.

## The runs

| Run | Result | What it shows |
|---|---|---|
| `catalog_races` | pass | Under every interleaving of three requests of any method, the cleaner and storage errors: `TypeOK`, `RegistrationCoherent`, `EventsExplainVersions`, and `RemovedWasExpired`: the cleaner removes nothing under an id of which no announced version had expired. |
| `catalog_cleaner` | pass | With POST, PUT, PATCH and DELETE, and patches that keep ids: `ExpiredEventuallyRemoved`. |
| `catalog_atomic` | pass | If the activities on one id do not overlap (`Apart`), and patches keep ids, `Catalog` implements `Registry` (`AtomicRegistry`), and `KeyMatchesBody`. |
| `catalog_conflict` | violation of `CreateNeverOverwrites` | Two PUTs of one new id are both told 201. |
| `catalog_renewed` | violation of `SilentRemovalOnlyOfExpired` | A TD that a PUT renews between the cleaner's scan and its delete is removed. |
| `catalog_starved` | violation of `ExpiredEventuallyRemoved` | A PATCH removes the id of a TD, which the check of `Patch` lets pass; the TD stays for ever, and stops the cleaner for all later keys. |
| `notification_streams` | pass | With storage errors, crashes and shutdowns: `TypeOK`, `StreamInOrder`, `TwiceOnlyAtJoin`, `CallsReturn`, `LeaversReleased`, `StopEnds`. |
| `notification_calm` | pass | With crashes, but getNewID one at a time and no subscription between broadcast and store: `NoMissedEvents`, `NewIdsLargest`, `OnlyOldDropped`. |
| `notification_ids` | violation of `UniqueIds` | Two calls in `getNewID` give one id. |
| `notification_missed` | violation of `NoMissedEvents` | A client accepted between broadcast and store misses the event. |
| `directory` | pass | The whole, with storage errors, a restart and a follower that reconnects: `FollowerExact`; and `CoherentAcrossRestarts`. |
| `listing` | pass | `StableListingExact`, `NoneTwice`, `GapsOnlyAfterRemovals` of pages; `SearchExact` of searches; `StreamIsSnapshot`, `StreamsEnd` of streams; `CloseWaitsForReaders`, `CloseReturns`; `TypeOK`. |

The passing runs whose specification is restricted (`ApartSpec`, `CalmSerialSpec`)
say under which condition the promise holds; `catalog_conflict`, `notification_ids` and
`notification_missed` show that the conditions are needed.
Deadlock is not checked in the notification runs, in `directory` and
in `listing`: calls and requests are used once, and the system may stop when all are done.

**Bounds of `Catalog`.** Two ids (one a client chooses, one that `newURN` generates),
three requests (two for the conflict and the renewed TD), a clock up to 2, two
contents, `MaxTTL` 1 with a body whose TTL is 2. Three requests are the least for a race of two on an
entry a third has created, two ids let a patched id collide with another key, and time 2 lets a
TTL of 1 expire within a run. Requests are interchangeable, so that the safety runs use
symmetry; runs with liveness do not.

**Bounds of `Notification`.** Two listener calls, or three in `notification_calm`; one
subscriber; a queue of capacity 1, or 2 where rotation is not to matter. Two calls race in
`getNewID`; a third is needed to see the log rotate after a restart. Two connections at a time
are in `directory`.

**Bounds of `directory`.** One id, two requests, two connections, one restart, a queue of
capacity 1. The second connection begins when the first is leaving, which the handler may
still be serving. The clock ticks once; one of the bodies has expired when it
comes, the other has a TTL, so that an update changes, adds and removes members of the
registration. The constraint keeps the run to behaviours until `calm` ends, the first
state that is not calm included (`FollowerExact` says nothing beyond), and lets it go on from
there as long as only the catalog is at work: requests, the cleaner and the clock after a write
that the end of the process cut short, which is what `CoherentAcrossRestarts` is about. Both
properties are proved without the constraint.

**Bounds of `listing`.** Three entries and pages of one or two (`MaxPerPage` is 2 instead of
100): pages that divide the entries and that do not, the last page and the one behind
it, listings of two pages. One write is enough to move an entry between two pages; a
removal and an insertion are what the exceptions of the properties name. One stream is
enough for each end a stream can take, before, during and after `Close`; the accounting
for many streams is proved. `MixedFinds` holds a value for each case of
`getObjectFromXPathNode` and of `Plain`, nested and at the top.

**Fairness.** `Catalog` assumes that the ticker fires and that the cleaner's goroutine
is scheduled, and nothing of clients. `Notification` assumes that a goroutine that can
run does run, that a `select` with several ready cases does not pass one over for ever
(Go picks at random: strong fairness of `Subscribe`, `Unsubscribe` and `Stop`), and that
clients read what they are sent (`Flush`). Without the last nothing can be promised: one
client that stops reading stops the handler, and with it all others, and the end of the
process. `Signal` and `Crash` need not happen. `Listing` assumes
that goroutines and `main` run, that a `Write` to a client returns (`WriteItem`), and,
since it has finitely many streams, that they stop coming: the code does not stop the
server before `Close`, and a client that always has a stream open would keep `Wait` from
returning. `Directory` has no liveness property and no fairness.

What the properties except is as informative as what they promise.
`StreamsEnd` and `CloseReturns` except `Abandoned` streams: a client that leaves between
the goroutine's look at the context and its send leaves the goroutine, its iterator and
its count in the wait group behind, and `Close` never returns. `CloseReturns` also excepts a list
that met an entry it cannot decode (`Broken`), for the same reason. `CloseWaitsForReaders`
excepts iterators opened after `Wait`. `StreamIsSnapshot` excepts streams whose iterator
failed: the handler ends these like whole ones. A listing of several pages may miss an
entry that was there throughout, when another is removed, or show one twice, when another is
added; and a single page may have empty slots or lack its last entry. `CallsReturn` and
`LeaversReleased` except those who need the handler when it has ended. `TwiceOnlyAtJoin` excepts
the first live event after a replay, which the replay may hold already. `RemovedWasExpired` does
not say that what the cleaner removes has expired, only that some version of it had.
`FollowerExact`
excepts expired TDs: the cleaner announces no removal, and a follower keeps them.
`EventsExplainVersions` is a property of one life of the process: after a restart a version
may be in the database whose event was never sent.

What the exceptions leave out does happen. Three more races of `Has` and `Put` or `Delete` are
excluded by `Apart`: an update that writes back what was deleted in between
(`src/catalog/ldbstorage.go:101`), a delete that is confirmed twice
(`src/catalog/ldbstorage.go:119`), an update whose
event shows a version that another has already replaced (`src/catalog/controller.go:129`). A
client that subscribes while an event is stored but still in the channel gets that event from
the replay and again from the broadcast (`src/notification/controller.go:148`): this is the
repetition that `TwiceOnlyAtJoin` allows. And the id of an event that was broadcast, but not
stored when the process ended, is given again. A PATCH with another
id (`src/catalog/http.go:182`) parts key and id, which `KeyMatchesBody` leaves out by keeping to
patches that keep ids. All are listed as hazards.

## Findings

Six disagreements between the code and what its comments, messages or tests say, each
shown by a violating run and listed in `PROJECT.json`:

* the create that overwrites, because `Has` and `Put` are two steps
  (`src/catalog/ldbstorage.go:52`);
* the cleaner that removes a renewed TD, because it does not look at the expiry again
  (`src/catalog/controller.go:509`), and the one that a TD without an id stops
  (`src/catalog/controller.go:507`), which the id check of PATCH let pass
  (`src/catalog/http.go:182`);
* the racy id (`src/notification/ldb_eventqueue.go:113`);
* the broadcast before the store (`src/notification/controller.go:74`), by which a new
  subscriber misses an event.

## The proofs

All theorems hold for every value of the constants that satisfies the assumptions of
the module: keys are numbers (any number of them), any sets of bodies, patches and
methods, storage faults or none, any `MaxTTL` and any `Wrapped` within it; any finite
number of calls, any subscribers and any capacity.

`CatalogProofs`
* `TypeCorrect`: `Spec => []TypeOK`. One lemma per action; the job of a request must be
  typed exactly while the request is between two accesses.
* `RegistrationsCoherent`: the strengthening speaks of the documents in `job` as well:
  a document on its way to `Put` is already coherent, and an old version that a handler
  still holds was coherent and created no later than now. The clock only grows, so that
  a document stays coherent.
* `VersionsExplained`: a document in `db`, an old version in a job and one in a reply or
  event were all announced; `events` only grows.
* `KeysMatchBodies`: under `PatchesKeepIds` every document in `db` or in a job has its
  own key: the check that `Patch` leaves out is all that lets key and id part.
* `RemovalsHadExpired`: `Spec => RemovedWasExpired`, with every method, any patches and
  scans that break off. The invariant (`ListedInv`) says that each id on the cleaner's list is
  that of a version which was announced and had expired at the tick; events are never taken
  back and the clock only grows, so that this stays true whatever requests do meanwhile.
  The stronger promise, that what is removed has expired, does not hold (`catalog_renewed`).

`CatalogAtomicProofs`
* `CatalogIsAtomic`: `PatchesKeepIds` given, `ApartSpec => AtomicRegistry`. The invariant
  adds to those of `CatalogProofs` that what each activity has read is still so: an add
  that passed `Has` has a free key, the old version an update or a delete carries is the
  one stored, and every entry on the cleaner's list is stored under its own id and has
  expired. `Apart` is used in one lemma (`OthersCurrent`) and for `CleanDelete`: a write
  touches one key, and nobody else has anything to do with that. Then `AddPut`,
  `UpdatePut`, `DeleteDo`, `CleanDelete`, `Get`, refusals and `Advance` are the steps of
  `Registry`, and all others stutter. `KeyMatchesBody` is needed because the cleaner takes
  the key from the document, coherence because `Registry` asks for a coherent registration.

`NotificationProofs`
* `QueueTypesCorrect`: ids, counter and log keep their ranges even with lost increments
  and restarts. The invariant counts the calls that have started: no number in use
  exceeds it.
* `RotationDropsOnlyOld`, `NewIdsAreLargest`, `IdsAreUnique`: for `SerialSpec`, the
  specification with at most one call in `getNewID`. The invariant says that a call
  inside holds the counter and every other number is smaller; that what is to be
  deleted has left the window; and that after a crash the counter is the largest stored
  id. The existence of a largest id comes from the well-foundedness of the naturals.
  `IdsAreUnique` assumes that there is no crash: an event that was sent but not stored
  has an id that will be given again.

`OrderProofs` has the lemmas the next ones share: the ranks in a finite set of n numbers are
1 to n, each once; `Sorted` holds every element once and ascends; what `Extract` has; and
what both become when an element is added at the end.

`NotificationStreamProofs`
* `NotificationTyped`: `Spec => []TypeOK`. To the types of the queue come those of channels
  and requests; an event in the channel has an id only because a call that has come there
  was given one (`NumberKnown`).
* `StreamsAreInOrder`: `Spec => []StreamInOrder`, with every fault the model has. The property
  is nearly inductive. What it lacks is `Served`: a request that is not yet accepted has
  received nothing, nothing is sent to one that is not active, and a subscriber was
  accepted no later than the last event was taken, so that a new event comes last.
* `RepeatsOnlyAtJoin`: `Spec => []TwiceOnlyAtJoin`, with every fault. An event is known by its id
  and its call. The invariant (`OutInv`) says that whatever is stored, in the channel, taken or
  replayed has been sent by its call, that nothing is taken or replayed twice, and that what is in
  the channel was not taken before; and `NewFrom(2)`, that all events taken after a subscriber
  joined, but for the first, are in no replay of it. It holds because the channel has room for
  one event: of those that the handler has not taken, at most one can be stored.
* `NothingIsReceivedTwice`: `FreshSpec => []ReceivedOnce`. The same invariant with `NewFrom(1)`: no
  event taken since is in the replay. `Subscribe` establishes that only under `FreshJoin`.
* `NothingIsMissed`: without storage errors, `CalmSpec => []NoMissedEvents`. The property speaks
  of quiet states only. The invariant says when a subscriber will have got an event
  (`Promised`: it is in the channel, in its replay, or among those taken since it joined),
  and that every event is promised to it which is stored behind the id it named, or about
  to be stored (`ComingInv`). The second half makes `Write` safe; `Subscribe` establishes it
  only under `CalmJoin`. The theorem needs no lock in `getNewID` and allows crashes.
  Without storage errors is no idle assumption: when a replay cannot be read, the
  handler logs the error and the subscriber gets none of it.

`DirectoryProofs`
* `CoherenceSurvives`: `Spec => []CoherentAcrossRestarts` with any number of restarts. It
  uses the step lemmas of `CatalogProofs` (taken by `INSTANCE`) for all steps but
  `Restart`, and for that the strengthening of `RegistrationsCoherent`: what a `Put` under way may
  leave in the database is coherent already.

The module also has the lemmas by which `FollowerProofs` uses what is proved of `Notification`:
the directory's steps keep its invariants, and the calls of finitely many requests satisfy what
it assumes of its constants. The `Same...` lemmas only say that two instances of one module
are the same.

`FollowerProofs`
* `FollowerIsExact`: `PatchesKeepIds` given, `Spec => []FollowerExact`, for any numbers of TDs,
  requests, connections and restarts. The property speaks of settled states only; the
  invariant (`FollowerInv`) says, as long as `calm`, what holds on the way there:
  * `Numbers`: one event at a time is under way, and so the counter has no gaps. The event taken
    at place i has the id i, each number is in use once, and the next process counts on from
    the number of events (`LastKeyIs`).
  * `LogComplete`: the log has every stored event, except those that the follower has heard and
    that are not the newest. Rotation keeps that because an event is rotated away only when
    it has been heard; a restart needs the newest to be there.
  * `ConnectionInv`: a client has one connection that is not over, and this has still to deliver
    exactly the events behind its `Place`: the one being written, then those the handler has
    to send. What a subscription is given to send, `Missed`, is the interval of `taken` behind
    the last event heard (`MissedIs`, with `ExtractInterval` of `OrderProofs`), so that the
    place is that event's number, also after a reconnection to another process.
  * `EventsChain` and `MirrorInv`, both by `Continues(v, k, n)`: the first event about k with a
    number above n, if it is an update, has changed v; if there is none, v is what the catalog
    has, or it has expired and is gone. Every event leaves such a version, and the mirror
    holds one for the place of the connection. A new event extends the chain because
    `Apart` makes a step of the catalog one of `Registry`, whose update shows the version
    replaced (`CatalogEffect`, by the lemmas of `CatalogAtomicProofs`); a removal of an expired
    TD, and the end of a process, keep it. Hearing an event gives the version that it
    leaves, because a merge patch takes the one version to the other (`MergeMakesNew`).

  In a settled state no number is above the place, and `Continues` is what the property says.
  TLC checked the invariant on the instance of `directory`, and in simulation with four
  requests, two ids, four connections and two restarts, before it was proved.

`ListingProofs`
* `CloseWaits`: `Spec => []CloseWaitsForReaders` for any number of streams. The invariant
  adds to the property the types of `prod`, `cons` and `late`, that the count is that of the
  readers and of the broken lists, and that a stream nobody asked for has no goroutine,
  without which `GetAll` could take a reader away uncounted.
  `Wait` is where it is used: a finite set of cardinality 0 is empty.
* `PagesTile`: `GetPagingAttr` for any number of entries and any page size; by the four
  cases of the code, division with remainder, and monotony of the product.
* `SlicesArePages`: what a search cuts out of its results (`Slice`) is the page that `PageOf`
  defines, for any results and any page size; by the same arithmetic. It is the part of
  `SearchExact` that does not depend on the recursive operators.
* `ListingTyped`: `Spec => []TypeOK`, with the types of pages and of what streams hold
  (`ListTypes`, `StreamTypes`).
* `GapsNeedRemovals`: `GapsOnlyAfterRemovals`. The invariant (`NoGap`) compares the two snapshots
  of a page: without removals there is at least what was counted.
* `NothingTwice`: `NoneTwice`. Without additions the rank of an entry never grows; the
  invariant (`Once`) is that what was collected has a rank in front of the next page,
  however many entries have gone.
* `StableListings`: `StableListingExact`. Of a listing of everything, what was collected is
  always a beginning of the entries in order that ends where the next page begins
  (`Exact`); the last page then completes it, by `PagesTile` and the condition under which
  `listAll` goes on.
* `StreamsShowSnapshots`: `StreamIsSnapshot`. Written, held and coming entries together are the
  snapshot; the invariant (`Snapshot`) says it also for the moment between the end of the
  goroutine and that of the handler, and that a stream is left only by a client that is gone.

The inductive invariants of `Listing` were checked by TLC before they were proved.

Only model-checked: everything under fairness (`ExpiredEventuallyRemoved`,
`CallsReturn`, `LeaversReleased`, `StopEnds`, `StreamsEnd`, `CloseReturns`), which the
prover does not do; and `SearchExact`, whose operators are recursive (`XPath` is in no module
with a theorem): what it says of values of any depth would need induction over data.

## Not modelled

* The router, the middleware but for its recovery from panics, and the configuration:
  no state after the start.
* DNS-SD and the registration in the service catalog: calls into libraries, at start and
  in deferred calls. If the DNS-SD registration fails, a deferred call of a nil function
  panics on the way out (`src/main.go:152`, listed as a hazard); the refreshing of the
  service registration is vendored code.
* JSON, the schemas and what validation finds in a TD: outcomes of a request. Which values
  a path finds: a constant.
* Ids of events are numbers below 2^64: that a Last-Event-ID of all ones wraps is listed as a
  hazard and not modelled.
* LevelDB below its calls: a call is atomic and what it wrote is durable.

## Plan

All modules planned are written: `Registry`, `Catalog`, `Notification`, `Listing`, the
composition `Directory` with restarts, the shutdown (in `Notification` and `Listing`), the
searches, and the refinement `CatalogIsAtomic`. Of the safety properties the passing runs check,
`SearchExact` is the only one that no theorem states. What could come next: a follower that
mirrors only some types of events, and the liveness of the follower, for which `Directory`
would need fairness.
