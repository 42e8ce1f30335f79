------------------------------ MODULE Listing ------------------------------
(* The reads that see more than one entry: pages (GetMany, list, listAll),   *)
(* the whole database at once (listAllBytes) and the stream of GetAll        *)
(* (iterateBytes), with the wait group that Close waits for                  *)
(* (src/catalog/http.go, controller.go, ldbstorage.go).                      *)
(*                                                                           *)
(* A LevelDB iterator reads the snapshot of the moment it is opened, so that *)
(* a scan that stays within one function is one step.                        *)
EXTENDS Order

CONSTANTS
    Keys,          \* the keys of the database, in the order of iteration
    Listers,       \* the requests for pages or for everything
    Streams,       \* the requests for a stream
    Pages,         \* what a request may ask for: [page, perPage]
    MaxPerPage,    \* the largest page
    MaxChanges,    \* bound on the writes of other requests
    StorageFaults, \* whether LevelDB may answer with an error
    Nil            \* a slot of a page that list has not filled

Page == [page : Int, perPage : Int]

ASSUME ListingAssumption ==
    /\ Keys \subseteq Nat /\ IsFiniteSet(Keys)
    /\ Pages \subseteq Page
    /\ MaxPerPage \in Nat \ {0} /\ MaxChanges \in Nat
    /\ StorageFaults \in BOOLEAN
    /\ IsFiniteSet(Listers) /\ IsFiniteSet(Streams)
    /\ Nil \notin Int

VARIABLES
    db,       \* the keys in the database
    changes,  \* the number of writes so far
    lpc,      \* where each request for pages is
    ask,      \* the page it is at, and whether it is to go on to the next
    total,    \* the number of entries it has counted
    items,    \* the entries it has collected
    before,   \* the database when it began (history)
    grew,     \* whether an entry was added since (history)
    shrank,   \* whether an entry was removed since (history)
    prod,     \* where the goroutine of iterateBytes of each stream is
    rest,     \* the entries in front of its iterator
    cons,     \* where the handler of each stream is
    hold,     \* the entry the handler has received and not yet written
    got,      \* the entries it has written
    gone,     \* whether the context of the request is done
    snap,     \* the snapshot of the iterator (history)
    cut,      \* whether the iterator ended with an error (history)
    late,     \* whether it was opened when Wait had returned (history)
    wg,       \* the wait group of the storage
    main      \* where main is: serving, or in storage.Close

listVars == <<lpc, ask, total, items, before, grew, shrank>>
streamVars == <<prod, rest, cons, hold, got, gone, snap, cut, late>>
vars == <<db, changes, listVars, streamVars, wg, main>>

Entry == Keys \cup {Nil}

closed == main = "closed"
waited == main \in {"closing", "closed"}

(* Pages, streams and the wait group stay in their ranges; the counter of    *)
(* the wait group is never negative (LevelDBStorage).                        *)
TypeOK ==
    /\ db \subseteq Keys
    /\ changes \in 0..MaxChanges
    /\ lpc \in [Listers -> {"ready", "total", "scan", "done", "refused", "failed", "broken"}]
    /\ ask \in [Listers -> [all : BOOLEAN, page : Int, perPage : Int]]
    /\ total \in [Listers -> Nat]
    /\ items \in [Listers -> Seq(Entry)]
    /\ before \in [Listers -> SUBSET Keys]
    /\ grew \in [Listers -> BOOLEAN] /\ shrank \in [Listers -> BOOLEAN]
    /\ prod \in [Streams -> {"off", "start", "next", "send", "end"}]
    /\ rest \in [Streams -> Seq(Keys)]
    /\ cons \in [Streams -> {"off", "receive", "write", "finished", "left"}]
    /\ hold \in [Streams -> Entry]
    /\ got \in [Streams -> Seq(Keys)]
    /\ gone \in [Streams -> BOOLEAN]
    /\ snap \in [Streams -> SUBSET Keys]
    /\ cut \in [Streams -> BOOLEAN]
    /\ wg \in Nat
    /\ late \in [Streams -> BOOLEAN]
    /\ main \in {"serving", "waiting", "closing", "closed"}

Init ==
    /\ db \in SUBSET Keys
    /\ changes = 0
    /\ lpc = [l \in Listers |-> "ready"]
    /\ ask = [l \in Listers |-> [all |-> FALSE, page |-> 1, perPage |-> MaxPerPage]]
    /\ total = [l \in Listers |-> 0]
    /\ items = [l \in Listers |-> <<>>]
    /\ before = [l \in Listers |-> {}]
    /\ grew = [l \in Listers |-> FALSE]
    /\ shrank = [l \in Listers |-> FALSE]
    /\ prod = [s \in Streams |-> "off"]
    /\ rest = [s \in Streams |-> <<>>]
    /\ cons = [s \in Streams |-> "off"]
    /\ hold = [s \in Streams |-> Nil]
    /\ got = [s \in Streams |-> <<>>]
    /\ gone = [s \in Streams |-> FALSE]
    /\ snap = [s \in Streams |-> {}]
    /\ cut = [s \in Streams |-> FALSE]
    /\ wg = 0
    /\ late = [s \in Streams |-> FALSE]
    /\ main = "serving"

---------------------------------------------------------------------------
(* Other requests                                                          *)

Change ==
    /\ changes < MaxChanges /\ ~closed
    /\ changes' = changes + 1
    /\ \/ \E k \in Keys \ db : db' = db \cup {k}
       \/ \E k \in db : db' = db \ {k}
    /\ grew' = [l \in Listers |-> grew[l] \/ ~(db' \subseteq db)]
    /\ shrank' = [l \in Listers |-> shrank[l] \/ ~(db \subseteq db')]
    /\ UNCHANGED <<lpc, ask, total, items, before, streamVars, wg, main>>

---------------------------------------------------------------------------
(* Pages                                                                   *)

ValidPaging(p) == p.page >= 1 /\ p.perPage \in 1..MaxPerPage

(* Mutant: a last page that is full is forgotten.                            *)
PagingAttrForgetful(n, page, perPage) ==
    IF page = n \div perPage + 1 THEN [offset |-> perPage * (page - 1), limit |-> n % perPage]
    ELSE IF page * perPage < n THEN [offset |-> perPage * (page - 1), limit |-> perPage]
    ELSE [offset |-> 0, limit |-> 0]

(* Mutant: the last page is as long as the others.                           *)
PagingAttrFull(n, page, perPage) ==
    IF perPage * (page - 1) <= n THEN [offset |-> perPage * (page - 1), limit |-> perPage]
    ELSE [offset |-> 0, limit |-> 0]

(* The part of n entries that makes a page; nothing behind the last one.     *)
GetPagingAttr(n, page, perPage) ==
    IF page = 1
    THEN [offset |-> 0, limit |-> IF perPage > n THEN n ELSE perPage]
    ELSE IF page = n \div perPage + 1
    THEN [offset |-> perPage * (page - 1), limit |-> n - perPage * (page - 1)]
    ELSE IF page <= n \div perPage /\ page * perPage <= n
    THEN [offset |-> page * perPage - perPage, limit |-> perPage]
    ELSE [offset |-> 0, limit |-> 0]

(* The page of what a search has found.                                      *)
Slice(results, p) ==
    LET a == GetPagingAttr(Len(results), p.page, p.perPage)
    IN SubSeq(results, a.offset + 1, a.offset + a.limit)

Goto(l, where) == lpc' = [lpc EXCEPT ![l] = where]

Ask(l, all, page, perPage) ==
    /\ lpc[l] = "ready"
    /\ ask' = [ask EXCEPT ![l] = [all |-> all, page |-> page, perPage |-> perPage]]
    /\ before' = [before EXCEPT ![l] = db]
    /\ grew' = [grew EXCEPT ![l] = FALSE]
    /\ shrank' = [shrank EXCEPT ![l] = FALSE]
    /\ UNCHANGED <<db, changes, total, streamVars, wg, main>>

(* A page, or a page of the results of a search, for which filterJSONPath    *)
(* and filterXPath first list everything.                                    *)
GetMany(l) ==
    /\ \E p \in Pages :
          /\ Ask(l, FALSE, p.page, p.perPage) \/ Ask(l, TRUE, 1, MaxPerPage)
          /\ Goto(l, IF ValidPaging(p) THEN "total" ELSE "refused")
    /\ UNCHANGED items

(* The searches of the present API read all entries in one snapshot; a query *)
(* that cannot be evaluated is found out after that.                         *)
ListAllBytes(l) ==
    /\ Ask(l, TRUE, 1, MaxPerPage)
    /\ \/ ~closed /\ Goto(l, "done") /\ items' = [items EXCEPT ![l] = Sorted(db)]
       \/ ~closed /\ Goto(l, "refused") /\ UNCHANGED items
       \/ (StorageFaults \/ closed) /\ Goto(l, "failed") /\ UNCHANGED items

(* list counts in one snapshot ...                                           *)
Total(l) ==
    /\ lpc[l] = "total" /\ ~closed
    /\ total' = [total EXCEPT ![l] = Cardinality(db)]
    /\ Goto(l, "scan")
    /\ UNCHANGED <<db, changes, ask, items, before, grew, shrank, streamVars, wg, main>>

(* What a scan puts into the slots of a page: those behind the end stay nil. *)
Filled(seq, a) ==
    [i \in 1..a.limit |-> IF a.offset + i <= Len(seq) THEN seq[a.offset + i] ELSE Nil]

(* The end of a request that has read what it needs: a path that cannot be   *)
(* evaluated is refused, one whose result is no list, or is more than JSON   *)
(* can say, fails.                                                           *)
Evaluate(l) ==
    \E end \in (IF ask[l].all THEN {"done", "refused", "failed"} ELSE {"done"}) : Goto(l, end)

(* Mutant: a page begins with the last entry of the one before.              *)
ScanInclusive(l) ==
    LET p == ask[l]
        a == GetPagingAttr(total[l], p.page, p.perPage)
        b == [a EXCEPT !.offset = IF @ > 0 THEN @ - 1 ELSE @]
    IN
    /\ lpc[l] = "scan" /\ ~closed
    /\ items' = [items EXCEPT ![l] = @ \o Filled(Sorted(db), b)]
    /\ IF p.all /\ p.page * p.perPage < total[l]
       THEN Goto(l, "total") /\ ask' = [ask EXCEPT ![l].page = @ + 1]
       ELSE Evaluate(l) /\ UNCHANGED ask
    /\ UNCHANGED <<db, changes, total, before, grew, shrank, streamVars, wg, main>>

(* ... and fills the page from another.  listAll goes on while the pages     *)
(* hold fewer entries than were counted last.                                *)
Scan(l) ==
    LET p == ask[l]
        a == GetPagingAttr(total[l], p.page, p.perPage)
    IN
    /\ lpc[l] = "scan" /\ ~closed
    /\ items' = [items EXCEPT ![l] = @ \o Filled(Sorted(db), a)]
    /\ IF p.all /\ p.page * p.perPage < total[l]
       THEN Goto(l, "total") /\ ask' = [ask EXCEPT ![l].page = @ + 1]
       ELSE Evaluate(l) /\ UNCHANGED ask
    /\ UNCHANGED <<db, changes, total, before, grew, shrank, streamVars, wg, main>>

(* A storage error, or a database that has been closed: a 500.               *)
ListError(l) ==
    /\ lpc[l] \in {"total", "scan"} /\ (StorageFaults \/ closed)
    /\ Goto(l, "failed")
    /\ UNCHANGED <<db, changes, ask, total, items, before, grew, shrank, streamVars,
                   wg, main>>

(* An entry that is no JSON object: a 500 as well, but list returns without  *)
(* telling the wait group that its iterator is out of use.                   *)
ListBroken(l) ==
    /\ lpc[l] = "scan" /\ ~closed /\ StorageFaults /\ db # {}
    /\ Goto(l, "broken")
    /\ wg' = wg + 1
    /\ UNCHANGED <<db, changes, ask, total, items, before, grew, shrank, streamVars, main>>

---------------------------------------------------------------------------
(* The stream                                                              *)

(* The handler starts the goroutine of iterateBytes and waits for entries.   *)
GetAll(s) ==
    /\ cons[s] = "off"
    /\ cons' = [cons EXCEPT ![s] = "receive"]
    /\ prod' = [prod EXCEPT ![s] = "start"]
    /\ UNCHANGED <<db, changes, listVars, rest, hold, got, gone, snap, cut, late, wg, main>>

(* Mutant: the goroutine does not announce itself to the wait group.         *)
OpenIteratorUncounted(s) ==
    /\ prod[s] = "start"
    /\ prod' = [prod EXCEPT ![s] = "next"]
    /\ rest' = [rest EXCEPT ![s] = IF closed THEN <<>> ELSE Sorted(db)]
    /\ snap' = [snap EXCEPT ![s] = IF closed THEN {} ELSE db]
    /\ cut' = [cut EXCEPT ![s] = closed]
    /\ late' = [late EXCEPT ![s] = waited]
    /\ UNCHANGED <<db, changes, listVars, cons, hold, got, gone, wg, main>>

(* The goroutine announces itself and opens its iterator; that of a closed   *)
(* database is empty and has an error.                                       *)
OpenIterator(s) ==
    /\ prod[s] = "start"
    /\ prod' = [prod EXCEPT ![s] = "next"]
    /\ wg' = wg + 1
    /\ rest' = [rest EXCEPT ![s] = IF closed THEN <<>> ELSE Sorted(db)]
    /\ snap' = [snap EXCEPT ![s] = IF closed THEN {} ELSE db]
    /\ cut' = [cut EXCEPT ![s] = closed]
    /\ late' = [late EXCEPT ![s] = waited]
    /\ UNCHANGED <<db, changes, listVars, cons, hold, got, gone, main>>

(* Mutant: the goroutine returns without telling the wait group.             *)
ReleaseUncounted(s) ==
    prod' = [prod EXCEPT ![s] = "end"] /\ UNCHANGED wg

(* The deferred calls: the iterator is released, the wait group is told, and *)
(* the channel is closed.                                                    *)
Release(s) ==
    prod' = [prod EXCEPT ![s] = "end"] /\ wg' = wg - 1

(* Mutant: at the end of the snapshot the goroutine waits for more.          *)
ProduceForever(s) ==
    /\ prod[s] = "next" /\ rest[s] # <<>>
    /\ IF gone[s] THEN Release(s) ELSE prod' = [prod EXCEPT ![s] = "send"] /\ UNCHANGED wg
    /\ UNCHANGED <<db, changes, listVars, rest, cons, hold, got, gone, snap, cut, late, main>>

(* The loop ends with the iterator, or when it sees that the context is done; *)
(* otherwise the goroutine sends the next entry, whatever happens.           *)
Produce(s) ==
    /\ prod[s] = "next"
    /\ \/ /\ rest[s] # <<>> /\ ~gone[s]
          /\ prod' = [prod EXCEPT ![s] = "send"]
          /\ UNCHANGED <<cut, wg>>
       \/ /\ rest[s] = <<>> \/ gone[s]
          /\ Release(s)
          /\ UNCHANGED cut
       \/ /\ rest[s] # <<>> /\ (StorageFaults \/ closed)
          /\ Release(s)
          /\ cut' = [cut EXCEPT ![s] = TRUE]
    /\ UNCHANGED <<db, changes, listVars, rest, cons, hold, got, gone, snap, late, main>>

(* Mutant: the bytes are not copied, and the iterator moves on under them.   *)
TransferAliased(s) ==
    /\ prod[s] = "send" /\ cons[s] = "receive"
    /\ hold' = [hold EXCEPT ![s] = IF Len(rest[s]) > 1 THEN rest[s][2] ELSE rest[s][1]]
    /\ rest' = [rest EXCEPT ![s] = Tail(@)]
    /\ prod' = [prod EXCEPT ![s] = "next"]
    /\ cons' = [cons EXCEPT ![s] = "write"]
    /\ UNCHANGED <<db, changes, listVars, got, gone, snap, cut, late, wg, main>>

(* The channel has no buffer: both sides move on together.                   *)
Transfer(s) ==
    /\ prod[s] = "send" /\ cons[s] = "receive"
    /\ hold' = [hold EXCEPT ![s] = Head(rest[s])]
    /\ rest' = [rest EXCEPT ![s] = Tail(@)]
    /\ prod' = [prod EXCEPT ![s] = "next"]
    /\ cons' = [cons EXCEPT ![s] = "write"]
    /\ UNCHANGED <<db, changes, listVars, got, gone, snap, cut, late, wg, main>>

(* A handler that finds its context done returns, and receives no more.      *)
WriteItem(s) ==
    /\ cons[s] = "write"
    /\ hold' = [hold EXCEPT ![s] = Nil]
    /\ IF gone[s]
       THEN cons' = [cons EXCEPT ![s] = "left"] /\ UNCHANGED got
       ELSE /\ cons' = [cons EXCEPT ![s] = "receive"]
            /\ got' = [got EXCEPT ![s] = Append(@, hold[s])]
    /\ UNCHANGED <<db, changes, listVars, prod, rest, gone, snap, cut, late, wg, main>>

EndOfStream(s) ==
    /\ prod[s] = "end" /\ cons[s] = "receive"
    /\ cons' = [cons EXCEPT ![s] = "finished"]
    /\ UNCHANGED <<db, changes, listVars, prod, rest, hold, got, gone, snap, cut, late, wg, main>>

(* The client closes its connection.                                         *)
Leave(s) ==
    /\ cons[s] \in {"receive", "write"} /\ ~gone[s]
    /\ gone' = [gone EXCEPT ![s] = TRUE]
    /\ UNCHANGED <<db, changes, listVars, prod, rest, cons, hold, got, snap, cut, late, wg, main>>

---------------------------------------------------------------------------
(* The end of the program                                                  *)

(* main has got a signal and calls Close; requests go on until it exits.    *)
Signal ==
    /\ main = "serving"
    /\ main' = "waiting"
    /\ UNCHANGED <<db, changes, listVars, streamVars, wg>>

(* Mutant: Close does not wait.                                              *)
WaitNot ==
    /\ main = "waiting"
    /\ main' = "closing"
    /\ UNCHANGED <<db, changes, listVars, streamVars, wg>>

(* wg.Wait returns, and nothing keeps a goroutine from beginning after that. *)
Wait ==
    /\ main = "waiting" /\ wg = 0
    /\ main' = "closing"
    /\ UNCHANGED <<db, changes, listVars, streamVars, wg>>

Close ==
    /\ main = "closing"
    /\ main' = "closed"
    /\ UNCHANGED <<db, changes, listVars, streamVars, wg>>

---------------------------------------------------------------------------

List(l) ==
    \/ GetMany(l) \/ ListAllBytes(l)
    \/ Total(l) \/ Scan(l) \/ ListError(l) \/ ListBroken(l)
Stream(s) ==
    \/ GetAll(s) \/ OpenIterator(s) \/ Produce(s) \/ Transfer(s)
    \/ WriteItem(s) \/ EndOfStream(s) \/ Leave(s)

Next ==
    \/ Change \/ Signal \/ Wait \/ Close
    \/ \E l \in Listers : List(l)
    \/ \E s \in Streams : Stream(s)

Spec == Init /\ [][Next]_vars

(* The goroutines of a stream that can run do run, and so does main.         *)
Fairness ==
    /\ WF_vars(Wait \/ Close)
    /\ \A s \in Streams : /\ WF_vars(OpenIterator(s) \/ Produce(s))
                         /\ WF_vars(Transfer(s))
                         /\ WF_vars(WriteItem(s) \/ EndOfStream(s))

FairSpec == Spec /\ Fairness

---------------------------------------------------------------------------
(* Properties                                                              *)

PageOf(seq, page, perPage) ==
    SubSeq(seq, (page - 1) * perPage + 1,
           IF page * perPage < Len(seq) THEN page * perPage ELSE Len(seq))

(* A listing during which nothing was written is exact: a page is the slice  *)
(* its number says, a listing of everything, which the searches read too, has *)
(* every entry once and in order, however many pages it takes                *)
(* (GetPagingAttr, list, listAll).                                           *)
StableListingExact ==
    \A l \in Listers : (lpc[l] = "done" /\ ~grew[l] /\ ~shrank[l]) =>
        items[l] = IF ask[l].all THEN Sorted(before[l])
                   ELSE PageOf(Sorted(before[l]), ask[l].page, ask[l].perPage)

(* While no entry was added, entries only move to the front between two      *)
(* pages, and none is listed twice (listAll).                                *)
NoneTwice ==
    \A l \in Listers : ~grew[l] =>
        \A i, j \in 1..Len(items[l]) : (i # j /\ items[l][i] # Nil) => items[l][i] # items[l][j]

(* A page holds empty slots only if entries were removed while it was read   *)
(* (list counts in another snapshot than it reads).                          *)
GapsOnlyAfterRemovals ==
    \A l \in Listers : ~shrank[l] => \A i \in 1..Len(items[l]) : items[l][i] # Nil

Held(s) == IF cons[s] = "write" THEN <<hold[s]>> ELSE <<>>
Ahead(s) == IF prod[s] \in {"next", "send"} THEN rest[s] ELSE <<>>

(* Whatever is written meanwhile, a stream shows one moment of the database: *)
(* what is written, under way and still to come is the snapshot in order, and *)
(* a stream that was neither left nor cut off is whole (iterateBytes, GetAll). *)
StreamIsSnapshot ==
    \A s \in Streams :
        /\ (prod[s] \in {"next", "send"} /\ cons[s] # "left")
              => got[s] \o Held(s) \o Ahead(s) = Sorted(snap[s])
        /\ (cons[s] = "finished" /\ ~gone[s] /\ ~cut[s]) => got[s] = Sorted(snap[s])

Reading == {s \in Streams : prod[s] \in {"next", "send"}}
Broken == {l \in Listers : lpc[l] = "broken"}

(* The wait group counts the goroutines that have begun and not ended, and   *)
(* the lists that broke off; a goroutine that reads when Wait has returned   *)
(* began after that: Close takes the database from no iterator that it could *)
(* wait for (iterateBytes, list, Close).                                     *)
CloseWaitsForReaders ==
    /\ wg = Cardinality(Reading) + Cardinality(Broken)
    /\ waited => \A s \in Reading : late[s]

(* A goroutine that waits to send to a handler that has returned.            *)
Abandoned(s) == prod[s] = "send" /\ cons[s] = "left"

(* A stream ends, unless its client left between the goroutine's look at the *)
(* context and its send: then the goroutine waits for ever (iterateBytes).   *)
StreamsEnd ==
    \A s \in Streams : prod[s] \in {"next", "send"} ~> (prod[s] = "end" \/ Abandoned(s))

(* Close returns, unless a goroutine was abandoned or a list has met an      *)
(* entry that it could not decode (Close, main).                             *)
CloseReturns ==
    main = "waiting" ~> (closed \/ Broken # {} \/ \E s \in Streams : Abandoned(s))
=============================================================================
