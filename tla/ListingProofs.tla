---------------------------- MODULE ListingProofs ----------------------------
(* The accounting of the wait group, and the arithmetic of pages, for any    *)
(* number of streams, entries and pages.                                     *)
EXTENDS Listing, OrderProofs

(* Readers, broken lists and the wait group change together, and none is     *)
(* left when Wait returns; a reader that begins later is marked.             *)
WaitInv ==
    /\ lpc \in [Listers -> {"ready", "total", "scan", "done", "refused", "failed", "broken"}]
    /\ prod \in [Streams -> {"off", "start", "next", "send", "end"}]
    /\ cons \in [Streams -> {"off", "receive", "write", "finished", "left"}]
    /\ late \in [Streams -> BOOLEAN]
    /\ \A s \in Streams : cons[s] = "off" => prod[s] = "off"
    /\ wg = Cardinality(Reading) + Cardinality(Broken)
    /\ waited => \A s \in Reading : late[s]

LEMMA ReadingFinite == IsFiniteSet(Reading) /\ Cardinality(Reading) \in Nat
<1>1. IsFiniteSet(Streams) /\ Reading \subseteq Streams
  BY ListingAssumption DEF Reading
<1> QED BY <1>1, FS_Subset, FS_CardinalityType

LEMMA BrokenFinite == IsFiniteSet(Broken) /\ Cardinality(Broken) \in Nat
<1>1. IsFiniteSet(Listers) /\ Broken \subseteq Listers
  BY ListingAssumption DEF Broken
<1> QED BY <1>1, FS_Subset, FS_CardinalityType

LEMMA InitWaitInv == Init => WaitInv
<1> SUFFICES ASSUME Init PROVE WaitInv
  OBVIOUS
<1>1. Reading = {} /\ Broken = {}
  BY DEF Init, Reading, Broken
<1>2. Cardinality(Reading) = 0 /\ Cardinality(Broken) = 0
  BY <1>1, FS_EmptySet
<1> QED BY <1>1, <1>2 DEF Init, WaitInv, waited

(* Opening an iterator adds one reader, and the count.                       *)
LEMMA OpenWaitInv ==
    ASSUME WaitInv, NEW s \in Streams, OpenIterator(s)
    PROVE  WaitInv'
<1>0. /\ prod[s] = "start" /\ prod' = [prod EXCEPT ![s] = "next"] /\ cons' = cons
      /\ late' = [late EXCEPT ![s] = waited] /\ main' = main /\ wg' = wg + 1
      /\ lpc' = lpc /\ Broken' = Broken
  BY DEF OpenIterator, listVars, Broken
<1>1. Reading' = Reading \cup {s} /\ s \notin Reading
  BY <1>0 DEF WaitInv, Reading
<1>2. Cardinality(Reading') = Cardinality(Reading) + 1
  BY <1>1, ReadingFinite, FS_AddElement
<1>3. wg' = Cardinality(Reading') + Cardinality(Broken')
  BY <1>0, <1>2, ReadingFinite, BrokenFinite DEF WaitInv
<1>4. late' \in [Streams -> BOOLEAN]
  BY <1>0 DEF WaitInv, waited
<1>5. waited' => \A t \in Reading' : late'[t]
  <2> SUFFICES ASSUME waited', NEW t \in Reading' PROVE late'[t]
    OBVIOUS
  <2>1. waited
    BY <1>0 DEF waited
  <2>2. CASE t = s
    BY <1>0, <2>1, <2>2 DEF WaitInv
  <2>3. CASE t # s
    BY <1>0, <1>1, <2>1, <2>3 DEF WaitInv, Reading
  <2> QED BY <2>2, <2>3
<1>6. \A t \in Streams : cons'[t] = "off" => prod'[t] = "off"
  BY <1>0 DEF WaitInv
<1> QED BY <1>0, <1>3, <1>4, <1>5, <1>6 DEF WaitInv

(* The end of a loop takes both away, also when the iterator had an error.   *)
LEMMA ProduceWaitInv ==
    ASSUME WaitInv, NEW s \in Streams, Produce(s)
    PROVE  WaitInv'
<1>0. prod[s] = "next" /\ UNCHANGED <<cons, late, main, lpc>> /\ Broken' = Broken
  BY DEF Produce, listVars, Broken
<1>1. CASE prod' = [prod EXCEPT ![s] = "send"] /\ UNCHANGED wg
  <2>1. Reading' = Reading
    BY <1>0, <1>1 DEF WaitInv, Reading
  <2>2. \A t \in Streams : cons'[t] = "off" => prod'[t] = "off"
    BY <1>0, <1>1 DEF WaitInv
  <2> QED BY <1>0, <1>1, <2>1, <2>2 DEF WaitInv, waited
<1>2. CASE Release(s)
  <2>1. Reading' = Reading \ {s} /\ s \in Reading
    BY <1>0, <1>2 DEF WaitInv, Reading, Release
  <2>2. Cardinality(Reading') = Cardinality(Reading) - 1
    BY <2>1, ReadingFinite, FS_RemoveElement
  <2>3. wg' = Cardinality(Reading') + Cardinality(Broken')
    BY <1>0, <1>2, <2>2, ReadingFinite, BrokenFinite DEF WaitInv, Release
  <2>4. \A t \in Streams : cons'[t] = "off" => prod'[t] = "off"
    BY <1>0, <1>2 DEF WaitInv, Release
  <2> QED BY <1>0, <1>2, <2>1, <2>3, <2>4 DEF WaitInv, Release, waited
<1> QED BY <1>1, <1>2 DEF Produce

(* What leaves the producers and the count alone.                            *)
LEMMA SameReaders ==
    ASSUME WaitInv, UNCHANGED <<prod, late, wg, main, lpc>>,
           cons' \in [Streams -> {"off", "receive", "write", "finished", "left"}],
           \A s \in Streams : cons'[s] = "off" => cons[s] = "off"
    PROVE  WaitInv'
<1>1. Reading' = Reading /\ Broken' = Broken
  BY DEF Reading, Broken
<1> QED BY <1>1 DEF WaitInv, waited

LEMMA StreamWaitInv ==
    ASSUME WaitInv, NEW s \in Streams, Stream(s)
    PROVE  WaitInv'
<1>1. CASE OpenIterator(s)
  BY <1>1, OpenWaitInv
<1>2. CASE Produce(s)
  BY <1>2, ProduceWaitInv
<1>b. listVars' = listVars => lpc' = lpc /\ Broken' = Broken
  BY DEF listVars, Broken
<1>3. CASE GetAll(s)
  <2>1. Reading' = Reading
    BY <1>3 DEF WaitInv, GetAll, Reading
  <2> QED BY <1>3, <1>b, <2>1 DEF WaitInv, GetAll, waited
<1>4. CASE Transfer(s)
  <2>1. prod' = [prod EXCEPT ![s] = "next"] /\ prod[s] = "send"
    BY <1>4 DEF Transfer
  <2>2. Reading' = Reading
    BY <2>1 DEF WaitInv, Reading
  <2> QED BY <1>4, <1>b, <2>2 DEF WaitInv, Transfer, waited
<1>5. CASE WriteItem(s)
  BY <1>5, <1>b, SameReaders DEF WaitInv, WriteItem
<1>6. CASE EndOfStream(s)
  BY <1>6, <1>b, SameReaders DEF WaitInv, EndOfStream
<1>7. CASE Leave(s)
  BY <1>7, <1>b, SameReaders DEF WaitInv, Leave
<1> QED BY <1>1, <1>2, <1>3, <1>4, <1>5, <1>6, <1>7 DEF Stream

(* A list adds to the count only when it breaks off, and then it stays.      *)
LEMMA ListWaitInv ==
    ASSUME WaitInv, NEW l \in Listers, List(l)
    PROVE  WaitInv'
<1>0. UNCHANGED <<streamVars, main>>
  BY DEF List, GetMany, ListAllBytes, Ask, Total, Scan, ListError, ListBroken
<1>r. Reading' = Reading /\ UNCHANGED <<prod, cons, late, main>>
  BY <1>0 DEF streamVars, Reading
<1>1. CASE ListBroken(l)
  <2>1. lpc[l] = "scan" /\ lpc' = [lpc EXCEPT ![l] = "broken"] /\ wg' = wg + 1
    BY <1>1 DEF ListBroken, Goto
  <2>2. Broken' = Broken \cup {l} /\ l \notin Broken
    BY <2>1 DEF WaitInv, Broken
  <2>3. Cardinality(Broken') = Cardinality(Broken) + 1
    BY <2>2, BrokenFinite, FS_AddElement
  <2>4. wg' = Cardinality(Reading') + Cardinality(Broken')
    BY <1>r, <2>1, <2>3, ReadingFinite, BrokenFinite DEF WaitInv
  <2> QED BY <1>r, <2>1, <2>4 DEF WaitInv, waited
<1>2. CASE GetMany(l) \/ ListAllBytes(l) \/ Total(l) \/ Scan(l) \/ ListError(l)
  <2>1. /\ wg' = wg /\ lpc[l] \in {"ready", "total", "scan"}
        /\ \E where \in {"total", "scan", "done", "refused", "failed"} :
              lpc' = [lpc EXCEPT ![l] = where]
    BY <1>2 DEF GetMany, ListAllBytes, Ask, Total, Scan, Evaluate, ListError, Goto
  <2>2. Broken' = Broken
    BY <2>1 DEF WaitInv, Broken
  <2> QED BY <1>r, <2>1, <2>2 DEF WaitInv, waited
<1> QED BY <1>1, <1>2 DEF List

(* Wait finds a count of zero only if there is no reader at all.             *)
LEMMA WaitWaitInv ==
    ASSUME WaitInv, Wait
    PROVE  WaitInv'
<1>1. Cardinality(Reading) = 0
  BY ReadingFinite, BrokenFinite DEF WaitInv, Wait
<1>2. Reading = {}
  BY <1>1, ReadingFinite, FS_EmptySet
<1>3. Reading' = Reading /\ Broken' = Broken
  BY DEF Wait, streamVars, listVars, Reading, Broken
<1> QED BY <1>2, <1>3 DEF WaitInv, Wait, streamVars, listVars

LEMMA NextWaitInv ==
    ASSUME WaitInv, [Next]_vars
    PROVE  WaitInv'
<1>1. CASE \E s \in Streams : Stream(s)
  BY <1>1, StreamWaitInv
<1>2. CASE Wait
  BY <1>2, WaitWaitInv
<1>3. CASE UNCHANGED <<streamVars, wg, lpc>> /\ (waited' => waited)
  <2>1. Reading' = Reading /\ Broken' = Broken
    BY <1>3 DEF streamVars, Reading, Broken
  <2> QED BY <1>3, <2>1 DEF streamVars, WaitInv
<1>4. ASSUME NEW l \in Listers, List(l) PROVE WaitInv'
  BY <1>4, ListWaitInv
<1>5. Change => UNCHANGED <<streamVars, wg, lpc, main>>
  BY DEF Change
<1>6. Signal \/ Close => UNCHANGED <<streamVars, wg, lpc>> /\ (waited' => waited)
  BY DEF Signal, Close, listVars, waited
<1>7. UNCHANGED vars => UNCHANGED <<streamVars, wg, lpc, main>>
  BY DEF vars, listVars
<1>8. CASE UNCHANGED <<streamVars, wg, lpc, main>>
  BY <1>3, <1>8 DEF waited
<1> QED BY <1>1, <1>2, <1>3, <1>4, <1>5, <1>6, <1>7, <1>8 DEF Next

(* The wait group counts the goroutines that read, and Wait returns only     *)
(* when none is left, for any number of streams that are finished, left or   *)
(* cut off (iterateBytes, Close).                                            *)
THEOREM CloseWaits == Spec => []CloseWaitsForReaders
<1>1. Init => WaitInv
  BY InitWaitInv
<1>2. WaitInv /\ [Next]_vars => WaitInv'
  BY NextWaitInv
<1>3. WaitInv => CloseWaitsForReaders
  BY DEF WaitInv, CloseWaitsForReaders
<1> QED BY <1>1, <1>2, <1>3, PTL DEF Spec

---------------------------------------------------------------------------
(* Pages                                                                   *)

(* Division with remainder, and its uniqueness as far as it is needed.       *)
LEMMA Quotient ==
    ASSUME NEW n \in Nat, NEW m \in Nat \ {0}
    PROVE  /\ n \div m \in Nat
           /\ m * (n \div m) <= n /\ n < m * (n \div m) + m
OBVIOUS

LEMMA ProductMonotone ==
    ASSUME NEW m \in Nat, NEW a \in Nat, NEW b \in Nat, a <= b
    PROVE  m * a <= m * b
OBVIOUS

(* How many entries come in front of a page, and up to its end.              *)
First(perPage, page) == perPage * (page - 1)
Upto(perPage, page) == perPage * page

LEMMA FirstUpto ==
    ASSUME NEW perPage \in Nat \ {0}, NEW page \in Nat \ {0}
    PROVE  /\ First(perPage, page) \in Nat /\ Upto(perPage, page) \in Nat
           /\ Upto(perPage, page) = First(perPage, page) + perPage
BY DEF First, Upto

(* What GetPagingAttr answers: never more than there is, and, as far as a    *)
(* page begins before the end, the place its number says.                    *)
LEMMA PageAttr ==
    ASSUME NEW n \in Nat, NEW perPage \in Nat \ {0}, NEW page \in Nat \ {0},
           NEW a, a = GetPagingAttr(n, page, perPage),
           NEW first, first = First(perPage, page), NEW upto, upto = Upto(perPage, page)
    PROVE  /\ a.offset \in Nat /\ a.limit \in Nat /\ a.offset + a.limit <= n
           /\ first < n => /\ a.offset = first
                          /\ a.limit = IF upto < n THEN perPage ELSE n - first
           /\ ~(first < n) => a.limit = 0
<1> DEFINE q == n \div perPage
<1>q. q \in Nat /\ perPage * q <= n /\ n < perPage * q + perPage
  BY Quotient
<1> USE DEF First, Upto
<1>p. first \in Nat /\ upto \in Nat /\ upto = first + perPage /\ page * perPage = upto
  OBVIOUS
<1>1. CASE page = 1
  <2>1. first = 0 /\ upto = perPage
    BY <1>1
  <2>2. a = [offset |-> 0, limit |-> IF perPage > n THEN n ELSE perPage]
    BY <1>1 DEF GetPagingAttr
  <2> QED BY <2>1, <2>2
<1>2. CASE page # 1 /\ page = q + 1
  <2>1. first = perPage * q
    BY <1>q, <1>2
  <2>2. a = [offset |-> first, limit |-> n - first]
    BY <1>2 DEF GetPagingAttr
  <2> HIDE DEF q
  <2> QED BY <1>q, <1>p, <2>1, <2>2
<1>3. CASE page # 1 /\ page # q + 1 /\ page <= q /\ upto <= n
  <2>1. a = [offset |-> upto - perPage, limit |-> perPage]
    BY <1>p, <1>3 DEF GetPagingAttr
  <2> QED BY <1>p, <1>3, <2>1
<1>4. CASE page # 1 /\ page # q + 1 /\ ~(page <= q /\ upto <= n)
  <2>1. a = [offset |-> 0, limit |-> 0]
    BY <1>p, <1>4 DEF GetPagingAttr
  <2>2. q + 1 <= page - 1
    <3>1. CASE page <= q
      BY <1>p, <1>q, <1>4, <3>1, ProductMonotone
    <3> QED BY <1>q, <1>4, <3>1
  <2>3. perPage * (q + 1) <= first
    BY <1>q, <2>2, ProductMonotone
  <2>4. perPage * (q + 1) = perPage * q + perPage
    BY <1>q
  <2>5. ~(first < n)
    <3> HIDE DEF q
    <3> QED BY <1>q, <1>p, <2>3, <2>4
  <2> QED BY <1>p, <2>1, <2>5
<1> QED BY <1>1, <1>2, <1>3, <1>4

(* A page holds the entries whose places its number says, and no other: the  *)
(* pages of one size are disjoint and together they are the whole listing,   *)
(* whether or not the size divides the number of entries (GetPagingAttr).    *)
THEOREM PagesTile ==
    ASSUME NEW n \in Nat, NEW perPage \in Nat \ {0}, NEW page \in Nat \ {0},
           NEW i \in 1..n
    PROVE  LET a == GetPagingAttr(n, page, perPage) IN
           (a.offset < i /\ i <= a.offset + a.limit)
               <=> (perPage * (page - 1) < i /\ i <= perPage * page)
<1> DEFINE a == GetPagingAttr(n, page, perPage)
           first == First(perPage, page)
           upto == Upto(perPage, page)
<1>0. a = GetPagingAttr(n, page, perPage) /\ first = First(perPage, page) /\ upto = Upto(perPage, page)
  OBVIOUS
<1> HIDE DEF a, first, upto
<1>p. first \in Nat /\ upto \in Nat /\ upto = first + perPage
  BY <1>0, FirstUpto
<1>1. /\ a.offset \in Nat /\ a.limit \in Nat /\ a.offset + a.limit <= n
      /\ first < n => /\ a.offset = first
                     /\ a.limit = IF upto < n THEN perPage ELSE n - first
      /\ ~(first < n) => a.limit = 0
  BY <1>0, PageAttr
<1>2. (a.offset < i /\ i <= a.offset + a.limit) <=> (first < i /\ i <= upto)
  BY <1>p, <1>1
<1> QED BY <1>2 DEF a, first, upto, First, Upto

(* What filterJSONPath and filterXPath cut out of any number of results of a *)
(* search, whatever the results are, is the page its number says; behind the *)
(* last page it is empty.                                                    *)
THEOREM SlicesArePages ==
    ASSUME NEW S, NEW seq \in Seq(S),
           NEW p, p.page \in Nat \ {0}, p.perPage \in Nat \ {0}
    PROVE  Slice(seq, p) = PageOf(seq, p.page, p.perPage)
<1> DEFINE n == Len(seq)
           a == GetPagingAttr(n, p.page, p.perPage)
           first == First(p.perPage, p.page)
           upto == Upto(p.perPage, p.page)
           last == IF upto < n THEN upto ELSE n
<1>0. n \in Nat /\ seq = [i \in 1..n |-> seq[i]]
  BY LenProperties
<1>1. first \in Nat /\ upto \in Nat /\ upto = first + p.perPage
  BY FirstUpto
<1>2. /\ a.offset \in Nat /\ a.limit \in Nat /\ a.offset + a.limit <= n
      /\ first < n => /\ a.offset = first
                     /\ a.limit = IF upto < n THEN p.perPage ELSE n - first
      /\ ~(first < n) => a.limit = 0
  BY <1>0, PageAttr
<1>3. Slice(seq, p) = SubSeq(seq, a.offset + 1, a.offset + a.limit)
  BY DEF Slice
<1>4. (p.page - 1) * p.perPage = first /\ p.page * p.perPage = upto
  BY DEF First, Upto
<1>5. PageOf(seq, p.page, p.perPage) = SubSeq(seq, first + 1, last)
  BY <1>4 DEF PageOf
<1> HIDE DEF n, a, first, upto
<1>6. CASE first < n
  <2>1. a.offset = first /\ a.offset + a.limit = last
    BY <1>0, <1>1, <1>2, <1>6
  <2> QED BY <1>3, <1>5, <2>1
<1>7. CASE ~(first < n)
  <2>1. first + 1 > last /\ first + 1 \in Int /\ last \in Int
    BY <1>0, <1>1, <1>7
  <2>2. a.offset + 1 > a.offset + a.limit /\ a.offset + 1 \in Int /\ a.offset + a.limit \in Int
    BY <1>2, <1>7
  <2>3. SubSeq(seq, first + 1, last) = <<>>
    BY <2>1, SubSeqEmpty
  <2>4. SubSeq(seq, a.offset + 1, a.offset + a.limit) = <<>>
    BY <2>2, SubSeqEmpty
  <2> QED BY <1>3, <1>5, <2>3, <2>4
<1> QED BY <1>6, <1>7

---------------------------------------------------------------------------
(* Types                                                                   *)

Underway(l) == lpc[l] \in {"total", "scan"}

(* A request that is under way asks for a page there can be; it has nothing  *)
(* before it began, and nothing of a single page before that was read.       *)
Asked(l) ==
    /\ Underway(l) => ask[l].page >= 1 /\ ask[l].perPage >= 1
    /\ (lpc[l] = "ready" \/ (Underway(l) /\ ~ask[l].all)) => items[l] = <<>>

ListTypes ==
    /\ db \subseteq Keys
    /\ changes \in 0..MaxChanges
    /\ lpc \in [Listers -> {"ready", "total", "scan", "done", "refused", "failed", "broken"}]
    /\ ask \in [Listers -> [all : BOOLEAN, page : Int, perPage : Int]]
    /\ total \in [Listers -> Nat]
    /\ items \in [Listers -> Seq(Entry)]
    /\ before \in [Listers -> SUBSET Keys]
    /\ grew \in [Listers -> BOOLEAN] /\ shrank \in [Listers -> BOOLEAN]
    /\ \A l \in Listers : Asked(l)

StreamTypes ==
    /\ rest \in [Streams -> Seq(Keys)]
    /\ hold \in [Streams -> Entry]
    /\ got \in [Streams -> Seq(Keys)]
    /\ gone \in [Streams -> BOOLEAN]
    /\ snap \in [Streams -> SUBSET Keys]
    /\ cut \in [Streams -> BOOLEAN]
    /\ main \in {"serving", "waiting", "closing", "closed"}
    /\ \A s \in Streams : cons[s] = "write" => hold[s] \in Keys
    /\ \A s \in Streams : prod[s] = "send" => rest[s] # <<>>

LEMMA KeysSorted ==
    ASSUME NEW S \in SUBSET Keys
    PROVE  /\ S \in SUBSET Int /\ IsFiniteSet(S) /\ Cardinality(S) \in Nat
           /\ Sorted(S) \in Seq(Keys) /\ Len(Sorted(S)) = Cardinality(S)
           /\ \A i \in 1..Cardinality(S) : Sorted(S)[i] \in S /\ Rank(S, Sorted(S)[i]) = i
<1>1. IsFiniteSet(Keys) /\ Keys \in SUBSET Int
  BY ListingAssumption
<1>2. IsFiniteSet(S)
  BY <1>1, FS_Subset
<1>3. S \in SUBSET Int
  BY <1>1
<1>4. /\ Cardinality(S) \in Nat /\ Sorted(S) \in Seq(S) /\ Len(Sorted(S)) = Cardinality(S)
      /\ \A i \in 1..Cardinality(S) : Sorted(S)[i] \in S /\ Rank(S, Sorted(S)[i]) = i
  BY <1>2, <1>3, SortedRanks
<1>5. Sorted(S) \in Seq(Keys)
  <2>1. Sorted(S) = [i \in 1..Cardinality(S) |-> Sorted(S)[i]]
    BY <1>4
  <2>2. \A i \in 1..Cardinality(S) : Sorted(S)[i] \in Keys
    BY <1>4
  <2>3. Sorted(S) \in [1..Cardinality(S) -> Keys]
    BY <2>1, <2>2
  <2> QED BY <1>4, <2>3
<1> QED BY <1>2, <1>3, <1>4, <1>5

(* The slots of a page.                                                      *)
LEMMA FilledSlots ==
    ASSUME NEW S \in SUBSET Keys, NEW a, a.offset \in Nat, a.limit \in Nat
    PROVE  /\ Filled(Sorted(S), a) \in Seq(Entry) /\ Len(Filled(Sorted(S), a)) = a.limit
           /\ \A i \in 1..a.limit :
                 Filled(Sorted(S), a)[i] =
                    IF a.offset + i <= Cardinality(S) THEN Sorted(S)[a.offset + i] ELSE Nil
<1> DEFINE e(i) == IF a.offset + i <= Cardinality(S) THEN Sorted(S)[a.offset + i] ELSE Nil
           f == [i \in 1..a.limit |-> e(i)]
<1>1. Filled(Sorted(S), a) = f
  BY KeysSorted DEF Filled
<1>2. ASSUME NEW i \in 1..a.limit PROVE e(i) \in Entry
  <2>1. CASE a.offset + i <= Cardinality(S)
    <3>1. a.offset + i \in 1..Cardinality(S)
      BY <2>1, KeysSorted
    <3> QED BY <2>1, <3>1, KeysSorted DEF Entry
  <2> QED BY <2>1 DEF Entry
<1>3. f \in [1..a.limit -> Entry] /\ \A i \in 1..a.limit : f[i] = e(i)
  BY <1>2
<1> HIDE DEF f
<1>4. f \in Seq(Entry) /\ Len(f) = a.limit
  BY <1>3
<1> QED BY <1>1, <1>3, <1>4

(* The part of the entries a request counted that it reads next.             *)
Attr(l) == GetPagingAttr(total[l], ask[l].page, ask[l].perPage)
NewItems(l) == Filled(Sorted(db), Attr(l))
Listed(l) == First(ask[l].perPage, ask[l].page)
ListedNext(l) == Upto(ask[l].perPage, ask[l].page)
GoesOn(l) == ask[l].all /\ ListedNext(l) < total[l]

LEMMA PageFacts ==
    ASSUME ListTypes, NEW l \in Listers, Underway(l)
    PROVE  /\ Listed(l) \in Nat /\ ListedNext(l) \in Nat /\ total[l] \in Nat
           /\ ListedNext(l) = Listed(l) + ask[l].perPage /\ ask[l].perPage \in Nat \ {0}
           /\ ask[l].page \in Nat \ {0}
           /\ ask[l].page * ask[l].perPage = ListedNext(l)
<1>1. ask[l].perPage \in Nat \ {0} /\ ask[l].page \in Nat \ {0} /\ total[l] \in Nat
  BY DEF ListTypes, Asked
<1>2. ask[l].page * ask[l].perPage = ListedNext(l)
  BY <1>1 DEF ListedNext, Upto
<1> QED BY <1>1, <1>2, FirstUpto DEF Listed, ListedNext

LEMMA NewItemsFacts ==
    ASSUME ListTypes, NEW l \in Listers, Underway(l)
    PROVE  /\ Attr(l).offset \in Nat /\ Attr(l).limit \in Nat
           /\ Attr(l).offset + Attr(l).limit <= total[l]
           /\ Listed(l) < total[l] =>
                 /\ Attr(l).offset = Listed(l)
                 /\ Attr(l).limit = IF ListedNext(l) < total[l] THEN ask[l].perPage
                                    ELSE total[l] - Listed(l)
           /\ ~(Listed(l) < total[l]) => Attr(l).limit = 0
           /\ NewItems(l) \in Seq(Entry) /\ Len(NewItems(l)) = Attr(l).limit
           /\ \A i \in 1..Attr(l).limit :
                 NewItems(l)[i] = IF Attr(l).offset + i <= Cardinality(db)
                                  THEN Sorted(db)[Attr(l).offset + i] ELSE Nil
<1>1. ask[l].perPage \in Nat \ {0} /\ ask[l].page \in Nat \ {0} /\ total[l] \in Nat
  BY PageFacts
<1>2. /\ Attr(l).offset \in Nat /\ Attr(l).limit \in Nat
      /\ Attr(l).offset + Attr(l).limit <= total[l]
      /\ Listed(l) < total[l] =>
            /\ Attr(l).offset = Listed(l)
            /\ Attr(l).limit = IF ListedNext(l) < total[l] THEN ask[l].perPage
                               ELSE total[l] - Listed(l)
      /\ ~(Listed(l) < total[l]) => Attr(l).limit = 0
  BY <1>1, PageAttr DEF Attr, Listed, ListedNext
<1>3. db \in SUBSET Keys
  BY DEF ListTypes
<1> QED BY <1>2, <1>3, FilledSlots DEF NewItems

TypeInv == WaitInv /\ ListTypes /\ StreamTypes

LEMMA TypeInvIsTypeOK == TypeInv => TypeOK
<1> SUFFICES ASSUME TypeInv PROVE TypeOK
  OBVIOUS
<1>1. wg \in Nat
  BY ReadingFinite, BrokenFinite DEF TypeInv, WaitInv
<1> QED BY <1>1 DEF TypeInv, WaitInv, ListTypes, StreamTypes, TypeOK

LEMMA ChangeTypes ==
    ASSUME ListTypes, Change
    PROVE  ListTypes'
<1>1. db' \subseteq Keys
  BY DEF Change, ListTypes
<1>2. changes' \in 0..MaxChanges
  BY ListingAssumption DEF Change, ListTypes
<1>3. grew' \in [Listers -> BOOLEAN] /\ shrank' \in [Listers -> BOOLEAN]
  BY Zenon DEF Change, ListTypes
<1>4. UNCHANGED <<lpc, ask, total, items, before>>
  BY DEF Change
<1> QED BY <1>1, <1>2, <1>3, <1>4 DEF ListTypes, Asked, Underway

(* What an answer ends with, or what comes next.                             *)
LEMMA ScanTypes ==
    ASSUME ListTypes, NEW l \in Listers, Scan(l)
    PROVE  ListTypes'
<1>0. Underway(l) /\ UNCHANGED <<db, changes, total, before, grew, shrank>>
  BY DEF Scan, Underway
<1>1. items' = [items EXCEPT ![l] = items[l] \o NewItems(l)]
  BY DEF Scan, NewItems, Attr
<1>2. items[l] \o NewItems(l) \in Seq(Entry)
  BY <1>0, NewItemsFacts, ConcatProperties DEF ListTypes
<1>3. items' \in [Listers -> Seq(Entry)]
  BY <1>1, <1>2 DEF ListTypes
<1>4. CASE /\ ask[l].all /\ lpc' = [lpc EXCEPT ![l] = "total"]
           /\ ask' = [ask EXCEPT ![l].page = ask[l].page + 1]
  <2> DEFINE next == [ask[l] EXCEPT !.page = ask[l].page + 1]
  <2>b. ask[l] \in [all : BOOLEAN, page : Int, perPage : Int]
    BY DEF ListTypes
  <2>c. ask[l].page >= 1 /\ ask[l].perPage >= 1 /\ ask[l].all
    BY <1>0, <1>4 DEF ListTypes, Asked
  <2>d. next.all = ask[l].all /\ next.page = ask[l].page + 1 /\ next.perPage = ask[l].perPage
    BY <2>b
  <2>e. next \in [all : BOOLEAN, page : Int, perPage : Int]
    BY <2>b
  <2>0. /\ next \in [all : BOOLEAN, page : Int, perPage : Int]
        /\ next.all /\ next.page >= 1 /\ next.perPage >= 1
    <3> HIDE DEF next
    <3>1. next.page \in Int /\ ask[l].page \in Int
      BY <2>b, <2>e
    <3> QED BY <2>c, <2>d, <2>e, <3>1
  <2>a. ask' = [ask EXCEPT ![l] = next]
    BY <1>4
  <2> HIDE DEF next
  <2>1. /\ ask' \in [Listers -> [all : BOOLEAN, page : Int, perPage : Int]]
        /\ lpc' \in [Listers -> {"ready", "total", "scan", "done", "refused", "failed", "broken"}]
        /\ ask'[l].all /\ ask'[l].page >= 1 /\ ask'[l].perPage >= 1 /\ lpc'[l] = "total"
        /\ \A m \in Listers : m # l => ask'[m] = ask[m] /\ lpc'[m] = lpc[m] /\ items'[m] = items[m]
    BY <1>1, <1>4, <2>0, <2>a, ZenonT(30) DEF ListTypes
  <2>2. \A m \in Listers : Asked(m)'
    BY <2>1 DEF ListTypes, Asked, Underway
  <2> QED BY <1>0, <1>3, <2>1, <2>2 DEF ListTypes
<1>5. CASE ask' = ask /\ \E end \in {"done", "refused", "failed"} : lpc' = [lpc EXCEPT ![l] = end]
  <2>1. \A m \in Listers : Asked(m)'
    BY <1>1, <1>5 DEF ListTypes, Asked, Underway
  <2> QED BY <1>0, <1>3, <1>5, <2>1 DEF ListTypes
<1> QED BY <1>4, <1>5 DEF Scan, Evaluate, Goto

LEMMA ListStepTypes ==
    ASSUME ListTypes, NEW l \in Listers, List(l)
    PROVE  ListTypes'
<1> USE DEF ListTypes, Asked, Underway
<1>1. CASE GetMany(l)
  <2>1. PICK all \in BOOLEAN, page \in Int, perPage \in Int :
            /\ Ask(l, all, page, perPage)
            /\ \/ page >= 1 /\ perPage >= 1 /\ lpc' = [lpc EXCEPT ![l] = "total"]
               \/ lpc' = [lpc EXCEPT ![l] = "refused"]
            /\ items' = items
    <3>1. PICK p \in Pages :
              /\ Ask(l, FALSE, p.page, p.perPage) \/ Ask(l, TRUE, 1, MaxPerPage)
              /\ lpc' = [lpc EXCEPT ![l] = IF ValidPaging(p) THEN "total" ELSE "refused"]
      BY <1>1 DEF GetMany, Goto
    <3>2. p.page \in Int /\ p.perPage \in Int /\ MaxPerPage \in Int /\ MaxPerPage >= 1
      BY ListingAssumption DEF Page
    <3>3. /\ ValidPaging(p) => p.page >= 1 /\ p.perPage >= 1
          /\ items' = items
      BY <1>1, <3>2 DEF ValidPaging, GetMany
    <3>4. CASE Ask(l, FALSE, p.page, p.perPage)
      BY <3>1, <3>2, <3>3, <3>4
    <3>5. CASE Ask(l, TRUE, 1, MaxPerPage)
      <4>1. /\ Ask(l, TRUE, 1, MaxPerPage)
            /\ \/ 1 >= 1 /\ MaxPerPage >= 1 /\ lpc' = [lpc EXCEPT ![l] = "total"]
               \/ lpc' = [lpc EXCEPT ![l] = "refused"]
            /\ items' = items
        <5> HIDE DEF ListTypes, Asked, Underway
        <5>1. lpc' = [lpc EXCEPT ![l] = "total"] \/ lpc' = [lpc EXCEPT ![l] = "refused"]
          BY <3>1, Zenon
        <5>2. 1 >= 1
          OBVIOUS
        <5> QED BY <3>2, <3>3, <3>5, <5>1, <5>2, Zenon
      <4>2. TRUE \in BOOLEAN /\ 1 \in Int
        OBVIOUS
      <4> HIDE DEF ListTypes, Asked, Underway
      <4> QED BY <3>2, <4>1, <4>2, Zenon
    <3> QED BY <3>1, <3>4, <3>5
  <2>2. /\ lpc[l] = "ready"
        /\ ask' = [ask EXCEPT ![l] = [all |-> all, page |-> page, perPage |-> perPage]]
        /\ before' = [before EXCEPT ![l] = db]
        /\ grew' = [grew EXCEPT ![l] = FALSE] /\ shrank' = [shrank EXCEPT ![l] = FALSE]
        /\ UNCHANGED <<db, changes, total>>
    BY <2>1 DEF Ask
  <2>3. \A m \in Listers : Asked(m)'
    BY <2>1, <2>2
  <2> QED BY <2>1, <2>2, <2>3
<1>2. CASE ListAllBytes(l)
  <2>1. /\ lpc[l] = "ready"
        /\ ask' = [ask EXCEPT ![l] = [all |-> TRUE, page |-> 1, perPage |-> MaxPerPage]]
        /\ before' = [before EXCEPT ![l] = db]
        /\ grew' = [grew EXCEPT ![l] = FALSE] /\ shrank' = [shrank EXCEPT ![l] = FALSE]
        /\ UNCHANGED <<db, changes, total>>
        /\ \E end \in {"done", "refused", "failed"} : lpc' = [lpc EXCEPT ![l] = end]
    BY <1>2 DEF ListAllBytes, Ask, Goto
  <2>2. items' = items \/ items' = [items EXCEPT ![l] = Sorted(db)]
    BY <1>2 DEF ListAllBytes
  <2>3. Sorted(db) \in Seq(Entry)
    BY KeysSorted DEF Entry
  <2>4. \A m \in Listers : Asked(m)'
    BY <2>1, <2>2
  <2>5. /\ ask' \in [Listers -> [all : BOOLEAN, page : Int, perPage : Int]]
        /\ before' \in [Listers -> SUBSET Keys]
    BY <2>1, ListingAssumption
  <2>6. /\ lpc' \in [Listers -> {"ready", "total", "scan", "done", "refused", "failed", "broken"}]
        /\ grew' \in [Listers -> BOOLEAN] /\ shrank' \in [Listers -> BOOLEAN]
    BY <2>1
  <2>7. items' \in [Listers -> Seq(Entry)]
    BY <2>2, <2>3
  <2> QED BY <2>1, <2>4, <2>5, <2>6, <2>7
<1>3. CASE Total(l)
  <2>1. Cardinality(db) \in Nat
    BY KeysSorted
  <2>2. /\ lpc[l] = "total" /\ lpc' = [lpc EXCEPT ![l] = "scan"]
        /\ total' = [total EXCEPT ![l] = Cardinality(db)]
        /\ UNCHANGED <<db, changes, ask, items, before, grew, shrank>>
    BY <1>3 DEF Total, Goto
  <2>3. \A m \in Listers : Asked(m)'
    BY <2>2
  <2> QED BY <2>1, <2>2, <2>3
<1>4. CASE Scan(l)
  BY <1>4, ScanTypes
<1>5. CASE ListError(l) \/ ListBroken(l)
  <2>1. /\ lpc[l] # "ready" /\ \E end \in {"failed", "broken"} : lpc' = [lpc EXCEPT ![l] = end]
        /\ UNCHANGED <<db, changes, ask, total, items, before, grew, shrank>>
    BY <1>5 DEF ListError, ListBroken, Goto
  <2>2. \A m \in Listers : Asked(m)'
    BY <2>1
  <2> QED BY <2>1, <2>2
<1> QED BY <1>1, <1>2, <1>3, <1>4, <1>5 DEF List

LEMMA StreamStepTypes ==
    ASSUME TypeInv, NEW s \in Streams, Stream(s)
    PROVE  StreamTypes'
<1> USE DEF TypeInv, StreamTypes, WaitInv
<1>1. CASE GetAll(s)
  BY <1>1 DEF GetAll
<1>2. CASE OpenIterator(s)
  <2>1. Sorted(db) \in Seq(Keys) /\ <<>> \in Seq(Keys) /\ db \in SUBSET Keys
    BY KeysSorted DEF ListTypes
  <2>2. /\ prod' = [prod EXCEPT ![s] = "next"]
        /\ \E r \in Seq(Keys) : rest' = [rest EXCEPT ![s] = r]
        /\ \E S \in SUBSET Keys : snap' = [snap EXCEPT ![s] = S]
        /\ \E b \in BOOLEAN : cut' = [cut EXCEPT ![s] = b]
        /\ UNCHANGED <<cons, hold, got, gone, main>>
    BY <1>2, <2>1 DEF OpenIterator, closed
  <2> QED BY <2>2
<1>3. CASE Produce(s)
  <2>1. /\ UNCHANGED <<rest, cons, hold, got, gone, snap, main>>
        /\ cut' = cut \/ cut' = [cut EXCEPT ![s] = TRUE]
        /\ \/ prod' = [prod EXCEPT ![s] = "end"]
           \/ prod' = [prod EXCEPT ![s] = "send"] /\ rest[s] # <<>>
    BY <1>3 DEF Produce, Release
  <2> QED BY <2>1
<1>4. CASE Transfer(s)
  <2>1. /\ rest[s] # <<>> /\ rest[s] \in Seq(Keys) /\ cons' = [cons EXCEPT ![s] = "write"]
        /\ hold' = [hold EXCEPT ![s] = Head(rest[s])] /\ rest' = [rest EXCEPT ![s] = Tail(rest[s])]
        /\ prod' = [prod EXCEPT ![s] = "next"]
        /\ UNCHANGED <<got, gone, snap, cut, main>>
    BY <1>4 DEF Transfer
  <2>2. Head(rest[s]) \in Keys /\ Tail(rest[s]) \in Seq(Keys)
    BY <2>1, HeadTailProperties
  <2> QED BY <2>1, <2>2, ZenonT(30) DEF Entry
<1>5. CASE WriteItem(s)
  <2>1. /\ hold' = [hold EXCEPT ![s] = Nil] /\ hold[s] \in Keys
        /\ \E c \in {"left", "receive"} : cons' = [cons EXCEPT ![s] = c]
        /\ got' = got \/ got' = [got EXCEPT ![s] = Append(got[s], hold[s])]
        /\ UNCHANGED <<prod, rest, gone, snap, cut, main>>
    BY <1>5 DEF WriteItem
  <2>2. Append(got[s], hold[s]) \in Seq(Keys)
    BY <2>1
  <2>3. got' \in [Streams -> Seq(Keys)]
    BY <2>1, <2>2
  <2>4. hold' \in [Streams -> Entry]
    BY <2>1 DEF Entry
  <2>5. cons' \in [Streams -> {"off", "receive", "write", "finished", "left"}]
    BY <2>1
  <2> QED BY <2>1, <2>3, <2>4, <2>5
<1>6. CASE EndOfStream(s)
  BY <1>6 DEF EndOfStream
<1>7. CASE Leave(s)
  BY <1>7 DEF Leave
<1> QED BY <1>1, <1>2, <1>3, <1>4, <1>5, <1>6, <1>7 DEF Stream

(* Every step is one of a request, of a stream, of main, or a write.         *)
LEMMA StepOfListing ==
    ASSUME [Next]_vars
    PROVE  \/ \E l \in Listers : List(l) /\ UNCHANGED <<db, changes, streamVars, main>>
           \/ \E s \in Streams : Stream(s) /\ UNCHANGED <<db, changes, listVars, main>>
           \/ Change /\ UNCHANGED <<streamVars, wg, main>>
           \/ UNCHANGED <<db, changes, listVars, streamVars, wg>>
              /\ (main' = main \/ main' \in {"waiting", "closing", "closed"})
<1>1. \A l \in Listers : List(l) => UNCHANGED <<db, changes, streamVars, main>>
  BY DEF List, GetMany, ListAllBytes, Ask, Total, Scan, ListError, ListBroken
<1>2. \A s \in Streams : Stream(s) => UNCHANGED <<db, changes, listVars, main>>
  BY DEF Stream, GetAll, OpenIterator, Produce, Transfer, WriteItem, EndOfStream, Leave
<1>3. Change => UNCHANGED <<streamVars, wg, main>>
  BY DEF Change
<1>4. Signal \/ Wait \/ Close \/ UNCHANGED vars =>
         UNCHANGED <<db, changes, listVars, streamVars, wg>>
         /\ (main' = main \/ main' \in {"waiting", "closing", "closed"})
  BY DEF Signal, Wait, Close, vars
<1> QED BY <1>1, <1>2, <1>3, <1>4 DEF Next

LEMMA InitTypeInv == Init => TypeInv
<1> SUFFICES ASSUME Init PROVE TypeInv
  OBVIOUS
<1>1. WaitInv
  BY InitWaitInv
<1>2. /\ ListTypes /\ StreamTypes
  BY ListingAssumption DEF Init, ListTypes, StreamTypes, Asked, Underway, Entry
<1> QED BY <1>1, <1>2 DEF TypeInv

LEMMA NextTypeInv ==
    ASSUME TypeInv, [Next]_vars
    PROVE  TypeInv'
<1>w. WaitInv'
  BY NextWaitInv DEF TypeInv
<1>t. ListTypes /\ StreamTypes
  BY DEF TypeInv
<1>s. UNCHANGED streamVars /\ (main' = main \/ main' \in {"waiting", "closing", "closed"})
         => StreamTypes'
  BY <1>t DEF StreamTypes, streamVars
<1>l. UNCHANGED <<db, changes, listVars>> => ListTypes'
  BY <1>t DEF ListTypes, listVars, Asked, Underway
<1>1. ASSUME NEW l \in Listers, List(l), UNCHANGED <<streamVars, main>> PROVE ListTypes' /\ StreamTypes'
  BY <1>1, <1>t, <1>s, ListStepTypes
<1>2. ASSUME NEW s \in Streams, Stream(s), UNCHANGED <<db, changes, listVars>>
      PROVE  ListTypes' /\ StreamTypes'
  BY <1>2, <1>l, StreamStepTypes
<1>3. ASSUME Change, UNCHANGED <<streamVars, main>> PROVE ListTypes' /\ StreamTypes'
  BY <1>3, <1>t, <1>s, ChangeTypes
<1> QED BY <1>w, <1>s, <1>l, <1>1, <1>2, <1>3, StepOfListing DEF TypeInv

(* Pages, streams and the wait group keep their ranges for any database and  *)
(* any number of requests: no page has a length or a place below zero, and   *)
(* nothing is put into a stream that is not a key (list, iterateBytes).      *)
THEOREM ListingTyped == Spec => []TypeOK
<1>1. TypeInv /\ [Next]_vars => TypeInv'
  BY NextTypeInv
<1> QED BY <1>1, InitTypeInv, TypeInvIsTypeOK, PTL DEF Spec

---------------------------------------------------------------------------
(* What a request collects                                                 *)

(* What a step is to one request: nothing, a write to the database, or a     *)
(* step of its own.                                                          *)
Rests(l) ==
    /\ lpc'[l] = lpc[l] /\ ask'[l] = ask[l] /\ total'[l] = total[l]
    /\ items'[l] = items[l] /\ before'[l] = before[l]
Remembers(l) == grew'[l] = grew[l] /\ shrank'[l] = shrank[l]
SeesWrite(l) ==
    /\ Rests(l)
    /\ grew'[l] = (grew[l] \/ ~(db' \subseteq db))
    /\ shrank'[l] = (shrank[l] \/ ~(db \subseteq db'))
Begins(l) ==
    /\ lpc[l] = "ready" /\ items'[l] = items[l] /\ before'[l] = db
    /\ \/ lpc'[l] \in {"refused", "failed"}
       \/ lpc'[l] = "total" /\ (ask'[l].all => ask'[l].page = 1)
ReadsAll(l) ==
    /\ lpc[l] = "ready" /\ lpc'[l] = "done" /\ items'[l] = Sorted(db) /\ before'[l] = db
    /\ ask'[l].all
Counts(l) ==
    /\ lpc[l] = "total" /\ lpc'[l] = "scan" /\ total'[l] = Cardinality(db)
    /\ ask'[l] = ask[l] /\ items'[l] = items[l] /\ before'[l] = before[l] /\ Remembers(l)
Collects(l) ==
    /\ lpc[l] = "scan" /\ items'[l] = items[l] \o NewItems(l)
    /\ before'[l] = before[l] /\ Remembers(l)
    /\ \/ /\ GoesOn(l) /\ lpc'[l] = "total" /\ ask'[l].all
          /\ ask'[l].perPage = ask[l].perPage /\ ask'[l].page = ask[l].page + 1
       \/ ~GoesOn(l) /\ lpc'[l] \in {"done", "refused", "failed"} /\ ask'[l] = ask[l]
Fails(l) ==
    /\ lpc'[l] \in {"failed", "broken"} /\ items'[l] = items[l] /\ before'[l] = before[l] /\ Remembers(l)

LEMMA StepOfLister ==
    ASSUME TypeInv, [Next]_vars, NEW l \in Listers
    PROVE  \/ SeesWrite(l)
           \/ /\ db' = db
              /\ \/ Rests(l) /\ Remembers(l)
                 \/ Begins(l) \/ ReadsAll(l) \/ Counts(l) \/ Collects(l) \/ Fails(l)
<1> USE DEF TypeInv, ListTypes
<1>1. CASE Change
  BY <1>1 DEF Change, SeesWrite, Rests
<1>2. CASE UNCHANGED <<db, listVars>>
  BY <1>2 DEF listVars, Rests, Remembers
<1>3. ASSUME NEW m \in Listers, m # l, List(m), db' = db PROVE Rests(l) /\ Remembers(l)
  <2> USE DEF Rests, Remembers, Goto
  <2>1. CASE GetMany(m)
    BY <1>3, <2>1 DEF GetMany, Ask
  <2>2. CASE ListAllBytes(m)
    BY <1>3, <2>2 DEF ListAllBytes, Ask
  <2>3. CASE Total(m) \/ ListError(m) \/ ListBroken(m)
    BY <1>3, <2>3 DEF Total, ListError, ListBroken
  <2>4. CASE Scan(m)
    BY <1>3, <2>4 DEF Scan, Evaluate
  <2> QED BY <1>3, <2>1, <2>2, <2>3, <2>4 DEF List
<1>4. CASE GetMany(l)
  <2>1. /\ lpc[l] = "ready" /\ items' = items /\ before'[l] = db
        /\ lpc'[l] \in {"total", "refused"}
    BY <1>4 DEF GetMany, Ask, Goto
  <2>2. ask'[l].all => ask'[l].page = 1
    BY <1>4 DEF GetMany, Ask
  <2> QED BY <1>4, <2>1, <2>2 DEF Begins, GetMany, Ask
<1>5. CASE ListAllBytes(l)
  <2>1. /\ lpc[l] = "ready" /\ before'[l] = db /\ db' = db
        /\ ask'[l] = [all |-> TRUE, page |-> 1, perPage |-> MaxPerPage]
    BY <1>5 DEF ListAllBytes, Ask
  <2>2. \/ lpc'[l] = "done" /\ items'[l] = Sorted(db)
        \/ lpc'[l] \in {"refused", "failed"} /\ items' = items
    BY <1>5 DEF ListAllBytes, Goto
  <2> QED BY <2>1, <2>2 DEF Begins, ReadsAll
<1>6. CASE Total(l)
  BY <1>6 DEF Total, Goto, Counts, Remembers
<1>7. CASE Scan(l)
  <2>1. /\ lpc[l] = "scan" /\ items'[l] = items[l] \o NewItems(l)
        /\ before' = before /\ Remembers(l) /\ db' = db
    BY <1>7 DEF Scan, NewItems, Attr, Remembers
  <2>2. ask[l].page * ask[l].perPage = ListedNext(l)
    BY <2>1, PageFacts DEF Underway
  <2>3. CASE GoesOn(l)
    <3>1. /\ lpc' = [lpc EXCEPT ![l] = "total"]
          /\ ask' = [ask EXCEPT ![l].page = ask[l].page + 1]
      BY <1>7, <2>2, <2>3 DEF Scan, Goto, GoesOn
    <3>2. ask[l] \in [all : BOOLEAN, page : Int, perPage : Int]
      OBVIOUS
    <3>3. /\ ask'[l].all = ask[l].all /\ ask'[l].perPage = ask[l].perPage
          /\ ask'[l].page = ask[l].page + 1
      BY <3>1, <3>2
    <3> QED BY <2>1, <2>3, <3>1, <3>3 DEF Collects, GoesOn
  <2>4. CASE ~GoesOn(l)
    <3>1. ask' = ask /\ Evaluate(l)
      BY <1>7, <2>2, <2>4 DEF Scan, GoesOn
    <3>2. lpc'[l] \in {"done", "refused", "failed"}
      BY <3>1 DEF Evaluate, Goto
    <3> QED BY <2>1, <2>4, <3>1, <3>2 DEF Collects
  <2> QED BY <2>1, <2>3, <2>4
<1>8. CASE ListError(l) \/ ListBroken(l)
  BY <1>8 DEF ListError, ListBroken, Goto, Fails, Remembers
<1>9. \A m \in Listers : List(m) => \/ GetMany(m) \/ ListAllBytes(m) \/ Total(m) \/ Scan(m)
                                     \/ ListError(m) \/ ListBroken(m)
  BY DEF List
<1>10. List(l) => \/ SeesWrite(l)
                 \/ /\ db' = db
                    /\ \/ Rests(l) /\ Remembers(l)
                       \/ Begins(l) \/ ReadsAll(l) \/ Counts(l) \/ Collects(l) \/ Fails(l)
  <2>1. Total(l) \/ ListError(l) \/ ListBroken(l) => db' = db
    BY DEF Total, ListError, ListBroken
  <2> QED BY <1>4, <1>5, <1>6, <1>7, <1>8, <1>9, <2>1
<1> HIDE DEF TypeInv, ListTypes
<1> QED BY <1>1, <1>2, <1>3, <1>10, StepOfListing

LEMMA NilIsNoKey == Nil \notin Keys
<1>1. Keys \subseteq Nat /\ Nil \notin Int
  BY ListingAssumption
<1>2. Nat \subseteq Int
  OBVIOUS
<1> QED BY <1>1, <1>2, Zenon

(* Without removals there is at least what was counted.                      *)
NoGap(l) ==
    ~shrank[l] => /\ items[l] \in Seq(Keys)
                  /\ lpc[l] = "scan" => total[l] <= Cardinality(db)

LEMMA NextNoGap ==
    ASSUME TypeInv, [Next]_vars, NEW l \in Listers, NoGap(l)
    PROVE  NoGap(l)'
<1>t. ListTypes /\ ListTypes' /\ db \in SUBSET Keys /\ db' \in SUBSET Keys
  BY NextTypeInv DEF TypeInv, ListTypes
<1>d. Cardinality(db) \in Nat /\ Sorted(db) \in Seq(Keys) /\ IsFiniteSet(db')
  BY <1>t, KeysSorted
<1>1. CASE SeesWrite(l)
  <2> SUFFICES ASSUME ~shrank'[l] PROVE NoGap(l)'
    BY DEF NoGap
  <2>1. ~shrank[l] /\ db \subseteq db'
    BY <1>1, <1>t DEF SeesWrite, ListTypes
  <2>2. Cardinality(db) <= Cardinality(db') /\ Cardinality(db') \in Nat
    BY <1>t, <1>d, <2>1, FS_Subset, KeysSorted
  <2>3. total[l] \in Nat
    BY <1>t DEF ListTypes
  <2> QED BY <1>1, <1>d, <2>1, <2>2, <2>3 DEF NoGap, SeesWrite, Rests
<1>2. CASE db' = db /\ Rests(l) /\ Remembers(l)
  BY <1>2 DEF Rests, Remembers, NoGap
<1>3. CASE Begins(l)
  <2>1. items'[l] = <<>>
    BY <1>3, <1>t DEF Begins, ListTypes, Asked
  <2> QED BY <1>3, <2>1 DEF Begins, NoGap
<1>4. CASE ReadsAll(l)
  BY <1>4, <1>d DEF ReadsAll, NoGap
<1>5. CASE db' = db /\ Counts(l)
  BY <1>5, <1>d DEF Counts, Remembers, NoGap
<1>6. CASE Collects(l)
  <2> SUFFICES ASSUME ~shrank[l] PROVE items'[l] \in Seq(Keys)
    BY <1>6 DEF Collects, Remembers, NoGap
  <2>1. /\ lpc[l] = "scan" /\ Underway(l) /\ items'[l] = items[l] \o NewItems(l)
        /\ items[l] \in Seq(Keys) /\ total[l] <= Cardinality(db)
    BY <1>6 DEF Collects, NoGap, Underway
  <2> DEFINE o == Attr(l).offset
             n == Attr(l).limit
  <2>2. /\ o \in Nat /\ n \in Nat /\ o + n <= total[l] /\ total[l] \in Nat
        /\ Len(NewItems(l)) = n /\ NewItems(l) \in Seq(Entry)
        /\ \A i \in 1..n : NewItems(l)[i] = IF o + i <= Cardinality(db) THEN Sorted(db)[o + i] ELSE Nil
    BY <1>t, <2>1, NewItemsFacts, PageFacts
  <2> HIDE DEF o, n
  <2>3. ASSUME NEW i \in 1..n PROVE NewItems(l)[i] \in Keys
    <3>1. o + i \in 1..Cardinality(db) /\ o + i <= Cardinality(db)
      BY <1>d, <2>1, <2>2
    <3> QED BY <1>t, <2>2, <3>1, KeysSorted
  <2>4. NewItems(l) \in Seq(Keys)
    <3>1. NewItems(l) \in [1..n -> Entry]
      BY <2>2
    <3>2. NewItems(l) \in [1..n -> Keys]
      BY <2>3, <3>1
    <3> QED BY <2>2, <3>2
  <2> QED BY <2>1, <2>4, ConcatProperties
<1>7. CASE Fails(l)
  BY <1>7 DEF Fails, Remembers, NoGap
<1> QED BY <1>1, <1>2, <1>3, <1>4, <1>5, <1>6, <1>7, StepOfLister

(* A page has an empty slot only if an entry was removed between the count   *)
(* and the reading of some page, for any number of pages, requests and       *)
(* writes (list, listAll).                                                   *)
THEOREM GapsNeedRemovals == Spec => []GapsOnlyAfterRemovals
<1> DEFINE Inv == TypeInv /\ \A l \in Listers : NoGap(l)
<1>1. Init => Inv
  <2>1. Init => \A l \in Listers : NoGap(l)
    BY DEF Init, NoGap
  <2> QED BY <2>1, InitTypeInv
<1>2. Inv /\ [Next]_vars => Inv'
  BY NextTypeInv, NextNoGap
<1>3. Inv => GapsOnlyAfterRemovals
  <2> SUFFICES ASSUME Inv, NEW l \in Listers, ~shrank[l], NEW i \in 1..Len(items[l])
               PROVE  items[l][i] # Nil
    BY DEF GapsOnlyAfterRemovals
  <2>1. items[l] \in Seq(Keys)
    BY DEF NoGap
  <2>2. items[l][i] \in Keys
    BY <2>1, ElementOfSeq
  <2> QED BY <2>2, NilIsNoKey
<1> QED
  <2> HIDE DEF Inv
  <2> QED BY <1>1, <1>2, <1>3, PTL DEF Spec

(* Without additions an entry can only move to the front: what was collected *)
(* lies in front of the page that is read next.                              *)
Distinct(seq) == \A i, j \in 1..Len(seq) : (i # j /\ seq[i] # Nil) => seq[i] # seq[j]
InFront(seq, n) == \A i \in 1..Len(seq) : seq[i] # Nil => Rank(db, seq[i]) <= n
Once(l) ==
    ~grew[l] => Distinct(items[l]) /\ (Underway(l) => InFront(items[l], Listed(l)))

LEMMA KeysDistinct ==
    ASSUME NEW S \in SUBSET Keys
    PROVE  Distinct(Sorted(S))
<1> SUFFICES ASSUME NEW i \in 1..Cardinality(S), NEW j \in 1..Cardinality(S), i # j
             PROVE  Sorted(S)[i] # Sorted(S)[j]
  BY KeysSorted DEF Distinct
<1> QED BY KeysSorted

(* The next page is behind what was collected before.                        *)
LEMMA CollectsOnce ==
    ASSUME TypeInv, NEW l \in Listers, Underway(l),
           Distinct(items[l]), InFront(items[l], Listed(l))
    PROVE  /\ Distinct(items[l] \o NewItems(l))
           /\ InFront(items[l] \o NewItems(l), ListedNext(l))
<1> DEFINE o == Attr(l).offset
           n == Attr(l).limit
           a == items[l]
           b == NewItems(l)
           c == a \o b
           first == Listed(l)
           upto == ListedNext(l)
<1>t. ListTypes /\ db \in SUBSET Keys
  BY DEF TypeInv, ListTypes
<1>1. /\ o \in Nat /\ n \in Nat /\ first \in Nat /\ upto \in Nat /\ first <= upto
      /\ n > 0 => o = first /\ o + n <= upto
  <2>1. /\ first \in Nat /\ upto \in Nat /\ total[l] \in Nat
        /\ upto = first + ask[l].perPage /\ ask[l].perPage \in Nat
    BY <1>t, PageFacts
  <2>2. /\ o \in Nat /\ n \in Nat
        /\ first < total[l] => o = first /\ n = IF upto < total[l] THEN ask[l].perPage
                                              ELSE total[l] - first
        /\ ~(first < total[l]) => n = 0
    BY <1>t, NewItemsFacts
  <2> HIDE DEF o, n, first, upto
  <2> QED BY <2>1, <2>2
<1>2. /\ Len(b) = n /\ b \in Seq(Entry) /\ a \in Seq(Entry)
      /\ \A i \in 1..n : b[i] = IF o + i <= Cardinality(db) THEN Sorted(db)[o + i] ELSE Nil
  BY <1>t, NewItemsFacts DEF ListTypes
<1>3. Distinct(a) /\ InFront(a, first)
  OBVIOUS
<1> HIDE DEF o, n, a, b, first, upto
<1>4. ASSUME NEW i \in 1..n, b[i] # Nil PROVE Rank(db, b[i]) = o + i
  <2>1. o + i \in 1..Cardinality(db) /\ b[i] = Sorted(db)[o + i]
    BY <1>1, <1>2, <1>4, <1>t, KeysSorted
  <2> QED BY <1>t, <2>1, KeysSorted
<1>5. /\ c \in Seq(Entry) /\ Len(a) \in Nat /\ Len(c) = Len(a) + n
      /\ \A i \in 1..Len(c) : \/ i \in 1..Len(a) /\ c[i] = a[i]
                              \/ ~(i <= Len(a)) /\ i - Len(a) \in 1..n /\ c[i] = b[i - Len(a)]
  <2>0. a \in Seq(Entry) /\ b \in Seq(Entry)
    BY <1>2
  <2>1. /\ c \in Seq(Entry) /\ Len(c) = Len(a) + Len(b) /\ Len(a) \in Nat
        /\ \A i \in 1..(Len(a) + Len(b)) : c[i] = IF i <= Len(a) THEN a[i] ELSE b[i - Len(a)]
    BY <2>0, ConcatProperties
  <2> HIDE DEF c
  <2> QED BY <1>1, <1>2, <2>1
<1> HIDE DEF c
<1>6. ASSUME NEW i \in 1..Len(c), c[i] # Nil
      PROVE  /\ i \in 1..Len(a) => Rank(db, c[i]) <= first
             /\ ~(i <= Len(a)) => Rank(db, c[i]) = first + (i - Len(a))
  <2>1. i \in 1..Len(a) => Rank(db, c[i]) <= first
    BY <1>3, <1>5, <1>6 DEF InFront
  <2>2. ASSUME ~(i <= Len(a)) PROVE Rank(db, c[i]) = first + (i - Len(a))
    <3>1. i - Len(a) \in 1..n /\ c[i] = b[i - Len(a)]
      BY <1>5, <2>2
    <3>2. Rank(db, c[i]) = o + (i - Len(a))
      BY <1>4, <1>6, <3>1
    <3> QED BY <1>1, <3>1, <3>2
  <2> QED BY <2>1, <2>2
<1>7. Distinct(c)
  <2> SUFFICES ASSUME NEW i \in 1..Len(c), NEW j \in 1..Len(c), i # j, c[i] # Nil, c[i] = c[j]
               PROVE  FALSE
    BY DEF Distinct
  <2>1. CASE i <= Len(a) /\ j <= Len(a)
    <3>1. i \in 1..Len(a) /\ j \in 1..Len(a) /\ c[i] = a[i] /\ c[j] = a[j]
      BY <1>5, <2>1
    <3> QED BY <1>3, <3>1 DEF Distinct
  <2>2. CASE i <= Len(a) /\ ~(j <= Len(a))
    <3>1. i \in 1..Len(a) /\ j - Len(a) \in Nat \ {0}
      BY <1>1, <1>5, <2>2
    <3>2. Rank(db, c[i]) <= first /\ Rank(db, c[j]) = first + (j - Len(a))
      BY <1>6, <2>2, <3>1
    <3>3. first + (j - Len(a)) <= first
      BY <3>2
    <3> QED BY <1>1, <3>1, <3>3
  <2>3. CASE ~(i <= Len(a)) /\ j <= Len(a)
    <3>1. j \in 1..Len(a) /\ i - Len(a) \in Nat \ {0}
      BY <1>1, <1>5, <2>3
    <3>2. Rank(db, c[j]) <= first /\ Rank(db, c[i]) = first + (i - Len(a))
      BY <1>6, <2>3, <3>1
    <3>3. first + (i - Len(a)) <= first
      BY <3>2
    <3> QED BY <1>1, <3>1, <3>3
  <2>4. CASE ~(i <= Len(a)) /\ ~(j <= Len(a))
    <3>1. first + (i - Len(a)) = first + (j - Len(a))
      BY <1>6, <2>4
    <3> QED BY <1>1, <1>5, <3>1
  <2> QED BY <2>1, <2>2, <2>3, <2>4
<1>8. InFront(c, upto)
  <2> SUFFICES ASSUME NEW i \in 1..Len(c), c[i] # Nil PROVE Rank(db, c[i]) <= upto
    BY DEF InFront
  <2>1. CASE i \in 1..Len(a)
    <3>1. Rank(db, c[i]) <= first
      BY <1>6, <2>1
    <3>2. Rank(db, c[i]) \in Int
      BY <1>t, KeysSorted, BelowFinite DEF Rank
    <3> QED BY <1>1, <3>1, <3>2
  <2>2. CASE ~(i <= Len(a))
    <3>1. Rank(db, c[i]) = first + (i - Len(a)) /\ i - Len(a) \in 1..n
      BY <1>5, <1>6, <2>2
    <3> QED BY <1>1, <3>1
  <2> QED BY <1>5, <2>1, <2>2
<1> QED BY <1>7, <1>8 DEF a, b, c, upto

LEMMA NextPage ==
    ASSUME TypeInv, NEW l \in Listers, Collects(l), GoesOn(l)
    PROVE  Listed(l)' = ListedNext(l)
<1>1. ask[l].page \in Int /\ ask[l].perPage \in Int
  BY DEF TypeInv, ListTypes
<1>2. ask'[l].page = ask[l].page + 1 /\ ask'[l].perPage = ask[l].perPage
  BY DEF Collects
<1> QED BY <1>1, <1>2 DEF Listed, ListedNext, First, Upto

LEMMA NextOnce ==
    ASSUME TypeInv, [Next]_vars, NEW l \in Listers, Once(l)
    PROVE  Once(l)'
<1>t. /\ ListTypes /\ ListTypes' /\ db \in SUBSET Keys /\ db' \in SUBSET Keys
      /\ IsFiniteSet(db)
  BY NextTypeInv, KeysSorted DEF TypeInv, ListTypes
<1>1. CASE SeesWrite(l)
  <2> SUFFICES ASSUME ~grew'[l] PROVE Once(l)'
    BY DEF Once
  <2>1. ~grew[l] /\ db' \in SUBSET db
    BY <1>1, <1>t DEF SeesWrite, ListTypes
  <2>2. UNCHANGED <<Listed(l), Underway(l), items[l]>>
    BY <1>1 DEF SeesWrite, Rests, Listed, Underway
  <2>3. ASSUME Underway(l), NEW k, Rank(db, k) <= Listed(l) PROVE Rank(db', k) <= Listed(l)
    <3>1. Rank(db', k) <= Rank(db, k)
      BY <1>t, <2>1, RankShrinks
    <3>2. IsFiniteSet(db')
      BY <1>t, <2>1, FS_Subset
    <3>3. Rank(db, k) \in Int /\ Rank(db', k) \in Int
      BY <1>t, <3>2, RankIsNumber
    <3>4. Listed(l) \in Int
      BY <1>t, <2>3, PageFacts
    <3> QED BY <2>3, <3>1, <3>3, <3>4
  <2>4. Distinct(items[l]) /\ (Underway(l) => InFront(items[l], Listed(l)))
    BY <2>1 DEF Once
  <2>5. Underway(l) => InFront(items[l], Listed(l))'
    BY <2>2, <2>3, <2>4 DEF InFront
  <2>6. Distinct(items[l])'
    BY <2>2, <2>4 DEF Distinct
  <2> QED BY <2>2, <2>5, <2>6 DEF Once
<1>2. CASE db' = db /\ Rests(l) /\ Remembers(l)
  BY <1>2 DEF Rests, Remembers, Once, Underway, Distinct, InFront, Listed
<1>3. CASE Begins(l)
  <2>1. items'[l] = <<>>
    BY <1>3, <1>t DEF Begins, ListTypes, Asked
  <2> QED BY <2>1 DEF Once, Distinct, InFront
<1>4. CASE ReadsAll(l)
  <2>1. Distinct(Sorted(db))
    BY <1>t, KeysDistinct
  <2>2. Distinct(items[l])'
    BY <1>4, <2>1 DEF ReadsAll, Distinct
  <2> QED BY <1>4, <2>2 DEF ReadsAll, Once, Underway
<1>5. CASE db' = db /\ Counts(l)
  BY <1>5 DEF Counts, Remembers, Once, Underway, Distinct, InFront, Listed
<1>6. CASE db' = db /\ Collects(l)
  <2> SUFFICES ASSUME ~grew[l] PROVE Once(l)'
    BY <1>6 DEF Collects, Remembers, Once
  <2>1. Underway(l) /\ Distinct(items[l]) /\ InFront(items[l], Listed(l))
    BY <1>6 DEF Collects, Once, Underway
  <2>2. /\ Distinct(items[l] \o NewItems(l))
        /\ InFront(items[l] \o NewItems(l), ListedNext(l))
    BY <2>1, CollectsOnce
  <2>3. items'[l] = items[l] \o NewItems(l)
    BY <1>6 DEF Collects
  <2>4. Distinct(items[l])'
    BY <2>2, <2>3 DEF Distinct
  <2>5. CASE GoesOn(l)
    <3>1. Listed(l)' = ListedNext(l)
      BY <1>6, <2>5, NextPage
    <3>2. InFront(items[l], Listed(l))'
      BY <1>6, <2>2, <2>3, <3>1 DEF InFront
    <3> QED BY <2>4, <3>2 DEF Once
  <2>6. CASE ~GoesOn(l)
    BY <1>6, <2>4, <2>6 DEF Collects, Once, Underway
  <2> QED BY <2>5, <2>6
<1>7. CASE Fails(l)
  BY <1>7 DEF Fails, Remembers, Once, Underway, Distinct
<1> QED BY <1>1, <1>2, <1>3, <1>4, <1>5, <1>6, <1>7, StepOfLister

(* As long as no entry was added, none is listed twice, however many are     *)
(* removed between two pages and however many pages there are (listAll).     *)
THEOREM NothingTwice == Spec => []NoneTwice
<1> DEFINE Inv == TypeInv /\ \A l \in Listers : Once(l)
<1>1. Init => Inv
  <2>1. Init => \A l \in Listers : Once(l)
    BY DEF Init, Once, Distinct, Underway
  <2> QED BY <2>1, InitTypeInv
<1>2. Inv /\ [Next]_vars => Inv'
  BY NextTypeInv, NextOnce
<1>3. Inv => NoneTwice
  BY DEF NoneTwice, Once, Distinct
<1> QED
  <2> HIDE DEF Inv
  <2> QED BY <1>1, <1>2, <1>3, PTL DEF Spec

(* While nothing is written, the database is what it was at the beginning,   *)
(* and what was collected is what comes in front of the page in turn.        *)
Exact(l) ==
    (~grew[l] /\ ~shrank[l]) =>
        /\ Underway(l) =>
              /\ db = before[l]
              /\ ask[l].all => /\ ask[l].page = 1 \/ Listed(l) < Cardinality(db)
                              /\ items[l] = SubSeq(Sorted(db), 1, Listed(l))
        /\ lpc[l] = "scan" => total[l] = Cardinality(db)
        /\ lpc[l] = "done" =>
              items[l] = IF ask[l].all THEN Sorted(before[l])
                         ELSE PageOf(Sorted(before[l]), ask[l].page, ask[l].perPage)

(* What is read of a database that is as large as it was is the page.        *)
LEMMA NewItemsArePage ==
    ASSUME ListTypes, NEW l \in Listers, Underway(l), total[l] = Cardinality(db),
           NEW n, n = Cardinality(db),
           NEW last, last = (IF ListedNext(l) < n THEN ListedNext(l) ELSE n)
    PROVE  /\ NewItems(l) = SubSeq(Sorted(db), Listed(l) + 1, last)
           /\ PageOf(Sorted(db), ask[l].page, ask[l].perPage)
                 = SubSeq(Sorted(db), Listed(l) + 1, last)
<1> DEFINE S == Sorted(db)
           o == Attr(l).offset
           m == Attr(l).limit
           f == NewItems(l)
           first == Listed(l)
           upto == ListedNext(l)
<1>0. db \in SUBSET Keys
  BY DEF ListTypes
<1>1. S \in Seq(Keys) /\ Len(S) = n /\ n \in Nat /\ \A i \in 1..n : S[i] \in Keys
  BY <1>0, KeysSorted
<1>2. /\ first \in Nat /\ upto \in Nat /\ first < upto /\ ask[l].page * ask[l].perPage = upto
      /\ upto = first + ask[l].perPage /\ ask[l].perPage \in Nat
  BY PageFacts
<1>3. /\ o \in Nat /\ m \in Nat
      /\ first < n => o = first /\ m = IF upto < n THEN ask[l].perPage ELSE n - first
      /\ ~(first < n) => m = 0
      /\ o + m <= n /\ f \in Seq(Entry) /\ Len(f) = m
      /\ \A i \in 1..m : f[i] = IF o + i <= n THEN S[o + i] ELSE Nil
  BY NewItemsFacts
<1> DEFINE p == PageOf(S, ask[l].page, ask[l].perPage)
<1>4. p = SubSeq(S, first + 1, last)
  <2>1. (ask[l].page - 1) * ask[l].perPage = first
    BY DEF ListTypes, Listed, First
  <2> HIDE DEF first, upto, S
  <2> QED BY <1>1, <1>2, <2>1 DEF PageOf, upto
<1>l. last = IF upto < n THEN upto ELSE n
  OBVIOUS
<1> HIDE DEF S, o, m, f, first, upto, p
<1>5. f = SubSeq(S, first + 1, last)
  <2>1. CASE first < n
    <3>1. /\ o = first /\ last = first + m /\ last <= n /\ last \in Nat
      <4>1. o = first /\ m = IF upto < n THEN upto - first ELSE n - first
        BY <1>1, <1>2, <1>3, <2>1
      <4>2. CASE upto < n
        BY <1>1, <1>2, <1>l, <4>1, <4>2
      <4>3. CASE ~(upto < n)
        BY <1>1, <1>2, <1>l, <2>1, <4>1, <4>3
      <4> QED BY <4>2, <4>3
    <3>2. \A i \in 1..m : f[i] = S[first + i]
      BY <1>1, <1>3, <3>1
    <3>3. S \in Seq(Entry)
      BY <1>1 DEF Entry
    <3>4. f \in Seq(Entry) /\ Len(f) = m
      BY <1>3
    <3> QED BY <1>1, <1>2, <3>1, <3>2, <3>3, <3>4, SliceIs
  <2>2. CASE ~(first < n)
    <3>1. f = <<>>
      BY <1>3, <2>2, EmptySeq
    <3>2. last = n /\ last < first + 1
      BY <1>1, <1>2, <1>l, <2>2
    <3>3. SubSeq(S, first + 1, last) = <<>>
      BY <1>1, <1>2, <3>2, SubSeqEmpty
    <3> QED BY <3>1, <3>3
  <2> QED BY <2>1, <2>2
<1> QED BY <1>4, <1>5 DEF f, p, S, first

(* Page by page, everything is collected.                                    *)
LEMMA CollectsAll ==
    ASSUME ListTypes, NEW l \in Listers, Underway(l), total[l] = Cardinality(db),
           ask[l].page = 1 \/ Listed(l) < Cardinality(db),
           items[l] = SubSeq(Sorted(db), 1, Listed(l))
    PROVE  /\ ListedNext(l) < total[l] =>
                 items[l] \o NewItems(l) = SubSeq(Sorted(db), 1, ListedNext(l))
           /\ ~(ListedNext(l) < total[l]) => items[l] \o NewItems(l) = Sorted(db)
<1> DEFINE S == Sorted(db)
           n == Cardinality(db)
           first == Listed(l)
           upto == ListedNext(l)
           last == IF upto < n THEN upto ELSE n
           f == NewItems(l)
<1>0. db \in SUBSET Keys
  BY DEF ListTypes
<1>1. S \in Seq(Keys) /\ Len(S) = n /\ n \in Nat
  BY <1>0, KeysSorted
<1>2. first \in Nat /\ upto \in Nat /\ first < upto
  BY PageFacts
<1>3. first <= n
  <2>1. CASE ask[l].page = 1
    <3>1. first = 0
      BY <2>1 DEF ListTypes, Listed, First
    <3> QED BY <1>1, <3>1
  <2>2. CASE first < n
    BY <1>1, <1>2, <2>2
  <2> QED BY <2>1, <2>2
<1>4. f = SubSeq(S, first + 1, last)
  BY NewItemsArePage
<1>5. items[l] = SubSeq(S, 1, first) /\ total[l] = n
  OBVIOUS
<1> HIDE DEF S, n, first, upto, f
<1>6. /\ 1 \in 1..(Len(S) + 1) /\ first \in (1 - 1)..Len(S) /\ last \in first..Len(S)
  BY <1>1, <1>2, <1>3
<1> HIDE DEF last
<1>7. SubSeq(S, 1, first) \o SubSeq(S, first + 1, last) = SubSeq(S, 1, last)
  BY <1>1, <1>6, ConcatAdjacentSubSeq
<1>8. SubSeq(S, 1, n) = S
  BY <1>1, SubSeqFull
<1>9. items[l] \o f = SubSeq(S, 1, last)
  BY <1>4, <1>5, <1>7
<1>10. /\ upto < n => items[l] \o f = SubSeq(S, 1, upto)
       /\ ~(upto < n) => items[l] \o f = S
  BY <1>8, <1>9 DEF last
<1> QED BY <1>5, <1>10 DEF S, upto, f

LEMMA NextExact ==
    ASSUME TypeInv, [Next]_vars, NEW l \in Listers, Exact(l)
    PROVE  Exact(l)'
<1>t. ListTypes /\ ListTypes' /\ db \in SUBSET Keys /\ db' \in SUBSET Keys
  BY NextTypeInv DEF TypeInv, ListTypes
<1>1. CASE SeesWrite(l)
  <2> SUFFICES ASSUME ~grew'[l], ~shrank'[l] PROVE Exact(l)'
    BY DEF Exact
  <2>1. ~grew[l] /\ ~shrank[l] /\ db' = db
    BY <1>1, <1>t DEF SeesWrite, ListTypes
  <2>2. UNCHANGED <<Underway(l), Listed(l), ask[l], items[l], before[l], total[l], lpc[l]>>
    BY <1>1 DEF SeesWrite, Rests, Underway, Listed
  <2> QED BY <2>1, <2>2 DEF Exact
<1>2. CASE db' = db /\ Rests(l) /\ Remembers(l)
  <2>1. UNCHANGED <<Underway(l), Listed(l), ask[l], items[l], before[l], total[l], lpc[l],
                    grew[l], shrank[l], db>>
    BY <1>2 DEF Rests, Remembers, Underway, Listed
  <2> QED BY <2>1 DEF Exact
<1>3. CASE db' = db /\ Begins(l)
  <2>1. items'[l] = <<>> /\ before'[l] = db'
    BY <1>3, <1>t DEF Begins, ListTypes, Asked
  <2>2. CASE lpc'[l] \in {"refused", "failed"}
    BY <2>2 DEF Exact, Underway
  <2>3. CASE lpc'[l] = "total" /\ (ask'[l].all => ask'[l].page = 1)
    <3>1. ask'[l].page = 1 => SubSeq(Sorted(db'), 1, Listed(l)') = <<>>
      <4>1. ask'[l].page = 1 => Listed(l)' = 0
        BY <1>t DEF ListTypes, Listed, First
      <4> QED BY <4>1, SubSeqEmpty
    <3> QED BY <2>1, <2>3, <3>1 DEF Exact, Underway
  <2> QED BY <1>3, <2>2, <2>3 DEF Begins
<1>4. CASE ReadsAll(l)
  BY <1>4 DEF ReadsAll, Exact, Underway
<1>5. CASE db' = db /\ Counts(l)
  <2>1. /\ UNCHANGED <<Listed(l), ask[l], items[l], before[l], grew[l], shrank[l], db>>
        /\ lpc[l] = "total" /\ lpc'[l] = "scan" /\ total'[l] = Cardinality(db)
    BY <1>5 DEF Counts, Remembers, Listed
  <2> QED BY <2>1 DEF Exact, Underway
<1>6. CASE db' = db /\ Collects(l)
  <2> SUFFICES ASSUME ~grew[l], ~shrank[l] PROVE Exact(l)'
    BY <1>6 DEF Collects, Remembers, Exact
  <2>1. /\ lpc[l] = "scan" /\ Underway(l) /\ db = before[l] /\ total[l] = Cardinality(db)
        /\ ask[l].all => /\ ask[l].page = 1 \/ Listed(l) < Cardinality(db)
                        /\ items[l] = SubSeq(Sorted(db), 1, Listed(l))
        /\ items'[l] = items[l] \o NewItems(l) /\ before'[l] = before[l]
    BY <1>6 DEF Collects, Exact, Underway
  <2>2. CASE GoesOn(l)
    <3>1. /\ Listed(l)' = ListedNext(l) /\ ListedNext(l) < total[l] /\ ask[l].all
          /\ lpc'[l] = "total"
      BY <1>6, <2>2, NextPage DEF GoesOn, Collects
    <3>2. items'[l] = SubSeq(Sorted(db), 1, ListedNext(l))
      BY <1>t, <2>1, <3>1, CollectsAll
    <3> QED BY <1>6, <2>1, <3>1, <3>2 DEF Exact, Underway
  <2>3. CASE ~GoesOn(l) /\ ask[l].all
    <3>1. items'[l] = Sorted(db)
      BY <1>t, <2>1, <2>3, CollectsAll DEF GoesOn
    <3>2. lpc'[l] \in {"done", "refused", "failed"} /\ ask'[l] = ask[l]
      BY <1>6, <2>3 DEF Collects
    <3> QED BY <2>1, <2>3, <3>1, <3>2 DEF Exact, Underway
  <2>4. CASE ~ask[l].all
    <3>1. lpc'[l] \in {"done", "refused", "failed"} /\ ask'[l] = ask[l]
      BY <1>6, <2>4 DEF Collects, GoesOn
    <3>2. items[l] = <<>> /\ NewItems(l) \in Seq(Entry)
      BY <1>t, <2>1, <2>4, NewItemsFacts DEF ListTypes, Asked
    <3>3. items'[l] = NewItems(l)
      BY <2>1, <3>2, ConcatEmptySeq
    <3>4. NewItems(l) = PageOf(Sorted(db), ask[l].page, ask[l].perPage)
      BY <1>t, <2>1, NewItemsArePage
    <3> QED BY <2>1, <2>4, <3>1, <3>3, <3>4 DEF Exact, Underway
  <2> QED BY <2>2, <2>3, <2>4
<1>7. CASE Fails(l)
  BY <1>7 DEF Fails, Remembers, Exact, Underway
<1> QED BY <1>1, <1>2, <1>3, <1>4, <1>5, <1>6, <1>7, StepOfLister

(* A listing during which nothing was written is exact, for any database,    *)
(* any page and page size, and any number of pages that listAll goes through *)
(* (GetPagingAttr, list, listAll).                                           *)
THEOREM StableListings == Spec => []StableListingExact
<1> DEFINE Inv == TypeInv /\ \A l \in Listers : Exact(l)
<1>1. Init => Inv
  <2>1. Init => \A l \in Listers : Exact(l)
    BY DEF Init, Exact, Underway
  <2> QED BY <2>1, InitTypeInv
<1>2. Inv /\ [Next]_vars => Inv'
  BY NextTypeInv, NextExact
<1>3. Inv => StableListingExact
  BY DEF StableListingExact, Exact
<1> QED
  <2> HIDE DEF Inv
  <2> QED BY <1>1, <1>2, <1>3, PTL DEF Spec

---------------------------------------------------------------------------
(* What a stream shows                                                     *)

(* From the opening of the iterator on, written, held and coming entries are *)
(* the snapshot; once the goroutine has ended by itself nothing is to come.  *)
Snapshot(s) ==
    /\ (prod[s] \in {"next", "send"} /\ cons[s] # "left")
          => (got[s] \o Held(s)) \o rest[s] = Sorted(snap[s])
    /\ (prod[s] = "end" /\ ~gone[s] /\ ~cut[s]) => got[s] \o Held(s) = Sorted(snap[s])
    /\ cons[s] = "left" => gone[s]
    /\ prod[s] \in {"off", "start"} => got[s] = <<>> /\ cons[s] \in {"off", "receive"}
    /\ cons[s] = "finished" => prod[s] = "end"

LEMMA HeldIsKeys ==
    ASSUME TypeInv, NEW s \in Streams
    PROVE  /\ Held(s) \in Seq(Keys) /\ got[s] \in Seq(Keys) /\ rest[s] \in Seq(Keys)
           /\ got[s] \o Held(s) \in Seq(Keys)
<1>1. cons[s] = "write" => hold[s] \in Keys
  BY DEF TypeInv, StreamTypes
<1>2. Held(s) \in Seq(Keys)
  BY <1>1 DEF Held
<1>3. got[s] \in Seq(Keys) /\ rest[s] \in Seq(Keys)
  BY DEF TypeInv, StreamTypes
<1> QED BY <1>2, <1>3, ConcatProperties

(* A step of one stream changes nothing of the others.                       *)
LEMMA OtherStreams ==
    ASSUME TypeInv, NEW s \in Streams, Stream(s), NEW t \in Streams, t # s, Snapshot(t)
    PROVE  Snapshot(t)'
<1>1. /\ prod'[t] = prod[t] /\ rest'[t] = rest[t] /\ cons'[t] = cons[t] /\ hold'[t] = hold[t]
      /\ got'[t] = got[t] /\ gone'[t] = gone[t] /\ snap'[t] = snap[t] /\ cut'[t] = cut[t]
  BY DEF TypeInv, WaitInv, StreamTypes, Stream, GetAll, OpenIterator, Produce, Release,
         Transfer, WriteItem, EndOfStream, Leave
<1> QED BY <1>1 DEF Snapshot, Held

LEMMA NextSnapshot ==
    ASSUME TypeInv, NEW s \in Streams, Stream(s), Snapshot(s)
    PROVE  Snapshot(s)'
<1>t. WaitInv /\ StreamTypes /\ db \in SUBSET Keys
  BY DEF TypeInv, ListTypes
<1>k. /\ Held(s) \in Seq(Keys) /\ got[s] \in Seq(Keys) /\ rest[s] \in Seq(Keys)
      /\ got[s] \o Held(s) \in Seq(Keys)
  BY HeldIsKeys
<1>1. CASE GetAll(s)
  BY <1>1, <1>t DEF GetAll, WaitInv, Snapshot
<1>2. CASE OpenIterator(s)
  <2>1. /\ prod[s] = "start" /\ prod'[s] = "next" /\ cons' = cons /\ got' = got
        /\ rest'[s] = IF closed THEN <<>> ELSE Sorted(db)
        /\ snap'[s] = IF closed THEN {} ELSE db
    BY <1>2, <1>t DEF OpenIterator, WaitInv, StreamTypes
  <2>2. got[s] = <<>> /\ cons[s] \in {"off", "receive"}
    BY <2>1 DEF Snapshot
  <2>3. rest'[s] = Sorted(snap'[s]) /\ rest'[s] \in Seq(Keys)
    BY <1>t, <2>1, SortedEmpty, KeysSorted
  <2>4. Held(s)' = <<>>
    BY <2>1, <2>2 DEF Held
  <2>5. ((got[s] \o Held(s)) \o rest[s])' = rest'[s]
    <3>1. <<>> \o <<>> = <<>>
      OBVIOUS
    <3>2. <<>> \o rest'[s] = rest'[s]
      BY <2>3, ConcatEmptySeq
    <3> QED BY <2>1, <2>2, <2>4, <3>1, <3>2
  <2> QED BY <2>1, <2>2, <2>3, <2>5 DEF Snapshot
<1>3. CASE Produce(s)
  <2>1. /\ prod[s] = "next" /\ UNCHANGED <<rest, cons, hold, got, gone, snap, Held(s)>>
        /\ \/ prod'[s] = "send"
           \/ prod'[s] = "end" /\ (gone'[s] \/ cut'[s] \/ rest[s] = <<>>)
    BY <1>3, <1>t DEF Produce, Release, WaitInv, StreamTypes, Held
  <2>2. CASE prod'[s] = "send"
    BY <2>1, <2>2 DEF Snapshot
  <2>3. CASE prod'[s] = "end" /\ rest[s] = <<>> /\ ~gone[s]
    <3>1. (got[s] \o Held(s)) \o rest[s] = Sorted(snap[s])
      BY <2>1, <2>3 DEF Snapshot
    <3>2. (got[s] \o Held(s)) \o <<>> = got[s] \o Held(s)
      BY <1>k, ConcatEmptySeq
    <3> QED BY <2>1, <2>3, <3>1, <3>2 DEF Snapshot
  <2>4. CASE prod'[s] = "end" /\ (gone'[s] \/ cut'[s])
    BY <2>1, <2>4 DEF Snapshot
  <2> QED BY <2>1, <2>2, <2>3, <2>4
<1>4. CASE Transfer(s)
  <2>1. /\ prod[s] = "send" /\ prod'[s] = "next" /\ cons[s] = "receive" /\ cons'[s] = "write"
        /\ hold'[s] = Head(rest[s]) /\ rest'[s] = Tail(rest[s]) /\ UNCHANGED <<got, gone, snap>>
        /\ rest[s] # <<>>
    BY <1>4, <1>t DEF Transfer, WaitInv, StreamTypes
  <2>2. Held(s) = <<>> /\ Held(s)' = <<Head(rest[s])>>
    BY <2>1 DEF Held
  <2>3. (got[s] \o <<>>) \o rest[s] = Sorted(snap[s]) /\ got[s] \o <<>> = got[s]
    BY <1>k, <2>1, <2>2, ConcatEmptySeq DEF Snapshot
  <2>4. Append(got[s], Head(rest[s])) = got[s] \o <<Head(rest[s])>>
    <3>1. Head(rest[s]) \in Keys
      BY <1>k, <2>1, HeadTailProperties
    <3> QED BY <1>k, <3>1, AppendIsConcat
  <2>5. Append(got[s], Head(rest[s])) \o Tail(rest[s]) = got[s] \o rest[s]
    <3>1. got[s] \in Seq(Keys) /\ rest[s] \in Seq(Keys) /\ rest[s] # <<>>
      BY <1>k, <2>1
    <3> QED BY <3>1, MoveOver
  <2>6. ((got[s] \o Held(s)) \o rest[s])' = Sorted(snap'[s])
    BY <2>1, <2>2, <2>3, <2>4, <2>5
  <2> QED BY <2>1, <2>6 DEF Snapshot
<1>5. CASE WriteItem(s)
  <2>1. /\ cons[s] = "write" /\ UNCHANGED <<prod, rest, gone, snap, cut>>
        /\ \/ gone[s] /\ cons'[s] = "left" /\ got' = got
           \/ cons'[s] = "receive" /\ got'[s] = Append(got[s], hold[s])
    BY <1>5, <1>t DEF WriteItem, WaitInv, StreamTypes
  <2>2. CASE gone[s] /\ cons'[s] = "left"
    BY <2>1, <2>2 DEF Snapshot
  <2>3. CASE cons'[s] = "receive" /\ got'[s] = Append(got[s], hold[s])
    <3>1. Held(s) = <<hold[s]>> /\ Held(s)' = <<>> /\ hold[s] \in Keys
      BY <1>t, <2>1, <2>3 DEF Held, StreamTypes
    <3>2. Append(got[s], hold[s]) = got[s] \o Held(s)
      BY <1>k, <3>1, AppendIsConcat
    <3>3. (got[s] \o Held(s)) \o <<>> = got[s] \o Held(s)
      BY <1>k, ConcatEmptySeq
    <3>4. (got[s] \o Held(s))' = got[s] \o Held(s)
      BY <2>3, <3>1, <3>2, <3>3
    <3>5. prod[s] \notin {"off", "start"}
      BY <2>1 DEF Snapshot
    <3> QED BY <2>1, <2>3, <3>4, <3>5 DEF Snapshot
  <2> QED BY <2>1, <2>2, <2>3
<1>6. CASE EndOfStream(s)
  <2>1. /\ prod[s] = "end" /\ cons[s] = "receive" /\ cons'[s] = "finished"
        /\ UNCHANGED <<prod, rest, hold, got, gone, snap, cut>>
    BY <1>6, <1>t DEF EndOfStream, WaitInv
  <2>2. Held(s)' = Held(s)
    BY <2>1 DEF Held
  <2> QED BY <2>1, <2>2 DEF Snapshot
<1>7. CASE Leave(s)
  <2>1. /\ gone'[s] /\ UNCHANGED <<prod, rest, cons, hold, got, snap, cut, Held(s)>>
    BY <1>7, <1>t DEF Leave, StreamTypes, Held
  <2> QED BY <2>1 DEF Snapshot
<1> QED BY <1>1, <1>2, <1>3, <1>4, <1>5, <1>6, <1>7 DEF Stream

(* Whatever is written meanwhile, a stream shows one moment of the database, *)
(* each entry once and in order, and one that was neither left nor cut off   *)
(* is whole, for any database and any number of streams (iterateBytes).      *)
THEOREM StreamsShowSnapshots == Spec => []StreamIsSnapshot
<1> DEFINE Inv == TypeInv /\ \A s \in Streams : Snapshot(s)
<1>1. Init => Inv
  <2>1. Init => \A s \in Streams : Snapshot(s)
    BY DEF Init, Snapshot
  <2> QED BY <2>1, InitTypeInv
<1>2. Inv /\ [Next]_vars => Inv'
  <2> SUFFICES ASSUME Inv, [Next]_vars PROVE \A t \in Streams : Snapshot(t)'
    BY NextTypeInv
  <2>1. ASSUME NEW s \in Streams, Stream(s) PROVE \A t \in Streams : Snapshot(t)'
    BY <2>1, NextSnapshot, OtherStreams
  <2>2. CASE UNCHANGED streamVars
    BY <2>2 DEF streamVars, Snapshot, Held
  <2> QED BY <2>1, <2>2, StepOfListing
<1>3. Inv => StreamIsSnapshot
  <2> SUFFICES ASSUME Inv, NEW s \in Streams
               PROVE  /\ (prod[s] \in {"next", "send"} /\ cons[s] # "left")
                            => (got[s] \o Held(s)) \o Ahead(s) = Sorted(snap[s])
                      /\ (cons[s] = "finished" /\ ~gone[s] /\ ~cut[s]) => got[s] = Sorted(snap[s])
    BY DEF StreamIsSnapshot
  <2>1. prod[s] \in {"next", "send"} => Ahead(s) = rest[s]
    BY DEF Ahead
  <2>2. cons[s] = "finished" => got[s] \o Held(s) = got[s]
    <3>1. got[s] \o <<>> = got[s]
      BY HeldIsKeys, ConcatEmptySeq
    <3> QED BY <3>1 DEF Held
  <2> QED BY <2>1, <2>2 DEF Snapshot
<1> QED
  <2> HIDE DEF Inv
  <2> QED BY <1>1, <1>2, <1>3, PTL DEF Spec
=============================================================================
