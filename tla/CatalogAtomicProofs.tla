------------------------ MODULE CatalogAtomicProofs ------------------------
(* Catalog implements Registry for all values of the constants.              *)
EXTENDS CatalogAtomic, CatalogProofs

---------------------------------------------------------------------------
(* The invariant                                                           *)

(* A document that states when it expires, unless its TTL is too long.       *)
Timed(td) == td.ttl # None /\ Fits(td.ttl) => td.expires = td.modified + td.ttl

Amended(old, td) ==
    \E p \in Patches : /\ td.content = Merged(old.content, p.content)
                       /\ td.ttl = Merged(old.ttl, p.ttl)

(* What a request carries to its last access agrees with the store, because  *)
(* nobody else works on its key: an add has found none, the version that an  *)
(* update or a delete has read is still there.                               *)
JobCurrent(r) ==
    LET j == job[r] IN
    /\ pc[r] # "done" => reply[r] = None
    /\ pc[r] \in {"addHas", "addPut"} => j.op \in {"POST", "PUT"}
    /\ pc[r] = "addPut" => db[j.key] = None /\ j.doc.created = j.doc.modified
    /\ pc[r] \in {"updateHas", "updatePut", "deleteHas", "deleteDo"} =>
          j.old = db[j.key] /\ j.old # None
    /\ pc[r] \in {"updateHas", "updatePut"} =>
          j.op \in {"PUT", "PATCH"} /\ (j.op = "PATCH" => Amended(j.old, j.doc))
    /\ pc[r] = "updatePut" => j.doc.created = j.old.created
    /\ pc[r] \in {"addPut", "updatePut"} => Timed(j.doc)
    /\ pc[r] \in {"deleteHas", "deleteDo"} => j.op = "DELETE"

(* The cleaner's list is up to date for the same reason.                     *)
ListCurrent ==
    /\ tick # None => tick <= now
    /\ \A e \in todo : e[2] = e[1] /\ ExpiredAt(db[e[1]], now)

AtomicInv ==
    /\ TypeInv /\ CoherentInv /\ KeyedInv
    /\ \A r \in Requests : JobCurrent(r)
    /\ ListCurrent

Step(r) == Start(r) \/ Handle(r) \/ StorageError(r)

LEMMA InitAtomic == Init => AtomicInv /\ Apart /\ R!Init
<1>1. Init => (\A r \in Requests : JobCurrent(r)) /\ ListCurrent
  BY DEF Init, JobCurrent, ListCurrent
<1>2. Init => Apart BY DEF Init, Apart, Working, Steps
<1>3. Init => R!Init BY DEF Init, R!Init
<1> QED BY <1>1, <1>2, <1>3, InitTyped, InitCoherent, KeyedInit DEF AtomicInv

---------------------------------------------------------------------------
(* Steps of requests                                                       *)

(* A step of a request that writes at most its own key disturbs nobody.      *)
LEMMA OthersCurrent ==
    ASSUME AtomicInv, Apart, NEW r \in Requests, Step(r), JobCurrent(r)',
           \A k \in Ids : db'[k] = db[k] \/ (Working(r) /\ k = job[r].key)
    PROVE  (\A q \in Requests : JobCurrent(q)') /\ ListCurrent'
<1>0. TypeInv BY DEF AtomicInv
<1>1. /\ UNCHANGED <<now, tick, cpc, todo>>
      /\ \A q \in Requests \ {r} : pc'[q] = pc[q] /\ job'[q] = job[q] /\ reply'[q] = reply[q]
  BY <1>0, RequestFrame DEF Step
<1>2. ASSUME NEW q \in Requests, q # r PROVE JobCurrent(q)'
  <2>1. Working(q) => db'[job[q].key] = db[job[q].key]
    BY <1>0, <1>2 DEF Apart, Working, TypeInv, JobTyped, Job
  <2>2. pc'[q] = pc[q] /\ job'[q] = job[q] /\ reply'[q] = reply[q] BY <1>1, <1>2
  <2>3. JobCurrent(q) BY DEF AtomicInv
  <2> QED BY <2>1, <2>2, <2>3 DEF JobCurrent, Working, Steps
<1>3. ListCurrent'
  <2>1. \A e \in todo : e[1] \in Ids /\ db'[e[1]] = db[e[1]]
    BY <1>0 DEF Apart, TypeInv, TypeOK
  <2> QED BY <1>1, <2>1 DEF AtomicInv, ListCurrent, ExpiredAt
<1> QED BY <1>2, <1>3

LEMMA FinishCurrent ==
    ASSUME TypeInv, NEW r \in Requests, NEW op, NEW k, NEW status, NEW td,
           Finish(r, op, k, status, td)
    PROVE  JobCurrent(r)'
BY DEF Finish, TypeInv, TypeOK, JobCurrent

(* A refusal is one of the Registry.                                         *)
LEMMA RefuseAtomic ==
    ASSUME AtomicInv, Apart, NEW r \in Requests, Step(r), pc[r] # "done",
           NEW op \in Methods, NEW k \in Optional(Ids), NEW status \in {400, 404, 409, 500},
           Refuse(r, op, k, status),
           status = 404 => db[k] = None, status = 409 => db[k] # None
    PROVE  R!Next /\ (\A q \in Requests : JobCurrent(q)') /\ ListCurrent'
<1>0. TypeInv /\ JobCurrent(r) BY DEF AtomicInv
<1>1. Finish(r, op, k, status, None) /\ UNCHANGED <<db, events, now>>
  BY <1>0, RequestFrame DEF Refuse, Step
<1>2. JobCurrent(r)' BY <1>0, <1>1, FinishCurrent
<1>3. R!Answer(r, op, k, status, None)
  BY <1>0, <1>1 DEF R!Answer, Finish, JobCurrent
<1>4. R!Refuse(r) BY <1>1, <1>3 DEF R!Refuse, Methods, Optional
<1>5. R!Next BY <1>1, <1>4 DEF R!Next
<1> QED BY <1>1, <1>2, <1>5, OthersCurrent

(* A step to another access changes nothing that can be seen.                *)
LEMMA AccessAtomic ==
    ASSUME AtomicInv, Apart, NEW r \in Requests, Step(r), pc[r] # "done",
           NEW step \in Steps, NEW n \in Job, Access(r, step, n),
           step \in {"addHas", "addPut"} => n.op \in {"POST", "PUT"},
           step = "addPut" => db[n.key] = None /\ n.doc.created = n.doc.modified,
           step \in {"updateHas", "updatePut", "deleteHas", "deleteDo"} =>
               n.old = db[n.key] /\ n.old # None,
           step \in {"updateHas", "updatePut"} =>
               n.op \in {"PUT", "PATCH"} /\ (n.op = "PATCH" => Amended(n.old, n.doc)),
           step = "updatePut" => n.doc.created = n.old.created,
           step \in {"addPut", "updatePut"} => Timed(n.doc),
           step \in {"deleteHas", "deleteDo"} => n.op = "DELETE"
    PROVE  UNCHANGED R!vars /\ (\A q \in Requests : JobCurrent(q)') /\ ListCurrent'
<1>0. TypeInv /\ JobCurrent(r) BY DEF AtomicInv
<1>1. /\ pc'[r] = step /\ job'[r] = n
      /\ UNCHANGED <<db, reply, events, now>>
  BY <1>0, RequestFrame DEF Access, Step, TypeInv, TypeOK
<1>2. JobCurrent(r)' BY <1>0, <1>1 DEF JobCurrent
<1> QED BY <1>1, <1>2, OthersCurrent DEF R!vars

LEMMA StartAtomic ==
    ASSUME AtomicInv, Apart, NEW r \in Requests, Start(r)
    PROVE  [R!Next]_(R!vars) /\ (\A q \in Requests : JobCurrent(q)') /\ ListCurrent'
<1>0. TypeInv /\ JobCurrent(r) /\ Step(r) BY DEF AtomicInv, Step
<1>1. pc[r] = "ready" /\ UNCHANGED <<now, db, events>> BY <1>0, StartShape
<1>2. CASE Answered(r)
  <2>1. PICK op \in Methods, k \in Optional(Ids), status \in Statuses, td \in Optional(TD) :
          /\ Finish(r, op, k, status, td)
          /\ \/ td = None /\ status \in {400, 404, 500} /\ (status = 404 => db[k] = None)
             \/ op = "GET" /\ k \in Ids /\ td = db[k] /\ status = IF td = None THEN 404 ELSE 200
    BY <1>2 DEF Answered
  <2>2. CASE td = None /\ status \in {400, 404, 500} /\ (status = 404 => db[k] = None)
    <3>1. Refuse(r, op, k, status) BY <1>1, <2>1, <2>2 DEF Refuse
    <3>2. status \in {400, 404, 409, 500} /\ status # 409 BY <2>2
    <3> QED BY <1>0, <1>1, <2>2, <3>1, <3>2, RefuseAtomic
  <2>3. CASE op = "GET" /\ k \in Ids /\ td = db[k] /\ status = IF td = None THEN 404 ELSE 200
    <3>1. JobCurrent(r)' BY <1>0, <2>1, FinishCurrent
    <3>2. R!Read(r, k)
      BY <1>0, <1>1, <2>1, <2>3 DEF R!Read, R!Answer, Finish, JobCurrent
    <3>3. R!Next BY <1>1, <2>3, <3>2 DEF R!Next, R!Request
    <3> QED BY <1>0, <1>1, <3>1, <3>3, OthersCurrent
  <2> QED BY <2>1, <2>2, <2>3
<1>3. ASSUME NEW step \in {"addHas", "updateHas", "deleteHas"}, NEW n \in Job, Took(r, step, n)
      PROVE  UNCHANGED R!vars /\ (\A q \in Requests : JobCurrent(q)') /\ ListCurrent'
  <2>1. Access(r, step, n) /\ step \in Steps /\ step \notin {"addPut", "updatePut"}
    BY <1>3 DEF Took, Steps
  <2>2. step = "addHas" => n.op \in {"POST", "PUT"} BY <1>3 DEF Took
  <2>3. step \in {"updateHas", "deleteHas"} => n.old = db[n.key] /\ n.old # None
    BY <1>3 DEF Took
  <2>4. step = "updateHas" => n.op \in {"PUT", "PATCH"} /\ (n.op = "PATCH" => Amended(n.old, n.doc))
    BY <1>3 DEF Took, Amended
  <2>5. step = "deleteHas" => n.op = "DELETE" BY <1>3 DEF Took
  <2> QED BY <1>0, <1>1, <2>1, <2>2, <2>3, <2>4, <2>5, AccessAtomic
<1> QED BY <1>0, <1>2, <1>3, StartShape

(* The Has of each operation: the version the handler holds is the one       *)
(* there, and what it will write is what the Registry asks for.              *)
LEMMA HasAtomic ==
    ASSUME AtomicInv, Apart, NEW r \in Requests, AddHas(r) \/ UpdateHas(r) \/ DeleteHas(r)
    PROVE  [R!Next]_(R!vars) /\ (\A q \in Requests : JobCurrent(q)') /\ ListCurrent'
<1> DEFINE j == job[r]
<1>0. /\ TypeInv /\ JobCurrent(r) /\ Step(r)
      /\ pc[r] \in {"addHas", "updateHas", "deleteHas"}
      /\ j \in Job /\ j.doc \in TD /\ j.op \in Methods /\ j.key \in Optional(Ids)
      /\ now \in Int
  BY InputsAssumption
     DEF AtomicInv, Step, Handle, AddHas, UpdateHas, DeleteHas, Continue, TypeInv, TypeOK,
         JobTyped, Job, Steps, Optional
<1>1. ASSUME NEW doc \in TD, doc.created = doc.modified \/ pc[r] # "addHas",
             doc.created = j.old.created \/ pc[r] # "updateHas",
             doc.content = j.doc.content, doc.ttl = j.doc.ttl, Timed(doc),
             NEW step \in {"addPut", "updatePut"},
             step = "addPut" => pc[r] = "addHas" /\ db[j.key] = None,
             step = "updatePut" => pc[r] = "updateHas",
             Access(r, step, [j EXCEPT !.doc = doc])
      PROVE  [R!Next]_(R!vars) /\ (\A q \in Requests : JobCurrent(q)') /\ ListCurrent'
  <2> DEFINE n == [j EXCEPT !.doc = doc]
  <2>1. n \in Job /\ n.op = j.op /\ n.key = j.key /\ n.old = j.old /\ n.doc = doc
    BY <1>0 DEF Job
  <2>2. step = "updatePut" =>
          /\ n.old = db[n.key] /\ n.old # None
          /\ n.op \in {"PUT", "PATCH"} /\ (n.op = "PATCH" => Amended(n.old, n.doc))
          /\ n.doc.created = n.old.created
    BY <1>0, <1>1, <2>1 DEF JobCurrent, Amended
  <2>3. step = "addPut" =>
          n.op \in {"POST", "PUT"} /\ db[n.key] = None /\ n.doc.created = n.doc.modified
    BY <1>0, <1>1, <2>1 DEF JobCurrent
  <2>4. Timed(n.doc) /\ Access(r, step, n) /\ step \in Steps BY <1>1, <2>1 DEF Steps
  <2> HIDE DEF n
  <2>5. step \notin {"addHas", "updateHas", "deleteHas", "deleteDo"} OBVIOUS
  <2> QED BY <1>0, <2>1, <2>2, <2>3, <2>4, <2>5, AccessAtomic
<1>2. ASSUME NEW created \in Optional(Int)
      PROVE  LET doc == Registered(j.doc, created, now)
             IN  /\ doc \in TD /\ doc.created = created /\ doc.modified = now
                 /\ doc.content = j.doc.content /\ doc.ttl = j.doc.ttl /\ Timed(doc)
  <2> DEFINE doc == Registered(j.doc, created, now)
  <2>1. doc \in TD BY <1>0, RegisteredTyped
  <2>2. /\ doc.created = created /\ doc.modified = now /\ doc.content = j.doc.content
        /\ doc.ttl = j.doc.ttl /\ doc.expires = computeExpiry(j.doc, now)
    BY <1>0 DEF Registered, TD
  <2>3. Timed(doc) BY <2>2 DEF Timed, computeExpiry, Duration
  <2> QED BY <2>1, <2>2, <2>3
<1>3. CASE AddHas(r)
  <2>1. pc[r] = "addHas" BY <1>3 DEF AddHas, Continue
  <2>2. CASE db[j.key] # None /\ Refuse(r, j.op, j.key, 409)
    BY <1>0, <2>2, RefuseAtomic
  <2>3. CASE db[j.key] = None /\ Access(r, "addPut", [j EXCEPT !.doc = Registered(@, now, now)])
    <3>1. now \in Optional(Int) BY <1>0 DEF Optional
    <3> DEFINE doc == Registered(j.doc, now, now)
    <3>2. Access(r, "addPut", [j EXCEPT !.doc = doc]) BY <2>3
    <3>3. /\ doc \in TD /\ doc.created = doc.modified /\ doc.content = j.doc.content
          /\ doc.ttl = j.doc.ttl /\ Timed(doc)
      BY <1>2, <3>1
    <3> HIDE DEF doc
    <3> QED BY <1>1, <2>1, <2>3, <3>2, <3>3
  <2> QED BY <1>3, <2>2, <2>3 DEF AddHas
<1>4. CASE UpdateHas(r)
  <2>1. pc[r] = "updateHas" /\ db[j.key] # None
    BY <1>0, <1>4 DEF UpdateHas, Continue, JobCurrent
  <2>2. Access(r, "updatePut", [j EXCEPT !.doc = Registered(@, j.old.created, now)])
    BY <1>4, <2>1 DEF UpdateHas
  <2>3. j.old.created \in Optional(Int) BY <1>0, <2>1 DEF TypeInv, JobTyped, TD
  <2> DEFINE doc == Registered(j.doc, j.old.created, now)
  <2>4. Access(r, "updatePut", [j EXCEPT !.doc = doc]) BY <2>2
  <2>5. /\ doc \in TD /\ doc.created = j.old.created /\ doc.content = j.doc.content
        /\ doc.ttl = j.doc.ttl /\ Timed(doc)
    BY <1>2, <2>3
  <2> HIDE DEF doc
  <2> QED BY <1>1, <2>1, <2>4, <2>5
<1>5. CASE DeleteHas(r)
  <2>1. pc[r] = "deleteHas" /\ db[j.key] # None
    BY <1>0, <1>5 DEF DeleteHas, Continue, JobCurrent
  <2>2. Access(r, "deleteDo", j) BY <1>5, <2>1 DEF DeleteHas
  <2>3. j.old = db[j.key] /\ j.old # None /\ j.op = "DELETE" BY <1>0, <2>1 DEF JobCurrent
  <2> HIDE DEF j
  <2> QED BY <1>0, <2>1, <2>2, <2>3, AccessAtomic DEF Steps
<1> QED BY <1>3, <1>4, <1>5

(* The Put or Delete of each operation is the operation of the Registry.     *)
LEMMA WriteAtomic ==
    ASSUME AtomicInv, Apart, NEW r \in Requests, AddPut(r) \/ UpdatePut(r) \/ DeleteDo(r)
    PROVE  R!Next /\ (\A q \in Requests : JobCurrent(q)') /\ ListCurrent'
<1> DEFINE j == job[r]
<1>0. /\ TypeInv /\ JobCurrent(r) /\ Step(r) /\ Working(r) /\ reply[r] = None
      /\ j.key \in Ids /\ j.doc \in TD /\ j.doc # None /\ now' = now
      /\ db \in [Ids -> Optional(TD)]
  BY SentinelsAssumption
     DEF AtomicInv, Step, Handle, AddPut, UpdatePut, DeleteDo, Continue, TypeInv, TypeOK,
         JobTyped, Job, Steps, Working, JobCurrent
<1>1. ASSUME NEW op, NEW k, NEW status, NEW td, Finish(r, op, k, status, None),
             db' = [db EXCEPT ![j.key] = td]
      PROVE  /\ (\A q \in Requests : JobCurrent(q)') /\ ListCurrent'
             /\ R!Answer(r, op, k, status, None)
             /\ db'[j.key] = td
  <2>1. JobCurrent(r)' BY <1>0, <1>1, FinishCurrent
  <2>2. \A i \in Ids : db'[i] = db[i] \/ (Working(r) /\ i = job[r].key) BY <1>0, <1>1
  <2>3. db'[j.key] = td BY <1>0, <1>1
  <2>4. R!Answer(r, op, k, status, None) BY <1>0, <1>1 DEF Finish, R!Answer
  <2> HIDE DEF j
  <2> QED BY <1>0, <2>1, <2>2, <2>3, <2>4, OthersCurrent
<1>2. ASSUME R!Request(r, j.key) PROVE R!Next
  BY <1>0, <1>2 DEF R!Next
<1>3. ASSUME pc[r] \in {"addPut", "updatePut"}
      PROVE  R!WellRegistered(j.key, j.doc)
  BY <1>0, <1>3
     DEF AtomicInv, KeyedInv, JobKeyed, CoherentInv, JobCoherent, Coherent, JobCurrent, Timed,
         Fits, TD, R!WellRegistered
<1>4. CASE AddPut(r)
  <2>1. /\ pc[r] = "addPut" /\ db' = [db EXCEPT ![j.key] = j.doc]
        /\ Publish(r, "create", None, j.doc) /\ Finish(r, j.op, j.key, 201, None)
    BY <1>4 DEF AddPut, Continue
  <2>2. R!Create(r, j.key)
    BY <1>0, <1>1, <1>3, <2>1, ZenonT(30) DEF R!Create, R!Tell, Publish, JobCurrent
  <2> QED BY <1>1, <1>2, <2>1, <2>2 DEF R!Request
<1>5. CASE UpdatePut(r)
  <2>1. /\ pc[r] = "updatePut" /\ db' = [db EXCEPT ![j.key] = j.doc]
        /\ Publish(r, "update", j.old, j.doc) /\ Finish(r, j.op, j.key, 204, None)
    BY <1>5 DEF UpdatePut, Continue
  <2>2. R!Overwrite(r, j.op, j.key)
    BY <1>0, <1>1, <1>3, <2>1 DEF R!Overwrite, R!Tell, Publish, JobCurrent
  <2>3. j.op \in {"PUT", "PATCH"} /\ (j.op = "PATCH" => Amended(db[j.key], db'[j.key]))
    BY <1>0, <1>1, <2>1 DEF JobCurrent
  <2>4. R!Replace(r, j.key) \/ R!Amend(r, j.key)
    BY <2>2, <2>3 DEF R!Replace, R!Amend, Amended, Merged
  <2> QED BY <1>1, <1>2, <2>1, <2>4 DEF R!Request
<1>6. CASE DeleteDo(r)
  <2>1. /\ pc[r] = "deleteDo" /\ db' = [db EXCEPT ![j.key] = None]
        /\ Publish(r, "delete", j.old, None) /\ Finish(r, j.op, j.key, 204, None)
    BY <1>6 DEF DeleteDo, Continue
  <2>2. R!Remove(r, j.key)
    BY <1>0, <1>1, <2>1 DEF R!Remove, R!Tell, Publish, JobCurrent
  <2> QED BY <1>1, <1>2, <2>1, <2>2 DEF R!Request
<1> QED BY <1>4, <1>5, <1>6

LEMMA RequestAtomic ==
    ASSUME AtomicInv, Apart, NEW r \in Requests, Step(r)
    PROVE  [R!Next]_(R!vars) /\ (\A q \in Requests : JobCurrent(q)') /\ ListCurrent'
<1>1. CASE StorageError(r)
  <2>1. CASE pc[r] \in Steps /\ Refuse(r, job[r].op, job[r].key, 500)
    <3>1. job[r].op \in Methods /\ job[r].key \in Optional(Ids) /\ pc[r] # "done"
      BY <2>1 DEF AtomicInv, TypeInv, JobTyped, Job, Optional, Steps
    <3> QED BY <2>1, <3>1, RefuseAtomic
  <2>2. ASSUME NEW op \in Ops, NEW k \in Ids, pc[r] = "ready", Refuse(r, op, k, 500)
        PROVE  R!Next /\ (\A q \in Requests : JobCurrent(q)') /\ ListCurrent'
    <3>1. op \in Methods /\ k \in Optional(Ids) BY InputsAssumption DEF Optional
    <3> QED BY <2>2, <3>1, RefuseAtomic
  <2> QED BY <1>1, <2>1, <2>2 DEF StorageError
<1> QED BY <1>1, StartAtomic, HasAtomic, WriteAtomic DEF Step, Handle

---------------------------------------------------------------------------
(* Steps of the cleaner and the clock                                      *)

LEMMA BackgroundAtomic ==
    ASSUME AtomicInv, Apart, Cleaner \/ Advance \/ TickerFire
    PROVE  [R!Next]_(R!vars) /\ (\A q \in Requests : JobCurrent(q)') /\ ListCurrent'
<1>0. /\ TypeInv /\ ListCurrent
      /\ db \in [Ids -> Optional(TD)] /\ todo \subseteq Ids \X Optional(Ids)
      /\ now \in Int /\ tick \in Optional(Int)
      /\ UNCHANGED <<pc, job, reply, events>>
  BY InputsAssumption, BackgroundFrame DEF AtomicInv, TypeInv, TypeOK, Optional, requestVars
<1>1. ASSUME \A r \in Requests : Working(r) => db'[job[r].key] = db[job[r].key]
      PROVE  \A r \in Requests : JobCurrent(r)'
  <2> SUFFICES ASSUME NEW r \in Requests PROVE JobCurrent(r)' OBVIOUS
  <2>1. JobCurrent(r) /\ (Working(r) => db'[job[r].key] = db[job[r].key])
    BY <1>1 DEF AtomicInv
  <2> QED BY <1>0, <2>1 DEF JobCurrent, Working, Steps
<1>2. ASSUME NEW td, td # None => td \in TD, NEW t \in Int, NEW u \in Int, t <= u,
             ExpiredAt(td, t)
      PROVE  ExpiredAt(td, u)
  BY <1>2 DEF ExpiredAt, TD, Optional
<1>3. \A k \in Ids : db[k] # None => db[k] \in TD BY <1>0 DEF Optional
<1>4. CASE Advance
  <2>1. now' = now + 1 /\ UNCHANGED <<db, tick, todo>> BY <1>4 DEF Advance, cleanerVars
  <2>2. R!Next BY <1>0, <2>1 DEF R!Next, R!Tick
  <2>3. \A e \in todo : e[1] \in Ids /\ e[2] = e[1] /\ ExpiredAt(db[e[1]], now)
    BY <1>0 DEF ListCurrent
  <2>4. \A e \in todo : ExpiredAt(db[e[1]], now + 1) BY <1>0, <1>2, <1>3, <2>3
  <2>5. ListCurrent' BY <1>0, <2>1, <2>3, <2>4 DEF ListCurrent, ExpiredAt, Optional
  <2> QED BY <1>1, <2>1, <2>2, <2>5
<1>5. CASE TickerFire
  <2>1. tick' = now /\ UNCHANGED <<now, db, todo>> BY <1>5 DEF TickerFire
  <2>2. ListCurrent' BY <1>0, <2>1 DEF ListCurrent, ExpiredAt
  <2> QED BY <1>0, <1>1, <2>1, <2>2 DEF R!vars
<1>6. CASE CleanScan \/ CleanScanFails
  <2>1. /\ tick # None /\ tick' = None /\ UNCHANGED <<now, db>>
        /\ todo' \subseteq {<<k, db[k].id>> : k \in {i \in Ids : ExpiredAt(db[i], tick)}}
    BY <1>6 DEF CleanScan, CleanScanFails
  <2>2. tick \in Int /\ tick <= now BY <1>0, <2>1 DEF ListCurrent, Optional
  <2>3. ASSUME NEW k \in Ids, ExpiredAt(db[k], tick)
        PROVE  db[k].id = k /\ ExpiredAt(db[k], now)
    <3>1. db[k] # None BY <2>3 DEF ExpiredAt
    <3> QED BY <1>0, <1>2, <1>3, <2>2, <2>3, <3>1 DEF AtomicInv, KeyedInv, KeyMatchesBody
  <2>4. \A e \in todo' : e[2] = e[1] /\ ExpiredAt(db[e[1]], now) BY <2>1, <2>3
  <2>5. ListCurrent' BY <2>1, <2>4 DEF ListCurrent, ExpiredAt
  <2> QED BY <1>0, <1>1, <2>1, <2>5 DEF R!vars
<1>7. ASSUME NEW e \in todo, CleanHas(e) \/ CleanError(e)
      PROVE  UNCHANGED R!vars /\ (\A q \in Requests : JobCurrent(q)') /\ ListCurrent'
  <2>1. UNCHANGED <<now, db>> /\ todo' \subseteq todo /\ (tick' = tick \/ tick' = None)
    BY <1>7 DEF CleanHas, CleanError
  <2>2. ListCurrent' BY <1>0, <2>1 DEF ListCurrent, ExpiredAt
  <2> QED BY <1>0, <1>1, <2>1, <2>2 DEF R!vars
<1>8. ASSUME NEW e \in todo, CleanDelete(e)
      PROVE  R!Next /\ (\A q \in Requests : JobCurrent(q)') /\ ListCurrent'
  <2>1. /\ First(e) /\ db' = [db EXCEPT ![e[2]] = None] /\ todo' = todo \ {e}
        /\ UNCHANGED <<now, tick>>
    BY <1>8 DEF CleanDelete
  <2>2. e[1] \in Ids /\ e[2] = e[1] /\ ExpiredAt(db[e[1]], now) BY <1>0 DEF ListCurrent
  <2>3. R!Expire(e[1])
    BY <1>0, <2>1, <2>2 DEF R!Expire, ExpiredAt
  <2>4. R!Next BY <2>1, <2>2, <2>3 DEF R!Next
  <2>5. \A r \in Requests : Working(r) => db'[job[r].key] = db[job[r].key]
    BY <1>0, <2>1, <2>2 DEF Apart, Working, TypeInv, JobTyped, Job
  <2>6. \A f \in todo' : f[2] = f[1] /\ db'[f[1]] = db[f[1]]
    <3> SUFFICES ASSUME NEW f \in todo, f # e PROVE f[2] = f[1] /\ db'[f[1]] = db[f[1]]
      BY <2>1
    <3>1. f[2] = f[1] /\ f[1] \in Ids BY <1>0 DEF ListCurrent
    <3>2. f[1] # e[1] BY <1>0, <2>2, <3>1
    <3> QED BY <1>0, <2>1, <2>2, <3>1, <3>2
  <2>7. ListCurrent' BY <1>0, <2>1, <2>6 DEF ListCurrent, ExpiredAt
  <2> QED BY <1>1, <2>4, <2>5, <2>7
<1> QED BY <1>4, <1>5, <1>6, <1>7, <1>8 DEF Cleaner

---------------------------------------------------------------------------
(* The refinement                                                          *)

LEMMA NextAtomic ==
    ASSUME PatchesKeepIds, AtomicInv, Apart, [Next /\ Apart']_vars
    PROVE  AtomicInv' /\ Apart' /\ [R!Next]_(R!vars)
<1>1. TypeInv' /\ CoherentInv' /\ KeyedInv'
  BY NextTyped, NextCoherent, KeyedStep DEF AtomicInv
<1>2. CASE UNCHANGED vars
  <2>1. UNCHANGED <<now, db, urns, pc, job, reply, events, tick, cpc, todo>>
    BY <1>2 DEF vars, requestVars, cleanerVars
  <2>2. (\A r \in Requests : JobCurrent(r)') /\ ListCurrent'
    BY <2>1 DEF AtomicInv, JobCurrent, ListCurrent, ExpiredAt
  <2>3. Apart' /\ UNCHANGED R!vars BY <2>1 DEF Apart, Working, R!vars
  <2> QED BY <1>1, <2>2, <2>3 DEF AtomicInv
<1>3. CASE Next /\ Apart'
  <2>1. [R!Next]_(R!vars) /\ (\A q \in Requests : JobCurrent(q)') /\ ListCurrent'
    BY <1>3, RequestAtomic, BackgroundAtomic DEF Next, Step
  <2> QED BY <1>1, <1>3, <2>1 DEF AtomicInv
<1> QED BY <1>2, <1>3

(* For any number of clients, ids and TTLs, and with failing storage: as     *)
(* long as no two activities work on one id at a time, and patches keep the  *)
(* id, the accesses of HTTPAPI, Controller, LevelDBStorage and the cleaner   *)
(* have the effect of the one-step operations of Registry.                   *)
THEOREM CatalogIsAtomic ==
    ASSUME PatchesKeepIds
    PROVE  ApartSpec => AtomicRegistry
<1>1. AtomicInv /\ Apart /\ [Next /\ Apart']_vars => (AtomicInv /\ Apart)' /\ [R!Next]_(R!vars)
  BY NextAtomic
<1> QED BY <1>1, InitAtomic, PTL DEF ApartSpec, AtomicRegistry, R!Spec
=============================================================================
