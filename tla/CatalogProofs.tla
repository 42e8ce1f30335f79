--------------------------- MODULE CatalogProofs ---------------------------
(* What holds of Catalog for all values of its constants.                    *)
EXTENDS Catalog, TLAPS

---------------------------------------------------------------------------
(* The types of jobs, documents and responses                              *)

(* TypeOK is not inductive alone: a request between two storage accesses     *)
(* must be known to carry a job, and an update the version it read.          *)
JobTyped(r) ==
    /\ pc[r] \in Steps => job[r] \in Job
    /\ pc[r] \in {"updateHas", "updatePut"} => job[r].old \in TD
TypeInv == TypeOK /\ \A r \in Requests : JobTyped(r)

(* The documents the handlers build are TDs.                                 *)
LEMMA MergeTyped ==
    ASSUME NEW old \in TD, NEW p \in Patch, p.id # EmptyId
    PROVE  MergePatch(old, p) \in TD
<1>1. /\ Merged(old.id, p.id) \in Optional(Ids)
      /\ Merged(old.content, p.content) \in Contents
      /\ Merged(old.ttl, p.ttl) \in Optional(Int)
      /\ Merged(old.expires, p.expires) \in Optional(Int)
  BY DEF Merged, TD, Patch, Optional
<1> QED BY <1>1 DEF MergePatch, TD

LEMMA RegisteredTyped ==
    ASSUME NEW doc \in TD, NEW created \in Optional(Int), NEW t \in Int
    PROVE  Registered(doc, created, t) \in TD
<1>1. computeExpiry(doc, t) \in Optional(Int)
  BY DurationAssumption DEF computeExpiry, Duration, TD, Optional
<1> QED BY <1>1 DEF Registered, TD, Optional

(* What the helpers of the handlers do to the types.                         *)
LEMMA FinishTyped ==
    ASSUME TypeInv, NEW r \in Requests, NEW op \in Methods, NEW k \in Optional(Ids),
           NEW status \in Statuses, NEW td \in Optional(TD),
           Finish(r, op, k, status, td)
    PROVE  /\ pc' \in [Requests -> {"ready", "done"} \cup Steps]
           /\ job' \in [Requests -> Optional(Job)]
           /\ reply' \in [Requests -> Optional(Reply)]
           /\ \A q \in Requests : JobTyped(q)'
<1>1. [op |-> op, key |-> k, status |-> status, td |-> td] \in Reply
  BY DEF Reply
<1>2. pc' \in [Requests -> {"ready", "done"} \cup Steps] /\ job' \in [Requests -> Optional(Job)]
  BY DEF Finish, TypeInv, TypeOK, Optional
<1>3. reply' \in [Requests -> Optional(Reply)]
  BY <1>1 DEF Finish, TypeInv, TypeOK, Optional
<1>4. ASSUME NEW q \in Requests PROVE JobTyped(q)'
  <2>1. CASE q = r
    BY <2>1 DEF Finish, TypeInv, TypeOK, JobTyped, Steps
  <2>2. CASE q # r
    BY <2>2 DEF Finish, TypeInv, TypeOK, JobTyped
  <2> QED BY <2>1, <2>2
<1> QED BY <1>2, <1>3, <1>4

LEMMA AccessTyped ==
    ASSUME TypeInv, NEW r \in Requests, NEW step \in Steps, NEW j \in Job,
           step \in {"updateHas", "updatePut"} => j.old \in TD,
           Access(r, step, j)
    PROVE  /\ pc' \in [Requests -> {"ready", "done"} \cup Steps]
           /\ job' \in [Requests -> Optional(Job)]
           /\ UNCHANGED <<db, reply, events>>
           /\ \A q \in Requests : JobTyped(q)'
<1>1. /\ pc' \in [Requests -> {"ready", "done"} \cup Steps]
      /\ job' \in [Requests -> Optional(Job)]
      /\ UNCHANGED <<db, reply, events>>
  BY DEF Access, TypeInv, TypeOK, Optional
<1>2. ASSUME NEW q \in Requests PROVE JobTyped(q)'
  <2>1. CASE q = r
    BY <2>1 DEF Access, TypeInv, TypeOK, JobTyped
  <2>2. CASE q # r
    BY <2>2 DEF Access, TypeInv, TypeOK, JobTyped
  <2> QED BY <2>1, <2>2
<1> QED BY <1>1, <1>2

LEMMA RefuseTyped ==
    ASSUME TypeInv, NEW r \in Requests, NEW op \in Methods, NEW k \in Optional(Ids),
           NEW status \in Statuses, Refuse(r, op, k, status),
           UNCHANGED <<now, urns, tick, cpc, todo>>
    PROVE  TypeInv'
<1>1. Finish(r, op, k, status, None) /\ UNCHANGED <<db, events>>
  BY DEF Refuse
<1>2. None \in Optional(TD) BY DEF Optional
<1> QED BY <1>1, <1>2, FinishTyped DEF TypeInv, TypeOK

LEMMA WriteTyped ==
    ASSUME TypeInv, NEW k \in Ids, NEW td \in Optional(TD)
    PROVE  [db EXCEPT ![k] = td] \in [Ids -> Optional(TD)]
BY DEF TypeInv, TypeOK

LEMMA PublishTyped ==
    ASSUME TypeInv, NEW r \in Requests, NEW type \in {"create", "update", "delete"},
           NEW old \in Optional(TD), NEW td \in Optional(TD),
           Publish(r, type, old, td)
    PROVE  events' \subseteq Event
BY DEF Publish, Event, TypeInv, TypeOK

LEMMA InitTyped == Init => TypeInv
<1> SUFFICES ASSUME Init PROVE TypeInv OBVIOUS
<1> USE InputsAssumption
<1>1. TypeOK
  BY DEF Init, TypeOK, Optional
<1>2. \A r \in Requests : JobTyped(r)
  BY DEF Init, JobTyped, Steps
<1> QED BY <1>1, <1>2 DEF TypeInv

---------------------------------------------------------------------------
(* The first step of a request                                             *)

(* It either ends the request, having read at most one entry, or leaves a    *)
(* job: the document to store under the key and the version read there.      *)
Answered(r) ==
    \E op \in Methods, k \in Optional(Ids), status \in Statuses, td \in Optional(TD) :
        /\ Finish(r, op, k, status, td)
        /\ td # None => \E i \in Ids : td = db[i]
        /\ \/ td = None /\ status \in {400, 404, 500} /\ (status = 404 => db[k] = None)
           \/ op = "GET" /\ k \in Ids /\ td = db[k] /\ status = IF td = None THEN 404 ELSE 200
        /\ UNCHANGED urns

Took(r, step, j) ==
    /\ Access(r, step, j)
    /\ j.op \in Ops
    /\ step = "addHas" =>
          /\ j.op \in {"POST", "PUT"} /\ j.doc.id = j.key
          /\ j.op = "POST" => j.key \in Urns \ urns /\ urns' = urns \cup {j.key}
    /\ step \in {"updateHas", "deleteHas"} => j.old = db[j.key] /\ j.old # None
    /\ step = "updateHas" =>
          /\ j.op \in {"PUT", "PATCH"}
          /\ \/ j.op = "PUT" /\ j.doc.id = j.key
             \/ \E p \in Patches : /\ p.id # EmptyId /\ j.doc.id = Merged(j.old.id, p.id)
                                   /\ j.doc.content = Merged(j.old.content, p.content)
                                   /\ j.doc.ttl = Merged(j.old.ttl, p.ttl)
    /\ step = "deleteHas" => j.op = "DELETE"
    /\ j.op # "POST" => Known(j.key) /\ UNCHANGED urns

LEMMA StartShape ==
    ASSUME TypeInv, NEW r \in Requests, Start(r)
    PROVE  /\ pc[r] = "ready"
           /\ UNCHANGED <<now, db, events, tick, cpc, todo>>
           /\ urns' \subseteq Urns
           /\ \/ Answered(r)
              \/ \E step \in {"addHas", "updateHas", "deleteHas"}, j \in Job : Took(r, step, j)
<1> DEFINE Goal == /\ pc[r] = "ready"
                   /\ UNCHANGED <<now, db, events, tick, cpc, todo>>
                   /\ urns' \subseteq Urns
                   /\ \/ Answered(r)
                      \/ \E step \in {"addHas", "updateHas", "deleteHas"}, j \in Job :
                            Took(r, step, j)
<1> USE InputsAssumption, IdsAssumption
<1>0. db \in [Ids -> Optional(TD)] /\ urns \subseteq Urns BY DEF TypeInv, TypeOK
<1>a. ASSUME NEW op \in Methods, NEW k \in Optional(Ids), NEW status \in Statuses,
             Refuse(r, op, k, status), UNCHANGED urns,
             status \in {400, 404, 500}, status = 404 => db[k] = None
      PROVE  Answered(r)
  BY <1>a DEF Answered, Refuse, Optional
<1>1. ASSUME NEW b \in Bodies, Post(r, b) PROVE Goal
  <2>1. pc[r] = "ready" /\ "POST" \in Ops /\ UNCHANGED <<now, tick, cpc, todo>>
    BY <1>1 DEF Post, Begin, cleanerVars
  <2>2. CASE b.form # "ok" \/ b.id # None
    <3> DEFINE status == IF b.id # None THEN 400 ELSE Rejection(b.form)
    <3>1. Refuse(r, "POST", None, status) /\ UNCHANGED urns BY <1>1, <2>2 DEF Post
    <3>2. status \in Statuses /\ status \in {400, 404, 500} /\ status # 404
      BY DEF Rejection, Statuses
    <3> HIDE DEF status
    <3>3. None \in Optional(Ids) /\ "POST" \in Methods BY DEF Methods, Optional
    <3>4. Answered(r) BY <3>1, <3>2, <3>3, <1>a
    <3> QED BY <1>0, <2>1, <3>1, <3>4 DEF Refuse
  <2>3. CASE b.form = "ok" /\ b.id = None
    <3>1. PICK k \in Urns \ urns :
            /\ urns' = urns \cup {k}
            /\ Access(r, "addHas", [op |-> "POST", key |-> k, old |-> None,
                                    doc |-> Document(b, k)])
      BY <1>1, <2>3 DEF Post
    <3> DEFINE j == [op |-> "POST", key |-> k, old |-> None, doc |-> Document(b, k)]
    <3>2. Document(b, k) \in TD /\ Document(b, k).id = k
      BY DEF Document, TD, Body, Optional
    <3>3. j \in Job BY <3>2 DEF Job, Methods, Optional
    <3>4. Took(r, "addHas", j) BY <2>1, <3>1, <3>2 DEF Took
    <3>5. UNCHANGED <<db, events>> BY <3>1 DEF Access
    <3> QED BY <1>0, <2>1, <3>1, <3>3, <3>4, <3>5
  <2> QED BY <1>1, <2>2, <2>3 DEF Post
<1>2. ASSUME NEW b \in Bodies, NEW k \in Ids, Put(r, k, b) PROVE Goal
  <2>1. /\ pc[r] = "ready" /\ "PUT" \in Ops /\ Known(k)
        /\ UNCHANGED <<now, urns, tick, cpc, todo>>
    BY <1>2 DEF Put, Begin, cleanerVars
  <2>2. CASE b.form # "ok" \/ b.id # k
    <3> DEFINE status == IF b.id # k THEN 400 ELSE Rejection(b.form)
    <3>1. Refuse(r, "PUT", k, status) BY <1>2, <2>2 DEF Put
    <3>2. status \in Statuses /\ status \in {400, 404, 500} /\ status # 404
      BY DEF Rejection, Statuses
    <3> HIDE DEF status
    <3>3. Answered(r) BY <2>1, <3>1, <3>2, <1>a DEF Methods, Optional
    <3> QED BY <1>0, <2>1, <3>1, <3>3 DEF Refuse
  <2>3. CASE b.form = "ok" /\ b.id = k
    <3> DEFINE step == IF db[k] = None THEN "addHas" ELSE "updateHas"
               j == [op |-> "PUT", key |-> k, old |-> db[k], doc |-> Document(b, b.id)]
    <3>1. Access(r, step, j) BY <1>2, <2>3 DEF Put
    <3>2. Document(b, b.id) \in TD /\ Document(b, b.id).id = k
      BY <2>3 DEF Document, TD, Body, Optional
    <3>3. j \in Job BY <1>0, <2>3, <3>2 DEF Job, Methods, Optional
    <3>4. Took(r, step, j) BY <2>1, <3>1, <3>2 DEF Took
    <3>5. step \in {"addHas", "updateHas", "deleteHas"} OBVIOUS
    <3>6. UNCHANGED <<db, events>> BY <3>1 DEF Access
    <3> HIDE DEF step, j
    <3> QED BY <1>0, <2>1, <3>3, <3>4, <3>5, <3>6
  <2> QED BY <1>2, <2>2, <2>3 DEF Put
<1>3. ASSUME NEW k \in Ids, NEW p \in Patches, PatchTD(r, k, p) PROVE Goal
  <2>1. /\ pc[r] = "ready" /\ "PATCH" \in Ops /\ Known(k)
        /\ UNCHANGED <<now, urns, tick, cpc, todo>>
    BY <1>3 DEF PatchTD, Begin, cleanerVars
  <2>2. ASSUME NEW status \in {400, 404, 500}, Refuse(r, "PATCH", k, status),
               status = 404 => db[k] = None
        PROVE  Goal
    <3>1. Answered(r) BY <2>1, <2>2, <1>a DEF Methods, Optional, Statuses
    <3> QED BY <1>0, <2>1, <2>2, <3>1 DEF Refuse
  <2>3. CASE db[k] # None /\ p.form = "ok" /\ p.id # EmptyId
    <3> DEFINE j == [op |-> "PATCH", key |-> k, old |-> db[k], doc |-> MergePatch(db[k], p)]
    <3>1. Access(r, "updateHas", j) BY <1>3, <2>3 DEF PatchTD
    <3>2. db[k] \in TD BY <1>0, <2>3 DEF Optional
    <3>3. MergePatch(db[k], p) \in TD BY <2>3, <3>2, MergeTyped
    <3>4. /\ MergePatch(db[k], p).id = Merged(db[k].id, p.id)
          /\ MergePatch(db[k], p).content = Merged(db[k].content, p.content)
          /\ MergePatch(db[k], p).ttl = Merged(db[k].ttl, p.ttl)
      BY <3>2 DEF MergePatch, TD
    <3>5. j \in Job BY <3>2, <3>3 DEF Job, Methods, Optional
    <3>6. Took(r, "updateHas", j) BY <2>1, <2>3, <3>1, <3>4 DEF Took
    <3>7. UNCHANGED <<db, events>> BY <3>1 DEF Access
    <3> HIDE DEF j
    <3> QED BY <1>0, <2>1, <3>5, <3>6, <3>7
  <2>4. \/ Refuse(r, "PATCH", k, 400) \/ Refuse(r, "PATCH", k, 500)
        \/ Refuse(r, "PATCH", k, 404) /\ db[k] = None
        \/ (db[k] # None /\ p.form = "ok" /\ p.id # EmptyId)
    BY <1>3 DEF PatchTD, Rejection
  <2> HIDE DEF Goal
  <2>5. CASE Refuse(r, "PATCH", k, 404) /\ db[k] = None BY <2>2, <2>5
  <2>6. CASE Refuse(r, "PATCH", k, 400) \/ Refuse(r, "PATCH", k, 500) BY <2>2, <2>6
  <2> QED BY <2>3, <2>4, <2>5, <2>6
<1>4. ASSUME NEW k \in Ids, Delete(r, k) PROVE Goal
  <2>1. /\ pc[r] = "ready" /\ "DELETE" \in Ops /\ Known(k)
        /\ UNCHANGED <<now, urns, tick, cpc, todo>>
    BY <1>4 DEF Delete, Begin, cleanerVars
  <2>2. CASE db[k] = None
    <3>1. Refuse(r, "DELETE", k, 404) BY <1>4, <2>2 DEF Delete
    <3>2. Answered(r) BY <2>1, <2>2, <3>1, <1>a DEF Methods, Optional, Statuses
    <3> QED BY <1>0, <2>1, <3>1, <3>2 DEF Refuse
  <2>3. CASE db[k] # None
    <3> DEFINE j == [op |-> "DELETE", key |-> k, old |-> db[k], doc |-> db[k]]
    <3>1. Access(r, "deleteHas", j) BY <1>4, <2>3 DEF Delete
    <3>2. j \in Job BY <1>0, <2>3 DEF Job, Methods, Optional
    <3>3. Took(r, "deleteHas", j) BY <2>1, <2>3, <3>1 DEF Took
    <3>4. UNCHANGED <<db, events>> BY <3>1 DEF Access
    <3> HIDE DEF j
    <3> QED BY <1>0, <2>1, <3>2, <3>3, <3>4
  <2> QED BY <2>2, <2>3
<1>5. ASSUME NEW k \in Ids, Get(r, k) PROVE Goal
  <2>1. /\ Finish(r, "GET", k, IF db[k] = None THEN 404 ELSE 200, db[k])
        /\ pc[r] = "ready" /\ UNCHANGED <<now, db, urns, events, tick, cpc, todo>>
    BY <1>5 DEF Get, Begin, cleanerVars
  <2>2. (IF db[k] = None THEN 404 ELSE 200) \in Statuses BY DEF Statuses
  <2>3. k \in Optional(Ids) /\ db[k] \in Optional(TD) BY <1>0 DEF Optional
  <2>4. Answered(r) BY <2>1, <2>2, <2>3, ZenonT(30) DEF Answered, Methods
  <2> QED BY <1>0, <2>1, <2>4
<1> QED BY <1>1, <1>2, <1>3, <1>4, <1>5 DEF Start

LEMMA StartTyped ==
    ASSUME TypeInv, NEW r \in Requests, Start(r)
    PROVE  TypeInv'
<1>1. UNCHANGED <<now, db, events, tick, cpc, todo>> /\ urns' \subseteq Urns
  BY StartShape
<1>2. CASE Answered(r)
  <2>1. PICK op \in Methods, k \in Optional(Ids), status \in Statuses, td \in Optional(TD) :
          Finish(r, op, k, status, td)
    BY <1>2 DEF Answered
  <2> QED BY <1>1, <2>1, FinishTyped DEF TypeInv, TypeOK
<1>3. ASSUME NEW step \in {"addHas", "updateHas", "deleteHas"}, NEW j \in Job, Took(r, step, j)
      PROVE  TypeInv'
  <2>1. j.old \in Optional(TD) BY DEF Job
  <2>2. step \in {"updateHas", "updatePut"} => j.old \in TD
    BY <1>3, <2>1 DEF Took, Optional
  <2>3. Access(r, step, j) /\ step \in Steps BY <1>3 DEF Took, Steps
  <2> QED BY <1>1, <2>2, <2>3, AccessTyped DEF TypeInv, TypeOK
<1> QED BY <1>2, <1>3, StartShape

---------------------------------------------------------------------------
(* The other steps, and type correctness                                   *)

LEMMA HandleTyped ==
    ASSUME TypeInv, NEW r \in Requests, Handle(r) \/ StorageError(r)
    PROVE  TypeInv'
<1> USE InputsAssumption, IdsAssumption
<1> DEFINE j == job[r]
<1>1. pc[r] \in Steps => /\ j \in Job
                         /\ j.op \in Methods /\ j.key \in Ids /\ j.key \in Optional(Ids)
                         /\ j.doc \in TD /\ j.old \in Optional(TD)
  BY DEF TypeInv, JobTyped, Job, Optional
<1>2. now \in Int /\ now \in Optional(Int) /\ None \in Optional(TD)
  BY DEF TypeInv, TypeOK, Optional
<1>3. ASSUME AddHas(r) PROVE TypeInv'
  <2>1. pc[r] = "addHas" /\ UNCHANGED <<now, urns, tick, cpc, todo>>
    BY <1>3 DEF AddHas, Continue, cleanerVars
  <2>2. CASE Refuse(r, j.op, j.key, 409)
    BY <1>1, <2>1, <2>2, RefuseTyped DEF Steps, Statuses
  <2>3. CASE Access(r, "addPut", [j EXCEPT !.doc = Registered(@, now, now)])
    <3>1. Registered(j.doc, now, now) \in TD BY <1>1, <1>2, <2>1, RegisteredTyped DEF Steps
    <3>2. [j EXCEPT !.doc = Registered(@, now, now)] \in Job BY <1>1, <2>1, <3>1 DEF Job, Steps
    <3> HIDE DEF j
    <3> QED BY <2>1, <2>3, <3>2, AccessTyped DEF TypeInv, TypeOK, Steps
  <2> QED BY <1>3, <2>2, <2>3 DEF AddHas
<1>4. ASSUME AddPut(r) PROVE TypeInv'
  <2>1. /\ pc[r] = "addPut" /\ UNCHANGED <<now, urns, tick, cpc, todo>>
        /\ db' = [db EXCEPT ![j.key] = j.doc]
        /\ Publish(r, "create", None, j.doc)
        /\ Finish(r, j.op, j.key, 201, None)
    BY <1>4 DEF AddPut, Continue, cleanerVars
  <2>2. j.doc \in Optional(TD) BY <1>1, <2>1 DEF Steps, Optional
  <2>3. db' \in [Ids -> Optional(TD)] BY <1>1, <2>1, <2>2, WriteTyped DEF Steps
  <2>4. events' \subseteq Event BY <1>2, <2>1, <2>2, PublishTyped
  <2> HIDE DEF j
  <2> QED BY <1>1, <1>2, <2>1, <2>3, <2>4, FinishTyped DEF TypeInv, TypeOK, Steps, Statuses
<1>5. ASSUME UpdateHas(r) PROVE TypeInv'
  <2>1. pc[r] = "updateHas" /\ UNCHANGED <<now, urns, tick, cpc, todo>>
    BY <1>5 DEF UpdateHas, Continue, cleanerVars
  <2>2. CASE Refuse(r, j.op, j.key, 404)
    BY <1>1, <2>1, <2>2, RefuseTyped DEF Steps, Statuses
  <2>3. CASE Access(r, "updatePut", [j EXCEPT !.doc = Registered(@, j.old.created, now)])
    <3>1. j.old \in TD /\ j.old.created \in Optional(Int)
      BY <2>1 DEF TypeInv, JobTyped, TD
    <3>2. Registered(j.doc, j.old.created, now) \in TD
      BY <1>1, <1>2, <2>1, <3>1, RegisteredTyped DEF Steps
    <3> DEFINE n == [j EXCEPT !.doc = Registered(@, j.old.created, now)]
    <3>3. n \in Job /\ n.old \in TD BY <1>1, <2>1, <3>1, <3>2 DEF Job, Steps
    <3>4. Access(r, "updatePut", n) BY <2>3
    <3> HIDE DEF j, n
    <3> QED BY <2>1, <3>3, <3>4, AccessTyped DEF TypeInv, TypeOK, Steps
  <2>4. CASE Access(r, "addHas", [j EXCEPT !.doc = WithoutRegistration(@)])
    <3>1. WithoutRegistration(j.doc) \in TD
      BY <1>1, <2>1 DEF WithoutRegistration, TD, Optional, Steps
    <3>2. [j EXCEPT !.doc = WithoutRegistration(@)] \in Job
      BY <1>1, <2>1, <3>1 DEF Job, Steps
    <3> HIDE DEF j
    <3> QED BY <2>1, <2>4, <3>2, AccessTyped DEF TypeInv, TypeOK, Steps
  <2> QED BY <1>5, <2>2, <2>3, <2>4 DEF UpdateHas
<1>6. ASSUME UpdatePut(r) PROVE TypeInv'
  <2>1. /\ pc[r] = "updatePut" /\ UNCHANGED <<now, urns, tick, cpc, todo>>
        /\ db' = [db EXCEPT ![j.key] = j.doc]
        /\ Publish(r, "update", j.old, j.doc)
        /\ Finish(r, j.op, j.key, 204, None)
    BY <1>6 DEF UpdatePut, Continue, cleanerVars
  <2>2. j.doc \in Optional(TD) BY <1>1, <2>1 DEF Steps, Optional
  <2>3. db' \in [Ids -> Optional(TD)] BY <1>1, <2>1, <2>2, WriteTyped DEF Steps
  <2>4. events' \subseteq Event BY <1>1, <2>1, <2>2, PublishTyped DEF Steps
  <2> HIDE DEF j
  <2> QED BY <1>1, <1>2, <2>1, <2>3, <2>4, FinishTyped DEF TypeInv, TypeOK, Steps, Statuses
<1>7. ASSUME DeleteHas(r) PROVE TypeInv'
  <2>1. pc[r] = "deleteHas" /\ UNCHANGED <<now, urns, tick, cpc, todo>>
    BY <1>7 DEF DeleteHas, Continue, cleanerVars
  <2>2. CASE Refuse(r, j.op, j.key, 404)
    BY <1>1, <2>1, <2>2, RefuseTyped DEF Steps, Statuses
  <2>3. CASE Access(r, "deleteDo", j)
    <3> HIDE DEF j
    <3> QED BY <1>1, <2>1, <2>3, AccessTyped DEF TypeInv, TypeOK, Steps
  <2> QED BY <1>7, <2>2, <2>3 DEF DeleteHas
<1>8. ASSUME DeleteDo(r) PROVE TypeInv'
  <2>1. /\ pc[r] = "deleteDo" /\ UNCHANGED <<now, urns, tick, cpc, todo>>
        /\ db' = [db EXCEPT ![j.key] = None]
        /\ Publish(r, "delete", j.old, None)
        /\ Finish(r, j.op, j.key, 204, None)
    BY <1>8 DEF DeleteDo, Continue, cleanerVars
  <2>2. db' \in [Ids -> Optional(TD)] BY <1>1, <1>2, <2>1, WriteTyped DEF Steps
  <2>3. events' \subseteq Event BY <1>1, <1>2, <2>1, PublishTyped DEF Steps
  <2> HIDE DEF j
  <2> QED BY <1>1, <1>2, <2>1, <2>2, <2>3, FinishTyped DEF TypeInv, TypeOK, Steps, Statuses
<1>9. ASSUME StorageError(r) PROVE TypeInv'
  <2>1. UNCHANGED <<now, urns, tick, cpc, todo>> BY <1>9 DEF StorageError, cleanerVars
  <2>2. CASE pc[r] \in Steps /\ Refuse(r, j.op, j.key, 500)
    <3> HIDE DEF j
    <3> QED BY <1>1, <2>1, <2>2, RefuseTyped DEF Statuses
  <2>3. ASSUME NEW op \in Ops, NEW k \in Ids, Refuse(r, op, k, 500) PROVE TypeInv'
    BY <2>1, <2>3, RefuseTyped DEF Statuses, Optional
  <2> QED BY <1>9, <2>2, <2>3 DEF StorageError
<1> QED BY <1>3, <1>4, <1>5, <1>6, <1>7, <1>8, <1>9 DEF Handle

LEMMA CleanerTyped ==
    ASSUME TypeInv, Cleaner \/ Advance \/ TickerFire
    PROVE  TypeInv'
<1> USE InputsAssumption, IdsAssumption
<1>1. ASSUME UNCHANGED requestVars, TypeOK' PROVE TypeInv'
  BY <1>1 DEF requestVars, TypeInv, JobTyped
<1>2. CASE Advance
  BY <1>1, <1>2 DEF Advance, requestVars, cleanerVars, TypeInv, TypeOK
<1>3. CASE TickerFire
  BY <1>1, <1>3 DEF TickerFire, requestVars, TypeInv, TypeOK, Optional
<1>4. CASE CleanScan \/ CleanScanFails
  <2>1. \A k \in {i \in Ids : ExpiredAt(db[i], tick)} : db[k].id \in Optional(Ids)
    BY DEF ExpiredAt, TypeInv, TypeOK, TD, Optional
  <2>2. todo' \subseteq {<<k, db[k].id>> : k \in {i \in Ids : ExpiredAt(db[i], tick)}}
    BY <1>4 DEF CleanScan, CleanScanFails
  <2>3. todo' \subseteq Ids \X Optional(Ids) BY <2>1, <2>2
  <2> QED BY <1>1, <1>4, <2>3 DEF CleanScan, CleanScanFails, requestVars, TypeInv, TypeOK, Optional
<1>5. ASSUME NEW e \in todo, CleanHas(e) PROVE TypeInv'
  BY <1>1, <1>5 DEF CleanHas, requestVars, TypeInv, TypeOK, Optional
<1>6. ASSUME NEW e \in todo, CleanDelete(e) PROVE TypeInv'
  <2>1. db' \in [Ids -> Optional(TD)]
    BY <1>6 DEF CleanDelete, TypeInv, TypeOK, Optional
  <2> QED BY <1>1, <1>6, <2>1 DEF CleanDelete, requestVars, TypeInv, TypeOK
<1>7. ASSUME NEW e \in todo, CleanError(e) PROVE TypeInv'
  BY <1>1, <1>7 DEF CleanError, requestVars, TypeInv, TypeOK
<1> QED BY <1>2, <1>3, <1>4, <1>5, <1>6, <1>7 DEF Cleaner

LEMMA NextTyped ==
    ASSUME TypeInv, [Next]_vars
    PROVE  TypeInv'
<1>1. CASE UNCHANGED vars
  BY <1>1 DEF vars, requestVars, cleanerVars, TypeInv, TypeOK, JobTyped
<1>2. CASE Next
  BY <1>2, StartTyped, HandleTyped, CleanerTyped DEF Next
<1> QED BY <1>1, <1>2

LEMMA TypeInvariant == Spec => []TypeInv
<1>1. TypeInv /\ [Next]_vars => TypeInv' BY NextTyped
<1> QED BY <1>1, InitTyped, PTL DEF Spec

(* TypeOK holds of every run: each variable keeps its range through every    *)
(* handler, the cleaner and the clock, for any number of requests, ids,      *)
(* bodies and patches.                                                       *)
THEOREM TypeCorrect == Spec => []TypeOK
<1>1. TypeInv => TypeOK BY DEF TypeInv
<1> QED BY <1>1, TypeInvariant, PTL

---------------------------------------------------------------------------
(* What a step leaves alone                                                *)

(* A request's steps do not touch the other requests, and the cleaner and    *)
(* the clock touch none.                                                     *)
LEMMA RequestFrame ==
    ASSUME TypeInv, NEW r \in Requests, Start(r) \/ Handle(r) \/ StorageError(r)
    PROVE  /\ UNCHANGED <<now, tick, cpc, todo>>
           /\ \A q \in Requests \ {r} : pc'[q] = pc[q] /\ job'[q] = job[q] /\ reply'[q] = reply[q]
<1>1. ASSUME NEW op, NEW k, NEW status, NEW td, Finish(r, op, k, status, td)
      PROVE  \A q \in Requests \ {r} : pc'[q] = pc[q] /\ job'[q] = job[q] /\ reply'[q] = reply[q]
  BY <1>1 DEF Finish, TypeInv, TypeOK
<1>2. ASSUME NEW step, NEW j, Access(r, step, j)
      PROVE  \A q \in Requests \ {r} : pc'[q] = pc[q] /\ job'[q] = job[q] /\ reply'[q] = reply[q]
  BY <1>2 DEF Access, TypeInv, TypeOK
<1>3. CASE Start(r)
  BY <1>1, <1>2, <1>3, StartShape DEF Answered, Took
<1>4. CASE Handle(r)
  <2>1. UNCHANGED <<now, tick, cpc, todo>>
    BY <1>4 DEF Handle, AddHas, AddPut, UpdateHas, UpdatePut, DeleteHas, DeleteDo,
                Continue, cleanerVars
  <2>2. CASE AddHas(r) BY <1>1, <1>2, <2>1, <2>2 DEF AddHas, Refuse
  <2>3. CASE AddPut(r) BY <1>1, <2>1, <2>3 DEF AddPut
  <2>4. CASE UpdateHas(r) BY <1>1, <1>2, <2>1, <2>4 DEF UpdateHas, Refuse
  <2>5. CASE UpdatePut(r) BY <1>1, <2>1, <2>5 DEF UpdatePut
  <2>6. CASE DeleteHas(r) BY <1>1, <1>2, <2>1, <2>6 DEF DeleteHas, Refuse
  <2>7. CASE DeleteDo(r) BY <1>1, <2>1, <2>7 DEF DeleteDo
  <2> QED BY <1>4, <2>2, <2>3, <2>4, <2>5, <2>6, <2>7 DEF Handle
<1>5. CASE StorageError(r)
  BY <1>1, <1>5 DEF StorageError, Refuse, cleanerVars
<1> QED BY <1>3, <1>4, <1>5

LEMMA BackgroundFrame ==
    ASSUME TypeInv, Cleaner \/ Advance \/ TickerFire
    PROVE  /\ UNCHANGED requestVars
           /\ now' \in Nat /\ now <= now'
           /\ \A k \in Ids : db'[k] = db[k] \/ db'[k] = None
<1>1. now \in Nat /\ db \in [Ids -> Optional(TD)] BY InputsAssumption DEF TypeInv, TypeOK
<1>2. CASE Advance BY <1>1, <1>2 DEF Advance, requestVars, cleanerVars
<1>3. CASE TickerFire BY <1>1, <1>3 DEF TickerFire, requestVars
<1>4. CASE CleanScan \/ CleanScanFails
  BY <1>1, <1>4 DEF CleanScan, CleanScanFails, requestVars
<1>5. CASE \E e \in todo : CleanHas(e) \/ CleanDelete(e) \/ CleanError(e)
  BY <1>1, <1>5 DEF CleanHas, CleanDelete, CleanError, requestVars
<1> QED BY <1>2, <1>3, <1>4, <1>5 DEF Cleaner

(* The write and the answer of a request's last step.                        *)
LEMMA WriteEffect ==
    ASSUME TypeInv, NEW r \in Requests, pc[r] \in Steps, NEW td,
           db' = [db EXCEPT ![job[r].key] = td]
    PROVE  /\ job[r].key \in Ids
           /\ db'[job[r].key] = td
           /\ \A k \in Ids \ {job[r].key} : db'[k] = db[k]
BY DEF TypeInv, TypeOK, JobTyped, Job

---------------------------------------------------------------------------
(* Coherent registrations                                                  *)

(* The strengthening: what a request will write, and the version an update   *)
(* has read, are coherent too while the clock goes on.                       *)
JobCoherent(r) ==
    /\ pc[r] \in {"updateHas", "updatePut"} => Coherent(job[r].old)
    /\ pc[r] \in {"addPut", "updatePut"} => Coherent(job[r].doc)
CoherentInv == RegistrationCoherent /\ \A r \in Requests : JobCoherent(r)

LEMMA RegisteredCoherent ==
    ASSUME NEW doc \in TD, NEW created \in Int, now \in Int, created <= now
    PROVE  Coherent(Registered(doc, created, now))
<1>1. /\ Registered(doc, created, now).created = created
      /\ Registered(doc, created, now).modified = now
      /\ Registered(doc, created, now).ttl = doc.ttl
      /\ Registered(doc, created, now).expires = computeExpiry(doc, now)
  BY DEF Registered, TD
<1>2. CASE doc.ttl = None BY <1>1, <1>2, SentinelsAssumption DEF Coherent
<1>3. CASE doc.ttl # None
  <2>1. doc.ttl \in Int BY <1>3 DEF TD, Optional
  <2>2. Duration(doc.ttl) \in -MaxTTL..MaxTTL /\ (Fits(doc.ttl) => Duration(doc.ttl) = doc.ttl)
    BY DurationAssumption DEF Duration, Fits
  <2>3. (now + Duration(doc.ttl)) - now = Duration(doc.ttl) BY <2>2, DurationAssumption
  <2> QED BY <1>1, <1>3, <2>2, <2>3, SentinelsAssumption DEF Coherent, computeExpiry, Fits
<1> QED BY <1>2, <1>3

LEMMA CoherentLater ==
    ASSUME NEW td \in TD, Coherent(td), now \in Int, now' \in Int, now <= now'
    PROVE  Coherent(td)'
BY DEF Coherent, TD, Optional

LEMMA CoherentRequest ==
    ASSUME TypeInv, CoherentInv, NEW r \in Requests, Start(r) \/ Handle(r) \/ StorageError(r)
    PROVE  CoherentInv'
<1> DEFINE j == job[r]
<1>0. /\ now' = now /\ now \in Int
      /\ \A td : Coherent(td)' <=> Coherent(td)
      /\ db \in [Ids -> Optional(TD)] /\ pc \in [Requests -> {"ready", "done"} \cup Steps]
      /\ job \in [Requests -> Optional(Job)]
  BY RequestFrame, InputsAssumption DEF TypeInv, TypeOK, Coherent
<1>1. ASSUME JobCoherent(r)' PROVE \A q \in Requests : JobCoherent(q)'
  BY <1>0, <1>1, RequestFrame DEF CoherentInv, JobCoherent
<1>2. ASSUME UNCHANGED db PROVE RegistrationCoherent'
  BY <1>0, <1>2 DEF CoherentInv, RegistrationCoherent
<1>3. ASSUME NEW op, NEW k, NEW status, NEW td, Finish(r, op, k, status, td) PROVE JobCoherent(r)'
  BY <1>0, <1>3 DEF Finish, JobCoherent
<1>4. ASSUME NEW step, NEW n, Access(r, step, n),
             step \in {"updateHas", "updatePut"} => Coherent(n.old),
             step \in {"addPut", "updatePut"} => Coherent(n.doc)
      PROVE  JobCoherent(r)' /\ UNCHANGED db
  BY <1>0, <1>4 DEF Access, JobCoherent
<1>5. CASE Start(r)
  <2>1. CASE Answered(r)
    BY <1>1, <1>2, <1>3, <2>1, StartShape, <1>5 DEF Answered, CoherentInv
  <2>2. ASSUME NEW step \in {"addHas", "updateHas", "deleteHas"}, NEW n \in Job, Took(r, step, n)
        PROVE  CoherentInv'
    <3>1. step = "updateHas" => Coherent(n.old)
      BY <2>2 DEF Took, CoherentInv, RegistrationCoherent, Job
    <3>2. Access(r, step, n) BY <2>2 DEF Took
    <3>3. JobCoherent(r)' /\ UNCHANGED db BY <1>4, <3>1, <3>2
    <3> QED BY <1>1, <1>2, <3>3 DEF CoherentInv
  <2> QED BY <1>5, <2>1, <2>2, StartShape
<1>6. CASE StorageError(r)
  BY <1>1, <1>2, <1>3, <1>6 DEF StorageError, Refuse, CoherentInv
<1>7. CASE AddHas(r)
  <2>1. CASE Refuse(r, j.op, j.key, 409) BY <1>1, <1>2, <1>3, <2>1 DEF Refuse, CoherentInv
  <2>2. CASE Access(r, "addPut", [j EXCEPT !.doc = Registered(@, now, now)])
    <3> DEFINE n == [j EXCEPT !.doc = Registered(@, now, now)]
    <3>1. j \in Job /\ j.doc \in TD
      BY <1>7 DEF AddHas, Continue, Steps, TypeInv, JobTyped, Job
    <3>2. Coherent(Registered(j.doc, now, now)) BY <1>0, <3>1, RegisteredCoherent
    <3>3. n.doc = Registered(j.doc, now, now) BY <3>1 DEF Job
    <3>4. Coherent(n.doc) BY <3>2, <3>3
    <3> HIDE DEF j, n
    <3>5. JobCoherent(r)' /\ UNCHANGED db BY <1>4, <2>2, <3>4 DEF n
    <3> QED BY <1>1, <1>2, <3>5 DEF CoherentInv
  <2> QED BY <1>7, <2>1, <2>2 DEF AddHas
<1>8. CASE UpdateHas(r)
  <2>1. CASE Refuse(r, j.op, j.key, 404) BY <1>1, <1>2, <1>3, <2>1 DEF Refuse, CoherentInv
  <2>2. CASE Access(r, "updatePut", [j EXCEPT !.doc = Registered(@, j.old.created, now)])
    <3> DEFINE n == [j EXCEPT !.doc = Registered(@, j.old.created, now)]
    <3>1. j \in Job /\ j.doc \in TD /\ j.old \in TD /\ Coherent(j.old)
      BY <1>8 DEF UpdateHas, Continue, Steps, TypeInv, JobTyped, Job, CoherentInv, JobCoherent
    <3>2. j.old.created \in Int /\ j.old.created <= now
      BY <1>0, <3>1 DEF Coherent, TD, Optional
    <3>3. Coherent(Registered(j.doc, j.old.created, now)) BY <1>0, <3>1, <3>2, RegisteredCoherent
    <3>4. n.doc = Registered(j.doc, j.old.created, now) /\ n.old = j.old BY <3>1 DEF Job
    <3>5. Coherent(n.doc) /\ Coherent(n.old) BY <3>1, <3>3, <3>4
    <3> HIDE DEF j, n
    <3>6. JobCoherent(r)' /\ UNCHANGED db BY <1>4, <2>2, <3>5 DEF n
    <3> QED BY <1>1, <1>2, <3>6 DEF CoherentInv
  <2>3. CASE Access(r, "addHas", [j EXCEPT !.doc = WithoutRegistration(@)])
    <3>1. JobCoherent(r)' /\ UNCHANGED db BY <1>4, <2>3
    <3> QED BY <1>1, <1>2, <3>1 DEF CoherentInv
  <2> QED BY <1>8, <2>1, <2>2, <2>3 DEF UpdateHas
<1>9. ASSUME NEW td, td # None => Coherent(td), pc[r] \in Steps,
             db' = [db EXCEPT ![j.key] = td],
             NEW op, NEW k, NEW status, Finish(r, op, k, status, None)
      PROVE  CoherentInv'
  <2>1. RegistrationCoherent'
    BY <1>0, <1>9, WriteEffect DEF CoherentInv, RegistrationCoherent
  <2> QED BY <1>1, <1>3, <1>9, <2>1 DEF CoherentInv
<1>10. CASE AddPut(r)
  BY <1>9, <1>10 DEF AddPut, Continue, Steps, CoherentInv, JobCoherent
<1>11. CASE UpdatePut(r)
  BY <1>9, <1>11 DEF UpdatePut, Continue, Steps, CoherentInv, JobCoherent
<1>12. CASE DeleteHas(r)
  BY <1>1, <1>2, <1>3, <1>4, <1>12 DEF DeleteHas, Refuse, CoherentInv
<1>13. CASE DeleteDo(r)
  BY <1>9, <1>13 DEF DeleteDo, Continue, Steps
<1> QED BY <1>5, <1>6, <1>7, <1>8, <1>10, <1>11, <1>12, <1>13 DEF Handle

LEMMA InitCoherent == Init => CoherentInv
BY DEF Init, CoherentInv, RegistrationCoherent, JobCoherent

LEMMA NextCoherent ==
    ASSUME TypeInv, CoherentInv, [Next]_vars
    PROVE  CoherentInv'
<1>1. CASE UNCHANGED vars
  BY <1>1 DEF vars, requestVars, CoherentInv, RegistrationCoherent, JobCoherent, Coherent
<1>2. CASE Cleaner \/ Advance \/ TickerFire
  <2>1. /\ UNCHANGED <<pc, job>> /\ now \in Int /\ now' \in Int /\ now <= now'
        /\ \A k \in Ids : db'[k] = db[k] \/ db'[k] = None
    BY <1>2, BackgroundFrame, InputsAssumption DEF requestVars, TypeInv, TypeOK
  <2>2. ASSUME NEW k \in Ids, db'[k] # None PROVE Coherent(db[k])'
    <3>1. db[k] \in TD /\ Coherent(db[k]) /\ db'[k] = db[k]
      BY <2>1, <2>2 DEF TypeInv, TypeOK, Optional, CoherentInv, RegistrationCoherent
    <3> QED BY <2>1, <3>1 DEF Coherent, TD, Optional
  <2>3. ASSUME NEW r \in Requests PROVE JobCoherent(r)'
    <3>1. pc[r] \in {"updateHas", "updatePut"} => Coherent(job[r].old)'
      BY <2>1 DEF TypeInv, JobTyped, CoherentInv, JobCoherent, Coherent, TD, Optional
    <3>2. pc[r] \in {"addPut", "updatePut"} => Coherent(job[r].doc)'
      BY <2>1 DEF TypeInv, JobTyped, CoherentInv, JobCoherent, Coherent, Job, Steps, TD, Optional
    <3> QED BY <2>1, <3>1, <3>2 DEF JobCoherent
  <2> QED BY <2>2, <2>3 DEF CoherentInv, RegistrationCoherent
<1> QED BY <1>1, <1>2, CoherentRequest DEF Next

(* The registration of every stored TD stays coherent for any interleaving   *)
(* of requests, the cleaner and the clock (computeExpiry and the stamps that *)
(* add, update and patch set).                                               *)
THEOREM RegistrationsCoherent == Spec => []RegistrationCoherent
<1>1. TypeInv /\ CoherentInv /\ [Next]_vars => CoherentInv' BY NextCoherent
<1>2. CoherentInv => RegistrationCoherent BY DEF CoherentInv
<1> QED BY <1>1, <1>2, InitCoherent, TypeInvariant, PTL DEF Spec

---------------------------------------------------------------------------
(* Every version is explained by events                                    *)

(* The strengthening: the version a request has read was announced, and the  *)
(* one that will replace it has the same creation time.                      *)
JobExplained(r) ==
    /\ pc[r] \in {"updateHas", "updatePut", "deleteHas", "deleteDo"} =>
          job[r].old # None /\ Announced(job[r].old)
    /\ pc[r] = "updatePut" => job[r].doc.created = job[r].old.created
ExplainedInv == EventsExplainVersions /\ \A r \in Requests : JobExplained(r)

LEMMA ExplainedRequest ==
    ASSUME TypeInv, ExplainedInv, NEW r \in Requests,
           Start(r) \/ Handle(r) \/ StorageError(r)
    PROVE  ExplainedInv'
<1> DEFINE j == job[r]
<1>0. /\ db \in [Ids -> Optional(TD)] /\ pc \in [Requests -> {"ready", "done"} \cup Steps]
      /\ job \in [Requests -> Optional(Job)] /\ reply \in [Requests -> Optional(Reply)]
  BY DEF TypeInv, TypeOK
<1>1. ASSUME JobExplained(r)', events \subseteq events' PROVE \A q \in Requests : JobExplained(q)'
  BY <1>0, <1>1, RequestFrame DEF ExplainedInv, JobExplained, Announced
<1>2. ASSUME NEW op, NEW k, NEW status, NEW td, Finish(r, op, k, status, td)
      PROVE  JobExplained(r)' /\ reply'[r].td = td
  BY <1>0, <1>2 DEF Finish, JobExplained
<1>3. ASSUME UNCHANGED <<db, events>>, JobExplained(r)',
             reply'[r] # None => reply[r] = reply'[r] \/ reply'[r].td = None \/ Announced(reply'[r].td)
      PROVE  ExplainedInv'
  <2>1. EventsExplainVersions'
    BY <1>0, <1>3, RequestFrame DEF ExplainedInv, EventsExplainVersions, Announced
  <2> QED BY <1>1, <1>3, <2>1 DEF ExplainedInv
<1>4. ASSUME NEW step, NEW n, Access(r, step, n),
             step \in {"updateHas", "updatePut", "deleteHas", "deleteDo"} =>
                 n.old # None /\ Announced(n.old),
             step = "updatePut" => n.doc.created = n.old.created
      PROVE  ExplainedInv'
  <2>1. JobExplained(r)' /\ UNCHANGED <<db, events, reply>>
    BY <1>0, <1>4 DEF Access, JobExplained, Announced
  <2> QED BY <1>3, <2>1
<1>5. ASSUME NEW op, NEW k, NEW status, Refuse(r, op, k, status) PROVE ExplainedInv'
  BY <1>2, <1>3, <1>5 DEF Refuse
<1>6. CASE Start(r)
  <2>1. CASE Answered(r)
    <3>1. UNCHANGED <<db, events>> BY <1>6, StartShape
    <3>2. PICK op \in Methods, k \in Optional(Ids), status \in Statuses, td \in Optional(TD) :
            Finish(r, op, k, status, td) /\ (td # None => \E i \in Ids : td = db[i])
      BY <2>1 DEF Answered
    <3>3. td = None \/ Announced(td)
      BY <3>2 DEF ExplainedInv, EventsExplainVersions
    <3> QED BY <1>2, <1>3, <3>1, <3>2, <3>3
  <2>2. ASSUME NEW step \in {"addHas", "updateHas", "deleteHas"}, NEW n \in Job, Took(r, step, n)
        PROVE  ExplainedInv'
    <3>1. step \in {"updateHas", "deleteHas"} => n.old # None /\ Announced(n.old)
      BY <2>2 DEF Took, ExplainedInv, EventsExplainVersions, Job
    <3>2. Access(r, step, n) BY <2>2 DEF Took
    <3> QED BY <1>4, <3>1, <3>2
  <2> QED BY <1>6, <2>1, <2>2, StartShape
<1>7. CASE StorageError(r)
  BY <1>5, <1>7 DEF StorageError
<1>8. CASE AddHas(r)
  BY <1>4, <1>5, <1>8 DEF AddHas
<1>9. CASE UpdateHas(r)
  <2>1. CASE Access(r, "updatePut", [j EXCEPT !.doc = Registered(@, j.old.created, now)])
    <3> DEFINE n == [j EXCEPT !.doc = Registered(@, j.old.created, now)]
    <3>1. j \in Job /\ j.doc \in TD /\ j.old # None /\ Announced(j.old)
      BY <1>9 DEF UpdateHas, Continue, Steps, TypeInv, JobTyped, Job, ExplainedInv, JobExplained
    <3>2. Registered(j.doc, j.old.created, now).created = j.old.created
      BY <3>1 DEF Registered, TD
    <3>3. n.doc = Registered(j.doc, j.old.created, now) /\ n.old = j.old BY <3>1 DEF Job
    <3>4. n.old # None /\ Announced(n.old) /\ n.doc.created = n.old.created
      BY <3>1, <3>2, <3>3
    <3> HIDE DEF j, n
    <3> QED BY <1>4, <2>1, <3>4 DEF n
  <2> QED BY <1>4, <1>5, <1>9, <2>1 DEF UpdateHas
<1>10. CASE DeleteHas(r)
  <2>1. j.old # None /\ Announced(j.old)
    BY <1>10 DEF DeleteHas, Continue, ExplainedInv, JobExplained
  <2> HIDE DEF j
  <2> QED BY <1>4, <1>5, <1>10, <2>1 DEF DeleteHas, j
<1>11. ASSUME NEW type \in {"create", "update", "delete"}, NEW old, NEW td,
              Publish(r, type, old, td), pc[r] \in Steps,
              db' = [db EXCEPT ![j.key] = td],
              old # None => Announced(old),
              type = "update" => td.created = old.created,
              NEW op, NEW k, NEW status, Finish(r, op, k, status, None)
       PROVE  ExplainedInv'
  <2> DEFINE e == [req |-> r, type |-> type, old |-> old, td |-> td]
  <2>1. events' = events \cup {e} BY <1>11 DEF Publish
  <2>2. e.td = td /\ e.old = old /\ e.type = type OBVIOUS
  <2>3. Announced(td)' BY <2>1, <2>2 DEF Announced
  <2>4. \A x : Announced(x) => Announced(x)' BY <2>1 DEF Announced
  <2>0. db'[j.key] = td /\ \A i \in Ids \ {j.key} : db'[i] = db[i] BY <1>11, WriteEffect
  <2>5. \A i \in Ids : db'[i] # None => Announced(db[i])'
    <3> SUFFICES ASSUME NEW i \in Ids, db'[i] # None PROVE Announced(db[i])' OBVIOUS
    <3>1. CASE i = j.key
      <4>1. db'[i] = td BY <2>0, <3>1
      <4> QED BY <2>1, <2>2, <4>1 DEF Announced
    <3>2. CASE i # j.key
      <4>1. db'[i] = db[i] BY <2>0, <3>2
      <4>2. Announced(db[i]) BY <4>1 DEF ExplainedInv, EventsExplainVersions
      <4> QED BY <2>1, <4>1, <4>2 DEF Announced
    <3> QED BY <3>1, <3>2
  <2>6. \A q \in Requests : (reply'[q] # None /\ reply'[q].td # None) => Announced(reply[q].td)'
    <3> SUFFICES ASSUME NEW q \in Requests, reply'[q] # None, reply'[q].td # None
                 PROVE  Announced(reply[q].td)'
      OBVIOUS
    <3>1. q # r BY <1>2, <1>11
    <3>2. reply'[q] = reply[q] BY <3>1, RequestFrame
    <3>3. Announced(reply[q].td) BY <3>2 DEF ExplainedInv, EventsExplainVersions
    <3> QED BY <2>1, <3>2, <3>3 DEF Announced
  <2>7. \A f \in events' : /\ f.old # None => Announced(f.old)'
                           /\ f.type = "update" => f.td.created = f.old.created
    <3> HIDE DEF e
    <3> QED BY <1>11, <2>1, <2>2, <2>4 DEF ExplainedInv, EventsExplainVersions
  <2>8. EventsExplainVersions' BY <2>5, <2>6, <2>7 DEF EventsExplainVersions
  <2> QED BY <1>1, <1>2, <1>11, <2>1, <2>8 DEF ExplainedInv
<1>12. CASE AddPut(r)
  BY <1>11, <1>12 DEF AddPut, Continue, Steps
<1>13. CASE UpdatePut(r)
  <2>1. j.old # None /\ Announced(j.old) /\ j.doc.created = j.old.created
    BY <1>13 DEF UpdatePut, Continue, ExplainedInv, JobExplained
  <2> QED BY <1>11, <1>13, <2>1 DEF UpdatePut, Continue, Steps
<1>14. CASE DeleteDo(r)
  <2>1. j.old # None /\ Announced(j.old)
    BY <1>14 DEF DeleteDo, Continue, ExplainedInv, JobExplained
  <2> QED BY <1>11, <1>14, <2>1 DEF DeleteDo, Continue, Steps
<1> QED BY <1>6, <1>7, <1>8, <1>9, <1>10, <1>12, <1>13, <1>14 DEF Handle

LEMMA ExplainedInvariant == Spec => []ExplainedInv
<1>1. Init => ExplainedInv
  BY DEF Init, ExplainedInv, EventsExplainVersions, JobExplained
<1>2. TypeInv /\ ExplainedInv /\ [Next]_vars => ExplainedInv'
  <2> SUFFICES ASSUME TypeInv, ExplainedInv, [Next]_vars PROVE ExplainedInv' OBVIOUS
  <2>1. CASE UNCHANGED vars
    BY <2>1 DEF vars, requestVars, ExplainedInv, EventsExplainVersions, JobExplained, Announced
  <2>2. CASE Cleaner \/ Advance \/ TickerFire
    <3>1. UNCHANGED <<pc, job, reply, events>> /\ \A k \in Ids : db'[k] = db[k] \/ db'[k] = None
      BY <2>2, BackgroundFrame DEF requestVars
    <3>2. EventsExplainVersions'
      BY <3>1 DEF ExplainedInv, EventsExplainVersions, Announced
    <3>3. \A r \in Requests : JobExplained(r)'
      BY <3>1 DEF ExplainedInv, JobExplained, Announced
    <3> QED BY <3>2, <3>3 DEF ExplainedInv
  <2> QED BY <2>1, <2>2, ExplainedRequest DEF Next
<1> QED BY <1>1, <1>2, TypeInvariant, PTL DEF Spec

(* Every version that is stored, was returned by a GET or is shown as old by *)
(* an event was announced as new by an earlier event, and updates keep the   *)
(* creation time, for any number of concurrent requests (the listener calls  *)
(* of add, update, patch and delete).                                        *)
THEOREM VersionsExplained == Spec => []EventsExplainVersions
<1>1. ExplainedInv => EventsExplainVersions BY DEF ExplainedInv
<1> QED BY <1>1, ExplainedInvariant, PTL

---------------------------------------------------------------------------
(* Keys and ids                                                            *)

(* The strengthening: a document on its way to the storage carries the id it *)
(* will be stored under.                                                     *)
JobKeyed(r) ==
    pc[r] \in {"addHas", "addPut", "updateHas", "updatePut"} => job[r].doc.id = job[r].key
KeyedInv == KeyMatchesBody /\ \A r \in Requests : JobKeyed(r)

LEMMA KeyedRequest ==
    ASSUME TypeInv, KeyedInv, PatchesKeepIds,
           NEW r \in Requests, Start(r) \/ Handle(r) \/ StorageError(r)
    PROVE  KeyedInv'
<1> DEFINE j == job[r]
<1>0. /\ db \in [Ids -> Optional(TD)] /\ pc \in [Requests -> {"ready", "done"} \cup Steps]
      /\ job \in [Requests -> Optional(Job)]
      /\ pc[r] \in Steps => j \in Job /\ j.doc \in TD
  BY DEF TypeInv, TypeOK, JobTyped, Job
<1>1. ASSUME JobKeyed(r)', UNCHANGED db PROVE KeyedInv'
  BY <1>0, <1>1, RequestFrame DEF KeyedInv, KeyMatchesBody, JobKeyed
<1>2. ASSUME NEW op, NEW k, NEW status, NEW td, Finish(r, op, k, status, td) PROVE JobKeyed(r)'
  BY <1>0, <1>2 DEF Finish, JobKeyed
<1>3. ASSUME NEW op, NEW k, NEW status, Refuse(r, op, k, status) PROVE KeyedInv'
  BY <1>1, <1>2, <1>3 DEF Refuse
<1>4. ASSUME NEW step, NEW n, Access(r, step, n),
             step \in {"addHas", "addPut", "updateHas", "updatePut"} => n.doc.id = n.key
      PROVE  KeyedInv'
  BY <1>0, <1>1, <1>4 DEF Access, JobKeyed
<1>5. CASE Start(r)
  <2>1. CASE Answered(r)
    BY <1>1, <1>2, <1>5, <2>1, StartShape DEF Answered
  <2>2. ASSUME NEW step \in {"addHas", "updateHas", "deleteHas"}, NEW n \in Job, Took(r, step, n)
        PROVE  KeyedInv'
    <3>1. step = "updateHas" => n.doc.id = n.key
      <4>1. SUFFICES ASSUME step = "updateHas" PROVE n.doc.id = n.key OBVIOUS
      <4>2. n.old.id = n.key BY <2>2, <4>1 DEF Took, KeyedInv, KeyMatchesBody, Job
      <4> QED BY <2>2, <4>1, <4>2 DEF Took, PatchesKeepIds, Merged
    <3>2. Access(r, step, n) /\ (step = "addHas" => n.doc.id = n.key) BY <2>2 DEF Took
    <3> QED BY <1>4, <3>1, <3>2
  <2> QED BY <1>5, <2>1, <2>2, StartShape
<1>6. CASE StorageError(r)
  BY <1>3, <1>6 DEF StorageError
<1>7. ASSUME NEW doc \in TD, NEW created, NEW t
      PROVE  Registered(doc, created, t).id = doc.id /\ WithoutRegistration(doc).id = doc.id
  BY DEF Registered, WithoutRegistration, TD
<1>8. ASSUME NEW step \in Steps, NEW doc, pc[r] \in {"addHas", "updateHas"}, doc.id = j.doc.id,
             Access(r, step, [j EXCEPT !.doc = doc])
      PROVE  KeyedInv'
  <2> DEFINE n == [j EXCEPT !.doc = doc]
  <2>1. n.doc = doc /\ n.key = j.key BY <1>0, <1>8 DEF Job, Steps
  <2>2. n.doc.id = n.key BY <1>8, <2>1 DEF KeyedInv, JobKeyed
  <2> HIDE DEF j, n
  <2> QED BY <1>4, <1>8, <2>2 DEF n
<1>9. CASE AddHas(r)
  BY <1>0, <1>3, <1>7, <1>8, <1>9 DEF AddHas, Continue, Steps
<1>10. CASE UpdateHas(r)
  BY <1>0, <1>3, <1>7, <1>8, <1>10 DEF UpdateHas, Continue, Steps
<1>11. CASE DeleteHas(r)
  BY <1>3, <1>4, <1>11 DEF DeleteHas
<1>12. ASSUME NEW td, td # None => td.id = j.key, pc[r] \in Steps, db' = [db EXCEPT ![j.key] = td],
              NEW op, NEW k, NEW status, Finish(r, op, k, status, None)
       PROVE  KeyedInv'
  <2>1. KeyMatchesBody'
    BY <1>0, <1>12, WriteEffect DEF KeyedInv, KeyMatchesBody
  <2>2. \A q \in Requests : JobKeyed(q)'
    BY <1>2, <1>12, RequestFrame DEF KeyedInv, JobKeyed
  <2> QED BY <2>1, <2>2 DEF KeyedInv
<1>13. CASE AddPut(r)
  BY <1>12, <1>13 DEF AddPut, Continue, Steps, KeyedInv, JobKeyed
<1>14. CASE UpdatePut(r)
  BY <1>12, <1>14 DEF UpdatePut, Continue, Steps, KeyedInv, JobKeyed
<1>15. CASE DeleteDo(r)
  BY <1>12, <1>15 DEF DeleteDo, Continue, Steps
<1> QED BY <1>5, <1>6, <1>9, <1>10, <1>11, <1>13, <1>14, <1>15 DEF Handle

LEMMA KeyedStep ==
    ASSUME PatchesKeepIds, TypeInv, KeyedInv, [Next]_vars
    PROVE  KeyedInv'
<1>1. CASE UNCHANGED vars
  BY <1>1 DEF vars, requestVars, KeyedInv, KeyMatchesBody, JobKeyed
<1>2. CASE Cleaner \/ Advance \/ TickerFire
  BY <1>2, BackgroundFrame DEF requestVars, KeyedInv, KeyMatchesBody, JobKeyed
<1> QED BY <1>1, <1>2, KeyedRequest DEF Next

LEMMA KeyedInit == Init => KeyedInv
BY DEF Init, KeyedInv, KeyMatchesBody, JobKeyed

(* As long as patches leave the id alone, every TD is stored under its own   *)
(* id, however requests and the cleaner interleave: the checks of Post and   *)
(* Put, newURN and MergePatch suffice, and only Patch's check is missing.    *)
THEOREM KeysMatchBodies ==
    ASSUME PatchesKeepIds
    PROVE  Spec => []KeyMatchesBody
<1>1. TypeInv /\ KeyedInv /\ [Next]_vars => KeyedInv'
  BY KeyedStep
<1>2. KeyedInv => KeyMatchesBody BY DEF KeyedInv
<1> QED BY <1>1, <1>2, KeyedInit, TypeInvariant, PTL DEF Spec

---------------------------------------------------------------------------
(* What the cleaner may remove                                             *)

(* What the list names has expired in an announced version, whatever became  *)
(* of the entry; and a request has announced nothing before its last step,   *)
(* so that a delete by a request is never silent.                            *)
ListedInv ==
    /\ tick # None => tick <= now
    /\ \A e \in todo : e[2] # None => AnnouncedAndExpired(e[2])
    /\ \A e \in events : pc[e.req] = "done"

LEMMA ListedRequest ==
    ASSUME TypeInv, ListedInv, NEW r \in Requests, Start(r) \/ Handle(r) \/ StorageError(r)
    PROVE  /\ ListedInv'
           /\ \A k \in Ids : ~SilentlyRemoved(k)
<1>0. /\ UNCHANGED <<now, tick, todo>> /\ pc \in [Requests -> {"ready", "done"} \cup Steps]
      /\ \A q \in Requests \ {r} : pc'[q] = pc[q]
      /\ pc[r] # "done" /\ \A e \in events : e.req \in Requests
  <2>1. pc[r] # "done"
    BY StartShape DEF Handle, StorageError, Continue, AddHas, AddPut, UpdateHas, UpdatePut,
                      DeleteHas, DeleteDo, Steps
  <2> QED BY <2>1, RequestFrame DEF TypeInv, TypeOK, Event
<1>1. \A e \in events : e.req # r BY <1>0 DEF ListedInv
<1>2. ASSUME UNCHANGED <<db, events>> PROVE ListedInv' /\ \A k \in Ids : ~SilentlyRemoved(k)
  BY <1>0, <1>1, <1>2 DEF ListedInv, AnnouncedAndExpired, ExpiredAt, SilentlyRemoved
<1>3. ASSUME NEW op, NEW k, NEW status, NEW type, NEW old, NEW td,
             Finish(r, op, k, status, None), Publish(r, type, old, td)
      PROVE  ListedInv' /\ events' # events
  <2> DEFINE x == [req |-> r, type |-> type, old |-> old, td |-> td]
  <2>1. events' = events \cup {x} /\ x.req = r BY <1>3 DEF Publish
  <2>2. pc'[r] = "done" BY <1>0, <1>3 DEF Finish
  <2> HIDE DEF x
  <2>3. \A e \in events' : pc'[e.req] = "done" BY <1>0, <2>1, <2>2 DEF ListedInv
  <2>4. \A i : AnnouncedAndExpired(i) => AnnouncedAndExpired(i)'
    BY <1>0, <2>1 DEF AnnouncedAndExpired, ExpiredAt
  <2> QED BY <1>0, <1>1, <2>1, <2>3, <2>4 DEF ListedInv
<1>4. CASE Start(r) \/ StorageError(r)
  <2>1. UNCHANGED <<db, events>> BY <1>4, StartShape DEF StorageError, Refuse
  <2> QED BY <1>2, <2>1
<1>5. CASE AddHas(r) \/ UpdateHas(r) \/ DeleteHas(r)
  <2>1. UNCHANGED <<db, events>>
    BY <1>5 DEF AddHas, UpdateHas, DeleteHas, Refuse, Access
  <2> QED BY <1>2, <2>1
<1>6. CASE AddPut(r) \/ UpdatePut(r) \/ DeleteDo(r)
  BY <1>3, <1>6 DEF AddPut, UpdatePut, DeleteDo, SilentlyRemoved
<1> QED BY <1>4, <1>5, <1>6 DEF Handle

LEMMA ListedBackground ==
    ASSUME TypeInv, ExplainedInv, ListedInv, Cleaner \/ Advance \/ TickerFire
    PROVE  ListedInv' /\ RemovalsExplained
<1>0. /\ db \in [Ids -> Optional(TD)] /\ todo \subseteq Ids \X Optional(Ids)
      /\ now \in Nat /\ tick \in Optional(Nat) /\ events \subseteq Event
      /\ UNCHANGED <<pc, events>> /\ now' \in Nat /\ now <= now'
  BY BackgroundFrame, InputsAssumption DEF requestVars, TypeInv, TypeOK, Optional
<1>1. ASSUME NEW td \in TD, NEW t \in Int, NEW u \in Int, t <= u, ExpiredAt(td, t)
      PROVE  ExpiredAt(td, u)
  BY <1>1 DEF ExpiredAt, TD, Optional
<1>2. ASSUME NEW k, AnnouncedAndExpired(k) PROVE AnnouncedAndExpired(k)'
  <2>1. PICK e \in events : e.td # None /\ e.td.id = k /\ ExpiredAt(e.td, now)
    BY <1>2 DEF AnnouncedAndExpired
  <2>2. e.td \in TD BY <1>0, <2>1 DEF Event, Optional
  <2>3. ExpiredAt(e.td, now') BY <1>0, <1>1, <2>1, <2>2
  <2> QED BY <1>0, <2>1, <2>3 DEF AnnouncedAndExpired, ExpiredAt
<1>3. ASSUME tick' # None => tick' <= now',
             \A e \in todo' : e[2] # None => AnnouncedAndExpired(e[2])
      PROVE  ListedInv'
  BY <1>0, <1>2, <1>3 DEF ListedInv
<1>4. ASSUME UNCHANGED db PROVE RemovalsExplained
  BY <1>4 DEF RemovalsExplained, SilentlyRemoved
<1>5. CASE Advance
  <2>1. now' = now + 1 /\ UNCHANGED <<db, tick, todo>> BY <1>5 DEF Advance, cleanerVars
  <2>2. tick # None => tick \in Nat /\ tick <= now BY <1>0 DEF ListedInv, Optional
  <2>3. tick' # None => tick' <= now' BY <1>0, <2>1, <2>2
  <2> QED BY <1>3, <1>4, <2>1, <2>3 DEF ListedInv
<1>6. CASE TickerFire
  BY <1>0, <1>3, <1>4, <1>6 DEF TickerFire, ListedInv
<1>7. CASE CleanScan \/ CleanScanFails
  <2>1. /\ tick # None /\ tick' = None /\ UNCHANGED <<now, db>>
        /\ todo' \subseteq {<<k, db[k].id>> : k \in {i \in Ids : ExpiredAt(db[i], tick)}}
    BY <1>7 DEF CleanScan, CleanScanFails
  <2>2. ASSUME NEW e \in todo' PROVE AnnouncedAndExpired(e[2])
    <3>1. PICK k \in Ids : ExpiredAt(db[k], tick) /\ e[2] = db[k].id BY <2>1
    <3>2. db[k] \in TD /\ tick \in Nat /\ tick <= now
      BY <1>0, <2>1, <3>1 DEF ExpiredAt, ListedInv, Optional
    <3>3. ExpiredAt(db[k], now) BY <1>0, <1>1, <3>1, <3>2
    <3>4. Announced(db[k]) BY <3>1 DEF ExpiredAt, ExplainedInv, EventsExplainVersions
    <3> QED BY <3>1, <3>3, <3>4 DEF Announced, AnnouncedAndExpired, ExpiredAt
  <2> QED BY <1>3, <1>4, <2>1, <2>2
<1>8. ASSUME NEW e \in todo, CleanHas(e) \/ CleanError(e) PROVE ListedInv' /\ RemovalsExplained
  BY <1>0, <1>3, <1>4, <1>8 DEF CleanHas, CleanError, ListedInv
<1>9. ASSUME NEW e \in todo, CleanDelete(e) PROVE ListedInv' /\ RemovalsExplained
  <2>1. todo' \subseteq todo /\ UNCHANGED <<now, tick>> BY <1>9 DEF CleanDelete
  <2>2. \A k \in Ids : db'[k] # db[k] => k = e[2] BY <1>0, <1>9 DEF CleanDelete
  <2>3. RemovalsExplained
    BY <2>2, SentinelsAssumption, IdsAssumption DEF RemovalsExplained, SilentlyRemoved, ListedInv
  <2> QED BY <1>0, <1>3, <2>1, <2>3 DEF ListedInv
<1> QED BY <1>5, <1>6, <1>7, <1>8, <1>9 DEF Cleaner

(* Whatever requests do between the cleaner's scan and its deletes, also     *)
(* updates, renewals and patches of the id, it removes nothing under an id   *)
(* of which no announced version had expired (cleanExpired).                 *)
THEOREM RemovalsHadExpired == Spec => RemovedWasExpired
<1>1. Init => ListedInv BY DEF Init, ListedInv
<1>2. TypeInv /\ ExplainedInv /\ ListedInv /\ [Next]_vars => ListedInv' /\ [RemovalsExplained]_vars
  <2> SUFFICES ASSUME TypeInv, ExplainedInv, ListedInv, [Next]_vars
               PROVE  ListedInv' /\ [RemovalsExplained]_vars
    OBVIOUS
  <2>1. CASE UNCHANGED vars
    BY <2>1 DEF vars, requestVars, cleanerVars, ListedInv, AnnouncedAndExpired, ExpiredAt
  <2> QED BY <2>1, ListedRequest, ListedBackground DEF Next, RemovalsExplained
<1> QED BY <1>1, <1>2, TypeInvariant, ExplainedInvariant, PTL DEF Spec, RemovedWasExpired
=============================================================================
