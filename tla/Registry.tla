------------------------------ MODULE Registry ------------------------------
(* What the catalog promises to its clients and listeners: every request     *)
(* takes effect in one step, and an entry only disappears because a client   *)
(* deleted it or because it had expired.  Catalog implements this module as  *)
(* long as no two activities work on one id (CatalogAtomic).                 *)
EXTENDS Integers

CONSTANTS Ids, Contents, Requests, Patches, MaxTTL, None, Keep

VARIABLES
    now,     \* the clock
    store,   \* id -> TD, or None
    events,  \* what the listeners have been told
    reply    \* request -> response, or None while it has none

vars == <<now, store, events, reply>>

Init ==
    /\ now = 0
    /\ store = [k \in Ids |-> None]
    /\ events = {}
    /\ reply = [r \in Requests |-> None]

(* What a client may rely on in an entry that has just been written: it has  *)
(* its own id, stamps of the present or the past, and the expiry its TTL     *)
(* implies, if that is no longer than any Duration.                          *)
WellRegistered(k, td) ==
    /\ td.id = k
    /\ td.content \in Contents
    /\ td.created <= td.modified /\ td.modified <= now
    /\ (td.ttl # None /\ td.ttl \in -MaxTTL..MaxTTL) => td.expires = td.modified + td.ttl

Answer(r, op, k, status, td) ==
    /\ reply[r] = None
    /\ reply' = [reply EXCEPT ![r] = [op |-> op, key |-> k, status |-> status, td |-> td]]

Tell(r, type, old, td) ==
    events' = events \cup {[req |-> r, type |-> type, old |-> old, td |-> td]}

(* POST, or PUT of an unknown id: a new entry, stamped once.                 *)
Create(r, k) ==
    LET td == store'[k] IN
    /\ store[k] = None
    /\ td # None /\ WellRegistered(k, td) /\ td.created = td.modified
    /\ store' = [store EXCEPT ![k] = td]
    /\ Tell(r, "create", None, td)
    /\ \E op \in {"POST", "PUT"} : Answer(r, op, k, 201, None)

(* The entry that is there, and the one the listeners are shown as old, is   *)
(* the one replaced; it keeps its creation time.                             *)
Overwrite(r, op, k) ==
    LET td == store'[k] IN
    /\ store[k] # None
    /\ td # None /\ WellRegistered(k, td) /\ td.created = store[k].created
    /\ store' = [store EXCEPT ![k] = td]
    /\ Tell(r, "update", store[k], td)
    /\ Answer(r, op, k, 204, None)

Replace(r, k) == Overwrite(r, "PUT", k)

(* PATCH: what the patch does not mention is as it was.                      *)
Amend(r, k) ==
    /\ Overwrite(r, "PATCH", k)
    /\ \E p \in Patches :
          /\ store'[k].content = IF p.content = Keep THEN store[k].content ELSE p.content
          /\ store'[k].ttl = IF p.ttl = Keep THEN store[k].ttl ELSE p.ttl

Remove(r, k) ==
    /\ store[k] # None
    /\ store' = [store EXCEPT ![k] = None]
    /\ Tell(r, "delete", store[k], None)
    /\ Answer(r, "DELETE", k, 204, None)

Read(r, k) ==
    /\ Answer(r, "GET", k, IF store[k] = None THEN 404 ELSE 200, store[k])
    /\ UNCHANGED <<store, events>>

(* A refusal changes nothing, and 404 and 409 tell the truth.                *)
Refuse(r) ==
    /\ \E op \in {"POST", "PUT", "PATCH", "DELETE", "GET"},
          k \in Ids \cup {None}, status \in {400, 404, 409, 500} :
          /\ Answer(r, op, k, status, None)
          /\ status = 404 => store[k] = None
          /\ status = 409 => store[k] # None
    /\ UNCHANGED <<store, events>>

Expire(k) ==
    /\ store[k] # None /\ store[k].expires # None /\ store[k].expires < now
    /\ store' = [store EXCEPT ![k] = None]
    /\ UNCHANGED <<events, reply>>

Tick == now' = now + 1 /\ UNCHANGED <<store, events, reply>>

Request(r, k) ==
    \/ Create(r, k) \/ Replace(r, k) \/ Amend(r, k) \/ Remove(r, k) \/ Read(r, k)

Next ==
    \/ /\ UNCHANGED now
       /\ \/ \E r \in Requests : Refuse(r) \/ \E k \in Ids : Request(r, k)
          \/ \E k \in Ids : Expire(k)
    \/ Tick

Spec == Init /\ [][Next]_vars
=============================================================================
