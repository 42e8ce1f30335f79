---------------------------- MODULE CatalogAtomic ----------------------------
(* The catalog is the atomic Registry when activities on one id do not       *)
(* overlap, be they requests or the cleaner's removal.                       *)
EXTENDS Catalog

Working(r) == pc[r] \in Steps

Apart ==
    /\ \A q, r \in Requests : Working(q) /\ Working(r) /\ job[q].key = job[r].key => q = r
    /\ \A e \in todo, r \in Requests : Working(r) => job[r].key # e[1]

ApartSpec == Init /\ [][Next /\ Apart']_vars

R == INSTANCE Registry WITH store <- db

(* Every request takes effect in one step between its arrival and its        *)
(* response, the response and the event tell what that step did, and nothing *)
(* else changes the store except the removal of an expired entry (the whole  *)
(* of HTTPAPI, Controller and LevelDBStorage).                               *)
AtomicRegistry == R!Spec
=============================================================================
