---------------------------- MODULE MCDirectory ----------------------------
(* An instance of Directory for TLC.                                         *)
EXTENDS Directory, TLC

CONSTANTS r1, r2

TwoRequests == {r1, r2}
Symmetry == Permutations(Requests)
OneId == {1}
NoUrn == {}
TwoContents == {"a", "b"}
PutDelete == {"PUT", "DELETE"}
NoPatches == {}

B(name, content, ttl, expires) ==
    [form |-> "ok", id |-> name, content |-> content, ttl |-> ttl, expires |-> expires]
LeastDuration == -MaxTTL

(* A TD that has expired when it comes, and one with a TTL.                   *)
PastAndShort == {B(1, "a", None, -1), B(1, "b", 1, None)}

(* Behaviours are looked at until the mirror is disturbed, and beyond that   *)
(* as long as only the catalog is at work.                                   *)
OnlyCatalog ==
    (\A s \in Conns : conn[s] = "new") /\ \A c \in Calls : call[c] = "ready"
UndisturbedOrOnlyCatalog == calm \/ OnlyCatalog
=============================================================================
