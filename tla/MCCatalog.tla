----------------------------- MODULE MCCatalog -----------------------------
(* Instances of Catalog for TLC, and the properties they check.              *)
EXTENDS Catalog, FiniteSets, TLC

CONSTANTS r1, r2, r3

TwoRequests == {r1, r2}
ThreeRequests == {r1, r2, r3}
Symmetry == Permutations(Requests)

AllMethods == Methods
AllButGet == Methods \ {"GET"}
PutOnly == {"PUT"}
PutPatch == {"PUT", "PATCH"}

(* Keys: 1 is chosen by a client, 2 (and 3) by newURN.                       *)
OneId == {1}
TwoIds == {1, 2}
NoUrn == {}
Urn2 == {2}
OneContent == {"a"}
TwoContents == {"a", "b"}

B(form, id, content, ttl, expires) ==
    [form |-> form, id |-> id, content |-> content, ttl |-> ttl, expires |-> expires]

(* On amd64.                                                                 *)
LeastDuration == -MaxTTL

(* A POST with a TTL too long, PUTs with a TTL and without, and one invalid. *)
MixedBodies == {B("ok", None, "a", 2, None), B("ok", 1, "a", 1, 3),
                B("ok", 1, "b", None, None), B("invalid", 1, "a", None, None)}
(* POSTs that will expire, by TTL or by date.                                *)
PostBodies == {B("ok", None, "a", 1, None), B("ok", None, "a", None, 1)}
TTLBody == {B("ok", 1, "a", 1, None)}
RenewalBodies == {B("ok", 1, "a", 1, None), B("ok", 1, "a", None, None)}
CleanerBodies == PostBodies \cup RenewalBodies
ExpiredBodies == {B("ok", 1, "a", None, 0), B("ok", 2, "a", None, 0)}
TwoPermanentBodies == {B("ok", 1, "a", None, None), B("ok", 1, "b", None, None)}

ContentPatch == B("ok", Keep, "b", Keep, Keep)
PermanentPatch == B("ok", Keep, Keep, None, Keep)
NoIdPatch == B("ok", None, Keep, Keep, Keep)
OtherIdPatch == B("ok", 2, Keep, Keep, Keep)

NoPatches == {}
CleanerPatches == {PermanentPatch}
KeepingPatches == {ContentPatch, PermanentPatch, B("ok", EmptyId, "b", Keep, Keep)}
MixedPatches == {ContentPatch, NoIdPatch, OtherIdPatch,
                 B("badtime", EmptyId, "b", Keep, Keep), B("badtime", Keep, "b", Keep, Keep)}
NoIdPatches == {NoIdPatch}
=============================================================================
