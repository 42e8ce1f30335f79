--------------------------- MODULE MCNotification ---------------------------
(* Instances of Notification for TLC.                                        *)
EXTENDS Notification, TLC

CONSTANTS c1, c2, c3, s1, s2

TwoCalls == {c1, c2}
ThreeCalls == {c1, c2, c3}
OneConn == {s1}
TwoConns == {s1, s2}
TwoTypes == {"create", "update"}
TypesOfTwo == c1 :> "create" @@ c2 :> "create"
TypesOfThree == c1 :> "create" @@ c2 :> "update" @@ c3 :> "create"
WantsOfOne == s1 :> {"create"}
WantsOfTwo == s1 :> TwoTypes @@ s2 :> {"create"}

(* With a lock in getNewID, and no subscriber accepted before its time.      *)
CalmSerialSpec == Init /\ [][Next /\ SerialIds' /\ CalmJoin]_vars
=============================================================================
