--------------------------- MODULE MCFriendManage ---------------------------
(* Two accounts on one device, which are interchangeable, and one friend,  *)
(* who has asked one of them.                                              *)
EXTENDS FriendManage, TLC

MCBefore ==
    {[u \in Users |->
         [k \in Kinds |-> IF u = v /\ k = "received" THEN People ELSE {}]] :
        v \in Users}

UserSymmetry == Permutations(Users)
=============================================================================
