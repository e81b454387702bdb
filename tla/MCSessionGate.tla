---------------------------- MODULE MCSessionGate ----------------------------
(* Two accounts with a token each.  The first visits its own session and one *)
(* from before sign-in was required, the second the first's session.         *)
EXTENDS SessionGate, TLC

CONSTANTS v1, v2, v3, t1, t2, alice, bob, s1, old

MCAccountOf == t1 :> alice @@ t2 :> bob
MCOwnerOf == s1 :> alice @@ old :> Nobody
MCTokenOf == v1 :> t1 @@ v2 :> t1 @@ v3 :> t2
MCTargetOf == v1 :> s1 @@ v2 :> old @@ v3 :> s1
=============================================================================
