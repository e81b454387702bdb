--------------------------- MODULE MCAccountSignIn ---------------------------
(* Three sign-ins from two browsers and two GitHub accounts that have         *)
(* verified the address of an old account in different spellings, each as its *)
(* primary one.  The second has verified that of another old account too: it  *)
(* is never the address the callback takes.                                   *)
EXTENDS AccountSignIn, TLC

CONSTANTS s1, s2, s3, b1, b2, g1, g2, old, elder, addr, Addr, other

MCNormal == addr :> addr @@ Addr :> addr @@ other :> other
MCLegacyAddress == old :> addr @@ elder :> other
MCVerified == g1 :> {addr} @@ g2 :> {Addr, other}
MCPrimary == g1 :> addr @@ g2 :> Addr

Symmetric == Permutations({s1, s2, s3}) \cup Permutations({b1, b2})
=============================================================================
