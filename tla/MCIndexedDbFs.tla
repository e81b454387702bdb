---------------------------- MODULE MCIndexedDbFs ----------------------------
(* Two calls over a tree with two names in the root and two below each.      *)
EXTENDS IndexedDbFs, TLC

CONSTANTS c1, c2, a, b, x, y

Renamings == Permutations({a, b}) \cup Permutations({x, y}) \cup Permutations({c1, c2})
=============================================================================
