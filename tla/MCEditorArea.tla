----------------------------- MODULE MCEditorArea -----------------------------
(* A page opened on one project of an earlier visit, which is restored. *)
EXTENDS EditorArea, TLC

CONSTANTS w1, w2, main, other

OneKept == <<w1>>
Paths == Permutations(Path)
============================================================================
