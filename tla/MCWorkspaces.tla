----------------------------- MODULE MCWorkspaces -----------------------------
(* A local folder and a browser project, both of earlier visits. *)
EXTENDS Workspaces

CONSTANTS w1, w2

FolderLast == <<w1, w2>>
============================================================================
