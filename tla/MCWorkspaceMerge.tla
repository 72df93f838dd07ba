-------------------------- MODULE MCWorkspaceMerge --------------------------
(***************************************************************************)
(* Small instances of WorkspaceMerge: a workspace of a documents           *)
(* repository and one or two others.                                       *)
(***************************************************************************)
EXTENDS WorkspaceMerge

CONSTANTS docs, code
=============================================================================
