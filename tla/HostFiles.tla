------------------------------ MODULE HostFiles ------------------------------
(***************************************************************************)
(* The inodes of passthrough/main.rs and path_through.rs: what stands for  *)
(* a file of the host, and the number of references to it.                 *)
(***************************************************************************)
EXTENDS Vfs

CONSTANT Keys   \* what tells files apart: the source ids, the paths

INode == [key : Keys, refcount : Nat]

ASSUME NoneAssumption ==
    None \notin Nat /\ None \notin Keys /\ None \notin INode /\ None \notin Keys \X Nat

============================================================================
