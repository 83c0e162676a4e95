----------------------------- MODULE PathThrough -----------------------------
(***************************************************************************)
(* examples_disabled/path_through.rs: the same table with the path in the  *)
(* place of the source id.  There is a file at a path or not; an id stands *)
(* for the path, whatever file is there.  Of requests that change the      *)
(* directory it has none.                                                  *)
(***************************************************************************)
EXTENDS NodeTable

VARIABLE
    there   \* the paths with a file

pathVars == <<tvars, there>>

PathTypeOK == TTypeOK /\ there \subseteq Keys

PathInit == TInit /\ there = {}

\* Someone else uses the directory.
PathHost ==
    /\ there' \in SUBSET Keys
    /\ UNCHANGED tvars

path_lookup(p) == p \in there /\ Refers(p) /\ UNCHANGED there

path_forget(i, n) == Forgets(i, n) /\ UNCHANGED there

PathNext ==
    \/ PathHost
    \/ \E p \in Keys : path_lookup(p)
    \/ \E i \in Inos :
         \/ KernelStep(i) /\ UNCHANGED there
         \/ \E n \in 1 .. forgets[i] : path_forget(i, n)

PathSpec == PathInit /\ [][PathNext]_pathVars

============================================================================
