------------------------------- MODULE NodeIds -------------------------------
(***************************************************************************)
(* What a file system promises the kernel about node ids: an id is not     *)
(* known, then live, then dead.  The kernel may get any number of          *)
(* references to an id that is not dead, an id can only die with the last  *)
(* of them, and a dead id never comes back (every EntryOut of the examples *)
(* says generation 0).                                                     *)
(***************************************************************************)
EXTENDS Naturals

CONSTANT Inos

VARIABLES
    st,    \* of each id: "free", "live" or "dead"
    refs   \* the references to it that were handed out and not taken back

vars == <<st, refs>>

Init ==
    /\ st = [i \in Inos |-> "free"]
    /\ refs = [i \in Inos |-> 0]

\* An entry is answered to LOOKUP, MKNOD, LINK and so on.
Grant(i) ==
    /\ st[i] # "dead"
    /\ st' = [st EXCEPT ![i] = "live"]
    /\ refs' = [refs EXCEPT ![i] = @ + 1]

\* A FORGET takes back n references.
Forget(i, n) ==
    /\ n \in 1 .. refs[i]
    /\ refs' = [refs EXCEPT ![i] = @ - n]
    /\ \/ st' = st
       \/ n = refs[i] /\ st' = [st EXCEPT ![i] = "dead"]

Next == \E i \in Inos : Grant(i) \/ \E n \in 1 .. refs[i] : Forget(i, n)

Spec == Init /\ [][Next]_vars

============================================================================
