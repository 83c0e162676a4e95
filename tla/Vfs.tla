--------------------------------- MODULE Vfs ---------------------------------
(***************************************************************************)
(* The kernel's count of the references it has to each node id of a file   *)
(* system.  A reference is granted by the reply that carries an entry,     *)
(* taken when the kernel handles that reply, given up when the inode is    *)
(* evicted, and comes back with a FORGET.  The root is never forgotten.    *)
(***************************************************************************)
EXTENDS Naturals

CONSTANTS
    None,
    MaxIno,   \* bound on the node ids
    MaxRefs   \* bound on the references to one id

ASSUME BoundsAssumption == MaxIno \in Nat \ {0} /\ MaxRefs \in Nat

VARIABLES
    knl,      \* fuse_inode::nlookup
    granted,  \* references in replies on the way
    forgets   \* references in FORGETs on the way

kvars == <<knl, granted, forgets>>

Root == 1
Inos == 2 .. MaxIno

Refs(i) == knl[i] + granted[i] + forgets[i]
Known(i) == i # Root => knl[i] > 0

KTypeOK == knl \in [Inos -> Nat] /\ granted \in [Inos -> Nat] /\ forgets \in [Inos -> Nat]

KInit ==
    /\ knl = [i \in Inos |-> 0]
    /\ granted = [i \in Inos |-> 0]
    /\ forgets = [i \in Inos |-> 0]

\* The file system replies with an entry for i.
Grants(i) ==
    /\ Refs(i) < MaxRefs
    /\ granted' = [granted EXCEPT ![i] = @ + 1]
    /\ UNCHANGED <<knl, forgets>>

\* The process that waited gets the entry.
Takes(i) ==
    /\ granted[i] > 0
    /\ granted' = [granted EXCEPT ![i] = @ - 1]
    /\ knl' = [knl EXCEPT ![i] = @ + 1]
    /\ UNCHANGED forgets

\* The inode is evicted; a reply on the way is no obstacle.
Evicts(i) ==
    /\ knl[i] > 0
    /\ forgets' = [forgets EXCEPT ![i] = @ + knl[i]]
    /\ knl' = [knl EXCEPT ![i] = 0]
    /\ UNCHANGED granted

\* The file system receives a FORGET, with what one or several evictions gave up.
Returns(i, n) ==
    /\ n \in 1 .. forgets[i]
    /\ forgets' = [forgets EXCEPT ![i] = @ - n]
    /\ UNCHANGED <<knl, granted>>

============================================================================
