------------------------------ MODULE NodeTable ------------------------------
(***************************************************************************)
(* The INodeTable of passthrough/main.rs and path_through.rs: inodes by    *)
(* number, and the number by what the file system tells files apart with   *)
(* (a source id, a path).  All of it is behind one mutex.                  *)
(***************************************************************************)
EXTENDS HostFiles

VARIABLES
    map,         \* INodeTable::map, without the root
    key_to_ino,  \* src_to_ino, path_to_ino
    next_ino

tvars == <<map, key_to_ino, next_ino, kvars>>

TTypeOK ==
    /\ KTypeOK
    /\ map \in [Inos -> INode \cup {None}]
    /\ key_to_ino \in [Keys -> Inos \cup {None}]
    /\ next_ino \in 2 .. MaxIno + 1

\* After new() the root has number 1.
TInit ==
    /\ KInit
    /\ map = [i \in Inos |-> None]
    /\ key_to_ino = [k \in Keys |-> None]
    /\ next_ino = 2

\* get_src, get_by_path_mut: i is what the index says, and still in the map.
get_src(k, i) == i \in Inos /\ key_to_ino[k] = i /\ map[i] # None

\* Mutant: the number is used again.
insert_Reuse(k) ==
    /\ next_ino <= MaxIno
    /\ map' = [map EXCEPT ![next_ino] = [key |-> k, refcount |-> 1]]
    /\ key_to_ino' = [key_to_ino EXCEPT ![k] = next_ino]
    /\ UNCHANGED next_ino

\* Mutant: an index entry that is there is kept.
insert_Keep(k) ==
    /\ next_ino <= MaxIno
    /\ map' = [map EXCEPT ![next_ino] = [key |-> k, refcount |-> 1]]
    /\ key_to_ino' = [key_to_ino EXCEPT ![k] = IF @ = None THEN next_ino ELSE @]
    /\ next_ino' = next_ino + 1

\* vacant_entry and VacantEntry::insert
insert(k) ==
    /\ next_ino <= MaxIno
    /\ map' = [map EXCEPT ![next_ino] = [key |-> k, refcount |-> 1]]
    /\ key_to_ino' = [key_to_ino EXCEPT ![k] = next_ino]
    /\ next_ino' = next_ino + 1

\* refcount += 1, and the entry is replied.
Counts(i) ==
    /\ map' = [map EXCEPT ![i].refcount = @ + 1]
    /\ Grants(i)
    /\ UNCHANGED <<key_to_ino, next_ino>>

\* A lookup that finds a file with key k: the inode it has, or a new one.
Refers(k) ==
    \/ \E i \in Inos : get_src(k, i) /\ Counts(i)
    \/ /\ \A i \in Inos : ~get_src(k, i)
       /\ insert(k)
       /\ Grants(next_ino)

\* forget: with the last reference the inode leaves the map; the index keeps it.
Forgets(i, n) ==
    /\ Returns(i, n)
    /\ map' = [map EXCEPT ![i] =
                 IF @ = None THEN None
                 ELSE LET left == IF @.refcount > n THEN @.refcount - n ELSE 0
                      IN IF left = 0 THEN None ELSE [@ EXCEPT !.refcount = left]]
    /\ UNCHANGED <<key_to_ino, next_ino>>

\* Steps of the kernel alone.
KernelStep(i) == (Takes(i) \/ Evicts(i)) /\ UNCHANGED <<map, key_to_ino, next_ino>>

----------------------------------------------------------------------------
(* Properties                                                              *)

\* The count of an inode in the map is what the kernel has or is about to get or to
\* give back, so that a FORGET never takes more than there is (saturating_sub never
\* saturates) and no number the kernel may use is missing from the map.
CountsAgree ==
    \A i \in Inos : Refs(i) = IF map[i] = None THEN 0 ELSE map[i].refcount

\* The index leads from the key of every inode in the map back to that inode: a file
\* never has two numbers at a time, although forget leaves stale entries behind.
IndexAgrees == \A i \in Inos : map[i] # None => key_to_ino[map[i].key] = i

\* The table agrees with the kernel and with itself, however lookups, forgets and
\* evictions overlap.
TableAgrees == CountsAgree /\ IndexAgrees

st == [i \in Inos |-> IF i >= next_ino THEN "free" ELSE IF map[i] # None THEN "live" ELSE "dead"]
refs == [i \in Inos |-> Refs(i)]

Ids == INSTANCE NodeIds

\* The table keeps the promise about node ids.
ImplementsNodeIds == Ids!Spec

============================================================================
