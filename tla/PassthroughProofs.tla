-------------------------- MODULE PassthroughProofs --------------------------
(***************************************************************************)
(* The inode table of passthrough and path_through keeps its counts and    *)
(* its index, and implements NodeIds, for any numbers, keys and bounds;    *)
(* and the files and handles of passthrough, for any host directory.       *)
(***************************************************************************)
EXTENDS Passthrough, PathThrough, TLAPS

----------------------------------------------------------------------------
(* The table                                                               *)

\* What a step may do to the table.
TableStep ==
    \/ \E k \in Keys : Refers(k)
    \/ \E i \in Inos : map[i] # None /\ Counts(i)
    \/ \E i \in Inos : \E n \in 1 .. forgets[i] : Forgets(i, n)
    \/ \E i \in Inos : KernelStep(i)

\* Numbers that were not given out are not in the map.
Vacant == \A i \in Inos : i >= next_ino => map[i] = None

TableInv == TTypeOK /\ CountsAgree /\ IndexAgrees /\ Vacant

----------------------------------------------------------------------------

\* The table is in order at the start.
LEMMA TableInit ==
    ASSUME TInit
    PROVE  TableInv /\ Ids!Init
<1>1. TTypeOK /\ Vacant
  BY BoundsAssumption DEF TInit, KInit, TTypeOK, KTypeOK, Vacant, Inos
<1>2. CountsAgree /\ IndexAgrees
  BY DEF TInit, KInit, CountsAgree, IndexAgrees, Refs
<1>3. st = [i \in Inos |-> "free"] /\ refs = [i \in Inos |-> 0]
  BY DEF TInit, KInit, st, refs, Refs, Inos
<1> QED
  BY <1>1, <1>2, <1>3 DEF TableInv, Ids!Init

\* A new inode under a key that no inode in the map has.
LEMMA InsertStep ==
    ASSUME TableInv, NEW k \in Keys, NEW j, j = next_ino,
           \A i \in Inos : ~get_src(k, i), insert(k), Grants(j)
    PROVE  TableInv' /\ j \in Inos /\ Ids!Grant(j)
<1>0. j \in Inos /\ j \in Nat /\ map[j] = None /\ Refs(j) = 0
  BY BoundsAssumption DEF TableInv, TTypeOK, Vacant, CountsAgree, insert, Inos
<1>1. TTypeOK'
  <2>1. KTypeOK'
    BY <1>0 DEF TableInv, TTypeOK, KTypeOK, Grants
  <2>2. map' \in [Inos -> INode \cup {None}]
    BY <1>0 DEF TableInv, TTypeOK, insert, INode
  <2>3. key_to_ino' \in [Keys -> Inos \cup {None}]
    BY <1>0 DEF TableInv, TTypeOK, insert
  <2>4. next_ino' \in 2 .. MaxIno + 1
    BY BoundsAssumption DEF TableInv, TTypeOK, insert
  <2> QED
    BY <2>1, <2>2, <2>3, <2>4 DEF TTypeOK
<1>2. /\ map'[j] = [key |-> k, refcount |-> 1] /\ map'[j] # None
      /\ \A i \in Inos \ {j} : map'[i] = map[i]
  BY <1>0, NoneAssumption DEF TableInv, TTypeOK, insert, INode
<1>3. Refs(j)' = 1 /\ \A i \in Inos \ {j} : Refs(i)' = Refs(i)
  BY <1>0 DEF TableInv, TTypeOK, KTypeOK, Grants, Refs
<1>4. CountsAgree'
  BY <1>2, <1>3 DEF TableInv, CountsAgree
<1>5. IndexAgrees'
  <2> SUFFICES ASSUME NEW i \in Inos, map'[i] # None
               PROVE  key_to_ino'[map'[i].key] = i
    BY DEF IndexAgrees
  <2>1. CASE i = j
    BY <2>1, <1>2 DEF TableInv, TTypeOK, insert
  <2>2. CASE i # j
    <3>1. map'[i] = map[i] /\ map[i].key \in Keys /\ key_to_ino[map[i].key] = i
      BY <2>2, <1>2 DEF TableInv, TTypeOK, IndexAgrees, INode
    <3>2. map[i].key # k
      BY <3>1 DEF get_src
    <3> QED
      BY <3>1, <3>2 DEF TableInv, TTypeOK, insert
  <2> QED
    BY <2>1, <2>2
<1>6. Vacant'
  BY <1>0, <1>2 DEF TableInv, TTypeOK, Vacant, insert, Inos
<1>7. st[j] # "dead" /\ st' = [st EXCEPT ![j] = "live"]
  <2>1. st[j] = "free" /\ st'[j] = "live"
    BY <1>0, <1>2 DEF st, insert
  <2>2. ASSUME NEW i \in Inos \ {j} PROVE st'[i] = st[i]
    <3>1. next_ino' = j + 1 /\ i \in Nat /\ j \in Nat
      BY <1>0 DEF insert, Inos
    <3>2. i >= next_ino' <=> i >= next_ino
      BY <3>1
    <3> QED
      BY <1>2, <3>2 DEF st
  <2>3. st = [i \in Inos |-> st[i]] /\ st' = [i \in Inos |-> st'[i]]
    BY DEF st
  <2> QED
    BY <2>1, <2>2, <2>3
<1>8. refs' = [refs EXCEPT ![j] = @ + 1]
  <2>1. Refs(j)' = Refs(j) + 1
    BY <1>0, <1>3
  <2> QED
    BY <2>1, <1>3 DEF refs
<1> QED
  BY <1>0, <1>1, <1>4, <1>5, <1>6, <1>7, <1>8 DEF TableInv, Ids!Grant

\* One more reference to an inode in the map.
LEMMA CountStep ==
    ASSUME TableInv, NEW j \in Inos, map[j] # None, Counts(j)
    PROVE  TableInv' /\ Ids!Grant(j)
<1>0. map[j] \in INode /\ j < next_ino
  BY DEF TableInv, TTypeOK, Vacant, Inos
<1>1. /\ map'[j] = [map[j] EXCEPT !.refcount = @ + 1] /\ map'[j] \in INode
      /\ \A i \in Inos \ {j} : map'[i] = map[i]
  BY <1>0 DEF TableInv, TTypeOK, Counts, INode
<1>2. TTypeOK'
  BY <1>0, <1>1 DEF TableInv, TTypeOK, KTypeOK, Counts, Grants, INode
<1>3. Refs(j)' = Refs(j) + 1 /\ \A i \in Inos \ {j} : Refs(i)' = Refs(i)
  BY DEF TableInv, TTypeOK, KTypeOK, Counts, Grants, Refs
<1>4. map'[j] # None /\ map'[j].refcount = map[j].refcount + 1 /\ map'[j].key = map[j].key
  BY <1>0, <1>1, NoneAssumption DEF INode
<1>5. CountsAgree'
  BY <1>1, <1>3, <1>4, Zenon DEF TableInv, CountsAgree
<1>6. IndexAgrees' /\ Vacant'
  BY <1>0, <1>1, <1>4 DEF TableInv, TTypeOK, IndexAgrees, Vacant, Counts, Inos
<1>7. st[j] = "live" /\ st' = st
  BY <1>0, <1>1, <1>4 DEF TableInv, TTypeOK, st, Counts, Inos
<1>8. refs' = [refs EXCEPT ![j] = @ + 1]
  BY <1>3, Zenon DEF refs
<1> QED
  BY <1>2, <1>5, <1>6, <1>7, <1>8 DEF TableInv, Ids!Grant, st

\* A FORGET that takes back references the kernel gave up.
LEMMA ForgetStep ==
    ASSUME TableInv, NEW j \in Inos, NEW n \in 1 .. forgets[j], Forgets(j, n)
    PROVE  TableInv' /\ n \in 1 .. refs[j] /\ Ids!Forget(j, n)
<1>0. /\ n \in Nat /\ n > 0 /\ n <= forgets[j]
      /\ knl[j] \in Nat /\ granted[j] \in Nat /\ forgets[j] \in Nat
  BY DEF TableInv, TTypeOK, KTypeOK
<1>1. Refs(j) \in Nat /\ n <= Refs(j) /\ Refs(j) - n \in Nat
  BY <1>0 DEF Refs
<1>2. Refs(j)' = Refs(j) - n /\ \A i \in Inos \ {j} : Refs(i)' = Refs(i)
  BY <1>0 DEF TableInv, TTypeOK, KTypeOK, Forgets, Returns, Refs
<1>3. map[j] # None /\ map[j] \in INode /\ map[j].refcount = Refs(j)
  BY <1>0, <1>1 DEF TableInv, TTypeOK, CountsAgree
<1>4. /\ Refs(j) - n = 0 => map'[j] = None
      /\ Refs(j) - n # 0 => map'[j] = [map[j] EXCEPT !.refcount = Refs(j) - n]
      /\ \A i \in Inos \ {j} : map'[i] = map[i]
      /\ map' \in [Inos -> INode \cup {None}]
  <2> DEFINE left == IF map[j].refcount > n THEN map[j].refcount - n ELSE 0
             new == IF left = 0 THEN None ELSE [map[j] EXCEPT !.refcount = left]
  <2>1. left = Refs(j) - n
    BY <1>0, <1>1, <1>3
  <2>2. map' = [map EXCEPT ![j] = new]
    BY <1>3 DEF Forgets
  <2>3. new \in INode \cup {None}
    BY <2>1, <1>1, <1>3 DEF INode
  <2> HIDE DEF new
  <2>4. map'[j] = new /\ (\A i \in Inos \ {j} : map'[i] = map[i]) /\ map' \in [Inos -> INode \cup {None}]
    BY <2>2, <2>3 DEF TableInv, TTypeOK
  <2> QED
    BY <2>1, <2>4 DEF new
<1>5. TTypeOK'
  BY <1>0, <1>4 DEF TableInv, TTypeOK, KTypeOK, Forgets, Returns
<1>6. map'[j] # None => /\ Refs(j) - n # 0
                       /\ map'[j].refcount = Refs(j) - n /\ map'[j].key = map[j].key
  BY <1>3, <1>4 DEF INode
<1>7. Refs(j) - n # 0 => map'[j] # None
  BY <1>1, <1>3, <1>4, NoneAssumption DEF INode
<1>8. CountsAgree'
  BY <1>1, <1>2, <1>4, <1>6, <1>7 DEF TableInv, CountsAgree
<1>9. IndexAgrees' /\ Vacant'
  BY <1>3, <1>4, <1>6 DEF TableInv, TTypeOK, IndexAgrees, Vacant, Forgets, Inos
<1>10. /\ j < next_ino /\ next_ino' = next_ino
       /\ map'[j] # None => st' = st
       /\ map'[j] = None => st' = [st EXCEPT ![j] = "dead"]
  <2>1. j < next_ino /\ next_ino' = next_ino
    BY <1>3 DEF TableInv, TTypeOK, Vacant, Forgets, Inos
  <2>2. \A i \in Inos \ {j} : st'[i] = st[i]
    BY <1>4, <2>1 DEF st
  <2>3. st[j] = "live" /\ st'[j] = IF map'[j] # None THEN "live" ELSE "dead"
    <3>1. ~(j >= next_ino)
      BY <2>1 DEF TableInv, TTypeOK, Inos
    <3> QED
      BY <1>3, <2>1, <3>1 DEF st
  <2>4. st = [i \in Inos |-> st[i]] /\ st' = [i \in Inos |-> st'[i]]
    BY DEF st
  <2> QED
    BY <2>1, <2>2, <2>3, <2>4
<1>11. refs[j] = Refs(j) /\ refs' = [refs EXCEPT ![j] = @ - n]
  BY <1>2, Zenon DEF refs
<1>12. n \in 1 .. refs[j] /\ (Refs(j) - n = 0 => n = refs[j])
  BY <1>0, <1>1, <1>11
<1> QED
  BY <1>5, <1>7, <1>8, <1>9, <1>10, <1>11, <1>12 DEF TableInv, Ids!Forget

\* The kernel moves references, and none is won or lost.
LEMMA KernelStepKeeps ==
    ASSUME TableInv, NEW j \in Inos, KernelStep(j)
    PROVE  TableInv' /\ UNCHANGED <<st, refs>>
<1>1. \A i \in Inos : Refs(i)' = Refs(i)
  BY DEF TableInv, TTypeOK, KTypeOK, KernelStep, Takes, Evicts, Refs
<1>2. TTypeOK'
  BY DEF TableInv, TTypeOK, KTypeOK, KernelStep, Takes, Evicts
<1>3. CountsAgree' /\ IndexAgrees' /\ Vacant'
  BY <1>1 DEF TableInv, CountsAgree, IndexAgrees, Vacant, KernelStep
<1>4. st' = st /\ refs' = refs
  BY <1>1 DEF st, refs, KernelStep
<1> QED
  BY <1>2, <1>3, <1>4 DEF TableInv

\* A step of the table keeps the invariant and is a step of NodeIds or none.
LEMMA TableStepKeeps ==
    ASSUME TableInv, TableStep \/ UNCHANGED tvars
    PROVE  TableInv' /\ [Ids!Next]_<<st, refs>>
<1>1. ASSUME NEW k \in Keys, Refers(k) PROVE TableInv' /\ Ids!Next
  <2>1. CASE \E i \in Inos : get_src(k, i) /\ Counts(i)
    BY <2>1, CountStep DEF get_src, Ids!Next
  <2>2. CASE ~ \E i \in Inos : get_src(k, i) /\ Counts(i)
    BY <1>1, <2>2, InsertStep DEF Refers, Ids!Next
  <2> QED
    BY <2>1, <2>2
<1>2. ASSUME NEW i \in Inos, map[i] # None, Counts(i) PROVE TableInv' /\ Ids!Next
  BY <1>2, CountStep DEF Ids!Next
<1>3. ASSUME NEW i \in Inos, NEW n \in 1 .. forgets[i], Forgets(i, n) PROVE TableInv' /\ Ids!Next
  BY <1>3, ForgetStep DEF Ids!Next
<1>4. ASSUME NEW i \in Inos, KernelStep(i) PROVE TableInv' /\ UNCHANGED <<st, refs>>
  BY <1>4, KernelStepKeeps
<1>5. CASE UNCHANGED tvars
  <2>1. \A i \in Inos : Refs(i)' = Refs(i)
    BY <1>5 DEF tvars, kvars, Refs
  <2>2. TableInv'
    BY <1>5, <2>1, Zenon DEF TableInv, TTypeOK, KTypeOK, CountsAgree, IndexAgrees, Vacant, tvars, kvars
  <2> QED
    BY <1>5, <2>1, <2>2 DEF st, refs, tvars
<1> QED
  BY <1>1, <1>2, <1>3, <1>4, <1>5 DEF TableStep

\* An inode keeps its key.
LEMMA KeysStay ==
    ASSUME TableInv, TableStep \/ UNCHANGED tvars
    PROVE  \A i \in Inos : map[i] # None /\ map'[i] # None => map'[i].key = map[i].key
<1>1. ASSUME NEW j \in Inos, map[j] # None, Counts(j)
      PROVE  \A i \in Inos : map[i] # None => map'[i].key = map[i].key
  BY <1>1 DEF TableInv, TTypeOK, Counts, INode
<1>2. ASSUME NEW k \in Keys, Refers(k)
      PROVE  \A i \in Inos : map[i] # None => map'[i].key = map[i].key
  <2>1. CASE \E i \in Inos : get_src(k, i) /\ Counts(i)
    BY <2>1, <1>1 DEF get_src
  <2>2. CASE insert(k) /\ Grants(next_ino)
    BY <2>2 DEF TableInv, TTypeOK, Vacant, insert, Inos
  <2> QED
    BY <1>2, <2>1, <2>2 DEF Refers
<1>3. ASSUME NEW j \in Inos, NEW n \in 1 .. forgets[j], Forgets(j, n)
      PROVE  \A i \in Inos : map[i] # None /\ map'[i] # None => map'[i].key = map[i].key
  BY <1>3 DEF TableInv, TTypeOK, Forgets, INode
<1>4. CASE \E i \in Inos : KernelStep(i)
  BY <1>4 DEF KernelStep
<1>5. CASE UNCHANGED tvars
  BY <1>5 DEF tvars, kvars
<1> QED
  BY <1>1, <1>2, <1>3, <1>4, <1>5 DEF TableStep

----------------------------------------------------------------------------
(* passthrough                                                             *)

\* A file the kernel has open keeps its inode, and has no RELEASE on the way; a RELEASE
\* on the way is for a key that is in use.
HandlesHeld ==
    \A h \in Fhs :
      /\ kfile[h] # None => knl[kfile[h]] > 0 /\ h \notin closing
      /\ h \in closing => pool[h] # None

Inv == TypeOK /\ TableInv /\ SameFile /\ HandlesAgree /\ HandlesHeld

----------------------------------------------------------------------------

\* A step of passthrough is one of the table, or leaves it alone.
LEMMA StepsOfTable ==
    ASSUME Inv, [Next]_vars
    PROVE  TableStep \/ UNCHANGED tvars
<1>1. ASSUME NEW n \in Names, do_lookup(n) PROVE TableStep
  BY <1>1 DEF do_lookup, TableStep, Inv, TypeOK
<1>2. CASE Host
  BY <1>2 DEF Host
<1>3. CASE \E n \in Names : lookup(n) \/ unlink(n) \/ (\E m \in Names : rename(n, m)) \/ (\E s \in Keys : make_node(n, s))
  BY <1>1, <1>3 DEF lookup, unlink, rename, make_node
<1>4. CASE make_node_lookup
  BY <1>1, <1>4 DEF make_node_lookup, Inv, TypeOK
<1>5. ASSUME NEW i \in Inos, Kernel(i) PROVE TableStep
  BY <1>5, Zenon DEF Kernel, KernelStep, TableStep
<1>6. ASSUME NEW i \in Inos, NEW n \in Names, link(i, n) PROVE TableStep
  BY <1>6 DEF link, TableStep
<1>7. ASSUME NEW i \in Inos, NEW n \in 1 .. forgets[i], forget(i, n) PROVE TableStep
  BY <1>7 DEF forget, TableStep
<1>8. ASSUME NEW i \in Inos, NEW h \in Fhs, open(i, h) PROVE UNCHANGED tvars
  BY <1>8 DEF open
<1>9. CASE \E h \in Fhs : Closes(h) \/ release(h)
  BY <1>9 DEF Closes, release
<1>10. CASE UNCHANGED vars
  BY <1>10 DEF vars
<1> QED
  BY <1>2, <1>3, <1>4, <1>5, <1>6, <1>7, <1>8, <1>9, <1>10 DEF Next

\* The invariant holds at the start.
LEMMA InvInit == Init => Inv
<1> SUFFICES ASSUME Init PROVE Inv
  OBVIOUS
<1>1. TableInv
  BY TableInit DEF Init
<1>2. TypeOK
  BY <1>1 DEF Init, TypeOK, TableInv
<1>3. SameFile /\ HandlesAgree /\ HandlesHeld
  BY DEF Init, TInit, SameFile, HandlesAgree, HandlesHeld
<1> QED
  BY <1>1, <1>2, <1>3 DEF Inv

\* Looking up a name adds at most an inode for the file under the name.
LEMMA LookupKeeps ==
    ASSUME Inv, TableInv', NEW n \in Names, do_lookup(n), making' \in Names \cup {None},
           \A i \in Inos : map[i] # None /\ map'[i] # None => map'[i].key = map[i].key
    PROVE  Inv'
<1> DEFINE s == host[n]
<1>1. s \in Keys /\ gen[s] \in Nat /\ knl' = knl /\ UNCHANGED <<hvars, fvars>>
  BY DEF Inv, TypeOK, do_lookup, Refers, Counts, Grants
<1>2. \A i \in Inos : /\ map[i] # None => map'[i] # None
                      /\ map[i] = None /\ map'[i] # None => map'[i].key = s
  <2>1. ASSUME NEW j \in Inos, get_src(s, j), Counts(j)
        PROVE  \A i \in Inos : (map[i] # None => map'[i] # None) /\ (map[i] = None => map'[i] = None)
    <3>1. map[j] # None /\ map'[j] = [map[j] EXCEPT !.refcount = @ + 1] /\ map[j] \in INode
      BY <2>1 DEF Counts, get_src, Inv, TypeOK, TTypeOK
    <3>2. map'[j] \in INode
      BY <3>1 DEF INode
    <3>3. map'[j] # None
      BY <3>2, NoneAssumption
    <3> QED
      BY <2>1, <3>1, <3>3 DEF Counts, Inv, TypeOK, TTypeOK
  <2>2. CASE insert(s)
    <3>1. [key |-> s, refcount |-> 1] \in INode
      BY <1>1, Zenon DEF INode
    <3> QED
      BY <2>2, <3>1, NoneAssumption, Zenon DEF insert, Inv, TypeOK, TTypeOK
  <2> QED
    BY <2>1, <2>2 DEF do_lookup, Refers
<1>3. fd' = [i \in Inos |-> IF map[i] = None /\ map'[i] # None THEN gen[s] ELSE fd[i]]
  BY Zenon DEF do_lookup
<1> HIDE DEF s
<1>4. TypeOK'
  BY <1>1, <1>3, Zenon DEF Inv, TypeOK, TableInv, hvars, fvars
<1>5. SameFile'
  BY <1>1, <1>2, <1>3 DEF Inv, SameFile, hvars
<1>6. HandlesAgree'
  BY <1>1, <1>2, <1>3 DEF Inv, TypeOK, HandlesAgree, File, fvars
<1>7. HandlesHeld'
  BY <1>1 DEF Inv, HandlesHeld, fvars
<1> QED
  BY <1>4, <1>5, <1>6, <1>7 DEF Inv

\* Others, or a request, change the names of the host.
LEMMA HostKeeps ==
    ASSUME Inv, TableInv', UNCHANGED <<tvars, fd, fvars>>, making' \in Names \cup {None},
           \/ \E n \in Names : Removes(n)
           \/ \E n, m \in Names : Renames(n, m)
           \/ \E n \in Names, s \in Keys : Creates(n, s)
    PROVE  Inv'
<1>1. host' \in [Names -> Keys \cup {None}] /\ gen' \in [Keys -> Nat]
  BY DEF Inv, TypeOK, Removes, Renames, Creates
<1>2. TypeOK'
  BY <1>1 DEF Inv, TypeOK, TableInv, fvars
<1>3. \A i \in Inos : map[i] # None => gen'[map[i].key] = gen[map[i].key]
  <2>1. \A i \in Inos : map[i] # None => map[i].key \in Keys
    BY DEF Inv, TypeOK, TTypeOK, INode
  <2>2. CASE gen' = gen
    BY <2>2
  <2>3. CASE \E s \in Keys : ~Pinned(s) /\ gen' = [gen EXCEPT ![s] = @ + 1]
    BY <2>1, <2>3, Zenon DEF Pinned, Inv, TypeOK
  <2> QED
    BY <2>2, <2>3 DEF Removes, Renames, Creates
<1>4. SameFile'
  BY <1>3, Zenon DEF Inv, SameFile, tvars
<1>5. HandlesAgree' /\ HandlesHeld'
  BY DEF Inv, HandlesAgree, HandlesHeld, File, tvars, kvars, fvars
<1> QED
  BY <1>2, <1>4, <1>5 DEF Inv

\* A FORGET cannot take the inode of a file that is open: the kernel has a reference.
LEMMA ForgetKeeps ==
    ASSUME Inv, TableInv', NEW j \in Inos, NEW n \in 1 .. forgets[j], forget(j, n),
           \A i \in Inos : map[i] # None /\ map'[i] # None => map'[i].key = map[i].key
    PROVE  Inv'
<1>1. UNCHANGED <<knl, hvars, making, fvars>>
  BY DEF forget, Forgets, Returns
<1>2. \A i \in Inos : /\ map'[i] # None => map[i] # None
                      /\ fd'[i] = IF i = j /\ map'[i] = None THEN None ELSE fd[i]
  BY Zenon DEF forget, Forgets, Inv, TypeOK, TTypeOK
<1>3. TypeOK'
  BY <1>1, Zenon DEF forget, Inv, TypeOK, TableInv, hvars, fvars
<1>4. SameFile'
  BY <1>1, <1>2 DEF Inv, SameFile, hvars
<1>5. \A i \in Inos : knl'[i] > 0 => map'[i] # None
  BY DEF TableInv, TTypeOK, KTypeOK, CountsAgree, Refs
<1>6. HandlesAgree'
  BY <1>1, <1>2, <1>5 DEF Inv, TypeOK, HandlesAgree, HandlesHeld, File, fvars
<1>7. HandlesHeld'
  BY <1>1 DEF Inv, HandlesHeld, fvars
<1> QED
  BY <1>3, <1>4, <1>6, <1>7 DEF Inv

\* Opening and closing: the slab has the key from the OPEN to the RELEASE.
LEMMA FilesKeep ==
    ASSUME Inv, TableInv', NEW h \in Fhs,
           Closes(h) \/ release(h) \/ \E i \in Inos : open(i, h)
    PROVE  Inv'
<1>1. UNCHANGED <<map, knl, hvars, fd, making>>
  BY DEF open, Closes, release, tvars, kvars
<1>2. SameFile'
  BY <1>1 DEF Inv, SameFile, hvars
<1>3. \A i \in Inos : map[i] # None => File(i) \in Keys \X Nat
  <2>1. \A i \in Inos : map[i] # None => map[i].key \in Keys
    BY DEF Inv, TypeOK, TTypeOK, INode
  <2>2. \A i \in Inos : map[i] # None => fd[i] \in Nat
    BY <2>1 DEF Inv, TypeOK, SameFile
  <2> QED
    BY <2>1, <2>2, Zenon DEF File
<1>4. ASSUME NEW i \in Inos, open(i, h) PROVE Inv'
  <2>1. File(i) \in Keys \X Nat /\ File(i) # None /\ knl[i] > 0
    BY <1>3, <1>4, NoneAssumption DEF open, Known, Inos, Root
  <2>2. TypeOK'
    BY <1>1, <1>4, <2>1, Zenon DEF open, Inv, TypeOK, TableInv, hvars
  <2>3. HandlesAgree'
    BY <1>1, <1>4, Zenon DEF open, Inv, TypeOK, HandlesAgree, File
  <2>4. HandlesHeld'
    BY <1>1, <1>4, <2>1 DEF open, Inv, TypeOK, HandlesHeld
  <2> QED
    BY <1>2, <2>2, <2>3, <2>4, Zenon DEF Inv
<1>5. CASE Closes(h)
  <2>1. pool[h] # None
    BY <1>3, <1>5, NoneAssumption DEF Closes, Inv, TypeOK, HandlesAgree
  <2>2. TypeOK'
    BY <1>1, <1>5, Zenon DEF Closes, Inv, TypeOK, TableInv, hvars
  <2>3. HandlesAgree'
    BY <1>1, <1>5, Zenon DEF Closes, Inv, TypeOK, HandlesAgree, File
  <2>4. HandlesHeld'
    BY <1>1, <1>5, <2>1, Zenon DEF Closes, Inv, TypeOK, HandlesHeld
  <2> QED
    BY <1>2, <2>2, <2>3, <2>4, Zenon DEF Inv
<1>6. CASE release(h)
  <2>1. kfile[h] = None
    BY <1>6, Zenon DEF release, Inv, HandlesHeld
  <2>2. TypeOK'
    BY <1>1, <1>6, Zenon DEF release, Inv, TypeOK, TableInv, hvars
  <2>3. HandlesAgree'
    BY <1>1, <1>6, <2>1, Zenon DEF release, Inv, TypeOK, HandlesAgree, File
  <2>4. HandlesHeld'
    BY <1>1, <1>6, <2>1 DEF release, Inv, TypeOK, HandlesHeld
  <2> QED
    BY <1>2, <2>2, <2>3, <2>4 DEF Inv
<1> QED
  BY <1>4, <1>5, <1>6

\* The kernel keeps the references to a file it has open.
LEMMA KernelKeeps ==
    ASSUME Inv, TableInv', NEW j \in Inos, Kernel(j)
    PROVE  Inv'
<1>1. UNCHANGED <<map, hvars, fd, making, fvars>>
  BY Zenon DEF Kernel
<1>2. \A h \in Fhs : kfile[h] # None => knl'[kfile[h]] > 0
  BY DEF Kernel, Takes, Evicts, Inv, TypeOK, TTypeOK, KTypeOK, HandlesHeld
<1>3. TypeOK' /\ SameFile' /\ HandlesAgree'
  BY <1>1, Zenon DEF Inv, TypeOK, TableInv, SameFile, HandlesAgree, File, hvars, fvars
<1>4. HandlesHeld'
  BY <1>1, <1>2 DEF Inv, HandlesHeld, fvars
<1> QED
  BY <1>3, <1>4 DEF Inv

\* link keeps it.
LEMMA LinkKeeps ==
    ASSUME Inv, TableInv', NEW j \in Inos, NEW n \in Names, link(j, n)
    PROVE  Inv'
<1>1. map[j] \in INode /\ map[j] # None /\ map' = [map EXCEPT ![j].refcount = @ + 1]
  BY DEF link, Counts, Inv, TypeOK, TTypeOK
<1>2. \A i \in Inos : map[i] = None => map'[i] = None
  BY <1>1 DEF Inv, TypeOK, TTypeOK
<1>3. map'[j] # None /\ map'[j].key = map[j].key /\ map[j].key \in Keys
  <2>1. map'[j] = [map[j] EXCEPT !.refcount = @ + 1]
    BY <1>1 DEF Inv, TypeOK, TTypeOK
  <2>2. map'[j] \in INode /\ map'[j].key = map[j].key
    BY <1>1, <2>1 DEF INode
  <2> QED
    BY <1>1, <2>2, NoneAssumption DEF INode
<1>4. \A i \in Inos \ {j} : map'[i] = map[i]
  BY <1>1 DEF Inv, TypeOK, TTypeOK
<1>5. UNCHANGED <<knl, gen, fd, making, fvars>> /\ host' = [host EXCEPT ![n] = map[j].key]
  BY Zenon DEF link, Counts, Grants
<1>6. TypeOK'
  BY <1>3, <1>5 DEF Inv, TypeOK, TableInv, fvars
<1>7. SameFile'
  BY <1>1, <1>3, <1>4, <1>5 DEF Inv, SameFile
<1>8. HandlesAgree'
  BY <1>1, <1>3, <1>4, <1>5 DEF Inv, TypeOK, HandlesAgree, File, fvars
<1>9. HandlesHeld'
  BY <1>5, Zenon DEF Inv, HandlesHeld, fvars
<1> QED
  BY <1>6, <1>7, <1>8, <1>9 DEF Inv

\* Every step keeps it.
LEMMA InvStep == Inv /\ [Next]_vars => Inv'
<1> SUFFICES ASSUME Inv, [Next]_vars PROVE Inv'
  OBVIOUS
<1>1. TableStep \/ UNCHANGED tvars
  BY StepsOfTable
<1>2. TableInv'
  BY <1>1, TableStepKeeps, Zenon DEF Inv
<1>3. \A i \in Inos : map[i] # None /\ map'[i] # None => map'[i].key = map[i].key
  BY <1>1, KeysStay DEF Inv
<1>4. CASE Host
  <2>1. making' \in Names \cup {None}
    BY <1>4, Zenon DEF Host, Inv, TypeOK
  <2> QED
    BY <1>2, <1>4, <2>1, HostKeeps DEF Host
<1>5. ASSUME NEW n \in Names, lookup(n) PROVE Inv'
  <2>1. making' \in Names \cup {None}
    BY <1>5 DEF lookup, Inv, TypeOK
  <2> QED
    BY <1>2, <1>3, <1>5, <2>1, LookupKeeps, Zenon DEF lookup
<1>6. ASSUME NEW n \in Names, unlink(n) \/ (\E m \in Names : rename(n, m)) \/ (\E s \in Keys : make_node(n, s))
      PROVE  Inv'
  <2>1. making' \in Names \cup {None}
    BY <1>6 DEF unlink, rename, make_node, Inv, TypeOK
  <2> QED
    BY <1>2, <1>6, <2>1, HostKeeps DEF unlink, rename, make_node
<1>7. CASE make_node_lookup
  <2>1. making \in Names /\ making' = None
    BY <1>7 DEF make_node_lookup, Inv, TypeOK
  <2>2. CASE do_lookup(making)
    BY <1>2, <1>3, <2>1, <2>2, LookupKeeps, Zenon
  <2>3. CASE UNCHANGED <<tvars, hvars, fd, fvars>>
    BY <1>2, <2>1, <2>3, SMTT(30) DEF Inv, TypeOK, TableInv, SameFile, HandlesAgree, HandlesHeld, File, tvars, kvars, hvars, fvars
  <2> QED
    BY <1>7, <2>2, <2>3 DEF make_node_lookup
<1>8. ASSUME NEW i \in Inos, Kernel(i) PROVE Inv'
  BY <1>2, <1>8, KernelKeeps
<1>9. ASSUME NEW i \in Inos, NEW n \in Names, link(i, n) PROVE Inv'
  BY <1>2, <1>9, LinkKeeps, Zenon
<1>10. ASSUME NEW i \in Inos, NEW n \in 1 .. forgets[i], forget(i, n) PROVE Inv'
  BY <1>2, <1>3, <1>10, ForgetKeeps
<1>11. ASSUME NEW h \in Fhs, Closes(h) \/ release(h) \/ \E i \in Inos : open(i, h) PROVE Inv'
  BY <1>2, <1>11, FilesKeep, Zenon
<1>12. CASE UNCHANGED vars
  BY <1>2, <1>12 DEF Inv, TypeOK, TableInv, SameFile, HandlesAgree, HandlesHeld, File, vars, tvars, kvars, hvars, fvars
<1> QED
  BY <1>4, <1>5, <1>6, <1>7, <1>8, <1>9, <1>10, <1>11, <1>12 DEF Next

----------------------------------------------------------------------------

\* The invariant holds of every behaviour of passthrough.
LEMMA InvHolds == Spec => []Inv
  BY InvInit, InvStep, PTL DEF Spec

\* Every variable has its type, whatever the kernel and the host do (all handlers).
THEOREM TypeCorrect == Spec => []TypeOK
<1>1. Inv => TypeOK
  BY DEF Inv
<1> QED
  BY <1>1, InvHolds, PTL

\* The counts of the inode table are those of the kernel and the messages on the way, and
\* the index leads back to every inode in the map, stale entries or not (do_lookup, link
\* and forget of passthrough).
THEOREM TableIsKept == Spec => []TableAgrees
<1>1. Inv => TableAgrees
  BY DEF Inv, TableInv, TableAgrees
<1> QED
  BY <1>1, InvHolds, PTL

\* A node id means the file that was looked up, for as long as the kernel has it, because
\* the descriptor in the inode keeps the host from using the source id again.
THEOREM IdsMeanOneFile == Spec => []SameFile
<1>1. Inv => SameFile
  BY DEF Inv
<1> QED
  BY <1>1, InvHolds, PTL

\* The handles the kernel has are in the slab, on the file of their node id.
THEOREM HandlesAreKept == Spec => []HandlesAgree
<1>1. Inv => HandlesAgree
  BY DEF Inv
<1> QED
  BY <1>1, InvHolds, PTL

\* The node ids of passthrough behave as NodeIds says.
THEOREM Implements == Spec => ImplementsNodeIds
<1>1. Init => Ids!Init
  BY TableInit DEF Init
<1>2. Inv /\ [Next]_vars => [Ids!Next]_<<st, refs>>
  BY StepsOfTable, TableStepKeeps, Zenon DEF Inv
<1> QED
  BY <1>1, <1>2, InvHolds, PTL DEF Spec, ImplementsNodeIds, Ids!Spec, Ids!vars

----------------------------------------------------------------------------
(* path_through                                                            *)

\* A step of path_through is one of the table, or leaves it alone.
LEMMA PathStepsOfTable == [PathNext]_pathVars => TableStep \/ UNCHANGED tvars
  BY DEF PathNext, pathVars, PathHost, path_lookup, path_forget, TableStep

\* The table stays in order in every behaviour of path_through.
LEMMA PathInvHolds == PathSpec => []TableInv
<1>1. PathInit => TableInv
  BY TableInit DEF PathInit
<1>2. TableInv /\ [PathNext]_pathVars => TableInv'
  BY PathStepsOfTable, TableStepKeeps
<1> QED
  BY <1>1, <1>2, PTL DEF PathSpec

\* Every variable has its type, whatever the kernel and the host do (lookup, forget).
THEOREM PathTypeCorrect == PathSpec => []PathTypeOK
<1>1. PathInit => there \subseteq Keys
  BY DEF PathInit
<1>2. there \subseteq Keys /\ [PathNext]_pathVars => (there \subseteq Keys)'
  BY DEF PathNext, pathVars, PathHost, path_lookup, path_forget
<1>3. TableInv /\ there \subseteq Keys => PathTypeOK
  BY DEF TableInv, PathTypeOK
<1> QED
  BY <1>1, <1>2, <1>3, PathInvHolds, PTL DEF PathSpec

\* The counts of the inode table are those of the kernel and the messages on the way,
\* and a path never has two numbers (lookup and forget of path_through).
THEOREM PathTableIsKept == PathSpec => []TableAgrees
<1>1. TableInv => TableAgrees
  BY DEF TableInv, TableAgrees
<1> QED
  BY <1>1, PathInvHolds, PTL

\* The node ids of path_through behave as NodeIds says.
THEOREM PathImplements == PathSpec => ImplementsNodeIds
<1>1. PathInit => Ids!Init
  BY TableInit DEF PathInit
<1>2. TableInv /\ [PathNext]_pathVars => [Ids!Next]_<<st, refs>>
  BY PathStepsOfTable, TableStepKeeps
<1> QED
  BY <1>1, <1>2, PathInvHolds, PTL DEF PathSpec, ImplementsNodeIds, Ids!Spec, Ids!vars

============================================================================
