-------------------------------- MODULE MemFS --------------------------------
(***************************************************************************)
(* examples_disabled/memfs.rs: the tree of directories, files and symbolic *)
(* links, its inode table, and the kernel's directory cache.  A handler    *)
(* holds the entries of the table that it uses to its end, so that it is   *)
(* one step.  The kernel holds the lock of a directory from a request that *)
(* changes it to the reply, and shares it among LOOKUPs.                   *)
(***************************************************************************)
EXTENDS Vfs

CONSTANT Names

Nodes == {Root} \cup Inos
Kinds == {"file", "dir"}   \* nothing tells a symbolic link from a file here

INode == [kind : Kinds, refcount : Nat, links : Nat, nlink : Nat,
          children : [Names -> Nodes \cup {None}], parent : Nodes \cup {None}]

ASSUME MemFSAssumption == None \notin Nat /\ None \notin INode

VARIABLES
    inodes,    \* INodeTable::map
    next_ino,
    dcache     \* the kernel's cache: of a name, "none", "reply" on the way, or "cached"

mvars == <<inodes, next_ino, dcache>>
vars == <<mvars, kvars>>

NoNames == [n \in Names |-> None]

TypeOK ==
    /\ KTypeOK
    /\ inodes \in [Nodes -> INode \cup {None}]
    /\ next_ino \in Nat
    /\ dcache \in [Nodes -> [Names -> {"none", "reply", "cached"}]]

\* The counts of the root, which never come into play, are 1 for a very large number.
Init ==
    /\ KInit
    /\ inodes = [i \in Nodes |-> IF i # Root THEN None ELSE
                   [kind |-> "dir", refcount |-> 1, links |-> 1, nlink |-> 2,
                    children |-> NoNames, parent |-> None]]
    /\ next_ino = 2
    /\ dcache = [i \in Nodes |-> [n \in Names |-> "none"]]

IsDir(i) == inodes[i] # None /\ inodes[i].kind = "dir"
Child(d, n) == inodes[d].children[n]

----------------------------------------------------------------------------
(* The kernel                                                              *)

\* The kernel may use the names of a directory it knows and has not removed.
LooksIn(d) == Known(d) /\ IsDir(d) /\ inodes[d].links > 0
\* It may change the directory when no LOOKUP is on the way there.
Changes(d) == LooksIn(d) /\ \A n \in Names : dcache[d][n] # "reply"

SetEntry(d, n, s) == dcache' = [dcache EXCEPT ![d][n] = s]

\* The reply with the entry arrives.
Arrives(d, n) ==
    /\ dcache[d][n] = "reply"
    /\ Takes(Child(d, n))
    /\ SetEntry(d, n, "cached")
    /\ UNCHANGED <<inodes, next_ino>>

Unused(i) == \A n \in Names : dcache[i][n] = "none"

\* A name leaves the cache, but not before the names below it.
Drop(d, n) ==
    /\ dcache[d][n] = "cached" /\ Unused(Child(d, n))
    /\ SetEntry(d, n, "none")
    /\ UNCHANGED <<inodes, next_ino, kvars>>

\* An inode without a cached name may be evicted.
Evict(i) ==
    /\ Unused(i)
    /\ \A d \in Nodes, n \in Names : dcache[d][n] = "cached" => Child(d, n) # i
    /\ Evicts(i)
    /\ UNCHANGED mvars

----------------------------------------------------------------------------
(* The handlers                                                            *)

\* lookup: ENOENT without a child of that name.
lookup(d, n) ==
    /\ LooksIn(d) /\ dcache[d][n] = "none"
    /\ Child(d, n) # None
    /\ inodes' = [inodes EXCEPT ![Child(d, n)].refcount = @ + 1]
    /\ Grants(Child(d, n))
    /\ SetEntry(d, n, "reply")
    /\ UNCHANGED next_ino

\* The same LOOKUP for a cached name whose time is over.  The process keeps the inode
\* until it has the reply, so that nothing comes between the two.
revalidate(d, n) ==
    /\ LooksIn(d) /\ dcache[d][n] = "cached"
    /\ Refs(Child(d, n)) < MaxRefs
    /\ inodes' = [inodes EXCEPT ![Child(d, n)].refcount = @ + 1]
    /\ knl' = [knl EXCEPT ![Child(d, n)] = @ + 1]
    /\ UNCHANGED <<next_ino, dcache, granted, forgets>>

\* Mutant: the inode goes with its last reference, whatever its links.
forget_Linked(i, n) ==
    /\ Returns(i, n)
    /\ inodes' = [inodes EXCEPT ![i] =
                    IF @ = None \/ @.refcount <= n THEN None ELSE [@ EXCEPT !.refcount = @ - n]]
    /\ UNCHANGED <<next_ino, dcache>>

\* Mutant: whether the inode can go is decided before the count goes down.
forget_Before(i, n) ==
    /\ Returns(i, n)
    /\ inodes' = [inodes EXCEPT ![i] =
                    IF @ = None \/ (@.refcount = 0 /\ @.links = 0) THEN None
                    ELSE [@ EXCEPT !.refcount = IF @ > n THEN @ - n ELSE 0]]
    /\ UNCHANGED <<next_ino, dcache>>

\* forget: the inode goes when it has neither references nor links.
forget(i, n) ==
    /\ Returns(i, n)
    /\ inodes' = [inodes EXCEPT ![i] =
                    IF @ = None THEN None
                    ELSE LET left == IF @.refcount > n THEN @.refcount - n ELSE 0
                         IN IF left = 0 /\ @.links = 0 THEN None ELSE [@ EXCEPT !.refcount = left]]
    /\ UNCHANGED <<next_ino, dcache>>

\* Mutant: the name that is about to be inserted is not counted.
NewNode_Unlinked(kind, d) ==
    [kind |-> kind, refcount |-> 1, links |-> 0, nlink |-> IF kind = "dir" THEN 2 ELSE 1,
     children |-> NoNames, parent |-> IF kind = "dir" THEN d ELSE None]

\* The INode that mknod, mkdir or symlink makes.
NewNode(kind, d) ==
    [kind |-> kind, refcount |-> 1, links |-> 1, nlink |-> IF kind = "dir" THEN 2 ELSE 1,
     children |-> NoNames, parent |-> IF kind = "dir" THEN d ELSE None]

\* Mutant: next_ino is not counted up.
make_node_Reuse(d, n, kind) ==
    /\ Changes(d) /\ dcache[d][n] = "none"
    /\ Child(d, n) = None /\ next_ino <= MaxIno
    /\ inodes' = [inodes EXCEPT ![d].children[n] = next_ino, ![next_ino] = NewNode(kind, d)]
    /\ Grants(next_ino)
    /\ SetEntry(d, n, "reply")
    /\ UNCHANGED next_ino

\* make_node, for mknod, mkdir and symlink: EEXIST with a child of that name.
make_node(d, n, kind) ==
    /\ Changes(d) /\ dcache[d][n] = "none"
    /\ Child(d, n) = None /\ next_ino <= MaxIno
    /\ inodes' = [inodes EXCEPT ![d].children[n] = next_ino, ![next_ino] = NewNode(kind, d)]
    /\ next_ino' = next_ino + 1
    /\ Grants(next_ino)
    /\ SetEntry(d, n, "reply")

\* link: the kernel refuses directories and files that were removed; EEXIST.
link(i, d, n) ==
    /\ Known(i) /\ inodes[i].kind # "dir" /\ inodes[i].links > 0
    /\ Changes(d) /\ dcache[d][n] = "none"
    /\ Child(d, n) = None
    /\ inodes' = [inodes EXCEPT ![d].children[n] = i, ![i].links = @ + 1,
                                ![i].nlink = @ + 1, ![i].refcount = @ + 1]
    /\ Grants(i)
    /\ SetEntry(d, n, "reply")
    /\ UNCHANGED next_ino

\* Mutant: a directory goes with what is in it.
unlink_node_Full(d, n) ==
    /\ Changes(d) /\ dcache[d][n] = "cached"
    /\ Unused(Child(d, n))
    /\ inodes' = [inodes EXCEPT ![d].children[n] = None,
                                ![Child(d, n)].links = @ - 1, ![Child(d, n)].nlink = @ - 1]
    /\ SetEntry(d, n, "none")
    /\ UNCHANGED <<next_ino, kvars>>

\* unlink_node, for unlink and rmdir: ENOTEMPTY; the inode stays in the table.  The
\* kernel drops the names it has below a directory before it sends RMDIR.
unlink_node(d, n) ==
    /\ Changes(d) /\ dcache[d][n] = "cached"
    /\ Unused(Child(d, n))
    /\ inodes[Child(d, n)].children = NoNames
    /\ inodes' = [inodes EXCEPT ![d].children[n] = None,
                                ![Child(d, n)].links = @ - 1, ![Child(d, n)].nlink = @ - 1]
    /\ SetEntry(d, n, "none")
    /\ UNCHANGED <<next_ino, kvars>>

\* The directories that have a name for i.
Parents(i) == {d \in Nodes : IsDir(d) /\ \E n \in Names : Child(d, n) = i}
\* S has, with a node, all the directories above it.
UpClosed(S) == \A i \in S : Parents(i) \subseteq S

\* The directories that hold i, directly or not: those in every such set.
Above(i) == {d \in Nodes : \A S \in SUBSET Nodes : Parents(i) \subseteq S /\ UpClosed(S) => d \in S}

\* Mutant: the new name is not looked at.
rename_Replace(d, n, e, m) ==
    /\ <<d, n>> # <<e, m>>
    /\ Changes(d) /\ Changes(e) /\ dcache[d][n] = "cached"
    /\ Child(d, n) # e /\ Child(d, n) \notin Above(e)
    /\ inodes' = [inodes EXCEPT ![e].children[m] = Child(d, n), ![d].children[n] = None]
    /\ dcache' = [dcache EXCEPT ![e][m] = "cached", ![d][n] = "none"]
    /\ UNCHANGED <<next_ino, kvars>>

\* rename, in one directory or from one to another: EEXIST with a child of the new
\* name.  The kernel refuses to move a directory below itself.  The parent of a
\* directory that is moved stays as it was.
rename(d, n, e, m) ==
    /\ <<d, n>> # <<e, m>>
    /\ Changes(d) /\ Changes(e) /\ dcache[d][n] = "cached"
    /\ Child(d, n) # e /\ Child(d, n) \notin Above(e)
    /\ Child(e, m) = None
    /\ inodes' = [inodes EXCEPT ![e].children[m] = Child(d, n), ![d].children[n] = None]
    /\ dcache' = [dcache EXCEPT ![e][m] = "cached", ![d][n] = "none"]
    /\ UNCHANGED <<next_ino, kvars>>

----------------------------------------------------------------------------
Next ==
    \/ \E d \in Nodes, n \in Names :
         \/ Arrives(d, n) \/ Drop(d, n)
         \/ lookup(d, n) \/ revalidate(d, n) \/ unlink_node(d, n)
         \/ \E kind \in Kinds : make_node(d, n, kind)
         \/ \E i \in Inos : link(i, d, n)
         \/ \E e \in Nodes, m \in Names : rename(d, n, e, m)
    \/ \E i \in Inos : Evict(i) \/ \E n \in 1 .. forgets[i] : forget(i, n)

Spec == Init /\ [][Next]_vars

----------------------------------------------------------------------------
(* Properties                                                              *)

\* The refcount of an inode is what the kernel has, or is about to get or to give
\* back: saturating_sub never saturates, and an id the kernel may use is in the table.
CountsAgree ==
    \A i \in Inos : Refs(i) = IF inodes[i] = None THEN 0 ELSE inodes[i].refcount

\* Every name in a directory leads to an inode in the table, and every number to come
\* is vacant: the expect in lookup, the unreachable in unlink_node and the "inode
\* number conflict" in make_node are never reached.
NamesResolve ==
    /\ \A d \in Nodes, n \in Names :
         IsDir(d) /\ Child(d, n) # None => inodes[Child(d, n)] # None
    /\ \A i \in Inos : i >= next_ino => inodes[i] = None

\* S has n elements: it can be numbered from 1 to n.
HasSize(S, n) ==
    \E f \in [1 .. n -> S] : /\ \A x \in S : \E j \in 1 .. n : f[j] = x
                            /\ \A j, l \in 1 .. n : f[j] = f[l] => j = l

\* links is the number of names, and so is what stat shows as nlink (one more for a
\* directory).
LinksAgree ==
    \A i \in Inos : inodes[i] # None =>
        /\ HasSize({p \in Nodes \X Names : IsDir(p[1]) /\ Child(p[1], p[2]) = i}, inodes[i].links)
        /\ inodes[i].nlink = inodes[i].links + (IF inodes[i].kind = "dir" THEN 1 ELSE 0)

\* No inode stays in the table without links and without references, although only
\* forget removes one: the kernel has a reference whenever it removes a name.
NothingLeaks ==
    \A i \in Inos : inodes[i] # None => inodes[i].links > 0 \/ inodes[i].refcount > 0

\* Whatever is created, moved and removed, an inode with a name can be reached from
\* the root.
TreeConnected ==
    \A i \in Inos : inodes[i] # None /\ inodes[i].links > 0 => Root \in Above(i)

\* The inode table and the tree in it are whole after every sequence of requests.
TreeWhole ==
    /\ TypeOK /\ CountsAgree
    /\ NamesResolve /\ LinksAgree /\ NothingLeaks /\ TreeConnected

\* What an id is to the kernel, in the words of NodeIds.
st == [i \in Inos |-> IF i >= next_ino THEN "free" ELSE IF inodes[i] # None THEN "live" ELSE "dead"]
refs == [i \in Inos |-> Refs(i)]

Ids == INSTANCE NodeIds

\* memfs keeps the promise about node ids, whichever names lead to a file.
ImplementsNodeIds == Ids!Spec

============================================================================
