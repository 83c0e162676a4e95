----------------------------- MODULE Passthrough -----------------------------
(***************************************************************************)
(* examples_disabled/passthrough/main.rs over one host directory, which    *)
(* others use as well.  A file of the host is its source id (device and    *)
(* inode number) and a generation: the host may give the number of a file  *)
(* that is gone, and that no descriptor keeps, to a new file.              *)
(***************************************************************************)
EXTENDS NodeTable

CONSTANTS
    Names,
    Fhs,    \* the keys of the slab of open files
    MaxGen  \* bound on the generations

VARIABLES
    host,    \* the source id under each name
    gen,     \* the generation of each source id
    fd,      \* of each inode in the map: the generation of the file its descriptor is open on
    making,  \* the name that make_node has created and not looked up yet
    pool,    \* opened_files: the file behind each handle
    kfile,   \* the kernel's open files: the id that was opened
    closing  \* the handles in a RELEASE on the way

hvars == <<host, gen>>
fvars == <<pool, kfile, closing>>
vars == <<tvars, hvars, fd, making, fvars>>

File(i) == <<map[i].key, fd[i]>>

TypeOK ==
    /\ TTypeOK
    /\ host \in [Names -> Keys \cup {None}]
    /\ gen \in [Keys -> Nat]
    /\ fd \in [Inos -> Nat \cup {None}]
    /\ making \in Names \cup {None}
    /\ pool \in [Fhs -> (Keys \X Nat) \cup {None}]
    /\ kfile \in [Fhs -> Inos \cup {None}]
    /\ closing \subseteq Fhs

Init ==
    /\ TInit
    /\ host \in [Names -> Keys \cup {None}]
    /\ gen = [s \in Keys |-> 0]
    /\ fd = [i \in Inos |-> None]
    /\ making = None
    /\ pool = [h \in Fhs |-> None]
    /\ kfile = [h \in Fhs |-> None]
    /\ closing = {}

----------------------------------------------------------------------------
(* The host                                                                *)

\* Mutant: an inode remembers the source id only.
Pinned_Id(s) == \E h \in Fhs : pool[h] # None /\ pool[h][1] = s

\* The descriptors of the program that keep a file: INode::fd, and the open files.
Pinned(s) ==
    \/ \E i \in Inos : map[i] # None /\ map[i].key = s
    \/ \E h \in Fhs : pool[h] # None /\ pool[h][1] = s

Creates(n, s) ==
    /\ host[n] = None /\ gen[s] < MaxGen
    /\ ~Pinned(s) /\ \A m \in Names : host[m] # s
    /\ host' = [host EXCEPT ![n] = s]
    /\ gen' = [gen EXCEPT ![s] = @ + 1]

Removes(n) ==
    /\ host[n] # None
    /\ host' = [host EXCEPT ![n] = None]
    /\ UNCHANGED gen

\* Nothing happens when both names are of one file.
Renames(n, m) ==
    /\ host[n] # None
    /\ host' = IF host[m] = host[n] THEN host ELSE [host EXCEPT ![m] = host[n], ![n] = None]
    /\ UNCHANGED gen

\* Someone else uses the directory.
Host ==
    /\ \E n \in Names : Removes(n) \/ (\E m \in Names : Renames(n, m)) \/ (\E s \in Keys : Creates(n, s))
    /\ UNCHANGED <<tvars, fd, making, fvars>>

----------------------------------------------------------------------------
(* The handlers                                                            *)

\* do_lookup: openat fails without a file; a new inode keeps the descriptor.
do_lookup(n) ==
    /\ host[n] # None
    /\ Refers(host[n])
    /\ fd' = [i \in Inos |-> IF map[i] = None /\ map'[i] # None THEN gen[host[n]] ELSE fd[i]]
    /\ UNCHANGED <<hvars, fvars>>

lookup(n) == do_lookup(n) /\ UNCHANGED making

\* The kernel locks the directory for a request that changes it.
DirFree == making = None

\* make_node, the first critical section: mkdirat, symlinkat or mknodat.
make_node(n, s) ==
    /\ DirFree
    /\ Creates(n, s)
    /\ making' = n
    /\ UNCHANGED <<tvars, fd, fvars>>

\* make_node, the second one: the name may be gone by now, or be another file.
make_node_lookup ==
    /\ making # None
    /\ do_lookup(making) \/ (host[making] = None /\ UNCHANGED <<tvars, hvars, fd, fvars>>)
    /\ making' = None

\* Mutant: the entry is replied but not counted.
link_Uncounted(i, n) ==
    /\ DirFree /\ Known(i) /\ map[i] # None
    /\ host[n] = None /\ \E m \in Names : host[m] = map[i].key
    /\ host' = [host EXCEPT ![n] = map[i].key]
    /\ Grants(i)
    /\ UNCHANGED <<map, key_to_ino, next_ino, gen, fd, making, fvars>>

\* link: through the descriptor, which fails for a file without a name.  The count
\* goes up after the reply, both with the table locked.
link(i, n) ==
    /\ DirFree /\ Known(i) /\ map[i] # None
    /\ host[n] = None /\ \E m \in Names : host[m] = map[i].key
    /\ host' = [host EXCEPT ![n] = map[i].key]
    /\ Counts(i)
    /\ UNCHANGED <<gen, fd, making, fvars>>

\* unlink and rmdir leave the table alone, and so does rename.
unlink(n) == DirFree /\ Removes(n) /\ UNCHANGED <<tvars, fd, making, fvars>>
rename(n, m) == DirFree /\ Renames(n, m) /\ UNCHANGED <<tvars, fd, making, fvars>>

\* forget: the descriptor is closed with the inode.
forget(i, n) ==
    /\ Forgets(i, n)
    /\ fd' = [fd EXCEPT ![i] = IF map'[i] = None THEN None ELSE @]
    /\ UNCHANGED <<hvars, making, fvars>>

\* Mutant: a key is free when the kernel has closed the file.
open_Closed(i, h) ==
    /\ Known(i) /\ map[i] # None /\ kfile[h] = None
    /\ pool' = [pool EXCEPT ![h] = File(i)]
    /\ kfile' = [kfile EXCEPT ![h] = i]
    /\ UNCHANGED <<tvars, hvars, fd, making, closing>>

\* open: /proc/self/fd leads to the file of the descriptor; the slab gives a free key.
open(i, h) ==
    /\ Known(i) /\ map[i] # None /\ pool[h] = None
    /\ pool' = [pool EXCEPT ![h] = File(i)]
    /\ kfile' = [kfile EXCEPT ![h] = i]
    /\ UNCHANGED <<tvars, hvars, fd, making, closing>>

\* The last close; the RELEASE is sent and not waited for.
Closes(h) ==
    /\ kfile[h] # None
    /\ kfile' = [kfile EXCEPT ![h] = None]
    /\ closing' = closing \cup {h}
    /\ UNCHANGED <<tvars, hvars, fd, making, pool>>

release(h) ==
    /\ h \in closing
    /\ closing' = closing \ {h}
    /\ pool' = [pool EXCEPT ![h] = None]
    /\ UNCHANGED <<tvars, hvars, fd, making, kfile>>

----------------------------------------------------------------------------
\* An open file keeps its inode.
Kernel(i) ==
    /\ Takes(i) \/ (Evicts(i) /\ \A h \in Fhs : kfile[h] # i)
    /\ UNCHANGED <<map, key_to_ino, next_ino, hvars, fd, making, fvars>>

Next ==
    \/ Host
    \/ \E n \in Names : lookup(n) \/ unlink(n) \/ (\E m \in Names : rename(n, m)) \/ (\E s \in Keys : make_node(n, s))
    \/ make_node_lookup
    \/ \E i \in Inos :
         \/ Kernel(i)
         \/ \E n \in Names : link(i, n)
         \/ \E n \in 1 .. forgets[i] : forget(i, n)
         \/ \E h \in Fhs : open(i, h)
    \/ \E h \in Fhs : Closes(h) \/ release(h)

Spec == Init /\ [][Next]_vars

----------------------------------------------------------------------------
(* Properties                                                              *)

\* A node id the kernel has means the same file for as long as it has it: what is
\* done to the id is done to the file that was looked up, whatever the host has done
\* to the names and the numbers since.
SameFile ==
    \A i \in Inos : map[i] # None => fd[i] = gen[map[i].key]

\* A handle the kernel has is in the slab (get finds it, remove does not panic) and
\* is open on the file that its node id stands for.
HandlesAgree ==
    \A h \in Fhs : kfile[h] # None => map[kfile[h]] # None /\ pool[h] = File(kfile[h])

============================================================================
