---------------------------- MODULE MemFSProofs ----------------------------
(***************************************************************************)
(* Proofs about memfs.  The tree is looked at as a function from places,   *)
(* a directory and a name, to nodes: a request changes it at one place or  *)
(* two, and the lemmas about counting names and about reaching the root    *)
(* speak of such changes only.                                             *)
(***************************************************************************)
EXTENDS MemFS, TLAPS

Places == Nodes \X Names
Trees == [Places -> Nodes \cup {None}]

\* Where the names of the directories lead.
kids == [p \in Places |-> IF IsDir(p[1]) THEN Child(p[1], p[2]) ELSE None]

NamesIn(k, i) == {p \in Places : k[p] = i}
UpOf(k, i) == {d \in Nodes : \E n \in Names : k[<<d, n>>] = i}
Reaches(k, i) ==
    \A S \in SUBSET Nodes : UpOf(k, i) \subseteq S /\ (\A j \in S : UpOf(k, j) \subseteq S) => Root \in S

\* Names lead to inodes in the table and never to the root, links counts them, and what
\* has one can be reached.
TreeOK ==
    /\ \A p \in Places : kids[p] # None => kids[p] \in Inos /\ inodes[kids[p]] # None
    /\ \A i \in Inos : inodes[i] # None =>
         /\ HasSize(NamesIn(kids, i), inodes[i].links)
         /\ inodes[i].nlink = inodes[i].links + (IF inodes[i].kind = "dir" THEN 1 ELSE 0)
         /\ inodes[i].links > 0 => Reaches(kids, i)

\* The root is a directory that stays; no number to come is in use.
RootStays == inodes[Root] # None /\ inodes[Root].kind = "dir" /\ inodes[Root].links > 0
Fresh == next_ino >= 2 /\ \A i \in Inos : i >= next_ino => inodes[i] = None

\* What has no name has no children.
RemovedEmpty ==
    \A i \in Nodes : inodes[i] # None /\ inodes[i].links = 0 => inodes[i].children = NoNames

\* What the kernel has in its cache is in the tree, and it holds a reference to it.
CacheSound ==
    \A d \in Nodes, n \in Names : dcache[d][n] # "none" =>
        /\ kids[<<d, n>>] # None
        /\ dcache[d][n] = "cached" => knl[kids[<<d, n>>]] > 0

\* The inductive invariant.
IInv ==
    /\ TypeOK /\ TreeOK /\ RootStays /\ Fresh /\ RemovedEmpty
    /\ CountsAgree /\ NothingLeaks /\ CacheSound

----------------------------------------------------------------------------
(* Numbers of nodes, and a tree that changes at one place                  *)

\* The kernel's ids are numbers, and none is None.
LEMMA NodeFacts ==
    /\ Nodes \subseteq Nat /\ Inos \subseteq Nodes /\ Root \in Nodes /\ Root \notin Inos
    /\ None \notin Nodes /\ \A i \in Nodes : i = Root \/ i \in Inos
BY BoundsAssumption, MemFSAssumption DEF Nodes, Inos, Root

\* The empty set has no element.
LEMMA NoElement ==
    ASSUME NEW S, NEW n \in Nat
    PROVE  /\ HasSize({}, 0)
           /\ HasSize(S, n) => (n = 0 <=> S = {})
<1>1. HasSize({}, 0)
  <2> DEFINE f == [j \in 1 .. 0 |-> j]
  <2>1. f \in [1 .. 0 -> {}]
    OBVIOUS
  <2> QED
    BY <2>1, Zenon DEF HasSize
<1>2. HasSize(S, n) => (n = 0 <=> S = {})
  BY DEF HasSize
<1> QED
  BY <1>1, <1>2

\* A new element gets the next number.
LEMMA AddElement ==
    ASSUME NEW S, NEW n \in Nat, HasSize(S, n), NEW p, p \notin S
    PROVE  HasSize(S \cup {p}, n + 1)
<1>1. PICK f \in [1 .. n -> S] : /\ \A x \in S : \E j \in 1 .. n : f[j] = x
                                /\ \A j, l \in 1 .. n : f[j] = f[l] => j = l
  BY DEF HasSize
<1> DEFINE g == [j \in 1 .. n + 1 |-> IF j = n + 1 THEN p ELSE f[j]]
<1>2. /\ g \in [1 .. n + 1 -> S \cup {p}] /\ g[n + 1] = p /\ n + 1 \in 1 .. n + 1
      /\ \A j \in 1 .. n : j \in 1 .. n + 1 /\ g[j] = f[j] /\ f[j] \in S
      /\ \A j \in 1 .. n + 1 : j = n + 1 \/ j \in 1 .. n
  OBVIOUS
<1> HIDE DEF g
<1>3. \A x \in S \cup {p} : \E j \in 1 .. n + 1 : g[j] = x
  BY <1>1, <1>2
<1>4. \A j, l \in 1 .. n + 1 : g[j] = g[l] => j = l
  BY <1>1, <1>2
<1> QED
  BY <1>2, <1>3, <1>4, Zenon DEF HasSize

\* The last element takes the number of one that is removed.
LEMMA RemoveElement ==
    ASSUME NEW S, NEW n \in Nat, HasSize(S, n), NEW p \in S
    PROVE  n # 0 /\ HasSize(S \ {p}, n - 1)
<1>1. PICK f \in [1 .. n -> S] : /\ \A x \in S : \E j \in 1 .. n : f[j] = x
                                /\ \A j, l \in 1 .. n : f[j] = f[l] => j = l
  BY DEF HasSize
<1>2. PICK q \in 1 .. n : f[q] = p
  BY <1>1
<1>3. n # 0 /\ n - 1 \in Nat /\ n \in 1 .. n
  BY <1>2
<1> DEFINE g == [j \in 1 .. n - 1 |-> IF j = q THEN f[n] ELSE f[j]]
<1>4. /\ \A j \in 1 .. n - 1 : g[j] = IF j = q THEN f[n] ELSE f[j]
      /\ \A j \in 1 .. n - 1 : j \in 1 .. n /\ j # n
      /\ \A j \in 1 .. n : j = n \/ j \in 1 .. n - 1
  BY <1>3
<1>5. \A j \in 1 .. n - 1 : g[j] \in S /\ g[j] # p
  BY <1>1, <1>2, <1>3, <1>4
<1>6. g \in [1 .. n - 1 -> S \ {p}]
  BY <1>5
<1> HIDE DEF g
<1>7. \A x \in S \ {p} : \E j \in 1 .. n - 1 : g[j] = x
  BY <1>1, <1>2, <1>3, <1>4
<1>8. \A j, l \in 1 .. n - 1 : g[j] = g[l] => j = l
  BY <1>1, <1>2, <1>3, <1>4
<1> QED
  BY <1>3, <1>6, <1>7, <1>8, Zenon DEF HasSize

\* A name that is inserted counts for the node it leads to.
LEMMA InsertCounts ==
    ASSUME NEW k \in Trees, NEW p \in Places, NEW i \in Nodes, k[p] # i,
           NEW n \in Nat, HasSize(NamesIn(k, i), n)
    PROVE  HasSize(NamesIn([k EXCEPT ![p] = i], i), n + 1)
<1>1. NamesIn([k EXCEPT ![p] = i], i) = NamesIn(k, i) \cup {p} /\ p \notin NamesIn(k, i)
  BY DEF NamesIn, Trees
<1>2. HasSize(NamesIn(k, i) \cup {p}, n + 1)
  BY <1>1, AddElement
<1> QED
  BY <1>1, <1>2, Zenon

\* A name that is removed no longer counts for the node it led to.
LEMMA RemoveCounts ==
    ASSUME NEW k \in Trees, NEW p \in Places, k[p] # None,
           NEW n \in Nat, HasSize(NamesIn(k, k[p]), n)
    PROVE  n # 0 /\ HasSize(NamesIn([k EXCEPT ![p] = None], k[p]), n - 1)
<1>1. /\ NamesIn([k EXCEPT ![p] = None], k[p]) = NamesIn(k, k[p]) \ {p}
      /\ p \in NamesIn(k, k[p])
  BY DEF NamesIn, Trees
<1> QED
  BY <1>1, RemoveElement, Zenon

\* For the other nodes the names stay the same.
LEMMA OthersCount ==
    ASSUME NEW k \in Trees, NEW p \in Places, NEW x \in Nodes \cup {None},
           NEW i \in Nodes, i # x, i # k[p]
    PROVE  NamesIn([k EXCEPT ![p] = x], i) = NamesIn(k, i)
BY DEF NamesIn, Trees

\* A node without names has no place that leads to it, and the other way round.
LEMMA NoNamesIn ==
    ASSUME NEW k, NEW i, NEW n \in Nat, HasSize(NamesIn(k, i), n)
    PROVE  n = 0 <=> \A p \in Places : k[p] # i
<1>1. n = 0 <=> NamesIn(k, i) = {}
  BY NoElement
<1> QED
  BY <1>1 DEF NamesIn

\* A node in a directory that can be reached can be reached.
LEMMA ReachVia ==
    ASSUME NEW k, NEW i \in Nodes, NEW d \in Nodes, d \in UpOf(k, i), d = Root \/ Reaches(k, d)
    PROVE  Reaches(k, i)
BY DEF Reaches

\* An insertion at a free place cuts nothing off.
LEMMA ReachInsert ==
    ASSUME NEW k \in Trees, NEW p \in Places, k[p] = None, NEW x \in Nodes,
           NEW i \in Nodes, Reaches(k, i)
    PROVE  Reaches([k EXCEPT ![p] = x], i)
<1> DEFINE k2 == [k EXCEPT ![p] = x]
<1>1. \A j \in Nodes : UpOf(k, j) \subseteq UpOf(k2, j)
  <2> SUFFICES ASSUME NEW j \in Nodes, NEW d \in Nodes, NEW n \in Names, k[<<d, n>>] = j
               PROVE  k2[<<d, n>>] = j
    BY Zenon DEF UpOf
  <2> QED
    BY NodeFacts DEF Trees, Places
<1> HIDE DEF k2
<1>2. Reaches(k2, i)
  BY <1>1, Zenon DEF Reaches
<1> QED
  BY <1>2 DEF k2

\* A node that nothing is in can lose a name, and the others can be reached as before.
LEMMA ReachRemove ==
    ASSUME NEW k \in Trees, NEW p \in Places, NEW c \in Nodes, k[p] = c,
           \A j \in Nodes : c \notin UpOf(k, j),
           NEW i \in Nodes, i # c, Reaches(k, i)
    PROVE  Reaches([k EXCEPT ![p] = None], i)
<1> DEFINE k2 == [k EXCEPT ![p] = None]
<1>1. \A j \in Nodes : j # c => UpOf(k2, j) = UpOf(k, j)
  BY NodeFacts, Zenon DEF UpOf, Trees, Places
<1> HIDE DEF k2
<1> SUFFICES ASSUME NEW S \in SUBSET Nodes, UpOf(k2, i) \subseteq S,
                    \A j \in S : UpOf(k2, j) \subseteq S
             PROVE  Root \in S
  BY Zenon DEF Reaches, k2
<1>2. UpOf(k, i) \subseteq S \ {c} /\ \A j \in S \ {c} : UpOf(k, j) \subseteq S \ {c}
  BY <1>1
<1> QED
  BY <1>2, Zenon DEF Reaches

\* A node c can get another name in e when it is neither e nor above e: S0 is a set that
\* holds what is above e, and not c.
LEMMA ReachMove ==
    ASSUME NEW k, NEW k2, NEW c \in Nodes, NEW e \in Nodes, c # e,
           \A j \in Nodes : j # c => UpOf(k2, j) = UpOf(k, j),
           e \in UpOf(k2, c),
           NEW S0 \in SUBSET Nodes, UpOf(k, e) \subseteq S0, c \notin S0,
           \A j \in S0 : UpOf(k, j) \subseteq S0,
           e = Root \/ Reaches(k, e),
           NEW i \in Nodes, i = c \/ Reaches(k, i)
    PROVE  Reaches(k2, i)
<1>1. ASSUME NEW x \in Nodes, x # c, Reaches(k, x), NEW S \in SUBSET Nodes,
             UpOf(k2, x) \subseteq S, \A j \in S : UpOf(k2, j) \subseteq S
      PROVE  Root \in S
  <2>1. CASE c \notin S
    <3>1. UpOf(k, x) \subseteq S /\ \A j \in S : UpOf(k, j) \subseteq S
      BY <1>1, <2>1
    <3> QED
      BY <1>1, <3>1 DEF Reaches
  <2>2. CASE c \in S
    <3>1. e \in S
      BY <1>1, <2>2
    <3> DEFINE T == S \cap (S0 \cup {e})
    <3>2. UpOf(k, e) \subseteq T
      BY <1>1, <3>1
    <3>3. \A j \in T : UpOf(k, j) \subseteq T
      BY <1>1, <3>1
    <3>4. CASE e = Root
      BY <3>1, <3>4
    <3>5. CASE Reaches(k, e)
      <4>1. T \in SUBSET Nodes /\ T \subseteq S
        OBVIOUS
      <4> HIDE DEF T
      <4> QED
        BY <3>2, <3>3, <3>5, <4>1 DEF Reaches
    <3> QED
      BY <3>4, <3>5
  <2> QED
    BY <2>1, <2>2
<1>2. \A x \in Nodes : x # c /\ Reaches(k, x) => Reaches(k2, x)
  BY <1>1 DEF Reaches
<1>3. e = Root \/ Reaches(k2, e)
  BY <1>2
<1>4. CASE i = c
  BY <1>3, <1>4, ReachVia
<1> QED
  BY <1>2, <1>4

----------------------------------------------------------------------------
(* The tree of a state                                                     *)

\* TreeConnected and LinksAgree in the terms of the lemmas above.
LEMMA Views ==
    TypeOK => /\ kids \in Trees
              /\ \A i \in Nodes : UpOf(kids, i) = Parents(i)
              /\ \A i \in Nodes : Root \in Above(i) <=> Reaches(kids, i)
              /\ \A i \in Inos : NamesIn(kids, i) =
                    {p \in Nodes \X Names : IsDir(p[1]) /\ Child(p[1], p[2]) = i}
<1> SUFFICES ASSUME TypeOK
             PROVE  /\ kids \in Trees
                    /\ \A i \in Nodes : UpOf(kids, i) = Parents(i)
                    /\ \A i \in Nodes : Root \in Above(i) <=> Reaches(kids, i)
                    /\ \A i \in Inos : NamesIn(kids, i) =
                          {p \in Nodes \X Names : IsDir(p[1]) /\ Child(p[1], p[2]) = i}
  OBVIOUS
<1>1. ASSUME NEW p \in Places, IsDir(p[1])
      PROVE  Child(p[1], p[2]) \in Nodes \cup {None}
  BY <1>1 DEF TypeOK, IsDir, Child, INode, Places
<1>2. kids \in Trees
  BY <1>1, Zenon DEF kids, Trees
<1>3. \A p \in Places : kids[p] = IF IsDir(p[1]) THEN Child(p[1], p[2]) ELSE None
  BY DEF kids
<1>4. \A d \in Nodes, n \in Names :
        kids[<<d, n>>] = IF IsDir(d) THEN Child(d, n) ELSE None
  BY <1>3 DEF Places
<1>5. ASSUME NEW i \in Nodes PROVE UpOf(kids, i) = Parents(i)
  BY <1>4, NodeFacts, Zenon DEF UpOf, Parents
<1>6. ASSUME NEW i \in Nodes PROVE Root \in Above(i) <=> Reaches(kids, i)
  <2>1. \A S \in SUBSET Nodes : (\A j \in S : UpOf(kids, j) \subseteq S) <=> UpClosed(S)
    BY <1>5 DEF UpClosed
  <2> QED
    BY <1>5, <2>1, NodeFacts, SMTT(30) DEF Reaches, Above
<1>7. ASSUME NEW i \in Inos
      PROVE  NamesIn(kids, i) =
                {p \in Nodes \X Names : IsDir(p[1]) /\ Child(p[1], p[2]) = i}
  BY <1>3, NodeFacts DEF NamesIn, Places
<1> QED
  BY <1>2, <1>5, <1>6, <1>7

\* The inductive invariant is strong enough.
LEMMA IInvWhole == IInv => TreeWhole
<1> SUFFICES ASSUME IInv PROVE TreeWhole
  OBVIOUS
<1> USE DEF IInv
<1>1. NamesResolve
  <2>1. ASSUME NEW d \in Nodes, NEW n \in Names, IsDir(d), Child(d, n) # None
        PROVE  inodes[Child(d, n)] # None
    <3>1. <<d, n>> \in Places /\ kids[<<d, n>>] = Child(d, n)
      BY <2>1 DEF kids, Places
    <3> QED
      BY <2>1, <3>1 DEF TreeOK
  <2> QED
    BY <2>1, Zenon DEF NamesResolve, Fresh
<1>2. LinksAgree
  BY Views, Zenon DEF LinksAgree, TreeOK
<1>3. TreeConnected
  BY Views, NodeFacts, Zenon DEF TreeConnected, TreeOK
<1> QED
  BY <1>1, <1>2, <1>3 DEF TreeWhole

\* What a name of a directory and an entry of the kernel's cache lead to.
LEMMA KidFacts ==
    IInv => \A d \in Nodes, n \in Names :
        /\ <<d, n>> \in Places
        /\ kids[<<d, n>>] = IF IsDir(d) THEN Child(d, n) ELSE None
        /\ kids[<<d, n>>] # None => kids[<<d, n>>] \in Inos /\ inodes[kids[<<d, n>>]] \in INode
        /\ dcache[d][n] # "none" =>
             /\ IsDir(d) /\ kids[<<d, n>>] = Child(d, n)
             /\ Child(d, n) \in Inos /\ inodes[Child(d, n)] \in INode
        /\ dcache[d][n] = "cached" => knl[Child(d, n)] > 0 /\ inodes[Child(d, n)].refcount > 0
<1> SUFFICES ASSUME IInv, NEW d \in Nodes, NEW n \in Names
             PROVE  /\ <<d, n>> \in Places
                    /\ kids[<<d, n>>] = IF IsDir(d) THEN Child(d, n) ELSE None
                    /\ kids[<<d, n>>] # None =>
                         kids[<<d, n>>] \in Inos /\ inodes[kids[<<d, n>>]] \in INode
                    /\ dcache[d][n] # "none" =>
                         /\ IsDir(d) /\ kids[<<d, n>>] = Child(d, n)
                         /\ Child(d, n) \in Inos /\ inodes[Child(d, n)] \in INode
                    /\ dcache[d][n] = "cached" =>
                         knl[Child(d, n)] > 0 /\ inodes[Child(d, n)].refcount > 0
  BY Zenon
<1>1. <<d, n>> \in Places
  BY DEF Places
<1>2. kids[<<d, n>>] = IF IsDir(d) THEN Child(d, n) ELSE None
  BY <1>1 DEF kids
<1>3. kids[<<d, n>>] # None => kids[<<d, n>>] \in Inos /\ inodes[kids[<<d, n>>]] \in INode
  BY <1>1, NodeFacts, Zenon DEF IInv, TreeOK, TypeOK
<1>4. dcache[d][n] # "none" =>
        /\ IsDir(d) /\ kids[<<d, n>>] = Child(d, n)
        /\ Child(d, n) \in Inos /\ inodes[Child(d, n)] \in INode
  BY <1>2, <1>3 DEF IInv, CacheSound
<1>5. dcache[d][n] = "cached" => knl[Child(d, n)] > 0 /\ inodes[Child(d, n)].refcount > 0
  <2> SUFFICES ASSUME dcache[d][n] = "cached"
               PROVE  knl[Child(d, n)] > 0 /\ inodes[Child(d, n)].refcount > 0
    OBVIOUS
  <2> DEFINE i == Child(d, n)
  <2>1. i \in Inos /\ inodes[i] # None /\ knl[i] > 0
    BY <1>4, MemFSAssumption DEF IInv, CacheSound
  <2>2. Refs(i) = inodes[i].refcount
    BY <2>1 DEF IInv, CountsAgree
  <2>3. knl[i] \in Nat /\ granted[i] \in Nat /\ forgets[i] \in Nat
    BY <2>1 DEF IInv, TypeOK, KTypeOK
  <2> QED
    BY <2>1, <2>2, <2>3 DEF Refs
<1> QED
  BY <1>1, <1>2, <1>3, <1>4, <1>5

----------------------------------------------------------------------------
(* Steps that leave the tree alone                                         *)

\* All that a node is but its refcount.
SameNode(x, y) ==
    x.kind = y.kind /\ x.links = y.links /\ x.nlink = y.nlink /\ x.children = y.children

\* A step that changes nothing but refcounts, and removes no node that has a name.
KeepsTree ==
    /\ next_ino' = next_ino
    /\ \A i \in Nodes :
         /\ inodes[i] = None => inodes'[i] = None
         /\ inodes[i] # None /\ inodes'[i] = None => i \in Inos /\ inodes[i].links = 0
         /\ inodes[i] # None /\ inodes'[i] # None => SameNode(inodes'[i], inodes[i])

\* Such a step keeps everything about the tree.
LEMMA TreeKept ==
    ASSUME IInv, KeepsTree
    PROVE  kids' = kids /\ TreeOK' /\ RootStays' /\ Fresh' /\ RemovedEmpty'
<1>1. ASSUME NEW p \in Places
      PROVE  (IF IsDir(p[1])' THEN Child(p[1], p[2])' ELSE None)
               = (IF IsDir(p[1]) THEN Child(p[1], p[2]) ELSE None)
  <2>1. p[1] \in Nodes /\ p[2] \in Names
    BY DEF Places
  <2>2. CASE inodes[p[1]] = None
    BY <2>1, <2>2 DEF KeepsTree, IsDir
  <2>3. CASE inodes[p[1]] # None /\ inodes'[p[1]] = None
    <3>1. inodes[p[1]].children = NoNames
      BY <2>1, <2>3 DEF KeepsTree, IInv, RemovedEmpty
    <3> QED
      BY <2>1, <2>3, <3>1 DEF IsDir, Child, NoNames
  <2>4. CASE inodes[p[1]] # None /\ inodes'[p[1]] # None
    BY <2>1, <2>4 DEF KeepsTree, IsDir, Child, SameNode
  <2> QED
    BY <2>2, <2>3, <2>4
<1>2. kids' = kids
  BY <1>1 DEF kids
<1>3. TreeOK'
  <2>1. ASSUME NEW p \in Places, kids[p] # None
        PROVE  kids[p] \in Inos /\ inodes'[kids[p]] # None
    <3> DEFINE i == kids[p]
    <3>1. i \in Inos /\ i \in Nodes /\ inodes[i] # None
      BY <2>1, NodeFacts, Zenon DEF IInv, TreeOK
    <3>2. inodes[i].links \in Nat /\ HasSize(NamesIn(kids, i), inodes[i].links)
      BY <3>1 DEF IInv, TypeOK, INode, TreeOK
    <3>3. inodes[i].links = 0 <=> \A q \in Places : kids[q] # i
      BY <3>2, NoNamesIn, ZenonT(60)
    <3> QED
      BY <3>1, <3>3 DEF KeepsTree
  <2>2. ASSUME NEW i \in Inos, inodes'[i] # None
        PROVE  /\ HasSize(NamesIn(kids, i), inodes'[i].links)
               /\ inodes'[i].nlink = inodes'[i].links + (IF inodes'[i].kind = "dir" THEN 1 ELSE 0)
               /\ inodes'[i].links > 0 => Reaches(kids, i)
    <3>1. i \in Nodes /\ inodes[i] # None /\ SameNode(inodes'[i], inodes[i])
      BY <2>2, NodeFacts DEF KeepsTree
    <3> QED
      BY <3>1 DEF SameNode, IInv, TreeOK
  <2> QED
    BY <1>2, <2>1, <2>2, ZenonT(60) DEF TreeOK
<1>4. RootStays'
  BY NodeFacts DEF IInv, RootStays, KeepsTree, SameNode
<1>5. Fresh'
  BY NodeFacts DEF IInv, Fresh, KeepsTree
<1>6. RemovedEmpty'
  BY DEF IInv, RemovedEmpty, KeepsTree, SameNode
<1> QED
  BY <1>2, <1>3, <1>4, <1>5, <1>6

\* Arrives: the kernel's reference is counted, and the entry is in its cache.
LEMMA ArrivesStep ==
    ASSUME IInv, NEW d \in Nodes, NEW n \in Names, Arrives(d, n)
    PROVE  IInv'
<1> DEFINE c == Child(d, n)
<1>1. c \in Inos /\ kids[<<d, n>>] = c
  BY KidFacts DEF Arrives
<1> HIDE DEF c
<1>2. /\ granted[c] > 0
      /\ granted' = [granted EXCEPT ![c] = @ - 1] /\ knl' = [knl EXCEPT ![c] = @ + 1]
      /\ forgets' = forgets /\ inodes' = inodes /\ next_ino' = next_ino
      /\ dcache' = [dcache EXCEPT ![d][n] = "cached"]
  BY DEF Arrives, Takes, SetEntry, c
<1>3. TypeOK'
  BY <1>1, <1>2 DEF IInv, TypeOK, KTypeOK
<1>4. kids' = kids /\ TreeOK' /\ RootStays' /\ Fresh' /\ RemovedEmpty'
  <2>1. KeepsTree
    BY <1>2, Zenon DEF KeepsTree, SameNode
  <2> QED
    BY <2>1, TreeKept
<1>5. \A i \in Inos : Refs(i)' = Refs(i)
  BY <1>1, <1>2 DEF Refs, IInv, TypeOK, KTypeOK
<1>6. CountsAgree' /\ NothingLeaks'
  BY <1>2, <1>5 DEF IInv, CountsAgree, NothingLeaks
<1>7. CacheSound'
  <2>1. \A i \in Inos : knl[i] > 0 => knl'[i] > 0
    BY <1>1, <1>2 DEF IInv, TypeOK, KTypeOK
  <2>2. knl'[c] > 0
    BY <1>1, <1>2 DEF IInv, TypeOK, KTypeOK
  <2>3. \A e \in Nodes, m \in Names :
          dcache'[e][m] = IF e = d /\ m = n THEN "cached" ELSE dcache[e][m]
    BY <1>2 DEF IInv, TypeOK
  <2>4. ASSUME NEW e \in Nodes, NEW m \in Names, dcache'[e][m] # "none"
        PROVE  /\ kids[<<e, m>>] # None
               /\ dcache'[e][m] = "cached" => knl'[kids[<<e, m>>]] > 0
    <3>1. CASE e = d /\ m = n
      BY <1>1, <2>2, <3>1, NodeFacts, SMTT(30)
    <3>2. CASE ~(e = d /\ m = n)
      <4>1. dcache'[e][m] = dcache[e][m]
        BY <2>3, <3>2
      <4> QED
        BY <2>1, <2>4, <4>1, KidFacts DEF IInv, CacheSound
    <3> QED
      BY <3>1, <3>2
  <2> QED
    BY <1>4, <2>4, Zenon DEF CacheSound
<1> QED
  BY <1>3, <1>4, <1>6, <1>7 DEF IInv

\* Drop: the cache shrinks.
LEMMA DropStep ==
    ASSUME IInv, NEW d \in Nodes, NEW n \in Names, Drop(d, n)
    PROVE  IInv'
<1>1. /\ inodes' = inodes /\ next_ino' = next_ino
      /\ knl' = knl /\ granted' = granted /\ forgets' = forgets
      /\ dcache' = [dcache EXCEPT ![d][n] = "none"]
  BY DEF Drop, SetEntry, kvars
<1>2. TypeOK'
  BY <1>1 DEF IInv, TypeOK, KTypeOK
<1>3. kids' = kids /\ TreeOK' /\ RootStays' /\ Fresh' /\ RemovedEmpty'
  <2>1. KeepsTree
    BY <1>1, Zenon DEF KeepsTree, SameNode
  <2> QED
    BY <2>1, TreeKept
<1>4. CountsAgree' /\ NothingLeaks'
  BY <1>1 DEF IInv, CountsAgree, NothingLeaks, Refs
<1>5. CacheSound'
  <2>1. \A e \in Nodes, m \in Names :
          dcache'[e][m] = IF e = d /\ m = n THEN "none" ELSE dcache[e][m]
    BY <1>1 DEF IInv, TypeOK
  <2> QED
    BY <1>1, <1>3, <2>1 DEF IInv, CacheSound
<1> QED
  BY <1>2, <1>3, <1>4, <1>5 DEF IInv

\* Evict: no cached name leads to the inode whose references are given up.
LEMMA EvictStep ==
    ASSUME IInv, NEW i \in Inos, Evict(i)
    PROVE  IInv'
<1>1. /\ inodes' = inodes /\ next_ino' = next_ino /\ dcache' = dcache /\ granted' = granted
      /\ knl' = [knl EXCEPT ![i] = 0] /\ forgets' = [forgets EXCEPT ![i] = @ + knl[i]]
  BY DEF Evict, Evicts, mvars
<1>2. TypeOK'
  BY <1>1 DEF IInv, TypeOK, KTypeOK
<1>3. kids' = kids /\ TreeOK' /\ RootStays' /\ Fresh' /\ RemovedEmpty'
  <2>1. KeepsTree
    BY <1>1, Zenon DEF KeepsTree, SameNode
  <2> QED
    BY <2>1, TreeKept
<1>4. \A j \in Inos : Refs(j)' = Refs(j)
  BY <1>1 DEF Refs, IInv, TypeOK, KTypeOK
<1>5. CountsAgree' /\ NothingLeaks'
  BY <1>1, <1>4 DEF IInv, CountsAgree, NothingLeaks
<1>6. CacheSound'
  <2>1. ASSUME NEW e \in Nodes, NEW m \in Names, dcache[e][m] = "cached"
        PROVE  knl'[kids[<<e, m>>]] > 0
    <3>1. kids[<<e, m>>] = Child(e, m) /\ Child(e, m) \in Inos /\ knl[Child(e, m)] > 0
      BY <2>1, KidFacts
    <3>2. Child(e, m) # i
      BY <2>1 DEF Evict
    <3> QED
      BY <1>1, <3>1, <3>2, Zenon DEF IInv, TypeOK, KTypeOK
  <2> QED
    BY <1>1, <1>3, <2>1 DEF IInv, CacheSound
<1> QED
  BY <1>2, <1>3, <1>5, <1>6 DEF IInv

\* A LOOKUP adds to the refcount of one node.
LEMMA CountUp ==
    ASSUME IInv, NEW c \in Inos, inodes[c] \in INode,
           inodes' = [inodes EXCEPT ![c].refcount = @ + 1], next_ino' = next_ino
    PROVE  /\ inodes' \in [Nodes -> INode \cup {None}]
           /\ kids' = kids /\ TreeOK' /\ RootStays' /\ Fresh' /\ RemovedEmpty'
           /\ inodes'[c] # None /\ inodes'[c].refcount = inodes[c].refcount + 1
           /\ \A i \in Inos : i # c => inodes'[i] = inodes[i]
           /\ NothingLeaks'
<1>1. c \in Nodes /\ inodes \in [Nodes -> INode \cup {None}]
  BY NodeFacts DEF IInv, TypeOK
<1>2. [inodes[c] EXCEPT !.refcount = @ + 1] \in INode
  BY DEF INode
<1>3. inodes' = [inodes EXCEPT ![c] = [inodes[c] EXCEPT !.refcount = @ + 1]]
  BY <1>1
<1>4. inodes' \in [Nodes -> INode \cup {None}]
  BY <1>1, <1>2, <1>3
<1>5. /\ inodes'[c] # None /\ inodes[c] # None
      /\ inodes'[c].refcount = inodes[c].refcount + 1
      /\ SameNode(inodes'[c], inodes[c])
  BY <1>1, <1>2, <1>3, MemFSAssumption DEF SameNode, INode
<1>6. \A i \in Nodes : i # c => inodes'[i] = inodes[i]
  BY <1>1, <1>3
<1>7. KeepsTree
  BY <1>5, <1>6 DEF KeepsTree, SameNode
<1>8. kids' = kids /\ TreeOK' /\ RootStays' /\ Fresh' /\ RemovedEmpty'
  BY <1>7, TreeKept
<1>9. NothingLeaks'
  <2>1. inodes[c].refcount \in Nat
    BY DEF INode
  <2> QED
    BY <1>5, <1>6, <2>1, NodeFacts DEF IInv, NothingLeaks
<1> QED
  BY <1>4, <1>5, <1>6, <1>8, <1>9, NodeFacts

\* The kernel gets a reference to c, or a reply with one is on its way to it.
LEMMA OneMore ==
    ASSUME KTypeOK, CountsAgree, NEW c \in Inos, forgets' = forgets,
           \/ granted' = [granted EXCEPT ![c] = @ + 1] /\ knl' = knl
           \/ knl' = [knl EXCEPT ![c] = @ + 1] /\ granted' = granted,
           inodes[c] # None, inodes'[c] # None, inodes'[c].refcount = inodes[c].refcount + 1,
           \A i \in Inos : i # c => inodes'[i] = inodes[i]
    PROVE  KTypeOK' /\ CountsAgree' /\ \A i \in Inos : knl[i] > 0 => knl'[i] > 0
<1>1. KTypeOK' /\ \A i \in Inos : knl[i] > 0 => knl'[i] > 0
  BY DEF KTypeOK
<1>2. Refs(c)' = Refs(c) + 1 /\ \A i \in Inos : i # c => Refs(i)' = Refs(i)
  BY DEF Refs, KTypeOK
<1>3. ASSUME NEW i \in Inos
      PROVE  Refs(i)' = IF inodes'[i] = None THEN 0 ELSE inodes'[i].refcount
  <2>1. CASE i = c
    <3>1. Refs(c) = inodes[c].refcount
      BY DEF CountsAgree
    <3> QED
      BY <1>2, <2>1, <3>1
  <2>2. CASE i # c
    BY <1>2, <2>2 DEF CountsAgree
  <2> QED
    BY <2>1, <2>2
<1> QED
  BY <1>1, <1>3, Zenon DEF CountsAgree

\* lookup: a reference is on its way to the kernel.
LEMMA lookupStep ==
    ASSUME IInv, NEW d \in Nodes, NEW n \in Names, lookup(d, n)
    PROVE  IInv'
<1> DEFINE c == Child(d, n)
<1>1. c \in Inos /\ kids[<<d, n>>] = c /\ inodes[c] \in INode
  BY KidFacts DEF lookup, LooksIn
<1> HIDE DEF c
<1>2. /\ inodes' = [inodes EXCEPT ![c].refcount = @ + 1] /\ next_ino' = next_ino
      /\ granted' = [granted EXCEPT ![c] = @ + 1] /\ knl' = knl /\ forgets' = forgets
      /\ dcache' = [dcache EXCEPT ![d][n] = "reply"]
  BY DEF lookup, Grants, SetEntry, c
<1>3. /\ inodes' \in [Nodes -> INode \cup {None}]
      /\ kids' = kids /\ TreeOK' /\ RootStays' /\ Fresh' /\ RemovedEmpty'
      /\ inodes'[c] # None /\ inodes'[c].refcount = inodes[c].refcount + 1
      /\ \A i \in Inos : i # c => inodes'[i] = inodes[i]
      /\ NothingLeaks'
  BY <1>1, <1>2, CountUp, Zenon
<1>4. inodes[c] # None
  BY <1>1, MemFSAssumption
<1>5. KTypeOK' /\ CountsAgree' /\ \A i \in Inos : knl[i] > 0 => knl'[i] > 0
  BY <1>1, <1>2, <1>3, <1>4, OneMore, Zenon DEF IInv, TypeOK
<1>6. TypeOK'
  BY <1>2, <1>3, <1>5 DEF IInv, TypeOK
<1>7. CacheSound'
  <2>1. \A e \in Nodes, m \in Names :
          dcache'[e][m] = IF e = d /\ m = n THEN "reply" ELSE dcache[e][m]
    BY <1>2 DEF IInv, TypeOK
  <2>2. kids[<<d, n>>] # None
    BY <1>1, NodeFacts
  <2> QED
    BY <1>2, <1>3, <2>1, <2>2 DEF IInv, CacheSound
<1> QED
  BY <1>3, <1>5, <1>6, <1>7 DEF IInv

\* revalidate: the kernel has one reference more.
LEMMA revalidateStep ==
    ASSUME IInv, NEW d \in Nodes, NEW n \in Names, revalidate(d, n)
    PROVE  IInv'
<1> DEFINE c == Child(d, n)
<1>1. c \in Inos /\ kids[<<d, n>>] = c /\ inodes[c] \in INode
  BY KidFacts DEF revalidate
<1> HIDE DEF c
<1>2. /\ inodes' = [inodes EXCEPT ![c].refcount = @ + 1] /\ next_ino' = next_ino
      /\ knl' = [knl EXCEPT ![c] = @ + 1] /\ granted' = granted /\ forgets' = forgets
      /\ dcache' = dcache
  BY DEF revalidate, c
<1>3. /\ inodes' \in [Nodes -> INode \cup {None}]
      /\ kids' = kids /\ TreeOK' /\ RootStays' /\ Fresh' /\ RemovedEmpty'
      /\ inodes'[c] # None /\ inodes'[c].refcount = inodes[c].refcount + 1
      /\ \A i \in Inos : i # c => inodes'[i] = inodes[i]
      /\ NothingLeaks'
  BY <1>1, <1>2, CountUp, Zenon
<1>4. inodes[c] # None
  BY <1>1, MemFSAssumption
<1>5. KTypeOK' /\ CountsAgree' /\ \A i \in Inos : knl[i] > 0 => knl'[i] > 0
  BY <1>1, <1>2, <1>3, <1>4, OneMore, Zenon DEF IInv, TypeOK
<1>6. TypeOK'
  BY <1>2, <1>3, <1>5 DEF IInv, TypeOK
<1>7. CacheSound'
  <2>1. \A e \in Nodes, m \in Names : dcache[e][m] = "cached" => kids[<<e, m>>] \in Inos
    BY KidFacts
  <2> QED
    BY <1>2, <1>3, <1>5, <2>1, Zenon DEF IInv, CacheSound
<1> QED
  BY <1>3, <1>5, <1>6, <1>7 DEF IInv

\* forget: a node goes only with its last reference and without a name.
LEMMA forgetStep ==
    ASSUME IInv, NEW i \in Inos, NEW n \in 1 .. forgets[i], forget(i, n)
    PROVE  IInv'
<1>1. i \in Nodes /\ inodes \in [Nodes -> INode \cup {None}]
  BY NodeFacts DEF IInv, TypeOK
<1>2. /\ forgets' = [forgets EXCEPT ![i] = @ - n] /\ knl' = knl /\ granted' = granted
      /\ next_ino' = next_ino /\ dcache' = dcache
  BY DEF forget, Returns
<1>3. /\ knl[i] \in Nat /\ granted[i] \in Nat /\ forgets[i] \in Nat /\ n \in Nat
      /\ 1 <= n /\ n <= forgets[i]
  BY DEF IInv, TypeOK, KTypeOK
<1>4. inodes[i] \in INode /\ inodes[i] # None /\ Refs(i) = inodes[i].refcount
  BY <1>1, <1>3 DEF IInv, CountsAgree, Refs
<1> DEFINE left == inodes[i].refcount - n
<1>5. left \in Nat /\ left = (IF inodes[i].refcount > n THEN inodes[i].refcount - n ELSE 0)
  BY <1>3, <1>4 DEF Refs, INode
<1>6. inodes' = [inodes EXCEPT ![i] = IF left = 0 /\ inodes[i].links = 0 THEN None
                                      ELSE [inodes[i] EXCEPT !.refcount = left]]
  BY <1>1, <1>4, <1>5, ZenonT(60) DEF forget
<1> HIDE DEF left
<1>7. [inodes[i] EXCEPT !.refcount = left] \in INode
  BY <1>4, <1>5 DEF INode
<1>8. TypeOK'
  BY <1>1, <1>2, <1>3, <1>6, <1>7 DEF IInv, TypeOK, KTypeOK
<1>9. \A j \in Nodes : j # i => inodes'[j] = inodes[j]
  BY <1>1, <1>6
<1>10. /\ inodes'[i] = None => left = 0 /\ inodes[i].links = 0
       /\ inodes'[i] # None => /\ inodes'[i].refcount = left
                               /\ SameNode(inodes'[i], inodes[i])
                               /\ left # 0 \/ inodes[i].links # 0
  BY <1>1, <1>4, <1>6, <1>7, MemFSAssumption DEF SameNode, INode
<1>11. kids' = kids /\ TreeOK' /\ RootStays' /\ Fresh' /\ RemovedEmpty'
  <2>1. KeepsTree
    BY <1>2, <1>4, <1>9, <1>10 DEF KeepsTree, SameNode
  <2> QED
    BY <2>1, TreeKept, Zenon
<1>12. Refs(i)' = left /\ \A j \in Inos : j # i => Refs(j)' = Refs(j)
  BY <1>2, <1>3, <1>4 DEF Refs, IInv, TypeOK, KTypeOK, left
<1>13. CountsAgree'
  BY <1>9, <1>10, <1>12, NodeFacts, Zenon DEF IInv, CountsAgree
<1>14. NothingLeaks'
  <2>1. inodes[i].links \in Nat
    BY <1>4, Zenon DEF INode
  <2>2. inodes'[i] # None => inodes'[i].links > 0 \/ inodes'[i].refcount > 0
    BY <1>5, <1>10, <2>1, SMTT(30) DEF SameNode
  <2> QED
    BY <1>9, <2>2, NodeFacts, Zenon DEF IInv, NothingLeaks
<1>15. CacheSound'
  BY <1>2, <1>11 DEF IInv, CacheSound
<1> QED
  BY <1>8, <1>11, <1>13, <1>14, <1>15 DEF IInv

----------------------------------------------------------------------------
(* Steps that add a name                                                   *)

\* A directory that the kernel uses is in the tree.
LEMMA LooksInReaches ==
    ASSUME IInv, NEW d \in Nodes, LooksIn(d)
    PROVE  /\ d = Root \/ Reaches(kids, d)
           /\ inodes[d] \in INode /\ inodes[d] # None /\ IsDir(d) /\ inodes[d].links > 0
BY NodeFacts DEF LooksIn, IsDir, IInv, TreeOK, TypeOK

\* A step that inserts a name for x at a free place, and counts it.
Inserts(d, n, x) ==
    /\ kids' = [kids EXCEPT ![<<d, n>>] = x]
    /\ inodes'[x] # None
    /\ inodes'[x].links = (IF inodes[x] = None THEN 0 ELSE inodes[x].links) + 1
    /\ inodes'[x].nlink = inodes'[x].links + (IF inodes'[x].kind = "dir" THEN 1 ELSE 0)
    /\ \A i \in Nodes : i # x =>
         /\ inodes'[i] = None <=> inodes[i] = None
         /\ inodes[i] # None => /\ inodes'[i].kind = inodes[i].kind
                                /\ inodes'[i].links = inodes[i].links
                                /\ inodes'[i].nlink = inodes[i].nlink

\* Such a step keeps the tree.
LEMMA TreeInsert ==
    ASSUME IInv, NEW d \in Nodes, NEW n \in Names, NEW x \in Inos,
           LooksIn(d), kids[<<d, n>>] = None, Inserts(d, n, x)
    PROVE  TreeOK'
<1>1. /\ kids \in Trees /\ <<d, n>> \in Places /\ x \in Nodes /\ x # None
      /\ \A i \in Inos : i \in Nodes
  BY Views, NodeFacts, Zenon DEF IInv, Places
<1>2. kids' = [kids EXCEPT ![<<d, n>>] = x]
  BY DEF Inserts
<1>3. \A p \in Places : kids'[p] = IF p = <<d, n>> THEN x ELSE kids[p]
  BY <1>1, <1>2 DEF Trees
<1>4. ASSUME NEW p \in Places, kids'[p] # None
      PROVE  kids'[p] \in Inos /\ inodes'[kids'[p]] # None
  <2>1. CASE kids'[p] = x
    BY <2>1, Zenon DEF Inserts
  <2>2. CASE kids'[p] # x
    <3>1. kids'[p] = kids[p]
      BY <1>3, <2>2, Zenon
    <3>2. kids[p] \in Inos /\ inodes[kids[p]] # None
      BY <1>4, <3>1, Zenon DEF IInv, TreeOK
    <3> QED
      BY <1>1, <2>2, <3>1, <3>2 DEF Inserts
  <2> QED
    BY <2>1, <2>2
<1> DEFINE had == IF inodes[x] = None THEN 0 ELSE inodes[x].links
<1>5. had \in Nat /\ HasSize(NamesIn(kids, x), had)
  <2>1. CASE inodes[x] = None
    <3>1. \A p \in Places : kids[p] # x
      BY <1>1, <2>1, SMTT(30) DEF IInv, TreeOK
    <3>2. NamesIn(kids, x) = {}
      BY <3>1, Zenon DEF NamesIn
    <3> QED
      BY <2>1, <3>2, NoElement, Zenon
  <2>2. CASE inodes[x] # None
    BY <1>1, <2>2 DEF IInv, TreeOK, TypeOK, INode
  <2> QED
    BY <2>1, <2>2
<1>6. HasSize(NamesIn(kids', x), had + 1)
  <2>1. kids[<<d, n>>] # x
    BY <1>1
  <2> HIDE DEF had
  <2> QED
    BY <1>1, <1>2, <1>5, <2>1, InsertCounts, Zenon
<1>7. ASSUME NEW i \in Inos, i # x PROVE NamesIn(kids', i) = NamesIn(kids, i)
  <2>1. i \in Nodes /\ i # kids[<<d, n>>] /\ x \in Nodes \cup {None}
    BY NodeFacts
  <2> QED
    BY <1>1, <1>2, <1>7, <2>1, OthersCount, Zenon
<1>8. \A i \in Nodes : Reaches(kids, i) => Reaches(kids', i)
  BY <1>1, <1>2, ReachInsert, ZenonT(60)
<1>9. Reaches(kids', x)
  <2>1. d = Root \/ Reaches(kids', d)
    BY <1>8, LooksInReaches, Zenon
  <2>2. d \in UpOf(kids', x)
    BY <1>1, <1>3, Zenon DEF UpOf
  <2> QED
    BY <1>1, <2>1, <2>2, ReachVia, Zenon
<1>10. ASSUME NEW i \in Inos, inodes'[i] # None
       PROVE  /\ HasSize(NamesIn(kids', i), inodes'[i].links)
              /\ inodes'[i].nlink = inodes'[i].links + (IF inodes'[i].kind = "dir" THEN 1 ELSE 0)
              /\ inodes'[i].links > 0 => Reaches(kids', i)
  <2>1. CASE i = x
    <3>1. inodes'[x].links = had + 1
      BY <1>5, Zenon DEF Inserts
    <3> QED
      BY <1>6, <1>9, <2>1, <3>1, Zenon DEF Inserts
  <2>2. CASE i # x
    <3>1. /\ inodes[i] # None /\ inodes'[i].kind = inodes[i].kind
          /\ inodes'[i].links = inodes[i].links /\ inodes'[i].nlink = inodes[i].nlink
      BY <1>1, <1>10, <2>2, Zenon DEF Inserts
    <3>2. /\ HasSize(NamesIn(kids, i), inodes[i].links)
          /\ inodes[i].nlink = inodes[i].links + (IF inodes[i].kind = "dir" THEN 1 ELSE 0)
          /\ inodes[i].links > 0 => Reaches(kids, i)
      BY <3>1 DEF IInv, TreeOK
    <3> QED
      BY <1>1, <1>7, <1>8, <2>2, <3>1, <3>2, Zenon
  <2> QED
    BY <2>1, <2>2, Zenon
<1> QED
  BY <1>4, <1>10, Zenon DEF TreeOK

\* A reply carries one reference more.
LEMMA GrantsOne ==
    ASSUME KTypeOK, NEW x \in Inos, Grants(x)
    PROVE  /\ KTypeOK' /\ knl' = knl
           /\ Refs(x)' = Refs(x) + 1 /\ \A i \in Inos : i # x => Refs(i)' = Refs(i)
BY DEF Grants, Refs, KTypeOK

\* make_node: the node is new, so that no other name leads to it.
LEMMA make_nodeStep ==
    ASSUME IInv, NEW d \in Nodes, NEW n \in Names, NEW kind \in Kinds, make_node(d, n, kind)
    PROVE  IInv'
<1>1. PICK x \in Inos : x = next_ino
  BY BoundsAssumption DEF make_node, IInv, Fresh, TypeOK, Inos
<1>2. /\ x \in Nodes /\ x # None /\ inodes[x] = None
      /\ inodes \in [Nodes -> INode \cup {None}]
  BY <1>1, NodeFacts, BoundsAssumption DEF IInv, Fresh, TypeOK, Inos
<1>3. LooksIn(d) /\ Child(d, n) = None
  BY DEF make_node, Changes
<1>4. inodes[d] \in INode /\ inodes[d] # None /\ IsDir(d) /\ inodes[d].links > 0 /\ d # x
  BY <1>2, <1>3, LooksInReaches, Zenon
<1>5. kids[<<d, n>>] = None /\ <<d, n>> \in Places
  BY <1>3, <1>4, KidFacts
<1>6. /\ inodes' = [inodes EXCEPT ![d].children[n] = x, ![x] = NewNode(kind, d)]
      /\ next_ino' = x + 1
  BY <1>1 DEF make_node
<1>7. dcache[d][n] = "none" /\ dcache' = [dcache EXCEPT ![d][n] = "reply"]
  BY DEF make_node, SetEntry
<1>8. /\ KTypeOK' /\ knl' = knl
       /\ Refs(x)' = Refs(x) + 1 /\ \A i \in Inos : i # x => Refs(i)' = Refs(i)
  BY <1>1, GrantsOne DEF make_node, IInv, TypeOK
<1> DEFINE nd == [inodes[d] EXCEPT !.children = [inodes[d].children EXCEPT ![n] = x]]
<1>9. nd \in INode /\ nd # None
  BY <1>2, <1>4, MemFSAssumption DEF INode
<1>10. /\ nd.kind = inodes[d].kind /\ nd.links = inodes[d].links /\ nd.nlink = inodes[d].nlink
      /\ nd.refcount = inodes[d].refcount
      /\ nd.children = [inodes[d].children EXCEPT ![n] = x]
      /\ \A m \in Names : nd.children[m] = IF m = n THEN x ELSE inodes[d].children[m]
  BY <1>4 DEF INode
<1>11. NewNode(kind, d) \in INode /\ NewNode(kind, d) # None
  <2>1. NewNode(kind, d) \in INode
    BY NodeFacts DEF NewNode, INode, NoNames
  <2> QED
    BY <2>1, MemFSAssumption, Zenon
<1>12. inodes'[d] = nd /\ inodes'[x] = NewNode(kind, d)
       /\ (\A i \in Nodes : i # d /\ i # x => inodes'[i] = inodes[i])
  BY <1>2, <1>4, <1>6
<1>13. inodes' \in [Nodes -> INode \cup {None}]
  BY <1>2, <1>6, <1>9, <1>11, SMTT(30)
<1> HIDE DEF nd
<1>14. kids' = [kids EXCEPT ![<<d, n>>] = x]
  <2>1. ASSUME NEW p \in Places
        PROVE  (IF IsDir(p[1])' THEN Child(p[1], p[2])' ELSE None)
                 = IF p = <<d, n>> THEN x ELSE kids[p]
    <3>1. PICK i \in Nodes, m \in Names : p = <<i, m>>
      BY SMTT(30) DEF Places
    <3>2. kids[p] = IF IsDir(i) THEN Child(i, m) ELSE None
      BY <3>1, KidFacts
    <3>3. CASE i = d
      BY <1>4, <1>9, <1>10, <1>12, <3>1, <3>2, <3>3, ZenonT(60) DEF IsDir, Child
    <3>4. CASE i = x
      BY <1>2, <1>4, <1>11, <1>12, <3>1, <3>2, <3>4, SMTT(30) DEF IsDir, Child, NewNode, NoNames
    <3>5. CASE i # d /\ i # x
      BY <1>12, <3>1, <3>2, <3>5 DEF IsDir, Child
    <3> QED
      BY <3>3, <3>4, <3>5
  <2>2. kids' = [p \in Places |-> IF p = <<d, n>> THEN x ELSE kids[p]]
    BY <2>1, Zenon DEF kids
  <2> QED
    BY <1>5, <2>2, Views, Zenon DEF IInv, Trees
<1>15. Inserts(d, n, x)
  BY <1>2, <1>4, <1>9, <1>10, <1>11, <1>12, <1>14, SMTT(30) DEF Inserts, NewNode
<1>16. TreeOK'
  BY <1>2, <1>3, <1>5, <1>15, TreeInsert, SMTT(30)
<1>17. RootStays'
  BY <1>2, <1>9, <1>10, <1>12, NodeFacts, Zenon DEF IInv, RootStays
<1>18. Fresh'
  BY <1>1, <1>2, <1>4, <1>6, <1>12, NodeFacts, SMTT(30) DEF IInv, Fresh, TypeOK
<1>19. RemovedEmpty'
  BY <1>2, <1>4, <1>10, <1>12, SMTT(30) DEF IInv, RemovedEmpty, NewNode
<1>20. TypeOK'
  <2>1. next_ino' \in Nat
    BY <1>1, <1>6 DEF IInv, TypeOK
  <2>2. dcache' \in [Nodes -> [Names -> {"none", "reply", "cached"}]]
    BY <1>7 DEF IInv, TypeOK
  <2> QED
    BY <1>13, <1>8, <2>1, <2>2 DEF TypeOK
<1>21. CountsAgree'
  <2>1. Refs(x) = 0
    BY <1>2, Zenon DEF IInv, CountsAgree
  <2>2. inodes'[x] # None /\ inodes'[x].refcount = 1
    BY <1>11, <1>12 DEF NewNode
  <2>3. ASSUME NEW i \in Inos
        PROVE  Refs(i)' = IF inodes'[i] = None THEN 0 ELSE inodes'[i].refcount
    <3>1. CASE i = x
      BY <1>8, <2>1, <2>2, <3>1, SMTT(30)
    <3>2. CASE i = d /\ i # x
      BY <1>4, <1>9, <1>10, <1>12, <1>8, <3>2, Zenon DEF IInv, CountsAgree
    <3>3. CASE i # d /\ i # x
      BY <1>12, <1>8, <3>3, NodeFacts, Zenon DEF IInv, CountsAgree
    <3> QED
      BY <3>1, <3>2, <3>3, Zenon
  <2> QED
    BY <2>3, Zenon DEF CountsAgree
<1>22. NothingLeaks'
  BY <1>2, <1>4, <1>10, <1>12, NodeFacts, SMTT(30) DEF IInv, NothingLeaks, NewNode
<1>23. CacheSound'
  <2>1. \A e \in Nodes, m \in Names :
          dcache'[e][m] = IF e = d /\ m = n THEN "reply" ELSE dcache[e][m]
    BY <1>7, SMTT(30) DEF IInv, TypeOK
  <2>2. \A e \in Nodes, m \in Names :
          kids'[<<e, m>>] = IF e = d /\ m = n THEN x ELSE kids[<<e, m>>]
    BY <1>5, <1>14, Views, KidFacts, ZenonT(60) DEF IInv, Trees
  <2> QED
    BY <1>2, <1>8, <2>1, <2>2, SMTT(30) DEF IInv, CacheSound
<1> QED
  BY <1>16, <1>17, <1>18, <1>19, <1>20, <1>21, <1>22, <1>23, SMTT(30) DEF IInv

\* link: a file that the kernel knows is in the table, and gets one name more.
LEMMA linkStep ==
    ASSUME IInv, NEW x \in Inos, NEW d \in Nodes, NEW n \in Names, link(x, d, n)
    PROVE  IInv'
<1>1. x \in Nodes /\ x # None /\ inodes \in [Nodes -> INode \cup {None}]
  BY NodeFacts DEF IInv, TypeOK
<1>2. inodes[x] \in INode /\ inodes[x] # None
  <2>1. knl[x] > 0
    BY NodeFacts DEF link, Known
  <2>2. Refs(x) > 0
    BY <2>1 DEF IInv, TypeOK, KTypeOK, Refs
  <2> QED
    BY <1>1, <2>2, SMTT(30) DEF IInv, CountsAgree
<1>3. LooksIn(d) /\ Child(d, n) = None /\ inodes[x].kind # "dir"
  BY Zenon DEF link, Changes
<1>4. inodes[d] \in INode /\ inodes[d] # None /\ IsDir(d) /\ inodes[d].links > 0
  BY <1>3, LooksInReaches, Zenon
<1>5. d # x /\ kids[<<d, n>>] = None /\ <<d, n>> \in Places
  BY <1>3, <1>4, KidFacts, Zenon DEF IsDir
<1>6. /\ inodes' = [inodes EXCEPT ![d].children[n] = x, ![x].links = @ + 1,
                                  ![x].nlink = @ + 1, ![x].refcount = @ + 1]
      /\ next_ino' = next_ino
  BY Zenon DEF link
<1>7. dcache[d][n] = "none" /\ dcache' = [dcache EXCEPT ![d][n] = "reply"]
  BY DEF link, SetEntry
<1>8. /\ KTypeOK' /\ knl' = knl
      /\ Refs(x)' = Refs(x) + 1 /\ \A i \in Inos : i # x => Refs(i)' = Refs(i)
  BY GrantsOne DEF link, IInv, TypeOK
<1> DEFINE nd == [inodes[d] EXCEPT !.children = [inodes[d].children EXCEPT ![n] = x]]
           nx == [[[inodes[x] EXCEPT !.links = @ + 1] EXCEPT !.nlink = @ + 1]
                    EXCEPT !.refcount = @ + 1]
<1>9. inodes'[d] = nd /\ inodes'[x] = nx
      /\ (\A i \in Nodes : i # d /\ i # x => inodes'[i] = inodes[i])
  BY <1>1, <1>5, <1>6, Zenon
<1>10. nd \in INode /\ nd # None
  BY <1>1, <1>4, MemFSAssumption DEF INode
<1>11. /\ nd.kind = inodes[d].kind /\ nd.links = inodes[d].links /\ nd.nlink = inodes[d].nlink
       /\ nd.refcount = inodes[d].refcount
       /\ nd.children = [inodes[d].children EXCEPT ![n] = x]
       /\ \A m \in Names : nd.children[m] = IF m = n THEN x ELSE inodes[d].children[m]
  BY <1>4 DEF INode
<1>12. nx \in INode /\ nx # None
  <2>1. \A y \in INode : /\ [y EXCEPT !.links = @ + 1] \in INode
                         /\ [y EXCEPT !.nlink = @ + 1] \in INode
                         /\ [y EXCEPT !.refcount = @ + 1] \in INode
    BY DEF INode
  <2>2. nx \in INode
    BY <1>2, <2>1, Zenon
  <2> QED
    BY <2>2, MemFSAssumption
<1>13. /\ nx.kind = inodes[x].kind /\ nx.links = inodes[x].links + 1
       /\ nx.nlink = inodes[x].nlink + 1 /\ nx.refcount = inodes[x].refcount + 1
       /\ nx.children = inodes[x].children
  BY <1>2 DEF INode
<1>14. inodes' \in [Nodes -> INode \cup {None}]
  <2>1. \A i \in Nodes : inodes'[i] \in INode \cup {None}
    BY <1>1, <1>9, <1>10, <1>12
  <2>2. inodes' = [i \in Nodes |-> inodes'[i]]
    BY <1>1, <1>6, Zenon
  <2> QED
    BY <2>1, <2>2
<1> HIDE DEF nd, nx
<1>15. kids' = [kids EXCEPT ![<<d, n>>] = x]
  <2>1. ASSUME NEW p \in Places
        PROVE  (IF IsDir(p[1])' THEN Child(p[1], p[2])' ELSE None)
                 = IF p = <<d, n>> THEN x ELSE kids[p]
    <3>1. PICK i \in Nodes, m \in Names : p = <<i, m>>
      BY SMTT(30) DEF Places
    <3>2. kids[p] = IF IsDir(i) THEN Child(i, m) ELSE None
      BY <3>1, KidFacts, SMTT(30)
    <3>3. CASE i = d
      BY <1>4, <1>9, <1>10, <1>11, <3>1, <3>2, <3>3, Zenon DEF IsDir, Child
    <3>4. CASE i = x
      BY <1>2, <1>3, <1>5, <1>9, <1>12, <1>13, <3>1, <3>2, <3>4, Zenon DEF IsDir, Child
    <3>5. CASE i # d /\ i # x
      BY <1>9, <3>1, <3>2, <3>5 DEF IsDir, Child
    <3> QED
      BY <3>3, <3>4, <3>5
  <2>2. kids' = [p \in Places |-> IF p = <<d, n>> THEN x ELSE kids[p]]
    BY <2>1, Zenon DEF kids
  <2> QED
    BY <1>5, <2>2, Views, Zenon DEF IInv, Trees
<1>16. Inserts(d, n, x)
  <2>1. inodes[x].nlink = inodes[x].links /\ inodes[x].links \in Nat
    BY <1>2, <1>3, SMTT(30) DEF IInv, TreeOK, INode
  <2> QED
    BY <1>2, <1>3, <1>4, <1>9, <1>10, <1>11, <1>12, <1>13, <1>15, <2>1, SMTT(30) DEF Inserts
<1>17. TreeOK'
  BY <1>3, <1>5, <1>16, TreeInsert, Zenon
<1>18. RootStays'
  BY <1>9, <1>10, <1>11, NodeFacts, SMTT(30) DEF IInv, RootStays
<1>19. Fresh'
  BY <1>2, <1>4, <1>6, <1>9, NodeFacts, Zenon DEF IInv, Fresh
<1>20. RemovedEmpty'
  <2>1. nx.links # 0
    BY <1>2, <1>13 DEF INode
  <2> QED
    BY <1>4, <1>9, <1>11, <2>1, SMTT(30) DEF IInv, RemovedEmpty
<1>21. TypeOK'
  <2>1. dcache' \in [Nodes -> [Names -> {"none", "reply", "cached"}]]
    BY <1>7 DEF IInv, TypeOK
  <2> QED
    BY <1>6, <1>8, <1>14, <2>1, ZenonT(60) DEF IInv, TypeOK
<1>22. CountsAgree'
  <2>1. ASSUME NEW i \in Inos
        PROVE  Refs(i)' = IF inodes'[i] = None THEN 0 ELSE inodes'[i].refcount
    <3>1. CASE i = x
      <4>1. Refs(x) = inodes[x].refcount
        BY <1>2, Zenon DEF IInv, CountsAgree
      <4> QED
        BY <1>8, <1>9, <1>12, <1>13, <3>1, <4>1, Zenon
    <3>2. CASE i = d
      BY <1>4, <1>5, <1>8, <1>9, <1>10, <1>11, <3>2, Zenon DEF IInv, CountsAgree
    <3>3. CASE i # d /\ i # x
      BY <1>8, <1>9, <3>3, NodeFacts, Zenon DEF IInv, CountsAgree
    <3> QED
      BY <3>1, <3>2, <3>3, Zenon
  <2> QED
    BY <2>1, Zenon DEF CountsAgree
<1>23. NothingLeaks'
  <2>1. nx.links > 0
    BY <1>2, <1>13, SMTT(30) DEF INode
  <2> QED
    BY <1>4, <1>9, <1>11, <2>1, NodeFacts, Zenon DEF IInv, NothingLeaks
<1>24. CacheSound'
  <2>1. \A e \in Nodes, m \in Names :
          dcache'[e][m] = IF e = d /\ m = n THEN "reply" ELSE dcache[e][m]
    BY <1>7, SMTT(30) DEF IInv, TypeOK
  <2>2. \A e \in Nodes, m \in Names :
          kids'[<<e, m>>] = IF e = d /\ m = n THEN x ELSE kids[<<e, m>>]
    BY <1>5, <1>15, Views, KidFacts, Zenon DEF IInv, Trees
  <2> QED
    BY <1>1, <1>8, <2>1, <2>2, SMTT(30) DEF IInv, CacheSound
<1> QED
  BY <1>17, <1>18, <1>19, <1>20, <1>21, <1>22, <1>23, <1>24, Zenon DEF IInv

----------------------------------------------------------------------------
(* Steps that remove or move a name                                        *)

\* The new node at one place that a directory's entry leads to.
LEMMA SetChild ==
    ASSUME NEW y \in INode, NEW n \in Names, NEW v \in Nodes \cup {None}
    PROVE  LET z == [y EXCEPT !.children = [y.children EXCEPT ![n] = v]]
           IN  /\ z \in INode /\ z # None
               /\ z.kind = y.kind /\ z.links = y.links /\ z.nlink = y.nlink
               /\ z.refcount = y.refcount
               /\ \A m \in Names : z.children[m] = IF m = n THEN v ELSE y.children[m]
<1> DEFINE z == [y EXCEPT !.children = [y.children EXCEPT ![n] = v]]
<1>1. z \in INode
  BY DEF INode
<1>2. /\ z.kind = y.kind /\ z.links = y.links /\ z.nlink = y.nlink
      /\ z.refcount = y.refcount
      /\ \A m \in Names : z.children[m] = IF m = n THEN v ELSE y.children[m]
  BY DEF INode
<1> QED
  BY <1>1, <1>2, MemFSAssumption

\* unlink_node: what loses its name is empty, and the kernel has a reference to it.
LEMMA unlink_nodeStep ==
    ASSUME IInv, NEW d \in Nodes, NEW n \in Names, unlink_node(d, n)
    PROVE  IInv'
<1>0. PICK c \in Inos : c = Child(d, n)
  BY KidFacts, Zenon DEF unlink_node
<1>1. /\ c \in Nodes /\ c # None /\ inodes \in [Nodes -> INode \cup {None}]
      /\ inodes[c] \in INode /\ inodes[c] # None /\ inodes[c].refcount > 0
      /\ kids[<<d, n>>] = c /\ <<d, n>> \in Places
  BY <1>0, NodeFacts, KidFacts, MemFSAssumption, SMTT(30) DEF IInv, TypeOK, unlink_node
<1>2. LooksIn(d) /\ inodes[c].children = NoNames
  BY <1>0, Zenon DEF unlink_node, Changes
<1>3. inodes[d] \in INode /\ inodes[d] # None /\ IsDir(d) /\ inodes[d].links > 0 /\ d # c
  <2>1. inodes[d] \in INode /\ inodes[d] # None /\ IsDir(d) /\ inodes[d].links > 0
    BY <1>2, LooksInReaches, Zenon
  <2>2. d # c
    BY <1>0, <1>1, <1>2, Zenon DEF Child, NoNames
  <2> QED
    BY <2>1, <2>2, Zenon
<1>4. /\ inodes' = [inodes EXCEPT ![d].children[n] = None,
                                  ![c].links = @ - 1, ![c].nlink = @ - 1]
      /\ next_ino' = next_ino
      /\ knl' = knl /\ granted' = granted /\ forgets' = forgets
  BY <1>0 DEF unlink_node, kvars
<1>5. dcache' = [dcache EXCEPT ![d][n] = "none"]
  BY Zenon DEF unlink_node, SetEntry
<1>6. /\ HasSize(NamesIn(kids, c), inodes[c].links)
      /\ inodes[c].nlink = inodes[c].links + (IF inodes[c].kind = "dir" THEN 1 ELSE 0)
      /\ inodes[c].links \in Nat /\ inodes[c].links # 0
  <2>1. /\ HasSize(NamesIn(kids, c), inodes[c].links)
        /\ inodes[c].nlink = inodes[c].links + (IF inodes[c].kind = "dir" THEN 1 ELSE 0)
        /\ inodes[c].links \in Nat
    BY <1>1, SMTT(30) DEF IInv, TreeOK, INode
  <2>2. inodes[c].links = 0 <=> \A q \in Places : kids[q] # c
    BY <2>1, NoNamesIn, Zenon
  <2> QED
    BY <1>1, <2>1, <2>2
<1> DEFINE nd == [inodes[d] EXCEPT !.children = [inodes[d].children EXCEPT ![n] = None]]
           nc == [[inodes[c] EXCEPT !.links = @ - 1] EXCEPT !.nlink = @ - 1]
<1>7. inodes'[d] = nd /\ inodes'[c] = nc
      /\ (\A i \in Nodes : i # d /\ i # c => inodes'[i] = inodes[i])
  BY <1>1, <1>3, <1>4, Zenon
<1>8. /\ nd \in INode /\ nd # None
      /\ nd.kind = inodes[d].kind /\ nd.links = inodes[d].links /\ nd.nlink = inodes[d].nlink
      /\ nd.refcount = inodes[d].refcount
      /\ \A m \in Names : nd.children[m] = IF m = n THEN None ELSE inodes[d].children[m]
  BY <1>3, SetChild, SMTT(30)
<1>9. /\ nc.kind = inodes[c].kind /\ nc.links = inodes[c].links - 1
      /\ nc.nlink = inodes[c].nlink - 1 /\ nc.refcount = inodes[c].refcount
      /\ nc.children = inodes[c].children
  BY <1>1 DEF INode
<1>10. nc \in INode /\ nc # None
  <2>1. \A y \in INode : y.links # 0 => [y EXCEPT !.links = @ - 1] \in INode
    BY DEF INode
  <2>2. \A y \in INode : y.nlink # 0 => [y EXCEPT !.nlink = @ - 1] \in INode
    BY DEF INode
  <2> DEFINE y1 == [inodes[c] EXCEPT !.links = @ - 1]
  <2>3. y1 \in INode
    BY <1>1, <1>6, <2>1
  <2>4. y1.nlink = inodes[c].nlink /\ inodes[c].nlink # 0
    BY <1>1, <1>6 DEF INode
  <2>5. nc = [y1 EXCEPT !.nlink = @ - 1]
    OBVIOUS
  <2> HIDE DEF y1, nc
  <2>6. nc \in INode
    BY <2>2, <2>3, <2>4, <2>5
  <2> QED
    BY <2>6, MemFSAssumption
<1>11. inodes' \in [Nodes -> INode \cup {None}]
  <2>1. \A i \in Nodes : inodes'[i] \in INode \cup {None}
    BY <1>1, <1>7, <1>8, <1>10, SMTT(30)
  <2>2. inodes' = [i \in Nodes |-> inodes'[i]]
    BY <1>1, <1>4, Zenon
  <2> QED
    BY <2>1, <2>2
<1> HIDE DEF nd, nc
<1>12. kids' = [kids EXCEPT ![<<d, n>>] = None]
  <2>1. ASSUME NEW p \in Places
        PROVE  (IF IsDir(p[1])' THEN Child(p[1], p[2])' ELSE None)
                 = IF p = <<d, n>> THEN None ELSE kids[p]
    <3>1. PICK i \in Nodes, m \in Names : p = <<i, m>>
      BY SMTT(30) DEF Places
    <3>2. kids[p] = IF IsDir(i) THEN Child(i, m) ELSE None
      BY <3>1, KidFacts, Zenon
    <3>3. CASE i = d
      BY <1>3, <1>7, <1>8, <3>1, <3>2, <3>3, Zenon DEF IsDir, Child
    <3>4. CASE i = c
      BY <1>1, <1>3, <1>7, <1>9, <1>10, <3>1, <3>2, <3>4, Zenon DEF IsDir, Child
    <3>5. CASE i # d /\ i # c
      BY <1>7, <3>1, <3>2, <3>5, SMTT(30) DEF IsDir, Child
    <3> QED
      BY <3>3, <3>4, <3>5
  <2>2. kids' = [p \in Places |-> IF p = <<d, n>> THEN None ELSE kids[p]]
    BY <2>1, Zenon DEF kids
  <2> QED
    BY <1>1, <2>2, Views, Zenon DEF IInv, Trees
<1>13. \A p \in Places : kids'[p] = IF p = <<d, n>> THEN None ELSE kids[p]
  BY <1>1, <1>12, Views DEF IInv, Trees
<1>14. TreeOK'
  <2>1. ASSUME NEW p \in Places, kids'[p] # None
        PROVE  kids'[p] \in Inos /\ inodes'[kids'[p]] # None
    <3>1. kids'[p] = kids[p] /\ kids[p] \in Inos /\ inodes[kids[p]] # None
      BY <1>13, <2>1 DEF IInv, TreeOK
    <3> QED
      BY <1>7, <1>8, <1>10, <3>1, NodeFacts, Zenon
  <2>2. HasSize(NamesIn(kids', c), inodes[c].links - 1)
    <3>1. kids \in Trees
      BY Views, Zenon DEF IInv
    <3>2. kids[<<d, n>>] # None /\ HasSize(NamesIn(kids, kids[<<d, n>>]), inodes[c].links)
      BY <1>1, <1>6
    <3>3. HasSize(NamesIn([kids EXCEPT ![<<d, n>>] = None], kids[<<d, n>>]), inodes[c].links - 1)
      BY <1>1, <1>6, <3>1, <3>2, RemoveCounts, Zenon
    <3> QED
      BY <1>1, <1>12, <3>3, Zenon
  <2>3. ASSUME NEW i \in Inos, i # c PROVE NamesIn(kids', i) = NamesIn(kids, i)
    <3>1. \A p \in Places : kids'[p] = i <=> kids[p] = i
      BY <1>1, <1>13, <2>3, NodeFacts, Zenon
    <3> QED
      BY <3>1, Zenon DEF NamesIn
  <2>4. \A j \in Nodes : c \notin UpOf(kids, j)
    <3>1. \A m \in Names : kids[<<c, m>>] = None
      BY <1>1, <1>2, KidFacts DEF Child, NoNames
    <3> QED
      BY <3>1, NodeFacts, Zenon DEF UpOf
  <2>5. ASSUME NEW i \in Nodes, i # c, Reaches(kids, i) PROVE Reaches(kids', i)
    <3>1. kids \in Trees
      BY Views, Zenon DEF IInv
    <3>2. c \in Nodes /\ kids[<<d, n>>] = c /\ <<d, n>> \in Places
      BY <1>1
    <3>3. Reaches([kids EXCEPT ![<<d, n>>] = None], i)
      BY <2>4, <2>5, <3>1, <3>2, ReachRemove, ZenonT(60)
    <3> QED
      BY <1>12, <3>3
  <2>6. Reaches(kids, c) /\ (inodes[c].links - 1 # 0 => Reaches(kids', c))
    <3>1. Reaches(kids, c)
      BY <1>1, <1>6, SMTT(30) DEF IInv, TreeOK
    <3>2. ASSUME inodes[c].links - 1 # 0 PROVE Reaches(kids', c)
      <4>0. inodes[c].links - 1 \in Nat
        BY <1>6
      <4>1. PICK p \in Places : kids'[p] = c
        BY <2>2, <3>2, <4>0, NoNamesIn, Zenon
      <4>2. PICK e \in Nodes, m \in Names : p = <<e, m>>
        BY DEF Places
      <4>3. e \in UpOf(kids', c) /\ e \in UpOf(kids, c)
        BY <1>1, <1>13, <4>1, <4>2, Zenon DEF UpOf
      <4>4. e # c
        BY <1>1, <2>4, <4>3, Zenon
      <4>5. e = Root \/ Reaches(kids, e)
        <5>1. kids[<<e, m>>] = c /\ IsDir(e)
          BY <1>1, <1>13, <4>1, <4>2, KidFacts, Zenon
        <5>2. inodes[e].children # NoNames
          BY <1>1, <5>1, KidFacts, SMTT(30) DEF Child, NoNames
        <5>3. inodes[e] # None /\ inodes[e] \in INode
          BY <5>1, <1>1, Zenon DEF IsDir
        <5>4. inodes[e].links > 0
          BY <5>2, <5>3, SMTT(30) DEF IInv, RemovedEmpty, INode
        <5> QED
          BY <5>3, <5>4, NodeFacts, Zenon DEF IInv, TreeOK
      <4> QED
        BY <1>1, <2>5, <4>3, <4>4, <4>5, ReachVia, Zenon
    <3> QED
      BY <3>1, <3>2, Zenon
  <2>7. ASSUME NEW i \in Inos, inodes'[i] # None
        PROVE  /\ HasSize(NamesIn(kids', i), inodes'[i].links)
               /\ inodes'[i].nlink = inodes'[i].links + (IF inodes'[i].kind = "dir" THEN 1 ELSE 0)
               /\ inodes'[i].links > 0 => Reaches(kids', i)
    <3>1. CASE i = c
      <4>1. inodes[c].nlink \in Nat
        BY <1>1, Zenon DEF INode
      <4>2. nc.nlink = nc.links + (IF nc.kind = "dir" THEN 1 ELSE 0)
        BY <1>6, <1>9, <4>1, SMTT(30)
      <4>3. HasSize(NamesIn(kids', c), nc.links)
        BY <1>6, <1>9, <2>2, Zenon
      <4>4. nc.links > 0 => Reaches(kids', c)
        BY <1>6, <1>9, <2>6, SMTT(30)
      <4> QED
        BY <1>7, <3>1, <4>2, <4>3, <4>4, Zenon
    <3>2. CASE i # c
      <4>1. /\ i \in Nodes /\ inodes[i] # None /\ inodes'[i].kind = inodes[i].kind
            /\ inodes'[i].links = inodes[i].links /\ inodes'[i].nlink = inodes[i].nlink
        BY <1>3, <1>7, <1>8, <2>7, <3>2, NodeFacts, Zenon
      <4>2. /\ HasSize(NamesIn(kids, i), inodes[i].links)
            /\ inodes[i].nlink = inodes[i].links + (IF inodes[i].kind = "dir" THEN 1 ELSE 0)
            /\ inodes[i].links > 0 => Reaches(kids, i)
        BY <4>1, Zenon DEF IInv, TreeOK
      <4> QED
        BY <2>3, <2>5, <3>2, <4>1, <4>2, Zenon
    <3> QED
      BY <3>1, <3>2, Zenon
  <2> QED
    BY <2>1, <2>7, ZenonT(60) DEF TreeOK
<1>15. RootStays'
  BY <1>7, <1>8, NodeFacts, Zenon DEF IInv, RootStays
<1>16. Fresh'
  BY <1>1, <1>3, <1>4, <1>7, NodeFacts, Zenon DEF IInv, Fresh
<1>17. RemovedEmpty'
  <2>1. nc.children = NoNames
    BY <1>2, <1>9, SMTT(30)
  <2> QED
    BY <1>3, <1>7, <1>8, <2>1, SMTT(30) DEF IInv, RemovedEmpty
<1>18. TypeOK'
  <2>1. dcache' \in [Nodes -> [Names -> {"none", "reply", "cached"}]]
    BY <1>5, Zenon DEF IInv, TypeOK
  <2> QED
    BY <1>4, <1>11, <2>1, ZenonT(60) DEF IInv, TypeOK, KTypeOK
<1>19. CountsAgree'
  <2>1. \A i \in Inos : Refs(i)' = Refs(i)
    BY <1>4, Zenon DEF Refs
  <2>2. \A i \in Inos : /\ inodes'[i] = None <=> inodes[i] = None
                        /\ inodes[i] # None => inodes'[i].refcount = inodes[i].refcount
    BY <1>1, <1>3, <1>7, <1>8, <1>9, <1>10, NodeFacts, Zenon
  <2> QED
    BY <2>1, <2>2, SMTT(30) DEF IInv, CountsAgree
<1>20. NothingLeaks'
  BY <1>1, <1>3, <1>7, <1>8, <1>9, NodeFacts, Zenon DEF IInv, NothingLeaks
<1>21. CacheSound'
  <2>1. \A e \in Nodes, m \in Names :
          dcache'[e][m] = IF e = d /\ m = n THEN "none" ELSE dcache[e][m]
    BY <1>5, SMTT(30) DEF IInv, TypeOK
  <2>2. \A e \in Nodes, m \in Names :
          kids'[<<e, m>>] = IF e = d /\ m = n THEN None ELSE kids[<<e, m>>]
    BY <1>13, KidFacts, Zenon
  <2> QED
    BY <1>4, <2>1, <2>2, SMTT(30) DEF IInv, CacheSound
<1> QED
  BY <1>14, <1>15, <1>16, <1>17, <1>18, <1>19, <1>20, <1>21, SMTT(30) DEF IInv

\* rename: the node that is moved is not above the directory it is moved to.
LEMMA renameStep ==
    ASSUME IInv, NEW d \in Nodes, NEW n \in Names, NEW e \in Nodes, NEW m \in Names,
           rename(d, n, e, m)
    PROVE  IInv'
<1>0. PICK c \in Inos : c = Child(d, n)
  BY KidFacts, Zenon DEF rename
<1>1. /\ c \in Nodes /\ c # None /\ inodes \in [Nodes -> INode \cup {None}]
      /\ inodes[c] # None /\ knl[c] > 0
      /\ kids[<<d, n>>] = c /\ <<d, n>> \in Places /\ <<e, m>> \in Places
  BY <1>0, NodeFacts, KidFacts, MemFSAssumption, SMTT(30) DEF IInv, TypeOK, rename
<1>2. /\ LooksIn(d) /\ LooksIn(e) /\ ~(d = e /\ n = m)
      /\ c # e /\ c \notin Above(e) /\ Child(e, m) = None
  BY <1>0, Zenon DEF rename, Changes
<1>3. /\ inodes[d] \in INode /\ inodes[d] # None /\ IsDir(d) /\ inodes[d].links > 0
      /\ inodes[e] \in INode /\ inodes[e] # None /\ IsDir(e) /\ inodes[e].links > 0
      /\ e = Root \/ Reaches(kids, e)
  BY <1>2, LooksInReaches, Zenon
<1>4. kids[<<e, m>>] = None
  BY <1>2, <1>3, KidFacts, Zenon
<1>5. /\ inodes' = [inodes EXCEPT ![e].children[m] = c, ![d].children[n] = None]
      /\ next_ino' = next_ino
      /\ knl' = knl /\ granted' = granted /\ forgets' = forgets
  BY <1>0 DEF rename, kvars
<1>6. dcache' = [dcache EXCEPT ![e][m] = "cached", ![d][n] = "none"]
  BY DEF rename
<1> DEFINE Put(y, q, v) == [y EXCEPT !.children = [y.children EXCEPT ![q] = v]]
<1>7. ASSUME NEW y \in INode, NEW q \in Names, NEW v \in Nodes \cup {None}
      PROVE  /\ Put(y, q, v) \in INode /\ Put(y, q, v) # None
             /\ Put(y, q, v).kind = y.kind /\ Put(y, q, v).links = y.links
             /\ Put(y, q, v).nlink = y.nlink /\ Put(y, q, v).refcount = y.refcount
             /\ \A r \in Names : Put(y, q, v).children[r] = IF r = q THEN v ELSE y.children[r]
  BY SetChild
<1>8. /\ \A i \in Nodes : i # d /\ i # e => inodes'[i] = inodes[i]
      /\ d # e => inodes'[e] = Put(inodes[e], m, c) /\ inodes'[d] = Put(inodes[d], n, None)
      /\ d = e => inodes'[d] = Put(Put(inodes[d], m, c), n, None)
  BY <1>1, <1>5, Zenon
<1> HIDE DEF Put
<1>9. \A i \in {d, e} :
        /\ inodes'[i] \in INode /\ inodes'[i] # None
        /\ inodes'[i].kind = inodes[i].kind /\ inodes'[i].links = inodes[i].links
        /\ inodes'[i].nlink = inodes[i].nlink /\ inodes'[i].refcount = inodes[i].refcount
        /\ \A r \in Names : inodes'[i].children[r] =
              IF i = d /\ r = n THEN None ELSE IF i = e /\ r = m THEN c ELSE inodes[i].children[r]
  <2>1. CASE d # e
    <3> DEFINE ye == Put(inodes[e], m, c)
               yd == Put(inodes[d], n, None)
    <3>1. /\ ye \in INode /\ ye # None /\ ye.kind = inodes[e].kind /\ ye.links = inodes[e].links
          /\ ye.nlink = inodes[e].nlink /\ ye.refcount = inodes[e].refcount
          /\ \A r \in Names : ye.children[r] = IF r = m THEN c ELSE inodes[e].children[r]
      BY <1>1, <1>3, <1>7
    <3>2. /\ yd \in INode /\ yd # None /\ yd.kind = inodes[d].kind /\ yd.links = inodes[d].links
          /\ yd.nlink = inodes[d].nlink /\ yd.refcount = inodes[d].refcount
          /\ \A r \in Names : yd.children[r] = IF r = n THEN None ELSE inodes[d].children[r]
      <4>1. inodes[d] \in INode /\ None \in Nodes \cup {None}
        BY <1>3, Zenon
      <4> QED
        BY <4>1, SetChild, SMTT(30) DEF Put
    <3>3. inodes'[e] = ye /\ inodes'[d] = yd
      BY <1>8, <2>1, Zenon
    <3> HIDE DEF ye, yd
    <3> QED
      BY <2>1, <3>1, <3>2, <3>3, SMTT(30)
  <2>2. CASE d = e
    <3> DEFINE y == Put(inodes[d], m, c)
    <3>1. /\ y \in INode /\ y.kind = inodes[d].kind /\ y.links = inodes[d].links
          /\ y.nlink = inodes[d].nlink /\ y.refcount = inodes[d].refcount
          /\ \A r \in Names : y.children[r] = IF r = m THEN c ELSE inodes[d].children[r]
      BY <1>1, <1>3, <1>7, SMTT(30)
    <3>2. inodes'[d] = Put(y, n, None)
      BY <1>8, <2>2, Zenon
    <3> HIDE DEF y
    <3> QED
      BY <1>7, <2>2, <3>1, <3>2, SMTT(30)
  <2> QED
    BY <2>1, <2>2, Zenon
<1>10. inodes' \in [Nodes -> INode \cup {None}]
  <2>1. \A i \in Nodes : inodes'[i] \in INode \cup {None}
    BY <1>1, <1>8, <1>9, SMTT(30)
  <2>2. inodes' = [i \in Nodes |-> inodes'[i]]
    BY <1>1, <1>5, ZenonT(60)
  <2> QED
    BY <2>1, <2>2, Zenon
<1>11. \A i \in Nodes :
         /\ inodes'[i] = None <=> inodes[i] = None
         /\ inodes[i] # None =>
              /\ inodes'[i].kind = inodes[i].kind /\ inodes'[i].links = inodes[i].links
              /\ inodes'[i].nlink = inodes[i].nlink /\ inodes'[i].refcount = inodes[i].refcount
  BY <1>3, <1>8, <1>9, Zenon
<1>12. \A p \in Places : kids'[p] =
         IF p = <<d, n>> THEN None ELSE IF p = <<e, m>> THEN c ELSE kids[p]
  <2>1. ASSUME NEW p \in Places
        PROVE  (IF IsDir(p[1])' THEN Child(p[1], p[2])' ELSE None) =
                 IF p = <<d, n>> THEN None ELSE IF p = <<e, m>> THEN c ELSE kids[p]
    <3>1. PICK i \in Nodes, r \in Names : p = <<i, r>>
      BY SMTT(30) DEF Places
    <3>2. kids[p] = IF IsDir(i) THEN Child(i, r) ELSE None
      BY <3>1, KidFacts, Zenon
    <3>3. CASE i \in {d, e}
      <4>1. IsDir(i) /\ IsDir(i)'
        BY <1>3, <1>9, <3>3, Zenon DEF IsDir
      <4>2. Child(i, r)' =
              IF i = d /\ r = n THEN None ELSE IF i = e /\ r = m THEN c ELSE Child(i, r)
        BY <1>9, <3>3, Zenon DEF Child
      <4> QED
        BY <3>1, <3>2, <4>1, <4>2, Zenon
    <3>4. CASE i \notin {d, e}
      BY <1>8, <3>1, <3>2, <3>4, Zenon DEF IsDir, Child
    <3> QED
      BY <3>3, <3>4, Zenon
  <2> QED
    BY <2>1, Zenon DEF kids
<1> DEFINE k1 == [kids EXCEPT ![<<e, m>>] = c]
           k2 == [k1 EXCEPT ![<<d, n>>] = None]
<1>13. kids \in Trees /\ k1 \in Trees /\ kids' = k2
  <2>1. kids \in Trees
    BY Views, Zenon DEF IInv
  <2>2. kids' = [p \in Places |-> kids'[p]]
    BY Zenon DEF kids
  <2> QED
    BY <1>1, <1>12, <2>1, <2>2, ZenonT(60) DEF Trees
<1>14. k1[<<d, n>>] = c /\ kids[<<e, m>>] # c
  BY <1>1, <1>2, <1>4, <1>13, Zenon DEF Trees
<1> HIDE DEF k1
<1>15. ASSUME NEW l \in Nat, HasSize(NamesIn(kids, c), l) PROVE HasSize(NamesIn(kids', c), l)
  <2>1. HasSize(NamesIn(k1, c), l + 1)
    BY <1>1, <1>13, <1>14, <1>15, InsertCounts, Zenon DEF k1
  <2>2. PICK s \in Nat : s = l + 1 /\ s - 1 = l
    OBVIOUS
  <2>3. k1[<<d, n>>] # None /\ HasSize(NamesIn(k1, k1[<<d, n>>]), s)
    BY <1>1, <1>14, <2>1, <2>2
  <2>4. HasSize(NamesIn(k2, k1[<<d, n>>]), s - 1)
    BY <1>1, <1>13, <2>3, RemoveCounts, Zenon
  <2> QED
    BY <1>13, <1>14, <2>2, <2>4
<1>16. ASSUME NEW i \in Inos, i # c
       PROVE  NamesIn(kids', i) = NamesIn(kids, i)
  <2>1. \A p \in Places : kids'[p] = i <=> kids[p] = i
    BY <1>1, <1>4, <1>12, <1>16, NodeFacts, ZenonT(60)
  <2> QED
    BY <2>1 DEF NamesIn
<1>17. ASSUME NEW i \in Nodes, i = c \/ Reaches(kids, i) PROVE Reaches(kids', i)
  <2>1. ASSUME NEW j \in Nodes, j # c PROVE UpOf(kids', j) = UpOf(kids, j)
    <3>1. \A f \in Nodes, q \in Names : kids'[<<f, q>>] = j <=> kids[<<f, q>>] = j
      BY <1>1, <1>4, <1>12, <2>1, NodeFacts, KidFacts, ZenonT(60)
    <3> QED
      BY <3>1, Zenon DEF UpOf
  <2>2. e \in UpOf(kids', c)
    BY <1>1, <1>2, <1>12, Zenon DEF UpOf
  <2>3. PICK S0 \in SUBSET Nodes : /\ Parents(e) \subseteq S0 /\ c \notin S0
                                   /\ UpClosed(S0)
    BY <1>1, <1>2, Zenon DEF Above
  <2>4. UpOf(kids, e) \subseteq S0 /\ \A j \in S0 : UpOf(kids, j) \subseteq S0
    BY <2>3, Views, Zenon DEF IInv, UpClosed
  <2>5. c \in Nodes /\ e \in Nodes /\ c # e /\ (e = Root \/ Reaches(kids, e))
    BY <1>1, <1>2, <1>3, NodeFacts
  <2> QED
    BY <1>17, <2>1, <2>2, <2>3, <2>4, <2>5, ReachMove, Zenon
<1>18. TreeOK'
  <2>1. ASSUME NEW p \in Places, kids'[p] # None
        PROVE  kids'[p] \in Inos /\ inodes'[kids'[p]] # None
    <3>1. kids'[p] \in Inos /\ inodes[kids'[p]] # None
      BY <1>1, <1>12, <2>1, Zenon DEF IInv, TreeOK
    <3> QED
      BY <1>11, <3>1, NodeFacts, ZenonT(60)
  <2>2. ASSUME NEW i \in Inos, inodes'[i] # None
        PROVE  /\ HasSize(NamesIn(kids', i), inodes'[i].links)
               /\ inodes'[i].nlink = inodes'[i].links + (IF inodes'[i].kind = "dir" THEN 1 ELSE 0)
               /\ inodes'[i].links > 0 => Reaches(kids', i)
    <3>1. /\ i \in Nodes /\ inodes[i] # None /\ inodes'[i].kind = inodes[i].kind
          /\ inodes'[i].links = inodes[i].links /\ inodes'[i].nlink = inodes[i].nlink
      BY <1>11, <2>2, NodeFacts, SMTT(30)
    <3>2. /\ HasSize(NamesIn(kids, i), inodes[i].links) /\ inodes[i].links \in Nat
          /\ inodes[i].nlink = inodes[i].links + (IF inodes[i].kind = "dir" THEN 1 ELSE 0)
          /\ inodes[i].links > 0 => Reaches(kids, i)
      BY <3>1 DEF IInv, TreeOK, TypeOK, INode
    <3>3. HasSize(NamesIn(kids', i), inodes[i].links)
      BY <1>15, <1>16, <3>2, Zenon
    <3> QED
      BY <1>17, <3>1, <3>2, <3>3, Zenon
  <2> QED
    BY <2>1, <2>2, ZenonT(60) DEF TreeOK
<1>19. RootStays' /\ Fresh'
  BY <1>5, <1>11, NodeFacts, ZenonT(60) DEF IInv, RootStays, Fresh
<1>20. RemovedEmpty'
  BY <1>3, <1>8, <1>9 DEF IInv, RemovedEmpty
<1>21. TypeOK'
  <2>1. dcache' \in [Nodes -> [Names -> {"none", "reply", "cached"}]]
    BY <1>6, ZenonT(60) DEF IInv, TypeOK
  <2> QED
    BY <1>5, <1>10, <2>1, Zenon DEF IInv, TypeOK, KTypeOK
<1>22. CountsAgree' /\ NothingLeaks'
  <2>1. \A i \in Inos : Refs(i)' = Refs(i)
    BY <1>5 DEF Refs
  <2> QED
    BY <1>11, <2>1, NodeFacts, Zenon DEF IInv, CountsAgree, NothingLeaks
<1>23. CacheSound'
  <2>1. \A f \in Nodes, q \in Names : dcache'[f][q] =
          IF f = d /\ q = n THEN "none" ELSE IF f = e /\ q = m THEN "cached" ELSE dcache[f][q]
    BY <1>6, SMTT(30) DEF IInv, TypeOK
  <2>2. \A f \in Nodes, q \in Names : kids'[<<f, q>>] =
          IF f = d /\ q = n THEN None ELSE IF f = e /\ q = m THEN c ELSE kids[<<f, q>>]
    BY <1>12, KidFacts, Zenon
  <2> QED
    BY <1>1, <1>5, <2>1, <2>2, SMTT(30) DEF IInv, CacheSound
<1> QED
  BY <1>18, <1>19, <1>20, <1>21, <1>22, <1>23, SMTT(30) DEF IInv

----------------------------------------------------------------------------
(* The theorems                                                            *)

\* The invariant holds of the empty root.
LEMMA InitIInv == Init => IInv
<1> SUFFICES ASSUME Init PROVE IInv
  BY Zenon
<1>1. TypeOK
  <2>1. [kind |-> "dir", refcount |-> 1, links |-> 1, nlink |-> 2,
         children |-> NoNames, parent |-> None] \in INode
    BY Zenon DEF INode, NoNames, Kinds
  <2> QED
    BY <2>1, Zenon DEF Init, KInit, TypeOK, KTypeOK
<1>2. \A i \in Inos : inodes[i] = None
  BY NodeFacts, Zenon DEF Init
<1>3. /\ inodes[Root].kind = "dir" /\ inodes[Root].links = 1
      /\ inodes[Root].children = NoNames
  BY NodeFacts, Zenon DEF Init
<1>4. inodes[Root] # None
  <2>1. [kind |-> "dir", refcount |-> 1, links |-> 1, nlink |-> 2,
         children |-> NoNames, parent |-> None] \in INode
    BY DEF INode, NoNames, Kinds
  <2> QED
    BY <2>1, NodeFacts, MemFSAssumption DEF Init
<1>5. \A p \in Places : kids[p] = None
  <2>1. ASSUME NEW p \in Places PROVE kids[p] = None
    <3>1. PICK i \in Nodes, m \in Names : p = <<i, m>>
      BY DEF Places
    <3>2. kids[p] = IF IsDir(i) THEN Child(i, m) ELSE None
      BY <3>1, Zenon DEF kids
    <3> QED
      BY <1>2, <1>3, <3>2, NodeFacts DEF IsDir, Child, NoNames
  <2> QED
    BY <2>1, Zenon
<1>6. TreeOK
  BY <1>2, <1>5, Zenon DEF TreeOK
<1>7. RootStays /\ Fresh /\ RemovedEmpty
  <2>1. next_ino = 2
    BY Zenon DEF Init
  <2> QED
    BY <1>2, <1>3, <1>4, <2>1, NodeFacts, SMTT(30) DEF RootStays, Fresh, RemovedEmpty
<1>8. CountsAgree /\ NothingLeaks
  <2>1. KInit
    BY Zenon DEF Init
  <2> QED
    BY <1>2, <2>1 DEF CountsAgree, NothingLeaks, Refs, KInit
<1>9. CacheSound
  BY DEF CacheSound, Init
<1> QED
  BY <1>1, <1>6, <1>7, <1>8, <1>9 DEF IInv

\* Every handler of memfs and every step of the kernel keeps it.
LEMMA NextIInv == IInv /\ [Next]_vars => IInv'
<1> SUFFICES ASSUME IInv, [Next]_vars PROVE IInv'
  BY Zenon
<1>1. CASE UNCHANGED vars
  <2>1. /\ inodes' = inodes /\ next_ino' = next_ino /\ dcache' = dcache
        /\ knl' = knl /\ granted' = granted /\ forgets' = forgets
    BY <1>1 DEF vars, mvars, kvars
  <2>2. kids' = kids /\ TreeOK' /\ RootStays' /\ Fresh' /\ RemovedEmpty'
    <3>1. KeepsTree
      BY <2>1, Zenon DEF KeepsTree, SameNode
    <3> QED
      BY <3>1, TreeKept
  <2> QED
    BY <2>1, <2>2, Zenon
    DEF IInv, TypeOK, KTypeOK, CountsAgree, NothingLeaks, CacheSound, Refs
<1>2. ASSUME NEW d \in Nodes, NEW n \in Names,
             \/ Arrives(d, n) \/ Drop(d, n)
             \/ lookup(d, n) \/ revalidate(d, n) \/ unlink_node(d, n)
      PROVE  IInv'
  BY <1>2, ArrivesStep, DropStep, lookupStep, revalidateStep, unlink_nodeStep, Zenon
<1>3. ASSUME NEW d \in Nodes, NEW n \in Names, NEW kind \in Kinds, make_node(d, n, kind)
      PROVE  IInv'
  BY <1>3, make_nodeStep
<1>4. ASSUME NEW d \in Nodes, NEW n \in Names, NEW i \in Inos, link(i, d, n)
      PROVE  IInv'
  BY <1>4, linkStep
<1>5. ASSUME NEW d \in Nodes, NEW n \in Names, NEW e \in Nodes, NEW m \in Names,
             rename(d, n, e, m)
      PROVE  IInv'
  BY <1>5, renameStep
<1>6. ASSUME NEW i \in Inos, Evict(i) PROVE IInv'
  BY <1>6, EvictStep
<1>7. ASSUME NEW i \in Inos, NEW n \in 1 .. forgets[i], forget(i, n) PROVE IInv'
  BY <1>7, forgetStep
<1> QED
  BY <1>1, <1>2, <1>3, <1>4, <1>5, <1>6, <1>7, Zenon DEF Next

\* After every sequence of lookups, creations, links, renames, removals and forgets of
\* memfs, in any directory tree: every count agrees with the kernel's, every name leads
\* to an inode in the table, links and nlink count the names, nothing leaks, and what
\* has a name can be reached from the root.
THEOREM TreeStaysWhole == Spec => []TreeWhole
BY InitIInv, NextIInv, IInvWhole, PTL DEF Spec

----------------------------------------------------------------------------
(* memfs keeps the promise about node ids                                  *)

\* Which ids are in the table and how often they are referred to is the same.
IdsStay ==
    /\ next_ino' = next_ino
    /\ \A i \in Inos : (inodes'[i] = None <=> inodes[i] = None) /\ Refs(i)' = Refs(i)

\* The kernel is given a reference to x, which is in the table or gets the next number.
IdGranted(x) ==
    /\ inodes'[x] # None /\ Refs(x)' = Refs(x) + 1
    /\ \/ inodes[x] # None /\ next_ino' = next_ino
       \/ x = next_ino /\ next_ino' = next_ino + 1
    /\ \A i \in Inos : i # x => (inodes'[i] = None <=> inodes[i] = None) /\ Refs(i)' = Refs(i)

\* If the table and the references stay, NodeIds stutters.
LEMMA StayMapped == ASSUME IdsStay PROVE UNCHANGED <<st, refs>>
BY DEF IdsStay, st, refs

\* A reference that is counted is a Grant of NodeIds.
LEMMA GrantMapped == ASSUME IInv, NEW x \in Inos, IdGranted(x) PROVE Ids!Grant(x)
<1>1. next_ino \in Nat /\ Inos \subseteq Nat
  BY NodeFacts, Zenon DEF IInv, TypeOK
<1>2. st[x] # "dead" /\ (inodes[x] # None => x < next_ino)
  BY <1>1 DEF st, IdGranted, IInv, Fresh
<1>3. st' = [st EXCEPT ![x] = "live"]
  <2>1. ASSUME NEW i \in Inos
        PROVE  (IF i >= next_ino' THEN "free" ELSE IF inodes'[i] # None THEN "live" ELSE "dead")
                 = IF i = x THEN "live" ELSE st[i]
    <3>1. CASE i = x
      BY <1>1, <1>2, <3>1 DEF IdGranted
    <3>2. CASE i # x
      BY <1>1, <3>2 DEF IdGranted, st
    <3> QED
      BY <3>1, <3>2, Zenon
  <2>2. st' = [i \in Inos |-> IF i = x THEN "live" ELSE st[i]]
    BY <2>1 DEF st
  <2> QED
    BY <2>2, Zenon DEF st
<1>4. refs' = [refs EXCEPT ![x] = @ + 1]
  BY ZenonT(60) DEF refs, IdGranted
<1> QED
  BY <1>2, <1>3, <1>4, Zenon DEF Ids!Grant

\* What TypeOK says of the table and the kernel's counts.
LEMMA Typed ==
    ASSUME IInv
    PROVE  inodes \in [Nodes -> INode \cup {None}] /\ Inos \subseteq Nodes /\ KTypeOK
BY NodeFacts, Zenon DEF IInv, TypeOK

\* An id to which there are references is in the table, before and after a step.
LEMMA Referred ==
    IInv => \A i \in Inos : Refs(i) \in Nat /\ (Refs(i) > 0 => inodes[i] # None)
BY DEF IInv, CountsAgree, Refs, TypeOK, KTypeOK

\* What is referred to after a step is in the table.
LEMMA ReferredAfter ==
    IInv' => \A i \in Inos : Refs(i)' > 0 => inodes'[i] # None
BY DEF IInv, CountsAgree

\* The kernel holds a reference to a directory that it uses.
LEMMA LooksInReferred ==
    ASSUME IInv, NEW d \in Inos, LooksIn(d) PROVE Refs(d) > 0
BY NodeFacts DEF LooksIn, Known, IInv, TypeOK, KTypeOK, Refs

\* A kernel that has a name in its cache, drops it or evicts an inode changes nothing.
LEMMA KernelStays ==
    ASSUME IInv, \/ \E d \in Nodes, n \in Names : Arrives(d, n) \/ Drop(d, n)
                 \/ \E i \in Inos : Evict(i)
    PROVE  IdsStay
<1>1. ASSUME NEW d \in Nodes, NEW n \in Names, Arrives(d, n) PROVE IdsStay
  <2>1. PICK c \in Inos : c = Child(d, n)
    BY <1>1, KidFacts, ZenonT(60) DEF Arrives
  <2>2. \A j \in Inos : Refs(j)' = Refs(j)
    BY <1>1, <2>1, SMTT(30) DEF Arrives, Takes, Refs, IInv, TypeOK, KTypeOK
  <2> QED
    BY <1>1, <2>2, SMTT(30) DEF Arrives, IdsStay
<1>2. ASSUME NEW d \in Nodes, NEW n \in Names, Drop(d, n) PROVE IdsStay
  BY <1>2, Zenon DEF Drop, IdsStay, kvars, Refs
<1>3. ASSUME NEW i \in Inos, Evict(i) PROVE IdsStay
  <2>1. \A j \in Inos : Refs(j)' = Refs(j)
    BY <1>3, SMTT(30) DEF Evict, Evicts, Refs, IInv, TypeOK, KTypeOK
  <2> QED
    BY <1>3, <2>1, Zenon DEF Evict, IdsStay, mvars
<1> QED
  BY <1>1, <1>2, <1>3, Zenon

\* Names that go or move leave the ids alone.
LEMMA NamesStay ==
    ASSUME IInv, IInv', NEW d \in Nodes, NEW n \in Names, NEW e \in Nodes, NEW m \in Names,
           unlink_node(d, n) \/ rename(d, n, e, m)
    PROVE  IdsStay
<1>1. PICK c \in Inos : c = Child(d, n) /\ Refs(c) > 0
  <2>1. dcache[d][n] = "cached"
    BY DEF unlink_node, rename
  <2>2. PICK c \in Inos : c = Child(d, n)
    BY <2>1, KidFacts, Zenon
  <2> QED
    BY <2>1, <2>2, KidFacts, NodeFacts, MemFSAssumption, ZenonT(60) DEF IInv, CountsAgree
<1>2. next_ino' = next_ino /\ \A i \in Inos : Refs(i)' = Refs(i)
  BY Zenon DEF unlink_node, rename, kvars, Refs
<1>3. ASSUME NEW i \in Inos, Refs(i) > 0 PROVE inodes[i] # None /\ inodes'[i] # None
  BY <1>2, <1>3, Referred, ReferredAfter, Zenon
<1>4. ASSUME NEW i \in Inos, ~(Refs(i) > 0) PROVE inodes'[i] = inodes[i]
  <2>1. inodes \in [Nodes -> INode \cup {None}] /\ i \in Nodes
    BY Typed, Zenon
  <2>2. LooksIn(d) /\ (rename(d, n, e, m) => LooksIn(e))
    BY Zenon DEF unlink_node, rename, Changes
  <2>3. i # d /\ i # c /\ (rename(d, n, e, m) => i # e)
    BY <1>1, <1>4, <2>2, LooksInReferred
  <2> QED
    BY <1>1, <2>1, <2>3, SMTT(30) DEF unlink_node, rename
<1> QED
  BY <1>2, <1>3, <1>4, SMTT(30) DEF IdsStay

\* What a step that adds a reference has to show.
LEMMA GrantedIs ==
    ASSUME IInv, IInv', NEW x \in Inos,
           Refs(x)' = Refs(x) + 1, \A i \in Inos : i # x => Refs(i)' = Refs(i),
           \A i \in Inos : i # x => inodes'[i] = inodes[i] \/ Refs(i) > 0,
           \/ inodes[x] # None /\ next_ino' = next_ino
           \/ x = next_ino /\ next_ino' = next_ino + 1
    PROVE  IdGranted(x)
<1>1. inodes'[x] # None
  BY Referred, ReferredAfter, SMTT(30)
<1>2. \A i \in Inos : i # x => (inodes'[i] = None <=> inodes[i] = None)
  BY Referred, ReferredAfter, Zenon
<1> QED
  BY <1>1, <1>2, ZenonT(60) DEF IdGranted

\* lookup grants a reference to the id the name leads to.
LEMMA LookupGrants ==
    ASSUME IInv, IInv', NEW d \in Nodes, NEW n \in Names, lookup(d, n)
    PROVE  \E x \in Inos : IdGranted(x)
<1>0. inodes \in [Nodes -> INode \cup {None}] /\ Inos \subseteq Nodes /\ KTypeOK
  BY Typed, Zenon
<1>1. PICK c \in Inos : c = Child(d, n) /\ inodes[c] # None
  BY KidFacts, MemFSAssumption, Zenon DEF lookup, LooksIn
<1>2. Refs(c)' = Refs(c) + 1 /\ \A i \in Inos : i # c => Refs(i)' = Refs(i)
  BY <1>0, <1>1, GrantsOne DEF lookup
<1>3. next_ino' = next_ino /\ \A i \in Inos : i # c => inodes'[i] = inodes[i]
  <2>1. next_ino' = next_ino /\ inodes' = [inodes EXCEPT ![c].refcount = @ + 1]
    BY <1>1, SMTT(30) DEF lookup
  <2> QED
    BY <1>0, <2>1, SMTT(30)
<1> QED
  BY <1>1, <1>2, <1>3, GrantedIs, SMTT(30)

\* So does the LOOKUP for a cached name.
LEMMA RevalidateGrants ==
    ASSUME IInv, IInv', NEW d \in Nodes, NEW n \in Names, revalidate(d, n)
    PROVE  \E x \in Inos : IdGranted(x)
<1>0. inodes \in [Nodes -> INode \cup {None}] /\ Inos \subseteq Nodes /\ KTypeOK
  BY Typed, Zenon
<1>1. PICK c \in Inos : c = Child(d, n) /\ inodes[c] # None
  BY KidFacts, MemFSAssumption, ZenonT(60) DEF revalidate
<1>2. Refs(c)' = Refs(c) + 1 /\ \A i \in Inos : i # c => Refs(i)' = Refs(i)
  <2>1. knl' = [knl EXCEPT ![c] = @ + 1] /\ granted' = granted /\ forgets' = forgets
    BY <1>1 DEF revalidate
  <2> QED
    BY <1>0, <2>1 DEF Refs, KTypeOK
<1>3. next_ino' = next_ino /\ \A i \in Inos : i # c => inodes'[i] = inodes[i]
  <2>1. next_ino' = next_ino /\ inodes' = [inodes EXCEPT ![c].refcount = @ + 1]
    BY <1>1, SMTT(30) DEF revalidate
  <2> QED
    BY <1>0, <2>1, SMTT(30)
<1> QED
  BY <1>1, <1>2, <1>3, GrantedIs

\* make_node grants the first reference to the next id.
LEMMA make_nodeGrants ==
    ASSUME IInv, IInv', NEW d \in Nodes, NEW n \in Names, NEW kind \in Kinds,
           make_node(d, n, kind)
    PROVE  \E x \in Inos : IdGranted(x)
<1>0. inodes \in [Nodes -> INode \cup {None}] /\ Inos \subseteq Nodes /\ KTypeOK
  BY Typed, Zenon
<1>1. PICK x \in Inos : x = next_ino
  BY BoundsAssumption, SMTT(30) DEF make_node, IInv, Fresh, TypeOK, Inos
<1>2. Grants(x) /\ next_ino' = next_ino + 1 /\ LooksIn(d)
  BY <1>1, Zenon DEF make_node, Changes
<1>3. Refs(x)' = Refs(x) + 1 /\ \A i \in Inos : i # x => Refs(i)' = Refs(i)
  BY <1>0, <1>2, GrantsOne, Zenon
<1>4. ASSUME NEW i \in Inos, i # x PROVE inodes'[i] = inodes[i] \/ Refs(i) > 0
  <2>1. CASE i = d
    BY <1>2, <2>1, LooksInReferred, ZenonT(60)
  <2>2. CASE i # d
    <3>1. inodes' = [inodes EXCEPT ![d].children[n] = x, ![x] = NewNode(kind, d)]
      BY <1>1, SMTT(30) DEF make_node
    <3> QED
      BY <1>0, <1>4, <2>2, <3>1, SMTT(30)
  <2> QED
    BY <2>1, <2>2, SMTT(30)
<1> QED
  BY <1>1, <1>2, <1>3, <1>4, GrantedIs, SMTT(30)

\* link grants a reference to the id that gets a name.
LEMMA linkGrants ==
    ASSUME IInv, IInv', NEW d \in Nodes, NEW n \in Names, NEW x \in Inos, link(x, d, n)
    PROVE  IdGranted(x)
<1>0. inodes \in [Nodes -> INode \cup {None}] /\ Inos \subseteq Nodes /\ KTypeOK
  BY Typed, Zenon
<1>1. Grants(x) /\ next_ino' = next_ino /\ LooksIn(d) /\ Known(x)
  BY ZenonT(60) DEF link, Changes
<1>2. Refs(x)' = Refs(x) + 1 /\ \A i \in Inos : i # x => Refs(i)' = Refs(i)
  BY <1>0, <1>1, GrantsOne, Zenon
<1>3. ASSUME NEW i \in Inos, i # x PROVE inodes'[i] = inodes[i] \/ Refs(i) > 0
  <2>1. CASE i = d
    BY <1>1, <2>1, LooksInReferred, SMTT(30)
  <2>2. CASE i # d
    BY <1>0, <1>3, <2>2, ZenonT(60) DEF link
  <2> QED
    BY <2>1, <2>2, SMTT(30)
<1>4. inodes[x] # None
  <2>1. Refs(x) > 0
    BY <1>0, <1>1, NodeFacts, SMTT(30) DEF Known, KTypeOK, Refs
  <2> QED
    BY <2>1, Referred, Zenon
<1> QED
  BY <1>1, <1>2, <1>3, <1>4, GrantedIs, SMTT(30)

\* A reply with an entry grants a reference to its id.
LEMMA RepliesGrant ==
    ASSUME IInv, IInv', NEW d \in Nodes, NEW n \in Names,
           \/ lookup(d, n) \/ revalidate(d, n)
           \/ \E kind \in Kinds : make_node(d, n, kind)
           \/ \E i \in Inos : link(i, d, n)
    PROVE  \E x \in Inos : IdGranted(x)
BY LookupGrants, RevalidateGrants, make_nodeGrants, linkGrants, Zenon

\* forget takes back n references, and removes an id with the last one only.
LEMMA ForgetMapped ==
    ASSUME IInv, NEW i \in Inos, NEW n \in 1 .. forgets[i], forget(i, n)
    PROVE  n \in 1 .. refs[i] /\ Ids!Forget(i, n)
<1>0. inodes \in [Nodes -> INode \cup {None}] /\ i \in Nodes /\ KTypeOK /\ Inos \subseteq Nat
  BY NodeFacts, Zenon DEF IInv, TypeOK
<1>1. /\ knl[i] \in Nat /\ granted[i] \in Nat /\ forgets[i] \in Nat
      /\ n \in Nat /\ 1 <= n /\ n <= forgets[i]
  BY <1>0, SMTT(30) DEF KTypeOK
<1>2. refs[i] = Refs(i) /\ Refs(i) \in Nat /\ n <= Refs(i)
  BY <1>1, SMTT(30) DEF refs, Refs
<1>3. inodes[i] \in INode /\ inodes[i] # None /\ Refs(i) = inodes[i].refcount
  BY <1>0, <1>1, <1>2 DEF IInv, CountsAgree
<1>4. next_ino' = next_ino /\ next_ino \in Nat /\ i < next_ino
  BY <1>0, <1>3, SMTT(30) DEF forget, IInv, Fresh, TypeOK
<1>5. refs' = [refs EXCEPT ![i] = @ - n]
  <2>1. forgets' = [forgets EXCEPT ![i] = @ - n] /\ knl' = knl /\ granted' = granted
    BY Zenon DEF forget, Returns
  <2>2. ASSUME NEW j \in Inos PROVE Refs(j)' = IF j = i THEN Refs(i) - n ELSE Refs(j)
    BY <1>0, <1>1, <2>1 DEF Refs, KTypeOK
  <2>3. refs' = [j \in Inos |-> IF j = i THEN Refs(i) - n ELSE Refs(j)]
    BY <2>2 DEF refs
  <2> QED
    BY <2>3, Zenon DEF refs
<1>6. \A j \in Inos : j # i => inodes'[j] = inodes[j]
  BY <1>0, NodeFacts DEF forget
<1>7. inodes'[i] = None => n = Refs(i)
  <2>1. [inodes[i] EXCEPT !.refcount = inodes[i].refcount - n] \in INode
    BY <1>1, <1>2, <1>3, SMTT(30) DEF INode
  <2>2. n # Refs(i) => inodes'[i] = [inodes[i] EXCEPT !.refcount = inodes[i].refcount - n]
    BY <1>0, <1>1, <1>2, <1>3, SMTT(30) DEF forget
  <2> QED
    BY <2>1, <2>2, MemFSAssumption
<1>8. st' = st \/ (n = refs[i] /\ st' = [st EXCEPT ![i] = "dead"])
  <2>1. CASE inodes'[i] = None
    BY <1>2, <1>4, <1>6, <1>7, <2>1, ZenonT(60) DEF st
  <2>2. CASE inodes'[i] # None
    BY <1>3, <1>4, <1>6, <2>2 DEF st
  <2> QED
    BY <2>1, <2>2, SMTT(30)
<1> QED
  BY <1>1, <1>2, <1>5, <1>8, SMTT(30) DEF Ids!Forget

\* memfs implements NodeIds, whatever is created, linked, moved and removed: an id is
\* granted only while it is live or new, and dies with its last reference (lookup,
\* make_node, link, forget).
THEOREM MemFSImplements == Spec => ImplementsNodeIds
<1>1. Init => Ids!Init
  <2> SUFFICES ASSUME Init PROVE Ids!Init
    OBVIOUS
  <2>1. next_ino = 2 /\ KInit
    BY DEF Init
  <2>2. \A i \in Inos : i >= 2
    BY BoundsAssumption DEF Inos
  <2>3. st = [i \in Inos |-> "free"]
    BY <2>1, <2>2 DEF st
  <2>4. refs = [i \in Inos |-> 0]
    BY <2>1 DEF refs, Refs, KInit
  <2> QED
    BY <2>3, <2>4, Zenon DEF Ids!Init
<1>2. IInv /\ IInv' /\ [Next]_vars => [Ids!Next]_<<st, refs>>
  <2> SUFFICES ASSUME IInv, IInv', [Next]_vars PROVE [Ids!Next]_<<st, refs>>
    OBVIOUS
  <2>1. CASE UNCHANGED vars
    <3>1. IdsStay
      BY <2>1, Zenon DEF vars, mvars, kvars, IdsStay, Refs
    <3> QED
      BY <3>1, StayMapped, Zenon
  <2>2. CASE \/ \E d \in Nodes, n \in Names : Arrives(d, n) \/ Drop(d, n)
             \/ \E i \in Inos : Evict(i)
    BY <2>2, KernelStays, StayMapped, Zenon
  <2>3. CASE \E d \in Nodes, n \in Names : \/ unlink_node(d, n)
                                           \/ \E e \in Nodes, m \in Names : rename(d, n, e, m)
    BY <2>3, NamesStay, StayMapped, Zenon
  <2>4. CASE \E d \in Nodes, n \in Names :
               \/ lookup(d, n) \/ revalidate(d, n)
               \/ \E kind \in Kinds : make_node(d, n, kind)
               \/ \E i \in Inos : link(i, d, n)
    BY <2>4, RepliesGrant, GrantMapped, Zenon DEF Ids!Next
  <2>5. CASE \E i \in Inos : \E n \in 1 .. forgets[i] : forget(i, n)
    BY <2>5, ForgetMapped DEF Ids!Next
  <2> QED
    BY <2>1, <2>2, <2>3, <2>4, <2>5, Zenon DEF Next
<1> QED
  BY <1>1, <1>2, InitIInv, NextIInv, PTL DEF Spec, ImplementsNodeIds, Ids!Spec, Ids!vars

============================================================================
