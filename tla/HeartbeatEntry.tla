--------------------------- MODULE HeartbeatEntry ---------------------------
(***************************************************************************)
(* examples/heartbeat_entry.rs: a directory with one file whose name       *)
(* changes with every beat, and the kernel's directory cache.  A beat      *)
(* invalidates the old name when the kernel has looked the file up.  The   *)
(* lookup count is kept on both sides.                                     *)
(***************************************************************************)
EXTENDS Beat

CONSTANT MaxLookups   \* bound on the lookup count

ASSUME EntryAssumption == MaxLookups \in Nat

VARIABLES
    no_notify,  \* Heartbeat::no_notify
    nlookup,    \* CurrentFile::nlookup
    names,      \* the names in the kernel's cache
    found,      \* the name that an answered LOOKUP is about to add
    knl,        \* the kernel's lookup count of the file
    forget      \* the count in the FORGET on the way

evars == <<no_notify, nlookup, names, found, knl, forget>>
entryVars == <<dvars, bvars, evars>>

Lookup(n) == [kind |-> "lookup", id |-> n]
Revalidate(n) == [kind |-> "revalidate", id |-> n]
Readdir(offset) == [kind |-> "readdir", id |-> offset]
GetattrReq == [kind |-> "getattr", id |-> 0]
ForgetReq == [kind |-> "forget", id |-> 0]

EntryTypeOK ==
    /\ BTypeOK
    /\ bpc \in {"sleep", "notify", "unlock"}
    /\ no_notify \in BOOLEAN
    /\ {nlookup, knl, forget} \subseteq Nat
    /\ names \subseteq Vers
    /\ found \in Vers \cup {None}

EntryInit ==
    /\ BInit
    /\ no_notify \in BOOLEAN
    /\ nlookup = 0 /\ knl = 0 /\ forget = 0
    /\ names = {} /\ found = None

----------------------------------------------------------------------------
(* The kernel                                                              *)

\* A name that is not cached is looked up with the directory locked, and so is the
\* directory when it is listed.  A cached name is looked up again, without the
\* lock, when its time is over.
EntrySends ==
    /\ \/ \E n \in 0 .. ver :
            /\ nlookup < MaxLookups
            /\ \/ n \notin names /\ Sends(Lookup(n), TRUE)
               \/ n \in names /\ Sends(Revalidate(n), FALSE)
       \/ \E offset \in {0, 1} : Sends(Readdir(offset), TRUE)
       \/ Sends(GetattrReq, FALSE)
    /\ UNCHANGED evars

\* The process with the answer adds the name and unlocks the directory.
EntryUnlocks ==
    /\ KernelUnlocks
    /\ names' = IF found = None THEN names ELSE names \cup {found}
    /\ found' = None
    /\ UNCHANGED <<no_notify, nlookup, knl, forget>>

\* Memory runs short.
DropName(n) ==
    /\ n \in names /\ ~Pending(Revalidate(n))
    /\ names' = names \ {n}
    /\ UNCHANGED <<dvars, bvars, no_notify, nlookup, found, knl, forget>>

\* A file without a cached name is evicted: one FORGET for all its lookups.  The
\* next one waits for it (a bound).
Evict ==
    /\ up /\ knl > 0 /\ names = {} /\ found = None
    /\ \A n \in Vers : ~Pending(Revalidate(n))
    /\ ~Pending(ForgetReq)
    /\ forget' = knl /\ knl' = 0
    /\ Sends(ForgetReq, FALSE)
    /\ UNCHANGED <<no_notify, nlookup, names, found>>

\* The cache goes with the mount.
Disconnects ==
    /\ Ends
    /\ names' = IF up' THEN names ELSE {}
    /\ found' = IF up' THEN found ELSE None
    /\ knl' = IF up' THEN knl ELSE 0
    /\ UNCHANGED <<no_notify, nlookup, forget>>

----------------------------------------------------------------------------
(* The receive loop                                                        *)

\* The handlers that lock current: a listing goes on after its one entry without.
Locks(r) == r.kind # "getattr" /\ r # Readdir(1)

EntryRecv ==
    /\ RecvRequest(Locks(Head(reqs)))
    /\ UNCHANGED evars

Handling(k) == wpc = "handle" /\ cur.kind = k

\* Mutant: the entry is replied but not counted.
HandleLookup_Uncounted ==
    /\ Handling("lookup") \/ Handling("revalidate")
    /\ knl' = IF cur.id = ver /\ up THEN knl + 1 ELSE knl
    /\ found' = IF cur = Lookup(ver) /\ up THEN ver ELSE found
    /\ names' = IF cur.kind = "revalidate" /\ cur.id # ver THEN names \ {cur.id} ELSE names
    /\ LoopDone(TRUE, cur.kind = "lookup")
    /\ UNCHANGED <<no_notify, nlookup, forget>>

\* Lookup: ENOENT unless the name is the current one; the count goes up after the
\* reply, all of it under the lock.
HandleLookup ==
    /\ Handling("lookup") \/ Handling("revalidate")
    /\ nlookup' = IF cur.id = ver THEN nlookup + 1 ELSE nlookup
    /\ knl' = IF cur.id = ver /\ up THEN knl + 1 ELSE knl
    /\ found' = IF cur = Lookup(ver) /\ up THEN ver ELSE found
    /\ names' = IF cur.kind = "revalidate" /\ cur.id # ver THEN names \ {cur.id} ELSE names
    /\ LoopDone(TRUE, cur.kind = "lookup")
    /\ UNCHANGED <<no_notify, forget>>

\* Mutant: one reference is dropped, whatever the count in the FORGET.
HandleForget_One ==
    /\ Handling("forget")
    /\ nlookup' = nlookup - 1
    /\ forget' = 0
    /\ LoopDone(TRUE, FALSE)
    /\ UNCHANGED <<no_notify, names, found, knl>>

HandleForget ==
    /\ Handling("forget")
    /\ nlookup' = nlookup - forget
    /\ forget' = 0
    /\ LoopDone(TRUE, FALSE)
    /\ UNCHANGED <<no_notify, names, found, knl>>

\* Getattr and Read take no lock.
HandleGetattr ==
    /\ Handling("getattr")
    /\ LoopDone(FALSE, FALSE)
    /\ UNCHANGED evars

HandleReaddir ==
    /\ Handling("readdir")
    /\ LoopDone(Locks(cur), TRUE)
    /\ UNCHANGED evars

----------------------------------------------------------------------------
(* The beating thread                                                      *)

\* Mutant: a count that is one is taken for none.
Heartbeat_OffByOne ==
    /\ bpc = "sleep" /\ mutex = "free" /\ ver < MaxBeats
    /\ mutex' = "beat"
    /\ ver' = ver + 1
    /\ bpc' = IF ~no_notify /\ nlookup > 1 THEN "notify" ELSE "unlock"
    /\ UNCHANGED <<dvars, klock, reqs, evars>>

\* heartbeat: the name is replaced under the lock.
Heartbeat ==
    /\ bpc = "sleep" /\ mutex = "free" /\ ver < MaxBeats
    /\ mutex' = "beat"
    /\ ver' = ver + 1
    /\ bpc' = IF ~no_notify /\ nlookup > 0 THEN "notify" ELSE "unlock"
    /\ UNCHANGED <<dvars, klock, reqs, evars>>

\* inval_entry of the old name, with the lock held, waits for that of the directory.
InvalEntry ==
    /\ bpc = "notify" /\ KernelFree
    /\ names' = names \ {ver - 1}
    /\ bpc' = "unlock"
    /\ UNCHANGED <<dvars, mutex, klock, ver, reqs, no_notify, nlookup, found, knl, forget>>

\* drop(current)
BeatUnlocks ==
    /\ bpc = "unlock"
    /\ bpc' = "sleep" /\ mutex' = "free"
    /\ UNCHANGED <<dvars, klock, ver, reqs, evars>>

----------------------------------------------------------------------------
EntryKernel == EntrySends \/ (\E n \in Vers : DropName(n)) \/ Evict \/ Disconnects

EntryLoop ==
    \/ EntryRecv
    \/ LoopLocks /\ UNCHANGED evars
    \/ HandleLookup \/ HandleForget \/ HandleGetattr \/ HandleReaddir
    \/ LeaveLoop /\ UNCHANGED <<bvars, evars>>

EntryBeats == Heartbeat \/ InvalEntry \/ BeatUnlocks

\* The beating thread never ends, so the scope never returns.
EntryScope == SignalsClosed /\ UNCHANGED <<bvars, evars>>

EntryNext == EntryKernel \/ EntryUnlocks \/ EntryLoop \/ EntryBeats \/ EntryScope

EntrySpec == EntryInit /\ [][EntryNext]_entryVars

----------------------------------------------------------------------------
(* Properties                                                              *)

\* The daemon's count is the kernel's, plus what a FORGET on the way takes back: the
\* subtraction in Forget never underflows, although the reply to a LOOKUP is sent
\* before the count goes up.
CountsAgree == up => nlookup = knl + forget

\* After a beat the kernel's cache knows no name but the current one: the count says
\* of every cached name that it must be invalidated, and a LOOKUP on its way cannot
\* bring the old name back.
OldNameGone ==
    up /\ bpc = "sleep" /\ ~no_notify => names \cup {found} \subseteq {ver, None}

============================================================================
