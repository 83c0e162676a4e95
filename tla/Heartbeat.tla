------------------------------ MODULE Heartbeat ------------------------------
(***************************************************************************)
(* examples/heartbeat.rs: one file, the root, whose content changes with   *)
(* every beat, and the kernel's page with a copy of it.  As kind says, a   *)
(* beat stores the content in the page and retrieves it again, invalidates *)
(* the page, or does nothing.  All contents have the same length, less     *)
(* than a page.                                                            *)
(***************************************************************************)
EXTENDS Beat

VARIABLES
    kind,       \* Heartbeat::kind
    page,       \* the version in the kernel's page, None without a page
    nid,        \* Session::notify_unique
    replies,    \* what each retrieve found: nothing yet, the page, no page
    data,       \* what came with the NOTIFY_REPLY at hand
    retrieves,  \* Heartbeat::retrieves
    ignored,    \* history: ids whose reply was handled before they were inserted
    older,      \* history: a reply with content from before the retrieve
    lost        \* history: the page went between a store and its retrieve

hist == <<ignored, older, lost>>
hvars == <<kind, page, nid, replies, data, retrieves, hist>>
vars == <<dvars, bvars, hvars>>

Ids == 0 .. MaxBeats - 1
NotifyReply(i) == [kind |-> "notify_reply", id |-> i]
Request(k) == [kind |-> k, id |-> 0]

TypeOK ==
    /\ BTypeOK
    /\ bpc \in {"sleep", "locking", "notify", "retrieve", "insert"}
    /\ kind \in {"store", "invalidate", "none"}
    /\ page \in Vers \cup {None}
    /\ nid \in Nat
    /\ replies \in [Ids -> {"none", "page", "nopage"}]
    /\ data \in Vers \cup {None}
    /\ retrieves \in [Ids -> Vers \cup {None}]
    /\ ignored \subseteq Ids
    /\ older \in BOOLEAN /\ lost \in BOOLEAN

Init ==
    /\ BInit
    /\ kind \in {"store", "invalidate", "none"}
    /\ page = None /\ nid = 0 /\ data = None
    /\ replies = [i \in Ids |-> "none"]
    /\ retrieves = [i \in Ids |-> None]
    /\ ignored = {} /\ older = FALSE /\ lost = FALSE

----------------------------------------------------------------------------
(* The kernel                                                              *)

\* A READ fills a page that is not there, which is locked meanwhile; the process
\* of a GETATTR or an OPEN holds nothing that a notification needs.
KernelSends ==
    /\ \/ Sends(Request("getattr"), FALSE)
       \/ Sends(Request("open"), FALSE)
       \/ page = None /\ Sends(Request("read"), TRUE)
    /\ UNCHANGED hvars

\* Memory runs short: a page that no request uses goes.
Reclaim ==
    /\ page # None /\ klock = "free"
    /\ \A i \in Ids : Queued(NotifyReply(i)) => replies[i] = "nopage"
    /\ page' = None
    /\ lost' = (lost \/ bpc = "retrieve")
    /\ UNCHANGED <<dvars, bvars, kind, nid, replies, data, retrieves, ignored, older>>

----------------------------------------------------------------------------
(* The receive loop                                                        *)

\* The data of a NOTIFY_REPLY is copied from the page when the request is read.
Recv ==
    /\ RecvRequest(Head(reqs).kind \in {"getattr", "read"})
    /\ data' = IF cur'.kind = "notify_reply" /\ replies[cur'.id] = "page" THEN page ELSE None
    /\ UNCHANGED <<kind, page, nid, replies, retrieves, hist>>

Getattr ==
    /\ wpc = "handle" /\ cur = Request("getattr")
    /\ LoopDone(TRUE, FALSE)
    /\ UNCHANGED hvars

\* KEEP_CACHE: the page stays.
Open ==
    /\ wpc = "handle" /\ cur = Request("open")
    /\ LoopDone(FALSE, FALSE)
    /\ UNCHANGED hvars

\* The reply carries the content as it is under the lock, and fills the page.
Read ==
    /\ wpc = "handle" /\ cur = Request("read")
    /\ page' = IF up THEN ver ELSE page
    /\ LoopDone(TRUE, TRUE)
    /\ UNCHANGED <<kind, nid, replies, data, retrieves, hist>>

\* Mutant: the entry is looked up but stays.
HandleNotifyReply_Get ==
    /\ wpc = "handle" /\ cur.kind = "notify_reply"
    /\ IF retrieves[cur.id] # None /\ data = None
       THEN Fails("panic") /\ UNCHANGED <<bvars, older>>
       ELSE /\ older' = (older \/ (retrieves[cur.id] # None /\ data < retrieves[cur.id]))
            /\ LoopDone(FALSE, FALSE)
    /\ ignored' = IF retrieves[cur.id] = None THEN ignored \cup {cur.id} ELSE ignored
    /\ data' = None
    /\ UNCHANGED <<kind, page, nid, replies, retrieves, lost>>

\* NotifyReply: an id that is not there is ignored; the slice of an empty reply to the
\* length of the content panics; otherwise the two are compared.
HandleNotifyReply ==
    /\ wpc = "handle" /\ cur.kind = "notify_reply"
    /\ IF retrieves[cur.id] # None /\ data = None
       THEN Fails("panic") /\ UNCHANGED <<bvars, older>>
       ELSE /\ older' = (older \/ (retrieves[cur.id] # None /\ data < retrieves[cur.id]))
            /\ LoopDone(FALSE, FALSE)
    /\ retrieves' = [retrieves EXCEPT ![cur.id] = None]
    /\ ignored' = IF retrieves[cur.id] = None THEN ignored \cup {cur.id} ELSE ignored
    /\ data' = None
    /\ UNCHANGED <<kind, page, nid, replies, lost>>

----------------------------------------------------------------------------
(* The beating thread                                                      *)

BeatTo(l) == bpc' = l /\ UNCHANGED <<dvars, klock, reqs>>

\* Mutant: only a store is notified.
UpdateContent_Quiet ==
    /\ bpc = "sleep" /\ mutex = "free" /\ ver < MaxBeats
    /\ ver' = ver + 1
    /\ BeatTo(IF kind = "store" THEN "locking" ELSE "sleep")
    /\ UNCHANGED <<mutex, hvars>>

\* update_content, in a critical section of its own; then notify.
UpdateContent ==
    /\ bpc = "sleep" /\ mutex = "free" /\ ver < MaxBeats
    /\ ver' = ver + 1
    /\ BeatTo(CASE kind = "store" -> "locking" [] kind = "invalidate" -> "notify" [] OTHER -> "sleep")
    /\ UNCHANGED <<mutex, hvars>>

\* Store: the lock on inner is held to the end of notify.
NotifyLocks ==
    /\ bpc = "locking" /\ mutex = "free"
    /\ mutex' = "beat"
    /\ BeatTo("notify")
    /\ UNCHANGED <<ver, hvars>>

\* Mutant: the store goes where there is a page only.
Store_Present ==
    /\ kind = "store" /\ bpc = "notify" /\ KernelFree
    /\ page' = page
    /\ BeatTo("retrieve")
    /\ UNCHANGED <<mutex, ver, kind, nid, replies, data, retrieves, hist>>

\* notify_store waits for the page's lock and writes the page.
Store ==
    /\ kind = "store" /\ bpc = "notify" /\ KernelFree
    /\ page' = IF up THEN ver ELSE page
    /\ BeatTo("retrieve")
    /\ UNCHANGED <<mutex, ver, kind, nid, replies, data, retrieves, hist>>

\* notify_retrieve: the kernel takes hold of the page, if there is one, and sends it.
Retrieve ==
    /\ bpc = "retrieve"
    /\ nid' = nid + 1
    /\ replies' = IF up THEN [replies EXCEPT ![nid] = IF page # None \/ klock # "free"
                                                            THEN "page" ELSE "nopage"]
                        ELSE replies
    /\ reqs' = IF up THEN Append(reqs, NotifyReply(nid)) ELSE reqs
    /\ bpc' = "insert"
    /\ UNCHANGED <<dvars, klock, mutex, ver, kind, page, data, retrieves, hist>>

\* Mutant: the guard lives on.
Insert_Keeps ==
    /\ bpc = "insert"
    /\ retrieves' = [retrieves EXCEPT ![nid - 1] = ver]
    /\ BeatTo("sleep")
    /\ UNCHANGED <<mutex, ver, kind, page, nid, replies, data, hist>>

\* retrieves.insert with the content of this beat; the lock is dropped.
Insert ==
    /\ bpc = "insert"
    /\ retrieves' = [retrieves EXCEPT ![nid - 1] = ver]
    /\ mutex' = "free"
    /\ BeatTo("sleep")
    /\ UNCHANGED <<ver, kind, page, nid, replies, data, hist>>

\* notify_inval_inode waits for the page's lock and drops the page.
InvalInode ==
    /\ kind = "invalidate" /\ bpc = "notify" /\ KernelFree
    /\ page' = IF up THEN None ELSE page
    /\ BeatTo("sleep")
    /\ UNCHANGED <<mutex, ver, kind, nid, replies, data, retrieves, hist>>

----------------------------------------------------------------------------
Kernel == KernelSends \/ Reclaim \/ (Ends /\ UNCHANGED hvars)

Loop ==
    \/ Recv
    \/ LoopLocks /\ UNCHANGED hvars
    \/ Getattr \/ Open \/ Read \/ HandleNotifyReply
    \/ LeaveLoop /\ UNCHANGED <<bvars, hvars>>

Beats == UpdateContent \/ NotifyLocks \/ Store \/ Retrieve \/ Insert \/ InvalInode

\* The beating thread never ends, so the scope never returns.
Scope == SignalsClosed /\ UNCHANGED <<bvars, hvars>>

Unlocks == KernelUnlocks /\ UNCHANGED hvars

Next == Kernel \/ Unlocks \/ Loop \/ Beats \/ Scope

Spec == Init /\ [][Next]_vars

----------------------------------------------------------------------------
(* Properties                                                              *)

\* Whenever the beating thread sleeps, the kernel's page holds the content of the
\* last beat or there is none: a READ that was on its way cannot bring back an
\* older one, since notify_store and notify_inval_inode wait for it.
CacheFresh == up /\ bpc = "sleep" /\ kind # "none" => page \in {None, ver}

\* "To check if the cache is updated correctly, pull the content from the kernel":
\* what comes back is never older than what was stored, so "mismatched data" can
\* only mean that a later beat was faster than the reply; and nothing comes back, so
\* that the slice to original.len() panics, only when the kernel dropped the page
\* between a store and its retrieve.
RetrievedIsFresh == ~older /\ (main = "panic" => lost)

\* An id stays in retrieves only while its reply is on the way, or for ever when the
\* reply was handled between retrieve and insert.
LeftoverHasCause ==
    \A i \in Ids : up /\ retrieves[i] # None =>
        Pending(NotifyReply(i)) \/ i \in ignored

============================================================================
