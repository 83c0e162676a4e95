-------------------------------- MODULE Beat --------------------------------
(***************************************************************************)
(* What heartbeat.rs and heartbeat_entry.rs have in common: a thread that  *)
(* changes the file system every so often and notifies the kernel, a mutex *)
(* it shares with the handlers (inner, current), and a lock that the       *)
(* kernel holds while certain requests are on the way and takes for the    *)
(* notification (that of the page, that of the directory).  The version    *)
(* ver stands for the content or the file name.                            *)
(***************************************************************************)
EXTENDS Daemon, Sequences

CONSTANT MaxBeats   \* bound on the beats

\* The requests of the two programs.
Reqs == [kind : {"getattr", "open", "read", "notify_reply", "lookup", "revalidate", "readdir", "forget"},
         id   : Nat]

ASSUME BeatAssumption == MaxBeats \in Nat /\ None \notin Reqs

VARIABLES
    mutex,   \* who holds Heartbeat::inner or Heartbeat::current
    klock,   \* the kernel's lock: free, or held by a request asked or answered
    bpc,     \* where the beating thread is
    ver,     \* the content, the name: the number of beats before it
    reqs     \* the kernel's queue of requests, which is first in first out

bvars == <<mutex, klock, bpc, ver, reqs>>

Vers == 0 .. MaxBeats
Queued(r) == \E i \in DOMAIN reqs : reqs[i] = r
Pending(r) == Queued(r) \/ cur = r

BTypeOK ==
    /\ DTypeOK
    /\ mutex \in {"free", "loop", "beat"}
    /\ klock \in {"free", "asked", "answered"}
    /\ ver \in Vers

BInit ==
    /\ DInit
    /\ mutex = "free" /\ klock = "free" /\ bpc = "sleep" /\ ver = 0 /\ reqs = <<>>

\* The kernel sends a request; with its lock, if that is part of the system call.
\* One process makes each kind of call.
Sends(r, locked) ==
    /\ up /\ ~Pending(r)
    /\ locked => klock = "free"
    /\ klock' = IF locked THEN "asked" ELSE klock
    /\ reqs' = Append(reqs, r)
    /\ UNCHANGED <<dvars, mutex, bpc, ver>>

\* recv_request; a handler that uses the mutex locks it first.
RecvRequest(locks) ==
    /\ reqs # <<>>
    /\ Receives(Head(reqs), IF locks THEN "lock" ELSE "handle")
    /\ reqs' = Tail(reqs)
    /\ UNCHANGED <<mutex, klock, bpc, ver>>

\* lock() in a handler.
LoopLocks ==
    /\ wpc = "lock" /\ mutex = "free"
    /\ mutex' = "loop"
    /\ Goto("handle")
    /\ UNCHANGED <<klock, bpc, ver, reqs>>

\* Mutant: the guard lives on.
LoopDone_Keeps(locked, answered) ==
    /\ klock' = IF answered /\ up THEN "answered" ELSE klock
    /\ HandlerDone
    /\ UNCHANGED <<mutex, bpc, ver, reqs>>

\* The end of a handler that has replied: the guard is dropped.
LoopDone(locked, answered) ==
    /\ mutex' = IF locked THEN "free" ELSE mutex
    /\ klock' = IF answered /\ up THEN "answered" ELSE klock
    /\ HandlerDone
    /\ UNCHANGED <<bpc, ver, reqs>>

\* The process with the answer goes on and releases the kernel's lock.
KernelUnlocks ==
    /\ klock = "answered"
    /\ klock' = "free"
    /\ UNCHANGED <<dvars, mutex, bpc, ver, reqs>>

\* The connection ends: every request is aborted, and with it what it holds.
Ends ==
    /\ Signal \/ Disconnect
    /\ klock' = IF up' THEN klock ELSE "free"
    /\ reqs' = IF up' THEN reqs ELSE <<>>
    /\ UNCHANGED <<mutex, bpc, ver>>

\* A notification waits for the kernel's lock.
KernelFree == up => klock = "free"

\* The thread that beats waits in the kernel for a request whose handler waits for
\* the mutex it holds.
Cycle == mutex = "beat" /\ bpc = "notify" /\ klock = "asked"

\* Every handler ends and the loop comes back for the next request, and the heart goes
\* on beating, unless the mutex that the beating thread holds across a notification and
\* the page or the directory of a request in the loop's hands or behind it make the two
\* wait for each other.
BothGoOn ==
    /\ main = "loop" /\ wpc # "recv" ~> main # "loop" \/ wpc = "recv" \/ Cycle
    /\ bpc # "sleep" ~> bpc = "sleep" \/ Cycle

============================================================================
