------------------------------ MODULE FuseDev ------------------------------
(***************************************************************************)
(* The kernel side of /dev/fuse, as src/session.rs uses it.  It is not     *)
(* part of the repository: every definition here is external.  System      *)
(* calls become requests; a read on a device hands one request to the      *)
(* daemon and files it in the processing queue of that device (a device    *)
(* cloned with FUSE_DEV_IOC_CLONE has a queue of its own, src/device.rs);  *)
(* a write completes the request with the same unique id in the queue of   *)
(* the device it is written to.  The pending queue is a set: no property   *)
(* here depends on the order in which requests are read.                   *)
(***************************************************************************)
EXTENDS Naturals

CONSTANTS Requests,   \* unique ids of the system calls turned into requests
          Devices,    \* the connection's device files, clones included
          NotifyIds,  \* the notify_unique values a behaviour may use
          None        \* no request, no device, no result

ASSUME DevAssumption ==
    /\ NotifyIds \subseteq Nat
    /\ Requests \cap NotifyIds = {}
    /\ None \notin Requests \cup Devices \cup NotifyIds

\* What the daemon can tell apart: an operation it can decode, one that
\* Operation::decode rejects, FUSE_INIT, FUSE_DESTROY, and FUSE_FORGET or
\* FUSE_BATCH_FORGET, which the kernel sends without waiting for a reply.
TwoWay == {"op", "bad", "init", "destroy"}
Ops    == TwoWay \cup {"forget"}

\* A message read from a device.  An INTERRUPT carries the id of the request
\* it interrupts (and the FUSE_INT_REQ_BIT, here its kind), a NOTIFY_REPLY
\* the notify_unique of the retrieve it answers.
Messages == [kind : Ops, id : Requests]
            \cup [kind : {"interrupt"}, id : Requests]
            \cup [kind : {"notify_reply"}, id : NotifyIds]

VARIABLES
    connected,   \* FALSE once the filesystem is unmounted or the connection aborted
    kstat,       \* life of a request: idle, pending, sent, done, aborted
    kop,         \* what the request is
    kdev,        \* the device whose processing queue holds it
    result,      \* the request whose handler produced the reply it got
    intr,        \* the INTERRUPT of a request: none, queued or read
    nointr,      \* the daemon answered an INTERRUPT with ENOSYS
    nreplies     \* NOTIFY_REPLY messages ready to be read

kvars == <<connected, kstat, kop, kdev, result, intr, nointr, nreplies>>

KInit ==
    /\ connected = TRUE
    /\ kstat = [r \in Requests |-> "idle"]
    /\ kop = [r \in Requests |-> "op"]
    /\ kdev = [r \in Requests |-> None]
    /\ result = [r \in Requests |-> None]
    /\ intr = [r \in Requests |-> "none"]
    /\ nointr = FALSE
    /\ nreplies = {}

\* A process enters a system call (or the kernel forgets an inode).
Submit(r, k) ==
    /\ connected
    /\ kstat[r] = "idle"
    /\ kstat' = [kstat EXCEPT ![r] = "pending"]
    /\ kop' = [kop EXCEPT ![r] = k]
    /\ UNCHANGED <<connected, kdev, result, intr, nointr, nreplies>>

\* The process waiting for r is signalled: its INTERRUPT is queued, once.
Interrupt(r) ==
    /\ ~nointr
    /\ kstat[r] = "sent" /\ intr[r] = "none"
    /\ intr' = [intr EXCEPT ![r] = "queued"]
    /\ UNCHANGED <<connected, kstat, kop, kdev, result, nointr, nreplies>>

\* The connection ends: every unfinished system call fails.
Disconnect ==
    /\ connected
    /\ connected' = FALSE
    /\ kstat' = [r \in Requests |->
                   IF kstat[r] \in {"pending", "sent"} THEN "aborted" ELSE kstat[r]]
    /\ intr' = [r \in Requests |-> "none"]
    /\ nreplies' = {}
    /\ UNCHANGED <<kop, kdev, result, nointr>>

KEnv == \/ \E r \in Requests, k \in Ops : Submit(r, k)
        \/ \E r \in Requests : Interrupt(r)
        \/ Disconnect

\* read(2) or splice(2) on device d returns message m.  A message nobody
\* waits for is finished as soon as it has been read.
KRead(d, m) ==
    /\ connected
    /\ \/ /\ m \in [kind : Ops, id : Requests]
          /\ kstat[m.id] = "pending" /\ kop[m.id] = m.kind
          /\ kstat' = [kstat EXCEPT ![m.id] = IF m.kind = "forget" THEN "done" ELSE "sent"]
          /\ kdev' = [kdev EXCEPT ![m.id] = d]
          /\ UNCHANGED <<intr, nreplies>>
       \/ /\ m \in [kind : {"interrupt"}, id : Requests]
          /\ intr[m.id] = "queued"
          /\ intr' = [intr EXCEPT ![m.id] = "read"]
          /\ UNCHANGED <<kstat, kdev, nreplies>>
       \/ /\ m \in [kind : {"notify_reply"}, id : nreplies]
          /\ nreplies' = nreplies \ {m.id}
          /\ UNCHANGED <<kstat, kdev, intr>>
    /\ UNCHANGED <<connected, kop, result, nointr>>

\* Whether a reply to message m written to device d finds its request.
Finds(d, m) ==
    /\ connected
    /\ m.kind \in TwoWay \cup {"interrupt"}
    /\ kstat[m.id] = "sent" /\ kdev[m.id] = d

\* A reply that finds its request completes it; a reply to an INTERRUPT only
\* stops the kernel from sending more of them.
KReply(d, m, answer) ==
    /\ Finds(d, m)
    /\ IF m.kind = "interrupt"
       THEN /\ nointr' = TRUE
            /\ UNCHANGED <<kstat, result, intr>>
       ELSE /\ kstat' = [kstat EXCEPT ![m.id] = "done"]
            /\ result' = [result EXCEPT ![m.id] = answer]
            /\ intr' = [intr EXCEPT ![m.id] = "none"]
            /\ UNCHANGED nointr
    /\ UNCHANGED <<connected, kop, kdev, nreplies>>

\* A reply the kernel rejects as malformed: the system call fails with EIO.
KReject(d, m) ==
    /\ Finds(d, m)
    /\ kstat' = [kstat EXCEPT ![m.id] = IF m.kind = "interrupt" THEN @ ELSE "done"]
    /\ intr' = [intr EXCEPT ![m.id] = IF m.kind = "interrupt" THEN @ ELSE "none"]
    /\ UNCHANGED <<connected, kop, kdev, result, nointr, nreplies>>

\* FUSE_NOTIFY_RETRIEVE is accepted: its NOTIFY_REPLY is queued.
KRetrieve(i) ==
    /\ connected
    /\ nreplies' = nreplies \cup {i}
    /\ UNCHANGED <<connected, kstat, kop, kdev, result, intr, nointr>>

============================================================================
