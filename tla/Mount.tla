------------------------------- MODULE Mount -------------------------------
(***************************************************************************)
(* The life of a Mount (src/mount.rs and the two modules below it): made   *)
(* by mount(2), or without the privilege by a child `fusermount' that      *)
(* mounts and sends the descriptor over a socket; undone by unmount or     *)
(* drop.  With AUTO_UNMOUNT the child stays and unmounts when the socket   *)
(* is closed.  The daemon may die at any point.                            *)
(***************************************************************************)
EXTENDS Naturals

CONSTANT MaxUmounts  \* bound: unmounts by others

ASSUME MountAssumption == MaxUmounts \in Nat

VARIABLES
    at,       \* the daemon's thread in mount, unmount and drop
    auto,     \* FuseFlags::AUTO_UNMOUNT
    kind,     \* Mount::kind, with UmountMode for unprivileged mounts
    input,    \* the daemon holds its end of the socket
    chan,     \* the descriptor is on its way in the socket
    mnt,      \* the filesystem is mounted
    child,    \* the process fusermount
    reaped,   \* the child has been waited for
    failed,   \* history: an unmount failed
    umounts,  \* history: unmount attempts for a mount by this Mount
    others    \* unmounts by others

mountVars == <<at, auto, kind, input, chan, mnt, child, reaped, failed, umounts, others>>
proc == <<chan, child>>
hist == <<failed, umounts, others>>

Ended == {"done_ok", "done_fail"}

MountInit ==
    /\ at = "priv"
    /\ auto \in BOOLEAN
    /\ kind = "none"
    /\ input = FALSE /\ chan = FALSE
    /\ mnt = FALSE
    /\ child = "none" /\ reaped = FALSE
    /\ failed = FALSE /\ umounts = 0 /\ others = 0

----------------------------------------------------------------------------
(* mount                                                                   *)

\* PrivMount::mount: mounted; refused with EPERM; or another error, which a
\* missing mountpoint is as well.
PrivMount ==
    /\ at = "priv"
    /\ \/ at' = "held" /\ kind' = "Priv" /\ mnt' = TRUE
       \/ at' = "spawn" /\ UNCHANGED <<kind, mnt>>
       \/ at' = "err" /\ UNCHANGED <<kind, mnt>>
    /\ UNCHANGED <<auto, input, reaped, proc, hist>>

\* UnprivMount::mount up to the spawn of fusermount.
Spawn ==
    /\ at = "spawn"
    /\ \/ at' = "recv" /\ input' = TRUE /\ child' = "run"
       \/ at' = "err" /\ UNCHANGED <<input, child>>
    /\ UNCHANGED <<auto, kind, chan, mnt, reaped, hist>>

\* Mutant: fusermount is waited for in both modes.
ReceiveFd_Wait ==
    /\ at = "recv" /\ chan
    /\ chan' = FALSE
    /\ at' = "wait"
    /\ UNCHANGED <<auto, kind, input, mnt, child, reaped, hist>>

\* receive_fd returns the descriptor.
ReceiveFd ==
    /\ at = "recv" /\ chan
    /\ chan' = FALSE
    /\ \/ auto /\ at' = "held" /\ kind' = "Implicit"
       \/ ~auto /\ at' = "wait" /\ UNCHANGED kind
    /\ UNCHANGED <<auto, input, mnt, child, reaped, hist>>

\* Mutant: the daemon's end of the socket stays open.
ReceiveFdError_Leak ==
    /\ at = "recv"
    /\ at' = "err"
    /\ UNCHANGED <<auto, kind, input, mnt, reaped, proc, hist>>

\* receive_fd fails (a signal interrupts recvmsg).  An end of file is never seen:
\* the other end is also open in the daemon, in the ManuallyDrop of pre_exec.
ReceiveFdError ==
    /\ at = "recv"
    /\ at' = "err"
    /\ input' = FALSE
    /\ UNCHANGED <<auto, kind, mnt, reaped, proc, hist>>

\* umount: `fusermount -u -q -z', whose status is ignored, or which is not found; or
\* umount(2) in PrivMount::unmount.  When it fails, nobody tries again.
TryUmount ==
    \/ mnt' = FALSE /\ UNCHANGED failed
    \/ failed' = TRUE /\ UNCHANGED mnt

\* wait_with_output, and the unmount if fusermount failed after all.
WaitOutput ==
    /\ at = "wait" /\ child \in Ended
    /\ reaped' = TRUE
    /\ input' = FALSE
    /\ \/ child = "done_ok" /\ at' = "held" /\ kind' = "Explicit" /\ UNCHANGED <<mnt, failed>>
       \/ child = "done_fail" /\ at' = "err" /\ TryUmount /\ UNCHANGED kind
    /\ UNCHANGED <<auto, proc, umounts, others>>

----------------------------------------------------------------------------
(* unmount and drop                                                        *)

\* Mutant: the child is waited for with the socket still open.
CloseInput_Keep == UNCHANGED input

CloseInput == input' = FALSE

\* Mutant: the kind is not replaced.
TakeKind_Copy == UNCHANGED kind

\* mem::replace(&mut self.kind, MountKind::Gone)
TakeKind == kind' = "Gone"

\* Mount::unmount_, called by unmount (and then again by drop) or by drop alone.
Unmount(next) ==
    /\ umounts' = IF kind = "Gone" THEN umounts ELSE umounts + 1
    /\ \/ /\ kind \in {"Priv", "Explicit"}
          /\ TryUmount
          /\ at' = next
          /\ UNCHANGED input
       \/ /\ kind = "Implicit"
          /\ CloseInput
          /\ at' = IF next = "drop" THEN "reap_drop" ELSE "reap"
          /\ UNCHANGED <<mnt, failed>>
       \/ /\ kind = "Gone"
          /\ at' = next
          /\ UNCHANGED <<input, mnt, failed>>
    /\ TakeKind
    /\ UNCHANGED <<auto, reaped, proc, others>>

\* The filesystem calls unmount, which consumes the Mount and so drops it.
CallUnmount == at = "held" /\ Unmount("drop")

\* The Mount goes out of scope, at once or at the end of unmount.
Drop == at \in {"held", "drop"} /\ Unmount("gone")

\* Mutant: the child is not waited for.
Reap_NoWait ==
    /\ at \in {"reap", "reap_drop"}
    /\ at' = IF at = "reap_drop" THEN "drop" ELSE "gone"
    /\ UNCHANGED <<auto, kind, input, mnt, reaped, proc, hist>>

\* Child::wait
Reap ==
    /\ at \in {"reap", "reap_drop"} /\ child \in Ended
    /\ reaped' = TRUE
    /\ at' = IF at = "reap_drop" THEN "drop" ELSE "gone"
    /\ UNCHANGED <<auto, kind, input, mnt, proc, hist>>

----------------------------------------------------------------------------
(* The environment: fusermount, the end of the daemon, other processes     *)

ChildMount ==
    /\ child = "run"
    /\ \/ child' = "mounted" /\ mnt' = TRUE
       \/ child' = "done_fail" /\ UNCHANGED mnt
    /\ UNCHANGED <<at, auto, kind, input, chan, reaped, hist>>

\* It sends the descriptor; nobody to send it to makes it unmount and fail.
ChildSend ==
    /\ child = "mounted"
    /\ \/ input /\ child' = "sent" /\ chan' = TRUE /\ UNCHANGED mnt
       \/ ~input /\ child' = "done_fail" /\ mnt' = FALSE /\ UNCHANGED chan
    /\ UNCHANGED <<at, auto, kind, input, reaped, hist>>

\* Without auto_unmount it exits; with it, it waits for the end of the socket.
ChildExit ==
    /\ child = "sent"
    /\ \/ ~auto /\ child' \in Ended /\ UNCHANGED mnt
       \/ auto /\ ~input /\ child' = "done_ok" /\ mnt' = FALSE
    /\ UNCHANGED <<at, auto, kind, input, chan, reaped, hist>>

\* The daemon is killed: the system closes its descriptors.
Crash ==
    /\ at \notin {"err", "gone", "dead"}
    /\ at' = "dead"
    /\ input' = FALSE
    /\ UNCHANGED <<auto, kind, mnt, reaped, proc, hist>>

OtherUmount ==
    /\ mnt /\ others < MaxUmounts
    /\ mnt' = FALSE
    /\ others' = others + 1
    /\ UNCHANGED <<at, auto, kind, input, reaped, proc, failed, umounts>>

----------------------------------------------------------------------------

Daemon == \/ PrivMount \/ Spawn \/ ReceiveFd \/ WaitOutput \/ Drop \/ Reap
Child == ChildMount \/ ChildSend \/ ChildExit

MountNext == Daemon \/ ReceiveFdError \/ CallUnmount \/ Child \/ Crash \/ OtherUmount

MountSpec == MountInit /\ [][MountNext]_mountVars

----------------------------------------------------------------------------
(* Properties                                                              *)

\* A Mount is undone at most once (drop after unmount finds the kind Gone), and once it
\* is gone nothing is mounted, unless an unmount failed, and no child is left behind,
\* whichever way it was mounted and undone.
GoneIsClean ==
    /\ umounts <= 1
    /\ at = "gone" => /\ failed \/ ~mnt
                      /\ child # "none" => child \in Ended /\ reaped

\* With AUTO_UNMOUNT a filesystem mounted by fusermount does not stay mounted after
\* the daemon died, mount failed or the Mount was dropped.
AutoUnmount ==
    auto /\ child # "none" /\ at \in {"err", "dead", "gone"} ~> ~mnt

\* mount returns, unless fusermount ended without sending a descriptor; unmount and drop
\* do not wait for ever for a fusermount that waits for them.
CallsReturn ==
    /\ at \in {"spawn", "recv", "wait"} ~> \/ at \in {"held", "err", "dead"}
                                           \/ at = "recv" /\ child = "done_fail"
    /\ at \in {"reap", "reap_drop", "drop"} ~> at \in {"gone", "dead"}

============================================================================
