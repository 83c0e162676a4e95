------------------------------ MODULE Connect ------------------------------
(***************************************************************************)
(* connect (src/connect.rs): mount, then answer FUSE_INIT until a version  *)
(* is agreed, then hand out the session.  Every error on the way returns   *)
(* through `?', which drops the Mount and so unmounts.  The kernel's side  *)
(* of the handshake is an external part of this module.                    *)
(***************************************************************************)
EXTENDS Negotiate

CONSTANTS Wishes,      \* the KernelConfigs a filesystem may pass to connect
          Offers,      \* the InitIns a kernel may send
          MaxStray,    \* bound: messages other than INIT before the handshake is over
          None

ASSUME ConnectAssumption ==
    /\ Wishes \subseteq Configs /\ Offers \subseteq InitIns
    /\ MaxStray \in Nat
    /\ \A w \in Wishes : w.minor = FUSE_KERNEL_MINOR_VERSION

\* What Linux kernels have sent so far: there was no version 7.4 or 7.5, and flags
\* of the high word come with INIT_EXT.
ASSUME KernelAssumption ==
    \A in \in Offers : /\ in.minor \notin {4, 5}
                       /\ in.flags \cap HighFlags # {} => "INIT_EXT" \in in.flags

VARIABLES
    pc,       \* where connect is
    wish,     \* the config it was called with
    config,   \* the config as negotiated so far
    msg,      \* what the buffer holds: None, "init", "short" or "other"
    mounted,  \* the mountpoint is mounted
    stuck,    \* history: the unmount of a dropped Mount failed
    kst,      \* the kernel: none, pending, read, refused, ready, gone
    kin,      \* the arguments of the kernel's INIT request
    kview,    \* what the kernel took from the accepted reply
    stray

vars == <<pc, wish, config, msg, mounted, stuck, kst, kin, kview, stray>>
kernel == <<kst, kin, kview, stray>>

Returned == {"ok", "err", "panic"}

----------------------------------------------------------------------------
(* The kernel                                                              *)

\* What the kernel keeps of a reply.
KernelViews == [minor : Nat, flags : SUBSET Flags, max_write : Nat]

ASSUME NoneAssumption == None \notin KernelViews

\* process_init_reply: old versions ignore most of the struct.
KernelView(out) ==
    [minor |-> out.minor,
     flags |-> IF out.minor >= 6 THEN out.flags ELSE {},
     max_write |-> Max(4096, IF out.minor < 5 THEN 4096 ELSE out.max_write)]

\* The smallest buffer fuse_dev_do_read accepts.
KernelMinBuffer(view) == Max(FUSE_MIN_READ_BUFFER, HeaderAndWriteIn + view.max_write)

\* The connection is aborted, or someone else unmounts the filesystem.
Disconnect ==
    /\ kst \notin {"none", "gone"}
    /\ kst' = "gone"
    /\ mounted' \in {mounted, FALSE}
    /\ UNCHANGED <<pc, wish, config, msg, stuck, kin, kview, stray>>

----------------------------------------------------------------------------

Init ==
    /\ pc = "mount"
    /\ wish \in Wishes
    /\ config = wish
    /\ msg = None
    /\ mounted = FALSE /\ stuck = FALSE
    /\ kst = "none"
    /\ kin \in Offers
    /\ kview = None
    /\ stray = 0

\* Mutant: the mount is forgotten, not dropped.
Fail_Leak(state) == pc' = state /\ UNCHANGED <<mounted, stuck>>

\* Leaving through `?' or a panic drops the Mount, which unmounts and ignores an error.
Fail(state) ==
    /\ pc' = state
    /\ \/ mounted' = FALSE /\ UNCHANGED stuck
       \/ stuck' = TRUE /\ UNCHANGED mounted

Mount ==
    /\ pc = "mount"
    /\ \/ pc' = "receive" /\ mounted' = TRUE /\ kst' = "pending"
       \/ pc' = "err" /\ UNCHANGED <<mounted, kst>>
    /\ UNCHANGED <<stuck, wish, config, msg, kin, kview, stray>>

\* try_receive returns the INIT request, whole or too short for its version.
ReceiveInit ==
    /\ pc = "receive"
    /\ kst = "pending"
    /\ pc' = "handle"
    /\ msg' \in {"init", "short"}
    /\ kst' = "read"
    /\ UNCHANGED <<wish, config, mounted, stuck, kin, kview, stray>>

ReceiveOther ==
    /\ pc = "receive"
    /\ kst \notin {"none", "gone"} /\ stray < MaxStray
    /\ pc' = "handle"
    /\ msg' = "other"
    /\ stray' = stray + 1
    /\ UNCHANGED <<wish, config, mounted, stuck, kst, kin, kview>>

\* try_receive fails: always once the connection is gone; before, for a message
\* of the wrong length (the kernel has nothing to send after it refused).
ReceiveError ==
    /\ pc = "receive"
    /\ kst \in {"pending", "gone"}
    /\ Fail("err")
    /\ UNCHANGED <<wish, config, msg, kernel>>

\* A message that is not INIT is dropped without an answer.
IgnoreOther ==
    /\ pc = "handle" /\ msg = "other"
    /\ pc' = "receive"
    /\ msg' = None
    /\ UNCHANGED <<wish, config, mounted, stuck, kernel>>

\* InitIn::from_bytes returns None.
TooShort ==
    /\ pc = "handle" /\ msg = "short"
    /\ Fail("err")
    /\ UNCHANGED <<wish, config, msg, kernel>>

\* Mutant: a too large version is refused with EPROTO.
ReplyTooLarge_Refuse ==
    /\ pc = "handle" /\ msg = "init" /\ Outcome(kin) = "TooLarge"
    /\ pc' = "receive"
    /\ msg' = None
    /\ kst' = IF kst = "gone" THEN "gone" ELSE "refused"
    /\ UNCHANGED <<wish, config, mounted, stuck, kin, kview, stray>>

\* A too large version is answered with ours; the kernel sends INIT again.
ReplyTooLarge ==
    /\ pc = "handle" /\ msg = "init" /\ Outcome(kin) = "TooLarge"
    /\ \/ /\ kst # "gone"
          /\ pc' = "receive"
          /\ msg' = None
          /\ kst' = "pending"
          /\ kin' \in {in \in Offers : in.major = FUSE_KERNEL_VERSION}
          /\ UNCHANGED <<mounted, stuck>>
       \/ /\ kst = "gone"
          /\ Fail("err")
          /\ UNCHANGED <<msg, kst, kin>>
    /\ UNCHANGED <<wish, config, kview, stray>>

\* A too small version is refused, and connect waits for another INIT.
ReplyTooSmall ==
    /\ pc = "handle" /\ msg = "init" /\ Outcome(kin) = "TooSmall"
    /\ \/ /\ kst # "gone"
          /\ pc' = "receive"
          /\ msg' = None
          /\ kst' = "refused"
          /\ UNCHANGED <<mounted, stuck>>
       \/ /\ kst = "gone"
          /\ Fail("err")
          /\ UNCHANGED <<msg, kst>>
    /\ UNCHANGED <<wish, config, kin, kview, stray>>

\* negotiate panics in a build with overflow checks.
Panic ==
    /\ pc = "handle" /\ msg = "init" /\ Outcome(kin) = "Ok"
    /\ Overflows(config, kin)
    /\ Fail("panic")
    /\ UNCHANGED <<wish, config, msg, kernel>>

\* Mutant: the session is returned although the reply was not delivered.
ReplyInit_Unsent ==
    /\ pc = "handle" /\ msg = "init" /\ Outcome(kin) = "Ok"
    /\ config' = Negotiated(config, kin)
    /\ pc' = "ok"
    /\ \/ /\ kst # "gone"
          /\ kst' = "ready"
          /\ kview' = KernelView(ToOut(config'))
       \/ /\ kst = "gone"
          /\ UNCHANGED <<kst, kview>>
    /\ UNCHANGED <<wish, msg, mounted, stuck, kin, stray>>

\* The version is agreed: the kernel is told and the session is returned.
ReplyInit ==
    /\ pc = "handle" /\ msg = "init" /\ Outcome(kin) = "Ok"
    /\ config' = Negotiated(config, kin)
    /\ \/ /\ kst # "gone"
          /\ pc' = "ok"
          /\ kst' = "ready"
          /\ kview' = KernelView(ToOut(config'))
          /\ UNCHANGED <<mounted, stuck>>
       \/ /\ kst = "gone"
          /\ Fail("err")
          /\ UNCHANGED <<kst, kview>>
    /\ UNCHANGED <<wish, msg, kin, stray>>

Step ==
    \/ Mount
    \/ ReceiveInit \/ ReceiveOther \/ ReceiveError
    \/ IgnoreOther \/ TooShort
    \/ ReplyTooLarge \/ ReplyTooSmall \/ Panic \/ ReplyInit

Next == Step \/ Disconnect

Spec == Init /\ [][Next]_vars

----------------------------------------------------------------------------
(* Properties                                                              *)

\* connect returns a session only for a connection whose INIT the kernel accepted, also
\* when earlier INITs were downgraded and stray messages dropped; and whichever step
\* fails or panics, the mountpoint is not left mounted, unless the unmount itself fails.
SessionOrUnmounted ==
    /\ pc = "ok" => kview # None /\ kst \in {"ready", "gone"}
    /\ pc \in {"err", "panic"} => ~mounted \/ stuck

\* The buffers of the session satisfy the kernel: fuse_dev_do_read fails every
\* read into less than it may have to deliver.  (Before 7.4 max_write is not
\* negotiated.)
BufferHoldsRequests ==
    pc = "ok" /\ kin.minor > 3 => RequestBufferSize(config) >= KernelMinBuffer(kview)

\* The session and the kernel agree on the flags, none of which the kernel did not
\* offer: new_request_buffer and decode choose layouts by them.
FlagsAgree ==
    pc = "ok" /\ kin.minor > 3 =>
        /\ kview.flags = config.flags
        /\ kview.minor = config.minor
        /\ config.flags \subseteq InFlags(kin)
        /\ READ_ONLY \cap InFlags(kin) \subseteq config.flags

\* Whatever the filesystem asked for, negotiate keeps the u16 fields in range and settles
\* on a version this library speaks; the thresholds, pages, stack depth and granularity
\* of the result are consistent with each other and with the flags; and max_write is
\* between the kernel's smallest read and the most that any request can carry.  (That
\* max_write is at most DEFAULT_MAX_PAGES_PER_REQ pages without MAX_PAGES, as its
\* documentation says, is not so: negotiate adjusts it to MAX_MAX_PAGES pages only.)
LimitsConsistent ==
    /\ config \in Configs
    /\ pc = "ok" /\ kin.minor > 3 =>
        /\ config.congestion_threshold <= config.max_background
        /\ MIN_MAX_WRITE <= config.max_write /\ config.max_write <= MAX_MAX_PAGES * PageSize
        /\ config.max_pages \in 1 .. MAX_MAX_PAGES
        /\ config.max_pages # DEFAULT_MAX_PAGES_PER_REQ => "MAX_PAGES" \in config.flags
        /\ config.max_stack_depth <= FILESYSTEM_MAX_STACK_DEPTH
        /\ "PASSTHROUGH" \in config.flags => "WRITEBACK_CACHE" \notin config.flags
        /\ "PASSTHROUGH" \notin config.flags => config.max_stack_depth = 0
        /\ config.time_gran \in PowersOfTen \cup {0}
        /\ wish.time_gran > 0 => config.time_gran <= wish.time_gran

\* connect returns when the kernel speaks version 7 or can be downgraded to it.
ReturnsIfModern == kin.major >= FUSE_KERNEL_VERSION => <>(pc \in Returned)

\* "If congestion_threshold = 0 it becomes max_background * 3/4" (comment in
\* negotiate).
ThresholdDefault ==
    pc = "ok" /\ kin.minor >= 13 /\ wish.congestion_threshold = 0 =>
        config.congestion_threshold = (wish.max_background * 3) \div 4

============================================================================
