--------------------------- MODULE StartupProofs ---------------------------
(***************************************************************************)
(* What connect returns and what it leaves behind, for every config that a *)
(* filesystem may wish for and every INIT that a kernel may send; and what *)
(* a Mount leaves behind, however it was made and undone and whatever      *)
(* others do to the mountpoint meanwhile.                                  *)
(***************************************************************************)
EXTENDS Connect, Mount, TLAPS

\* negotiate works on the wish itself; when connect has returned a session, its config
\* is the negotiated one and the kernel's view was taken from it.
ConfigIsKnown ==
    /\ pc \notin Returned => config = wish
    /\ pc = "ok" => /\ Outcome(kin) = "Ok"
                    /\ config = Negotiated(wish, kin)
                    /\ kview = KernelView(ToOut(config))
                    /\ kst \in {"ready", "gone"}

IInv ==
    /\ wish \in Wishes /\ kin \in Offers
    /\ config \in Configs
    /\ ConfigIsKnown
    /\ pc = "mount" => ~mounted
    /\ pc \in {"err", "panic"} => ~mounted \/ stuck

----------------------------------------------------------------------------
(* What negotiate computes                                                 *)

USE DEF Min, Max

\* The bounds of the two intervals in Configs, as inequalities.
LEMMA Ranges ==
    /\ U16_MAX = 65535 /\ FUSE_KERNEL_MINOR_VERSION = 44
    /\ \A n : n \in U16 <=> n \in Nat /\ n <= U16_MAX
    /\ \A n : n \in 0 .. FUSE_KERNEL_MINOR_VERSION <=> n \in Nat /\ n <= FUSE_KERNEL_MINOR_VERSION
<1>1. U16_MAX = 65535 /\ FUSE_KERNEL_MINOR_VERSION = 44
  BY DEF U16_MAX, FUSE_KERNEL_MINOR_VERSION
<1>2. U16_MAX \in Nat /\ FUSE_KERNEL_MINOR_VERSION \in Nat
  BY <1>1
<1>3. /\ \A n : n \in U16 <=> n \in Nat /\ n <= U16_MAX
      /\ \A n : n \in 0 .. FUSE_KERNEL_MINOR_VERSION <=> n \in Nat /\ n <= FUSE_KERNEL_MINOR_VERSION
  BY <1>2 DEF U16
<1> QED
  BY <1>1, <1>3

\* The CHOOSE in FloorPowerOfTen has something to choose.
LEMMA FloorPower ==
    ASSUME NEW x \in Nat, x >= 1
    PROVE  FloorPowerOfTen(x) \in PowersOfTen /\ FloorPowerOfTen(x) <= x
<1> DEFINE Floor(p) == p <= x /\ \A q \in PowersOfTen : q <= x => q <= p
<1>1. \E p \in PowersOfTen : Floor(p)
  BY DEF PowersOfTen
<1> QED
  BY <1>1 DEF FloorPowerOfTen

\* max_write is within its bounds.
LEMMA MaxWriteBounds ==
    ASSUME NEW w \in Configs
    PROVE  /\ MaxWrite(w) \in Nat /\ MaxWrite(w) >= MIN_MAX_WRITE
           /\ MaxWrite(w) <= MAX_MAX_PAGES * PageSize
  BY NegotiateAssumption
  DEF Configs, MaxWrite, MIN_MAX_WRITE, FUSE_MIN_READ_BUFFER, HeaderAndWriteIn, MAX_MAX_PAGES

\* The congestion threshold is within its bounds.
LEMMA CongestionBounds ==
    ASSUME NEW w \in Configs, NEW minor \in Nat
    PROVE  /\ Congestion(w, minor) \in U16
           /\ Congestion(w, minor) <= IF minor >= 13 THEN w.max_background ELSE 0
<1>1. w.max_background \in U16 /\ w.congestion_threshold \in U16
  BY DEF Configs
<1>2. DefaultThreshold(w.max_background) \in U16
  BY <1>1, Ranges DEF DefaultThreshold
<1> QED
  BY <1>1, <1>2, Ranges DEF Congestion

\* A kernel older than 7.4 gets the wish back with its own version.
LEMMA NegotiatedOld ==
    ASSUME NEW w \in Wishes, NEW in \in Offers, in.minor <= 3
    PROVE  Negotiated(w, in) \in Configs
<1>1. w \in Configs /\ in \in InitIns
  BY ConnectAssumption
<1>2. NegotiatedMinor(w, in) \in 0 .. FUSE_KERNEL_MINOR_VERSION
  BY <1>1, Ranges DEF NegotiatedMinor, InitIns, Configs
<1>3. Negotiated(w, in) = [w EXCEPT !.major = in.major, !.minor = NegotiatedMinor(w, in)]
  BY DEF Negotiated, Form
<1> QED
  BY <1>1, <1>2, <1>3, Zenon DEF Configs, InitIns

\* The flags of the result, before and after PASSTHROUGH is decided on.
LEMMA NegotiatedFlagBounds ==
    ASSUME NEW w \in Wishes, NEW in \in Offers
    PROVE  /\ NegotiatedFlags(w, in) \subseteq InFlags(in)
           /\ NegotiatedFlags(w, in) \subseteq Flags
           /\ READ_ONLY \cap InFlags(in) \subseteq NegotiatedFlags(w, in)
           /\ "PASSTHROUGH" \in NegotiatedFlags(w, in) => "INIT_EXT" \in NegotiatedFlags(w, in)
<1>1. w \in Configs /\ in \in InitIns
  BY ConnectAssumption
<1>2. InFlags(in) \subseteq in.flags /\ in.flags \subseteq Flags
  BY <1>1 DEF InFlags, Form, InitIns
<1>3. "PASSTHROUGH" \in InFlags(in) => "INIT_EXT" \in InFlags(in)
  BY KernelAssumption DEF InFlags, Form, HighFlags
<1> QED
  BY <1>1, <1>2, <1>3 DEF NegotiatedFlags, READ_ONLY

\* What later kernels agree on, field by field.
LEMMA NegotiatedNew ==
    ASSUME NEW w \in Wishes, NEW in \in Offers, in.minor > 3
    PROVE  LET r == Negotiated(w, in)
               flags == NegotiatedFlags(w, in)
           IN /\ r \in Configs
              /\ r.minor = NegotiatedMinor(w, in) /\ r.minor > 3 /\ r.minor \notin {4, 5}
              /\ r.max_write = MaxWrite(w)
              /\ r.flags = flags \/ r.flags = flags \ {"PASSTHROUGH"}
              /\ "PASSTHROUGH" \in r.flags => r.minor >= 40 /\ "WRITEBACK_CACHE" \notin r.flags
              /\ r.congestion_threshold <= r.max_background
              /\ r.max_pages \in 1 .. MAX_MAX_PAGES
              /\ r.max_pages # DEFAULT_MAX_PAGES_PER_REQ => "MAX_PAGES" \in r.flags
              /\ r.max_stack_depth <= FILESYSTEM_MAX_STACK_DEPTH
              /\ "PASSTHROUGH" \notin r.flags => r.max_stack_depth = 0
              /\ r.time_gran \in PowersOfTen \cup {0}
              /\ w.time_gran > 0 => r.time_gran <= w.time_gran
<1> DEFINE r == Negotiated(w, in)
           flags == NegotiatedFlags(w, in)
           minor == NegotiatedMinor(w, in)
           passthrough == /\ minor >= 40
                          /\ "PASSTHROUGH" \in flags
                          /\ "WRITEBACK_CACHE" \notin flags
           pages == IF minor >= 28 /\ "MAX_PAGES" \in flags
                    THEN Min(Max(w.max_pages, 1), MAX_MAX_PAGES)
                    ELSE DEFAULT_MAX_PAGES_PER_REQ
           depth == IF passthrough THEN Min(w.max_stack_depth, FILESYSTEM_MAX_STACK_DEPTH) ELSE 0
           gran == IF minor >= 13 THEN FloorPowerOfTen(Max(w.time_gran, 1)) ELSE 0
           background == IF minor >= 13 THEN w.max_background ELSE 0
           readahead == Max(Min(w.max_readahead, InReadahead(in)), 4096)
<1>1. w \in Configs /\ in \in InitIns /\ w.minor = 44
  BY ConnectAssumption, Ranges
<1>2. r = [major |-> in.major, minor |-> minor,
           flags |-> IF passthrough THEN flags ELSE flags \ {"PASSTHROUGH"},
           max_readahead |-> readahead, max_write |-> MaxWrite(w),
           max_background |-> background, congestion_threshold |-> Congestion(w, minor),
           time_gran |-> gran, max_pages |-> pages, max_stack_depth |-> depth,
           request_timeout |-> 0]
  BY <1>1 DEF Negotiated, Form, InitIns
<1>3. /\ minor \in Nat /\ minor <= 44 /\ minor > 3 /\ minor \notin {4, 5}
      /\ minor \in 0 .. FUSE_KERNEL_MINOR_VERSION
  BY <1>1, Ranges, KernelAssumption DEF NegotiatedMinor, InitIns
<1>4. w.max_pages \in Nat /\ w.max_stack_depth \in Nat /\ w.time_gran \in Nat
      /\ w.max_background \in U16 /\ w.max_readahead \in Nat /\ InReadahead(in) \in Nat
      /\ in.major \in Nat
  BY <1>1, Ranges DEF Configs, InitIns, InReadahead, Form
<1>5. pages \in Nat /\ 1 <= pages /\ pages <= 256
  BY <1>4 DEF MAX_MAX_PAGES, DEFAULT_MAX_PAGES_PER_REQ
<1>6. depth \in Nat /\ depth <= FILESYSTEM_MAX_STACK_DEPTH
  BY <1>4 DEF FILESYSTEM_MAX_STACK_DEPTH
<1>7. gran \in PowersOfTen \cup {0} /\ gran \in Nat /\ (w.time_gran > 0 => gran <= w.time_gran)
  <2>1. PowersOfTen \subseteq Nat
    BY DEF PowersOfTen
  <2> DEFINE x == Max(w.time_gran, 1)
  <2>2. x \in Nat /\ x >= 1 /\ (w.time_gran > 0 => x = w.time_gran)
    BY <1>4
  <2>3. FloorPowerOfTen(x) \in PowersOfTen /\ FloorPowerOfTen(x) <= x
    BY <2>2, FloorPower
  <2>4. gran = IF minor >= 13 THEN FloorPowerOfTen(x) ELSE 0
    OBVIOUS
  <2> HIDE DEF x, gran, minor
  <2>5. FloorPowerOfTen(x) \in Nat /\ w.time_gran \in Nat
    BY <1>4, <2>1, <2>3, Zenon
  <2>6. CASE minor >= 13
    BY <2>2, <2>3, <2>4, <2>5, <2>6
  <2>7. CASE ~(minor >= 13)
    BY <2>4, <2>5, <2>7
  <2> QED
    BY <2>6, <2>7
<1>8. Congestion(w, minor) \in U16 /\ Congestion(w, minor) <= background /\ background \in U16
  BY <1>1, <1>3, <1>4, CongestionBounds, Ranges
<1>9. readahead \in Nat /\ MaxWrite(w) \in Nat
  BY <1>1, <1>4, MaxWriteBounds
<1>10. flags \subseteq Flags
  BY NegotiatedFlagBounds, Zenon
<1>11. pages \in 1 .. MAX_MAX_PAGES /\ pages \in U16 /\ 0 \in U16
  BY <1>5, Ranges DEF MAX_MAX_PAGES
<1>12. pages # DEFAULT_MAX_PAGES_PER_REQ => "MAX_PAGES" \in flags
  OBVIOUS
<1> HIDE DEF minor, flags, pages, depth, gran, background, readahead
<1>13. r \in Configs
  BY <1>2, <1>3, <1>4, <1>6, <1>7, <1>8, <1>9, <1>10, <1>11 DEF Configs
<1>14. "PASSTHROUGH" \notin r.flags => r.max_stack_depth = 0
  BY <1>2 DEF depth
<1> QED
  BY <1>2, <1>3, <1>6, <1>7, <1>8, <1>11, <1>12, <1>13, <1>14 DEF flags, minor

\* The types of what is negotiated.
LEMMA NegotiatedType ==
    ASSUME NEW w \in Wishes, NEW in \in Offers
    PROVE  Negotiated(w, in) \in Configs
<1>1. in.minor \in Nat
  BY ConnectAssumption DEF InitIns
<1> QED
  BY <1>1, NegotiatedOld, NegotiatedNew

----------------------------------------------------------------------------
(* The inductive invariant                                                 *)

\* The invariant of the handshake holds at the start.
LEMMA InitInv == Init => IInv
  BY ConnectAssumption DEF Init, IInv, ConfigIsKnown, Returned

\* The reply to FUSE_INIT keeps it.
LEMMA ReplyInitInv ==
    ASSUME IInv, ReplyInit
    PROVE  IInv'
<1>1. config = wish /\ wish \in Wishes /\ kin \in Offers
  BY DEF IInv, ConfigIsKnown, ReplyInit, Returned
<1>2. config' = Negotiated(wish, kin) /\ config' \in Configs
  BY <1>1, NegotiatedType DEF ReplyInit
<1> QED
  BY <1>1, <1>2 DEF IInv, ConfigIsKnown, ReplyInit, Fail, Returned

\* Every step keeps it.
LEMMA NextInv ==
    ASSUME IInv, [Next]_vars
    PROVE  IInv'
<1> USE DEF IInv, ConfigIsKnown, Returned
<1>1. CASE Mount
  BY <1>1 DEF Mount
<1>2. CASE ReceiveInit \/ ReceiveOther \/ IgnoreOther
  BY <1>2 DEF ReceiveInit, ReceiveOther, IgnoreOther, kernel
<1>3. CASE ReceiveError \/ TooShort \/ Panic
  BY <1>3 DEF ReceiveError, TooShort, Panic, Fail, kernel
<1>4. CASE ReplyTooLarge \/ ReplyTooSmall
  BY <1>4 DEF ReplyTooLarge, ReplyTooSmall, Fail
<1>5. CASE ReplyInit
  BY <1>5, ReplyInitInv
<1>6. CASE Disconnect
  <2>1. mounted' = mounted \/ mounted' = FALSE
    BY <1>6, Zenon DEF Disconnect
  <2> QED
    BY <1>6, <2>1 DEF Disconnect
<1>7. CASE UNCHANGED vars
  BY <1>7 DEF vars
<1> QED
  BY <1>1, <1>2, <1>3, <1>4, <1>5, <1>6, <1>7 DEF Next, Step

\* The invariant holds of every handshake.
LEMMA InvHolds == Spec => []IInv
  BY InitInv, NextInv, PTL DEF Spec

----------------------------------------------------------------------------

\* Whatever happens on the way, connect leaves nothing mounted unless it returns a
\* session or the unmount itself fails, and it returns one only after the kernel accepted its INIT (connect.rs).
THEOREM NothingLeftMounted == Spec => []SessionOrUnmounted
<1>1. ASSUME IInv PROVE SessionOrUnmounted
  <2>1. CASE pc = "ok"
    <3>1. config \in Configs /\ config.minor \in Nat /\ config.max_write \in Nat
      BY <1>1, Ranges DEF IInv, Configs
    <3>2. ToOut(config).minor \in Nat /\ ToOut(config).max_write \in Nat
          /\ ToOut(config).flags \subseteq Flags
      BY <3>1 DEF ToOut, Configs
    <3>3. KernelView(ToOut(config)) \in KernelViews
      BY <3>2 DEF KernelView, KernelViews
    <3> QED
      BY <1>1, <2>1, <3>3, NoneAssumption DEF IInv, ConfigIsKnown, SessionOrUnmounted
  <2>2. CASE pc # "ok"
    BY <1>1, <2>2 DEF IInv, SessionOrUnmounted
  <2> QED
    BY <2>1, <2>2
<1> QED
  BY <1>1, InvHolds, PTL

\* The buffers of a session are large enough for the kernel's smallest read
\* (Session::request_buffer_size against fuse_dev_do_read).
THEOREM BuffersSuffice == Spec => []BufferHoldsRequests
<1>1. ASSUME IInv, pc = "ok", kin.minor > 3
      PROVE  RequestBufferSize(config) >= KernelMinBuffer(kview)
  <2>1. wish \in Wishes /\ wish \in Configs /\ kin \in Offers
        /\ config = Negotiated(wish, kin) /\ kview = KernelView(ToOut(config))
    BY <1>1, ConnectAssumption, Zenon DEF IInv, ConfigIsKnown
  <2>2. /\ config.minor \in Nat /\ config.minor > 3 /\ config.minor \notin {4, 5}
        /\ config.max_write \in Nat /\ config.max_write >= 8112
    BY <1>1, <2>1, NegotiatedNew, MaxWriteBounds, Ranges
    DEF Configs, MIN_MAX_WRITE, FUSE_MIN_READ_BUFFER, HeaderAndWriteIn
  <2>3. ToOut(config).max_write = config.max_write /\ ToOut(config).minor = config.minor
    BY <2>2 DEF ToOut
  <2>4. kview.max_write = config.max_write
    BY <2>1, <2>2, <2>3 DEF KernelView
  <2> QED
    BY <2>2, <2>4
    DEF RequestBufferSize, KernelMinBuffer, FUSE_MIN_READ_BUFFER, HeaderAndWriteIn
<1>2. IInv => BufferHoldsRequests
  BY <1>1, Zenon DEF BufferHoldsRequests
<1> QED
  BY <1>2, InvHolds, PTL

\* The flags and the version in the session's config are the ones the kernel acts on,
\* although to_out leaves out what an old struct cannot carry (KernelConfig::to_out).
THEOREM FlagsAreAgreed == Spec => []FlagsAgree
<1>1. ASSUME IInv, pc = "ok", kin.minor > 3
      PROVE  /\ kview.flags = config.flags
             /\ kview.minor = config.minor
             /\ config.flags \subseteq InFlags(kin)
             /\ READ_ONLY \cap InFlags(kin) \subseteq config.flags
  <2>1. wish \in Wishes /\ kin \in Offers
        /\ config = Negotiated(wish, kin) /\ kview = KernelView(ToOut(config))
    BY <1>1 DEF IInv, ConfigIsKnown
  <2>2. /\ config.minor \in Nat /\ config.minor > 3 /\ config.minor \notin {4, 5}
        /\ \/ config.flags = NegotiatedFlags(wish, kin)
           \/ config.flags = NegotiatedFlags(wish, kin) \ {"PASSTHROUGH"}
        /\ "PASSTHROUGH" \in config.flags => config.minor >= 40
    BY <1>1, <2>1, NegotiatedNew, Ranges DEF Configs
  <2>3. /\ config.flags \subseteq InFlags(kin)
        /\ READ_ONLY \cap InFlags(kin) \subseteq config.flags
        /\ "PASSTHROUGH" \in config.flags => "INIT_EXT" \in config.flags
    BY <2>1, <2>2, NegotiatedFlagBounds DEF READ_ONLY
  <2>4. ToOut(config).minor = config.minor /\ ToOut(config).flags = config.flags
    BY <2>2, <2>3 DEF ToOut, HighFlags
  <2> QED
    BY <2>1, <2>2, <2>3, <2>4 DEF KernelView
<1>2. IInv => FlagsAgree
  BY <1>1, Zenon DEF FlagsAgree
<1> QED
  BY <1>2, InvHolds, PTL

\* The limits that negotiate settles on stay within their types, max_write within the
\* bounds that negotiate enforces, and the others are consistent with each other and with
\* the flags, whatever was wished for (KernelConfig::negotiate).
THEOREM LimitsAreConsistent == Spec => []LimitsConsistent
<1>1. ASSUME IInv, pc = "ok", kin.minor > 3
      PROVE  MIN_MAX_WRITE <= config.max_write /\ config.max_write <= MAX_MAX_PAGES * PageSize
  <2>1. wish \in Wishes /\ wish \in Configs /\ kin \in Offers /\ config = Negotiated(wish, kin)
    BY <1>1, ConnectAssumption, Zenon DEF IInv, ConfigIsKnown
  <2>2. config.max_write = MaxWrite(wish)
    BY <1>1, <2>1, NegotiatedNew, Zenon
  <2>3. /\ MaxWrite(wish) \in Nat /\ MaxWrite(wish) >= MIN_MAX_WRITE
        /\ MaxWrite(wish) <= MAX_MAX_PAGES * PageSize
    BY <2>1, MaxWriteBounds
  <2>4. MIN_MAX_WRITE \in Nat
    BY DEF MIN_MAX_WRITE, FUSE_MIN_READ_BUFFER, HeaderAndWriteIn
  <2> QED
    BY <2>2, <2>3, <2>4
<1>2. IInv => LimitsConsistent
  BY <1>1, NegotiatedNew DEF IInv, ConfigIsKnown, LimitsConsistent
<1> QED
  BY <1>2, InvHolds, PTL

----------------------------------------------------------------------------
(* Mount                                                                   *)

Clean ==
    /\ failed \/ ~mnt
    /\ child # "none" => child \in Ended /\ reaped

MountTypes ==
    /\ at \in {"priv", "spawn", "recv", "wait", "held", "drop", "reap", "reap_drop",
               "gone", "err", "dead"}
    /\ {auto, input, chan, mnt, reaped, failed} \subseteq BOOLEAN
    /\ kind \in {"none", "Priv", "Implicit", "Explicit", "Gone"}
    /\ child \in {"none", "run", "mounted", "sent"} \cup Ended

\* The kind is taken once, and counts the unmount.
KindInv ==
    /\ at \in {"priv", "spawn", "recv", "wait"} => kind = "none"
    /\ at = "held" => kind \in {"Priv", "Implicit", "Explicit"}
    /\ at \in {"drop", "reap", "reap_drop", "gone"} => kind = "Gone"
    /\ umounts = IF kind = "Gone" THEN 1 ELSE 0

\* Where fusermount can be, seen from the daemon.  With AUTO_UNMOUNT it stays as long as
\* the daemon holds its end of the socket, and unmounts before it ends after that.
ChildInv ==
    /\ at \in {"priv", "spawn"} => child = "none"
    /\ chan => child \in {"sent"} \cup Ended
    /\ chan /\ auto /\ input => child = "sent"
    /\ at = "recv" => input
    /\ at = "wait" => ~auto
    /\ at = "held" => CASE kind = "Priv" -> child = "none"
                        [] kind = "Implicit" -> auto /\ input /\ child = "sent"
                        [] kind = "Explicit" -> child \in Ended /\ reaped
    /\ at \in {"reap", "reap_drop"} => auto /\ ~input /\ child \in {"sent", "done_ok"}
                                    /\ (child = "done_ok" => ~mnt)
    /\ at \in {"drop", "gone"} => Clean

MountInv == MountTypes /\ KindInv /\ ChildInv

----------------------------------------------------------------------------

\* The invariant of mount holds at the start.
LEMMA MountInitInv == MountInit => MountInv
  BY Zenon DEF MountInit, MountInv, MountTypes, KindInv, ChildInv, Ended

\* unmount_ on each kind; the second call finds it gone.
LEMMA UnmountInv ==
    ASSUME MountInv, NEW next \in {"drop", "gone"}, at \in {"held", "drop"}, Unmount(next)
    PROVE  MountInv'
<1> USE DEF MountInv, MountTypes, KindInv, ChildInv, Clean, Ended, proc
<1>1. kind' = "Gone" /\ UNCHANGED <<auto, reaped, chan, child, others>>
  BY DEF Unmount, TakeKind
<1>2. umounts' = 1
  BY DEF Unmount
<1>3. ASSUME TryUmount PROVE mnt' \in BOOLEAN /\ failed' \in BOOLEAN /\ (failed' \/ ~mnt')
  <2>1. mnt \in BOOLEAN /\ failed \in BOOLEAN
    OBVIOUS
  <2>2. CASE mnt' = FALSE /\ failed' = failed
    BY <2>1, <2>2, Zenon
  <2>3. CASE failed' = TRUE /\ mnt' = mnt
    BY <2>1, <2>3
  <2> QED
    BY <1>3, <2>2, <2>3, Zenon DEF TryUmount
<1>4. CASE kind = "Implicit"
  <2>1. /\ input' = FALSE /\ UNCHANGED <<mnt, failed>>
        /\ auto /\ child = "sent" /\ at' \in {"reap", "reap_drop"}
    BY <1>4 DEF Unmount, CloseInput
  <2>2. MountTypes'
    BY <1>1, <2>1, Zenon
  <2>3. KindInv'
    BY <1>1, <1>2, <2>1
  <2>4. ChildInv'
    BY <1>1, <2>1, Zenon
  <2> QED
    BY <2>2, <2>3, <2>4, Zenon
<1>5. CASE kind \in {"Priv", "Explicit"}
  <2>1. /\ TryUmount /\ at' = next /\ UNCHANGED input
        /\ child = "none" \/ (child \in Ended /\ reaped)
    BY <1>5 DEF Unmount
  <2> QED
    BY <1>1, <1>2, <1>3, <2>1, Zenon
<1>6. CASE kind = "Gone"
  <2>1. at' = next /\ UNCHANGED <<input, mnt, failed>> /\ at = "drop"
    BY <1>6 DEF Unmount
  <2> QED
    BY <1>1, <1>2, <2>1, Zenon
<1> QED
  BY <1>4, <1>5, <1>6, Zenon DEF Unmount

\* Every step of mount keeps it.
LEMMA MountNextInv ==
    ASSUME MountInv, [MountNext]_mountVars
    PROVE  MountInv'
<1> USE DEF MountInv, MountTypes, KindInv, ChildInv, Clean, Ended, proc, hist
<1>1. CASE PrivMount
  BY <1>1, Zenon DEF PrivMount
<1>2. CASE Spawn
  BY <1>2, Zenon DEF Spawn
<1>3. CASE ReceiveFd
  BY <1>3, Zenon DEF ReceiveFd
<1>4. CASE ReceiveFdError
  BY <1>4, Zenon DEF ReceiveFdError
<1>5. CASE WaitOutput
  BY <1>5, Zenon DEF WaitOutput, TryUmount
<1>6. CASE CallUnmount
  BY <1>6, UnmountInv, Zenon DEF CallUnmount
<1>7. CASE Drop
  BY <1>7, UnmountInv, Zenon DEF Drop
<1>8. CASE Reap
  BY <1>8 DEF Reap
<1>9. CASE ChildMount
  BY <1>9, Zenon DEF ChildMount
<1>10. CASE ChildSend
  BY <1>10, Zenon DEF ChildSend
<1>11. CASE ChildExit
  BY <1>11, Zenon DEF ChildExit
<1>12. CASE Crash
  BY <1>12, Zenon DEF Crash
<1>13. CASE OtherUmount
  BY <1>13, ZenonT(60) DEF OtherUmount
<1>14. CASE UNCHANGED mountVars
  BY <1>14, ZenonT(60) DEF mountVars
<1> HIDE DEF MountInv
<1> QED
  BY <1>1, <1>2, <1>3, <1>4, <1>5, <1>6, <1>7, <1>8, <1>9, <1>10, <1>11, <1>12, <1>13, <1>14
  DEF MountNext, Daemon, Child

\* A Mount is undone at most once, and once it is gone nothing is mounted and no child
\* is left, unless an unmount failed (Mount::unmount and drop).
THEOREM GoneMeansClean == MountSpec => []GoneIsClean
<1>1. MountInv => GoneIsClean
  BY DEF MountInv, KindInv, ChildInv, Clean, GoneIsClean
<1> QED
  BY <1>1, MountInitInv, MountNextInv, PTL DEF MountSpec

============================================================================
