----------------------------- MODULE Negotiate -----------------------------
(***************************************************************************)
(* The negotiation of FUSE_INIT (src/init.rs): the arguments the kernel    *)
(* sends, the KernelConfig that negotiate makes of them and of the wishes  *)
(* of the filesystem, and the reply to_out builds.  Flags are sets of      *)
(* names; only the names negotiate treats specially matter.                *)
(***************************************************************************)
EXTENDS Naturals

CONSTANTS PageSize,        \* page_size()
          OtherFlags       \* flags in the low word that negotiate does not look at

ASSUME NegotiateAssumption ==
    /\ PageSize \in Nat /\ PageSize >= 4096
    /\ OtherFlags \cap {"SPLICE_READ", "MAX_PAGES", "SETXATTR_EXT", "INIT_EXT",
                        "WRITEBACK_CACHE", "PASSTHROUGH"} = {}

FUSE_KERNEL_VERSION == 7
FUSE_KERNEL_MINOR_VERSION == 44
FUSE_MIN_READ_BUFFER == 8192
HeaderAndWriteIn == 40 + 40
MIN_MAX_WRITE == FUSE_MIN_READ_BUFFER - HeaderAndWriteIn
DEFAULT_MAX_PAGES_PER_REQ == 32
MAX_MAX_PAGES == 256
FILESYSTEM_MAX_STACK_DEPTH == 2

\* Flags the library always asks for.
READ_ONLY == {"SPLICE_READ", "MAX_PAGES", "SETXATTR_EXT", "INIT_EXT"}
\* Flags in the high word, which only fuse_init_in and flags2 can carry.
HighFlags == {"PASSTHROUGH"}
Flags == READ_ONLY \cup HighFlags \cup {"WRITEBACK_CACHE"} \cup OtherFlags

U16_MAX == 65535
U16 == 0 .. U16_MAX

Configs == [major : Nat, minor : 0 .. FUSE_KERNEL_MINOR_VERSION,
            max_readahead : Nat, max_background : U16,
            congestion_threshold : U16, max_write : Nat, time_gran : Nat,
            max_pages : U16, max_stack_depth : Nat, request_timeout : U16,
            flags : SUBSET Flags]

\* What the kernel sends; fields that a short struct lacks are not looked at.
InitIns == [major : Nat, minor : Nat, flags : SUBSET Flags, max_readahead : Nat]

Min(a, b) == IF a <= b THEN a ELSE b
Max(a, b) == IF a >= b THEN a ELSE b

\* InitIn::from_bytes chooses the struct by the minor version.
Form(in) == IF in.minor <= 3 THEN "Compat3"
            ELSE IF in.minor <= 35 THEN "Compat35" ELSE "Current"

\* InitIn::flags
InFlags(in) == CASE Form(in) = "Compat3" -> {}
                 [] Form(in) = "Compat35" -> in.flags \ HighFlags
                 [] Form(in) = "Current" -> in.flags

\* InitIn::max_readahead
InReadahead(in) == IF Form(in) = "Compat3" THEN 0 ELSE in.max_readahead

PowersOfTen == {1, 10, 100, 1000, 10000, 100000, 1000000, 10000000, 100000000, 1000000000}

\* 10u32.pow(x.ilog10()) for x of 32 bits: the largest power of ten up to x.
FloorPowerOfTen(x) ==
    CHOOSE p \in PowersOfTen : p <= x /\ \A q \in PowersOfTen : q <= x => q <= p

\* Mutant: the kernel's version is taken over.
NegotiatedMinor_Kernel(config, in) == in.minor

NegotiatedMinor(config, in) == Min(config.minor, in.minor)

\* max_background * 3 / 4 in u16
DefaultThreshold(max_background) == ((max_background * 3) % 65536) \div 4

\* The product overflows: a build with overflow checks panics, others wrap.
Overflows(config, in) ==
    /\ Form(in) # "Compat3"
    /\ NegotiatedMinor(config, in) >= 13
    /\ config.congestion_threshold = 0
    /\ config.max_background * 3 > 65535

\* Mutant: the threshold is not lowered to max_background.
Congestion_Unbounded(config, minor) ==
    IF minor < 13 THEN 0
    ELSE IF config.congestion_threshold = 0 THEN DefaultThreshold(config.max_background)
    ELSE config.congestion_threshold

Congestion(config, minor) ==
    IF minor < 13 THEN 0
    ELSE Min(IF config.congestion_threshold = 0
             THEN DefaultThreshold(config.max_background)
             ELSE config.congestion_threshold,
             config.max_background)

\* Mutant: the upper bound replaces the lower one.
MaxWrite_NoMinimum(config) == Min(config.max_write, MAX_MAX_PAGES * PageSize)

MaxWrite(config) == Min(Max(config.max_write, MIN_MAX_WRITE), MAX_MAX_PAGES * PageSize)

NegotiatedFlags(config, in) == (config.flags \cup READ_ONLY) \cap InFlags(in)

\* The config after a negotiate that returns Ok.
Negotiated(config, in) ==
    LET minor == NegotiatedMinor(config, in)
        flags == NegotiatedFlags(config, in)
        passthrough == /\ minor >= 40
                       /\ "PASSTHROUGH" \in flags
                       /\ "WRITEBACK_CACHE" \notin flags
    IN IF Form(in) = "Compat3"
       THEN [config EXCEPT !.major = in.major, !.minor = minor]
       ELSE [major |-> in.major,
             minor |-> minor,
             flags |-> IF passthrough THEN flags ELSE flags \ {"PASSTHROUGH"},
             max_readahead |-> Max(Min(config.max_readahead, InReadahead(in)), 4096),
             max_write |-> MaxWrite(config),
             max_background |-> IF minor >= 13 THEN config.max_background ELSE 0,
             congestion_threshold |-> Congestion(config, minor),
             time_gran |-> IF minor >= 13 THEN FloorPowerOfTen(Max(config.time_gran, 1)) ELSE 0,
             max_pages |-> IF minor >= 28 /\ "MAX_PAGES" \in flags
                           THEN Min(Max(config.max_pages, 1), MAX_MAX_PAGES)
                           ELSE DEFAULT_MAX_PAGES_PER_REQ,
             max_stack_depth |-> IF passthrough
                                 THEN Min(config.max_stack_depth, FILESYSTEM_MAX_STACK_DEPTH)
                                 ELSE 0,
             request_timeout |-> 0]

\* What negotiate returns, unless it panics.
Outcome(in) == IF in.major > FUSE_KERNEL_VERSION THEN "TooLarge"
               ELSE IF in.major < FUSE_KERNEL_VERSION THEN "TooSmall"
               ELSE "Ok"

\* Mutant: flags2 is never filled in.
ToOut_NoFlags2(config) ==
    [form |-> "Current", minor |-> config.minor, flags |-> config.flags \ HighFlags,
     max_write |-> config.max_write]

\* KernelConfig::to_out: the struct shrinks with the minor version, and flags2 is
\* only filled in together with INIT_EXT.
ToOut(config) ==
    CASE config.minor <= 3 ->
           [form |-> "Compat3", minor |-> config.minor, flags |-> {}, max_write |-> 0]
      [] config.minor > 3 /\ config.minor <= 22 ->
           [form |-> "Compat22", minor |-> config.minor,
            flags |-> config.flags \ HighFlags, max_write |-> config.max_write]
      [] config.minor > 22 ->
           [form |-> "Current", minor |-> config.minor,
            flags |-> IF "INIT_EXT" \in config.flags THEN config.flags
                      ELSE config.flags \ HighFlags,
            max_write |-> config.max_write]

\* Session::request_buffer_size
RequestBufferSize(config) == HeaderAndWriteIn + config.max_write

============================================================================
