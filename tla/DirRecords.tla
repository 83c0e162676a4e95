------------------------------ MODULE DirRecords ------------------------------
(***************************************************************************)
(* The records of a directory reply (DirEntryBuf of src/reply.rs): their   *)
(* lengths for the library and for the kernel.                             *)
(***************************************************************************)
EXTENDS Naturals, Sequences

CONSTANTS
    NameLens,  \* the length of the name of each entry
    Sizes      \* the sizes the kernel asks for

Header == 24  \* size_of::<fuse_dirent>()

\* FUSE_DIRENT_SIZE: the kernel's record length, rounded up to 8 bytes.
KernelRecord(e) == CHOOSE n \in (Header + NameLens[e]) .. (Header + NameLens[e] + 7) : n % 8 = 0

\* The kernel never asks for less than a page, and so for at least one entry.
ASSUME ReaddirAssumption ==
    /\ NameLens \in Seq(Nat \ {0})
    /\ Sizes \subseteq Nat
    /\ \A e \in DOMAIN NameLens, s \in Sizes : KernelRecord(e) <= s

\* Mutant: no padding behind the name.
Aligned_None(n) == n

\* aligned: (n + 7) & !7
Aligned(n) == ((n + 7) \div 8) * 8

==============================================================================
