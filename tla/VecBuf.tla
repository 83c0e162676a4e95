------------------------------- MODULE VecBuf -------------------------------
(***************************************************************************)
(* RequestBuf over a vector (src/buf.rs, VecBuf), used when the kernel does*)
(* not offer FUSE_SPLICE_READ and while connecting.  One readv fills header*)
(* and argument vector; the vector is never cleared.                       *)
(***************************************************************************)
EXTENDS Message

CONSTANTS Inputs,  \* the messages the device may hand out
          NoMsg

VARIABLES
    header,  \* the cells in RequestBuf::header
    vec,     \* VecBuf::arg
    pos,     \* VecBuf::pos, where the argument ends and the data starts
    cur,     \* the message try_receive returned Ok for, or NoMsg
    taken,   \* how far the handler has read in the slice of remaining data
    n        \* messages taken from the device

vars == <<header, vec, pos, cur, taken, n>>

Cap == BufSize - Hdr

\* RequestBuf::new_vec
Init ==
    /\ header = [i \in 1 .. Hdr |-> ZeroCell]
    /\ vec = [i \in 1 .. Cap |-> ZeroCell]
    /\ pos = 0
    /\ cur = NoMsg
    /\ taken = 0
    /\ n = 0

\* What a vector holds after readv put the cells of m from offset off into it.
Filled(v, m, off) == [i \in DOMAIN v |-> IF off + i <= m.size THEN <<m, off + i>> ELSE v[i]]

\* Mutant: the length in the header is not compared with what was read.
TryReceive_Unchecked(m) ==
    LET h == Filled(header, m, 0)
    IN /\ n < MaxMsgs /\ m.id = n + 1
       /\ n' = n + 1
       /\ header' = h
       /\ vec' = Filled(vec, m, Hdr)
       /\ taken' = 0
       /\ cur' = m
       /\ pos' = ArgLen(h[Hdr][1])

\* VecBuf::try_receive once readv returned the units of m.
TryReceive(m) ==
    LET h == Filled(header, m, 0)
    IN /\ n < MaxMsgs /\ m.id = n + 1
       /\ n' = n + 1
       /\ header' = h
       /\ vec' = Filled(vec, m, Hdr)
       /\ taken' = 0
       /\ IF m.size # h[1][1].claim
          THEN cur' = NoMsg /\ pos' = 0
          ELSE cur' = m /\ pos' = ArgLen(h[Hdr][1])

\* readv fails.
ReadError ==
    /\ pos' = 0
    /\ cur' = NoMsg
    /\ taken' = 0
    /\ UNCHANGED <<header, vec, n>>

\* RequestBuf::to_parts
ArgPart == SubSeq(vec, 1, pos)

\* Mutant: the argument is not split off.
Remains_Whole == SubSeq(vec, 1, Cap)

Remains == SubSeq(vec, pos + 1, Cap)

\* RemainingData::read on the slice.
ReadRemaining(k) ==
    /\ cur # NoMsg
    /\ taken' = Min(taken + k, Len(Remains))
    /\ UNCHANGED <<header, vec, pos, cur, n>>

Next ==
    \/ \E m \in Inputs : TryReceive(m)
    \/ ReadError
    \/ \E k \in 1 .. BufSize : ReadRemaining(k)

Spec == Init /\ [][Next]_vars

=============================================================================
