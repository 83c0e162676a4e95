------------------------------ MODULE Message ------------------------------
(***************************************************************************)
(* The messages a device hands to a RequestBuf and the split of a message  *)
(* into header, argument and remaining data (src/buf.rs, InHeader).  Bytes *)
(* are counted in units; a cell <<m, i>> is the i-th unit of message m, so *)
(* that a buffer shows which message each of its units came from.          *)
(***************************************************************************)
EXTENDS Naturals, Sequences

CONSTANTS Hdr,         \* size_of::<fuse_in_header>()
          WriteIn,     \* size_of::<fuse_write_in>()
          RetrieveIn,  \* size_of::<fuse_notify_retrieve_in>()
          BufSize,     \* Session::request_buffer_size()
          MaxMsgs      \* bound: messages received in a behaviour

ASSUME SizeAssumption ==
    /\ Hdr \in Nat \ {0} /\ WriteIn \in Nat \ {0} /\ RetrieveIn \in Nat \ {0}
    /\ BufSize \in Nat /\ MaxMsgs \in Nat
    /\ Hdr + WriteIn <= BufSize /\ Hdr + RetrieveIn <= BufSize

Kinds == {"write", "notify_reply", "other", "unknown"}

\* A message of size units whose header claims a length, the right one or not.
\* The kernel never hands out a message larger than the reader's buffer.
Msgs == {m \in [id : 1 .. MaxMsgs, kind : Kinds, size : 0 .. BufSize, claim : 0 .. BufSize + 1] :
            m.claim \in {m.size, m.size + 1}}

Cells(m) == [i \in 1 .. m.size |-> <<m, i>>]

\* What a zeroed buffer holds.
ZeroCell == <<[id |-> 0, kind |-> "unknown", size |-> 0, claim |-> 0], 0>>

Min(a, b) == IF a <= b THEN a ELSE b

\* usize::saturating_sub
SatSub(a, b) == IF a <= b THEN 0 ELSE a - b

\* InHeader::arg_len: only WRITE and NOTIFY_REPLY carry data after their argument.
ArgLen(m) ==
    CASE m.kind = "write" -> WriteIn
      [] m.kind = "notify_reply" -> RetrieveIn
      [] m.kind = "other" -> SatSub(m.claim, Hdr)
      [] m.kind = "unknown" -> 0

\* A message as a kernel that keeps the protocol sends it.
WellFormed(m) == /\ m.claim = m.size
                 /\ m.size >= Hdr + ArgLen(m)

\* s starts with the whole of t.
Begins(s, t) == Len(t) <= Len(s) /\ SubSeq(s, 1, Len(t)) = t

Arg(m) == SubSeq(Cells(m), Hdr + 1, Hdr + ArgLen(m))
Data(m) == SubSeq(Cells(m), Hdr + ArgLen(m) + 1, m.size)

============================================================================
