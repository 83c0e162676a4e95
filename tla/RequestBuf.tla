----------------------------- MODULE RequestBuf -----------------------------
(***************************************************************************)
(* RequestBuf (src/buf.rs): a header and one of the two kinds of buffer,   *)
(* chosen once by Session::new_request_buffer and reused for one request   *)
(* after the other.  Both kinds implement the same mailbox.                *)
(***************************************************************************)
EXTENDS Message

CONSTANTS Capacity, Inputs, NoMsg

\* What a readv may return: a message as the kernel sends it, or one with a length
\* that does not agree with what was read.  VecBuf, unlike PipeBuf, does not notice
\* when a message that agrees is too short for its opcode.
Readable == {m \in Msgs : m.size > 0 /\ (WellFormed(m) \/ m.claim # m.size)}

ASSUME InputAssumption == Inputs \subseteq Readable /\ NoMsg \notin Msgs /\ Capacity \in Nat

VARIABLES
    kind,                  \* BufKind: "Pipe" or "Vec"
    header, cur, n,        \* common to both
    arg, pipe, full,       \* PipeBuf
    vec, pos, taken        \* VecBuf

vars == <<kind, header, cur, n, arg, pipe, full, vec, pos, taken>>

\* A splice can also return a message that is too short for its opcode.
Pipe == INSTANCE PipeBuf WITH Inputs <- Msgs
Vec == INSTANCE VecBuf

Init == kind \in {"Pipe", "Vec"} /\ Pipe!Init /\ Vec!Init

Next == \/ kind = "Pipe" /\ Pipe!Next /\ UNCHANGED <<kind, vec, pos, taken>>
        \/ kind = "Vec" /\ Vec!Next /\ UNCHANGED <<kind, arg, pipe, full>>

Spec == Init /\ [][Next]_vars

----------------------------------------------------------------------------
(* Properties                                                              *)

\* Pipe::len always is "the amount of remaining bytes in the pipe buffer", after every
\* mix of splices, short reads and errors (reset relies on it to notice leftovers), and
\* to_parts does not panic, since split_at stays inside the vector.
LengthsAgree == pipe.len = Len(pipe.cells) /\ pos <= Vec!Cap

\* What try_receive and to_parts hand out: of a vector, all that follows the argument,
\* the cells that earlier messages left behind the data included.
ArgOf == IF cur = NoMsg THEN <<>> ELSE IF kind = "Pipe" THEN arg ELSE Vec!ArgPart
RestOf == IF cur = NoMsg THEN <<>>
          ELSE IF kind = "Pipe" THEN pipe.cells
          ELSE SubSeq(Vec!Remains, taken + 1, Len(Vec!Remains))

\* Receiving into a buffer and reading from it implement a mailbox, whatever earlier
\* requests, unread data or failed receives left behind: the argument belongs to the one
\* request that try_receive returned, and the remaining data begins with that of this
\* request.  A pipe holds no more than that; the slice of a vector goes on to the end of
\* the vector with what is left there, so a handler has to stop at the size in its
\* operation.
Mailbox == INSTANCE Mailbox WITH arg <- ArgOf, rest <- RestOf, exact <- (kind = "Pipe")
ImplementsMailbox == Mailbox!Spec

\* Every request that request_buffer_size allows for is received: a FUSE_WRITE
\* may carry up to max_write bytes ("The maximum length of bytes attached each
\* `FUSE_WRITE` request", src/init.rs).
EveryRequestFits == ~full

=============================================================================
