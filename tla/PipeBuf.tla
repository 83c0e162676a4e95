------------------------------ MODULE PipeBuf ------------------------------
(***************************************************************************)
(* RequestBuf over a pipe (src/buf.rs, PipeBuf; src/io.rs, Pipe), used when*)
(* FUSE_SPLICE_READ is negotiated.  The data of a request stays in the pipe*)
(* until its handler reads it; what the handler leaves there must not reach*)
(* the next request.                                                       *)
(***************************************************************************)
EXTENDS Message

CONSTANTS Capacity,  \* what the pipe can hold; src/io.rs keeps the system default
          Inputs,    \* the messages the device may hand out
          NoMsg

VARIABLES
    header,  \* the cells in RequestBuf::header
    arg,     \* PipeBuf::arg
    pipe,    \* the pipe: its contents and the Pipe::len that accounts for them
    cur,     \* the message try_receive returned Ok for, or NoMsg
    n,       \* messages taken from the device
    full     \* history: a request did not fit into the pipe

vars == <<header, arg, pipe, cur, n, full>>

----------------------------------------------------------------------------
(* Pipe                                                                    *)

NewPipe == [cells |-> <<>>, len |-> 0]

\* splice_from, write: append to the pipe.
SpliceFrom(p, cells) == [cells |-> p.cells \o cells, len |-> p.len + Len(cells)]

\* Mutant: the counter is not updated by a read.
Take_Uncounted(p, k) ==
    LET amount == Min(k, Len(p.cells))
    IN [cells |-> SubSeq(p.cells, amount + 1, Len(p.cells)), len |-> p.len]

\* splice_to, read: take at most k units from the pipe.
Take(p, k) ==
    LET amount == Min(k, Len(p.cells))
    IN [cells |-> SubSeq(p.cells, amount + 1, Len(p.cells)), len |-> SatSub(p.len, amount)]

----------------------------------------------------------------------------

Init ==
    /\ header = [i \in 1 .. Hdr |-> ZeroCell]
    /\ arg = <<>>
    /\ pipe = NewPipe
    /\ cur = NoMsg
    /\ n = 0
    /\ full = FALSE

\* Mutant: reset keeps the pipe.
Reset_Keep(p) == p

\* PipeBuf::reset: the leftovers of the last request go with the old pipe.
Reset(p) == IF p.len # 0 THEN NewPipe ELSE p

\* reset fails: no file descriptor for a new pipe.
ResetError ==
    /\ pipe.len # 0
    /\ arg' = <<>>
    /\ cur' = NoMsg
    /\ UNCHANGED <<header, pipe, n, full>>

\* splice_read fails: the connection is gone, or a signal arrived.
SpliceError ==
    /\ arg' = <<>>
    /\ pipe' = Reset(pipe)
    /\ cur' = NoMsg
    /\ UNCHANGED <<header, n, full>>

\* splice_read fails because the pipe has no room for m: the kernel takes m off
\* its queue and fails the system call.
SpliceNoRoom(m) ==
    /\ n < MaxMsgs /\ m.id = n + 1
    /\ m.size > Capacity
    /\ n' = n + 1
    /\ arg' = <<>>
    /\ pipe' = Reset(pipe)
    /\ cur' = NoMsg
    /\ full' = TRUE
    /\ UNCHANGED header

\* PipeBuf::try_receive once splice_read returned the len units of m: the header
\* must be complete, must agree with len, and the argument must be there.
TryReceive(m) ==
    LET p == SpliceFrom(Reset(pipe), Cells(m))
        q == Take(p, Hdr)
        h == SubSeq(p.cells, 1, Hdr)
        parsed == h[1][1]
        l == ArgLen(parsed)
        got == SubSeq(q.cells, 1, Min(l, Len(q.cells)))
    IN /\ n < MaxMsgs /\ m.id = n + 1
       /\ m.size <= Capacity
       /\ n' = n + 1
       /\ IF m.size < Hdr
          THEN /\ pipe' = p /\ cur' = NoMsg /\ arg' = <<>>
               /\ UNCHANGED header
          ELSE /\ header' = h
               /\ IF m.size # parsed.claim
                  THEN /\ pipe' = q /\ cur' = NoMsg /\ arg' = <<>>
                  ELSE /\ arg' = got \o [i \in 1 .. l - Len(got) |-> ZeroCell]
                       /\ pipe' = Take(q, l)
                       /\ cur' = IF Len(got) = l THEN m ELSE NoMsg
       /\ UNCHANGED full

\* RemainingData::read, or splice_to on the pipe itself.
ReadRemaining(k) ==
    /\ cur # NoMsg
    /\ pipe' = Take(pipe, k)
    /\ UNCHANGED <<header, arg, cur, n, full>>

Next ==
    \/ \E m \in Inputs : TryReceive(m) \/ SpliceNoRoom(m)
    \/ SpliceError
    \/ ResetError
    \/ \E k \in 1 .. BufSize : ReadRemaining(k)

Spec == Init /\ [][Next]_vars

============================================================================
