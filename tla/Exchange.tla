------------------------------ MODULE Exchange ------------------------------
(***************************************************************************)
(* One request after the other over a negotiated connection: received and  *)
(* decoded (Decode), then answered by the filesystem with the method that  *)
(* goes with the operation, or with an error (Reply); and notifications in *)
(* between.  CREATE is not answered here: ReplySender has no method for    *)
(* its answer of two structs.                                              *)
(***************************************************************************)
EXTENDS Decode, Reply

CONSTANTS Bodies,  \* Bytes values that filesystems pass to the library
          Names    \* lengths of names in notifications

VARIABLE msg  \* the last message written, and whether the kernel took it

xvars == <<vars, msg>>

XInit == Init /\ msg = None

Idle == req = None /\ msg = None

Receives ==
    /\ Idle
    /\ \E r \in Requests : Handle(r)
    /\ UNCHANGED msg

\* What the filesystem answers with; it sends no more data than it was asked for.
Answer(data) ==
    LET m == SendMsg(ReplyArg(req.op, c.minor, data))
    IN msg' = [sent |-> m, taken |-> KernelTakesReply(m, req.op, c.minor, Size(data))]

Replies ==
    /\ req # None /\ msg = None
    /\ res.kind = "Ok" /\ req.op \notin Unanswered \cup {"CREATE"}
    /\ \E data \in Bodies : Answer(data)
    /\ UNCHANGED vars

\* reply_error(ENOSYS), for what decode does not support.
RepliesError ==
    /\ req # None /\ msg = None
    /\ res.kind = "Unsupported"
    /\ LET m == SendMsg(Group(<<>>))
       IN msg' = [sent |-> m, taken |-> m.len = OutHeader /\ Sum(m.chunks) = OutHeader]
    /\ UNCHANGED vars

Notifies ==
    /\ Idle
    /\ \E code \in Codes, n \in Names, data \in Bodies :
          LET m == SendMsg(NotifyArg(code, n, data))
          IN msg' = [sent |-> m, taken |-> KernelTakesNotify(m, code, n, Size(data))]
    /\ UNCHANGED vars

\* The message is answered, or never will be (no answer is due, decode failed, or
\* the filesystem drops the request).
GoesOn ==
    /\ ~Idle
    /\ req' = None /\ res' = None /\ msg' = None
    /\ UNCHANGED c

XNext == Receives \/ Replies \/ RepliesError \/ Notifies \/ GoesOn

XSpec == XInit /\ [][XNext]_xvars

----------------------------------------------------------------------------
(* Properties                                                              *)

\* No message of the library is malformed for the kernel, whatever the version and
\* however the filesystem composed its bytes: the header tells the length written,
\* and that is the length the kernel expects for this operation or notification.
MessageTaken == msg # None => msg.taken

\* fill_bytes fills the slots that count announced, all and no more, for every
\* nesting of Bytes: write_bytes neither panics nor passes on uninitialised slots.
SlotsFilled == msg # None => msg.sent.slots = Len(msg.sent.chunks)

============================================================================
