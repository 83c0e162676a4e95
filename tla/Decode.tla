------------------------------- MODULE Decode -------------------------------
(***************************************************************************)
(* Operation::decode (src/op.rs) and the Decoder it uses (src/op/decoder.rs)*)
(* against the layouts in which the kernel sends its requests.  Arguments  *)
(* are sequences of cells: a cell <<f, i>> is the i-th word of 8 bytes of  *)
(* field f, and a string or a batch entry is one cell.  What the bits of a *)
(* word mean is left out, but for the values decode rejects.               *)
(***************************************************************************)
EXTENDS Naturals, Sequences

CONSTANTS Minors,   \* negotiated minor versions
          MaxTail,  \* bound: forgets in a batch, words of data or of an xattr value
          None

ASSUME DecodeAssumption == Minors \subseteq Nat /\ MaxTail \in Nat

VARIABLES c,    \* KernelConfig: the version, SETXATTR_EXT and SPLICE_READ
          req,  \* the request the kernel sent
          res   \* what decode returned for it

vars == <<c, req, res>>

\* A negotiated connection: a kernel that offers SETXATTR_EXT speaks 7.33, one that
\* offers SPLICE_READ speaks 7.14.
Conns == {k \in [minor : Minors, ext : BOOLEAN, splice : BOOLEAN] :
            /\ k.ext => k.minor >= 33
            /\ k.splice => k.minor >= 14}

----------------------------------------------------------------------------
(* What decode fetches: the words of a struct, then strings                *)

Args(pod, names) == [pod |-> pod, names |-> names]

ControlArgs == [FORGET |-> Args(1, <<>>), BATCH_FORGET |-> Args(1, <<>>),
                INTERRUPT |-> Args(1, <<>>), NOTIFY_REPLY |-> Args(5, <<>>)]

\* Mutant: off by one in the version of the compatible struct.
NamespaceArgs_Off(k) ==
    [LOOKUP |-> Args(0, <<"name">>), UNLINK |-> Args(0, <<"name">>),
     RMDIR |-> Args(0, <<"name">>), SYMLINK |-> Args(0, <<"name", "link">>),
     MKNOD |-> Args(IF k.minor <= 12 THEN 1 ELSE 2, <<"name">>),
     MKDIR |-> Args(1, <<"name">>), RENAME |-> Args(1, <<"name", "newname">>),
     RENAME2 |-> Args(2, <<"name", "newname">>), LINK |-> Args(1, <<"newname">>)]

NamespaceArgs(k) ==
    [LOOKUP |-> Args(0, <<"name">>), UNLINK |-> Args(0, <<"name">>),
     RMDIR |-> Args(0, <<"name">>), SYMLINK |-> Args(0, <<"name", "link">>),
     MKNOD |-> Args(IF k.minor <= 11 THEN 1 ELSE 2, <<"name">>),
     MKDIR |-> Args(1, <<"name">>), RENAME |-> Args(1, <<"name", "newname">>),
     RENAME2 |-> Args(2, <<"name", "newname">>), LINK |-> Args(1, <<"newname">>)]

AttrArgs == [GETATTR |-> Args(2, <<>>), SETATTR |-> Args(11, <<>>), READLINK |-> Args(0, <<>>)]

FileArgs(k) ==
    [OPEN |-> Args(1, <<>>), READ |-> Args(5, <<>>),
     WRITE |-> Args(IF k.minor <= 8 THEN 3 ELSE 5, <<>>),
     RELEASE |-> Args(3, <<>>), STATFS |-> Args(0, <<>>), FSYNC |-> Args(2, <<>>)]

XattrArgs(k) ==
    [SETXATTR |-> Args(IF k.minor <= 32 \/ ~k.ext THEN 1 ELSE 2, <<"name">>),
     GETXATTR |-> Args(1, <<"name">>), LISTXATTR |-> Args(1, <<>>),
     REMOVEXATTR |-> Args(0, <<"name">>)]

DirArgs == [FLUSH |-> Args(3, <<>>), OPENDIR |-> Args(1, <<>>), READDIR |-> Args(5, <<>>),
            READDIRPLUS |-> Args(5, <<>>), RELEASEDIR |-> Args(3, <<>>),
            FSYNCDIR |-> Args(2, <<>>)]

LockArgs == [GETLK |-> Args(6, <<>>), SETLK |-> Args(6, <<>>), SETLKW |-> Args(6, <<>>)]

OtherArgs == [ACCESS |-> Args(1, <<>>), CREATE |-> Args(2, <<"name">>), BMAP |-> Args(2, <<>>),
              FALLOCATE |-> Args(4, <<>>), COPY_FILE_RANGE |-> Args(7, <<>>),
              POLL |-> Args(3, <<>>), LSEEK |-> Args(3, <<>>)]

Layouts(k) == {ControlArgs, NamespaceArgs(k), AttrArgs, FileArgs(k), XattrArgs(k), DirArgs,
               LockArgs, OtherArgs}

Fetched(k) == [op \in UNION {DOMAIN f : f \in Layouts(k)} |->
                 (CHOOSE f \in Layouts(k) : op \in DOMAIN f)[op]]

\* Answered with ENOSYS by the filesystem: known opcodes without a decoder, and
\* opcodes the library does not know.
Unsupported == {"IOCTL", "SETUPMAPPING", "REMOVEMAPPING", "SYNCFS", "TMPFILE", "STATX",
                "CUSE_INIT", "unknown"}

Ops == DOMAIN Fetched([minor |-> 44, ext |-> TRUE]) \cup Unsupported

\* Mutant: a batch needs an inode in its header as well.
NoNode_Interrupt == {"INTERRUPT"}

\* Operations that ignore nodeid in the header.
NoNode == {"BATCH_FORGET", "INTERRUPT"}

\* Mutant: the second inode of COPY_FILE_RANGE is not checked.
TwoNodes_NoCopy == {"RENAME", "RENAME2", "LINK"}

\* Operations with a second inode in their struct.
TwoNodes == {"RENAME", "RENAME2", "LINK", "COPY_FILE_RANGE"}

SetLocks == {"SETLK", "SETLKW"}

----------------------------------------------------------------------------
(* The kernel, as fuse_kernel.h describes it: the opcodes of a version,    *)
(* the struct of an opcode in words, the strings behind it                 *)

Locks == {"GETLK"} \cup SetLocks

\* The first minor version with this opcode.
Since(op) ==
    CASE op \in {"ACCESS", "CREATE"} -> 3
      [] op \in {"INTERRUPT"} \cup Locks -> 7
      [] op = "BMAP" -> 8
      [] op \in {"IOCTL", "POLL"} -> 11
      [] op = "NOTIFY_REPLY" -> 15
      [] op = "BATCH_FORGET" -> 16
      [] op = "FALLOCATE" -> 19
      [] op = "READDIRPLUS" -> 21
      [] op = "RENAME2" -> 23
      [] op = "LSEEK" -> 24
      [] op = "COPY_FILE_RANGE" -> 28
      [] op \in {"SETUPMAPPING", "REMOVEMAPPING"} -> 31
      [] op = "SYNCFS" -> 34
      [] op = "TMPFILE" -> 37
      [] op = "STATX" -> 39
      [] OTHER -> 0

KernelPod(op, k) ==
    CASE op \in {"LOOKUP", "UNLINK", "RMDIR", "SYMLINK", "READLINK", "STATFS", "REMOVEXATTR"} -> 0
      [] op \in {"FORGET", "BATCH_FORGET", "INTERRUPT", "MKDIR", "RENAME", "LINK", "OPEN",
                 "OPENDIR", "GETXATTR", "LISTXATTR", "ACCESS"} -> 1
      [] op \in {"RENAME2", "FSYNC", "FSYNCDIR", "BMAP"} -> 2
      [] op \in {"POLL", "LSEEK"} -> 3
      [] op = "FALLOCATE" -> 4
      [] op \in {"READDIRPLUS", "NOTIFY_REPLY"} -> 5
      [] op = "COPY_FILE_RANGE" -> 7
      [] op = "SETATTR" -> 11
      [] op = "SETXATTR" -> IF k.ext THEN 2 ELSE 1
      [] op \in {"MKNOD", "CREATE"} -> IF k.minor < 12 THEN 1 ELSE 2
      [] op = "GETATTR" -> IF k.minor < 9 THEN 0 ELSE 2
      [] op \in {"READ", "READDIR", "WRITE"} -> IF k.minor < 9 THEN 3 ELSE 5
      [] op \in Locks -> IF k.minor < 9 THEN 5 ELSE 6
      [] op \in {"RELEASE", "RELEASEDIR"} -> IF k.minor < 8 THEN 2 ELSE 3
      [] op = "FLUSH" -> IF k.minor < 7 THEN 2 ELSE 3
      [] op \in Unsupported -> 1

KernelNames(op) ==
    CASE op \in {"LOOKUP", "UNLINK", "RMDIR", "MKNOD", "MKDIR", "CREATE", "SETXATTR",
                 "GETXATTR", "REMOVEXATTR"} -> <<"name">>
      [] op = "LINK" -> <<"newname">>
      [] op = "SYMLINK" -> <<"name", "link">>
      [] op \in {"RENAME", "RENAME2"} -> <<"name", "newname">>
      [] OTHER -> <<>>

\* Structs in the form of an old version for which the library has no layout.
OldStruct(op, k) ==
    \/ k.minor < 12 /\ op = "CREATE"
    \/ k.minor < 9 /\ op \in {"GETATTR", "READ", "READDIR", "WRITE"} \cup Locks
    \/ k.minor < 8 /\ op \in {"RELEASE", "RELEASEDIR"}
    \/ k.minor < 7 /\ op = "FLUSH"

\* The field that follows the strings, if any.
TailOf == [BATCH_FORGET |-> "forgets", SETXATTR |-> "value",
           WRITE |-> "data", NOTIFY_REPLY |-> "data"]

\* node2, pid, flock, typ and whence are values inside the struct; cut is how many
\* cells at the end are missing.
Requests ==
    {r \in [op : Ops, nodeid : 0 .. 1, node2 : 0 .. 1, pid : 0 .. 1, flock : BOOLEAN,
            known : BOOLEAN, tail : 0 .. MaxTail, cut : 0 .. 1] :
        /\ r.node2 = 1 \/ r.op \in TwoNodes \cup {"COPY_FILE_RANGE"}
        /\ r.pid = 1 \/ r.op \in Locks
        /\ r.flock => r.op \in SetLocks
        /\ r.known \/ r.op = "LSEEK" \/ (r.op \in SetLocks /\ r.flock)
        /\ r.tail = 0 \/ r.op \in DOMAIN TailOf}

Words(f, n) == [i \in 1 .. n |-> <<f, i>>]

TailCells(r) == IF r.op \in DOMAIN TailOf THEN Words(TailOf[r.op], r.tail) ELSE <<>>

Sent(r, k) ==
    LET names == KernelNames(r.op)
        all == Words("in", KernelPod(r.op, k)) \o [i \in 1 .. Len(names) |-> <<names[i], 1>>]
                 \o TailCells(r)
    IN SubSeq(all, 1, IF r.cut <= Len(all) THEN Len(all) - r.cut ELSE 0)

----------------------------------------------------------------------------
(* Decoder                                                                 *)

\* RequestBuf splits at InHeader::arg_len before decode sees the argument.
SplitAt(op, cells) == IF op \in {"WRITE", "NOTIFY_REPLY"} THEN 5
                      ELSE IF op = "unknown" THEN 0 ELSE Len(cells)

Eof == [ok |-> FALSE, got |-> <<>>, rest |-> <<>>]

\* fetch, fetch_bytes and fetch_array.  fetch finds its struct aligned (Unaligned is
\* never returned): structs are at the front of the argument or behind another struct.
FetchBytes(cells, n) ==
    IF Len(cells) < n THEN Eof
    ELSE [ok |-> TRUE, got |-> SubSeq(cells, 1, n), rest |-> SubSeq(cells, n + 1, Len(cells))]

IsString(cell) == cell[1] \in {"name", "newname", "link"}

\* fetch_str: up to the first zero byte, which only strings have here.
FetchStr(cells) ==
    IF \E i \in DOMAIN cells : IsString(cells[i])
    THEN FetchBytes(cells, CHOOSE i \in DOMAIN cells :
                              IsString(cells[i]) /\ \A j \in 1 .. i - 1 : ~IsString(cells[j]))
    ELSE Eof

Result(kind) == [kind |-> kind, fields |-> <<>>, remains |-> <<>>]

\* Operation::decode on a request of which RequestBuf made arg and remains.  The
\* values in the struct are those of r.
Decode(k, r, arg, remains) ==
    LET a == Fetched(k)[r.op]
        pod == FetchBytes(arg, a.pod)
        s1 == IF Len(a.names) >= 1 THEN FetchStr(pod.rest) ELSE pod
        s2 == IF Len(a.names) >= 2 THEN FetchStr(s1.rest) ELSE s1
        tail == IF r.op \in {"BATCH_FORGET", "SETXATTR"}
                THEN FetchBytes(s2.rest, r.tail) ELSE FetchBytes(<<>>, 0)
    IN CASE r.op \in Unsupported -> Result("Unsupported")
         [] r.op \notin Unsupported /\ ~pod.ok -> Result("UnexpectedEof")
         [] r.op \notin Unsupported /\ pod.ok /\ ~(s1.ok /\ s2.ok) ->
              Result("MissingNulCharacter")
         [] r.op \notin Unsupported /\ pod.ok /\ s1.ok /\ s2.ok ->
              IF ~tail.ok THEN Result("UnexpectedEof")
              ELSE IF r.op \notin NoNode /\ r.nodeid = 0 THEN Result("InvalidNodeID")
              ELSE IF r.op \in TwoNodes /\ r.node2 = 0 THEN Result("InvalidNodeID")
              ELSE IF r.op \in Locks /\ ~r.flock /\ r.pid = 0
                   THEN Result("InvalidPid")
              ELSE IF r.op \in SetLocks /\ r.flock /\ ~r.known THEN Result("InvalidFlockType")
              ELSE IF r.op = "LSEEK" /\ ~r.known THEN Result("UnknownLseekWhence")
              ELSE [kind |-> "Ok",
                    fields |-> <<pod.got, IF Len(a.names) >= 1 THEN s1.got ELSE <<>>,
                                 IF Len(a.names) >= 2 THEN s2.got ELSE <<>>, tail.got>>,
                    remains |-> remains]

\* What lies behind a message: a pipe ends with it, a vector goes on with what earlier
\* messages left there (as many words as an argument can lack).
LeftBehind(k) == IF k.splice THEN <<>> ELSE Words("stale", 5)

\* RequestBuf::try_receive and to_parts; only the read from a pipe fails when a message
\* is shorter than its argument.
Receive(k, r) ==
    LET cells == Sent(r, k)
        held == cells \o LeftBehind(k)
        n == SplitAt(r.op, cells)
    IN IF Len(held) < n THEN Result("ReceiveError")
       ELSE Decode(k, r, SubSeq(held, 1, n), SubSeq(held, n + 1, Len(held)))

Init == c \in Conns /\ req = None /\ res = None

Handle(r) ==
    /\ c.minor >= Since(r.op)
    /\ req' = r
    /\ res' = Receive(c, r)
    /\ UNCHANGED c

Next == \E r \in Requests : Handle(r)

Spec == Init /\ [][Next]_vars

----------------------------------------------------------------------------
(* Properties                                                              *)

\* The fields and the remaining data that the kernel sent.
SentFields ==
    LET names == KernelNames(req.op)
        str(i) == IF Len(names) >= i THEN <<<<names[i], 1>>>> ELSE <<>>
        tail == TailCells(req)
    IN [fields |-> <<Words("in", KernelPod(req.op, c)), str(1), str(2),
                     IF req.op \in {"BATCH_FORGET", "SETXATTR"} THEN tail ELSE <<>>>>,
        remains |-> IF req.op \in {"WRITE", "NOTIFY_REPLY"} THEN tail ELSE <<>>]

\* s starts with the whole of t.
Begins(s, t) == Len(t) <= Len(s) /\ SubSeq(s, 1, Len(t)) = t

\* A request that is decoded at all is decoded into the struct, strings and arrays that
\* fuse_kernel.h describes for its version: no field takes bytes of another.  The
\* remaining data begins with what was sent, and with a pipe that is all of it.  The
\* old structs of OldStruct are excepted; see WriteDataComplete.
DecodedAsSent ==
    req # None /\ res.kind = "Ok" /\ req.cut = 0 /\ ~OldStruct(req.op, c) =>
        /\ res.fields = SentFields.fields
        /\ Begins(res.remains, SentFields.remains)
        /\ c.splice => res.remains = SentFields.remains

\* A request as the kernel sends it, but for locks without a process: see
\* LockReleaseDecodes.
Valid(r) == /\ r.cut = 0 /\ r.node2 = 1 /\ r.known
            /\ r.pid = 1 \/ r.flock
            /\ r.nodeid = 1 \/ r.op \in {"BATCH_FORGET", "INTERRUPT"}

\* decode accepts every request that is complete and names existing things, in every
\* version but for the structs of OldStruct; and it hands out no operation on a missing
\* inode (STATFS aside, which is documented to allow for that) or with an unknown lock
\* type or whence, and none that lost part of its argument.
AcceptedIfValid ==
    /\ req # None /\ Valid(req) /\ ~OldStruct(req.op, c) => res.kind \in {"Ok", "Unsupported"}
    /\ req # None /\ res.kind = "Ok" =>
        /\ req.nodeid = 1 \/ req.op \in {"BATCH_FORGET", "INTERRUPT", "STATFS"}
        /\ req.node2 = 1 /\ req.known
        /\ \/ req.cut = 0 \/ OldStruct(req.op, c)
           \/ req.op \in {"WRITE", "NOTIFY_REPLY", "READLINK", "STATFS"}

\* For WRITE "the filesystem should receive *exactly* the specified range of file
\* content from the kernel", for every version decode has a layout for: what can be read
\* begins with the data that was sent.
WriteDataComplete ==
    req # None /\ req.op = "WRITE" /\ Valid(req) =>
        res.kind = "Ok" /\ Begins(res.remains, SentFields.remains)


============================================================================
