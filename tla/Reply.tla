------------------------------- MODULE Reply -------------------------------
(***************************************************************************)
(* The messages the library writes: the Bytes values they are made of and  *)
(* write_bytes (src/bytes.rs), send_msg (src/msg.rs), the methods of       *)
(* ReplySender (src/reply.rs) and of Notifier (src/session.rs), against    *)
(* the lengths the kernel accepts.  Of a message only lengths are kept.    *)
(***************************************************************************)
EXTENDS Naturals, Sequences, SequencesExt

Sum(s) == FoldSeq(LAMBDA x, n : x + n, 0, s)

----------------------------------------------------------------------------
(* Bytes: contiguous bytes, C strings, structs, and groups of Bytes.       *)
(* Tuples, arrays, slices and vectors are groups, None is the empty group; *)
(* Some, Either and pointers are what they hold.                           *)

Chunk(n) == [kind |-> "chunk", n |-> n, parts |-> <<>>]
CStr(n) == [kind |-> "cstr", n |-> n, parts |-> <<>>]
Pod(n) == [kind |-> "pod", n |-> n, parts |-> <<>>]
Group(s) == [kind |-> "group", n |-> 0, parts |-> s]

LeafSize(b) == IF b.kind = "cstr" THEN b.n + 1 ELSE b.n

RECURSIVE Size(_)
Size(b) == IF b.kind = "group" THEN Sum([i \in DOMAIN b.parts |-> Size(b.parts[i])])
           ELSE LeafSize(b)

\* Mutant: empty bytes count as a chunk.
LeafCount_Empty(b) == 1

\* Empty bytes are no chunk; structs and C strings always are one.
LeafCount(b) == IF b.kind = "chunk" /\ b.n = 0 THEN 0 ELSE 1

RECURSIVE Count(_)
Count(b) == IF b.kind = "group" THEN Sum([i \in DOMAIN b.parts |-> Count(b.parts[i])])
            ELSE LeafCount(b)

\* The chunks fill_bytes puts, by their lengths.
RECURSIVE FillBytes(_)
FillBytes(b) ==
    CASE b.kind = "group" -> FlattenSeq([i \in DOMAIN b.parts |-> FillBytes(b.parts[i])])
      [] b.kind = "chunk" -> IF b.n = 0 THEN <<>> ELSE <<b.n>>
      [] b.kind = "cstr" -> <<b.n + 1>>
      [] b.kind = "pod" -> <<b.n>>

----------------------------------------------------------------------------
(* Sending                                                                 *)

OutHeader == 16  \* size_of::<fuse_out_header>()

\* write_bytes: one vector of Count slots, filled by fill_bytes, in one writev.
WriteBytes(b) == [slots |-> Count(b), chunks |-> FillBytes(b)]

\* The header carries the length of the whole message.
SendMsg(arg) ==
    LET w == WriteBytes(Group(<<Pod(OutHeader), arg>>))
    IN [len |-> OutHeader + Size(arg), slots |-> w.slots, chunks |-> w.chunks]

----------------------------------------------------------------------------
(* ReplySender: the argument by operation and negotiated minor version     *)

Entries == {"LOOKUP", "MKNOD", "MKDIR", "SYMLINK", "LINK"}
Attrs == {"GETATTR", "SETATTR"}
Opens == {"OPEN", "OPENDIR"}
Writes == {"WRITE", "COPY_FILE_RANGE"}
Data == {"READ", "READLINK", "GETXATTR", "LISTXATTR", "READDIR", "READDIRPLUS"}
Unanswered == {"FORGET", "BATCH_FORGET", "INTERRUPT", "NOTIFY_REPLY"}

ReplyEntry(minor) == Pod(IF minor <= 8 THEN 120 ELSE 128)

\* Mutant: the smaller struct for one version too many.
ReplyAttr_Off(minor) == Pod(IF minor <= 9 THEN 96 ELSE 104)

ReplyAttr(minor) == Pod(IF minor <= 8 THEN 96 ELSE 104)

ReplyStatfs(minor) == Pod(IF minor <= 3 THEN 48 ELSE 80)

\* reply_open, reply_write, reply_lock, reply_bmap, reply_poll, reply_lseek
ReplyFixed(op) ==
    CASE op \in Opens -> Pod(16)
      [] op \in Writes -> Pod(8)
      [] op = "GETLK" -> Pod(24)
      [] op \in {"BMAP", "POLL", "LSEEK"} -> Pod(8)
      [] OTHER -> Group(<<>>)

\* The method a filesystem answers op with; data is what it has to say for the
\* operations that return bytes of any form.
ReplyArg(op, minor, data) ==
    CASE op \in Entries -> ReplyEntry(minor)
      [] op \in Attrs -> ReplyAttr(minor)
      [] op = "STATFS" -> ReplyStatfs(minor)
      [] op \in Data -> data
      [] OTHER -> ReplyFixed(op)

----------------------------------------------------------------------------
(* Notifier                                                                *)

Codes == {"INVAL_INODE", "INVAL_ENTRY", "DELETE", "STORE", "RETRIEVE", "POLL"}

\* n is the length of the name.
NotifyArg(code, n, data) ==
    CASE code = "INVAL_INODE" -> Pod(24)
      [] code = "INVAL_ENTRY" -> Group(<<Pod(16), Chunk(n), Chunk(1)>>)
      [] code = "DELETE" -> Group(<<Pod(24), Chunk(n), Chunk(1)>>)
      [] code = "STORE" -> Group(<<Pod(24), data>>)
      [] code = "RETRIEVE" -> Pod(32)
      [] code = "POLL" -> Pod(8)

----------------------------------------------------------------------------
(* The kernel (external): fuse_dev_do_write and the handlers below it      *)

\* The length of the answer it set the request up for; asked, if it is variable.
KernelOut(op, minor, asked) ==
    CASE op \in Entries -> IF minor < 9 THEN 120 ELSE 128
      [] op \in Attrs -> IF minor < 9 THEN 96 ELSE 104
      [] op = "STATFS" -> IF minor < 4 THEN 48 ELSE 80
      [] op \in Opens -> 16
      [] op = "GETLK" -> 24
      [] op \in Writes \cup {"BMAP", "POLL", "LSEEK"} -> 8
      [] op \in Data -> asked
      [] OTHER -> 0

\* An answer without an error has that length, or at most that for variable ones.
KernelTakesReply(m, op, minor, asked) ==
    /\ m.len = Sum(m.chunks)
    /\ \/ m.len = OutHeader + KernelOut(op, minor, asked)
       \/ op \in Data /\ m.len <= OutHeader + asked

\* A notification's length must follow from its struct; size is what STORE says.
KernelTakesNotify(m, code, n, size) ==
    /\ m.len = Sum(m.chunks)
    /\ m.len - OutHeader = CASE code = "INVAL_INODE" -> 24
                             [] code = "INVAL_ENTRY" -> 16 + n + 1
                             [] code = "DELETE" -> 24 + n + 1
                             [] code = "STORE" -> 24 + size
                             [] code = "RETRIEVE" -> 32
                             [] code = "POLL" -> 8

============================================================================
