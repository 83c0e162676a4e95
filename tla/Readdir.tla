------------------------------ MODULE Readdir ------------------------------
(***************************************************************************)
(* Reading a directory: DirEntryBuf and reply_dir (src/reply.rs) with the  *)
(* READDIR handlers of examples/hello.rs and of memfs, passthrough and     *)
(* path_through, and a process that calls getdents(2) until it gets        *)
(* nothing more.  An entry is its position in the directory; of its name   *)
(* only the length counts.  The directory itself does not change.          *)
(***************************************************************************)
EXTENDS DirRecords

VARIABLES
    handler,  \* the file system that runs
    pc,    \* where the reader and the daemon are
    pos,   \* the reader's position in the directory
    size,  \* op.size
    todo,  \* the entries the handler's iterator has not yielded yet, each with its offset
    sought,  \* ReadDir::offset of passthrough: where it was last sought to
    buf,   \* the records in DirEntryBuf::buf: entry, offset, place in bytes
    len,   \* DirEntryBuf::buf.len()
    seen,  \* history: the entries the reader was given
    back,  \* history: it was given one that is not behind all of these
    cut,   \* history: it had room for only a part of a reply
    rewound  \* history: it went back to the start, after the first READDIR or later

dirVars == <<handler, pc, pos, size, todo, sought, buf, len, seen, back, cut, rewound>>
hist == <<seen, back, cut, rewound>>

DirInit ==
    /\ handler \in {"hello", "memfs", "passthrough", "path_through"}
    /\ pc = "opendir" /\ pos = 0 /\ size = 0
    /\ todo = <<>> /\ sought = 0 /\ buf = <<>> /\ len = 0
    /\ seen = {} /\ back = FALSE /\ cut = FALSE /\ rewound = "no"

----------------------------------------------------------------------------
(* The handler                                                             *)

\* dir_entries numbers the entries from 1, and the handler of hello adds 1 again.
dir_entries == [i \in DOMAIN NameLens |-> [entry |-> i, off |-> i + 1]]

\* Mutant: the offset goes up before the entry gets it.
collect_entries_Before == [i \in DOMAIN NameLens |-> [entry |-> i, off |-> i + 1]]

\* The offset of an entry is its number, from 1: Directory::collect_entries of memfs,
\* DirHandle::offset of path_through, and d_off of the host's listing.
collect_entries == [i \in DOMAIN NameLens |-> [entry |-> i, off |-> i]]

Listing == IF handler = "hello" THEN dir_entries ELSE collect_entries

\* memfs lists the directory now, the other two open the host's; hello has no OPENDIR
\* handler, and the kernel goes on without one.
opendir ==
    /\ pc = "opendir"
    /\ todo' = Listing
    /\ pc' = "reader"
    /\ UNCHANGED <<handler, pos, size, sought, buf, len, hist>>

\* Mutant: the listing always starts with the first entry.
Skip_Ignored(s, n) == s

\* Iterator::skip; seekdir
Skip(s, n) == SubSeq(s, n + 1, Len(s))

\* A READDIR arrives: the buffer gets the size asked for as its capacity.
Asked ==
    /\ pc = "reader"
    /\ \E s \in Sizes : size' = s
    /\ buf' = <<>> /\ len' = 0
    /\ pc' = "fill"
    /\ UNCHANGED <<handler, pos, hist>>

hello_readdir == handler = "hello" /\ Asked /\ todo' = Skip(Listing, pos) /\ UNCHANGED sought
memfs_readdir == handler = "memfs" /\ Asked /\ todo' = Skip(Listing, pos) /\ UNCHANGED sought

\* passthrough seeks, unless it was last sought to the same place; reading on does not
\* count.
passthrough_readdir ==
    /\ handler = "passthrough" /\ Asked
    /\ todo' = IF pos # sought THEN Skip(Listing, pos) ELSE todo
    /\ sought' = pos

\* path_through goes on where it was, whatever op.offset says: with last_entry, which did
\* not fit the last time, and then with the stream.
path_through_readdir == handler = "path_through" /\ Asked /\ UNCHANGED <<todo, sought>>

\* Mutant: the check leaves out the fixed part of the record.
Room_NameOnly(e) == size - len >= NameLens[e]

\* The check in push_entry.
Room(e) == size - len >= Aligned(Header + NameLens[e])

\* push_entry for the next entry.
PushEntry ==
    /\ pc = "fill" /\ todo # <<>> /\ Room(Head(todo).entry)
    /\ buf' = Append(buf, [entry |-> Head(todo).entry, off |-> Head(todo).off, at |-> len])
    /\ len' = len + Aligned(Header + NameLens[Head(todo).entry])
    /\ todo' = Tail(todo)
    /\ UNCHANGED <<handler, pc, pos, size, sought, hist>>

\* The iterator is at its end, or push_entry returned true: reply_dir.  The kernel
\* refuses a reply longer than asked for with EINVAL, which ends the daemon's loop.
\* The stream of passthrough is past the entry that did not fit.
ReplyDir ==
    /\ pc = "fill"
    /\ todo # <<>> => ~Room(Head(todo).entry)
    /\ pc' = IF len <= size THEN "replied" ELSE "failed"
    /\ todo' = IF handler = "passthrough" /\ todo # <<>> THEN Tail(todo) ELSE todo
    /\ UNCHANGED <<handler, pos, size, sought, buf, len, hist>>

----------------------------------------------------------------------------
(* The kernel and the reader                                               *)

\* The records go to the process while its own buffer has room, at least one, and
\* the position becomes the offset of the last.
TakeEntries ==
    /\ pc = "replied" /\ buf # <<>>
    /\ \E n \in 1 .. Len(buf) :
          /\ seen' = seen \cup {buf[i].entry : i \in 1 .. n}
          /\ back' = \/ back
                     \/ \E i \in 1 .. n, e \in seen : buf[i].entry <= e
          /\ pos' = buf[n].off
          /\ cut' = (cut \/ n < Len(buf))
    /\ pc' = "reader"
    /\ UNCHANGED <<handler, size, todo, sought, buf, len, rewound>>

\* Nothing more: the end of the directory.
EndOfDir ==
    /\ pc = "replied" /\ buf = <<>>
    /\ pc' = "end"
    /\ UNCHANGED <<handler, pos, size, todo, sought, buf, len, hist>>

\* rewinddir, once; sought is 0 when the directory was asked for the first time only.
Rewind ==
    /\ pc \in {"reader", "end"} /\ seen # {} /\ rewound = "no"
    /\ pos' = 0 /\ pc' = "reader"
    /\ seen' = {}
    /\ rewound' = IF sought = 0 THEN "first" ELSE "later"
    /\ UNCHANGED <<handler, size, todo, sought, buf, len, back, cut>>

DirNext ==
    \/ opendir
    \/ hello_readdir \/ memfs_readdir \/ passthrough_readdir \/ path_through_readdir
    \/ PushEntry \/ ReplyDir \/ TakeEntries \/ EndOfDir \/ Rewind

DirSpec == DirInit /\ [][DirNext]_dirVars

----------------------------------------------------------------------------
(* Properties                                                              *)

\* The kernel, which steps through a reply with its own record length, meets each
\* record that push_entry wrote where it was written, and reads none past the end; and
\* it refuses no reply, which would end the daemon, as longer than what it asked for.
RecordsFit ==
    /\ \A i \in 1 .. Len(buf) - 1 : buf[i + 1].at = buf[i].at + KernelRecord(buf[i].entry)
    /\ buf # <<>> => /\ buf[1].at = 0
                     /\ buf[Len(buf)].at + KernelRecord(buf[Len(buf)].entry) = len
    /\ pc # "failed"

\* However the listing is cut into replies, no entry is seen twice or out of order, and a
\* reader that comes to the end has seen the whole directory, however much of each reply
\* it had room for, and after a rewinddir as well.  Three handlers promise less.
\* path_through does not look at op.offset, so what the reader had no room for is lost,
\* and there is no way back.  passthrough does not seek to where it was last sought to,
\* so a reader that rewinds after the first READDIR goes on in the middle.  The offsets
\* of hello are one too large, so each time a listing is resumed it misses an entry.
ListedOnce ==
    /\ ~back
    /\ /\ pc = "end"
       /\ handler # "hello"
       /\ handler = "passthrough" => rewound # "first"
       /\ handler = "path_through" => ~cut /\ rewound = "no"
       => seen = DOMAIN NameLens

============================================================================
