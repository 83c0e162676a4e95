# Verification of polyfuse

TLA+ models of [polyfuse](../src), a Rust library for FUSE daemons, the TLC runs
that check them on small instances, and TLAPS proofs that hold for all instances.
`PROJECT.json` maps every definition to the lines it models.

## 1. The system

A daemon calls `connect`. It mounts the filesystem (`mount.rs`), reads `FUSE_INIT`
from the device and negotiates a `KernelConfig` (`connect.rs`, `init.rs`). The
resulting `Session` (`session.rs`) is shared between threads. Each worker thread owns
a `RequestBuf` (`buf.rs`, `io.rs`) and loops: receive a request from its device,
decode it (`op.rs`, `op/decoder.rs`), call the filesystem, reply (`reply.rs`,
`bytes.rs`, `msg.rs`). Other threads send notifications through a `Notifier`.
Shared between threads are only the atomics `exited` and `notify_unique` of the
session, and the connection inside the kernel.

| Part | Source (`src/`) | State it owns | Modelled by | |
| --- | --- | --- | --- | --- |
| Session, requests, notifier | `session.rs` | `exited`, `notify_unique` | `Session` on `FuseDev` | all |
| Request buffers, pipes | `buf.rs`, `io.rs` | header, argument, pipe or vector | `PipeBuf`, `VecBuf`, `RequestBuf` on `Message` | all |
| INIT negotiation | `init.rs` | `KernelConfig` | `Negotiate` | all |
| `connect` | `connect.rs` | the handshake loop | `Connect` | all |
| Mounting | `mount.rs`, `mount/*.rs` | `Mount`, the `fusermount` child | `Mount` | option strings left out |
| Decoding | `op.rs`, `op/decoder.rs` | none | `Decode` | bit meanings left out |
| Messages written | `reply.rs`, `bytes.rs`, `msg.rs` | none | `Reply`, `Exchange` | field values left out |
| Directory replies | `reply.rs`, READDIR handlers of four examples, `nix.rs` | `DirEntryBuf`, directory handles | `Readdir` on `DirRecords` | all |
| Device, cloned devices | `device.rs` | descriptors | `FuseDev` | system calls left out |
| Types, utilities | `types.rs`, `util.rs` | none | | conversions without state |
| Kernel ABI | `crates/polyfuse-kernel` | none | sizes in `Decode`, `Reply`, `DirRecords` | constants |
| Example `basic` | `examples/basic.rs` | none | the worker of `Session` | all |
| Example `hello` | `examples/hello.rs` | none | `Readdir` | its READDIR |
| Example `poll` | `examples/poll.rs` | handles, wakeup tasks | `Poll` on `Daemon` | all |
| Example `heartbeat` | `examples/heartbeat.rs` | content, retrieves | `Heartbeat` on `Beat`, `Daemon` | all |
| Example `heartbeat_entry` | `examples/heartbeat_entry.rs` | name, lookup count | `HeartbeatEntry` on `Beat`, `Daemon` | all |
| Example `passthrough` | `examples_disabled/passthrough/` | inode table, open files | `Passthrough` on `NodeTable` | without plain system calls |
| Example `path_through` | `examples_disabled/path_through.rs` | inode table | `PathThrough` on `NodeTable` | without plain system calls |
| Example `memfs` | `examples_disabled/memfs.rs` | inode table, tree | `MemFS` on `Vfs` | without contents and attributes |

The three examples under `examples_disabled/` are written for an earlier interface and
are not built at present. Their tables do not depend on that interface, and they are
the repository's only account of how a file system should keep node ids.

The Linux side (`/dev/fuse`, `fusermount`, pipes, `getdents`) is external. It is
modelled from what the code relies on, and marked so in `PROJECT.json`.

## 2. The modules

**`FuseDev`** is the kernel's end of a connection. A request is idle, pending, sent
(on the processing queue of the device it was read from), done or aborted. A reply
finds its request only on that device; otherwise the write fails with `ENOENT`, and
with `ENODEV` after a disconnect. The kernel may interrupt a request, drop it, or
disconnect at any point.

**`Session`** adds the daemon. A worker goes through `loop` (look at `exited`), `read`
(the blocking read), `received` (look at the opcode), `decode`, `handle`, `replied`
(`handle_reply_error`). Each access to a shared cell is a step, so every interleaving
of loads, stores, reads and writes occurs. `Retrieve` fetches the id, `Send` writes,
`SendReturn` maps the error: another thread can run between any two. `Exit` is
`Session::exit` called by any thread. `HandlerError` is any `?` in a handler.

**`Message`, `PipeBuf`, `VecBuf`, `RequestBuf`** model the two kinds of request buffer
on messages made of labelled cells, with well-formed and malformed lengths, reads
that stop early, and reuse for the next request. **`Mailbox`** is the abstract
specification: the argument belongs to the request received last, and what can be read
begins with the data of that request. An exact mailbox holds nothing more, another one
may go on behind the data. `RequestBuf` implements it for both kinds
(`ImplementsMailbox`): with a pipe the exact one, with a vector the other, since
`to_parts` hands out the vector to its end and a receive does not clear it.

**`Negotiate`** is `KernelConfig::negotiate` and the conversion to `fuse_init_out` as
operators with real numbers and `u16` arithmetic. **`Connect`** is the loop in
`connect` around it, with downgrades, stray messages, short messages, failing writes,
a panic and a disconnect, against the kernel's `process_init_reply`. On an error the
`Mount` is dropped, and the unmount in its drop may fail as well (`stuck` records it).

**`Mount`** is the life of a `Mount` next to the process `fusermount`: privileged
mount, fallback, descriptor passing, `AUTO_UNMOUNT`, unmount and drop, a kill of the
daemon between any two steps, and an unmount by somebody else. `umount(2)` and
`fusermount -u` may fail, which `failed` records: nobody tries again.

**`Decode`** is `Operation::decode` for every opcode against the kernel's layouts. What
decode fetches is read off `op.rs` (`NamespaceArgs` and its like); what the kernel sends
is a table of its own, read off the structs and the change log in the kernel header that
the repository keeps for its ABI tests (`fuse_kernel.h`: `Since`, `KernelPod`).
`OldStruct` lists the opcodes and versions whose struct decode has no layout for. A message
arrives through a pipe, or, without `SPLICE_READ`, in a vector that goes on with earlier
bytes (`LeftBehind`).
**`Reply`** is `Bytes`, `write_bytes`, `send_msg`, the reply methods and the notifier
payloads, reduced to lengths and chunk counts. **`Exchange`** composes them: a request
is received, decoded, answered and the kernel accepts or refuses the message.

**`Readdir`** is `DirEntryBuf::push_entry` in the READDIR handlers of `hello`, `memfs`,
`passthrough` and `path_through`, used by a process that reads the directory in pieces
of any size, takes a part of a reply, and may rewind. The handlers differ in the offset
they store with an entry and in how they resume: by skipping, by seeking (unless they
were last sought to the same place), or not at all. **`DirRecords`** has the layout.

**`Daemon`** is the `main` that `poll`, `heartbeat` and `heartbeat_entry` share: a
`thread::scope` with a signal thread, the receive loop as the scope's closure, and the
join at its end. A loop works on one request at a time. **`Poll`** adds the handles, the
task that sleeps until the deadline, the steps of the Poll handler (look at the clock,
set `kh`, reply), and processes with the kernel's wakeup flag. **`Beat`** is what the two
heartbeats share: a mutex that the handlers and the beating thread use, and a lock of
the kernel (of the page, of the directory) that a request holds while it is on its way
and that a notification waits for. **`Heartbeat`** adds the page cache, store, retrieve,
its reply and the map `retrieves`; **`HeartbeatEntry`** the directory cache and the
lookup count on both sides. Content and file name are the number of beats so far.
**`Examples`** puts the three programs side by side and states their fairness.

**`Vfs`** is the kernel's side of node ids: a reference is in a reply on its way, with the
kernel, or in a FORGET on its way, and an inode may be evicted at any time.
**`NodeTable`** (with `HostFiles`) is the `INodeTable` of `passthrough` and
`path_through`, the first keyed by the host's device and inode number, the second by
path. **`Passthrough`** adds the host directory, which others change too and whose inode
numbers are reused once no descriptor keeps a file, and the slab of open files.
`make_node` is two steps since it drops the table's lock before `do_lookup`.
**`PathThrough`** adds the paths. **`MemFS`** is the tree of `memfs` with names, links,
references and the kernel's directory cache. **`NodeIds`** is the abstract
specification of all three: an id is free, then live, then dead; it dies with the last
reference only and never comes back. `ImplementsNodeIds` (of
`NodeTable` and of `MemFS`) says that each implements it.

Definitions called `X_Something`, marked "Mutant", are faulty variants of `X`. No
specification uses them. Each shows that a property notices the fault.

## 3. The runs

| Run | Question | Instance |
| --- | --- | --- |
| `session_safety` | Are answers delivered to their requests, is none lost, does the session end only for a reason, how long do workers read on, do concurrent `retrieve` calls get distinct ids? | 3 workers, 2 devices (one shared, one cloned), 2 requests; or 2 notifiers, one busy worker, 1 request |
| `session_liveness` | Do workers stop after a disconnect, is every operation answered and every pending request read? | 2 workers, 2 requests, fair |
| `request_buf` | Do both kinds of buffer implement the mailbox, exact or not, whatever was left unread? | 3 messages, header 2, argument up to 2, buffer 6 |
| `startup` | `connect`: is the handshake's result consistent with what the kernel believes, is the mount released on failure unless the unmount fails, does it return? `mount`: is everything unmounted and reaped, can it hang? | 30 wishes, 15 minors around each branch, 5 flag sets; one unmount by others |
| `exchange` | Is every request that decode has a layout for decoded as `fuse_kernel.h` describes it, and every message accepted? | 9 minors around each branch, nested `Bytes` up to 5 parts |
| `examples` | What do the notifications of the three examples guarantee, who can wait for whom, do the programs end? | `poll`: 2 files, 2 handles; `heartbeat`: 2 beats of each kind; `heartbeat_entry`: 2 beats, counts up to 2 |
| `filesystems` | Do the tables' counts agree with the kernel's, does an id mean one file, is a directory listed completely and in order? | 2 ids besides the root, 2 names, 2 source ids of 3 generations, 2 or 3 references; 5 entries, 9 sizes around record ends |
| `memfs` | Does the tree stay whole, whatever is created, linked, moved, removed and forgotten? | 2 ids besides the root, 2 names, 3 references |

Three runs hold several programs each (`startup`, `examples`, `filesystems`). A variable
says which of them runs, the variables of the others keep their values, and a property of
one program is stated for the behaviours in which it runs. Their modules extend the
programs' modules, so that a run checks the very definitions that the theorems of section
5 are about. The one exception is `PathThrough` in `MCFilesystems`: it shares `NodeTable`
with `Passthrough`, so it is instantiated there under other variables, and
`PathImplementsNodeIds` is its `ImplementsNodeIds`. Several properties are conjunctions of
named parts (`TreeWhole`, `TableAgrees`); each of those has several mutants.

What `examples` shows, besides invariants that hold without exception (`CacheFresh`,
`CountsAgree`, `OldNameGone`), is a complete list of exceptions:

- a system call on the file of `poll` returns, unless its wakeup was lost because the
  task looked for `kh` between the handler's look at the clock and its `set`, or the
  loop ended with an error, which happens only for a read that no poll announced
  (`SyscallsReturn`);
- the handlers and the beating of both heartbeats go on, unless the beating thread
  holds its mutex across a notification that waits in the kernel for the page or the
  directory of a request that is not answered yet (`BothGoOn`);
- an id stays in `retrieves` only if its reply was handled before it was inserted
  (`LeftoverHasCause`); what comes back is never older than what was stored, and the slice
  in NotifyReply panics only if the page was dropped between store and retrieve
  (`RetrievedIsFresh`).

All of these exceptions are reachable. In the same way the second half of `ListedOnce`
(a reader that comes to the end has seen the whole directory) leaves out `hello`, `path_through` where the reader
takes a part of a reply or rewinds, and `passthrough` where it rewinds after the first
READDIR.

**Why the bounds are enough.** Two requests and a third worker are the smallest case in
which an answer could go to the wrong request on a shared and on a cloned device;
the theorems of section 5 remove the bound for safety. Three messages let a buffer be
dirtied, fail and be reused. The cells' sizes keep header < argument < data and a pipe
smaller than the buffer. Negotiation and layouts branch on versions only, and the
minors lie on both sides of each branch. `session_safety` explores the workers without
notifiers, and the notifiers with one worker that serves one request (the constraint
`Scenarios` of `MCSession`), since notifiers and workers meet only in the connection.
Two files in `poll` are one to wait for and one whose blocking read makes the loop
sleep. Two beats are enough for a reply to be overtaken by the next beat. Two ids and two names
let an id die and its file, name or number come back under another one, a name be
replaced by a rename, and a directory be moved into another. The theorems of section 5
remove the bounds for the invariants of every part but the messages written
(`MessageTaken`, `SlotsFilled`).

**Symmetry** is used for requests, notifiers and the workers on one device, in safety
runs only. **Deadlock** is checked except in `startup`, `examples`, `filesystems` and
`memfs`, whose processes end or whose counters are bounded.

**Fairness.** `Session`: weak fairness of every worker's own step; a worker is a thread
and handlers are taken to return. Nothing is assumed of `Exit`, errors or the kernel,
except that a read with something to return does return. `Connect`: of the loop in
`connect`, whose steps include the kernel's answer to its reads and writes. `Mount`: of the daemon inside `mount`, `unmount` and
`drop`, and of the child; not of a daemon that holds on to its mount. `Readdir`: the
reader keeps asking and the daemon keeps answering. `Examples`: weak fairness of the
receive loop, of every task, of the scope's join and of a process in the kernel that has
its answer. Strong fairness of the beating thread, which competes with the loop for a
mutex and a kernel lock that are free again and again: this takes the mutex of `std` to
be fair in the long run. Strong fairness of the receipt of each file's request, since the
kernel's queue is first in first out. Nothing is assumed of signals, of processes that
may or may not make a call, of deadlines that belong to no task, or of memory reclaim.

## 4. Where code and documentation disagree

Four runs expect a violation. Each checks a sentence of the repository.

- `request_buf_room`: `Pipe::new` keeps the default pipe size, so a `FUSE_WRITE` that
  `max_write` allows may not fit, and receiving it fails.
- `connect_threshold`: the default of `congestion_threshold` overflows `u16` when
  `max_background` exceeds 21845.
- `decode_write`: for version 7.8 and before, `decode` has a WRITE struct of 24 bytes, but
  the buffer cuts 40 bytes off for the argument. The first 16 bytes of the data, or all
  of it when there is less, are lost, and the handler reads on behind them. Such a session
  has the vector (no kernel before 7.14 can splice), so nothing fails: in the
  counterexample all that can be read is left from earlier requests.
- `decode_unlock`: the release of a POSIX lock carries pid 0 and is rejected.

Others were met while modelling and are recorded as notes on hazards, without a run:
the vector buffer hands out more than the data of a WRITE, although `op.rs:1156` speaks of
exactly the specified range; before 7.12 CREATE starts with 8 bytes where decode fetches
16, and before 7.9 GETATTR, READ, READDIR and locks are shorter than what decode fetches
(`OldStruct`); for kernels before 7.4 the wished flags stay on; of the inequalities
documented for `max_write` only the bound of 256 pages is enforced, so a session without
`MAX_PAGES` can have more than 32 pages (`init.rs:47`); STATFS and NOTIFY_REPLY with
nodeid 0 are rejected, although `op.rs:1232` allows for the first; every `unmount` logs "unmounted
twice"; `hello` skips an entry when a listing is resumed; `poll` leaves its loop instead
of answering EAGAIN; the scope of the heartbeats does not return after an unmount,
because the beating thread never ends, and that of `poll` does not return after an error
until a signal arrives.

## 5. What is proved

`SessionProofs` proves for any sets of workers, devices, requests and notifiers, and
any assignment `conn` of devices to workers (`ConnAssumption`; `DevAssumption` keeps requests, ids and `None` apart):

| Theorem | Property |
| --- | --- |
| `TypeCorrect` | `TypeOK` |
| `RequestsAreKept` | `NoRequestLost` |
| `AnswersAreOwn` | `AnsweredByOwnHandler` |
| `ExitIsJustified` | `ExitHasCause` |
| `LateReadsBounded` | `AtMostOneLateRead` |
| `RetrieveIdsAreUnique` | `NotifyIdsDistinct` |

One restriction is in the model: a handler of NOTIFY_REPLY does not reply, as in the
`heartbeat` example. Its id comes from `notify_unique` and may equal the id of a request
(the model keeps the two apart), so a reply to it could complete that request; the
library does not prevent this.

The properties are not inductive. `NoRequestLost`, for example, says nothing about what
a buffer holds once its worker has replied. The inductive invariant `IInv` adds:

- `BuffersTrue`: what a worker's buffer and operation say agrees with the kernel's
  record of that request, at each place in the loop;
- `Held`: a sent request is in the buffer of a worker on its device, and which places
  in the loop that worker can be at;
- `KernelInv`: a connection that is gone holds no unfinished request, and an idle
  request is on no device's queue;
- `NodevIsTrue`: an `ENODEV` a thread has in hand means the connection is gone;
- `LateInv`: a worker that read late no longer passes the check of `exited`;
- `IdsInv`: ids at or above `notify_unique` have never been issued.

There is one lemma per action (`RecvRequestInv` to `EnvInv`), a frame lemma for steps
that touch neither workers nor queues, and `NextInv` that combines them.

`PassthroughProofs` proves, of `Passthrough` and of `PathThrough`, for any number of ids,
references, names, handles, source ids, paths and generations (`BoundsAssumption`: the
bounds are natural numbers; `NoneAssumption`: `None` is none of the values):

| Theorem | Property |
| --- | --- |
| `TypeCorrect`, `PathTypeCorrect` | `TypeOK`, `PathTypeOK` |
| `TableIsKept`, `PathTableIsKept` | `TableAgrees` (`CountsAgree`, `IndexAgrees`) |
| `IdsMeanOneFile` | `SameFile` |
| `HandlesAreKept` | `HandlesAgree` |
| `Implements`, `PathImplements` | `ImplementsNodeIds` |

The table is treated once: `TableInv` is the type, the two properties, and that numbers
from `next_ino` on are not in the map (`Vacant`). The last part is what makes `insert`
safe, and `CountsAgree` is what makes `forget` safe: an inode that leaves the map has no
references left anywhere. A step of either program is a step of the table or leaves it
alone (`StepsOfTable`), and a step of the table is a step of `NodeIds`. `Passthrough`
needs two more facts. `SameFile` is inductive since a source id gets a new generation only
when no inode has it. For `HandlesAgree`, `HandlesHeld` adds that the kernel keeps a
reference to the inode of an open file, and that a handle in a RELEASE on the way is still
in the slab and is not one the kernel has opened again.

`MemFSProofs` proves, for any number of ids and references and any set of names
(`MemFSAssumption`; `BoundsAssumption`):

| Theorem | Property |
| --- | --- |
| `TreeStaysWhole` | `TreeWhole` |
| `MemFSImplements` | `ImplementsNodeIds` |

`TreeWhole` looks at `inodes` alone and is not inductive: what the kernel asks for next
depends on its caches. `IInv` adds that a name in the kernel's cache is in the tree with a
reference held (`CacheSound`), so that an inode loses its last name only while the kernel
has a reference and `NothingLeaks` holds; that an inode without a name has no children
(`RemovedEmpty`), so that nothing is cut off together with it; that the root stays; and
that no name leads to the root. The proof looks at the tree as one function `kids` from
places (directory and name) to nodes. A request changes it at one place, or at two for a
rename, and lemmas on such a function say what becomes of the number of names of a node
(`InsertCounts`, `RemoveCounts`, `OthersCount`) and of its connection to the root
(`ReachInsert`, `ReachRemove`, `ReachMove`). Reachability is stated with sets closed under
parents (`UpClosed`) and not with paths: a node is connected to the root if every closed
set that holds its parents holds the root. This needs no induction on the depth of the
tree. The number of names is stated by numbering them (`HasSize`), for the same reason:
`AddElement` and `RemoveElement` change the numbering at one place. `ReachMove` is where the kernel's rule that a directory is not moved below itself
enters.

`WireProofs` proves, for any set of versions and any length of data
(`DecodeAssumption`), and for any names and any sizes of replies that hold at least one
entry (`ReaddirAssumption`):

| Theorem | Property |
| --- | --- |
| `FieldsAsSent` | `DecodedAsSent` |
| `ValidIsAccepted` | `AcceptedIfValid` |
| `RecordsAlwaysFit` | `RecordsFit` |
| `ListingIsWhole` | `ListedOnce` |

For `Decode` the invariant is that the result is that of the request (`DecodeInv`); the
work lies in the operators. `LayoutOK` compares the two tables opcode by opcode: outside
`OldStruct`, what decode fetches is what the kernel header describes.
`ParseWhole` says that fetching a struct, up to two strings and an array from a message
made of these gives each of them back, `ParseCut` that one of the fetches fails if the
last cell is missing; `DecodeIs` says what `decode` makes of either. For `Readdir` the
invariant `DirInv` says that records lie one behind the other within the size (`Laid`),
that stream and buffer hold entries in their order with the offsets the handler computes
(`InOrder`), that what was seen lies before all of these (`SeenBefore`), and, for the
handlers that promise the whole directory, that nothing before the position is missing and
the stream goes on there (`NoneMissed`).

`RequestBufProofs` proves, for every set of messages, every header size, buffer capacity
and pipe size, and any number of receives (`InputAssumption`: what a `readv` returns is a
message as the kernel sends it or one whose length field disagrees with what was read,
the set `Readable`):

| Theorem | Property |
| --- | --- |
| `LengthsAlwaysAgree` | `LengthsAgree` |
| `RequestBufIsMailbox` | `ImplementsMailbox` |

`IInv` says that the pipe's counter is the number of cells in it, that the argument and
what was taken from the vector lie inside it, that a message handed out is well formed,
and that the vector then starts with everything that follows its header (`Holds`); the
cells behind may be left from an earlier message, and the mailbox of the vector allows
for them. Sequences are handled by a lemma on
pieces of pieces (`PieceOfPiece`). For the refinement, the argument and the remaining data
of the mailbox are computed from the pipe or the vector; a receive, a failed receive and a
read are each a step of `Mailbox`, for either kind (`PipeRefines`, `VecRefines`).

`StartupProofs` proves, for every set of wishes and of `FUSE_INIT` messages
(`ConnectAssumption`: of the types in `Negotiate`, and a wish has the library's own minor
version; `KernelAssumption`: no kernel had version 7.4 or 7.5, and flags of the high word
come with `INIT_EXT`; `NegotiateAssumption` on the page size), and for any number of unmounts
by others:

| Theorem | Property |
| --- | --- |
| `NothingLeftMounted` | `SessionOrUnmounted` |
| `BuffersSuffice` | `BufferHoldsRequests` |
| `FlagsAreAgreed` | `FlagsAgree` |
| `LimitsAreConsistent` | `LimitsConsistent` |
| `GoneMeansClean` | `GoneIsClean` |

The invariant of `Connect` ties the three places where the result lives together: until `connect`
returns, the config is the wish; a session's config is what `negotiate` makes of the
wish and of the INIT last read, and the kernel's view is what it takes from the reply made
of that config (`ConfigIsKnown`). After an error nothing is mounted unless `stuck`. The rest are lemmas on what `negotiate` computes: the
power of ten, the bounds of `max_write` and of the congestion threshold, the layout of
the reply by version.

That of `Mount` says at each step of `mount` and `unmount` what kind of mount there is,
whether the child lives, and that only a `Mount` that has not been taken can be undone.

`HeartbeatProofs` (of `Heartbeat`) and `ExamplesProofs` (of `HeartbeatEntry` and `Poll`)
prove, for any finite set of files and ways to open them, any number of beats and of
lookups (`BeatAssumption`, `EntryAssumption`, `PollAssumption`, `DaemonAssumption`):

| Theorem | Property |
| --- | --- |
| `HeartbeatTyped`, `EntryTyped`, `PollTyped` | `TypeOK`, `EntryTypeOK`, `PollTypeOK` |
| `CacheStaysFresh` | `CacheFresh` |
| `RetrievesAreFresh` | `RetrievedIsFresh` |
| `LeftoversExplained` | `LeftoverHasCause` |
| `LookupCountsAgree` | `CountsAgree` |
| `OldNamesAreGone` | `OldNameGone` |
| `HandlesAreFound` | `HandleFound` (not part of a run) |

They are about the specifications of the single programs, which `Examples` only puts side
by side. Each has an inductive invariant:

- `heartbeat` (`HInv`): how far the notification is (`HBeat`) decides which contents the
  page can have (`HPage`); a locked page belongs to a READ in the queue or at hand, which
  fills it (`HLock`); a NOTIFY_REPLY in the queue has the page, or a READ comes before it,
  or the page was dropped (`HReplies`), so that what its handler sees is not older than
  its beat (`HData`); an id is in `retrieves` with the content of its beat (`HRetrieves`).
- `heartbeat_entry` (`EInv`): the two counts differ by the FORGET on the way (`ECounts`);
  a cached name has been counted, and is the current one or the one that the beating
  thread is about to invalidate (`ECache`).
- `poll` (`PInv`): the handle of a file that is open or being worked on is in the map, and
  no other file has it (`PHeld`); so RELEASE takes away nobody else's handle, and the
  error path of `ok_or(INVAL)?` is never taken. A task notifies only with a `kh` (`PTasks`).

Each inductive invariant was also checked with TLC, on the instance of its run.

Only model-checked:

- liveness (`ConnectReturns`, `CallsReturn`, `SyscallsReturn`, `ScopeReturns`, `BothGoOn`,
  `ListingEnds` and those of `Session`), which is out of the prover's reach, and
  `AutoUnmount`, which is such a property too;
- `MessageTaken` and `SlotsFilled`: `Reply` uses recursive operators on nested values,
  which the prover cannot handle, and `Exchange` extends it.

## 6. Not modelled

Field values inside structs, option strings of mounts, log messages, `page_size`; the
conversions in `types.rs`; messages of 4 GiB and vectors of more than 1024 chunks; the
answer to CREATE, for which the library has no method; memory orderings weaker than
sequential consistency (each atomic is used alone, and no other data is published
through it).

Of the examples: handlers that pass one system call on (`getattr`, `read`, `write`,
`xattr`, `statfs` of `passthrough` and `path_through`) have no state of the program in
them. The contents, attributes and extended attributes of `memfs` are single assignments
to one inode under its lock; a model of them would repeat the assignment. Read as they
are, `write` sets the size to the end of what was written even inside a longer file
(`memfs.rs:678`), `setxattr` with CREATE stores an empty value (`memfs.rs:597`), and the
write loop of `path_through` does not move on in its buffer (`path_through.rs:437`).
A rename of `memfs` leaves the `parent` of a moved directory as it was, which only the
listing of `..` uses. `memfs` holds several entries of a `DashMap` at a time; two of them
in one shard would block the thread, which depends on the hash function and is left out.
`passthrough` is modelled with one host directory, and without a lookup that ends at its
own root.
