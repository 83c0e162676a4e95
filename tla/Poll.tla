-------------------------------- MODULE Poll --------------------------------
(***************************************************************************)
(* examples/poll.rs: a file that becomes readable at a deadline after its  *)
(* open, the threads that announce this with poll_wakeup, and processes    *)
(* that open, poll, read and close the file.  A deadline has passed or has *)
(* not (due); nothing else is kept of time.                                *)
(***************************************************************************)
EXTENDS Daemon, FiniteSets

CONSTANTS
    Files,     \* the kernel's open files; a file is also its kh
    Modes(_)   \* how each of them may be opened

ASSUME PollAssumption ==
    /\ IsFiniteSet(Files) /\ None \notin Files
    /\ \A f \in Files : Modes(f) \subseteq {"block", "nonblock", "write"}

VARIABLES
    file,       \* the kernel's side of each open file, and its process
    next_fh,
    handles,    \* the keys of the map handles
    kh,         \* FileHandle::kh, a OnceLock
    due,        \* the handles whose deadline has passed
    task,       \* the reading task of each handle
    late        \* history: handles that got their kh after the task looked

pvars == <<file, next_fh, handles, kh, due, task, late>>
pollVars == <<dvars, pvars>>

Fhs == 0 .. next_fh - 1   \* the handles given out so far
Waiting == {"open", "poll", "wait", "read", "release"}
ThisFh == file[cur].fh

PollTypeOK ==
    /\ DTypeOK
    /\ file \in [Files -> [req       : Waiting \cup {"none", "idle", "gone"},  \* what its process waits for
                           mode      : {"block", "nonblock", "write"},  \* how it was opened
                           waits     : BOOLEAN,  \* its poll waits for events (FUSE_POLL_SCHEDULE_NOTIFY)
                           triggered : BOOLEAN,  \* it was woken up while its POLL was on the way
                           told      : BOOLEAN,  \* a poll said that it is readable
                           fh        : Fhs \cup {None}]]
    /\ next_fh \in Nat
    /\ handles \subseteq Fhs /\ due \subseteq Fhs /\ late \subseteq Fhs
    /\ kh \in [Fhs -> Files \cup {None}]
    /\ task \in [Fhs -> {"sleep", "upgraded", "notify", "done"}]

NoFile(r) == [req |-> r, mode |-> "block", waits |-> FALSE,
              triggered |-> FALSE, told |-> FALSE, fh |-> None]

PollInit ==
    /\ DInit
    /\ file = [f \in Files |-> NoFile("none")]
    /\ next_fh = 0 /\ handles = {} /\ due = {} /\ late = {}
    /\ kh = [h \in Fhs |-> None]
    /\ task = [h \in Fhs |-> "sleep"]

----------------------------------------------------------------------------
(* The kernel and the processes                                            *)

Asks(f, from, r) ==
    /\ up /\ file[f].req = from
    /\ file' = [file EXCEPT ![f] = r]
    /\ UNCHANGED <<dvars, next_fh, handles, kh, due, task, late>>

Opens(f, m) == Asks(f, "none", [file[f] EXCEPT !.req = "open", !.mode = m])

\* poll(2) without a timeout, or with none to wait for.
Polls(f, w) == Asks(f, "idle", [file[f] EXCEPT !.req = "poll", !.waits = w])

Reads(f) == Asks(f, "idle", [file[f] EXCEPT !.req = "read"])

Closes(f) == Asks(f, "idle", [file[f] EXCEPT !.req = "release"])

\* The end of the connection aborts every request and wakes every poll; the handler
\* at work keeps the request it has read.
Abort == file' = IF up' THEN file
                 ELSE [f \in Files |-> IF f = cur THEN [file[f] EXCEPT !.req = "gone"]
                                       ELSE NoFile("gone")]

PollEnds ==
    /\ Signal \/ Disconnect
    /\ Abort
    /\ UNCHANGED <<next_fh, handles, kh, due, task, late>>

\* The process gets its answer, unless the connection is gone.
Answer(r) == file' = [file EXCEPT ![cur] = IF @.req = "gone" THEN NoFile("gone") ELSE r]

----------------------------------------------------------------------------
(* The receive loop                                                        *)

PollRecv(f) ==
    /\ file[f].req \in Waiting \ {"wait"}
    /\ Receives(f, file[f].req)
    /\ UNCHANGED pvars

\* fn with a value for the next handle.
Grown(fn, v) == [h \in 0 .. next_fh |-> IF h = next_fh THEN v ELSE fn[h]]

\* open: refused unless read-only; otherwise a handle with its deadline and its task.
open ==
    /\ wpc = "open"
    /\ IF file[cur].mode # "write"
       THEN /\ next_fh' = next_fh + 1
            /\ handles' = handles \cup {next_fh}
            /\ kh' = Grown(kh, None) /\ task' = Grown(task, "sleep")
            /\ Answer([file[cur] EXCEPT !.req = "idle", !.fh = next_fh])
       ELSE Answer(NoFile("gone")) /\ UNCHANGED <<next_fh, handles, kh, task>>
    /\ HandlerDone
    /\ UNCHANGED <<due, late>>

\* Mutant: the deadline is not looked at for a non-blocking file.
read_Strict ==
    /\ wpc = "read"
    /\ IF ThisFh \notin handles \/ file[cur].mode = "nonblock"
       THEN Fails("error") /\ UNCHANGED file
       ELSE ThisFh \in due /\ Answer([file[cur] EXCEPT !.req = "idle"]) /\ HandlerDone
    /\ UNCHANGED <<next_fh, handles, kh, due, task, late>>

\* read: a blocking file makes the loop sleep until the deadline; for a non-blocking
\* one Err(AGAIN)? leaves the loop, and so does a handle that is not in the map.
read ==
    /\ wpc = "read"
    /\ IF ThisFh \notin handles \/ (file[cur].mode = "nonblock" /\ ThisFh \notin due)
       THEN Fails("error") /\ UNCHANGED file
       ELSE ThisFh \in due /\ Answer([file[cur] EXCEPT !.req = "idle"]) /\ HandlerDone
    /\ UNCHANGED <<next_fh, handles, kh, due, task, late>>

\* Poll looks at the map and at the clock: no handle, ready, not ready, or not ready and
\* asked to notify.
PollNow ==
    /\ wpc = "poll"
    /\ CASE ThisFh \notin handles -> Fails("error") /\ UNCHANGED file
         [] ThisFh \in handles \ due /\ file[cur].waits -> Goto("register") /\ UNCHANGED file
         [] OTHER -> /\ Answer([file[cur] EXCEPT !.req = "idle", !.waits = FALSE, !.triggered = FALSE,
                                                 !.told = @ \/ ThisFh \in due])
                     /\ HandlerDone
    /\ UNCHANGED <<next_fh, handles, kh, due, task, late>>

\* Mutant: only a non-blocking file registers.
Register_Nonblock ==
    /\ wpc = "register"
    /\ kh' = [kh EXCEPT ![ThisFh] = IF file[cur].mode = "nonblock" THEN cur ELSE @]
    /\ late' = IF kh[ThisFh] = None /\ task[ThisFh] = "done" THEN late \cup {ThisFh} ELSE late
    /\ Goto("unready")
    /\ UNCHANGED <<file, next_fh, handles, due, task>>

\* handle.kh.set(kh): the first one is kept.
Register ==
    /\ wpc = "register"
    /\ kh' = [kh EXCEPT ![ThisFh] = IF @ = None THEN cur ELSE @]
    /\ late' = IF kh[ThisFh] = None /\ task[ThisFh] = "done" THEN late \cup {ThisFh} ELSE late
    /\ Goto("unready")
    /\ UNCHANGED <<file, next_fh, handles, due, task>>

\* reply_poll without events: the process sleeps, or polls again when it was woken.
PollUnready ==
    /\ wpc = "unready"
    /\ Answer([file[cur] EXCEPT !.req = IF file[cur].triggered THEN "poll" ELSE "wait",
                                !.triggered = FALSE])
    /\ HandlerDone
    /\ UNCHANGED <<next_fh, handles, kh, due, task, late>>

release ==
    /\ wpc = "release"
    /\ handles' = handles \ {ThisFh}
    /\ Answer(NoFile("gone"))
    /\ HandlerDone
    /\ UNCHANGED <<next_fh, kh, due, task, late>>

----------------------------------------------------------------------------
(* The reading tasks                                                       *)

Step(h, from, to) == task[h] = from /\ task' = [task EXCEPT ![h] = to]

Deadline(h) ==
    /\ task[h] = "sleep"
    /\ due' = due \cup {h}
    /\ UNCHANGED <<dvars, file, next_fh, handles, kh, task, late>>

\* The sleep, begun after the deadline was fixed, is over; upgrade fails when the
\* handle is neither in the map nor with a handler.
TaskWakes(h) ==
    /\ h \in due
    /\ Step(h, "sleep", IF h \in handles \/ (cur # None /\ ThisFh = h) THEN "upgraded" ELSE "done")
    /\ UNCHANGED <<dvars, file, next_fh, handles, kh, due, late>>

TaskLooks(h) ==
    /\ Step(h, "upgraded", IF kh[h] # None THEN "notify" ELSE "done")
    /\ UNCHANGED <<dvars, file, next_fh, handles, kh, due, late>>

\* poll_wakeup: the kernel wakes the processes that poll the file.
TaskNotifies(h) ==
    /\ Step(h, "notify", "done")
    /\ LET k == file[kh[h]]
       IN  file' = [file EXCEPT ![kh[h]] =
                      [k EXCEPT !.req = IF k.req = "wait" THEN "poll" ELSE k.req,
                                !.triggered = (k.req = "poll" /\ k.waits)]]
    /\ UNCHANGED <<dvars, next_fh, handles, kh, due, late>>

----------------------------------------------------------------------------
Clients == \E f \in Files :
    \/ \E m \in Modes(f) : Opens(f, m)
    \/ \E w \in BOOLEAN : Polls(f, w)
    \/ Reads(f) \/ Closes(f)

PollLoop ==
    \/ \E f \in Files : PollRecv(f)
    \/ open \/ read \/ PollNow \/ Register \/ PollUnready \/ release
    \/ LeaveLoop /\ UNCHANGED pvars

Task(h) == h \in Fhs /\ (Deadline(h) \/ TaskWakes(h) \/ TaskLooks(h) \/ TaskNotifies(h))

PollScope ==
    /\ SignalsClosed \/ Joined(\A h \in Fhs : task[h] = "done")
    /\ Abort
    /\ UNCHANGED <<next_fh, handles, kh, due, task, late>>

PollNext == Clients \/ PollEnds \/ PollLoop \/ PollScope \/ \E h \in Fhs : Task(h)

PollSpec == PollInit /\ [][PollNext]_pollVars

----------------------------------------------------------------------------
(* Properties                                                              *)

\* Every open, poll, read and close of a process returns.  Two cases are excepted,
\* and no other: the task looked for kh between Poll's look at the clock and its
\* set (the wakeup is lost), or a handler's error left the loop.  Only a read that no
\* poll announced can do that: a process that reads after poll said so always gets the
\* content.
SyscallsReturn ==
    \A f \in Files : file[f].req \in Waiting
                       ~> \/ file[f].req \notin Waiting
                          \/ file[f].fh \in late
                          \/ main = "error" /\ ~file[cur].told

============================================================================
