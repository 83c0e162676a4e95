------------------------------ MODULE Session ------------------------------
(***************************************************************************)
(* A FUSE session (src/session.rs) served by several worker threads, each  *)
(* running the loop of the examples                                        *)
(*                                                                         *)
(*     while session.recv_request(device, &mut buf)? {                     *)
(*         let (req, op, remains) = session.decode(device, &mut buf)?;     *)
(*         ... req.reply_xxx()? ...                                        *)
(*     }                                                                   *)
(*                                                                         *)
(* with its own RequestBuf and device, and by notifier threads.  The three *)
(* shared cells are the kernel's connection, the atomic flag exited and the*)
(* atomic counter notify_unique; every access to one of them is a step of  *)
(* its own.  Locals that are dead (op, ret, nid, nret) are reset.          *)
(***************************************************************************)
EXTENDS FuseDev

CONSTANTS Workers,     \* threads that run the receive loop
          Notifiers,   \* threads that call Notifier::retrieve
          conn         \* the device each worker receives and replies on

ASSUME ConnAssumption == conn \in [Workers -> Devices]

VARIABLES
    exited,         \* Session::exited
    notify_unique,  \* Session::notify_unique
    pc,             \* where a worker is in its loop
    buf,            \* the header in its RequestBuf
    op,             \* the request its handler works on (the decoded Operation)
    ret,            \* what its last read or write returned
    npc,            \* where a notifier is in retrieve
    nid,            \* the notify_unique it fetched, None for another notification
    nret,           \* what its write returned
    late,           \* history: messages a worker read after exited was set
    asked,          \* history: some thread called Session::exit
    issued          \* history: retrieve calls that fetched an id

nvars == <<npc, nid, nret, issued>>
svars == <<exited, notify_unique, pc, buf, op, ret, late, asked, nvars>>
vars == <<kvars, svars>>

NoMessage == [kind |-> "none", id |-> None]
Returns == {"ok", "NODEV", "NOENT", "other"}
PCs == {"loop", "read", "received", "decode", "handle", "replied", "stopped", "failed"}
Ended == {"stopped", "failed"}

TypeOK ==
    /\ connected \in BOOLEAN
    /\ kstat \in [Requests -> {"idle", "pending", "sent", "done", "aborted"}]
    /\ kop \in [Requests -> Ops]
    /\ kdev \in [Requests -> Devices \cup {None}]
    /\ result \in [Requests -> Requests \cup {None}]
    /\ intr \in [Requests -> {"none", "queued", "read"}]
    /\ nointr \in BOOLEAN
    /\ nreplies \in SUBSET NotifyIds
    /\ exited \in BOOLEAN
    /\ notify_unique \in Nat
    /\ pc \in [Workers -> PCs]
    /\ buf \in [Workers -> Messages \cup {NoMessage}]
    /\ op \in [Workers -> Requests \cup NotifyIds \cup {None}]
    /\ ret \in [Workers -> Returns]
    /\ npc \in [Notifiers -> {"idle", "send", "sent"}]
    /\ nid \in [Notifiers -> NotifyIds \cup {None}]
    /\ nret \in [Notifiers -> Returns]
    /\ late \in [Workers -> Nat]
    /\ asked \in BOOLEAN
    /\ issued \in [NotifyIds -> Nat]

\* Session::new, and one buffer per worker from new_request_buffer.
Init ==
    /\ KInit
    /\ exited = FALSE
    /\ notify_unique = 0
    /\ pc = [w \in Workers |-> "loop"]
    /\ buf = [w \in Workers |-> NoMessage]
    /\ op = [w \in Workers |-> None]
    /\ ret = [w \in Workers |-> "ok"]
    /\ npc = [n \in Notifiers |-> "idle"]
    /\ nid = [n \in Notifiers |-> None]
    /\ nret = [n \in Notifiers |-> "ok"]
    /\ late = [w \in Workers |-> 0]
    /\ asked = FALSE
    /\ issued = [i \in NotifyIds |-> 0]

----------------------------------------------------------------------------
(* recv_request                                                            *)

Goto(w, l) == pc' = [pc EXCEPT ![w] = l]
Return(w, e) == ret' = [ret EXCEPT ![w] = e]

\* Mutant: recv_request does not look at exited.
RecvRequest_Unchecked(w) ==
    /\ pc[w] = "loop"
    /\ Goto(w, "read")
    /\ UNCHANGED <<kvars, exited, notify_unique, buf, op, ret, late, asked, nvars>>

\* recv_request starts: Ok(false) when the session has exited.
RecvRequest(w) ==
    /\ pc[w] = "loop"
    /\ Goto(w, IF exited THEN "stopped" ELSE "read")
    /\ UNCHANGED <<kvars, exited, notify_unique, buf, op, ret, late, asked, nvars>>

\* Mutant: the workers share one RequestBuf.
TryReceive_SharedBuffer(w, m) ==
    /\ pc[w] = "read"
    /\ KRead(conn[w], m)
    /\ buf' = [v \in Workers |-> m]
    /\ late' = [late EXCEPT ![w] = IF exited THEN @ + 1 ELSE @]
    /\ Goto(w, "received")
    /\ Return(w, "ok")
    /\ UNCHANGED <<exited, notify_unique, op, asked, nvars>>

\* try_receive returns a message; the header is now in the buffer.
TryReceive(w, m) ==
    /\ pc[w] = "read"
    /\ KRead(conn[w], m)
    /\ buf' = [buf EXCEPT ![w] = m]
    /\ late' = [late EXCEPT ![w] = IF exited THEN @ + 1 ELSE @]
    /\ Goto(w, "received")
    /\ Return(w, "ok")
    /\ UNCHANGED <<exited, notify_unique, op, asked, nvars>>

\* try_receive fails: ENODEV once the connection is gone, any other error
\* (a signal, no memory for the new pipe) at any time.
TryReceiveError(w, e) ==
    /\ pc[w] = "read"
    /\ (e = "NODEV" /\ ~connected) \/ e = "other"
    /\ Goto(w, "received")
    /\ Return(w, e)
    /\ UNCHANGED <<kvars, exited, notify_unique, buf, op, late, asked, nvars>>

\* Mutant: recv_request looks at exited again after the read.
RecvReturn_Recheck(w) ==
    /\ pc[w] = "received"
    /\ exited' = (exited \/ ret[w] = "NODEV" \/ buf[w].kind = "destroy")
    /\ Goto(w, CASE exited' -> "stopped"
                 [] ret[w] = "other" \/ buf[w].kind = "init" -> "failed"
                 [] OTHER -> "decode")
    /\ UNCHANGED <<kvars, notify_unique, buf, op, ret, late, asked, nvars>>

\* Mutant: ENODEV from the read is retried instead of ending the session.
RecvReturn_Retry(w) ==
    /\ pc[w] = "received"
    /\ exited' = (exited \/ (ret[w] = "ok" /\ buf[w].kind = "destroy"))
    /\ Goto(w, CASE ret[w] = "NODEV" -> "loop"
                 [] ret[w] = "ok" /\ buf[w].kind = "destroy" -> "stopped"
                 [] ret[w] = "other" \/ buf[w].kind = "init" -> "failed"
                 [] OTHER -> "decode")
    /\ UNCHANGED <<kvars, notify_unique, buf, op, ret, late, asked, nvars>>

\* The rest of recv_request: ENODEV and FUSE_DESTROY end the session,
\* FUSE_INIT and the other errors end this worker's loop.
RecvReturn(w) ==
    /\ pc[w] = "received"
    /\ LET gone == \/ ret[w] = "NODEV"
                   \/ ret[w] = "ok" /\ buf[w].kind = "destroy"
       IN /\ exited' = (exited \/ gone)
          /\ Goto(w, IF gone THEN "stopped"
                     ELSE IF ret[w] = "other" \/ buf[w].kind = "init" THEN "failed"
                     ELSE "decode")
    /\ UNCHANGED <<kvars, notify_unique, buf, op, ret, late, asked, nvars>>

----------------------------------------------------------------------------
(* decode and the reply                                                    *)

\* Session::decode: a DecodeError leaves the loop without a reply.
Decode(w) ==
    /\ pc[w] = "decode"
    /\ Goto(w, IF buf[w].kind = "bad" THEN "failed" ELSE "handle")
    /\ op' = [op EXCEPT ![w] = buf[w].id]
    /\ UNCHANGED <<kvars, exited, notify_unique, buf, ret, late, asked, nvars>>

\* Mutant: the reply goes to another device than the request came from.
Reply_OtherDevice(w) ==
    /\ pc[w] = "handle" /\ buf[w].kind # "notify_reply"
    /\ LET d == CHOOSE e \in Devices : e # conn[w]
       IN \/ KReply(d, buf[w], op[w]) /\ Return(w, "ok")
          \/ /\ ~Finds(d, buf[w])
             /\ Return(w, "NOENT")
             /\ UNCHANGED kvars
    /\ Goto(w, "replied")
    /\ UNCHANGED <<exited, notify_unique, buf, op, late, asked, nvars>>

\* The handler calls one of the reply_xxx methods, which consumes the Request:
\* send_msg writes the header's unique id to the worker's device.  The catch-all
\* arm of the examples also replies to FORGET and INTERRUPT; a handler of
\* NotifyReply does not reply.
Reply(w) ==
    /\ pc[w] = "handle" /\ buf[w].kind # "notify_reply"
    /\ \/ KReply(conn[w], buf[w], op[w]) /\ Return(w, "ok")
       \/ KReject(conn[w], buf[w]) /\ Return(w, "other")
       \/ /\ ~Finds(conn[w], buf[w])
          /\ \E e \in {"NOENT"} \cup (IF connected THEN {} ELSE {"NODEV"}) : Return(w, e)
          /\ UNCHANGED kvars
    /\ Goto(w, "replied")
    /\ UNCHANGED <<exited, notify_unique, buf, op, late, asked, nvars>>

\* The handler gives up with an error before it replies (the `?` operators of
\* the examples): the worker leaves its loop.
HandlerError(w) ==
    /\ pc[w] = "handle"
    /\ Goto(w, "failed")
    /\ UNCHANGED <<kvars, exited, notify_unique, buf, op, ret, late, asked, nvars>>

\* A handler of FORGET or NOTIFY_REPLY drops the Request without replying.
NoReply(w) ==
    /\ pc[w] = "handle" /\ buf[w].kind \in {"forget", "notify_reply"}
    /\ Goto(w, "loop")
    /\ op' = [op EXCEPT ![w] = None]
    /\ UNCHANGED <<kvars, exited, notify_unique, buf, ret, late, asked, nvars>>

\* Mutant: ENOENT ends the session too.
HandleReplyError_Noent(w) ==
    /\ pc[w] = "replied"
    /\ exited' = (exited \/ ret[w] \in {"NODEV", "NOENT"})
    /\ Goto(w, IF ret[w] = "other" THEN "failed" ELSE "loop")
    /\ op' = [op EXCEPT ![w] = None]
    /\ Return(w, "ok")
    /\ UNCHANGED <<kvars, notify_unique, buf, late, asked, nvars>>

\* Mutant: a reply that got ENOENT is sent again.
HandleReplyError_Resend(w) ==
    /\ pc[w] = "replied"
    /\ exited' = (exited \/ ret[w] = "NODEV")
    /\ Goto(w, CASE ret[w] = "other" -> "failed"
                 [] ret[w] = "NOENT" -> "handle"
                 [] OTHER -> "loop")
    /\ UNCHANGED <<kvars, notify_unique, buf, op, ret, late, asked, nvars>>

\* handle_reply_error: ENODEV ends the session and is ignored like ENOENT;
\* any other error ends the worker's loop.
HandleReplyError(w) ==
    /\ pc[w] = "replied"
    /\ exited' = (exited \/ ret[w] = "NODEV")
    /\ Goto(w, IF ret[w] = "other" THEN "failed" ELSE "loop")
    /\ op' = [op EXCEPT ![w] = None]
    /\ Return(w, "ok")
    /\ UNCHANGED <<kvars, notify_unique, buf, late, asked, nvars>>

\* Any thread that shares the session may call exit.
Exit ==
    /\ exited' = TRUE
    /\ asked' = TRUE
    /\ UNCHANGED <<kvars, notify_unique, pc, buf, op, ret, late, nvars>>

----------------------------------------------------------------------------
(* Notifier                                                                *)

\* Mutant: the id is what the counter is after the addition.
Retrieve_After(n) ==
    /\ npc[n] = "idle"
    /\ notify_unique \in NotifyIds
    /\ nid' = [nid EXCEPT ![n] = notify_unique + 1]
    /\ issued' = [issued EXCEPT ![notify_unique] = @ + 1]
    /\ notify_unique' = notify_unique + 1
    /\ npc' = [npc EXCEPT ![n] = "send"]
    /\ UNCHANGED <<kvars, exited, pc, buf, op, ret, nret, late, asked>>

\* retrieve fetches its id before it sends anything.
Retrieve(n) ==
    /\ npc[n] = "idle"
    /\ notify_unique \in NotifyIds
    /\ nid' = [nid EXCEPT ![n] = notify_unique]
    /\ issued' = [issued EXCEPT ![notify_unique] = @ + 1]
    /\ notify_unique' = notify_unique + 1
    /\ npc' = [npc EXCEPT ![n] = "send"]
    /\ UNCHANGED <<kvars, exited, pc, buf, op, ret, nret, late, asked>>

\* inval_inode, inval_entry, delete, store and poll_wakeup need no id.
Notify(n) ==
    /\ npc[n] = "idle"
    /\ nid' = [nid EXCEPT ![n] = None]
    /\ npc' = [npc EXCEPT ![n] = "send"]
    /\ UNCHANGED <<kvars, exited, notify_unique, pc, buf, op, ret, nret, late, asked, issued>>

\* Notifier::send writes the notification.  The kernel answers ENOENT when it
\* does not know the inode or the name.
Send(n) ==
    /\ npc[n] = "send"
    /\ \E e \in IF connected THEN Returns \ {"NODEV"} ELSE Returns \ {"ok"} :
          /\ nret' = [nret EXCEPT ![n] = e]
          /\ IF e = "ok" /\ nid[n] # None THEN KRetrieve(nid[n]) ELSE UNCHANGED kvars
    /\ npc' = [npc EXCEPT ![n] = "sent"]
    /\ UNCHANGED <<exited, notify_unique, pc, buf, op, ret, nid, late, asked, issued>>

\* Mutant: ENOENT ends the session too.
SendReturn_Noent(n) ==
    /\ npc[n] = "sent"
    /\ exited' = (exited \/ nret[n] \in {"NODEV", "NOENT"})
    /\ npc' = [npc EXCEPT ![n] = "idle"]
    /\ nid' = [nid EXCEPT ![n] = None]
    /\ nret' = [nret EXCEPT ![n] = "ok"]
    /\ UNCHANGED <<kvars, notify_unique, pc, buf, op, ret, late, asked, issued>>

\* Mutant: a retrieve that fails gives its id back.
SendReturn_GiveBack(n) ==
    /\ npc[n] = "sent"
    /\ exited' = (exited \/ nret[n] = "NODEV")
    /\ notify_unique' = IF nret[n] = "other" /\ nid[n] # None
                        THEN notify_unique - 1 ELSE notify_unique
    /\ npc' = [npc EXCEPT ![n] = "idle"]
    /\ nid' = [nid EXCEPT ![n] = None]
    /\ nret' = [nret EXCEPT ![n] = "ok"]
    /\ UNCHANGED <<kvars, pc, buf, op, ret, late, asked, issued>>

\* handle_reply_error again; retrieve then returns Ok(id) even when the kernel
\* never saw the notification.
SendReturn(n) ==
    /\ npc[n] = "sent"
    /\ exited' = (exited \/ nret[n] = "NODEV")
    /\ npc' = [npc EXCEPT ![n] = "idle"]
    /\ nid' = [nid EXCEPT ![n] = None]
    /\ nret' = [nret EXCEPT ![n] = "ok"]
    /\ UNCHANGED <<kvars, notify_unique, pc, buf, op, ret, late, asked, issued>>

----------------------------------------------------------------------------

Env == KEnv /\ UNCHANGED svars

\* What a scheduled worker does unless something fails.
Step(w) ==
    \/ RecvRequest(w)
    \/ \E m \in Messages : TryReceive(w, m)
    \/ TryReceiveError(w, "NODEV")
    \/ RecvReturn(w)
    \/ Decode(w)
    \/ Reply(w)
    \/ NoReply(w)
    \/ HandleReplyError(w)

Failure(w) == TryReceiveError(w, "other") \/ HandlerError(w)

Notification(n) == Retrieve(n) \/ Notify(n) \/ Send(n) \/ SendReturn(n)

Next ==
    \/ Env
    \/ \E w \in Workers : Step(w) \/ Failure(w)
    \/ \E n \in Notifiers : Notification(n)
    \/ Exit

Spec == Init /\ [][Next]_vars

\* Threads are scheduled and handlers return; the kernel never has to act.
FairSpec == Spec /\ \A w \in Workers : WF_vars(Step(w))

----------------------------------------------------------------------------
(* Properties                                                              *)

\* A system call only ever gets the answer computed for it: whatever the other
\* workers read and reply to in the meantime, reply_raw sends the answer with the
\* unique id of the request that its own buffer holds.
AnsweredByOwnHandler == \A r \in Requests : result[r] \in {None, r}

Holds(w, r) == buf[w].kind \in TwoWay /\ buf[w].id = r /\ conn[w] = kdev[r]

\* No request is lost: one the kernel has handed out and still waits for is in
\* the buffer of a worker that has yet to reply on the right device, or of one that
\* left its loop: with an error, or on the FUSE_DESTROY that recv_request never
\* replies to.  Above all, an exit by another thread drops no request.
NoRequestLost ==
    \A r \in Requests : kstat[r] = "sent" =>
        \E w \in Workers :
            /\ Holds(w, r)
            /\ \/ pc[w] \in {"received", "decode", "handle"}
               \/ pc[w] = "failed"
               \/ pc[w] = "stopped" /\ kop[r] = "destroy"

\* The session ends for three reasons only: the connection is gone, a
\* FUSE_DESTROY was read, or someone called exit.  A late, misdirected or
\* unexpected reply and a notification for an unknown inode end nothing.
ExitHasCause ==
    exited => \/ ~connected
              \/ asked
              \/ \E r \in Requests : kop[r] = "destroy" /\ kdev[r] # None

\* After the session has exited a worker takes at most the one message its
\* read was already waiting for: recv_request looks at exited before every read.
AtMostOneLateRead == \A w \in Workers : late[w] <= 1

\* Two retrieve calls never share a notify_unique, so a NOTIFY_REPLY names
\* the one call it answers.
NotifyIdsDistinct ==
    /\ \A i \in NotifyIds : issued[i] <= 1
    /\ \A i \in nreplies : issued[i] = 1

\* Once the connection is gone every worker leaves its loop.
WorkersStop == ~connected ~> \A w \in Workers : pc[w] \in Ended

\* Every request is served.  A pending one is picked up, unless every worker has left
\* its loop; an operation that was handed out is answered, or its worker failed on it.
Served ==
    \A r \in Requests :
        /\ kstat[r] = "pending" ~>
              kstat[r] # "pending" \/ \A w \in Workers : pc[w] \in Ended
        /\ kstat[r] = "sent" /\ kop[r] = "op" ~>
              \/ kstat[r] \in {"done", "aborted"}
              \/ \E w \in Workers : pc[w] = "failed" /\ Holds(w, r)

============================================================================
