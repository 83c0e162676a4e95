--------------------------- MODULE SessionProofs ---------------------------
(***************************************************************************)
(* The safety invariants of Session, for every set of workers, notifiers,  *)
(* requests, devices and ids, from one inductive invariant.                *)
(***************************************************************************)
EXTENDS Session, TLAPS

\* A header in a buffer describes a request the kernel has issued, of the
\* kind the header says, filed in some device's queue if it awaits a reply.
BuffersTrue ==
    \A w \in Workers :
        /\ pc[w] \in {"decode", "handle", "replied"} => buf[w] \in Messages
        /\ pc[w] = "received" => ret[w] # "NOENT"
        /\ pc[w] = "received" /\ ret[w] = "ok" => buf[w] \in Messages
        /\ buf[w].kind \in Ops => /\ kop[buf[w].id] = buf[w].kind
                                  /\ kstat[buf[w].id] # "idle"
        /\ buf[w].kind \in TwoWay => kdev[buf[w].id] # None
        /\ pc[w] = "handle" => op[w] = buf[w].id

\* Where the one reply a request is waiting for can still come from.  Unlike
\* NoRequestLost this excludes a worker whose read failed and whose buffer
\* shows an older request.
Held ==
    \A r \in Requests : kstat[r] = "sent" =>
        \E w \in Workers :
            /\ Holds(w, r)
            /\ \/ pc[w] = "received" /\ ret[w] = "ok"
               \/ pc[w] \in {"decode", "handle", "failed"}
               \/ pc[w] = "stopped" /\ kop[r] = "destroy"

\* A connection that is gone holds no unfinished request, and a request
\* that was not issued is in nobody's queue.
KernelInv ==
    /\ ~connected => \A r \in Requests : kstat[r] \notin {"pending", "sent"}
    /\ \A r \in Requests : kstat[r] = "idle" => kdev[r] = None

\* ENODEV is only ever seen on a connection that is gone.
NodevIsTrue ==
    /\ \A w \in Workers : ret[w] = "NODEV" => ~connected
    /\ \A n \in Notifiers : nret[n] = "NODEV" => ~connected

\* A late read is the last one: the worker has passed its only read.
LateInv == \A w \in Workers :
    late[w] = 0 \/ (late[w] = 1 /\ exited /\ pc[w] # "read")

\* The counter is above every id in use.
IdsInv ==
    /\ \A i \in NotifyIds : issued[i] <= 1
    /\ \A i \in NotifyIds : i >= notify_unique => issued[i] = 0
    /\ \A n \in Notifiers : nid[n] # None => issued[nid[n]] = 1
    /\ \A i \in nreplies : issued[i] = 1

IInv ==
    /\ TypeOK
    /\ BuffersTrue
    /\ Held
    /\ KernelInv
    /\ NodevIsTrue
    /\ LateInv
    /\ IdsInv
    /\ AnsweredByOwnHandler
    /\ ExitHasCause

----------------------------------------------------------------------------

\* What the parts of a message are.
LEMMA MessageFacts ==
    ASSUME NEW m \in Messages
    PROVE  /\ m.kind \in Ops \cup {"interrupt", "notify_reply"}
           /\ m.kind \in Ops \cup {"interrupt"} => m.id \in Requests
           /\ m.kind = "notify_reply" => m.id \in NotifyIds
           /\ m.id \in Requests \cup NotifyIds
           /\ m # NoMessage
  BY DEF Messages, NoMessage, Ops, TwoWay

\* The conjuncts about the workers and the kernel's queues survive a step that
\* touches neither.
LEMMA Frame ==
    ASSUME BuffersTrue, Held, KernelInv, AnsweredByOwnHandler,
           UNCHANGED <<connected, kstat, kop, kdev, result>>, UNCHANGED <<pc, buf, op, ret>>
    PROVE  BuffersTrue' /\ Held' /\ KernelInv' /\ AnsweredByOwnHandler'
  <1>1. BuffersTrue'
    BY DEF BuffersTrue
  <1>2. Held'
    BY DEF Held, Holds
  <1>3. KernelInv' /\ AnsweredByOwnHandler'
    BY DEF KernelInv, AnsweredByOwnHandler
  <1> QED
    BY <1>1, <1>2, <1>3

\* The invariant holds at the start.
LEMMA InitInv == Init => IInv
  <1> SUFFICES ASSUME Init PROVE IInv
    OBVIOUS
  <1> USE DevAssumption, ConnAssumption DEF Init, KInit
  <1>1. TypeOK
    BY Zenon DEF TypeOK, PCs, Returns, Ops, TwoWay
  <1>2. BuffersTrue /\ Held /\ KernelInv /\ NodevIsTrue
    BY DEF BuffersTrue, Held, KernelInv, NodevIsTrue, NoMessage, Ops, TwoWay
  <1>3. LateInv /\ IdsInv /\ AnsweredByOwnHandler /\ ExitHasCause
    BY DEF LateInv, IdsInv, AnsweredByOwnHandler, ExitHasCause
  <1> QED
    BY <1>1, <1>2, <1>3 DEF IInv

\* A worker starts to read.
LEMMA RecvRequestInv == ASSUME IInv, NEW w \in Workers, RecvRequest(w) PROVE IInv'
  <1> USE DevAssumption, ConnAssumption DEF IInv, RecvRequest, Goto, kvars, nvars
  <1>1. TypeOK'
    BY DEF TypeOK, PCs
  <1>2. BuffersTrue' /\ LateInv'
    BY DEF BuffersTrue, LateInv, TypeOK, PCs
  <1>3. Held'
    BY DEF Held, Holds, TypeOK, PCs
  <1>4. KernelInv' /\ NodevIsTrue' /\ IdsInv' /\ AnsweredByOwnHandler' /\ ExitHasCause'
    BY DEF KernelInv, NodevIsTrue, IdsInv, AnsweredByOwnHandler, ExitHasCause
  <1> QED
    BY <1>1, <1>2, <1>3, <1>4

\* A worker reads a request.
LEMMA TryReceiveInv ==
    ASSUME IInv, NEW w \in Workers, NEW m \in Messages, TryReceive(w, m)
    PROVE  IInv'
  <1> USE DevAssumption, ConnAssumption
      DEF IInv, TryReceive, KRead, Goto, Return, nvars
  <1>m. /\ m.kind \in Ops \cup {"interrupt"} => m.id \in Requests
        /\ conn[w] \in Devices
    BY MessageFacts, Zenon DEF TypeOK, Ops, TwoWay
  <1>1. TypeOK'
    <2>1. kstat' \in [Requests -> {"idle", "pending", "sent", "done", "aborted"}]
      BY <1>m DEF TypeOK
    <2>2. /\ kdev' \in [Requests -> Devices \cup {None}]
          /\ intr' \in [Requests -> {"none", "queued", "read"}]
          /\ nreplies' \in SUBSET NotifyIds
      BY <1>m DEF TypeOK
    <2>3. /\ buf' \in [Workers -> Messages \cup {NoMessage}]
          /\ late' \in [Workers -> Nat]
          /\ pc' \in [Workers -> PCs]
          /\ ret' \in [Workers -> Returns]
      BY DEF TypeOK, PCs, Returns
    <2> QED
      BY <2>1, <2>2, <2>3 DEF TypeOK
  <1>2. BuffersTrue'
    <2>1. ASSUME NEW r \in Requests
          PROVE  /\ kstat[r] # "idle" => kstat'[r] # "idle"
                 /\ kdev[r] # None => kdev'[r] # None
                 /\ kop'[r] = kop[r]
      BY <1>m DEF TypeOK
    <2>2. m.kind \in Ops => /\ kop'[m.id] = m.kind
                            /\ kstat'[m.id] # "idle"
                            /\ m.kind \in TwoWay => kdev'[m.id] # None
      BY <1>m DEF TypeOK, Ops, TwoWay
    <2>3. ASSUME NEW v \in Workers, v # w
          PROVE  /\ buf'[v] = buf[v] /\ pc'[v] = pc[v] /\ ret'[v] = ret[v] /\ op'[v] = op[v]
                 /\ buf[v].kind \in Ops => buf[v].id \in Requests
      BY <2>3, MessageFacts DEF TypeOK, NoMessage, Ops, TwoWay
    <2>4. buf'[w] = m /\ pc'[w] = "received" /\ ret'[w] = "ok"
      BY ZenonT(60) DEF TypeOK
    <2> QED
      BY <2>1, <2>2, <2>3, <2>4 DEF BuffersTrue, TwoWay, Ops
  <1>3. Held'
    BY <1>m DEF Held, Holds, TypeOK, PCs, Ops, TwoWay
  <1>4. KernelInv' /\ NodevIsTrue'
    BY <1>m DEF KernelInv, NodevIsTrue, TypeOK
  <1>5. LateInv'
    BY DEF LateInv, TypeOK
  <1>6. IdsInv' /\ AnsweredByOwnHandler'
    BY Zenon DEF IdsInv, AnsweredByOwnHandler, TypeOK
  <1>7. ExitHasCause'
    BY <1>m DEF ExitHasCause, TypeOK
  <1> QED
    BY <1>1, <1>2, <1>3, <1>4, <1>5, <1>6, <1>7

\* A read fails.
LEMMA TryReceiveErrorInv ==
    ASSUME IInv, NEW w \in Workers, NEW e \in {"NODEV", "other"}, TryReceiveError(w, e)
    PROVE  IInv'
  <1> USE DEF IInv, TryReceiveError, Goto, Return, kvars, nvars
  <1>1. TypeOK'
    BY Zenon DEF TypeOK, PCs, Returns
  <1>2. BuffersTrue' /\ NodevIsTrue' /\ LateInv'
    BY DEF BuffersTrue, NodevIsTrue, LateInv, TypeOK
  <1>3. Held'
    BY DEF Held, Holds, TypeOK
  <1>4. KernelInv' /\ IdsInv' /\ AnsweredByOwnHandler' /\ ExitHasCause'
    BY DEF KernelInv, IdsInv, AnsweredByOwnHandler, ExitHasCause
  <1> QED
    BY <1>1, <1>2, <1>3, <1>4

\* recv_request returns.
LEMMA RecvReturnInv == ASSUME IInv, NEW w \in Workers, RecvReturn(w) PROVE IInv'
  <1> USE DEF IInv, RecvReturn, Goto, kvars, nvars
  <1>m. buf[w].kind \in Ops /\ ret[w] = "ok" => buf[w].id \in Requests
    BY MessageFacts DEF BuffersTrue
  <1>1. TypeOK'
    BY Zenon DEF TypeOK, PCs
  <1>2. BuffersTrue'
    BY ZenonT(60) DEF BuffersTrue, TypeOK, Returns
  <1>3. Held'
    BY DEF Held, Holds, BuffersTrue, TypeOK, Ops
  <1>4. ExitHasCause'
    BY <1>m DEF ExitHasCause, NodevIsTrue, BuffersTrue, TypeOK, Ops, TwoWay
  <1>5. LateInv'
    BY Zenon DEF LateInv, TypeOK
  <1>6. KernelInv' /\ NodevIsTrue' /\ IdsInv' /\ AnsweredByOwnHandler'
    BY DEF KernelInv, NodevIsTrue, IdsInv, AnsweredByOwnHandler
  <1> QED
    BY <1>1, <1>2, <1>3, <1>4, <1>5, <1>6, Zenon

\* A request is decoded.
LEMMA DecodeInv == ASSUME IInv, NEW w \in Workers, Decode(w) PROVE IInv'
  <1> USE DEF IInv, Decode, Goto, kvars, nvars
  <1>m. buf[w] \in Messages
    BY Zenon DEF BuffersTrue
  <1>1. TypeOK'
    BY <1>m, MessageFacts, Zenon DEF TypeOK, PCs
  <1>2. BuffersTrue'
    BY <1>m, Zenon DEF BuffersTrue, TypeOK
  <1>3. Held'
    BY Zenon DEF Held, Holds, TypeOK
  <1>4. LateInv' /\ NodevIsTrue' /\ IdsInv'
    BY Zenon DEF LateInv, NodevIsTrue, IdsInv, TypeOK
  <1>5. KernelInv' /\ AnsweredByOwnHandler' /\ ExitHasCause'
    BY Zenon DEF KernelInv, AnsweredByOwnHandler, ExitHasCause
  <1> QED
    BY <1>1, <1>2, <1>3, <1>4, <1>5

\* A handler replies.
LEMMA ReplyInv == ASSUME IInv, NEW w \in Workers, Reply(w) PROVE IInv'
  <1> USE DevAssumption, ConnAssumption DEF IInv, Reply, Goto, Return, nvars
  <1>m. /\ buf[w] \in Messages
        /\ buf[w].kind \in TwoWay \cup {"interrupt"} => buf[w].id \in Requests
        /\ op[w] = buf[w].id
    BY MessageFacts, Zenon DEF BuffersTrue, Ops
  <1>1. CASE KReply(conn[w], buf[w], op[w]) /\ ret' = [ret EXCEPT ![w] = "ok"]
    <2> USE <1>1, <1>m DEF KReply, Finds
    <2>a. /\ kstat' = kstat \/ kstat' = [kstat EXCEPT ![buf[w].id] = "done"]
          /\ result' = result \/ result' = [result EXCEPT ![buf[w].id] = buf[w].id]
          /\ intr' = intr \/ intr' = [intr EXCEPT ![buf[w].id] = "none"]
          /\ buf[w].id \in Requests
      BY Zenon
    <2>1. TypeOK'
      <3>1. /\ kstat' \in [Requests -> {"idle", "pending", "sent", "done", "aborted"}]
            /\ intr' \in [Requests -> {"none", "queued", "read"}]
            /\ result' \in [Requests -> Requests \cup {None}]
        BY <2>a, SMTT(30) DEF TypeOK
      <3>2. nointr' \in BOOLEAN /\ pc' \in [Workers -> PCs] /\ ret' \in [Workers -> Returns]
        BY Zenon DEF TypeOK, PCs, Returns
      <3> QED
        BY <3>1, <3>2, Zenon DEF TypeOK
    <2>2. BuffersTrue'
      <3>1. \A r \in Requests : kstat[r] # "idle" => kstat'[r] # "idle"
        BY <2>a, ZenonT(60) DEF TypeOK
      <3>2. \A v \in Workers : buf[v].kind \in Ops => buf[v].id \in Requests
        BY MessageFacts, SMTT(30) DEF TypeOK, NoMessage, Ops, TwoWay
      <3> QED
        BY <3>1, <3>2 DEF BuffersTrue, TypeOK, Ops
    <2>3. Held'
      <3>1. ASSUME NEW r \in Requests, kstat'[r] = "sent"
            PROVE  kstat[r] = "sent" /\ (buf[w].kind = "interrupt" \/ r # buf[w].id)
        BY <3>1, ZenonT(60) DEF TypeOK
      <3>2. buf[w].kind = "interrupt" => ~ \E r \in Requests : Holds(w, r)
        BY Zenon DEF Holds, TwoWay
      <3> QED
        BY <3>1, <3>2, SMTT(30) DEF Held, Holds, TypeOK
    <2>4. AnsweredByOwnHandler'
      BY SMTT(30) DEF AnsweredByOwnHandler, TypeOK
    <2>5. KernelInv' /\ NodevIsTrue' /\ LateInv'
      BY SMTT(30) DEF KernelInv, NodevIsTrue, LateInv, TypeOK
    <2>6. IdsInv' /\ ExitHasCause'
      BY Zenon DEF IdsInv, ExitHasCause
    <2> QED
      BY <2>1, <2>2, <2>3, <2>4, <2>5, <2>6, Zenon
  <1>2. CASE KReject(conn[w], buf[w]) /\ ret' = [ret EXCEPT ![w] = "other"]
    <2> USE <1>2, <1>m DEF KReject, Finds
    <2>1. TypeOK'
      BY Zenon DEF TypeOK, PCs, Returns
    <2>2. BuffersTrue'
      BY SMTT(30) DEF BuffersTrue, TypeOK
    <2>3. Held'
      BY SMTT(30) DEF Held, Holds, TypeOK, TwoWay
    <2>4. KernelInv' /\ NodevIsTrue' /\ LateInv'
      BY Zenon DEF KernelInv, NodevIsTrue, LateInv, TypeOK
    <2>5. IdsInv' /\ ExitHasCause' /\ AnsweredByOwnHandler'
      BY Zenon DEF IdsInv, ExitHasCause, AnsweredByOwnHandler
    <2> QED
      BY <2>1, <2>2, <2>3, <2>4, <2>5, Zenon
  <1>3. ASSUME ~Finds(conn[w], buf[w]), UNCHANGED kvars,
               NEW e \in {"NOENT"} \cup (IF connected THEN {} ELSE {"NODEV"}),
               ret' = [ret EXCEPT ![w] = e]
        PROVE  IInv'
    <2> USE <1>3, <1>m DEF kvars
    <2>1. TypeOK'
      BY Zenon DEF TypeOK, PCs, Returns
    <2>2. BuffersTrue'
      BY Zenon DEF BuffersTrue, TypeOK
    <2>3. Held'
      BY SMTT(30) DEF Held, Holds, Finds, KernelInv, TypeOK
    <2>4. NodevIsTrue' /\ LateInv'
      BY SMTT(30) DEF NodevIsTrue, LateInv, TypeOK
    <2>5. KernelInv' /\ IdsInv' /\ ExitHasCause' /\ AnsweredByOwnHandler'
      BY Zenon DEF KernelInv, IdsInv, ExitHasCause, AnsweredByOwnHandler
    <2> QED
      BY <2>1, <2>2, <2>3, <2>4, <2>5, Zenon
  <1> QED
    BY <1>1, <1>2, <1>3, Zenon

\* A handler fails.
LEMMA HandlerErrorInv == ASSUME IInv, NEW w \in Workers, HandlerError(w) PROVE IInv'
  <1> USE DEF IInv, HandlerError, Goto, kvars, nvars
  <1>1. TypeOK' /\ BuffersTrue' /\ LateInv'
    BY Zenon DEF TypeOK, PCs, BuffersTrue, LateInv
  <1>2. Held'
    BY Zenon DEF Held, Holds, TypeOK
  <1>3. KernelInv' /\ NodevIsTrue' /\ IdsInv' /\ AnsweredByOwnHandler' /\ ExitHasCause'
    BY Zenon DEF KernelInv, NodevIsTrue, IdsInv, AnsweredByOwnHandler, ExitHasCause
  <1> QED
    BY <1>1, <1>2, <1>3, Zenon

\* A handler does not reply.
LEMMA NoReplyInv == ASSUME IInv, NEW w \in Workers, NoReply(w) PROVE IInv'
  <1> USE DEF IInv, NoReply, Goto, kvars, nvars
  <1>1. TypeOK' /\ BuffersTrue' /\ LateInv'
    BY ZenonT(60) DEF TypeOK, PCs, BuffersTrue, LateInv
  <1>2. Held'
    BY SMTT(30) DEF Held, Holds, TypeOK, TwoWay
  <1>3. KernelInv' /\ NodevIsTrue' /\ IdsInv' /\ AnsweredByOwnHandler' /\ ExitHasCause'
    BY Zenon DEF KernelInv, NodevIsTrue, IdsInv, AnsweredByOwnHandler, ExitHasCause
  <1> QED
    BY <1>1, <1>2, <1>3, Zenon

\* The error of a reply is looked at.
LEMMA HandleReplyErrorInv ==
    ASSUME IInv, NEW w \in Workers, HandleReplyError(w)
    PROVE  IInv'
  <1> USE DEF IInv, HandleReplyError, Goto, Return, kvars, nvars
  <1>1. TypeOK' /\ BuffersTrue' /\ LateInv'
    BY SMTT(30) DEF TypeOK, PCs, Returns, BuffersTrue, LateInv
  <1>2. Held'
    BY Zenon DEF Held, Holds, TypeOK
  <1>3. NodevIsTrue' /\ ExitHasCause'
    BY Zenon DEF NodevIsTrue, ExitHasCause, TypeOK
  <1>4. KernelInv' /\ IdsInv' /\ AnsweredByOwnHandler'
    BY Zenon DEF KernelInv, IdsInv, AnsweredByOwnHandler
  <1> QED
    BY <1>1, <1>2, <1>3, <1>4, Zenon

\* The session exits.
LEMMA ExitInv == ASSUME IInv, Exit PROVE IInv'
  <1> USE DEF IInv, Exit, kvars, nvars
  <1>1. TypeOK'
    BY DEF TypeOK
  <1>2. BuffersTrue' /\ Held' /\ KernelInv' /\ AnsweredByOwnHandler'
    BY Frame, Zenon
  <1>3. LateInv' /\ ExitHasCause'
    BY Zenon DEF LateInv, ExitHasCause
  <1>4. NodevIsTrue' /\ IdsInv'
    BY Zenon DEF NodevIsTrue, IdsInv
  <1> QED
    BY <1>1, <1>2, <1>3, <1>4, Zenon

\* A notification is sent.
LEMMA NotificationInv ==
    ASSUME IInv, NEW n \in Notifiers, Notification(n)
    PROVE  IInv'
  <1> USE DevAssumption DEF IInv
  <1>1. CASE Retrieve(n)
    <2> USE <1>1 DEF Retrieve, kvars
    <2>1. TypeOK'
      BY DEF TypeOK
    <2>2. IdsInv'
      BY DEF IdsInv, TypeOK
    <2>3. BuffersTrue' /\ Held' /\ KernelInv' /\ AnsweredByOwnHandler'
      BY Frame, Zenon
    <2>4. LateInv' /\ NodevIsTrue' /\ ExitHasCause'
      BY Zenon DEF LateInv, NodevIsTrue, ExitHasCause
    <2> QED
      BY <2>1, <2>2, <2>3, <2>4, Zenon
  <1>2. CASE Notify(n)
    <2> USE <1>2 DEF Notify, kvars
    <2>1. TypeOK'
      BY Zenon DEF TypeOK
    <2>2. IdsInv'
      BY Zenon DEF IdsInv, TypeOK
    <2>3. BuffersTrue' /\ Held' /\ KernelInv' /\ AnsweredByOwnHandler'
      BY Frame, Zenon
    <2>4. LateInv' /\ NodevIsTrue' /\ ExitHasCause'
      BY Zenon DEF LateInv, NodevIsTrue, ExitHasCause
    <2> QED
      BY <2>1, <2>2, <2>3, <2>4, Zenon
  <1>3. CASE Send(n)
    <2>1. PICK e \in IF connected THEN Returns \ {"NODEV"} ELSE Returns \ {"ok"} :
             /\ nret' = [nret EXCEPT ![n] = e]
             /\ IF e = "ok" /\ nid[n] # None THEN KRetrieve(nid[n]) ELSE UNCHANGED kvars
      BY <1>3, Zenon DEF Send
    <2>2. /\ UNCHANGED <<connected, kstat, kop, kdev, result, intr, nointr>>
          /\ UNCHANGED <<exited, notify_unique, pc, buf, op, ret, nid, late, asked, issued>>
          /\ npc' = [npc EXCEPT ![n] = "sent"]
      BY <1>3, <2>1, Zenon DEF Send, KRetrieve, kvars
    <2>3. nreplies' = nreplies \/ (nid[n] # None /\ nreplies' = nreplies \cup {nid[n]})
      BY <2>1 DEF KRetrieve, kvars
    <2>4. TypeOK'
      BY <2>1, <2>2, <2>3, Zenon DEF TypeOK, Returns
    <2>5. IdsInv'
      BY <2>2, <2>3, Zenon DEF IdsInv, TypeOK
    <2>6. NodevIsTrue'
      BY <2>1, <2>2, Zenon DEF NodevIsTrue, TypeOK
    <2>7. BuffersTrue' /\ Held' /\ KernelInv' /\ AnsweredByOwnHandler'
      BY <2>2, Frame, Zenon
    <2>8. LateInv' /\ ExitHasCause'
      BY <2>2, Zenon DEF LateInv, ExitHasCause
    <2> QED
      BY <2>4, <2>5, <2>6, <2>7, <2>8
  <1>4. CASE SendReturn(n)
    <2> USE <1>4 DEF SendReturn, kvars
    <2>1. TypeOK'
      BY Zenon DEF TypeOK, Returns
    <2>2. IdsInv' /\ NodevIsTrue' /\ ExitHasCause'
      BY Zenon DEF IdsInv, NodevIsTrue, ExitHasCause, TypeOK
    <2>3. BuffersTrue' /\ Held' /\ KernelInv' /\ AnsweredByOwnHandler'
      BY Frame, Zenon
    <2>4. LateInv'
      BY Zenon DEF LateInv, TypeOK
    <2> QED
      BY <2>1, <2>2, <2>3, <2>4, Zenon
  <1> QED
    BY <1>1, <1>2, <1>3, <1>4, Zenon DEF Notification

\* A step of the kernel or of the user.
LEMMA EnvInv == ASSUME IInv, Env PROVE IInv'
  <1> USE DEF IInv, Env, svars, nvars
  <1>b. \A w \in Workers : buf[w].kind \in Ops => buf[w].id \in Requests
    BY MessageFacts DEF TypeOK, NoMessage, Ops, TwoWay
  <1>1. ASSUME NEW r \in Requests, NEW k \in Ops, Submit(r, k) PROVE IInv'
    <2> USE <1>1 DEF Submit
    <2>1. TypeOK'
      BY Zenon DEF TypeOK
    <2>2. BuffersTrue'
      BY <1>b, SMTT(30) DEF BuffersTrue, TypeOK, Ops
    <2>3. Held' /\ KernelInv'
      BY SMTT(30) DEF Held, Holds, KernelInv, TypeOK
    <2>4. LateInv' /\ NodevIsTrue' /\ IdsInv' /\ AnsweredByOwnHandler'
      BY ZenonT(60) DEF LateInv, NodevIsTrue, IdsInv, AnsweredByOwnHandler
    <2>5. ExitHasCause'
      BY Zenon DEF ExitHasCause, KernelInv, TypeOK
    <2> QED
      BY <2>1, <2>2, <2>3, <2>4, <2>5, Zenon
  <1>2. ASSUME NEW r \in Requests, Interrupt(r) PROVE IInv'
    <2> USE <1>2 DEF Interrupt
    <2>1. TypeOK'
      BY Zenon DEF TypeOK
    <2>2. BuffersTrue' /\ Held' /\ KernelInv' /\ AnsweredByOwnHandler'
      BY Frame, Zenon
    <2>3. LateInv' /\ ExitHasCause'
      BY Zenon DEF LateInv, ExitHasCause
    <2>4. NodevIsTrue' /\ IdsInv'
      BY Zenon DEF NodevIsTrue, IdsInv
    <2> QED
      BY <2>1, <2>2, <2>3, <2>4, Zenon
  <1>3. CASE Disconnect
    <2> USE <1>3 DEF Disconnect
    <2>1. TypeOK'
      BY ZenonT(60) DEF TypeOK
    <2>2. BuffersTrue'
      BY <1>b DEF BuffersTrue, TypeOK, Ops
    <2>3. Held' /\ KernelInv'
      BY Zenon DEF Held, KernelInv
    <2>4. LateInv' /\ NodevIsTrue' /\ IdsInv' /\ AnsweredByOwnHandler' /\ ExitHasCause'
      BY DEF LateInv, NodevIsTrue, IdsInv, AnsweredByOwnHandler, ExitHasCause
    <2> QED
      BY <2>1, <2>2, <2>3, <2>4, SMTT(30)
  <1> QED
    BY <1>1, <1>2, <1>3, Zenon DEF KEnv

\* Every step keeps the invariant.
LEMMA NextInv == IInv /\ [Next]_vars => IInv'
  <1> SUFFICES ASSUME IInv, [Next]_vars PROVE IInv'
    OBVIOUS
  <1>1. CASE Env
    BY <1>1, EnvInv, Zenon
  <1>2. ASSUME NEW w \in Workers, Step(w) PROVE IInv'
    BY <1>2, RecvRequestInv, TryReceiveInv, TryReceiveErrorInv, RecvReturnInv, DecodeInv,
       ReplyInv, NoReplyInv, HandleReplyErrorInv, Zenon DEF Step
  <1>3. ASSUME NEW w \in Workers, Failure(w) PROVE IInv'
    BY <1>3, TryReceiveErrorInv, HandlerErrorInv DEF Failure
  <1>4. ASSUME NEW n \in Notifiers, Notification(n) PROVE IInv'
    BY <1>4, NotificationInv, Zenon
  <1>5. CASE Exit
    BY <1>5, ExitInv
  <1>6. CASE UNCHANGED vars
    <2> USE <1>6 DEF vars, kvars, svars, nvars, IInv
    <2>1. TypeOK'
      BY Zenon DEF TypeOK
    <2>2. BuffersTrue' /\ Held' /\ KernelInv' /\ AnsweredByOwnHandler'
      BY Frame, SMTT(30)
    <2>3. LateInv' /\ ExitHasCause'
      BY ZenonT(60) DEF LateInv, ExitHasCause
    <2>4. NodevIsTrue' /\ IdsInv'
      BY Zenon DEF NodevIsTrue, IdsInv
    <2> QED
      BY <2>1, <2>2, <2>3, <2>4, Zenon
  <1> QED
    BY <1>1, <1>2, <1>3, <1>4, <1>5, <1>6 DEF Next

\* The invariant holds of every behaviour of the session.
LEMMA Invariance == Spec => []IInv
  BY InitInv, NextInv, PTL DEF Spec

----------------------------------------------------------------------------

\* Every variable keeps its type.
THEOREM TypeCorrect == Spec => []TypeOK
  BY Invariance, PTL DEF IInv

\* However many workers share a session, a request the kernel waits for is
\* never lost between the read of recv_request and the reply.
THEOREM RequestsAreKept == Spec => []NoRequestLost
  <1>1. IInv => NoRequestLost
    BY SMTT(30) DEF IInv, Held, NoRequestLost, Holds
  <1> QED
    BY <1>1, Invariance, PTL

\* However many workers share a session, a system call gets its own answer.
THEOREM AnswersAreOwn == Spec => []AnsweredByOwnHandler
  BY Invariance, PTL DEF IInv

\* The session ends only on a lost connection, a FUSE_DESTROY or a call of exit.
THEOREM ExitIsJustified == Spec => []ExitHasCause
  BY Invariance, PTL DEF IInv

\* A worker reads at most one message after the session has exited.
THEOREM LateReadsBounded == Spec => []AtMostOneLateRead
  <1>1. IInv => AtMostOneLateRead
    BY SMTT(30) DEF IInv, LateInv, AtMostOneLateRead
  <1> QED
    BY <1>1, Invariance, PTL

\* No two retrieve calls share an id.
THEOREM RetrieveIdsAreUnique == Spec => []NotifyIdsDistinct
  <1>1. IInv => NotifyIdsDistinct
    BY Zenon DEF IInv, IdsInv, NotifyIdsDistinct
  <1> QED
    BY <1>1, Invariance, PTL

============================================================================
