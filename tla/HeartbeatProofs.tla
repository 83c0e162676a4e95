--------------------------- MODULE HeartbeatProofs ---------------------------
(***************************************************************************)
(* What the notifications of heartbeat guarantee, for any number of beats. *)
(***************************************************************************)
EXTENDS Heartbeat, TLAPS

----------------------------------------------------------------------------
(* The inductive invariant                                                 *)

NotifyReplies == {NotifyReply(i) : i \in Ids}
HReqs == {Request(k) : k \in {"getattr", "open", "read"}} \cup NotifyReplies

AtHand(r) == cur = r /\ wpc \in {"lock", "handle"}

\* The receive loop and the kernel's queue.
HQueue ==
    /\ reqs \in Seq(HReqs)
    /\ wpc \in {"recv", "lock", "handle"} => main = "loop"
    /\ wpc = "recv" => cur = None
    /\ wpc \in {"lock", "handle"} => cur \in HReqs
    /\ wpc = "lock" => cur \notin NotifyReplies
    /\ ~up => reqs = <<>>

\* How far the beating thread is in its notification.
HBeat ==
    /\ kind # "store" => bpc \in {"sleep", "notify"} /\ nid = 0
    /\ kind = "none" => bpc = "sleep"
    /\ kind = "store" => nid = IF bpc \in {"sleep", "insert"} THEN ver ELSE ver - 1
    /\ kind = "store" /\ bpc # "sleep" => ver > 0
    /\ nid \in Nat

\* The page is the last content once the notification is made, and before that
\* not older than the content before.
HPage ==
    /\ up /\ bpc \in {"sleep", "retrieve", "insert"} /\ kind # "none" => page \in {None, ver}
    /\ up /\ page # None => page >= nid
    /\ up /\ bpc = "retrieve" => page # None \/ lost

\* The kernel's lock is that of a READ on the way, whose answer fills the page.
HLock ==
    /\ up /\ klock = "asked" => Queued(Request("read")) \/ AtHand(Request("read"))
    /\ up /\ klock = "answered" => page # None

\* A READ comes to the loop before the request at position j.
ReadBefore(j) ==
    \/ \E k \in 1 .. j - 1 : reqs[k] = Request("read")
    \/ AtHand(Request("read"))

\* A NOTIFY_REPLY on the way has the page, or will have it, or the page was lost.
HReplies ==
    \A j \in DOMAIN reqs : \A i \in Ids : reqs[j] = NotifyReply(i) =>
        /\ i < nid
        /\ \/ replies[i] = "page" /\ (page # None \/ ReadBefore(j))
           \/ replies[i] = "nopage" /\ lost

\* The one at hand has content that is not older than the beat's.
HData ==
    wpc = "handle" => \A i \in Ids : cur = NotifyReply(i) =>
        /\ i < nid
        /\ data = None => lost
        /\ data # None => data >= i + 1

\* An id is inserted after its retrieve, with the content of its beat.
HRetrieves ==
    /\ \A i \in Ids : retrieves[i] # None =>
          retrieves[i] = i + 1 /\ i < nid /\ (bpc = "insert" => i # nid - 1)
    /\ bpc = "insert" /\ up =>
          Pending(NotifyReply(nid - 1)) \/ nid - 1 \in ignored

HInv ==
    /\ TypeOK /\ HQueue /\ HBeat /\ HPage /\ HLock /\ HReplies /\ HData /\ HRetrieves
    /\ RetrievedIsFresh /\ LeftoverHasCause

----------------------------------------------------------------------------
(* Queues                                                                  *)

Has(s, x) == \E i \in DOMAIN s : s[i] = x

\* What is in a queue after an append.
LEMMA AppendHas ==
    ASSUME NEW S, NEW s \in Seq(S), NEW r \in S
    PROVE  /\ Append(s, r) \in Seq(S)
           /\ \A x : Has(Append(s, r), x) <=> Has(s, x) \/ x = r
<1> DEFINE t == Append(s, r)
<1>1. /\ t \in Seq(S) /\ Len(t) = Len(s) + 1 /\ Len(s) \in Nat
      /\ \A i \in 1 .. Len(s) : t[i] = s[i]
      /\ t[Len(s) + 1] = r
  OBVIOUS
<1>2. DOMAIN t = 1 .. Len(s) + 1 /\ DOMAIN s = 1 .. Len(s)
  BY <1>1
<1> HIDE DEF t
<1>3. ASSUME NEW x PROVE Has(t, x) <=> Has(s, x) \/ x = r
  <2>1. ASSUME NEW i \in DOMAIN s, s[i] = x PROVE Has(t, x)
    BY <1>1, <1>2, <2>1 DEF Has
  <2>2. x = r => Has(t, x)
    BY <1>1, <1>2 DEF Has
  <2>3. ASSUME NEW i \in DOMAIN t, t[i] = x PROVE Has(s, x) \/ x = r
    <3>1. i \in 1 .. Len(s) \/ i = Len(s) + 1
      BY <1>1, <1>2
    <3> QED BY <1>1, <1>2, <2>3, <3>1 DEF Has
  <2> QED BY <2>1, <2>2, <2>3 DEF Has
<1> QED BY <1>1, <1>3 DEF t

\* What is in a queue after its head is taken.
LEMMA TailHas ==
    ASSUME NEW S, NEW s \in Seq(S), s # <<>>
    PROVE  /\ Tail(s) \in Seq(S) /\ Head(s) \in S
           /\ \A x : Has(s, x) <=> Head(s) = x \/ Has(Tail(s), x)
<1> DEFINE t == Tail(s)
<1>1. /\ Len(s) \in Nat \ {0} /\ DOMAIN s = 1 .. Len(s) /\ Head(s) = s[1] /\ Head(s) \in S
      /\ t \in Seq(S) /\ Len(t) = Len(s) - 1 /\ \A i \in 1 .. Len(t) : t[i] = s[i + 1]
  OBVIOUS
<1>2. DOMAIN t = 1 .. Len(s) - 1
  BY <1>1
<1> HIDE DEF t
<1>3. ASSUME NEW x PROVE Has(s, x) <=> Head(s) = x \/ Has(t, x)
  <2>1. ASSUME NEW i \in DOMAIN s, s[i] = x PROVE Head(s) = x \/ Has(t, x)
    <3>1. CASE i = 1
      BY <1>1, <2>1, <3>1
    <3>2. CASE i # 1
      <4>1. i - 1 \in DOMAIN t /\ (i - 1) + 1 = i /\ i - 1 \in 1 .. Len(t)
        BY <1>1, <1>2, <3>2
      <4> QED BY <1>1, <2>1, <4>1 DEF Has
    <3> QED BY <3>1, <3>2
  <2>2. Head(s) = x => Has(s, x)
    BY <1>1 DEF Has
  <2>3. ASSUME NEW i \in DOMAIN t, t[i] = x PROVE Has(s, x)
    <3>1. i + 1 \in DOMAIN s /\ i \in 1 .. Len(t)
      BY <1>1, <1>2
    <3> QED BY <1>1, <2>3, <3>1 DEF Has
  <2> QED BY <2>1, <2>2, <2>3 DEF Has
<1> QED BY <1>1, <1>3 DEF t

----------------------------------------------------------------------------
(* The steps                                                               *)

\* Requests are told apart by their kind, and replies by their id.
LEMMA ReqFacts ==
    /\ HReqs \subseteq Reqs /\ None \notin HReqs
    /\ \A k \in {"getattr", "open", "read"} :
          Request(k) \in HReqs /\ Request(k).kind = k /\ Request(k) \notin NotifyReplies
    /\ \A i \in Ids : /\ NotifyReply(i) \in HReqs /\ NotifyReply(i) \in NotifyReplies
                        /\ NotifyReply(i).id = i
                        /\ NotifyReply(i).kind = "notify_reply"
    /\ \A r \in HReqs : r.kind = "notify_reply" => r.id \in Ids /\ r = NotifyReply(r.id)
    /\ Ids \subseteq Nat
<1>1. Ids \subseteq Nat
  BY BeatAssumption DEF Ids
<1>2. HReqs \subseteq Reqs
  BY <1>1 DEF HReqs, NotifyReplies, Request, NotifyReply, Reqs
<1>3. \A i \in Ids : /\ NotifyReply(i) \in HReqs /\ NotifyReply(i) \in NotifyReplies
                       /\ NotifyReply(i).id = i
                       /\ NotifyReply(i).kind = "notify_reply"
  BY Zenon DEF HReqs, NotifyReplies, NotifyReply
<1>4. \A k \in {"getattr", "open", "read"} :
         Request(k) \in HReqs /\ Request(k).kind = k
  BY DEF HReqs, Request
<1>5. \A k \in {"getattr", "open", "read"} : Request(k) \notin NotifyReplies
  BY Zenon DEF NotifyReplies, NotifyReply, Request
<1>6. \A r \in HReqs : r.kind = "notify_reply" => r.id \in Ids /\ r = NotifyReply(r.id)
  BY DEF HReqs, NotifyReplies, NotifyReply, Request
<1> QED
  BY <1>1, <1>2, <1>3, <1>4, <1>5, <1>6, BeatAssumption

\* The invariant of heartbeat holds at the start.
LEMMA HInit ==
    ASSUME Init PROVE HInv
<1>0. BTypeOK
  BY BeatAssumption DEF Init, BInit, DInit, BTypeOK, DTypeOK, Vers
<1>1. TypeOK
  <2>1. bpc = "sleep" /\ kind \in {"store", "invalidate", "none"}
    BY DEF Init, BInit
  <2>2. page = None /\ nid = 0 /\ data = None /\ ignored = {} /\ older = FALSE /\ lost = FALSE
    BY DEF Init
  <2>3. replies = [i \in Ids |-> "none"] /\ retrieves = [i \in Ids |-> None]
    BY DEF Init
  <2> QED BY <1>0, <2>1, <2>2, <2>3, Zenon DEF TypeOK
<1>2. HQueue
  BY DEF Init, BInit, DInit, HQueue
<1>3. HBeat /\ HPage /\ HLock /\ HReplies /\ HData
  BY DEF Init, BInit, DInit, HBeat, HPage, HLock, HReplies, HData
<1>4. HRetrieves /\ RetrievedIsFresh /\ LeftoverHasCause
  BY DEF Init, BInit, DInit, HRetrieves, RetrievedIsFresh, LeftoverHasCause
<1> QED BY <1>1, <1>2, <1>3, <1>4 DEF HInv

\* What each part of the invariant depends on.
LEMMA HKept ==
    ASSUME HInv
    PROVE  /\ UNCHANGED <<reqs, wpc, main, cur, up>> => HQueue'
           /\ UNCHANGED <<kind, bpc, nid, ver>> => HBeat'
           /\ UNCHANGED <<up, bpc, kind, page, ver, nid, lost>> => HPage'
           /\ UNCHANGED <<up, klock, reqs, cur, wpc, page>> => HLock'
           /\ UNCHANGED <<reqs, nid, replies, page, cur, wpc, lost>> => HReplies'
           /\ UNCHANGED <<wpc, cur, nid, data, lost>> => HData'
           /\ UNCHANGED <<retrieves, nid, bpc, up, reqs, cur, ignored>> => HRetrieves'
           /\ UNCHANGED <<older, main, lost>> => RetrievedIsFresh'
           /\ UNCHANGED <<up, retrieves, reqs, cur, ignored>> => LeftoverHasCause'
<1>1. UNCHANGED <<reqs, wpc, main, cur, up>> => HQueue'
  BY DEF HInv, HQueue, HReqs, NotifyReplies, Ids
<1>2. UNCHANGED <<kind, bpc, nid, ver>> => HBeat'
  BY DEF HInv, HBeat
<1>3. UNCHANGED <<up, bpc, kind, page, ver, nid, lost>> => HPage'
  BY DEF HInv, HPage
<1>4. UNCHANGED <<up, klock, reqs, cur, wpc, page>> => HLock'
  BY DEF HInv, HLock, AtHand, Queued, Request
<1>5. UNCHANGED <<reqs, nid, replies, page, cur, wpc, lost>> => HReplies'
  BY DEF HInv, HReplies, ReadBefore, AtHand, NotifyReply, Request, Ids
<1>6. UNCHANGED <<wpc, cur, nid, data, lost>> => HData'
  BY DEF HInv, HData, NotifyReply, Ids
<1>7. UNCHANGED <<retrieves, nid, bpc, up, reqs, cur, ignored>> => HRetrieves'
  BY DEF HInv, HRetrieves, Pending, Queued, NotifyReply, Ids
<1>8. UNCHANGED <<older, main, lost>> => RetrievedIsFresh'
  BY DEF HInv, RetrievedIsFresh
<1>9. UNCHANGED <<up, retrieves, reqs, cur, ignored>> => LeftoverHasCause'
  BY DEF HInv, LeftoverHasCause, Pending, Queued, NotifyReply, Ids
<1> QED BY <1>1, <1>2, <1>3, <1>4, <1>5, <1>6, <1>7, <1>8, <1>9, Zenon

\* The kernel's steps.
LEMMA HKernel ==
    ASSUME HInv, Kernel \/ Unlocks \/ Scope
    PROVE  HInv'
<1>1. CASE KernelSends
  <2>0. Request("getattr") \in HReqs /\ Request("open") \in HReqs /\ Request("read") \in HReqs
    BY ReqFacts
  <2>1. PICK r \in {Request("getattr"), Request("open"), Request("read")} :
          \/ r # Request("read") /\ Sends(r, FALSE)
          \/ r = Request("read") /\ Sends(r, TRUE)
    <3>1. Request("getattr") # Request("read") /\ Request("open") # Request("read")
      BY DEF Request
    <3> QED BY <1>1, <3>1, Zenon DEF KernelSends
  <2>2. UNCHANGED <<up, sig, main, wpc, cur, mutex, bpc, ver, kind, page, nid, replies, data, retrieves, ignored, older, lost>>
    BY <1>1, <2>1, Zenon DEF KernelSends, Sends, dvars, hvars, hist
  <2>3. up /\ reqs' = Append(reqs, r) /\ (klock' = klock \/ (klock' = "asked" /\ r = Request("read")))
    BY <2>1, Zenon DEF Sends
  <2>4. r \in HReqs /\ reqs \in Seq(HReqs)
    BY <2>0 DEF HInv, HQueue
  <2>5. reqs' \in Seq(HReqs) /\ \A x : Has(reqs', x) <=> Has(reqs, x) \/ x = r
    BY <2>3, <2>4, AppendHas
  <2>6. \A x : /\ Queued(x)' <=> Queued(x) \/ x = r
               /\ Pending(x) => Pending(x)'
    BY <2>2, <2>5, Zenon DEF Queued, Pending, Has
  <2>7. TypeOK'
    BY <2>2, <2>3 DEF HInv, TypeOK, BTypeOK, DTypeOK, Vers, Ids
  <2>8. HQueue'
    BY <2>2, <2>3, <2>5 DEF HInv, HQueue, HReqs, NotifyReplies, Ids
  <2>9. HLock'
    BY <2>2, <2>3, <2>6 DEF HInv, HLock, AtHand, Request
  <2>10. HReplies'
    <3> SUFFICES ASSUME NEW j \in DOMAIN reqs', NEW i \in Ids, reqs'[j] = NotifyReply(i)
                 PROVE  /\ i < nid'
                        /\ \/ replies'[i] = "page" /\ (page' # None \/ ReadBefore(j)')
                           \/ replies'[i] = "nopage" /\ lost'
      BY DEF HReplies, NotifyReply, Ids
    <3>1. /\ Len(reqs) \in Nat /\ DOMAIN reqs = 1 .. Len(reqs) /\ DOMAIN reqs' = 1 .. Len(reqs) + 1
          /\ \A k \in 1 .. Len(reqs) : reqs'[k] = reqs[k]
          /\ reqs'[Len(reqs) + 1] = r
      BY <2>3, <2>4
    <3>2. r # NotifyReply(i)
      BY <2>1, ReqFacts
    <3>3. j \in DOMAIN reqs /\ reqs[j] = NotifyReply(i)
      BY <3>1, <3>2
    <3>4. ReadBefore(j) => ReadBefore(j)'
      BY <2>2, <3>1, <3>3 DEF ReadBefore, AtHand, Request
    <3> QED BY <2>2, <3>3, <3>4 DEF HInv, HReplies
  <2>11. HRetrieves'
    BY <2>2, <2>6 DEF HInv, HRetrieves, NotifyReply, Ids
  <2>12. LeftoverHasCause'
    BY <2>2, <2>6 DEF HInv, LeftoverHasCause, NotifyReply, Ids
  <2> QED BY <2>2, <2>7, <2>8, <2>9, <2>10, <2>11, <2>12, HKept DEF HInv
<1>2. CASE Reclaim
  <2>1. /\ UNCHANGED <<up, sig, main, wpc, cur, mutex, klock, bpc, ver, reqs, kind, nid, replies, data, retrieves, ignored, older>>
        /\ page' = None /\ klock = "free"
        /\ lost' = (lost \/ bpc = "retrieve")
        /\ \A i \in Ids : Queued(NotifyReply(i)) => replies[i] = "nopage"
    BY <1>2, Zenon DEF Reclaim, dvars, bvars
  <2>2. TypeOK'
    <3>1. lost' \in BOOLEAN
      BY <2>1, Zenon DEF HInv, TypeOK
    <3> QED BY <2>1, <3>1 DEF HInv, TypeOK, BTypeOK, DTypeOK, Vers, Ids
  <2>3. lost => lost'
    BY <2>1, Zenon
  <2>4. HPage'
    BY <2>1, Zenon DEF HInv, HPage
  <2>5. HLock'
    BY <2>1 DEF HInv, HLock
  <2>6. HReplies'
    <3> SUFFICES ASSUME NEW j \in DOMAIN reqs, NEW i \in Ids, reqs[j] = NotifyReply(i)
                 PROVE  i < nid /\ replies[i] = "nopage" /\ lost'
      BY <2>1 DEF HReplies, NotifyReply, Ids
    <3>1. replies[i] = "nopage"
      BY <2>1 DEF Queued
    <3> QED BY <2>3, <3>1 DEF HInv, HReplies
  <2>7. HData'
    BY <2>1, <2>3 DEF HInv, HData, NotifyReply, Ids
  <2>8. RetrievedIsFresh'
    BY <2>1, <2>3 DEF HInv, RetrievedIsFresh
  <2> QED BY <2>1, <2>2, <2>4, <2>5, <2>6, <2>7, <2>8, HKept DEF HInv
<1>3. CASE Ends /\ UNCHANGED hvars
  <2>1. UNCHANGED <<main, wpc, cur, mutex, bpc, ver, kind, page, nid, replies, data, retrieves, ignored, older, lost>>
    BY <1>3, Zenon DEF Ends, Signal, Disconnect, hvars, hist
  <2>2. up' = up \/ up' = FALSE
    BY <1>3, Zenon DEF Ends, Signal, Disconnect
  <2>3. sig' \in {"waiting", "ended"}
    BY <1>3, Zenon DEF Ends, Signal, Disconnect, HInv, TypeOK, BTypeOK, DTypeOK
  <2>4. /\ up' => klock' = klock /\ reqs' = reqs
        /\ ~up' => klock' = "free" /\ reqs' = <<>>
    BY <1>3, Zenon DEF Ends
  <2>5. TypeOK'
    <3>1. up' \in BOOLEAN
      BY <2>2, Zenon DEF HInv, TypeOK, BTypeOK, DTypeOK
    <3>2. klock' \in {"free", "asked", "answered"}
      BY <2>4 DEF HInv, TypeOK, BTypeOK
    <3> QED BY <2>1, <2>3, <3>1, <3>2 DEF HInv, TypeOK, BTypeOK, DTypeOK, Vers, Ids
  <2>6. CASE up'
    <3>1. up' = up /\ reqs' = reqs /\ klock' = klock
      BY <2>2, <2>4, <2>6, Zenon
    <3> QED BY <2>1, <2>5, <3>1, HKept DEF HInv
  <2>7. CASE ~up'
    <3>1. reqs' = <<>>
      BY <2>4, <2>7
    <3>2. HQueue'
      BY <2>1, <3>1 DEF HInv, HQueue, HReqs, NotifyReplies, Ids
    <3>3. HPage' /\ HLock' /\ HReplies' /\ LeftoverHasCause'
      BY <2>7, <3>1 DEF HPage, HLock, HReplies, LeftoverHasCause
    <3>4. HRetrieves'
      BY <2>1, <2>7 DEF HInv, HRetrieves, Ids
    <3> QED BY <2>1, <2>5, <3>2, <3>3, <3>4, HKept DEF HInv
  <2> QED BY <2>6, <2>7
<1>4. CASE Unlocks
  <2>1. /\ UNCHANGED <<up, sig, main, wpc, cur, mutex, bpc, ver, reqs, kind, page, nid, replies, data, retrieves, ignored, older, lost>>
        /\ klock' = "free"
    BY <1>4, Zenon DEF Unlocks, KernelUnlocks, dvars, hvars, hist
  <2>2. TypeOK'
    BY <2>1 DEF HInv, TypeOK, BTypeOK, DTypeOK, Vers, Ids
  <2>3. HLock'
    BY <2>1 DEF HLock
  <2> QED BY <2>1, <2>2, <2>3, HKept DEF HInv
<1>5. CASE Scope
  <2>1. /\ UNCHANGED <<up, main, wpc, cur, mutex, klock, bpc, ver, reqs, kind, page, nid, replies, data, retrieves, ignored, older, lost>>
        /\ sig' = "ended"
    BY <1>5, Zenon DEF Scope, SignalsClosed, bvars, hvars, hist
  <2>2. TypeOK'
    BY <2>1 DEF HInv, TypeOK, BTypeOK, DTypeOK, Vers, Ids
  <2> QED BY <2>1, <2>2, HKept DEF HInv
<1> QED BY <1>1, <1>2, <1>3, <1>4, <1>5 DEF Kernel

\* Only a store retrieves, and every beat once.
LEMMA HIdFacts ==
    ASSUME HInv
    PROVE  /\ bpc \in {"locking", "retrieve", "insert"} => kind = "store"
           /\ bpc = "retrieve" => nid \in Ids /\ nid + 1 = ver
           /\ bpc = "insert" => nid - 1 \in Ids /\ nid = ver
           /\ ver \in Nat /\ ver <= MaxBeats /\ nid \in Nat /\ MaxBeats \in Nat
           /\ page \in Nat \cup {None} /\ None \notin Nat
  BY BeatAssumption, DaemonAssumption DEF HInv, HBeat, TypeOK, BTypeOK, Vers, Ids

\* The loop takes a request from the queue.
LEMMA HRecv ==
    ASSUME HInv, Recv
    PROVE  HInv'
<1>1. /\ UNCHANGED <<up, sig, main, mutex, klock, bpc, ver, kind, page, nid, replies, retrieves, ignored, older, lost>>
      /\ up /\ main = "loop" /\ wpc = "recv" /\ reqs # <<>> /\ reqs' = Tail(reqs) /\ cur' = Head(reqs)
      /\ wpc' = IF Head(reqs).kind \in {"getattr", "read"} THEN "lock" ELSE "handle"
      /\ data' = IF cur'.kind = "notify_reply" /\ replies[cur'.id] = "page" THEN page ELSE None
  BY Zenon DEF Recv, RecvRequest, Receives, hist
<1>2. reqs \in Seq(HReqs) /\ cur = None /\ cur \notin HReqs
  BY <1>1, ReqFacts, Zenon DEF HInv, HQueue
<1>3. /\ reqs' \in Seq(HReqs) /\ cur' \in HReqs
      /\ \A x : Has(reqs, x) <=> cur' = x \/ Has(reqs', x)
  BY <1>1, <1>2, TailHas, Zenon
<1>4. \A x \in HReqs : Pending(x) => Pending(x)'
  BY <1>2, <1>3 DEF Pending, Queued, Has
<1>5. /\ Len(reqs) \in Nat \ {0} /\ DOMAIN reqs = 1 .. Len(reqs) /\ DOMAIN reqs' = 1 .. Len(reqs) - 1
      /\ cur' = reqs[1] /\ \A i \in 1 .. Len(reqs) - 1 : reqs'[i] = reqs[i + 1]
  BY <1>1, <1>2
<1>6. TypeOK'
  <2>1. data' \in Vers \cup {None}
    BY <1>1, Zenon DEF HInv, TypeOK
  <2> QED BY <1>1, <2>1 DEF HInv, TypeOK, BTypeOK, DTypeOK, Vers, Ids
<1>7. HQueue'
  <2>1. cur'.kind \in {"getattr", "read"} => cur' \notin NotifyReplies
    BY DEF NotifyReplies, NotifyReply
  <2> QED BY <1>1, <1>3, <2>1 DEF HQueue, HReqs, NotifyReplies, Ids
<1>8. HLock'
  <2>1. wpc' \in {"lock", "handle"}
    BY <1>1
  <2> QED BY <1>1, <1>2, <1>3, <2>1, ReqFacts, Zenon DEF HInv, HLock, AtHand, Queued, Has, Request
<1>9. HReplies'
  <2> SUFFICES ASSUME NEW j \in DOMAIN reqs', NEW i \in Ids, reqs'[j] = NotifyReply(i)
               PROVE  /\ i < nid
                      /\ \/ replies[i] = "page" /\ (page # None \/ ReadBefore(j)')
                         \/ replies[i] = "nopage" /\ lost
    BY <1>1 DEF HReplies, NotifyReply, Ids
  <2>1. j + 1 \in DOMAIN reqs /\ reqs[j + 1] = NotifyReply(i)
    BY <1>5
  <2>2. ASSUME ReadBefore(j + 1) PROVE ReadBefore(j)'
    <3>1. PICK k \in 1 .. j : reqs[k] = Request("read")
      BY <1>1, <1>5, <2>2 DEF ReadBefore, AtHand
    <3>2. CASE k = 1
      BY <1>1, <1>5, <3>1, <3>2, Zenon DEF ReadBefore, AtHand, Request
    <3>3. CASE k # 1
      <4>1. k - 1 \in 1 .. j - 1 /\ k - 1 \in 1 .. Len(reqs) - 1 /\ (k - 1) + 1 = k
        BY <1>5, <3>3
      <4>2. reqs'[k - 1] = Request("read")
        BY <1>5, <3>1, <4>1
      <4> QED BY <4>1, <4>2 DEF ReadBefore, Request
    <3> QED BY <3>2, <3>3
  <2> QED BY <2>1, <2>2, Zenon DEF HInv, HReplies
<1>10. HData'
  <2> SUFFICES ASSUME NEW i \in Ids, cur' = NotifyReply(i)
               PROVE  i < nid /\ (data' = None => lost) /\ (data' # None => data' >= i + 1)
    BY <1>1, Zenon DEF HData, NotifyReply, Ids
  <2>1. ~ReadBefore(1)
    BY <1>1 DEF ReadBefore, AtHand
  <2>2. /\ i < nid
        /\ (replies[i] = "page" /\ page # None) \/ (replies[i] = "nopage" /\ lost)
    <3>1. 1 \in DOMAIN reqs /\ reqs[1] = NotifyReply(i)
      BY <1>5
    <3> QED BY <2>1, <3>1, Zenon DEF HInv, HReplies
  <2>3. cur'.kind = "notify_reply" /\ cur'.id = i
    BY ReqFacts, Zenon
  <2>4. page # None => page >= nid
    BY <1>1 DEF HInv, HPage
  <2>5. i \in Nat
    BY ReqFacts
  <2>6. CASE replies[i] = "page" /\ page # None
    <3>1. data' = page
      BY <1>1, <2>3, <2>6
    <3>2. page >= i + 1
      BY <2>2, <2>4, <2>5, <2>6, HIdFacts
    <3> QED BY <2>2, <2>6, <3>1, <3>2, Zenon
  <2>7. CASE replies[i] = "nopage" /\ lost
    BY <1>1, <2>2, <2>3, <2>7, Zenon
  <2> QED BY <2>2, <2>6, <2>7, Zenon
<1>11. HRetrieves'
  <2>1. bpc = "insert" => NotifyReply(nid - 1) \in HReqs
    BY HIdFacts, ReqFacts, Zenon
  <2> QED BY <1>1, <1>4, <2>1 DEF HInv, HRetrieves, NotifyReply, Ids
<1>12. LeftoverHasCause'
  BY <1>1, <1>4, ReqFacts, Zenon DEF HInv, LeftoverHasCause, NotifyReply, Ids
<1> QED
  BY <1>1, <1>6, <1>7, <1>8, <1>9, <1>10, <1>11, <1>12, HKept DEF HInv

\* A handler ends that had another request than a READ or a NOTIFY_REPLY.
LEMMA HDone ==
    ASSUME HInv, NEW l \in {TRUE, FALSE}, LoopDone(l, FALSE), wpc = "handle", UNCHANGED hvars,
           cur # Request("read"), \A i \in Ids : cur # NotifyReply(i)
    PROVE  HInv'
<1>1. /\ UNCHANGED <<up, sig, main, bpc, ver, reqs, klock, kind, page, nid, replies, data, retrieves, ignored, older, lost>>
      /\ wpc' = "recv" /\ cur' = None
  BY Zenon DEF LoopDone, HandlerDone, hvars, hist
<1>2. mutex' = "free" \/ mutex' = mutex
  BY Zenon DEF LoopDone
<1>3. TypeOK'
  BY <1>1, <1>2 DEF HInv, TypeOK, BTypeOK, DTypeOK, Vers, Ids
<1>4. HQueue'
  BY <1>1, Zenon DEF HInv, HQueue, HReqs, NotifyReplies, Ids
<1>5. HLock'
  BY <1>1, Zenon DEF HInv, HLock, AtHand, Queued, Request
<1>6. \A j : ReadBefore(j) => ReadBefore(j)'
  BY <1>1, Zenon DEF ReadBefore, AtHand, Request
<1>7. HReplies'
  BY <1>1, <1>6 DEF HInv, HReplies, NotifyReply, Ids
<1>8. HData'
  BY <1>1, Zenon DEF HData
<1>9. \A i \in Ids : Pending(NotifyReply(i)) => Pending(NotifyReply(i))'
  BY <1>1, Zenon DEF Pending, Queued, NotifyReply
<1>10. HRetrieves'
  BY <1>1, <1>9, HIdFacts, Zenon DEF HInv, HRetrieves, NotifyReply, Ids
<1>11. LeftoverHasCause'
  BY <1>1, <1>9, Zenon DEF HInv, LeftoverHasCause, NotifyReply, Ids
<1> QED
  BY <1>1, <1>3, <1>4, <1>5, <1>7, <1>8, <1>10, <1>11, HKept DEF HInv

\* READ fills the page with the present content.
LEMMA HRead ==
    ASSUME HInv, Read
    PROVE  HInv'
<1>1. /\ UNCHANGED <<up, sig, main, bpc, ver, reqs, kind, nid, replies, data, retrieves, ignored, older, lost>>
      /\ wpc = "handle" /\ cur = Request("read") /\ wpc' = "recv" /\ cur' = None
      /\ page' = IF up THEN ver ELSE page
      /\ klock' = IF up THEN "answered" ELSE klock
      /\ mutex' = "free"
  BY Zenon DEF Read, LoopDone, HandlerDone, hist
<1>2. ver \in Nat /\ ver # None /\ ver >= nid
  BY HIdFacts DEF HInv, HBeat
<1>3. TypeOK'
  BY <1>1 DEF HInv, TypeOK, BTypeOK, DTypeOK, Vers, Ids
<1>4. HQueue'
  BY <1>1 DEF HInv, HQueue, HReqs, NotifyReplies, Ids
<1>5. HPage'
  BY <1>1, <1>2 DEF HPage
<1>6. HLock'
  BY <1>1, <1>2 DEF HLock
<1>7. HReplies'
  <2>1. CASE up
    BY <1>1, <1>2, <2>1, Zenon DEF HInv, HReplies, NotifyReply, Ids
  <2>2. CASE ~up
    BY <1>1, <2>2 DEF HInv, HQueue, HReplies
  <2> QED BY <2>1, <2>2, Zenon
<1>8. HData'
  BY <1>1, Zenon DEF HData
<1>9. \A i \in Ids : Pending(NotifyReply(i)) => Pending(NotifyReply(i))'
  <2>1. \A i \in Ids : cur # NotifyReply(i)
    BY <1>1, ReqFacts, Zenon
  <2> QED BY <1>1, <2>1, Zenon DEF Pending, Queued, NotifyReply
<1>10. HRetrieves'
  BY <1>1, <1>9, HIdFacts, Zenon DEF HInv, HRetrieves, NotifyReply, Ids
<1>11. LeftoverHasCause'
  BY <1>1, <1>9, Zenon DEF HInv, LeftoverHasCause, NotifyReply, Ids
<1> QED
  BY <1>1, <1>3, <1>4, <1>5, <1>6, <1>7, <1>8, <1>10, <1>11, HKept DEF HInv

\* NOTIFY_REPLY compares what it brings with the content of its beat.
LEMMA HNotifyReply ==
    ASSUME HInv, HandleNotifyReply
    PROVE  HInv'
<1> DEFINE id == cur.id
<1>1. /\ UNCHANGED <<up, sig, bpc, ver, reqs, mutex, klock, kind, page, nid, replies, lost>>
      /\ wpc = "handle" /\ cur.kind = "notify_reply"
      /\ retrieves' = [retrieves EXCEPT ![id] = None]
      /\ ignored' = IF retrieves[id] = None THEN ignored \cup {id} ELSE ignored
      /\ data' = None
  BY Zenon DEF HandleNotifyReply, Fails, LoopDone, HandlerDone, bvars
<1>2. \/ /\ retrieves[id] # None /\ data = None
         /\ main' = "panic" /\ wpc' = "left" /\ cur' = cur /\ older' = older
      \/ /\ ~(retrieves[id] # None /\ data = None)
         /\ older' = (older \/ (retrieves[id] # None /\ data < retrieves[id]))
         /\ main' = main /\ wpc' = "recv" /\ cur' = None
  BY Zenon DEF HandleNotifyReply, Fails, LoopDone, HandlerDone
<1>3. id \in Ids /\ cur = NotifyReply(id) /\ id \in Nat
  BY <1>1, ReqFacts, Zenon DEF HInv, HQueue
<1>4. id < nid /\ (data = None => lost) /\ (data # None => data >= id + 1)
  BY <1>1, <1>3, Zenon DEF HInv, HData
<1>5. retrieves[id] # None => retrieves[id] = id + 1
  BY <1>3 DEF HInv, HRetrieves
<1>6. older' = FALSE
  <2>1. older = FALSE
    BY Zenon DEF HInv, RetrievedIsFresh, TypeOK
  <2>2. CASE retrieves[id] # None /\ data # None
    <3>1. data \in Nat
      BY <2>2, DaemonAssumption DEF HInv, TypeOK, Vers
    <3>2. ~(data < retrieves[id])
      BY <1>3, <1>4, <1>5, <2>2, <3>1
    <3> QED BY <1>2, <2>1, <2>2, <3>2, Zenon
  <2>3. CASE ~(retrieves[id] # None /\ data # None)
    BY <1>2, <2>1, <2>3, Zenon
  <2> QED BY <2>2, <2>3, Zenon
<1>7. (main' = "panic" /\ lost) \/ main' = main
  BY <1>2, <1>4, Zenon
<1>8. /\ wpc' \in {"recv", "left"} /\ (wpc' = "recv" => cur' = None /\ main' = "loop")
      /\ cur' \in {cur, None}
  BY <1>1, <1>2, Zenon DEF HInv, HQueue
<1> HIDE DEF id
<1>9. TypeOK'
  <2>1. retrieves' \in [Ids -> Vers \cup {None}] /\ ignored' \subseteq Ids
    BY <1>1, <1>3 DEF HInv, TypeOK
  <2>2. main' \in {"loop", "closed", "error", "panic", "returned"}
    BY <1>7 DEF HInv, TypeOK, BTypeOK, DTypeOK
  <2>3. older' \in BOOLEAN
    BY <1>6, Zenon
  <2> QED BY <1>1, <2>1, <2>2, <2>3 DEF HInv, TypeOK, BTypeOK, DTypeOK, Vers, Ids
<1>10. HQueue'
  BY <1>1, <1>8, Zenon DEF HInv, HQueue, HReqs, NotifyReplies, Ids
<1>11. cur # Request("read")
  BY <1>1, ReqFacts
<1>12. HLock'
  BY <1>1, <1>11, Zenon DEF HInv, HLock, AtHand, Queued, Request
<1>13. HReplies'
  <2>1. \A j : ReadBefore(j) => ReadBefore(j)'
    BY <1>1, <1>11, Zenon DEF ReadBefore, AtHand, Request
  <2> QED BY <1>1, <2>1, Zenon DEF HInv, HReplies, NotifyReply, Ids
<1>14. HData'
  BY <1>8, Zenon DEF HData
<1>15. \A i \in Ids : i # id => (Pending(NotifyReply(i)) => Pending(NotifyReply(i))')
  <2>1. \A i \in Ids : i # id => cur # NotifyReply(i)
    BY <1>3, ReqFacts
  <2> QED BY <1>1, <2>1 DEF Pending, Queued, NotifyReply
<1>16. \A i \in Ids : retrieves'[i] # None => retrieves'[i] = retrieves[i] /\ i # id
  BY <1>1, <1>3, Zenon DEF HInv, TypeOK
<1>17. HRetrieves'
  <2>1. \A i \in Ids : retrieves'[i] # None =>
           retrieves'[i] = i + 1 /\ i < nid' /\ (bpc' = "insert" => i # nid' - 1)
    BY <1>1, <1>16, Zenon DEF HInv, HRetrieves
  <2>2. bpc = "insert" /\ up => Pending(NotifyReply(nid - 1))' \/ nid - 1 \in ignored'
    <3> SUFFICES ASSUME bpc = "insert", up
                 PROVE  Pending(NotifyReply(nid - 1))' \/ nid - 1 \in ignored'
      OBVIOUS
    <3>1. nid - 1 \in Ids
      BY HIdFacts, Zenon
    <3>2. CASE nid - 1 = id
      <4>1. retrieves[id] = None
        BY <1>3, <3>2, Zenon DEF HInv, HRetrieves
      <4> QED BY <1>1, <3>2, <4>1
    <3>3. CASE nid - 1 # id
      <4>1. Pending(NotifyReply(nid - 1)) \/ nid - 1 \in ignored
        BY Zenon DEF HInv, HRetrieves
      <4> QED BY <1>1, <1>15, <3>1, <3>3, <4>1
    <3> QED BY <3>2, <3>3
  <2> QED BY <1>1, <2>1, <2>2 DEF HRetrieves, NotifyReply, Ids
<1>18. LeftoverHasCause'
  BY <1>1, <1>15, <1>16, Zenon DEF HInv, LeftoverHasCause, NotifyReply, Ids
<1>19. RetrievedIsFresh'
  BY <1>1, <1>6, <1>7 DEF HInv, RetrievedIsFresh
<1> QED
  BY <1>1, <1>9, <1>10, <1>12, <1>13, <1>14, <1>17, <1>18, <1>19, HKept DEF HInv

\* The daemon's loop keeps it.
LEMMA HLoop ==
    ASSUME HInv, Loop
    PROVE  HInv'
<1>1. CASE LoopLocks /\ UNCHANGED hvars
  <2>1. /\ UNCHANGED <<up, sig, main, cur, klock, bpc, ver, reqs, kind, page, nid, replies, data, retrieves, ignored, older, lost>>
        /\ mutex' = "loop" /\ wpc = "lock" /\ wpc' = "handle"
    BY <1>1, Zenon DEF LoopLocks, Goto, hvars, hist
  <2>2. TypeOK'
    BY <2>1 DEF HInv, TypeOK, BTypeOK, DTypeOK, Vers, Ids
  <2>3. HQueue'
    BY <2>1, Zenon DEF HInv, HQueue, HReqs, NotifyReplies, Ids
  <2>4. HLock'
    BY <2>1, Zenon DEF HInv, HLock, AtHand, Queued, Request
  <2>5. HReplies'
    <3>1. \A j : ReadBefore(j) => ReadBefore(j)'
      BY <2>1, Zenon DEF ReadBefore, AtHand, Request
    <3> QED BY <2>1, <3>1, Zenon DEF HInv, HReplies, NotifyReply, Ids
  <2>6. HData'
    <3>1. \A i \in Ids : cur # NotifyReply(i)
      BY <2>1, ReqFacts DEF HInv, HQueue
    <3> QED BY <2>1, <3>1, Zenon DEF HData, NotifyReply, Ids
  <2> QED BY <2>1, <2>2, <2>3, <2>4, <2>5, <2>6, HKept DEF HInv
<1>2. CASE Getattr \/ Open
  <2>1. PICK l \in {TRUE, FALSE} : LoopDone(l, FALSE)
    BY <1>2, Zenon DEF Getattr, Open
  <2>2. wpc = "handle" /\ UNCHANGED hvars /\ (cur = Request("getattr") \/ cur = Request("open"))
    BY <1>2, Zenon DEF Getattr, Open
  <2>3. cur # Request("read") /\ \A i \in Ids : cur # NotifyReply(i)
    BY <2>2, ReqFacts, Zenon
  <2> QED BY <2>1, <2>2, <2>3, HDone, Zenon
<1>3. CASE LeaveLoop /\ UNCHANGED <<bvars, hvars>>
  <2>1. /\ UNCHANGED <<up, sig, cur, mutex, klock, bpc, ver, reqs, kind, page, nid, replies, data, retrieves, ignored, older, lost>>
        /\ ~up /\ main' = "closed" /\ wpc = "recv" /\ wpc' = "left"
    BY <1>3, Zenon DEF LeaveLoop, bvars, hvars, hist
  <2>2. TypeOK'
    BY <2>1 DEF HInv, TypeOK, BTypeOK, DTypeOK, Vers, Ids
  <2>3. HQueue'
    BY <2>1, Zenon DEF HInv, HQueue, HReqs, NotifyReplies, Ids
  <2>4. HLock' /\ HReplies' /\ HData'
    BY <2>1 DEF HInv, HQueue, HLock, HReplies, HData
  <2>5. RetrievedIsFresh'
    BY <2>1, Zenon DEF HInv, RetrievedIsFresh
  <2> QED BY <2>1, <2>2, <2>3, <2>4, <2>5, HKept DEF HInv
<1> QED
  BY <1>1, <1>2, <1>3, HRecv, HRead, HNotifyReply, Zenon DEF Loop

\* The beating thread asks for the page back.
LEMMA HRetrieve ==
    ASSUME HInv, Retrieve
    PROVE  HInv'
<1>1. /\ UNCHANGED <<up, sig, main, wpc, cur, klock, mutex, ver, kind, page, data, retrieves, ignored, older, lost>>
      /\ bpc = "retrieve" /\ bpc' = "insert" /\ nid' = nid + 1
      /\ up => /\ reqs' = Append(reqs, NotifyReply(nid))
               /\ replies' = [replies EXCEPT ![nid] = IF page # None \/ klock # "free" THEN "page" ELSE "nopage"]
      /\ ~up => reqs' = reqs /\ replies' = replies
  BY Zenon DEF Retrieve, dvars, hist
<1>2. nid \in Ids /\ nid + 1 = ver /\ kind = "store" /\ nid \in Nat
  BY <1>1, HIdFacts, Zenon
<1>3. NotifyReply(nid) \in HReqs /\ reqs \in Seq(HReqs)
  BY <1>2, ReqFacts DEF HInv, HQueue
<1>4. up => reqs' \in Seq(HReqs) /\ \A x : Has(reqs', x) <=> Has(reqs, x) \/ x = NotifyReply(nid)
  <2> SUFFICES ASSUME up
               PROVE  reqs' \in Seq(HReqs) /\ \A x : Has(reqs', x) <=> Has(reqs, x) \/ x = NotifyReply(nid)
    OBVIOUS
  <2>1. reqs' = Append(reqs, NotifyReply(nid))
    BY <1>1
  <2> QED BY <1>3, <2>1, AppendHas
<1>5. \A x : (Queued(x) => Queued(x)') /\ (Pending(x) => Pending(x)')
  <2>1. CASE up
    BY <1>1, <1>4, <2>1, Zenon DEF Queued, Pending, Has
  <2>2. CASE ~up
    BY <1>1, <2>2, Zenon DEF Queued, Pending
  <2> QED BY <2>1, <2>2, Zenon
<1>6. TypeOK'
  <2>1. replies' \in [Ids -> {"none", "page", "nopage"}]
    BY <1>1, Zenon DEF HInv, TypeOK
  <2> QED BY <1>1, <1>2, <2>1 DEF HInv, TypeOK, BTypeOK, DTypeOK, Vers, Ids
<1>7. HQueue'
  BY <1>1, <1>3, <1>4, Zenon DEF HInv, HQueue, HReqs, NotifyReplies, Ids
<1>8. HBeat'
  BY <1>1, <1>2 DEF HInv, HBeat
<1>9. HPage'
  BY <1>1, <1>2 DEF HInv, HPage
<1>10. HLock'
  BY <1>1, <1>5 DEF HInv, HLock, AtHand, Request
<1>11. HReplies'
  <2>1. CASE ~up
    BY <1>1, <2>1, SMTT(30) DEF HInv, HQueue, HReplies
  <2>2. CASE up
    <3> SUFFICES ASSUME NEW j \in DOMAIN reqs', NEW i \in Ids, reqs'[j] = NotifyReply(i)
                 PROVE  /\ i < nid'
                        /\ \/ replies'[i] = "page" /\ (page # None \/ ReadBefore(j)')
                           \/ replies'[i] = "nopage" /\ lost
      BY <1>1, Zenon DEF HReplies, NotifyReply, Ids
    <3>1. /\ Len(reqs) \in Nat /\ DOMAIN reqs = 1 .. Len(reqs) /\ DOMAIN reqs' = 1 .. Len(reqs) + 1
          /\ \A k \in 1 .. Len(reqs) : reqs'[k] = reqs[k]
          /\ reqs'[Len(reqs) + 1] = NotifyReply(nid)
      BY <1>1, <1>3, <2>2
    <3>2. replies' = [replies EXCEPT ![nid] = IF page # None \/ klock # "free" THEN "page" ELSE "nopage"]
      BY <1>1, <2>2, Zenon
    <3>3. replies \in [Ids -> {"none", "page", "nopage"}] /\ i \in Nat
      BY ReqFacts, Zenon DEF HInv, TypeOK
    <3>4. CASE j \in DOMAIN reqs
      <4>1. reqs[j] = NotifyReply(i)
        BY <3>1, <3>4, Zenon
      <4>2. /\ i < nid
            /\ \/ replies[i] = "page" /\ (page # None \/ ReadBefore(j))
               \/ replies[i] = "nopage" /\ lost
        BY <3>4, <4>1, Zenon DEF HInv, HReplies
      <4>3. replies'[i] = replies[i] /\ i < nid'
        BY <1>1, <1>2, <3>2, <3>3, <4>2
      <4>4. ReadBefore(j) => ReadBefore(j)'
        BY <1>1, <3>1, <3>4 DEF ReadBefore, AtHand, Request
      <4> QED BY <4>2, <4>3, <4>4, Zenon
    <3>5. CASE j = Len(reqs) + 1
      <4>1. i = nid
        BY <1>2, <3>1, <3>5, ReqFacts
      <4>2. replies'[i] = IF page # None \/ klock # "free" THEN "page" ELSE "nopage"
        BY <1>2, <3>2, <3>3, <4>1, Zenon
      <4>3. page # None \/ lost
        BY <1>1, <2>2, Zenon DEF HInv, HPage
      <4>4. i < nid'
        BY <1>1, <1>2, <4>1
      <4>5. CASE page # None
        BY <4>2, <4>4, <4>5
      <4>6. CASE page = None /\ klock = "free"
        BY <4>2, <4>3, <4>4, <4>6
      <4>7. CASE page = None /\ klock # "free"
        <5>1. klock = "asked"
          BY <2>2, <4>7 DEF HInv, HLock, TypeOK, BTypeOK
        <5>2. Queued(Request("read")) \/ AtHand(Request("read"))
          BY <2>2, <5>1 DEF HInv, HLock
        <5>3. ReadBefore(j)'
          <6>1. CASE AtHand(Request("read"))
            BY <1>1, <6>1, Zenon DEF ReadBefore, AtHand, Request
          <6>2. ASSUME NEW k \in DOMAIN reqs, reqs[k] = Request("read")
                PROVE  ReadBefore(j)'
            <7>1. k \in 1 .. j - 1 /\ reqs'[k] = Request("read")
              BY <3>1, <3>5, <6>2
            <7> QED BY <7>1, Zenon DEF ReadBefore, Request
          <6> QED BY <5>2, <6>1, <6>2, Zenon DEF Queued
        <5> QED BY <4>2, <4>4, <4>7, <5>3, Zenon
      <4> QED BY <4>5, <4>6, <4>7, Zenon
    <3> QED BY <3>1, <3>4, <3>5
  <2> QED BY <2>1, <2>2, Zenon
<1>12. HData'
  BY <1>1, <1>2, ReqFacts DEF HInv, HData, NotifyReply, Ids
<1>13. HRetrieves'
  <2>1. nid' - 1 = nid
    BY <1>1, <1>2
  <2>2. \A i \in Ids : retrieves'[i] # None =>
           retrieves'[i] = i + 1 /\ i < nid' /\ (bpc' = "insert" => i # nid' - 1)
    BY <1>1, <1>2, <2>1, ReqFacts DEF HInv, HRetrieves
  <2>3. up => Pending(NotifyReply(nid - 1))'
    <3>1. up => Has(reqs', NotifyReply(nid' - 1))
      BY <1>4, <2>1, Zenon
    <3> QED BY <3>1 DEF Pending, Queued, Has, NotifyReply
  <2> QED BY <1>1, <2>2, <2>3 DEF HRetrieves, NotifyReply, Ids
<1>14. LeftoverHasCause'
  BY <1>1, <1>5 DEF HInv, LeftoverHasCause, NotifyReply, Ids
<1> QED
  BY <1>1, <1>6, <1>7, <1>8, <1>9, <1>10, <1>11, <1>12, <1>13, <1>14, HKept DEF HInv

\* The other steps of the beating thread.
LEMMA HBeats ==
    ASSUME HInv, Beats
    PROVE  HInv'
<1>0. /\ ver \in Nat /\ ver <= MaxBeats /\ nid \in Nat /\ MaxBeats \in Nat /\ None \notin Nat
      /\ (bpc \in {"locking", "retrieve", "insert"} => kind = "store")
  BY HIdFacts
<1>1. CASE UpdateContent
  <2>1. /\ UNCHANGED <<up, sig, main, wpc, cur, mutex, klock, reqs, kind, page, nid, replies, data, retrieves, ignored, older, lost>>
        /\ bpc = "sleep" /\ ver < MaxBeats /\ ver' = ver + 1
        /\ bpc' = CASE kind = "store" -> "locking" [] kind = "invalidate" -> "notify" [] OTHER -> "sleep"
    BY <1>1, Zenon DEF UpdateContent, BeatTo, dvars, hvars, hist
  <2>2. /\ kind = "store" => bpc' = "locking"
        /\ kind = "invalidate" => bpc' = "notify"
        /\ kind = "none" => bpc' = "sleep"
        /\ kind \in {"store", "invalidate", "none"}
    BY <2>1 DEF HInv, TypeOK
  <2>3. TypeOK'
    BY <1>0, <2>1, <2>2 DEF HInv, TypeOK, BTypeOK, DTypeOK, Vers, Ids
  <2>4. HBeat'
    BY <1>0, <2>1, <2>2 DEF HInv, HBeat
  <2>5. HPage'
    BY <2>1, <2>2 DEF HInv, HPage
  <2>6. HRetrieves'
    BY <2>1, <2>2, Zenon DEF HInv, HRetrieves, Ids
  <2> QED BY <2>1, <2>3, <2>4, <2>5, <2>6, HKept DEF HInv
<1>2. CASE NotifyLocks
  <2>1. /\ UNCHANGED <<up, sig, main, wpc, cur, klock, ver, reqs, kind, page, nid, replies, data, retrieves, ignored, older, lost>>
        /\ bpc = "locking" /\ mutex' = "beat" /\ bpc' = "notify"
    BY <1>2, Zenon DEF NotifyLocks, BeatTo, dvars, hvars, hist
  <2>2. TypeOK'
    BY <2>1 DEF HInv, TypeOK, BTypeOK, DTypeOK, Vers, Ids
  <2>3. HBeat'
    BY <1>0, <2>1, Zenon DEF HInv, HBeat
  <2>4. HPage'
    BY <2>1, Zenon DEF HInv, HPage
  <2>5. HRetrieves'
    BY <2>1, Zenon DEF HInv, HRetrieves, Ids
  <2> QED BY <2>1, <2>2, <2>3, <2>4, <2>5, HKept DEF HInv
<1>3. CASE Store
  <2>1. /\ UNCHANGED <<up, sig, main, wpc, cur, mutex, klock, ver, reqs, kind, nid, replies, data, retrieves, ignored, older, lost>>
        /\ kind = "store" /\ bpc = "notify" /\ bpc' = "retrieve"
        /\ page' = IF up THEN ver ELSE page
        /\ up => klock = "free"
    BY <1>3, Zenon DEF Store, BeatTo, KernelFree, dvars, hist
  <2>2. TypeOK'
    BY <2>1 DEF HInv, TypeOK, BTypeOK, DTypeOK, Vers, Ids
  <2>3. HBeat'
    BY <2>1 DEF HInv, HBeat
  <2>4. HPage'
    <3>1. nid = ver - 1
      BY <2>1 DEF HInv, HBeat
    <3>2. ver >= nid /\ ver # None
      BY <1>0, <3>1
    <3> QED BY <2>1, <3>2, Zenon DEF HPage
  <2>5. HLock'
    BY <2>1, Zenon DEF HLock
  <2>6. HReplies'
    <3>1. CASE up
      BY <1>0, <2>1, <3>1, Zenon DEF HInv, HReplies, NotifyReply, Ids
    <3>2. CASE ~up
      BY <2>1, <3>2 DEF HInv, HQueue, HReplies
    <3> QED BY <3>1, <3>2
  <2>7. HRetrieves'
    BY <2>1, Zenon DEF HInv, HRetrieves, Ids
  <2> QED BY <2>1, <2>2, <2>3, <2>4, <2>5, <2>6, <2>7, HKept DEF HInv
<1>4. CASE Insert
  <2>1. /\ UNCHANGED <<up, sig, main, wpc, cur, klock, ver, reqs, kind, page, nid, replies, data, ignored, older, lost>>
        /\ bpc = "insert" /\ bpc' = "sleep" /\ mutex' = "free"
        /\ retrieves' = [retrieves EXCEPT ![nid - 1] = ver]
    BY <1>4, Zenon DEF Insert, BeatTo, dvars, hist
  <2>2. nid - 1 \in Ids /\ nid = ver /\ kind = "store"
    BY <2>1, HIdFacts
  <2>3. retrieves \in [Ids -> Vers \cup {None}] /\ ver \in Vers
    BY Zenon DEF HInv, TypeOK, BTypeOK
  <2>4. TypeOK'
    <3>1. retrieves' \in [Ids -> Vers \cup {None}]
      BY <2>1, <2>3, Zenon
    <3> QED BY <2>1, <3>1 DEF HInv, TypeOK, BTypeOK, DTypeOK, Vers, Ids
  <2>5. HBeat'
    BY <2>1, <2>2, Zenon DEF HInv, HBeat
  <2>6. HPage'
    BY <2>1, Zenon DEF HInv, HPage
  <2>7. \A i \in Ids : retrieves'[i] = IF i = nid - 1 THEN ver ELSE retrieves[i]
    BY <2>1, <2>3, Zenon
  <2>8. HRetrieves'
    <3>1. \A i \in Ids : retrieves'[i] # None => retrieves'[i] = i + 1 /\ i < nid
      BY <1>0, <2>2, <2>7 DEF HInv, HRetrieves
    <3> QED BY <2>1, <3>1 DEF HRetrieves, Ids
  <2>9. LeftoverHasCause'
    <3> SUFFICES ASSUME NEW i \in Ids, up, retrieves'[i] # None
                 PROVE  Pending(NotifyReply(i)) \/ i \in ignored
      BY <2>1, Zenon DEF LeftoverHasCause, Pending, Queued, NotifyReply, Ids
    <3>1. CASE i = nid - 1
      BY <2>1, <3>1, Zenon DEF HInv, HRetrieves
    <3>2. CASE i # nid - 1
      BY <2>7, <3>2, Zenon DEF HInv, LeftoverHasCause
    <3> QED BY <3>1, <3>2, Zenon
  <2> QED BY <2>1, <2>4, <2>5, <2>6, <2>8, <2>9, HKept DEF HInv
<1>5. CASE InvalInode
  <2>1. /\ UNCHANGED <<up, sig, main, wpc, cur, mutex, klock, ver, reqs, kind, nid, replies, data, retrieves, ignored, older, lost>>
        /\ kind = "invalidate" /\ bpc = "notify" /\ bpc' = "sleep"
        /\ page' = IF up THEN None ELSE page
        /\ up => klock = "free"
    BY <1>5, Zenon DEF InvalInode, BeatTo, KernelFree, dvars, hist
  <2>2. TypeOK'
    BY <2>1, ZenonT(60) DEF HInv, TypeOK, BTypeOK, DTypeOK, Vers, Ids
  <2>3. HBeat' /\ nid = 0
    BY <2>1, Zenon DEF HInv, HBeat
  <2>4. HPage'
    BY <2>1, Zenon DEF HPage
  <2>5. HLock'
    BY <2>1, Zenon DEF HLock
  <2>6. HReplies'
    <3>1. \A i \in Ids : ~(i < nid)
      BY <2>3, BeatAssumption DEF Ids
    <3>2. \A j \in DOMAIN reqs : \A i \in Ids : reqs[j] # NotifyReply(i)
      BY <3>1, Zenon DEF HInv, HReplies
    <3> QED BY <2>1, <3>2, Zenon DEF HReplies, NotifyReply, Ids
  <2>7. HRetrieves'
    BY <2>1 DEF HInv, HRetrieves, Ids
  <2> QED BY <2>1, <2>2, <2>3, <2>4, <2>5, <2>6, <2>7, HKept DEF HInv
<1> QED
  BY <1>1, <1>2, <1>3, <1>4, <1>5, HRetrieve, Zenon DEF Beats

\* Every step keeps it.
LEMMA HNext == ASSUME HInv, Next PROVE HInv'
  BY HKernel, HLoop, HBeats DEF Next

\* So does a stuttering step.
LEMMA HStutters == ASSUME HInv, UNCHANGED vars PROVE HInv'
<1>1. /\ UNCHANGED <<up, sig, main, wpc, cur>>
      /\ UNCHANGED <<mutex, klock, bpc, ver, reqs>>
      /\ UNCHANGED <<kind, page, nid, replies, data, retrieves, ignored, older, lost>>
  BY Zenon DEF vars, dvars, bvars, hvars, hist
<1>2. TypeOK'
  BY <1>1 DEF HInv, TypeOK, BTypeOK, DTypeOK, Ids, Vers
<1> QED BY <1>1, <1>2, HKept, Zenon DEF HInv

\* The invariant holds of every behaviour of heartbeat.
LEMMA InvHolds == Spec => []HInv
  BY HInit, HNext, HStutters, PTL DEF Spec

----------------------------------------------------------------------------

\* Every variable of heartbeat.rs keeps its type, for any number of beats.
THEOREM HeartbeatTyped == Spec => []TypeOK
<1>1. HInv => TypeOK
  BY DEF HInv
<1> QED BY <1>1, InvHolds, PTL

\* While the beating thread of heartbeat.rs sleeps, the kernel's page holds the content
\* of the last beat or there is none, whatever READ was on its way at the notification.
THEOREM CacheStaysFresh == Spec => []CacheFresh
<1>1. HInv => CacheFresh
  BY DEF HInv, HPage, CacheFresh
<1> QED BY <1>1, InvHolds, PTL

\* A NOTIFY_REPLY of heartbeat.rs never brings content older than the store it follows,
\* and the handler's slice panics only after the kernel has dropped the page.
THEOREM RetrievesAreFresh == Spec => []RetrievedIsFresh
<1>1. HInv => RetrievedIsFresh
  BY DEF HInv
<1> QED BY <1>1, InvHolds, PTL

\* An id stays in the retrieves of heartbeat.rs only while its NOTIFY_REPLY is on the
\* way, or because the reply was handled before the id was inserted.
THEOREM LeftoversExplained == Spec => []LeftoverHasCause
<1>1. HInv => LeftoverHasCause
  BY DEF HInv
<1> QED BY <1>1, InvHolds, PTL

============================================================================
