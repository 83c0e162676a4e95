--------------------------- MODULE ExamplesProofs ---------------------------
(***************************************************************************)
(* The lookup count and the notifications of heartbeat_entry, and the      *)
(* handles of poll, for any number of beats, lookups and files.            *)
(***************************************************************************)
EXTENDS HeartbeatEntry, Poll, TLAPS

----------------------------------------------------------------------------
(* The inductive invariant of heartbeat_entry                              *)

ETypes ==
    /\ EntryTypeOK
    /\ reqs \in Seq(Reqs)
    /\ main # "panic"
    /\ wpc = "recv" => cur = None

\* The counts differ by the FORGET on the way.
ECounts ==
    /\ up => nlookup = knl + forget
    /\ forget <= nlookup
    /\ up /\ forget # 0 => Pending(ForgetReq)

\* A cached name has been counted, and is the current one or the one that the beating
\* thread is about to invalidate.
ECache ==
    /\ up /\ (names # {} \/ found # None) => knl > 0
    /\ up /\ found # None => klock = "answered"
    /\ up /\ ~no_notify => \A x \in names \cup {found} :
          x \in {ver, None} \/ (bpc = "notify" /\ x = ver - 1)

EInv == ETypes /\ ECounts /\ ECache

----------------------------------------------------------------------------
(* The inductive invariant of poll                                         *)

\* The files whose handle is in use: the process has it, or a handler works for it.
Held == {f \in Files : \/ file[f].req \in {"idle", "poll", "wait", "read", "release"}
                       \/ cur = f /\ wpc \in {"poll", "read", "register", "unready", "release"}}

\* The loop works on one of the files.
PCur ==
    /\ wpc = "recv" => cur = None
    /\ cur \in Files \cup {None}
    /\ wpc \in {"open", "poll", "read", "register", "unready", "release"} => cur \in Files

\* A handle in use is in the map, and is of one file.
PHeld ==
    /\ \A f \in Held : file[f].fh \in handles
    /\ \A f, g \in Held : file[f].fh = file[g].fh => f = g

\* A task that notifies has a kh.
PTasks == \A h \in Fhs : task[h] = "notify" => kh[h] # None

PInv == PollTypeOK /\ main # "panic" /\ PCur /\ PHeld /\ PTasks

----------------------------------------------------------------------------
(* Queues                                                                  *)

Has(s, x) == \E i \in DOMAIN s : s[i] = x

\* What is in a queue after an append.
LEMMA AppendHas ==
    ASSUME NEW S, NEW s \in Seq(S), NEW r \in S
    PROVE  /\ Append(s, r) \in Seq(S)
           /\ \A x : Has(Append(s, r), x) <=> Has(s, x) \/ x = r
<1> DEFINE t == Append(s, r)
<1>1. /\ t \in Seq(S) /\ Len(t) = Len(s) + 1 /\ Len(s) \in Nat
      /\ \A i \in 1 .. Len(s) : t[i] = s[i]
      /\ t[Len(s) + 1] = r
  OBVIOUS
<1>2. DOMAIN t = 1 .. Len(s) + 1 /\ DOMAIN s = 1 .. Len(s)
  BY <1>1
<1> HIDE DEF t
<1>3. ASSUME NEW x PROVE Has(t, x) <=> Has(s, x) \/ x = r
  <2>1. ASSUME NEW i \in DOMAIN s, s[i] = x PROVE Has(t, x)
    BY <1>1, <1>2, <2>1 DEF Has
  <2>2. x = r => Has(t, x)
    BY <1>1, <1>2 DEF Has
  <2>3. ASSUME NEW i \in DOMAIN t, t[i] = x PROVE Has(s, x) \/ x = r
    <3>1. i \in 1 .. Len(s) \/ i = Len(s) + 1
      BY <1>1, <1>2
    <3> QED BY <1>1, <1>2, <2>3, <3>1 DEF Has
  <2> QED BY <2>1, <2>2, <2>3 DEF Has
<1> QED BY <1>1, <1>3 DEF t

\* What is in a queue after its head is taken.
LEMMA TailHas ==
    ASSUME NEW S, NEW s \in Seq(S), s # <<>>
    PROVE  /\ Tail(s) \in Seq(S) /\ Head(s) \in S
           /\ \A x : Has(s, x) <=> Head(s) = x \/ Has(Tail(s), x)
<1> DEFINE t == Tail(s)
<1>1. /\ Len(s) \in Nat \ {0} /\ DOMAIN s = 1 .. Len(s) /\ Head(s) = s[1] /\ Head(s) \in S
      /\ t \in Seq(S) /\ Len(t) = Len(s) - 1 /\ \A i \in 1 .. Len(t) : t[i] = s[i + 1]
  OBVIOUS
<1>2. DOMAIN t = 1 .. Len(s) - 1
  BY <1>1
<1> HIDE DEF t
<1>3. ASSUME NEW x PROVE Has(s, x) <=> Head(s) = x \/ Has(t, x)
  <2>1. ASSUME NEW i \in DOMAIN s, s[i] = x PROVE Head(s) = x \/ Has(t, x)
    <3>1. CASE i = 1
      BY <1>1, <2>1, <3>1
    <3>2. CASE i # 1
      <4>1. i - 1 \in DOMAIN t /\ (i - 1) + 1 = i /\ i - 1 \in 1 .. Len(t)
        BY <1>1, <1>2, <3>2
      <4> QED BY <1>1, <2>1, <4>1 DEF Has
    <3> QED BY <3>1, <3>2
  <2>2. Head(s) = x => Has(s, x)
    BY <1>1 DEF Has
  <2>3. ASSUME NEW i \in DOMAIN t, t[i] = x PROVE Has(s, x)
    <3>1. i + 1 \in DOMAIN s /\ i \in 1 .. Len(t)
      BY <1>1, <1>2
    <3> QED BY <1>1, <2>3, <3>1 DEF Has
  <2> QED BY <2>1, <2>2, <2>3 DEF Has
<1> QED BY <1>1, <1>3 DEF t

----------------------------------------------------------------------------
(* heartbeat_entry                                                         *)

\* The invariant of heartbeat_entry holds at the start.
LEMMA EInit ==
    ASSUME EntryInit PROVE EInv
<1>1. ETypes
  BY BeatAssumption DEF EntryInit, BInit, DInit, ETypes, EntryTypeOK, BTypeOK, DTypeOK, Vers
<1>2. ECounts /\ ECache
  BY BeatAssumption, DaemonAssumption DEF EntryInit, BInit, DInit, ECounts, ECache
<1> QED BY <1>1, <1>2 DEF EInv

\* The kernel's steps.
LEMMA EKernel ==
    ASSUME EInv, EntrySends \/ (\E x \in Vers : DropName(x)) \/ Evict
    PROVE  EInv'
<1>1. CASE EntrySends
  <2>a. GetattrReq \in Reqs /\ \A offset \in {0, 1} : Readdir(offset) \in Reqs
    BY DEF Readdir, GetattrReq, Reqs
  <2>b. \A x \in 0 .. ver : Lookup(x) \in Reqs /\ Revalidate(x) \in Reqs
    BY DEF Lookup, Revalidate, Reqs
  <2>1. PICK r \in Reqs, l \in {TRUE, FALSE} : Sends(r, l)
    BY <1>1, <2>a, <2>b, Zenon DEF EntrySends
  <2>2. UNCHANGED <<up, sig, main, wpc, cur, mutex, bpc, ver, no_notify, nlookup, names, found, knl, forget>>
    BY <1>1, <2>1, Zenon DEF EntrySends, Sends, dvars, evars
  <2>3. reqs' = Append(reqs, r) /\ (klock' = klock \/ (klock = "free" /\ klock' = "asked"))
    BY <2>1, Zenon DEF Sends
  <2>4. reqs' \in Seq(Reqs) /\ \A x : Pending(x) => Pending(x)'
    BY <2>2, <2>3, AppendHas DEF EInv, ETypes, Pending, Queued, Has
  <2>5. ETypes'
    BY <2>2, <2>3, <2>4 DEF EInv, ETypes, EntryTypeOK, BTypeOK, DTypeOK
  <2>6. ECounts'
    BY <2>2, <2>4 DEF EInv, ECounts, ForgetReq
  <2>7. ECache'
    BY <2>2, <2>3 DEF EInv, ECache
  <2> QED BY <2>5, <2>6, <2>7 DEF EInv
<1>2. ASSUME NEW x \in Vers, DropName(x)
      PROVE  EInv'
  <2>1. /\ UNCHANGED <<up, sig, main, wpc, cur, mutex, klock, bpc, ver, reqs, no_notify, nlookup, found, knl, forget>>
        /\ names' \subseteq names
    BY <1>2, Zenon DEF DropName, dvars, bvars
  <2>2. ETypes'
    BY <2>1 DEF EInv, ETypes, EntryTypeOK, BTypeOK, DTypeOK
  <2>3. ECounts'
    BY <2>1 DEF EInv, ECounts, Pending, Queued
  <2>4. ECache'
    BY <2>1 DEF EInv, ECache
  <2> QED BY <2>2, <2>3, <2>4 DEF EInv
<1>3. CASE Evict
  <2>0. ForgetReq \in Reqs
    BY DEF ForgetReq, Reqs
  <2>1. /\ UNCHANGED <<up, sig, main, wpc, cur, mutex, bpc, ver, no_notify, nlookup, names, found>>
        /\ up /\ names = {} /\ found = None /\ ~Pending(ForgetReq)
        /\ reqs' = Append(reqs, ForgetReq) /\ klock' = klock
        /\ forget' = knl /\ knl' = 0
    BY <1>3, Zenon DEF Evict, Sends, dvars
  <2>2. reqs' \in Seq(Reqs) /\ Pending(ForgetReq)'
    BY <2>0, <2>1, AppendHas DEF EInv, ETypes, Pending, Queued, Has, ForgetReq
  <2>3. nlookup \in Nat /\ knl \in Nat /\ forget \in Nat
    BY DEF EInv, ETypes, EntryTypeOK
  <2>4. ETypes'
    BY <2>1, <2>2, <2>3 DEF EInv, ETypes, EntryTypeOK, BTypeOK, DTypeOK
  <2>5. forget = 0 /\ nlookup = knl
    BY <2>1, <2>3 DEF EInv, ECounts
  <2>6. ECounts'
    BY <2>1, <2>2, <2>3, <2>5 DEF ECounts
  <2>7. ECache'
    BY <2>1 DEF EInv, ECache
  <2> QED BY <2>4, <2>6, <2>7 DEF EInv
<1> QED BY <1>1, <1>2, <1>3

\* The end of the connection, and the process that has its answer.
LEMMA EEnds ==
    ASSUME EInv, Disconnects \/ EntryUnlocks \/ EntryScope
    PROVE  EInv'
<1>1. CASE Disconnects
  <2>1. UNCHANGED <<main, wpc, cur, mutex, bpc, ver, no_notify, nlookup, forget>>
    BY <1>1, Zenon DEF Disconnects, Ends, Signal, Disconnect
  <2>2. up' = up \/ up' = FALSE
    BY <1>1, Zenon DEF Disconnects, Ends, Signal, Disconnect
  <2>3. sig' \in {"waiting", "ended"}
    BY <1>1, Zenon DEF Disconnects, Ends, Signal, Disconnect, EInv, ETypes, EntryTypeOK, BTypeOK, DTypeOK
  <2>4. /\ up' => klock' = klock /\ reqs' = reqs /\ names' = names /\ found' = found /\ knl' = knl
        /\ ~up' => klock' = "free" /\ reqs' = <<>> /\ names' = {} /\ found' = None /\ knl' = 0
    BY <1>1, Zenon DEF Disconnects, Ends
  <2>5. up' => up
    BY <2>2, Zenon
  <2>6. ETypes'
    <3>1. reqs' \in Seq(Reqs) /\ klock' \in {"free", "asked", "answered"}
      <4>1. <<>> \in Seq(Reqs)
        OBVIOUS
      <4> QED BY <2>4, <4>1, Zenon DEF EInv, ETypes, EntryTypeOK, BTypeOK
    <3>2. knl' \in Nat /\ names' \subseteq Vers /\ found' \in Vers \cup {None}
      BY <2>4 DEF EInv, ETypes, EntryTypeOK
    <3>3. up' \in BOOLEAN
      BY <2>2, Zenon DEF EInv, ETypes, EntryTypeOK, BTypeOK, DTypeOK
    <3> QED BY <2>1, <2>3, <3>1, <3>2, <3>3 DEF EInv, ETypes, EntryTypeOK, BTypeOK, DTypeOK, Vers
  <2>7. ECounts'
    BY <2>1, <2>4, <2>5 DEF EInv, ECounts, Pending, Queued
  <2>8. ECache'
    BY <2>1, <2>4, <2>5 DEF EInv, ECache
  <2> QED BY <2>6, <2>7, <2>8 DEF EInv
<1>2. CASE EntryUnlocks
  <2>1. /\ UNCHANGED <<up, sig, main, wpc, cur, mutex, bpc, ver, reqs, no_notify, nlookup, knl, forget>>
        /\ klock' = "free" /\ found' = None
        /\ names' = IF found = None THEN names ELSE names \cup {found}
    BY <1>2, Zenon DEF EntryUnlocks, KernelUnlocks, dvars
  <2>2. ETypes'
    BY <2>1 DEF EInv, ETypes, EntryTypeOK, BTypeOK, DTypeOK
  <2>3. ECounts'
    BY <2>1 DEF EInv, ECounts, Pending, Queued
  <2>4. ECache'
    BY <2>1 DEF EInv, ECache
  <2> QED BY <2>2, <2>3, <2>4 DEF EInv
<1>3. CASE EntryScope
  <2>1. /\ UNCHANGED <<up, main, wpc, cur, mutex, klock, bpc, ver, reqs, no_notify, nlookup, names, found, knl, forget>>
        /\ sig' = "ended"
    BY <1>3, Zenon DEF EntryScope, SignalsClosed, bvars, evars
  <2>2. ETypes'
    BY <2>1 DEF EInv, ETypes, EntryTypeOK, BTypeOK, DTypeOK
  <2>3. ECounts' /\ ECache'
    BY <2>1 DEF EInv, ECounts, ECache, Pending, Queued
  <2> QED BY <2>2, <2>3 DEF EInv
<1> QED BY <1>1, <1>2, <1>3

\* The receive loop.
LEMMA ELoop ==
    ASSUME EInv, EntryLoop
    PROVE  EInv'
<1>0. nlookup \in Nat /\ knl \in Nat /\ forget \in Nat /\ ver \in Vers
  BY DEF EInv, ETypes, EntryTypeOK, BTypeOK
<1>1. CASE EntryRecv
  <2>1. /\ UNCHANGED <<up, sig, main, mutex, klock, bpc, ver, no_notify, nlookup, names, found, knl, forget>>
        /\ reqs # <<>> /\ reqs' = Tail(reqs) /\ cur' = Head(reqs) /\ wpc = "recv"
        /\ wpc' \in {"lock", "handle"}
    BY <1>1, Zenon DEF EntryRecv, RecvRequest, Receives, evars
  <2>2. reqs' \in Seq(Reqs) /\ \A x \in Reqs : Pending(x) => Pending(x)'
    <3>1. cur \notin Reqs
      BY <2>1, BeatAssumption DEF EInv, ETypes
    <3> QED BY <2>1, <3>1, TailHas DEF EInv, ETypes, Pending, Queued, Has
  <2>3. ETypes'
    BY <2>1, <2>2 DEF EInv, ETypes, EntryTypeOK, BTypeOK, DTypeOK
  <2>4. ECounts'
    <3>1. ForgetReq \in Reqs
      BY DEF ForgetReq, Reqs
    <3> QED BY <2>1, <2>2, <3>1 DEF EInv, ECounts, ForgetReq
  <2>5. ECache'
    BY <2>1 DEF EInv, ECache
  <2> QED BY <2>3, <2>4, <2>5 DEF EInv
<1>2. CASE LoopLocks /\ UNCHANGED evars
  <2>1. /\ UNCHANGED <<up, sig, main, cur, klock, bpc, ver, reqs, no_notify, nlookup, names, found, knl, forget>>
        /\ mutex' = "loop" /\ wpc' = "handle"
    BY <1>2, Zenon DEF LoopLocks, Goto, evars
  <2>2. ETypes'
    BY <2>1 DEF EInv, ETypes, EntryTypeOK, BTypeOK, DTypeOK
  <2>3. ECounts' /\ ECache'
    BY <2>1 DEF EInv, ECounts, ECache, Pending, Queued
  <2> QED BY <2>2, <2>3 DEF EInv
<1>3. ASSUME NEW a \in {TRUE, FALSE}, NEW b \in {TRUE, FALSE}, LoopDone(a, b)
      PROVE  /\ UNCHANGED <<up, sig, main, bpc, ver, reqs>>
             /\ wpc' = "recv" /\ cur' = None
             /\ mutex' \in {"free", mutex}
             /\ klock' = IF b /\ up THEN "answered" ELSE klock
             /\ ~(cur = ForgetReq) => (Pending(ForgetReq) => Pending(ForgetReq)')
  <2>1. /\ UNCHANGED <<up, sig, main, bpc, ver, reqs>>
        /\ wpc' = "recv" /\ cur' = None
        /\ klock' = IF b /\ up THEN "answered" ELSE klock
    BY <1>3, Zenon DEF LoopDone, HandlerDone
  <2>2. mutex' = "free" \/ mutex' = mutex
    BY <1>3, Zenon DEF LoopDone
  <2>3. ~(cur = ForgetReq) => (Pending(ForgetReq) => Pending(ForgetReq)')
    BY <2>1, Zenon DEF Pending, Queued, ForgetReq
  <2> QED BY <2>1, <2>2, <2>3, Zenon
<1>4. CASE HandleLookup
  <2>1. LoopDone(TRUE, cur.kind = "lookup") /\ UNCHANGED <<no_notify, forget>>
    BY <1>4, Zenon DEF HandleLookup
  <2>2. cur.kind = "lookup" \/ cur.kind = "revalidate"
    BY <1>4, Zenon DEF HandleLookup, Handling
  <2>3. cur # ForgetReq
    BY <2>2 DEF ForgetReq
  <2>4. /\ UNCHANGED <<up, sig, main, bpc, ver, reqs>>
        /\ wpc' = "recv" /\ cur' = None
        /\ mutex' \in {"free", mutex}
        /\ klock' = IF cur.kind = "lookup" /\ up THEN "answered" ELSE klock
        /\ Pending(ForgetReq) => Pending(ForgetReq)'
    <3>1. (cur.kind = "lookup") \in {TRUE, FALSE}
      BY Zenon
    <3> QED BY <1>3, <2>1, <2>3, <3>1, Zenon
  <2>5. /\ nlookup' = IF cur.id = ver THEN nlookup + 1 ELSE nlookup
        /\ knl' = IF cur.id = ver /\ up THEN knl + 1 ELSE knl
        /\ found' = IF cur = Lookup(ver) /\ up THEN ver ELSE found
        /\ names' \subseteq names
    BY <1>4, Zenon DEF HandleLookup
  <2>6. ETypes'
    BY <1>0, <2>1, <2>4, <2>5 DEF EInv, ETypes, EntryTypeOK, BTypeOK, DTypeOK
  <2>7. ECounts'
    BY <1>0, <2>1, <2>4, <2>5 DEF EInv, ECounts, ForgetReq
  <2>8. ECache'
    <3>1. cur = Lookup(ver) => cur.kind = "lookup" /\ cur.id = ver
      BY DEF Lookup
    <3> QED BY <1>0, <2>1, <2>4, <2>5, <3>1 DEF EInv, ECache
  <2> QED BY <2>6, <2>7, <2>8 DEF EInv
<1>5. CASE HandleForget
  <2>1. LoopDone(TRUE, FALSE) /\ UNCHANGED <<no_notify, names, found, knl>>
        /\ nlookup' = nlookup - forget /\ forget' = 0
    BY <1>5, Zenon DEF HandleForget
  <2>2. /\ UNCHANGED <<up, sig, main, bpc, ver, reqs, klock>>
        /\ wpc' = "recv" /\ cur' = None
        /\ mutex' \in {"free", mutex}
    BY <1>3, <2>1, Zenon
  <2>3. nlookup - forget \in Nat
    BY <1>0 DEF EInv, ECounts
  <2>4. ETypes'
    BY <2>1, <2>2, <2>3 DEF EInv, ETypes, EntryTypeOK, BTypeOK, DTypeOK
  <2>5. ECounts'
    BY <1>0, <2>1, <2>2, <2>3 DEF EInv, ECounts
  <2>6. ECache'
    BY <2>1, <2>2 DEF EInv, ECache
  <2> QED BY <2>4, <2>5, <2>6 DEF EInv
<1>6. CASE HandleGetattr \/ HandleReaddir
  <2>1. PICK a \in {TRUE, FALSE}, b \in {TRUE, FALSE} : LoopDone(a, b)
    <3>1. Locks(cur) \in {TRUE, FALSE}
      BY Zenon DEF Locks
    <3> QED BY <1>6, <3>1, Zenon DEF HandleGetattr, HandleReaddir
  <2>2. UNCHANGED <<no_notify, nlookup, names, found, knl, forget>>
    BY <1>6, Zenon DEF HandleGetattr, HandleReaddir, evars
  <2>3. cur # ForgetReq
    <3>1. cur.kind = "getattr" \/ cur.kind = "readdir"
      BY <1>6, Zenon DEF HandleGetattr, HandleReaddir, Handling
    <3> QED BY <3>1 DEF ForgetReq
  <2>4. /\ UNCHANGED <<up, sig, main, bpc, ver, reqs>>
        /\ wpc' = "recv" /\ cur' = None
        /\ mutex' \in {"free", mutex}
        /\ klock' \in {"answered", klock}
        /\ Pending(ForgetReq) => Pending(ForgetReq)'
    BY <1>3, <2>1, <2>3, Zenon
  <2>5. ETypes'
    BY <2>2, <2>4 DEF EInv, ETypes, EntryTypeOK, BTypeOK, DTypeOK
  <2>6. ECounts'
    BY <2>2, <2>4 DEF EInv, ECounts, ForgetReq
  <2>7. ECache'
    BY <2>2, <2>4 DEF EInv, ECache
  <2> QED BY <2>5, <2>6, <2>7 DEF EInv
<1>7. CASE LeaveLoop /\ UNCHANGED <<bvars, evars>>
  <2>1. /\ UNCHANGED <<up, sig, cur, mutex, klock, bpc, ver, reqs, no_notify, nlookup, names, found, knl, forget>>
        /\ main' = "closed" /\ wpc' = "left"
    BY <1>7, Zenon DEF LeaveLoop, bvars, evars
  <2>2. ETypes'
    BY <2>1 DEF EInv, ETypes, EntryTypeOK, BTypeOK, DTypeOK
  <2>3. ECounts' /\ ECache'
    BY <2>1 DEF EInv, ECounts, ECache, Pending, Queued
  <2> QED BY <2>2, <2>3 DEF EInv
<1> QED
  BY <1>1, <1>2, <1>4, <1>5, <1>6, <1>7, Zenon DEF EntryLoop

\* The beating thread.
LEMMA EBeats ==
    ASSUME EInv, EntryBeats
    PROVE  EInv'
<1>0. ver \in Nat /\ MaxBeats \in Nat /\ nlookup \in Nat /\ knl \in Nat /\ forget \in Nat
  BY BeatAssumption DEF EInv, ETypes, EntryTypeOK, BTypeOK, Vers
<1>1. CASE Heartbeat
  <2>1. /\ UNCHANGED <<up, sig, main, wpc, cur, klock, reqs, no_notify, nlookup, names, found, knl, forget>>
        /\ bpc = "sleep" /\ ver < MaxBeats
        /\ mutex' = "beat" /\ ver' = ver + 1
        /\ bpc' = IF ~no_notify /\ nlookup > 0 THEN "notify" ELSE "unlock"
    BY <1>1, Zenon DEF Heartbeat, dvars, evars
  <2>2. ETypes'
    <3>1. ver + 1 \in Vers /\ Vers' = Vers
      BY <1>0, <2>1 DEF Vers
    <3> QED BY <2>1, <3>1 DEF EInv, ETypes, EntryTypeOK, BTypeOK, DTypeOK
  <2>3. ECounts'
    BY <2>1 DEF EInv, ECounts, Pending, Queued
  <2>4. ECache'
    <3>1. up /\ (names # {} \/ found # None) => nlookup > 0
      BY <1>0 DEF EInv, ECounts, ECache
    <3>2. ver' - 1 = ver
      BY <1>0, <2>1
    <3>3. up /\ ~no_notify => \A x \in names \cup {found} : x = None \/ (bpc' = "notify" /\ x = ver' - 1)
      <4> SUFFICES ASSUME up, ~no_notify, NEW x \in names \cup {found}, x # None
                   PROVE  bpc' = "notify" /\ x = ver
        BY <3>2
      <4>1. names # {} \/ found # None
        OBVIOUS
      <4>2. bpc' = "notify"
        BY <2>1, <3>1, <4>1
      <4>3. x = ver
        BY <2>1 DEF EInv, ECache
      <4> QED BY <4>2, <4>3
    <3> QED BY <2>1, <3>3, Zenon DEF EInv, ECache
  <2> QED BY <2>2, <2>3, <2>4 DEF EInv
<1>2. CASE InvalEntry
  <2>1. /\ UNCHANGED <<up, sig, main, wpc, cur, mutex, klock, ver, reqs, no_notify, nlookup, found, knl, forget>>
        /\ up => klock = "free"
        /\ names' = names \ {ver - 1} /\ bpc' = "unlock"
    BY <1>2, Zenon DEF InvalEntry, KernelFree, dvars
  <2>2. ETypes'
    BY <2>1 DEF EInv, ETypes, EntryTypeOK, BTypeOK, DTypeOK
  <2>3. ECounts'
    BY <2>1 DEF EInv, ECounts, Pending, Queued
  <2>4. ECache'
    <3>1. up => found = None
      BY <2>1 DEF EInv, ECache
    <3> QED BY <2>1, <3>1 DEF EInv, ECache
  <2> QED BY <2>2, <2>3, <2>4 DEF EInv
<1>3. CASE BeatUnlocks
  <2>1. /\ UNCHANGED <<up, sig, main, wpc, cur, klock, ver, reqs, no_notify, nlookup, names, found, knl, forget>>
        /\ bpc = "unlock" /\ bpc' = "sleep" /\ mutex' = "free"
    BY <1>3, Zenon DEF BeatUnlocks, dvars, evars
  <2>2. ETypes'
    BY <2>1 DEF EInv, ETypes, EntryTypeOK, BTypeOK, DTypeOK
  <2>3. ECounts' /\ ECache'
    BY <2>1 DEF EInv, ECounts, ECache, Pending, Queued
  <2> QED BY <2>2, <2>3 DEF EInv
<1> QED
  BY <1>1, <1>2, <1>3 DEF EntryBeats

\* Every step of heartbeat_entry keeps it.
LEMMA ENext == ASSUME EInv, EntryNext PROVE EInv'
  BY EKernel, EEnds, ELoop, EBeats DEF EntryNext, EntryKernel

\* So does a step of something else.
LEMMA EStutters == ASSUME EInv, UNCHANGED entryVars PROVE EInv'
<1>1. /\ UNCHANGED <<up, sig, main, wpc, cur>>
      /\ UNCHANGED <<mutex, klock, bpc, ver, reqs>>
      /\ UNCHANGED <<no_notify, nlookup, names, found, knl, forget>>
  BY Zenon DEF entryVars, dvars, bvars, evars
<1>2. ETypes'
  BY <1>1 DEF EInv, ETypes, EntryTypeOK, BTypeOK, DTypeOK, Vers
<1>3. ECounts'
  BY <1>1, Zenon DEF EInv, ECounts, Pending, Queued, ForgetReq
<1>4. ECache'
  BY <1>1, Zenon DEF EInv, ECache
<1> QED BY <1>2, <1>3, <1>4, Zenon DEF EInv

\* The invariant holds of every behaviour of heartbeat_entry.
LEMMA EntryInvHolds == EntrySpec => []EInv
  BY EInit, ENext, EStutters, PTL DEF EntrySpec

\* Every variable of heartbeat_entry.rs keeps its type, for any number of beats and
\* lookups: it never takes more from its lookup count than it holds.
THEOREM EntryTyped == EntrySpec => []EntryTypeOK
<1>1. EInv => EntryTypeOK
  BY DEF EInv, ETypes
<1> QED BY <1>1, EntryInvHolds, PTL

\* The lookup count of heartbeat_entry.rs is the kernel's plus the FORGET on the way,
\* although the count goes up only after the reply to the LOOKUP.
THEOREM LookupCountsAgree == EntrySpec => []CountsAgree
<1>1. EInv => CountsAgree
  BY DEF EInv, ECounts, CountsAgree
<1> QED BY <1>1, EntryInvHolds, PTL

\* While the beating thread of heartbeat_entry.rs sleeps, the kernel caches no name but
\* the current one.
THEOREM OldNamesAreGone == EntrySpec => []OldNameGone
<1>1. EInv => OldNameGone
  BY DEF EInv, ECache, OldNameGone
<1> QED BY <1>1, EntryInvHolds, PTL

----------------------------------------------------------------------------
(* poll                                                                    *)

FileStates == [req : Waiting \cup {"none", "idle", "gone"}, mode : {"block", "nonblock", "write"},
               waits : BOOLEAN, triggered : BOOLEAN, told : BOOLEAN, fh : Fhs \cup {None}]
TaskStates == {"sleep", "upgraded", "notify", "done"}

\* The types of Poll, one by one.
LEMMA PTypes ==
    PollTypeOK <=> /\ DTypeOK
                 /\ file \in [Files -> FileStates]
                 /\ next_fh \in Nat
                 /\ handles \subseteq Fhs /\ due \subseteq Fhs /\ late \subseteq Fhs
                 /\ kh \in [Fhs -> Files \cup {None}]
                 /\ task \in [Fhs -> TaskStates]
  BY Zenon DEF PollTypeOK, FileStates, TaskStates

\* A file that is not open.
LEMMA NoFileType ==
    \A r \in {"none", "gone"} : NoFile(r) \in FileStates /\ NoFile(r).req = r
<1>1. TRUE \in BOOLEAN /\ FALSE \in BOOLEAN
  OBVIOUS
<1> QED BY <1>1 DEF NoFile, FileStates

\* A handle in use is a number.
LEMMA PHandles ==
    ASSUME PInv PROVE /\ \A f \in Held : file[f].fh \in Fhs /\ file[f].fh # None
                      /\ None \notin Fhs /\ next_fh \notin Fhs
<1>1. next_fh \in Nat /\ None \notin Nat /\ handles \subseteq Fhs
  BY DaemonAssumption DEF PInv, PollTypeOK
<1>2. None \notin Fhs /\ next_fh \notin Fhs
  BY <1>1 DEF Fhs
<1> QED BY <1>1, <1>2 DEF PInv, PHeld

\* The invariant of poll holds at the start.
LEMMA PInit ==
    ASSUME PollInit PROVE PInv
<1>1. /\ DTypeOK /\ main = "loop" /\ wpc = "recv" /\ cur = None
  BY DEF PollInit, DInit, DTypeOK
<1>2. file = [f \in Files |-> NoFile("none")] /\ next_fh = 0 /\ handles = {} /\ due = {} /\ late = {}
  BY DEF PollInit
<1>3. kh = [h \in Fhs |-> None] /\ task = [h \in Fhs |-> "sleep"]
  BY DEF PollInit
<1>4. PollTypeOK
  BY <1>1, <1>2, <1>3, NoFileType, PTypes DEF TaskStates
<1>5. PCur /\ PTasks
  BY <1>1, <1>3 DEF PCur, PTasks
<1>6. Held = {}
  BY <1>1, <1>2, NoFileType DEF Held
<1>7. PHeld
  BY <1>6 DEF PHeld
<1> QED BY <1>1, <1>4, <1>5, <1>7 DEF PInv

\* A step that gives out no handle.
LEMMA PKept ==
    ASSUME PInv, next_fh' = next_fh, DTypeOK', main' # "panic", PCur',
           file' \in [Files -> FileStates],
           handles' \subseteq handles, due' \subseteq Fhs, late' \subseteq Fhs,
           kh' \in [Fhs -> Files \cup {None}], task' \in [Fhs -> TaskStates],
           Held' \subseteq Held,
           \A f \in Held' : file'[f].fh = file[f].fh /\ file[f].fh \in handles',
           \A h \in Fhs : task'[h] = "notify" => kh'[h] # None
    PROVE  PInv'
<1>1. Fhs' = Fhs /\ FileStates' = FileStates
  BY DEF Fhs, FileStates, Waiting
<1>2. next_fh \in Nat /\ handles \subseteq Fhs
  BY PTypes DEF PInv
<1>3. PollTypeOK'
  BY <1>1, <1>2, Zenon DEF PollTypeOK, FileStates, TaskStates
<1>4. PHeld'
  BY DEF PInv, PHeld
<1>5. PTasks'
  BY <1>1, Zenon DEF PTasks
<1> QED BY <1>3, <1>4, <1>5 DEF PInv

\* A step that changes the files only, and where the loop is.
LEMMA PFiles ==
    ASSUME PInv, UNCHANGED <<next_fh, handles, kh, due, task, late>>, DTypeOK', main' # "panic", PCur',
           file' \in [Files -> FileStates], Held' \subseteq Held,
           \A f \in Held' : file'[f].fh = file[f].fh
    PROVE  PInv'
<1>1. /\ due \subseteq Fhs /\ late \subseteq Fhs
      /\ kh \in [Fhs -> Files \cup {None}] /\ task \in [Fhs -> TaskStates]
  BY PTypes DEF PInv
<1>2. \A h \in Fhs : task'[h] = "notify" => kh'[h] # None
  BY DEF PInv, PTasks
<1>3. \A f \in Held' : file[f].fh \in handles'
  BY DEF PInv, PHeld
<1> QED BY <1>1, <1>2, <1>3, PKept, Zenon

\* The steps of the processes.
LEMMA PClients ==
    ASSUME PInv, Clients
    PROVE  PInv'
<1> DEFINE Keeps(f, from, r) == /\ r.fh = file[f].fh
                                /\ \/ from = "none" /\ r.req = "open"
                                   \/ from = "idle" /\ r.req \in {"poll", "read", "release"}
           Asked(f) == \E from \in {"none", "idle"} : \E r \in FileStates :
                          Asks(f, from, r) /\ Keeps(f, from, r)
<1>0. file \in [Files -> FileStates]
  BY PTypes, Zenon DEF PInv
<1>1. PICK f \in Files : Asked(f)
  <2>1. PICK f \in Files : \/ \E m \in Modes(f) : Opens(f, m)
                           \/ \E w \in BOOLEAN : Polls(f, w)
                           \/ Reads(f) \/ Closes(f)
    BY Zenon DEF Clients
  <2>2. file[f] \in FileStates
    BY <1>0
  <2>3. ASSUME NEW m \in Modes(f), Opens(f, m) PROVE Asked(f)
    <3> DEFINE r == [file[f] EXCEPT !.req = "open", !.mode = m]
    <3>1. r \in FileStates /\ r.fh = file[f].fh /\ r.req = "open"
      BY <2>2, PollAssumption, Zenon DEF FileStates, Waiting
    <3>2. Asks(f, "none", r)
      BY <2>3, Zenon DEF Opens
    <3> HIDE DEF r
    <3> QED BY <3>1, <3>2, Zenon
  <2>4. ASSUME NEW w \in BOOLEAN, Polls(f, w) PROVE Asked(f)
    <3> DEFINE r == [file[f] EXCEPT !.req = "poll", !.waits = w]
    <3>1. r \in FileStates /\ r.fh = file[f].fh /\ r.req = "poll"
      BY <2>2, Zenon DEF FileStates, Waiting
    <3>2. Asks(f, "idle", r)
      BY <2>4, Zenon DEF Polls
    <3> HIDE DEF r
    <3> QED BY <3>1, <3>2, Zenon
  <2>5. ASSUME NEW q \in {"read", "release"}, Asks(f, "idle", [file[f] EXCEPT !.req = q]) PROVE Asked(f)
    <3> DEFINE r == [file[f] EXCEPT !.req = q]
    <3>1. r \in FileStates /\ r.fh = file[f].fh /\ r.req \in {"poll", "read", "release"}
      BY <2>2 DEF FileStates, Waiting
    <3>2. Asks(f, "idle", r)
      BY <2>5
    <3> HIDE DEF r
    <3> QED BY <3>1, <3>2, Zenon
  <2>6. Reads(f) \/ Closes(f) => Asked(f)
    <3> HIDE DEF Asked
    <3> QED BY <2>5, Zenon DEF Reads, Closes
  <2> QED BY <2>1, <2>3, <2>4, <2>6, Zenon
<1>2. PICK from \in {"none", "idle"}, r \in FileStates : Asks(f, from, r) /\ Keeps(f, from, r)
  BY <1>1, Zenon
<1>3. /\ UNCHANGED <<up, sig, main, wpc, cur, next_fh, handles, kh, due, task, late>>
      /\ file[f].req = from /\ file' = [file EXCEPT ![f] = r]
  BY <1>2, Zenon DEF Asks, dvars
<1>4. file' \in [Files -> FileStates]
  BY <1>0, <1>2, <1>3
<1>5. \A g \in Files : file'[g] = IF g = f THEN r ELSE file[g]
  BY <1>0, <1>3
<1>6. DTypeOK' /\ main' # "panic"
  BY <1>3 DEF PInv, PollTypeOK, DTypeOK
<1>7. PCur'
  BY <1>3, Zenon DEF PInv, PCur
<1>8. Held' \subseteq Held /\ \A g \in Held' : file'[g].fh = file[g].fh
  BY <1>2, <1>3, <1>5, Zenon DEF Held
<1> QED
  BY <1>3, <1>4, <1>6, <1>7, <1>8, PFiles

\* The connection ends or stays, and the request at hand is the only one that is kept.
LEMMA PAborts ==
    ASSUME PInv, Abort, DTypeOK', main' # "panic",
           UNCHANGED <<wpc, cur, next_fh, handles, kh, due, task, late>>
    PROVE  PInv'
<1>0. file \in [Files -> FileStates]
  BY PTypes, Zenon DEF PInv
<1>1. file' = IF up' THEN file
              ELSE [f \in Files |-> IF f = cur THEN [file[f] EXCEPT !.req = "gone"] ELSE NoFile("gone")]
  BY Zenon DEF Abort
<1>2. ASSUME NEW f \in Files
      PROVE  /\ file'[f] \in FileStates
             /\ file'[f] = file[f] \/ file'[f].req = "gone"
             /\ f = cur => file'[f].fh = file[f].fh
  <2>1. file[f] \in FileStates
    BY <1>0
  <2>2. CASE up'
    BY <1>1, <2>1, <2>2
  <2>3. CASE ~up' /\ f = cur
    <3>1. file'[f] = [file[f] EXCEPT !.req = "gone"]
      BY <1>1, <2>3, Zenon
    <3> QED BY <2>1, <3>1 DEF FileStates
  <2>4. CASE ~up' /\ f # cur
    <3>1. file'[f] = NoFile("gone")
      BY <1>1, <2>4
    <3> QED BY <2>4, <3>1, NoFileType
  <2> QED BY <2>2, <2>3, <2>4
<1>3. file' \in [Files -> FileStates]
  <2>1. file' = [f \in Files |-> file'[f]]
    BY <1>0, <1>1
  <2> QED BY <1>2, <2>1
<1>4. PCur'
  BY Zenon DEF PInv, PCur
<1>5. Held' \subseteq Held /\ \A f \in Held' : file'[f].fh = file[f].fh
  BY <1>2 DEF Held
<1> QED BY <1>3, <1>4, <1>5, PFiles

\* The loop ends.
LEMMA PEnds ==
    ASSUME PInv, PollEnds \/ PollScope
    PROVE  PInv'
<1>0. DTypeOK /\ main # "panic"
  BY DEF PInv, PollTypeOK
<1>1. Abort /\ UNCHANGED <<wpc, cur, next_fh, handles, kh, due, task, late>>
  BY Zenon DEF PollEnds, PollScope, Signal, Disconnect, SignalsClosed, Joined
<1>2. up' = up \/ up' = FALSE
  BY Zenon DEF PollEnds, PollScope, Signal, Disconnect, SignalsClosed, Joined
<1>3. sig' = sig \/ sig' = "ended"
  BY Zenon DEF PollEnds, PollScope, Signal, Disconnect, SignalsClosed, Joined
<1>4. main' = main \/ main' = "returned"
  BY Zenon DEF PollEnds, PollScope, Signal, Disconnect, SignalsClosed, Joined
<1>5. up' \in BOOLEAN
  BY <1>0, <1>2, Zenon DEF DTypeOK
<1>6. DTypeOK' /\ main' # "panic"
  BY <1>0, <1>3, <1>4, <1>5 DEF DTypeOK
<1> QED BY <1>1, <1>6, PAborts

\* The steps of a reading task.
LEMMA PTask ==
    ASSUME PInv, NEW h \in Fhs, Task(h)
    PROVE  PInv'
<1>0. /\ file \in [Files -> FileStates] /\ kh \in [Fhs -> Files \cup {None}]
      /\ task \in [Fhs -> TaskStates] /\ due \subseteq Fhs /\ late \subseteq Fhs
  BY PTypes, Zenon DEF PInv
<1>1. UNCHANGED <<up, sig, main, wpc, cur, next_fh, handles, kh, late>>
  BY Zenon DEF Task, Deadline, TaskWakes, TaskLooks, TaskNotifies, dvars
<1>2. PCur' /\ DTypeOK' /\ main' # "panic"
  BY <1>1, Zenon DEF PInv, PCur, PollTypeOK, DTypeOK
<1>3. CASE Deadline(h) \/ TaskWakes(h) \/ TaskLooks(h)
  <2>1. UNCHANGED file /\ (due' = due \/ due' = due \cup {h})
    BY <1>3, Zenon DEF Deadline, TaskWakes, TaskLooks
  <2>2. PICK to \in TaskStates :
           task' = [task EXCEPT ![h] = to] /\ (to = "notify" => kh[h] # None)
    <3>1. CASE Deadline(h)
      <4>1. task' = [task EXCEPT ![h] = task[h]] /\ task[h] \in TaskStates
        BY <1>0, <3>1 DEF Deadline
      <4> QED BY <3>1, <4>1, Zenon DEF Deadline
    <3>2. CASE TaskWakes(h) \/ TaskLooks(h)
      BY <3>2 DEF TaskWakes, TaskLooks, Step, TaskStates
    <3> QED BY <1>3, <3>1, <3>2
  <2>3. task' \in [Fhs -> TaskStates] /\ \A g \in Fhs : task'[g] = "notify" => kh'[g] # None
    BY <1>0, <1>1, <2>2, Zenon DEF PInv, PTasks
  <2>4. Held' = Held
    BY <1>1, <2>1, Zenon DEF Held
  <2>5. \A f \in Held' : file'[f].fh = file[f].fh /\ file[f].fh \in handles'
    BY <1>1, <2>1, <2>4, Zenon DEF PInv, PHeld
  <2>6. due' \subseteq Fhs /\ late' \subseteq Fhs /\ handles' \subseteq handles
    BY <1>0, <1>1, <2>1, SMTT(30)
  <2> QED BY <1>0, <1>1, <1>2, <2>1, <2>3, <2>4, <2>5, <2>6, PKept
<1>4. CASE TaskNotifies(h)
  <2> DEFINE k == kh[h]
             old == file[k]
             new == [old EXCEPT !.req = IF old.req = "wait" THEN "poll" ELSE old.req,
                                !.triggered = (old.req = "poll" /\ old.waits)]
  <2>1. UNCHANGED due /\ task[h] = "notify" /\ task' = [task EXCEPT ![h] = "done"]
    BY <1>4, Zenon DEF TaskNotifies, Step
  <2>2. k \in Files
    BY <1>0, <2>1 DEF PInv, PTasks
  <2>3. file' = [file EXCEPT ![k] = new]
    BY <1>4, Zenon DEF TaskNotifies
  <2>4. old \in FileStates
    BY <1>0, <2>2
  <2>5. new \in FileStates /\ new.fh = old.fh /\ (new.req = old.req \/ (old.req = "wait" /\ new.req = "poll"))
    <3> HIDE DEF old
    <3>1. (old.req = "poll" /\ old.waits) \in BOOLEAN
      BY Zenon
    <3> QED BY <2>4, <3>1, Zenon DEF FileStates, Waiting
  <2> HIDE DEF new
  <2>6. \A g \in Files : file'[g] = IF g = k THEN new ELSE file[g]
    BY <1>0, <2>3
  <2>7. file' \in [Files -> FileStates]
    BY <1>0, <2>3, <2>5, Zenon
  <2>8. /\ task' \in [Fhs -> TaskStates]
        /\ \A g \in Fhs : task'[g] = "notify" => kh'[g] # None
    BY <1>0, <1>1, <2>1, Zenon DEF PInv, PTasks, TaskStates
  <2>9. Held' \subseteq Held /\ \A f \in Held' : file'[f].fh = file[f].fh
    BY <1>1, <2>5, <2>6 DEF Held
  <2>10. \A f \in Held' : file[f].fh \in handles'
    BY <1>1, <2>9 DEF PInv, PHeld
  <2> QED BY <1>0, <1>1, <1>2, <2>1, <2>7, <2>8, <2>9, <2>10, PKept
<1> QED BY <1>3, <1>4 DEF Task

\* An answer to the request at hand changes the file of its process only, and leaves it
\* its handle or nothing.
LEMMA PAnswers ==
    ASSUME PInv, cur \in Files, NEW r, NEW S, Answer(r), file \in [Files -> S], r \in S, NoFile("gone") \in S
    PROVE  /\ file' \in [Files -> S]
           /\ \A g \in Files : g # cur => file'[g] = file[g]
           /\ file'[cur].req = "gone" \/ file'[cur] = r
<1> DEFINE new == IF file[cur].req = "gone" THEN NoFile("gone") ELSE r
<1>1. file' = [file EXCEPT ![cur] = new]
  BY Zenon DEF Answer
<1>2. new \in S /\ (new.req = "gone" \/ new = r)
  BY NoFileType, Zenon
<1> HIDE DEF new
<1> QED BY <1>1, <1>2

\* A handler that gives out no handle, answers, and is done.
LEMMA PDone ==
    ASSUME PInv, HandlerDone, wpc \in {"poll", "read", "unready", "release"},
           NEW r \in FileStates, Answer(r),
           \/ r.req = "gone" /\ handles' = handles \ {file[cur].fh}
           \/ r.fh = file[cur].fh /\ handles' = handles,
           UNCHANGED <<next_fh, kh, due, task, late>>
    PROVE  PInv'
<1>0. /\ file \in [Files -> FileStates] /\ cur \in Files /\ cur \in Held
      /\ due \subseteq Fhs /\ late \subseteq Fhs
      /\ kh \in [Fhs -> Files \cup {None}] /\ task \in [Fhs -> TaskStates]
  BY PTypes DEF PInv, PCur, Held
<1>1. wpc' = "recv" /\ cur' = None /\ UNCHANGED <<up, sig, main>>
  BY Zenon DEF HandlerDone
<1>2. /\ file' \in [Files -> FileStates]
      /\ \A g \in Files : g # cur => file'[g] = file[g]
      /\ file'[cur].req = "gone" \/ file'[cur] = r
  BY <1>0, NoFileType, PAnswers, Zenon
<1>3. PCur' /\ DTypeOK' /\ main' # "panic"
  BY <1>1, Zenon DEF PInv, PCur, PollTypeOK, DTypeOK
<1>4. Held' \subseteq Held
  BY <1>0, <1>1, <1>2, Zenon DEF Held
<1>5. ASSUME NEW f \in Held' PROVE file'[f].fh = file[f].fh /\ file[f].fh \in handles'
  <2>1. f \in Files /\ file'[f].req # "gone" /\ f \in Held /\ file[f].fh \in handles
    BY <1>1, <1>4, Zenon DEF PInv, PHeld, Held
  <2>2. CASE f = cur
    BY <1>2, <2>1, <2>2, Zenon
  <2>3. CASE f # cur
    <3>1. file[f].fh # file[cur].fh
      BY <1>0, <2>1, <2>3, Zenon DEF PInv, PHeld
    <3> QED BY <1>2, <2>1, <2>3, <3>1, Zenon
  <2> QED BY <2>2, <2>3, Zenon
<1>6. \A h \in Fhs : task'[h] = "notify" => kh'[h] # None
  BY DEF PInv, PTasks
<1>7. handles' \subseteq handles
  BY Zenon
<1> QED BY <1>0, <1>2, <1>3, <1>4, <1>5, <1>6, <1>7, PKept, SMTT(30)

\* A step of the loop that changes no file, and takes on or keeps a request.
LEMMA PMoves ==
    ASSUME PInv, UNCHANGED <<up, sig, file, next_fh, handles, due, task>>,
           main' = main \/ main' \in {"closed", "error"}, late' \subseteq Fhs,
           kh' \in [Fhs -> Files \cup {None}], \A h \in Fhs : kh[h] # None => kh'[h] # None,
           PCur', Held' \subseteq Held
    PROVE  PInv'
<1>1. DTypeOK' /\ main' # "panic"
  BY Zenon DEF PInv, PollTypeOK, DTypeOK
<1>2. /\ file \in [Files -> FileStates] /\ due \subseteq Fhs /\ task \in [Fhs -> TaskStates]
  BY PTypes, Zenon DEF PInv
<1>3. \A f \in Held' : file'[f].fh = file[f].fh /\ file[f].fh \in handles'
  BY Zenon DEF PInv, PHeld
<1>4. \A h \in Fhs : task'[h] = "notify" => kh'[h] # None
  BY DEF PInv, PTasks
<1>5. /\ file' \in [Files -> FileStates] /\ due' \subseteq Fhs /\ task' \in [Fhs -> TaskStates]
      /\ handles' \subseteq handles
  BY <1>2, Zenon
<1> QED BY <1>1, <1>3, <1>4, <1>5, PKept, Zenon

\* A request is received.
LEMMA PReceives ==
    ASSUME PInv, NEW f \in Files, PollRecv(f)
    PROVE  PInv'
<1>1. /\ UNCHANGED <<up, sig, main, file, next_fh, handles, kh, due, task, late>>
      /\ main = "loop" /\ cur' = f /\ wpc' = file[f].req /\ file[f].req \in Waiting \ {"wait"}
  BY Zenon DEF PollRecv, Receives, pvars
<1>2. PCur'
  BY <1>1 DEF PCur, Waiting
<1>3. kh \in [Fhs -> Files \cup {None}] /\ late \subseteq Fhs
  BY PTypes, Zenon DEF PInv
<1>4. kh' \in [Fhs -> Files \cup {None}] /\ late' \subseteq Fhs
  BY <1>1, <1>3, Zenon
<1>5. \A h \in Fhs : kh[h] # None => kh'[h] # None
  BY <1>1, Zenon
<1>6. Held' \subseteq Held
  BY <1>1, Zenon DEF Held, Waiting
<1> QED BY <1>1, <1>2, <1>4, <1>5, <1>6, PMoves

\* A handler fails, or goes on.
LEMMA PLeaves ==
    ASSUME PInv,
           \/ LeaveLoop /\ UNCHANGED pvars
           \/ /\ Fails("error") \/ (Goto("register") /\ wpc = "poll")
              /\ UNCHANGED <<file, next_fh, handles, kh, due, task, late>>
    PROVE  PInv'
<1>1. UNCHANGED <<up, sig, cur, file, next_fh, handles, kh, due, task, late>>
  BY Zenon DEF LeaveLoop, Fails, Goto, pvars
<1>2. /\ main' = main \/ main' \in {"closed", "error"}
      /\ wpc' = "left" \/ (wpc' = "register" /\ wpc = "poll")
  BY Zenon DEF LeaveLoop, Fails, Goto
<1>3. PCur'
  BY <1>1, <1>2 DEF PInv, PCur
<1>4. kh \in [Fhs -> Files \cup {None}] /\ late \subseteq Fhs
  BY PTypes, Zenon DEF PInv
<1>5. kh' \in [Fhs -> Files \cup {None}] /\ late' \subseteq Fhs
  BY <1>1, <1>4
<1>6. \A h \in Fhs : kh[h] # None => kh'[h] # None
  BY <1>1, Zenon
<1>7. Held' \subseteq Held
  BY <1>1, <1>2, Zenon DEF Held
<1> QED BY <1>1, <1>2, <1>3, <1>5, <1>6, <1>7, PMoves

\* A poll handle is registered.
LEMMA PRegisters ==
    ASSUME PInv, Register
    PROVE  PInv'
<1> DEFINE h == file[cur].fh
           new == IF kh[h] = None THEN cur ELSE kh[h]
<1>0. late \subseteq Fhs /\ kh \in [Fhs -> Files \cup {None}]
  BY PTypes, Zenon DEF PInv
<1>1. UNCHANGED <<up, sig, main, cur, file, next_fh, handles, due, task>> /\ wpc = "register" /\ wpc' = "unready"
  BY Zenon DEF Register, Goto
<1>2. cur \in Files /\ cur \in Held
  BY <1>1 DEF PInv, PCur, Held
<1>3. h \in Fhs
  BY <1>2, PHandles
<1>4. kh' = [kh EXCEPT ![h] = new] /\ (late' = late \/ late' = late \cup {h})
  BY Zenon DEF Register, ThisFh
<1> HIDE DEF h
<1>5. new \in Files \cup {None} /\ new # None
  BY <1>0, <1>2, <1>3, PollAssumption
<1> HIDE DEF new
<1>6. kh' \in [Fhs -> Files \cup {None}] /\ late' \subseteq Fhs
  BY <1>0, <1>3, <1>4, <1>5
<1>7. \A g \in Fhs : kh[g] # None => kh'[g] # None
  BY <1>0, <1>3, <1>4, <1>5, Zenon
<1>8. PCur' /\ Held' \subseteq Held
  BY <1>1 DEF PInv, PCur, Held
<1> QED BY <1>1, <1>6, <1>7, <1>8, PMoves

\* An open that is granted takes a handle that was not given out before.
LEMMA POpens ==
    ASSUME PInv, open
    PROVE  PInv'
<1>0. /\ file \in [Files -> FileStates] /\ handles \subseteq Fhs /\ next_fh \in Nat
      /\ due \subseteq Fhs /\ late \subseteq Fhs
      /\ kh \in [Fhs -> Files \cup {None}] /\ task \in [Fhs -> TaskStates]
  BY PTypes, Zenon DEF PInv
<1>1. wpc = "open" /\ UNCHANGED <<up, sig, main, due, late>> /\ wpc' = "recv" /\ cur' = None
  BY Zenon DEF open, HandlerDone
<1>2. cur \in Files /\ file[cur] \in FileStates
  BY <1>0, <1>1, Zenon DEF PInv, PCur
<1>3. PCur' /\ DTypeOK' /\ main' # "panic"
  BY <1>1 DEF PInv, PCur, PollTypeOK, DTypeOK
<1>4. CASE file[cur].mode # "write"
  <2> DEFINE r == [file[cur] EXCEPT !.req = "idle", !.fh = next_fh]
  <2>1. /\ next_fh' = next_fh + 1 /\ handles' = handles \cup {next_fh}
        /\ kh' = Grown(kh, None) /\ task' = Grown(task, "sleep") /\ Answer(r)
    BY <1>4, Zenon DEF open
  <2>2. None \in Files \cup {None} /\ "sleep" \in TaskStates
    BY DEF TaskStates
  <2>3. /\ Fhs' = Fhs \cup {next_fh}
        /\ kh' \in [Fhs' -> Files \cup {None}] /\ task' \in [Fhs' -> TaskStates]
        /\ \A h \in Fhs : kh'[h] = kh[h] /\ task'[h] = task[h]
        /\ task'[next_fh] = "sleep"
    <3>1. Fhs' = 0 .. next_fh /\ Fhs' = Fhs \cup {next_fh} /\ next_fh \notin Fhs
      BY <1>0, <2>1 DEF Fhs
    <3>2. kh' = [h \in Fhs' |-> IF h = next_fh THEN None ELSE kh[h]]
      BY <2>1, <3>1 DEF Grown
    <3>3. task' = [h \in Fhs' |-> IF h = next_fh THEN "sleep" ELSE task[h]]
      BY <2>1, <3>1, Zenon DEF Grown
    <3>4. kh' \in [Fhs' -> Files \cup {None}] /\ \A h \in Fhs : kh'[h] = kh[h]
      BY <1>0, <3>1, <3>2, Zenon
    <3>5. /\ task' \in [Fhs' -> TaskStates] /\ \A h \in Fhs : task'[h] = task[h]
          /\ task'[next_fh] = "sleep"
      BY <1>0, <2>2, <3>1, <3>3, Zenon
    <3> QED BY <3>1, <3>4, <3>5
  <2>4. FileStates \subseteq FileStates'
    BY <2>3 DEF FileStates, Waiting
  <2>5. r \in FileStates' /\ r.fh = next_fh
    BY <1>2, <2>3, Zenon DEF FileStates, Waiting
  <2> HIDE DEF r
  <2>6. /\ file' \in [Files -> FileStates']
        /\ \A g \in Files : g # cur => file'[g] = file[g]
        /\ file'[cur].req = "gone" \/ file'[cur] = r
    <3>1. file \in [Files -> FileStates'] /\ NoFile("gone") \in FileStates'
      BY <1>0, <2>4, NoFileType, Zenon
    <3> QED BY <1>2, <2>1, <2>5, <3>1, PAnswers, Zenon
  <2>7. PollTypeOK'
    <3>1. next_fh' \in Nat /\ handles' \subseteq Fhs' /\ due' \subseteq Fhs' /\ late' \subseteq Fhs'
      BY <1>0, <1>1, <2>1, <2>3
    <3> QED BY <1>3, <2>3, <2>6, <3>1, Zenon DEF PollTypeOK, FileStates, TaskStates
  <2>8. PTasks'
    BY <2>3, Zenon DEF PInv, PTasks
  <2>9. \A f \in Held' : (f = cur /\ file'[f].fh = next_fh) \/ (f # cur /\ f \in Held /\ file'[f].fh = file[f].fh)
    <3>1. TAKE f \in Held'
    <3>2. f \in Files /\ file'[f].req \in {"idle", "poll", "wait", "read", "release"}
      BY <1>1, Zenon DEF Held
    <3>3. CASE f = cur
      BY <2>5, <2>6, <3>2, <3>3, Zenon
    <3>4. CASE f # cur
      BY <2>6, <3>2, <3>4, Zenon DEF Held
    <3> QED BY <3>3, <3>4, Zenon
  <2>10. \A f \in Held : file[f].fh \in handles /\ file[f].fh # next_fh
    BY PHandles DEF PInv, PHeld
  <2>11. PHeld'
    <3>1. \A f \in Held' : file'[f].fh \in handles'
      BY <2>1, <2>9, <2>10, Zenon
    <3>2. \A f, g \in Held' : file'[f].fh = file'[g].fh => f = g
      BY <2>9, <2>10, Zenon DEF PInv, PHeld
    <3> QED BY <3>1, <3>2, Zenon DEF PHeld
  <2> QED BY <1>3, <2>7, <2>8, <2>11 DEF PInv
<1>5. CASE ~(file[cur].mode # "write")
  <2>1. Answer(NoFile("gone")) /\ UNCHANGED <<next_fh, handles, kh, task>>
    BY <1>5, Zenon DEF open
  <2>2. /\ file' \in [Files -> FileStates]
        /\ \A g \in Files : g # cur => file'[g] = file[g]
        /\ file'[cur].req = "gone" \/ file'[cur] = NoFile("gone")
    BY <1>0, <1>2, <2>1, NoFileType, PAnswers, Zenon
  <2>3. file'[cur].req = "gone"
    BY <2>2, NoFileType, Zenon
  <2>4. Held' \subseteq Held /\ \A f \in Held' : file'[f].fh = file[f].fh
    BY <1>1, <2>2, <2>3 DEF Held
  <2>5. UNCHANGED <<due, late>>
    BY <1>1
  <2> QED BY <1>3, <2>1, <2>2, <2>4, <2>5, PFiles
<1> QED BY <1>4, <1>5

\* The steps of the receive loop.
LEMMA PLoop ==
    ASSUME PInv, PollLoop
    PROVE  PInv'
<1>0. file \in [Files -> FileStates]
  BY PTypes, Zenon DEF PInv
<1>1. ASSUME wpc \in {"poll", "read", "unready", "release"}
      PROVE  file[cur] \in FileStates
  BY <1>0, <1>1 DEF PInv, PCur
<1>2. CASE \E f \in Files : PollRecv(f)
  BY <1>2, PReceives, Zenon
<1>3. CASE open
  BY <1>3, POpens, Zenon
<1>4. CASE read
  <2> DEFINE r == [file[cur] EXCEPT !.req = "idle"]
  <2>1. wpc = "read" /\ UNCHANGED <<next_fh, handles, kh, due, task, late>>
    BY <1>4, Zenon DEF read
  <2>2. (Fails("error") /\ UNCHANGED file) \/ (Answer(r) /\ HandlerDone)
    BY <1>4, Zenon DEF read
  <2>3. r \in FileStates /\ r.fh = file[cur].fh
    BY <1>1, <2>1, Zenon DEF FileStates
  <2> HIDE DEF r
  <2> QED BY <1>1, <2>1, <2>2, <2>3, PLeaves, PDone
<1>5. CASE PollNow
  <2> DEFINE r == [file[cur] EXCEPT !.req = "idle", !.waits = FALSE, !.triggered = FALSE,
                                    !.told = file[cur].told \/ ThisFh \in due]
  <2>1. wpc = "poll" /\ UNCHANGED <<next_fh, handles, kh, due, task, late>>
    BY <1>5, Zenon DEF PollNow
  <2>2. \/ (Fails("error") \/ Goto("register")) /\ UNCHANGED file
        \/ Answer(r) /\ HandlerDone
    BY <1>5, Zenon DEF PollNow
  <2>3. r \in FileStates /\ r.fh = file[cur].fh
    <3>1. FALSE \in BOOLEAN /\ (file[cur].told \/ ThisFh \in due) \in BOOLEAN
      BY Zenon
    <3> QED BY <1>1, <2>1, <3>1, Zenon DEF FileStates
  <2> HIDE DEF r
  <2> QED BY <1>1, <2>1, <2>2, <2>3, PLeaves, PDone
<1>6. CASE Register
  BY <1>6, PRegisters
<1>7. CASE PollUnready
  <2> DEFINE r == [file[cur] EXCEPT !.req = IF file[cur].triggered THEN "poll" ELSE "wait",
                                    !.triggered = FALSE]
  <2>1. wpc = "unready" /\ UNCHANGED <<next_fh, handles, kh, due, task, late>> /\ Answer(r) /\ HandlerDone
    BY <1>7, Zenon DEF PollUnready
  <2>2. r \in FileStates /\ r.fh = file[cur].fh
    <3>1. FALSE \in BOOLEAN
      BY Zenon
    <3> QED BY <1>1, <2>1, <3>1, Zenon DEF FileStates, Waiting
  <2> HIDE DEF r
  <2> QED BY <1>1, <2>1, <2>2, PDone
<1>8. CASE release
  <2>1. /\ wpc = "release" /\ UNCHANGED <<next_fh, kh, due, task, late>>
        /\ Answer(NoFile("gone")) /\ HandlerDone
    BY <1>8, Zenon DEF release
  <2>2. handles' = handles \ {file[cur].fh}
    BY <1>8, Zenon DEF release, ThisFh
  <2> QED BY <1>1, <2>1, <2>2, NoFileType, PDone
<1>9. CASE LeaveLoop /\ UNCHANGED pvars
  BY <1>9, PLeaves
<1> QED
  BY <1>2, <1>3, <1>4, <1>5, <1>6, <1>7, <1>8, <1>9, Zenon DEF PollLoop

\* Every step of poll keeps the invariant.
LEMMA PNext ==
    ASSUME PInv, PollNext PROVE PInv'
  BY PClients, PEnds, PLoop, PTask, Zenon DEF PollNext

\* So does a step of something else.
LEMMA PStutters == ASSUME PInv, UNCHANGED pollVars PROVE PInv'
<1>1. /\ UNCHANGED <<up, sig, main, wpc, cur>>
      /\ UNCHANGED <<file, next_fh, handles, kh, due, task, late>>
  BY Zenon DEF pollVars, dvars, pvars
<1>2. DTypeOK' /\ main' # "panic" /\ PCur'
  BY <1>1, Zenon DEF PInv, PollTypeOK, DTypeOK, PCur
<1>3. file' \in [Files -> FileStates]
  BY <1>1, PTypes DEF PInv
<1>4. Held' \subseteq Held /\ \A f \in Held' : file'[f].fh = file[f].fh
  BY <1>1 DEF Held
<1> QED BY <1>1, <1>2, <1>3, <1>4, PFiles

\* The invariant holds of every behaviour of poll.
LEMMA PollInvHolds == PollSpec => []PInv
  BY PInit, PNext, PStutters, PTL DEF PollSpec

\* Every variable of poll.rs keeps its type, for any number of files: a handle that a
\* process has was given out before.
THEOREM PollTyped == PollSpec => []PollTypeOK
<1>1. PInv => PollTypeOK
  BY DEF PInv
<1> QED BY <1>1, PollInvHolds, PTL

\* Read, Poll and Release of poll.rs find the handle they look up in the map, whatever
\* other files are opened and closed meanwhile: ok_or(INVAL)? never leaves the loop.
HandleFound ==
    wpc \in {"read", "poll", "register", "unready", "release"} => ThisFh \in handles

\* A handler of poll.rs never misses the handle of its request.
THEOREM HandlesAreFound == PollSpec => []HandleFound
<1>1. PInv => HandleFound
  BY DEF PInv, PCur, PHeld, Held, HandleFound, ThisFh
<1> QED BY <1>1, PollInvHolds, PTL

============================================================================
