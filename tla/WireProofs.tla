----------------------------- MODULE WireProofs -----------------------------
(***************************************************************************)
(* What is read from and written to the connection byte by byte: the       *)
(* arguments of a request as Operation::decode takes them apart, for every *)
(* version and any lengths; and the records of a directory, for any names  *)
(* and any sizes of the replies.                                           *)
(***************************************************************************)
EXTENDS Decode, Readdir, TLAPS

----------------------------------------------------------------------------
(* The layouts                                                             *)

NameSeqs == {<<>>, <<"name">>, <<"newname">>, <<"name", "newname">>, <<"name", "link">>}

\* What the proofs need of the layout of an operation.
LayoutOK(k, op, a) ==
    /\ a.pod \in Nat /\ a.names \in NameSeqs
    /\ op \notin Unsupported
    /\ a.pod = 0 /\ a.names = <<>> => op \in {"READLINK", "STATFS"}
    /\ a.names = KernelNames(op)
    /\ ~OldStruct(op, k) => a.pod = KernelPod(op, k)
    /\ op \in {"WRITE", "NOTIFY_REPLY"} /\ ~OldStruct(op, k) => a.names = <<>> /\ a.pod = 5

LayoutsOK(k, f) == \A op \in DOMAIN f : LayoutOK(k, op, f[op])

\* A negotiated connection.
LEMMA ConnFacts ==
    ASSUME NEW k \in Conns
    PROVE  k.minor \in Nat /\ (k.ext => k.minor >= 33)
<1>1. k \in [minor : Minors, ext : BOOLEAN, splice : BOOLEAN] /\ (k.ext => k.minor >= 33)
  BY Zenon DEF Conns
<1> QED
  BY <1>1, DecodeAssumption, Zenon

\* A layout with its struct and its strings.
LEMMA ArgsAre ==
    ASSUME NEW p, NEW n PROVE Args(p, n).pod = p /\ Args(p, n).names = n
BY DEF Args

\* FORGET and the others without a reply.
LEMMA ControlOK == ASSUME NEW k \in Conns PROVE LayoutsOK(k, ControlArgs)
BY ArgsAre DEF LayoutsOK, LayoutOK, ControlArgs, NameSeqs, Unsupported,
   KernelNames, KernelPod, OldStruct, Locks, SetLocks

\* Operations on names.
LEMMA NamespaceOK == ASSUME NEW k \in Conns PROVE LayoutsOK(k, NamespaceArgs(k))
BY ArgsAre, ConnFacts DEF LayoutsOK, LayoutOK, NamespaceArgs, NameSeqs, Unsupported,
   KernelNames, KernelPod, OldStruct, Locks, SetLocks

\* Attributes and links.
LEMMA AttrOK == ASSUME NEW k \in Conns PROVE LayoutsOK(k, AttrArgs)
BY ArgsAre DEF LayoutsOK, LayoutOK, AttrArgs, NameSeqs, Unsupported,
   KernelNames, KernelPod, OldStruct, Locks, SetLocks

\* Regular files.
LEMMA FileOK == ASSUME NEW k \in Conns PROVE LayoutsOK(k, FileArgs(k))
BY ArgsAre, ConnFacts DEF LayoutsOK, LayoutOK, FileArgs, NameSeqs, Unsupported,
   KernelNames, KernelPod, OldStruct, Locks, SetLocks

\* Extended attributes: the version and the flag give the same struct.
LEMMA XattrOK == ASSUME NEW k \in Conns PROVE LayoutsOK(k, XattrArgs(k))
<1>1. k.minor <= 32 \/ ~k.ext <=> ~k.ext
  BY ConnFacts
<1> DEFINE w == IF k.ext THEN 2 ELSE 1
<1>2. (IF k.minor <= 32 \/ ~k.ext THEN 1 ELSE 2) = w /\ w \in 1 .. 2
  BY <1>1
<1> DEFINE f == [SETXATTR |-> Args(w, <<"name">>), GETXATTR |-> Args(1, <<"name">>),
                 LISTXATTR |-> Args(1, <<>>), REMOVEXATTR |-> Args(0, <<"name">>)]
<1>3. XattrArgs(k) = f
  BY <1>2, Zenon DEF XattrArgs
<1>4. ASSUME NEW op \in DOMAIN f PROVE LayoutOK(k, op, f[op])
  <2> HIDE DEF w
  <2>1. op \in {"SETXATTR", "GETXATTR", "LISTXATTR", "REMOVEXATTR"}
    BY Zenon
  <2>2. CASE op = "SETXATTR"
    <3>1. f[op].pod = w /\ f[op].names = <<"name">> /\ w # 0 /\ w \in Nat
      BY <1>2, <2>2, ArgsAre
    <3>2. KernelPod(op, k) = w /\ KernelNames(op) = <<"name">>
      BY <2>2 DEF KernelPod, KernelNames, Unsupported, Locks, SetLocks, w
    <3> QED
      BY <2>2, <3>1, <3>2 DEF LayoutOK, NameSeqs, Unsupported
  <2>3. CASE op # "SETXATTR"
    BY <2>1, <2>3, ArgsAre DEF LayoutOK, NameSeqs, Unsupported,
       KernelNames, KernelPod, OldStruct, Locks, SetLocks
  <2> QED
    BY <2>2, <2>3
<1> QED
  BY <1>3, <1>4 DEF LayoutsOK

\* Directories.
LEMMA DirOK == ASSUME NEW k \in Conns PROVE LayoutsOK(k, DirArgs)
BY ArgsAre DEF LayoutsOK, LayoutOK, DirArgs, NameSeqs, Unsupported,
   KernelNames, KernelPod, OldStruct, Locks, SetLocks

\* Locks.
LEMMA LockOK == ASSUME NEW k \in Conns PROVE LayoutsOK(k, LockArgs)
BY ArgsAre DEF LayoutsOK, LayoutOK, LockArgs, NameSeqs, Unsupported,
   KernelNames, KernelPod, OldStruct, Locks, SetLocks

\* The rest.
LEMMA OtherOK == ASSUME NEW k \in Conns PROVE LayoutsOK(k, OtherArgs)
BY ArgsAre DEF LayoutsOK, LayoutOK, OtherArgs, NameSeqs, Unsupported,
   KernelNames, KernelPod, OldStruct, Locks, SetLocks

\* Every operation that is supported has a layout, whatever the version.
LEMMA FetchedOK ==
    ASSUME NEW k \in Conns, NEW op \in Ops, op \notin Unsupported
    PROVE  LayoutOK(k, op, Fetched(k)[op])
<1> DEFINE m == [minor |-> 44, ext |-> TRUE]
<1>1. op \in DOMAIN Fetched(m)
  BY DEF Ops
<1>2. \E f \in Layouts(m) : op \in DOMAIN f
  BY <1>1, Zenon DEF Fetched
<1>3. \E f \in Layouts(k) : op \in DOMAIN f
  BY <1>2 DEF Layouts, NamespaceArgs, FileArgs, XattrArgs
<1> DEFINE g == CHOOSE f \in Layouts(k) : op \in DOMAIN f
<1>4. g \in Layouts(k) /\ op \in DOMAIN g
  BY <1>3
<1>5. Fetched(k)[op] = g[op]
  BY <1>3 DEF Fetched
<1> HIDE DEF g
<1>6. LayoutsOK(k, g)
  BY <1>4, ControlOK, NamespaceOK, AttrOK, FileOK, XattrOK, DirOK, LockOK, OtherOK DEF Layouts
<1> QED
  BY <1>4, <1>5, <1>6 DEF LayoutsOK

----------------------------------------------------------------------------
(* The decoder                                                             *)

Fields == {"in", "name", "newname", "link", "forgets", "value", "data", "stale"}
Cell == {<<f, i>> : f \in Fields, i \in Nat}

\* Sequences with the same elements are the same.
LEMMA SameSeq ==
    ASSUME NEW s \in Seq(Cell), NEW t \in Seq(Cell), Len(s) = Len(t),
           \A i \in 1 .. Len(s) : s[i] = t[i]
    PROVE  s = t
OBVIOUS

\* The cells of a concatenation.
LEMMA ConcatIs ==
    ASSUME NEW s \in Seq(Cell), NEW t \in Seq(Cell)
    PROVE  /\ s \o t \in Seq(Cell) /\ Len(s \o t) = Len(s) + Len(t)
           /\ Len(s) \in Nat /\ Len(t) \in Nat
           /\ \A i \in 1 .. Len(s) : (s \o t)[i] = s[i]
           /\ \A i \in 1 .. Len(t) : (s \o t)[Len(s) + i] = t[i]
OBVIOUS

\* The cells of a part.
LEMMA SubSeqIs ==
    ASSUME NEW s \in Seq(Cell), NEW a \in Nat, NEW b \in Nat, a + b <= Len(s)
    PROVE  /\ SubSeq(s, a + 1, a + b) \in Seq(Cell) /\ Len(SubSeq(s, a + 1, a + b)) = b
           /\ \A i \in 1 .. b : SubSeq(s, a + 1, a + b)[i] = s[a + i]
OBVIOUS

\* The parts of a concatenation.
LEMMA Parts ==
    ASSUME NEW s \in Seq(Cell), NEW t \in Seq(Cell)
    PROVE  /\ SubSeq(s \o t, 1, Len(s)) = s
           /\ SubSeq(s \o t, Len(s) + 1, Len(s \o t)) = t
<1> DEFINE u == s \o t
           a == SubSeq(u, 0 + 1, 0 + Len(s))
           b == SubSeq(u, Len(s) + 1, Len(s) + Len(t))
<1>1. /\ u \in Seq(Cell) /\ Len(u) = Len(s) + Len(t) /\ Len(s) \in Nat /\ Len(t) \in Nat
      /\ \A i \in 1 .. Len(s) : u[i] = s[i]
      /\ \A i \in 1 .. Len(t) : u[Len(s) + i] = t[i]
  BY ConcatIs
<1>2. SubSeq(s \o t, 1, Len(s)) = a /\ SubSeq(s \o t, Len(s) + 1, Len(s \o t)) = b
  BY <1>1
<1> HIDE DEF u
<1>3. a \in Seq(Cell) /\ Len(a) = Len(s) /\ \A i \in 1 .. Len(s) : a[i] = u[0 + i]
  BY <1>1, SubSeqIs
<1>4. b \in Seq(Cell) /\ Len(b) = Len(t) /\ \A i \in 1 .. Len(t) : b[i] = u[Len(s) + i]
  BY <1>1, SubSeqIs
<1> HIDE DEF a, b
<1>5. \A i \in 1 .. Len(s) : 0 + i = i
  BY <1>1
<1>6. a = s
  BY <1>1, <1>3, <1>5, SameSeq
<1>7. b = t
  BY <1>1, <1>4, SameSeq
<1> QED
  BY <1>2, <1>6, <1>7

\* Concatenation is associative.
LEMMA Assoc ==
    ASSUME NEW s \in Seq(Cell), NEW t \in Seq(Cell), NEW u \in Seq(Cell)
    PROVE  (s \o t) \o u = s \o (t \o u)
OBVIOUS

\* The empty sequence.
LEMMA NoCells ==
    ASSUME NEW s \in Seq(Cell)
    PROVE  /\ <<>> \o s = s /\ s \o <<>> = s /\ <<>> \in Seq(Cell)
           /\ (Len(s) = 0 <=> s = <<>>)
OBVIOUS

\* A sequence of one cell.
LEMMA OneCell ==
    ASSUME NEW x \in Cell
    PROVE  <<x>> \in Seq(Cell) /\ Len(<<x>>) = 1 /\ <<x>>[1] = x
OBVIOUS

\* fetch_bytes of the first part of what is there.
LEMMA FetchIs ==
    ASSUME NEW s \in Seq(Cell), NEW t \in Seq(Cell)
    PROVE  FetchBytes(s \o t, Len(s)) = [ok |-> TRUE, got |-> s, rest |-> t]
<1>1. ~(Len(s \o t) < Len(s))
  BY ConcatIs
<1> QED
  BY <1>1, Parts, Zenon DEF FetchBytes

\* fetch_bytes fails when there is too little.
LEMMA FetchShort ==
    ASSUME NEW s \in Seq(Cell), NEW n \in Nat, Len(s) < n
    PROVE  FetchBytes(s, n) = Eof
BY DEF FetchBytes

\* fetch_str takes the string that comes first.
LEMMA StrIs ==
    ASSUME NEW x \in Cell, IsString(x), NEW t \in Seq(Cell)
    PROVE  FetchStr(<<x>> \o t) = [ok |-> TRUE, got |-> <<x>>, rest |-> t]
<1> DEFINE s == <<x>> \o t
           P(i) == IsString(s[i]) /\ \A j \in 1 .. i - 1 : ~IsString(s[j])
<1>1. s \in Seq(Cell) /\ Len(s) = 1 + Len(t) /\ Len(t) \in Nat /\ s[1] = x
  BY OneCell, ConcatIs
<1> HIDE DEF s
<1>2. 1 \in DOMAIN s /\ DOMAIN s = 1 .. Len(s) /\ Len(s) \in Nat
  BY <1>1
<1>3. P(1)
  BY <1>1
<1>4. ASSUME NEW i \in DOMAIN s, P(i) PROVE i = 1
  <2>1. i \in Nat /\ (i > 1 => 1 \in 1 .. i - 1) /\ i >= 1
    BY <1>2
  <2> QED
    BY <1>1, <1>4, <2>1
<1>5. (CHOOSE i \in DOMAIN s : P(i)) = 1
  BY <1>2, <1>3, <1>4
<1>6. FetchStr(s) = FetchBytes(s, 1)
  BY <1>2, <1>3, <1>5 DEF FetchStr
<1> QED
  BY <1>6, OneCell, FetchIs, Zenon DEF s

\* fetch_str fails when nothing is left.
LEMMA StrNone == FetchStr(<<>>) = Eof
BY DEF FetchStr

----------------------------------------------------------------------------
(* What the kernel sends                                                   *)

NameCells(N) == [i \in 1 .. Len(N) |-> <<N[i], 1>>]

\* The words of a field.
LEMMA WordsAre ==
    ASSUME NEW f \in Fields, NEW n \in Nat
    PROVE  Words(f, n) \in Seq(Cell) /\ Len(Words(f, n)) = n
<1>1. \A i \in 1 .. n : <<f, i>> \in Cell
  BY DEF Cell
<1> QED
  BY <1>1 DEF Words

\* The strings of an argument.
LEMMA NameCellsAre ==
    ASSUME NEW N \in NameSeqs
    PROVE  \/ Len(N) = 0 /\ N = <<>> /\ NameCells(N) = <<>>
           \/ /\ Len(N) = 1 /\ NameCells(N) = <<<<N[1], 1>>>>
              /\ <<N[1], 1>> \in Cell /\ IsString(<<N[1], 1>>)
           \/ /\ Len(N) = 2 /\ NameCells(N) = <<<<N[1], 1>>>> \o <<<<N[2], 1>>>>
              /\ <<N[1], 1>> \in Cell /\ IsString(<<N[1], 1>>)
              /\ <<N[2], 1>> \in Cell /\ IsString(<<N[2], 1>>)
<1>1. CASE N = <<>>
  BY <1>1 DEF NameCells
<1>2. CASE N = <<"name">> \/ N = <<"newname">>
  <2>1. Len(N) = 1 /\ N[1] \in {"name", "newname"}
    BY <1>2
  <2>2. NameCells(N) = <<<<N[1], 1>>>>
    BY <2>1 DEF NameCells
  <2> QED
    BY <2>1, <2>2 DEF Cell, Fields, IsString
<1>3. CASE N = <<"name", "newname">> \/ N = <<"name", "link">>
  <2>1. Len(N) = 2 /\ N[1] = "name" /\ N[2] \in {"newname", "link"}
    BY <1>3
  <2>2. NameCells(N) = <<<<N[1], 1>>>> \o <<<<N[2], 1>>>>
    BY <2>1 DEF NameCells
  <2> QED
    BY <2>1, <2>2 DEF Cell, Fields, IsString
<1> QED
  BY <1>1, <1>2, <1>3, Zenon DEF NameSeqs

\* The strings as cells.
LEMMA StringsAre ==
    ASSUME NEW N \in NameSeqs
    PROVE  /\ NameCells(N) \in Seq(Cell) /\ Len(N) \in 0 .. 2
           /\ Len(NameCells(N)) = Len(N) /\ (Len(N) = 0 => N = <<>>)
<1> DEFINE c1 == <<N[1], 1>>
           c2 == <<N[2], 1>>
<1>1. /\ c1 \in Cell => <<c1>> \in Seq(Cell)
      /\ c2 \in Cell => <<c2>> \in Seq(Cell)
  BY OneCell
<1>2. c1 \in Cell /\ c2 \in Cell => <<c1>> \o <<c2>> \in Seq(Cell)
  BY <1>1, ConcatIs
<1>3. <<>> \in Seq(Cell)
  OBVIOUS
<1>4. NameCells(N) \in Seq(Cell)
  BY <1>1, <1>2, <1>3, NameCellsAre, Zenon
<1>5. (Len(N) = 0 /\ N = <<>>) \/ Len(N) = 1 \/ Len(N) = 2
  BY NameCellsAre, Zenon
<1>6. Len(N) \in 0 .. 2 /\ (Len(N) = 0 => N = <<>>)
  BY <1>5
<1>7. Len(NameCells(N)) = Len(N)
  BY <1>6 DEF NameCells
<1> QED
  BY <1>4, <1>6, <1>7

\* A struct of p words, strings N and a tail T, before the end is cut off.
Message(p, N, T) == Words("in", p) \o NameCells(N) \o T

\* What decode fetches of an argument with a struct, strings and more.
Pod(p, arg) == FetchBytes(arg, p)
Str1(p, N, arg) == IF Len(N) >= 1 THEN FetchStr(Pod(p, arg).rest) ELSE Pod(p, arg)
Str2(p, N, arg) == IF Len(N) >= 2 THEN FetchStr(Str1(p, N, arg).rest) ELSE Str1(p, N, arg)

\* They are what was sent, and the tail is left.
Parsed(p, N, T, arg) ==
    /\ Pod(p, arg).ok /\ Str1(p, N, arg).ok /\ Str2(p, N, arg).ok
    /\ Pod(p, arg).got = Words("in", p)
    /\ Len(N) >= 1 => Str1(p, N, arg).got = <<<<N[1], 1>>>>
    /\ Len(N) >= 2 => Str2(p, N, arg).got = <<<<N[2], 1>>>>
    /\ Str2(p, N, arg).rest = T

\* So it is with a complete argument.
LEMMA ParseWhole ==
    ASSUME NEW p \in Nat, NEW N \in NameSeqs, NEW T \in Seq(Cell)
    PROVE  Parsed(p, N, T, Message(p, N, T))
<1> DEFINE arg == Message(p, N, T)
           W == Words("in", p)
           C == NameCells(N)
           c1 == <<N[1], 1>>
           c2 == <<N[2], 1>>
<1>1. W \in Seq(Cell) /\ Len(W) = p
  BY WordsAre DEF Fields
<1>2. \/ Len(N) = 0 /\ C = <<>>
      \/ Len(N) = 1 /\ C = <<c1>> /\ c1 \in Cell /\ IsString(c1)
      \/ /\ Len(N) = 2 /\ C = <<c1>> \o <<c2>>
         /\ c1 \in Cell /\ IsString(c1) /\ c2 \in Cell /\ IsString(c2)
  BY NameCellsAre
<1>3. C \in Seq(Cell)
  BY StringsAre
<1>4. arg = W \o (C \o T) /\ C \o T \in Seq(Cell)
  <2>1. C \o T \in Seq(Cell)
    BY <1>3, ConcatIs, Zenon
  <2>2. (W \o C) \o T = W \o (C \o T)
    BY <1>1, <1>3, Assoc, Zenon
  <2> QED
    BY <2>1, <2>2, Zenon DEF Message
<1> SUFFICES Parsed(p, N, T, arg)
  OBVIOUS
<1> HIDE DEF W, C, c1, c2, arg
<1>5. Pod(p, arg) = [ok |-> TRUE, got |-> W, rest |-> C \o T]
  BY <1>1, <1>4, FetchIs, Zenon DEF Pod
<1>6. CASE Len(N) = 0
  <2>1. Str1(p, N, arg) = Pod(p, arg) /\ Str2(p, N, arg) = Pod(p, arg)
    BY <1>6 DEF Str1, Str2
  <2>2. C \o T = T
    BY <1>2, <1>6, NoCells
  <2> QED
    BY <1>5, <1>6, <2>1, <2>2 DEF Parsed, W
<1>7. CASE Len(N) = 1
  <2>1. Str1(p, N, arg) = FetchStr(<<c1>> \o T) /\ Str2(p, N, arg) = Str1(p, N, arg)
    BY <1>2, <1>5, <1>7 DEF Str1, Str2
  <2>2. Str1(p, N, arg) = [ok |-> TRUE, got |-> <<c1>>, rest |-> T]
    BY <1>2, <1>7, <2>1, StrIs
  <2> QED
    BY <1>5, <1>7, <2>1, <2>2 DEF Parsed, W, c1
<1>8. CASE Len(N) = 2
  <2>1. /\ c1 \in Cell /\ IsString(c1) /\ c2 \in Cell /\ IsString(c2)
        /\ C = <<c1>> \o <<c2>>
    BY <1>2, <1>8
  <2>2. C \o T = <<c1>> \o (<<c2>> \o T) /\ <<c2>> \o T \in Seq(Cell)
    BY <2>1, OneCell, Assoc, ConcatIs
  <2>3. Str1(p, N, arg) = FetchStr(<<c1>> \o (<<c2>> \o T))
    BY <1>5, <1>8, <2>2 DEF Str1
  <2>4. Str1(p, N, arg) = [ok |-> TRUE, got |-> <<c1>>, rest |-> <<c2>> \o T]
    BY <2>1, <2>2, <2>3, StrIs, Zenon
  <2>5. Str2(p, N, arg) = [ok |-> TRUE, got |-> <<c2>>, rest |-> T]
    BY <1>8, <2>1, <2>4, StrIs DEF Str2
  <2> QED
    BY <1>5, <1>8, <2>4, <2>5 DEF Parsed, W, c1, c2
<1> QED
  BY <1>2, <1>6, <1>7, <1>8

\* A sequence that is not empty has a last cell.
LEMMA LastCell ==
    ASSUME NEW s \in Seq(Cell), s # <<>>
    PROVE  \E t \in Seq(Cell), x \in Cell : s = t \o <<x>> /\ Len(s) = Len(t) + 1
<1> DEFINE b == Len(s) - 1
           t == SubSeq(s, 0 + 1, 0 + b)
           x == s[Len(s)]
<1>1. Len(s) \in Nat /\ Len(s) > 0 /\ x \in Cell
  OBVIOUS
<1>2. t \in Seq(Cell) /\ Len(t) = Len(s) - 1 /\ \A i \in 1 .. Len(s) - 1 : t[i] = s[0 + i]
  <2>1. b \in Nat /\ 0 \in Nat /\ 0 + b <= Len(s)
    BY <1>1
  <2> HIDE DEF b
  <2>2. t \in Seq(Cell) /\ Len(t) = b /\ \A i \in 1 .. b : t[i] = s[0 + i]
    BY <2>1, SubSeqIs, Zenon
  <2> QED
    BY <2>2 DEF b
<1>3. <<x>> \in Seq(Cell) /\ Len(<<x>>) = 1 /\ <<x>>[1] = x
  BY <1>1
<1> DEFINE u == t \o <<x>>
<1> HIDE DEF t
<1>4. /\ u \in Seq(Cell) /\ Len(u) = Len(t) + 1
      /\ \A i \in 1 .. Len(t) : u[i] = t[i]
      /\ u[Len(t) + 1] = x
  <2>1. /\ u \in Seq(Cell) /\ Len(u) = Len(t) + Len(<<x>>)
        /\ \A i \in 1 .. Len(t) : u[i] = t[i]
        /\ \A i \in 1 .. Len(<<x>>) : u[Len(t) + i] = <<x>>[i]
    BY <1>2, <1>3, ConcatIs, ZenonT(60)
  <2>2. 1 \in 1 .. Len(<<x>>)
    BY <1>3
  <2> HIDE DEF u, x
  <2> QED
    BY <1>3, <2>1, <2>2
<1>5. \A i \in 1 .. Len(s) : u[i] = s[i]
  <2> HIDE DEF u
  <2> SUFFICES ASSUME NEW i \in 1 .. Len(s) PROVE u[i] = s[i]
    OBVIOUS
  <2>1. CASE i = Len(s)
    BY <1>1, <1>2, <1>4, <2>1
  <2>2. CASE i # Len(s)
    BY <1>1, <1>2, <1>4, <2>2
  <2> QED
    BY <2>1, <2>2
<1>6. u = s
  <2> HIDE DEF u
  <2> QED
    BY <1>1, <1>2, <1>4, <1>5, SameSeq
<1> QED
  BY <1>1, <1>2, <1>6

\* Without its last cell.
LEMMA CutLast ==
    ASSUME NEW s \in Seq(Cell), NEW x \in Cell
    PROVE  SubSeq(s \o <<x>>, 1, Len(s \o <<x>>) - 1) = s
<1>1. Len(s \o <<x>>) - 1 = Len(s)
  BY OneCell, ConcatIs
<1> QED
  BY <1>1, OneCell, Parts

\* Decode notices that the last cell is missing.
LEMMA ParseCut ==
    ASSUME NEW p \in Nat, NEW N \in NameSeqs, NEW T \in Seq(Cell),
           ~(p = 0 /\ N = <<>> /\ T = <<>>), NEW arg,
           arg = SubSeq(Message(p, N, T), 1, Len(Message(p, N, T)) - 1)
    PROVE  ~(/\ Pod(p, arg).ok /\ Str1(p, N, arg).ok /\ Str2(p, N, arg).ok
             /\ T # <<>> => FetchBytes(Str2(p, N, arg).rest, Len(T)).ok)
<1> DEFINE W == Words("in", p)
           C == NameCells(N)
           c1 == <<N[1], 1>>
           c2 == <<N[2], 1>>
<1>1. W \in Seq(Cell) /\ Len(W) = p
  BY WordsAre DEF Fields
<1>2. \/ Len(N) = 0 /\ N = <<>> /\ C = <<>>
      \/ Len(N) = 1 /\ C = <<c1>> /\ c1 \in Cell /\ IsString(c1)
      \/ /\ Len(N) = 2 /\ C = <<c1>> \o <<c2>>
         /\ c1 \in Cell /\ IsString(c1) /\ c2 \in Cell /\ IsString(c2)
  BY NameCellsAre, Zenon
<1>3. C \in Seq(Cell) /\ <<>> \in Seq(Cell)
  BY <1>1, StringsAre, NoCells
<1> HIDE DEF W, C, c1, c2
<1>4. W \o C \in Seq(Cell) /\ Message(p, N, T) = (W \o C) \o T
  BY <1>1, <1>3, ConcatIs DEF Message, W, C
<1>5. ~Eof.ok
  BY DEF Eof
<1>6. CASE T # <<>>
  <2>1. PICK t \in Seq(Cell), x \in Cell : T = t \o <<x>> /\ Len(T) = Len(t) + 1
    BY <1>6, LastCell, Zenon
  <2>2. <<x>> \in Seq(Cell) /\ (W \o C) \o t \in Seq(Cell)
    BY <1>4, OneCell, ConcatIs
  <2>3. Message(p, N, T) = ((W \o C) \o t) \o <<x>>
    <3> DEFINE V == W \o C
    <3>1. V \in Seq(Cell) /\ Message(p, N, T) = V \o (t \o <<x>>)
      BY <1>4, <2>1, Zenon
    <3> HIDE DEF V
    <3>2. (V \o t) \o <<x>> = V \o (t \o <<x>>)
      BY <2>2, <3>1, Assoc, ZenonT(60)
    <3> QED
      BY <3>1, <3>2, Zenon DEF V
  <2>4. arg = Message(p, N, t)
    <3> DEFINE Q == (W \o C) \o t
    <3>1. Q \in Seq(Cell) /\ Message(p, N, T) = Q \o <<x>>
      BY <2>2, <2>3, Zenon
    <3>2. Q = Message(p, N, t)
      BY Zenon DEF Message, W, C
    <3> HIDE DEF Q
    <3>3. arg = Q
      BY <3>1, CutLast, Zenon
    <3> QED
      BY <3>2, <3>3, Zenon
  <2>5. Str2(p, N, arg).rest = t
    <3>1. Parsed(p, N, t, arg)
      BY <2>4, ParseWhole, Zenon
    <3> QED
      BY <3>1, Zenon DEF Parsed
  <2>6. FetchBytes(t, Len(T)) = Eof
    <3>1. Len(t) \in Nat /\ Len(T) \in Nat /\ Len(t) < Len(T)
      BY <2>1
    <3> QED
      BY <3>1, FetchShort
  <2> QED
    BY <1>5, <1>6, <2>5, <2>6
<1>7. CASE T = <<>> /\ Len(N) = 0
  <2>0. C = <<>> /\ W \o <<>> = W /\ p > 0
    BY <1>1, <1>2, <1>7, NoCells
  <2>1. Message(p, N, T) = W /\ p > 0
    BY <1>4, <1>7, <2>0, Zenon
  <2>2. W # <<>>
    BY <1>1, <2>1
  <2>3. PICK t \in Seq(Cell), x \in Cell : W = t \o <<x>> /\ Len(W) = Len(t) + 1
    BY <1>1, <2>2, LastCell, Zenon
  <2>4. arg = t /\ Len(t) \in Nat /\ Len(t) < p
    BY <1>1, <2>1, <2>3, CutLast
  <2> QED
    BY <1>5, <2>4, FetchShort, Zenon DEF Pod
<1>8. CASE T = <<>> /\ Len(N) = 1
  <2>0. c1 \in Cell /\ C = <<c1>>
    BY <1>2, <1>8
  <2>1. c1 \in Cell /\ Message(p, N, T) = W \o <<c1>>
    BY <1>4, <1>8, <2>0, NoCells, Zenon
  <2>2. arg = W
    BY <1>1, <2>1, CutLast
  <2>3. Pod(p, arg) = [ok |-> TRUE, got |-> W, rest |-> <<>>]
    <3>1. W = W \o <<>>
      BY <1>1, NoCells
    <3>2. FetchBytes(W \o <<>>, p) = [ok |-> TRUE, got |-> W, rest |-> <<>>]
      BY <1>1, <1>3, FetchIs, Zenon
    <3> QED
      BY <2>2, <3>1, <3>2, Zenon DEF Pod
  <2>4. Str1(p, N, arg) = Eof
    BY <1>8, <2>3, StrNone DEF Str1
  <2> QED
    BY <1>5, <2>4
<1>9. CASE T = <<>> /\ Len(N) = 2
  <2>1. /\ c1 \in Cell /\ c2 \in Cell /\ IsString(c1) /\ <<c1>> \in Seq(Cell)
        /\ <<c2>> \in Seq(Cell) /\ Message(p, N, T) = W \o (<<c1>> \o <<c2>>)
    <3>1. c1 \in Cell /\ c2 \in Cell /\ IsString(c1) /\ C = <<c1>> \o <<c2>>
      BY <1>2, <1>9
    <3> QED
      BY <1>4, <1>9, <3>1, NoCells, OneCell, Zenon
  <2>2. Message(p, N, T) = (W \o <<c1>>) \o <<c2>> /\ W \o <<c1>> \in Seq(Cell)
    BY <1>1, <2>1, Assoc, ConcatIs
  <2>3. arg = W \o <<c1>>
    BY <2>1, <2>2, CutLast
  <2>4. Pod(p, arg) = [ok |-> TRUE, got |-> W, rest |-> <<c1>>]
    BY <1>1, <2>1, <2>3, FetchIs, Zenon DEF Pod
  <2>5. <<c1>> = <<c1>> \o <<>>
    BY <2>1, NoCells
  <2>6. FetchStr(<<c1>> \o <<>>) = [ok |-> TRUE, got |-> <<c1>>, rest |-> <<>>]
    BY <1>3, <2>1, StrIs, Zenon
  <2>7. Str1(p, N, arg) = [ok |-> TRUE, got |-> <<c1>>, rest |-> <<>>]
    BY <1>9, <2>4, <2>5, <2>6 DEF Str1
  <2>8. Str2(p, N, arg) = Eof
    BY <1>9, <2>7, StrNone DEF Str2
  <2> QED
    BY <1>5, <2>8
<1> QED
  BY <1>2, <1>6, <1>7, <1>8, <1>9

----------------------------------------------------------------------------
(* decode                                                                  *)

\* The array after the strings.
Tail1(r, rest) == IF r.op \in {"BATCH_FORGET", "SETXATTR"}
                  THEN FetchBytes(rest, r.tail) ELSE FetchBytes(<<>>, 0)

\* The values in the header and in the struct that decode accepts.
ValuesOK(r) ==
    /\ r.op \in NoNode \/ r.nodeid # 0
    /\ r.op \in TwoNodes => r.node2 # 0
    /\ r.op \in Locks => r.flock \/ r.pid # 0
    /\ r.op \in SetLocks /\ r.flock => r.known
    /\ r.op = "LSEEK" => r.known

\* d is an operation with these fields, if all could be fetched and the values are good.
DecodedTo(d, r, pod, s1, s2, tail, N, remains) ==
    /\ d.kind = "Ok" <=> pod.ok /\ s1.ok /\ s2.ok /\ tail.ok /\ ValuesOK(r)
    /\ d.kind = "Ok" =>
         /\ d.fields = <<pod.got, IF Len(N) >= 1 THEN s1.got ELSE <<>>,
                         IF Len(N) >= 2 THEN s2.got ELSE <<>>, tail.got>>
         /\ d.remains = remains

\* decode returns an operation if it can fetch everything and accepts the values.
LEMMA DecodeIs ==
    ASSUME NEW k, NEW r, r.op \notin Unsupported, NEW arg, NEW remains, NEW p, NEW N,
           p = Fetched(k)[r.op].pod, N = Fetched(k)[r.op].names
    PROVE  DecodedTo(Decode(k, r, arg, remains), r, Pod(p, arg), Str1(p, N, arg),
                     Str2(p, N, arg), Tail1(r, Str2(p, N, arg).rest), N, remains)
<1> DEFINE pod == Pod(p, arg)
           s1 == Str1(p, N, arg)
           s2 == Str2(p, N, arg)
           tail == Tail1(r, s2.rest)
           f == <<pod.got, IF Len(N) >= 1 THEN s1.got ELSE <<>>,
                  IF Len(N) >= 2 THEN s2.got ELSE <<>>, tail.got>>
           good == [kind |-> "Ok", fields |-> f, remains |-> remains]
           bad == {Result("UnexpectedEof"), Result("MissingNulCharacter"),
                   Result("InvalidNodeID"), Result("InvalidPid"),
                   Result("InvalidFlockType"), Result("UnknownLseekWhence")}
           ok == pod.ok /\ s1.ok /\ s2.ok /\ tail.ok /\ ValuesOK(r)
           d == CASE r.op \in Unsupported -> Result("Unsupported")
                  [] r.op \notin Unsupported /\ ~pod.ok -> Result("UnexpectedEof")
                  [] r.op \notin Unsupported /\ pod.ok /\ ~(s1.ok /\ s2.ok) ->
                       Result("MissingNulCharacter")
                  [] r.op \notin Unsupported /\ pod.ok /\ s1.ok /\ s2.ok ->
                       IF ~tail.ok THEN Result("UnexpectedEof")
                       ELSE IF r.op \notin NoNode /\ r.nodeid = 0 THEN Result("InvalidNodeID")
                       ELSE IF r.op \in TwoNodes /\ r.node2 = 0 THEN Result("InvalidNodeID")
                       ELSE IF r.op \in Locks /\ ~r.flock /\ r.pid = 0
                            THEN Result("InvalidPid")
                       ELSE IF r.op \in SetLocks /\ r.flock /\ ~r.known
                            THEN Result("InvalidFlockType")
                       ELSE IF r.op = "LSEEK" /\ ~r.known THEN Result("UnknownLseekWhence")
                       ELSE good
<1>1. Decode(k, r, arg, remains) = d
  BY ZenonT(60) DEF Decode, Pod, Str1, Str2, Tail1
<1>2. \A b \in bad : b.kind # "Ok"
  BY DEF Result
<1>3. good.kind = "Ok" /\ good.fields = f /\ good.remains = remains
  OBVIOUS
<1> HIDE DEF pod, s1, s2, tail, f, good
<1>4. IF ok THEN d = good ELSE d \in bad
  BY DEF ValuesOK
<1> HIDE DEF d, bad, ok
<1>5. (d.kind = "Ok" <=> ok) /\ (d.kind = "Ok" => d.fields = f /\ d.remains = remains)
  BY <1>2, <1>3, <1>4, SMTT(30)
<1>6. DecodedTo(d, r, pod, s1, s2, tail, N, remains)
  BY <1>5, Zenon DEF DecodedTo, f, ok
<1> QED
  BY <1>1, <1>6, Zenon DEF pod, s1, s2, tail

\* decode does not look at the argument of what it does not support.
LEMMA UnsupportedIs ==
    ASSUME NEW k, NEW r, r.op \in Unsupported, NEW arg, NEW remains
    PROVE  Decode(k, r, arg, remains).kind = "Unsupported"
BY Zenon DEF Decode, Result

\* The whole of a sequence, and nothing.
LEMMA Whole ==
    ASSUME NEW s \in Seq(Cell)
    PROVE  SubSeq(s, 1, Len(s)) = s /\ SubSeq(s, Len(s) + 1, Len(s)) = <<>>
<1>1. s \o <<>> = s /\ <<>> \in Seq(Cell)
  BY NoCells
<1> QED
  BY <1>1, Parts

\* fetch_bytes of everything.
LEMMA AllFetched ==
    ASSUME NEW s \in Seq(Cell)
    PROVE  FetchBytes(s, Len(s)) = [ok |-> TRUE, got |-> s, rest |-> <<>>]
<1>1. s \o <<>> = s /\ <<>> \in Seq(Cell)
  BY NoCells
<1>2. FetchBytes(s \o <<>>, Len(s)) = [ok |-> TRUE, got |-> s, rest |-> <<>>]
  BY <1>1, FetchIs, Zenon
<1> QED
  BY <1>1, <1>2

\* fetch_bytes of nothing.
LEMMA NoFetch == FetchBytes(<<>>, 0) = [ok |-> TRUE, got |-> <<>>, rest |-> <<>>]
<1>1. <<>> \in Seq(Cell) /\ Len(<<>>) = 0
  BY SMTT(30)
<1> QED
  BY <1>1, AllFetched, Zenon

\* The message the kernel sends.
LEMMA SentIs ==
    ASSUME NEW k \in Conns, NEW r \in Requests, r.op \notin Unsupported, ~OldStruct(r.op, k),
           NEW p, NEW N, p = Fetched(k)[r.op].pod, N = Fetched(k)[r.op].names
    PROVE  /\ KernelPod(r.op, k) = p /\ KernelNames(r.op) = N
           /\ p \in Nat /\ N \in NameSeqs /\ r.tail \in Nat
           /\ TailCells(r) \in Seq(Cell) /\ Len(TailCells(r)) = r.tail
           /\ LET all == Message(p, N, TailCells(r)) IN
              Sent(r, k) = SubSeq(all, 1, IF r.cut <= Len(all) THEN Len(all) - r.cut ELSE 0)
<1>1. r.op \in Ops /\ r.tail \in Nat /\ (r.tail = 0 \/ r.op \in DOMAIN TailOf)
  BY DecodeAssumption DEF Requests
<1>2. LayoutOK(k, r.op, Fetched(k)[r.op])
  BY <1>1, FetchedOK, Zenon
<1>3. p \in Nat /\ N \in NameSeqs
  BY <1>2 DEF LayoutOK
<1>4. KernelNames(r.op) = N
  BY <1>2, Zenon DEF LayoutOK
<1>5. KernelPod(r.op, k) = p
  BY <1>2, Zenon DEF LayoutOK
<1>6. TailCells(r) \in Seq(Cell) /\ Len(TailCells(r)) = r.tail
  <2>1. CASE r.op \in DOMAIN TailOf
    <3>1. TailOf[r.op] \in Fields
      BY <2>1 DEF TailOf, Fields
    <3> QED
      BY <1>1, <2>1, <3>1, WordsAre DEF TailCells
  <2>2. CASE r.op \notin DOMAIN TailOf
    BY <1>1, <2>2 DEF TailCells
  <2> QED
    BY <2>1, <2>2
<1>7. Sent(r, k) = LET all == Message(p, N, TailCells(r)) IN
                   SubSeq(all, 1, IF r.cut <= Len(all) THEN Len(all) - r.cut ELSE 0)
  BY <1>4, <1>5, ZenonT(60) DEF Sent, Message, NameCells
<1> QED
  BY <1>1, <1>3, <1>4, <1>5, <1>6, <1>7, Zenon

\* What lies behind a message are cells, too.
LEMMA LeftIs == ASSUME NEW k PROVE LeftBehind(k) \in Seq(Cell)
<1>1. Words("stale", 5) \in Seq(Cell)
  BY WordsAre DEF Fields
<1> QED
  BY <1>1 DEF LeftBehind

\* A complete request: try_receive splits it behind the struct, and decode fetches what
\* was sent.
LEMMA WholeReceived ==
    ASSUME NEW k \in Conns, NEW r \in Requests, r.op \notin Unsupported, r.cut = 0,
           ~OldStruct(r.op, k), NEW p, NEW N,
           p = Fetched(k)[r.op].pod, N = Fetched(k)[r.op].names
    PROVE  LET d == Receive(k, r)
               tail == TailCells(r)
               str(i) == IF Len(N) >= i THEN <<<<N[i], 1>>>> ELSE <<>>
           IN /\ d.kind = "Ok" <=> ValuesOK(r)
              /\ d.kind = "Ok" =>
                   /\ d.fields = <<Words("in", p), str(1), str(2),
                                   IF r.op \in {"BATCH_FORGET", "SETXATTR"} THEN tail ELSE <<>>>>
                   /\ d.remains = IF r.op \in {"WRITE", "NOTIFY_REPLY"} THEN tail \o LeftBehind(k)
                                  ELSE LeftBehind(k)
<1> DEFINE T == TailCells(r)
           m == Message(p, N, T)
           W == Words("in", p)
           L == LeftBehind(k)
           str(i) == IF Len(N) >= i THEN <<<<N[i], 1>>>> ELSE <<>>
<1>0. L \in Seq(Cell)
  BY LeftIs
<1>1. /\ p \in Nat /\ N \in NameSeqs /\ r.tail \in Nat /\ T \in Seq(Cell) /\ Len(T) = r.tail
      /\ Sent(r, k) = SubSeq(m, 1, IF r.cut <= Len(m) THEN Len(m) - r.cut ELSE 0)
  BY SentIs
<1>2. W \in Seq(Cell) /\ Len(W) = p
  BY <1>1, WordsAre, Zenon DEF Fields
<1>3. Len(N) \in 0 .. 2 /\ NameCells(N) \in Seq(Cell)
  BY <1>1, StringsAre, ZenonT(60)
<1>4. m \in Seq(Cell) /\ Len(m) \in Nat
  BY <1>1, <1>2, <1>3, ConcatIs, Zenon DEF Message
<1>5. Sent(r, k) = m
  BY <1>1, <1>4, Whole
<1>6. k.minor \in Nat /\ LayoutOK(k, r.op, Fetched(k)[r.op])
  BY ConnFacts, FetchedOK, Zenon DEF Requests
<1>7. FetchBytes(<<>>, 0) = [ok |-> TRUE, got |-> <<>>, rest |-> <<>>]
  BY NoFetch
<1>10. m = Message(p, N, T) /\ m = (W \o NameCells(N)) \o T
  BY Zenon DEF Message
<1>11. FetchBytes(T, r.tail) = [ok |-> TRUE, got |-> T, rest |-> <<>>]
  <2> HIDE DEF T
  <2> QED
    BY <1>1, AllFetched, Zenon
<1>12. FetchBytes(W, p) = [ok |-> TRUE, got |-> W, rest |-> <<>>]
  <2> HIDE DEF W
  <2> QED
    BY <1>2, AllFetched, ZenonT(60)
<1>8. CASE r.op \in {"WRITE", "NOTIFY_REPLY"}
  <2> HIDE DEF T, W, m, L
  <2>1. p = 5 /\ N = <<>> /\ Len(N) = 0 /\ NameCells(N) = <<>>
    BY <1>6, <1>8 DEF LayoutOK, NameCells
  <2>2. m = W \o T
    BY <1>2, <1>10, <2>1, NoCells, Zenon
  <2> DEFINE h == m \o L
             R == T \o L
  <2>3. R \in Seq(Cell) /\ h = W \o R
    BY <1>0, <1>1, <1>2, <2>2, Assoc, ConcatIs, Zenon
  <2> HIDE DEF h, R
  <2>4. Receive(k, r) = Decode(k, r, W, R)
    <3>1. Len(h) = Len(W) + Len(R) /\ Len(W) = 5 /\ Len(R) \in Nat
      BY <1>2, <2>1, <2>3, ConcatIs, Zenon
    <3>2. SubSeq(h, 1, Len(W)) = W /\ SubSeq(h, Len(W) + 1, Len(h)) = R
      BY <1>2, <2>3, Parts, Zenon
    <3>3. SplitAt(r.op, m) = 5
      BY <1>8, Zenon DEF SplitAt
    <3>4. ~(Len(h) < 5)
      BY <3>1
    <3> QED
      BY <1>5, <3>1, <3>2, <3>3, <3>4, Zenon DEF Receive, h, L
  <2>5. Pod(p, W).ok /\ Str1(p, N, W) = Pod(p, W) /\ Str2(p, N, W) = Pod(p, W) /\ Pod(p, W).got = W
    BY <1>12, <2>1 DEF Pod, Str1, Str2
  <2>6. Tail1(r, Str2(p, N, W).rest) = [ok |-> TRUE, got |-> <<>>, rest |-> <<>>]
    BY <1>7, <1>8, Zenon DEF Tail1
  <2>7. str(1) = <<>> /\ str(2) = <<>>
    BY <2>1, SMTT(30)
  <2> HIDE DEF str
  <2> DEFINE d == Decode(k, r, W, R)
  <2>8. /\ d.kind = "Ok" <=> ValuesOK(r)
        /\ d.kind = "Ok" => d.fields = <<W, <<>>, <<>>, <<>>>> /\ d.remains = R
    <3>1. ~(Len(N) >= 1) /\ ~(Len(N) >= 2)
      BY <2>1, SMTT(30)
    <3> QED
      <4> DEFINE s == Str2(p, N, W)
                 tail == Tail1(r, s.rest)
      <4>1. DecodedTo(d, r, Pod(p, W), Str1(p, N, W), s, tail, N, R)
        BY DecodeIs, Zenon
      <4>2. tail.ok /\ tail.got = <<>>
        BY <2>6
      <4> HIDE DEF d, s, tail
      <4> QED
        BY <2>5, <3>1, <4>1, <4>2 DEF DecodedTo, s
  <2> QED
    BY <1>8, <2>4, <2>7, <2>8, Zenon DEF T, W, str, R, L
<1>9. CASE r.op \notin {"WRITE", "NOTIFY_REPLY"}
  <2> DEFINE h == m \o L
  <2>1. SplitAt(r.op, m) = Len(m)
    BY <1>4, <1>9 DEF SplitAt, Unsupported
  <2>2. SubSeq(h, 1, Len(m)) = m /\ SubSeq(h, Len(m) + 1, Len(h)) = L /\ ~(Len(h) < Len(m))
    <3> HIDE DEF m, L
    <3>1. Len(h) = Len(m) + Len(L) /\ Len(L) \in Nat
      BY <1>0, <1>4, ConcatIs, Zenon
    <3>2. SubSeq(h, 1, Len(m)) = m /\ SubSeq(h, Len(m) + 1, Len(h)) = L
      BY <1>0, <1>4, Parts, Zenon
    <3> HIDE DEF h
    <3>3. ~(Len(h) < Len(m))
      BY <1>4, <3>1
    <3> QED
      BY <3>2, <3>3
  <2>3. Receive(k, r) = Decode(k, r, m, L)
    BY <1>5, <2>1, <2>2, Zenon DEF Receive
  <2> HIDE DEF L
  <2>4. /\ Pod(p, m).ok /\ Str1(p, N, m).ok /\ Str2(p, N, m).ok /\ Pod(p, m).got = W
        /\ Len(N) >= 1 => Str1(p, N, m).got = <<<<N[1], 1>>>>
        /\ Len(N) >= 2 => Str2(p, N, m).got = <<<<N[2], 1>>>>
        /\ Str2(p, N, m).rest = T
    <3> HIDE DEF T, m, W
    <3> QED
      <4>1. p \in Nat /\ N \in NameSeqs /\ T \in Seq(Cell) /\ m = Message(p, N, T)
        BY <1>1, <1>10
      <4>2. Parsed(p, N, T, m)
        BY <4>1, ParseWhole, ZenonT(60)
      <4> QED
        BY <4>2, ZenonT(60) DEF Parsed, W
  <2> DEFINE tail == Tail1(r, Str2(p, N, m).rest)
  <2>5. tail.ok /\ tail.got = IF r.op \in {"BATCH_FORGET", "SETXATTR"} THEN T ELSE <<>>
    <3>1. r.op \in {"BATCH_FORGET", "SETXATTR"} =>
            tail = [ok |-> TRUE, got |-> T, rest |-> <<>>]
      BY <1>11, <2>4, Zenon DEF Tail1
    <3>2. r.op \notin {"BATCH_FORGET", "SETXATTR"} =>
            tail = [ok |-> TRUE, got |-> <<>>, rest |-> <<>>]
      BY <1>7, Zenon DEF Tail1
    <3> HIDE DEF T, W, m, tail
    <3> QED
      BY <3>1, <3>2
  <2> HIDE DEF T, W, m, tail
  <2> DEFINE d == Decode(k, r, m, L)
  <2>6. /\ d.kind = "Ok" <=> ValuesOK(r)
        /\ d.kind = "Ok" => d.fields = <<W, str(1), str(2), tail.got>> /\ d.remains = L
    <3> DEFINE s1 == Str1(p, N, m)
               s2 == Str2(p, N, m)
    <3>1. DecodedTo(d, r, Pod(p, m), s1, s2, tail, N, L)
      BY DecodeIs, Zenon DEF tail
    <3>2. /\ Len(N) >= 1 => s1.got = <<<<N[1], 1>>>>
          /\ Len(N) >= 2 => s2.got = <<<<N[2], 1>>>>
          /\ Pod(p, m).ok /\ s1.ok /\ s2.ok /\ tail.ok /\ Pod(p, m).got = W
      BY <2>4, <2>5, Zenon
    <3> HIDE DEF d, s1, s2, str
    <3>3. /\ (IF Len(N) >= 1 THEN s1.got ELSE <<>>) = str(1)
          /\ (IF Len(N) >= 2 THEN s2.got ELSE <<>>) = str(2)
      BY <3>2, Zenon DEF str
    <3> QED
      BY <3>1, <3>2, <3>3, Zenon DEF DecodedTo
  <2> QED
    BY <1>9, <2>3, <2>5, <2>6, Zenon DEF T, W, L
<1> QED
  BY <1>8, <1>9

\* An operation that lost its end is noticed, unless the end is data.
LEMMA CutReceived ==
    ASSUME NEW k \in Conns, NEW r \in Requests, r.op \notin Unsupported, r.cut = 1,
           ~OldStruct(r.op, k), r.op \notin {"WRITE", "NOTIFY_REPLY", "READLINK", "STATFS"}
    PROVE  Receive(k, r).kind # "Ok"
<1> DEFINE p == Fetched(k)[r.op].pod
           N == Fetched(k)[r.op].names
           T == TailCells(r)
           m == Message(p, N, T)
<1>1. /\ p \in Nat /\ N \in NameSeqs /\ r.tail \in Nat /\ T \in Seq(Cell) /\ Len(T) = r.tail
      /\ Sent(r, k) = SubSeq(m, 1, IF r.cut <= Len(m) THEN Len(m) - r.cut ELSE 0)
  BY SentIs
<1>2. /\ LayoutOK(k, r.op, Fetched(k)[r.op])
      /\ r.tail = 0 \/ r.op \in DOMAIN TailOf
  BY FetchedOK, Zenon DEF Requests
<1>3. ~(p = 0 /\ N = <<>>)
  BY <1>2, Zenon DEF LayoutOK
<1>4. T # <<>> => r.op \in {"BATCH_FORGET", "SETXATTR"}
  <2>1. T # <<>> => r.tail # 0
    <3> HIDE DEF T
    <3> QED
      BY <1>1, NoCells
  <2> QED
    BY <1>2, <2>1, Zenon DEF TailOf
<1>5. m \in Seq(Cell) /\ Len(m) \in Nat /\ Len(m) >= 1
  <2> HIDE DEF p, N, T
  <2> DEFINE W == Words("in", p)
             C == NameCells(N)
  <2>1. W \in Seq(Cell) /\ Len(W) = p
    BY <1>1, WordsAre DEF Fields
  <2>2. C \in Seq(Cell) /\ Len(C) = Len(N) /\ Len(N) \in 0 .. 2 /\ (Len(N) = 0 => N = <<>>)
    BY <1>1, StringsAre
  <2> HIDE DEF W, C
  <2>3. /\ W \o C \in Seq(Cell) /\ Len(W \o C) = p + Len(N)
        /\ (W \o C) \o T \in Seq(Cell) /\ Len((W \o C) \o T) = Len(W \o C) + Len(T)
    <3>1. /\ W \o C \in Seq(Cell) /\ Len(W \o C) = Len(W) + Len(C)
      BY <2>1, <2>2, ConcatIs, Zenon
    <3>2. (W \o C) \o T \in Seq(Cell) /\ Len((W \o C) \o T) = Len(W \o C) + Len(T)
      BY <1>1, <3>1, ConcatIs, Zenon
    <3> QED
      BY <2>1, <2>2, <3>1, <3>2, Zenon
  <2>4. m = (W \o C) \o T
    BY Zenon DEF Message, W, C
  <2>5. Len(m) = p + Len(N) + Len(T)
    BY <2>3, <2>4, Zenon
  <2>6. m \in Seq(Cell)
    BY <2>3, <2>4, Zenon
  <2> HIDE DEF m
  <2> QED
    BY <1>1, <1>3, <2>2, <2>5, <2>6
<1> DEFINE arg == SubSeq(m, 1, Len(m) - 1)
<1>6. Sent(r, k) = arg /\ arg \in Seq(Cell)
  <2> HIDE DEF m, T
  <2> QED
    BY <1>1, <1>5
<1> DEFINE L == LeftBehind(k)
           h == arg \o L
<1>7. SplitAt(r.op, arg) = Len(arg)
  <2> HIDE DEF arg
  <2> QED
    BY <1>6 DEF SplitAt, Unsupported
<1>8. SubSeq(h, 1, Len(arg)) = arg /\ SubSeq(h, Len(arg) + 1, Len(h)) = L /\ ~(Len(h) < Len(arg))
  <2>1. L \in Seq(Cell)
    BY LeftIs
  <2> HIDE DEF arg, L
  <2>2. Len(h) = Len(arg) + Len(L) /\ Len(L) \in Nat /\ Len(arg) \in Nat
    BY <1>6, <2>1, ConcatIs, Zenon
  <2>3. SubSeq(h, 1, Len(arg)) = arg /\ SubSeq(h, Len(arg) + 1, Len(h)) = L
    BY <1>6, <2>1, Parts, Zenon
  <2> HIDE DEF h
  <2>4. ~(Len(h) < Len(arg))
    BY <2>2
  <2> QED
    BY <2>3, <2>4
<1>9. Receive(k, r) = Decode(k, r, arg, L)
  <2> HIDE DEF arg
  <2> QED
    BY <1>6, <1>7, <1>8, Zenon DEF Receive
<1> HIDE DEF L
<1>10. ~(/\ Pod(p, arg).ok /\ Str1(p, N, arg).ok /\ Str2(p, N, arg).ok
         /\ T # <<>> => FetchBytes(Str2(p, N, arg).rest, Len(T)).ok)
  <2>1. arg = SubSeq(Message(p, N, T), 1, Len(Message(p, N, T)) - 1)
    BY Zenon
  <2> HIDE DEF arg, p, N, T
  <2> QED
    BY <1>1, <1>3, <2>1, ParseCut, Zenon
<1> HIDE DEF arg
<1>11. T # <<>> => Tail1(r, Str2(p, N, arg).rest) = FetchBytes(Str2(p, N, arg).rest, Len(T))
  <2> HIDE DEF p, N, T
  <2> QED
    BY <1>1, <1>4, Zenon DEF Tail1
<1>12. Decode(k, r, arg, L).kind = "Ok" =>
          /\ Pod(p, arg).ok /\ Str1(p, N, arg).ok /\ Str2(p, N, arg).ok
          /\ Tail1(r, Str2(p, N, arg).rest).ok
  <2>1. p = Fetched(k)[r.op].pod /\ N = Fetched(k)[r.op].names
    OBVIOUS
  <2> HIDE DEF p, N, T
  <2> QED
    <3>1. DecodedTo(Decode(k, r, arg, L), r, Pod(p, arg), Str1(p, N, arg),
                    Str2(p, N, arg), Tail1(r, Str2(p, N, arg).rest), N, L)
      BY <2>1, DecodeIs, Zenon
    <3> QED
      BY <3>1, Zenon DEF DecodedTo
<1> QED
  BY <1>9, <1>10, <1>11, <1>12, ZenonT(60)

\* decode hands out no operation with a value it does not accept.
LEMMA OkValues ==
    ASSUME NEW k, NEW r, Receive(k, r).kind = "Ok"
    PROVE  r.op \notin Unsupported /\ ValuesOK(r)
<1> DEFINE cells == Sent(r, k)
           h == cells \o LeftBehind(k)
           n == SplitAt(r.op, cells)
           arg == SubSeq(h, 1, n)
           rem == SubSeq(h, n + 1, Len(h))
<1>1. Receive(k, r) = IF Len(h) < n THEN Result("ReceiveError") ELSE Decode(k, r, arg, rem)
  BY Zenon DEF Receive
<1> HIDE DEF cells, h, n, arg, rem
<1>2. Result("ReceiveError").kind # "Ok"
  BY DEF Result
<1>3. Decode(k, r, arg, rem).kind = "Ok"
  BY <1>1, <1>2
<1>4. r.op \notin Unsupported
  BY <1>3, UnsupportedIs, SMTT(30)
<1>5. ValuesOK(r)
  <2> DEFINE p == Fetched(k)[r.op].pod
             N == Fetched(k)[r.op].names
  <2>1. p = Fetched(k)[r.op].pod /\ N = Fetched(k)[r.op].names
    BY Zenon
  <2> HIDE DEF p, N
  <2> QED
    <3>1. DecodedTo(Decode(k, r, arg, rem), r, Pod(p, arg), Str1(p, N, arg),
                    Str2(p, N, arg), Tail1(r, Str2(p, N, arg).rest), N, rem)
      BY <1>4, <2>1, DecodeIs, Zenon
    <3> QED
      BY <1>3, <3>1, Zenon DEF DecodedTo
<1> QED
  BY <1>4, <1>5

\* What a request consists of.
LEMMA RequestFacts ==
    ASSUME NEW r \in Requests
    PROVE  /\ r.op \in Ops /\ r.nodeid \in 0 .. 1 /\ r.node2 \in 0 .. 1 /\ r.pid \in 0 .. 1
           /\ r.cut \in 0 .. 1
           /\ r.node2 = 1 \/ r.op \in TwoNodes
           /\ r.pid = 1 \/ r.op \in Locks
           /\ r.known \/ r.op = "LSEEK" \/ (r.op \in SetLocks /\ r.flock)
BY DEF Requests, TwoNodes

\* try_receive takes every request without a decoder.
LEMMA UnsupportedSplit ==
    ASSUME NEW k \in Conns, NEW r \in Requests, r.op \in Unsupported
    PROVE  ~(Len(Sent(r, k) \o LeftBehind(k)) < SplitAt(r.op, Sent(r, k)))
<1> DEFINE W == Words("in", KernelPod(r.op, k))
<1>1. KernelPod(r.op, k) = 1 /\ KernelNames(r.op) = <<>> /\ TailCells(r) = <<>>
  BY DEF KernelPod, KernelNames, TailCells, TailOf, Unsupported, Locks, SetLocks
<1>2. W \in Seq(Cell) /\ Len(W) = 1
  BY <1>1, WordsAre, Zenon DEF Fields
<1> DEFINE all == W \o [i \in 1 .. Len(<<>>) |-> <<<<>>[i], 1>>] \o <<>>
           e == IF r.cut <= Len(all) THEN Len(all) - r.cut ELSE 0
<1>3. Sent(r, k) = SubSeq(all, 1, e)
  BY <1>1 DEF Sent
<1>4. [i \in 1 .. Len(<<>>) |-> <<<<>>[i], 1>>] = <<>>
  OBVIOUS
<1>5. all = W
  BY <1>2, <1>4, NoCells, Zenon
<1> HIDE DEF W
<1>6. e \in 0 .. 1
  BY <1>2, <1>5, RequestFacts
<1> HIDE DEF e, all
<1>7. Sent(r, k) \in Seq(Cell)
  BY <1>2, <1>3, <1>5, <1>6
<1> HIDE DEF Sent
<1>8. SplitAt(r.op, Sent(r, k)) \in {0, Len(Sent(r, k))}
  BY DEF SplitAt, Unsupported
<1> DEFINE s == Sent(r, k)
           L == LeftBehind(k)
<1>9. Len(s \o L) = Len(s) + Len(L) /\ Len(s) \in Nat /\ Len(L) \in Nat
  BY <1>7, LeftIs, ConcatIs, Zenon
<1> QED
  BY <1>8, <1>9

\* decode answers the latest request, on a negotiated connection.
DecodeInv ==
    /\ c \in Conns
    /\ req = None \/ (req \in Requests /\ res = Receive(c, req))

\* DecodeInv holds of every behaviour.
LEMMA DecodeInvHolds == Spec => []DecodeInv
<1>1. Init => DecodeInv
  BY DEF Init, DecodeInv
<1>2. DecodeInv /\ [Next]_vars => DecodeInv'
  BY Zenon DEF DecodeInv, Next, Handle, vars
<1> QED
  BY <1>1, <1>2, PTL DEF Spec

\* DecodedAsSent: for every version and however long the data, the arrays and the
\* values are, a request that Operation::decode accepts has the fields that fuse_kernel.h
\* describes for its version, and the remaining data begins with the data that was sent,
\* or is that data when it comes from a pipe.  Only the structs in OldStruct are excepted.
THEOREM FieldsAsSent == Spec => []DecodedAsSent
<1>1. DecodeInv => DecodedAsSent
  <2> SUFFICES ASSUME DecodeInv, req # None, res.kind = "Ok", req.cut = 0, ~OldStruct(req.op, c)
               PROVE  /\ res.fields = SentFields.fields
                      /\ Begins(res.remains, SentFields.remains)
                      /\ c.splice => res.remains = SentFields.remains
    BY DEF DecodedAsSent
  <2>1. c \in Conns /\ req \in Requests /\ res = Receive(c, req)
    BY DEF DecodeInv
  <2>2. req.op \notin Unsupported
    BY <2>1, OkValues
  <2> DEFINE p == Fetched(c)[req.op].pod
             N == Fetched(c)[req.op].names
             T == TailCells(req)
             L == LeftBehind(c)
             D == IF req.op \in {"WRITE", "NOTIFY_REPLY"} THEN T ELSE <<>>
             str(i) == IF Len(N) >= i THEN <<<<N[i], 1>>>> ELSE <<>>
  <2>3. p = Fetched(c)[req.op].pod /\ N = Fetched(c)[req.op].names
    BY Zenon
  <2>4. KernelPod(req.op, c) = p /\ KernelNames(req.op) = N /\ T \in Seq(Cell)
    BY <2>1, <2>2, SentIs, Zenon
  <2> HIDE DEF p, N
  <2>5. /\ res.fields = <<Words("in", p), str(1), str(2),
                          IF req.op \in {"BATCH_FORGET", "SETXATTR"} THEN T ELSE <<>>>>
        /\ res.remains = IF req.op \in {"WRITE", "NOTIFY_REPLY"} THEN T \o L ELSE L
    BY <2>1, <2>2, <2>3, WholeReceived
  <2>6. L \in Seq(Cell) /\ (c.splice => L = <<>>)
    BY LeftIs DEF LeftBehind
  <2> HIDE DEF T, L
  <2>7. D \in Seq(Cell) /\ res.remains = D \o L
    <3>1. <<>> \o L = L /\ <<>> \in Seq(Cell)
      BY <2>6, NoCells
    <3> QED
      BY <2>4, <2>5, <3>1, Zenon
  <2>8. /\ SentFields.fields = <<Words("in", p), str(1), str(2),
                                 IF req.op \in {"BATCH_FORGET", "SETXATTR"} THEN T ELSE <<>>>>
        /\ SentFields.remains = D
    BY <2>4, Zenon DEF SentFields, T
  <2> HIDE DEF D
  <2>9. Begins(D \o L, D)
    <3>1. Len(D) <= Len(D \o L)
      BY <2>6, <2>7, ConcatIs
    <3> QED
      BY <2>6, <2>7, <3>1, Parts, Zenon DEF Begins
  <2>10. c.splice => D \o L = D
    BY <2>6, <2>7, NoCells, Zenon
  <2> QED
    BY <2>5, <2>7, <2>8, <2>9, <2>10, Zenon
<1> QED
  BY <1>1, DecodeInvHolds, PTL

\* AcceptedIfValid: for every version, the structs in OldStruct aside, and for all
\* lengths, Operation::decode accepts what is complete and names existing things, and
\* nothing that misses an inode, a lock type, a whence or the end of its argument.
THEOREM ValidIsAccepted == Spec => []AcceptedIfValid
<1>1. DecodeInv => AcceptedIfValid
  <2> SUFFICES ASSUME DecodeInv, req # None PROVE AcceptedIfValid
    BY DEF AcceptedIfValid
  <2>1. c \in Conns /\ req \in Requests /\ res = Receive(c, req)
    BY Zenon DEF DecodeInv
  <2>2. /\ req.op \in Ops /\ req.nodeid \in 0 .. 1 /\ req.node2 \in 0 .. 1 /\ req.pid \in 0 .. 1
        /\ req.cut \in 0 .. 1
        /\ req.node2 = 1 \/ req.op \in TwoNodes
        /\ req.pid = 1 \/ req.op \in Locks
        /\ req.known \/ req.op = "LSEEK" \/ (req.op \in SetLocks /\ req.flock)
    BY <2>1, RequestFacts
  <2>3. ASSUME Valid(req), ~OldStruct(req.op, c) PROVE res.kind \in {"Ok", "Unsupported"}
    <3>1. CASE req.op \in Unsupported
      <4> DEFINE cells == Sent(req, c)
                 h == cells \o LeftBehind(c)
                 n == SplitAt(req.op, cells)
      <4>1. ~(Len(h) < n)
        BY <2>1, <3>1, UnsupportedSplit
      <4>2. Receive(c, req) =
              Decode(c, req, SubSeq(h, 1, n), SubSeq(h, n + 1, Len(h)))
        BY <4>1, Zenon DEF Receive
      <4> QED
        BY <2>1, <3>1, <4>2, UnsupportedIs
    <3>2. CASE req.op \notin Unsupported
      <4>1. ValuesOK(req)
        BY <2>2, <2>3 DEF Valid, ValuesOK, NoNode
      <4>2. req.cut = 0
        BY <2>3 DEF Valid
      <4> DEFINE p == Fetched(c)[req.op].pod
                 N == Fetched(c)[req.op].names
      <4>3. p = Fetched(c)[req.op].pod /\ N = Fetched(c)[req.op].names
        OBVIOUS
      <4> HIDE DEF p, N
      <4>4. Receive(c, req).kind = "Ok" <=> ValuesOK(req)
        BY <2>1, <2>3, <3>2, <4>2, <4>3, WholeReceived, Zenon
      <4> QED
        BY <2>1, <4>1, <4>4, Zenon
    <3> QED
      BY <3>1, <3>2
  <2>4. ASSUME res.kind = "Ok"
        PROVE  /\ req.nodeid = 1 \/ req.op \in {"BATCH_FORGET", "INTERRUPT", "STATFS"}
               /\ req.node2 = 1 /\ req.known
               /\ \/ req.cut = 0 \/ OldStruct(req.op, c)
                  \/ req.op \in {"WRITE", "NOTIFY_REPLY", "READLINK", "STATFS"}
    <3>1. req.op \notin Unsupported /\ ValuesOK(req)
      BY <2>1, <2>4, OkValues
    <3>2. \/ req.cut = 0 \/ OldStruct(req.op, c)
          \/ req.op \in {"WRITE", "NOTIFY_REPLY", "READLINK", "STATFS"}
      <4>1. req.cut = 0 \/ req.cut = 1
        BY <2>2
      <4> QED
        BY <2>1, <2>4, <3>1, <4>1, CutReceived
    <3>3. /\ req.nodeid = 1 \/ req.op \in {"BATCH_FORGET", "INTERRUPT"}
          /\ req.node2 = 1 /\ req.known
      BY <2>2, <3>1 DEF ValuesOK, NoNode
    <3> QED
      BY <3>2, <3>3
  <2> QED
    BY <2>3, <2>4, Zenon DEF AcceptedIfValid
<1> QED
  BY <1>1, DecodeInvHolds, PTL

----------------------------------------------------------------------------
(* The directory                                                           *)

Total == Len(NameLens)
Past == Total - Len(todo)                         \* the entries the stream is past
Delta == IF handler = "hello" THEN 1 ELSE 0   \* what an offset is more than the number
Busy == pc \in {"fill", "replied"}

Listed == [entry : 1 .. Total, off : Nat]
Records == [entry : 1 .. Total, off : Nat, at : Nat]

DirTypes ==
    /\ handler \in {"hello", "memfs", "passthrough", "path_through"}
    /\ pc \in {"opendir", "reader", "fill", "replied", "end"}
    /\ pos \in Nat /\ size \in Nat /\ sought \in Nat /\ len \in Nat
    /\ todo \in Seq(Listed) /\ Len(todo) <= Total /\ buf \in Seq(Records)
    /\ seen \subseteq 1 .. Total /\ back \in BOOLEAN /\ cut \in BOOLEAN
    /\ rewound \in {"no", "first", "later"}

\* The records are laid out one after the other, within the size asked for.
Laid ==
    /\ \A i \in 1 .. Len(buf) - 1 : buf[i + 1].at = buf[i].at + KernelRecord(buf[i].entry)
    /\ IF buf = <<>> THEN len = 0
       ELSE buf[1].at = 0 /\ buf[Len(buf)].at + KernelRecord(buf[Len(buf)].entry) = len
    /\ Busy => len <= size /\ size \in Sizes

\* The stream and the buffer hold entries in their order, those of the buffer first.
InOrder ==
    /\ \A j \in 1 .. Len(todo) : todo[j].entry = Past + j /\ todo[j].off = Past + j + Delta
    /\ \A j \in 1 .. Len(buf) : /\ buf[j].entry = buf[1].entry + (j - 1)
                                /\ buf[j].off = buf[j].entry + Delta
    /\ Busy /\ buf # <<>> =>
         /\ buf[Len(buf)].entry <= Past
         /\ pc = "fill" \/ handler = "path_through" => buf[Len(buf)].entry = Past
    /\ pc = "replied" /\ buf = <<>> => todo = <<>>

\* What the reader has seen lies before its position, the stream and the buffer.
SeenBefore ==
    /\ ~back
    /\ \A e \in seen : /\ e + Delta <= pos /\ e <= Past
                       /\ Busy /\ buf # <<>> => e < buf[1].entry
    /\ pc = "opendir" => seen = {} /\ pos = 0 /\ sought = 0 /\ rewound = "no"

\* The handler promises the whole directory.
Promises ==
    \/ handler = "memfs"
    \/ handler = "passthrough" /\ rewound # "first"
    \/ handler = "path_through" /\ ~cut /\ rewound = "no"

\* Then nothing is missing before the position, and the stream goes on there.
NoneMissed ==
    Promises =>
        /\ seen = 1 .. pos /\ pos <= Total
        /\ Busy => IF buf = <<>> THEN Past = pos ELSE buf[1].entry = pos + 1
        /\ pc = "end" => pos = Total
        /\ handler = "passthrough" => /\ Busy => sought = pos
                                      /\ pc = "reader" /\ pos = sought => Past = pos
        /\ handler = "path_through" /\ pc = "reader" => Past = pos

DirInv == DirTypes /\ Laid /\ InOrder /\ SeenBefore /\ NoneMissed

----------------------------------------------------------------------------
\* aligned rounds up to the record length of the kernel.
LEMMA RecordIs ==
    ASSUME NEW e \in 1 .. Total
    PROVE  /\ Aligned(Header + NameLens[e]) = KernelRecord(e)
           /\ KernelRecord(e) \in Nat /\ KernelRecord(e) > 0
<1> DEFINE n == Header + NameLens[e]
<1>1. n \in Nat /\ n > 0
  BY ReaddirAssumption DEF Total, Header
<1> HIDE DEF n
<1>2. Aligned(n) \in n .. n + 7 /\ Aligned(n) % 8 = 0 /\ Aligned(n) \in Nat
  BY <1>1 DEF Aligned
<1>3. \A m \in n .. n + 7 : m % 8 = 0 => m = Aligned(n)
  BY <1>1 DEF Aligned
<1>4. KernelRecord(e) = Aligned(n)
  BY <1>2, <1>3 DEF KernelRecord, n
<1> QED
  BY <1>1, <1>2, <1>4 DEF n

\* The names and the sizes.
LEMMA DirFacts ==
    /\ NameLens \in Seq(Nat \ {0}) /\ Total \in Nat /\ DOMAIN NameLens = 1 .. Total
    /\ Sizes \subseteq Nat
BY ReaddirAssumption DEF Total

\* DirInv holds before OPENDIR.
LEMMA DirInitInv == DirInit => DirInv
<1> SUFFICES ASSUME DirInit PROVE DirInv
  OBVIOUS
<1>1. DirTypes
  <2>1. todo \in Seq(Listed) /\ Len(todo) <= Total /\ buf \in Seq(Records)
    BY DirFacts DEF DirInit
  <2>2. back \in BOOLEAN /\ cut \in BOOLEAN
    BY Zenon DEF DirInit
  <2> QED
    BY <2>1, <2>2 DEF DirInit, DirTypes
<1>2. Laid /\ InOrder
  BY DEF DirInit, Laid, InOrder, Busy
<1>3. SeenBefore
  BY DEF DirInit, SeenBefore
<1>4. NoneMissed
  <2>1. {} = 1 .. 0
    OBVIOUS
  <2> QED
    BY <2>1, DirFacts DEF DirInit, NoneMissed, Busy
<1> QED
  BY <1>1, <1>2, <1>3, <1>4 DEF DirInv

\* The listing, from an entry on.
LEMMA ListingIs ==
    ASSUME DirTypes
    PROVE  /\ Listing \in Seq(Listed) /\ Len(Listing) = Total
           /\ \A j \in 1 .. Total : Listing[j].entry = j /\ Listing[j].off = j + Delta
<1> DEFINE s == [i \in 1 .. Total |-> [entry |-> i, off |-> i + Delta]]
<1>1. Delta \in Nat /\ Total \in Nat
  BY DirFacts, Zenon DEF Delta
<1>2. Listing = s
  <2>1. CASE handler = "hello"
    BY <2>1, DirFacts, Zenon DEF Listing, dir_entries, Delta
  <2>2. CASE handler # "hello"
    <3>1. Delta = 0 /\ \A i \in 1 .. Total : i + 0 = i
      BY <2>2, DirFacts DEF Delta
    <3> QED
      BY <2>2, <3>1, DirFacts DEF Listing, collect_entries
  <2> QED
    BY <2>1, <2>2, Zenon
<1>3. s \in Seq(Listed) /\ Len(s) = Total
  BY <1>1 DEF Listed
<1>4. \A j \in 1 .. Total : s[j].entry = j /\ s[j].off = j + Delta
  OBVIOUS
<1> QED
  BY <1>2, <1>3, <1>4, Zenon

\* The listing from an entry on.
LEMMA SkipIs ==
    ASSUME DirTypes, NEW n \in Nat
    PROVE  /\ Skip(Listing, n) \in Seq(Listed)
           /\ Len(Skip(Listing, n)) = IF n <= Total THEN Total - n ELSE 0
           /\ \A j \in 1 .. Len(Skip(Listing, n)) :
                /\ Skip(Listing, n)[j].entry = n + j
                /\ Skip(Listing, n)[j].off = n + j + Delta
<1>1. Listing \in Seq(Listed) /\ Len(Listing) = Total /\ Total \in Nat
  BY ListingIs, DirFacts
<1> DEFINE L == Listing
<1>2. L \in Seq(Listed) /\ Len(L) = Total /\ \A j \in 1 .. Total : L[j].entry = j /\ L[j].off = j + Delta
  BY ListingIs
<1> HIDE DEF L
<1> DEFINE t == SubSeq(L, n + 1, Len(L))
<1>3. t \in Seq(Listed) /\ Len(t) = IF n <= Total THEN Total - n ELSE 0
  BY <1>1, <1>2
<1>4. \A j \in 1 .. Len(t) : t[j] = L[n + j] /\ n + j \in 1 .. Total
  BY <1>1, <1>2, <1>3
<1>5. \A j \in 1 .. Len(t) : t[j].entry = n + j /\ t[j].off = n + j + Delta
  BY <1>2, <1>4
<1>6. Skip(Listing, n) = t
  BY SMTT(30) DEF Skip, L
<1> HIDE DEF t
<1> QED
  BY <1>3, <1>5, <1>6

\* Nothing but the reader's place changes.
LEMMA DirStutter ==
    ASSUME DirInv, UNCHANGED dirVars PROVE DirInv'
BY DEF dirVars, hist, DirInv, DirTypes, Laid, InOrder, SeenBefore, NoneMissed, Promises, Busy,
       Past, Delta

\* opendir: the stream is at the start.
LEMMA opendirStep == ASSUME DirInv, opendir PROVE DirInv'
<1>1. /\ Listing \in Seq(Listed) /\ Len(Listing) = Total
      /\ \A j \in 1 .. Total : Listing[j].entry = j /\ Listing[j].off = j + Delta
  BY ListingIs DEF DirInv
<1>2. /\ pc = "opendir" /\ pc' = "reader" /\ todo' = Listing
      /\ handler' = handler /\ pos' = pos /\ size' = size /\ sought' = sought /\ buf' = buf
      /\ len' = len /\ seen' = seen /\ back' = back /\ cut' = cut /\ rewound' = rewound
  BY Zenon DEF opendir, hist
<1>3. Past' = 0 /\ Delta' = Delta /\ ~Busy' /\ Promises' = Promises
  BY <1>1, <1>2, DirFacts DEF Past, Delta, Busy, Promises
<1>4. seen = {} /\ pos = 0
  BY <1>2, Zenon DEF DirInv, SeenBefore
<1>5. DirTypes'
  BY <1>1, <1>2, DirFacts DEF DirInv, DirTypes
<1>6. Laid'
  BY <1>2, <1>3, Zenon DEF DirInv, Laid
<1>7. InOrder'
  BY <1>1, <1>2, <1>3 DEF DirInv, InOrder
<1>8. SeenBefore'
  BY <1>2, <1>4, Zenon DEF DirInv, SeenBefore
<1>9. NoneMissed'
  BY <1>2, <1>3, <1>4, Zenon DEF DirInv, NoneMissed
<1> QED
  BY <1>5, <1>6, <1>7, <1>8, <1>9, Zenon DEF DirInv

\* A READDIR: the stream goes on behind what was seen, and at the position where the
\* handler promises the whole directory.
LEMMA AskedStep ==
    ASSUME DirInv, Asked, sought' \in Nat,
           todo' = todo \/ todo' = Skip(Listing, pos),
           handler = "memfs" => todo' = Skip(Listing, pos),
           handler = "hello" => todo' = Skip(Listing, pos),
           handler = "passthrough" =>
              sought' = pos /\ (pos # sought => todo' = Skip(Listing, pos)),
           handler = "path_through" => todo' = todo
    PROVE  DirInv'
<1>1. /\ pc = "reader" /\ size' \in Sizes /\ buf' = <<>> /\ len' = 0 /\ pc' = "fill"
      /\ handler' = handler /\ pos' = pos
      /\ seen' = seen /\ back' = back /\ cut' = cut /\ rewound' = rewound
  BY Zenon DEF Asked, hist
<1>2. Delta' = Delta /\ Busy' /\ Promises' = Promises /\ pos \in Nat /\ Delta \in Nat
  BY <1>1, Zenon DEF Delta, Busy, Promises, DirInv, DirTypes
<1> DEFINE t == Skip(Listing, pos)
<1>3. /\ t \in Seq(Listed) /\ Len(t) = IF pos <= Total THEN Total - pos ELSE 0
      /\ \A j \in 1 .. Len(t) : t[j].entry = pos + j /\ t[j].off = pos + j + Delta
  BY <1>2, SkipIs, Zenon DEF DirInv
<1> HIDE DEF t
<1>4. todo' \in Seq(Listed) /\ Len(todo') <= Total /\ Len(todo') \in Nat
  BY <1>2, <1>3, DirFacts, SMTT(30) DEF DirInv, DirTypes, t
<1>5. todo' = t => Past' = IF pos <= Total THEN pos ELSE Total
  BY <1>2, <1>3, DirFacts DEF Past
<1>6. todo' = todo => Past' = Past
  BY Zenon DEF Past
<1>7. DirTypes'
  BY <1>1, <1>4, DirFacts, SMTT(30) DEF DirInv, DirTypes
<1>8. Laid'
  BY <1>1, <1>7, DirFacts DEF Laid, DirTypes
<1>9. InOrder'
  <2>1. CASE todo' = todo
    BY <1>1, <1>2, <1>6, <2>1 DEF DirInv, InOrder
  <2>2. CASE todo' = t
    <3>1. \A j \in 1 .. Len(t) : Past' = pos
      BY <1>2, <1>3, <1>5, <2>2, DirFacts, SMTT(30)
    <3> QED
      BY <1>1, <1>2, <1>3, <2>2, <3>1 DEF InOrder
  <2> QED
    BY <2>1, <2>2, Zenon DEF t
<1>10. SeenBefore'
  <2>1. \A e \in seen : e \in 1 .. Total /\ e + Delta <= pos /\ e <= Past
    BY Zenon DEF DirInv, DirTypes, SeenBefore
  <2>2. ASSUME NEW e \in seen PROVE e <= Past'
    BY <1>2, <1>5, <1>6, <2>1, DirFacts DEF t
  <2> QED
    BY <1>1, <1>2, <2>1, <2>2 DEF DirInv, SeenBefore
<1>11. NoneMissed'
  <2> SUFFICES ASSUME Promises PROVE seen = 1 .. pos /\ pos <= Total /\ Past' = pos
    BY <1>1, <1>2, Zenon DEF NoneMissed
  <2>1. seen = 1 .. pos /\ pos <= Total
    BY Zenon DEF DirInv, NoneMissed
  <2>2. Past' = pos
    BY <1>1, <1>5, <1>6, <2>1, Zenon DEF DirInv, NoneMissed, Promises, t
  <2> QED
    BY <2>1, <2>2, Zenon
<1> QED
  BY <1>7, <1>8, <1>9, <1>10, <1>11, Zenon DEF DirInv

\* push_entry: the record follows the ones before it, and there was room for it.
LEMMA PushStep == ASSUME DirInv, PushEntry PROVE DirInv'
<1> DEFINE e == Past + 1
           r == [entry |-> e, off |-> e + Delta, at |-> len]
<1>1. DirTypes
  BY Zenon DEF DirInv
<1>2. /\ pc = "fill" /\ todo # <<>> /\ todo' = Tail(todo)
      /\ handler' = handler /\ pc' = pc /\ pos' = pos /\ size' = size /\ sought' = sought
      /\ seen' = seen /\ back' = back /\ cut' = cut /\ rewound' = rewound
  BY Zenon DEF PushEntry, hist
<1>3. /\ Len(todo) \in 1 .. Total /\ Len(Tail(todo)) = Len(todo) - 1
      /\ Tail(todo) \in Seq(Listed) /\ \A j \in 1 .. Len(todo) - 1 : Tail(todo)[j] = todo[j + 1]
  BY <1>1, <1>2, DirFacts DEF DirTypes
<1>4. /\ Past \in Nat /\ e \in 1 .. Total /\ Delta \in Nat /\ Delta' = Delta /\ Past' = e
      /\ Busy /\ Busy' /\ Promises' = Promises
  BY <1>2, <1>3, DirFacts, SMTT(30) DEF Past, Delta, Busy, Promises
<1>5. Head(todo).entry = e /\ Head(todo).off = e + Delta
  BY <1>1, <1>2, <1>3 DEF DirInv, InOrder, DirTypes
<1>6. /\ Aligned(Header + NameLens[e]) = KernelRecord(e)
      /\ KernelRecord(e) \in Nat /\ KernelRecord(e) > 0
  BY <1>4, RecordIs, Zenon
<1>7. /\ buf' = Append(buf, r) /\ len' = len + KernelRecord(e)
      /\ size - len >= KernelRecord(e)
  BY <1>5, <1>6, Zenon DEF PushEntry, Room
<1>8. r \in Records
  BY <1>1, <1>4 DEF Records, DirTypes
<1>9. r.entry = e /\ r.off = e + Delta /\ r.at = len
  BY Zenon
<1> HIDE DEF e, r
<1>10. /\ buf' \in Seq(Records) /\ Len(buf') = Len(buf) + 1 /\ Len(buf) \in Nat
       /\ \A j \in 1 .. Len(buf) : buf'[j] = buf[j] /\ buf'[Len(buf')] = r /\ buf' # <<>>
       /\ buf'[Len(buf')] = r /\ buf' # <<>> /\ (buf = <<>> <=> Len(buf) = 0)
  BY <1>1, <1>7, <1>8, SMTT(30) DEF DirTypes
<1>11. DirTypes'
  <2>1. len' \in Nat /\ len \in Nat
    BY <1>1, <1>6, <1>7 DEF DirTypes
  <2>2. todo' \in Seq(Listed) /\ Len(todo') <= Total
    BY <1>2, <1>3, DirFacts
  <2>3. buf' \in Seq(Records)
    BY <1>10, Zenon
  <2> QED
    BY <1>1, <1>2, <2>1, <2>2, <2>3 DEF DirTypes
<1>12. Laid'
  <2>1. \A i \in 1 .. Len(buf') - 1 : buf'[i + 1].at = buf'[i].at + KernelRecord(buf'[i].entry)
    <3> SUFFICES ASSUME NEW i \in 1 .. Len(buf)
                 PROVE  buf'[i + 1].at = buf'[i].at + KernelRecord(buf'[i].entry)
      BY <1>10
    <3>1. CASE i = Len(buf)
      BY <1>9, <1>10, <3>1 DEF DirInv, Laid
    <3>2. CASE i < Len(buf)
      BY <1>10, <3>2, SMTT(30) DEF DirInv, Laid
    <3> QED
      BY <1>10, <3>1, <3>2
  <2>2. buf'[1].at = 0 /\ buf'[Len(buf')].at + KernelRecord(buf'[Len(buf')].entry) = len'
    BY <1>1, <1>7, <1>9, <1>10, SMTT(30) DEF DirInv, Laid, DirTypes
  <2>3. len' <= size' /\ size' \in Sizes
    BY <1>1, <1>2, <1>4, <1>6, <1>7, DirFacts DEF DirInv, Laid, DirTypes
  <2> QED
    BY <1>10, <2>1, <2>2, <2>3, Zenon DEF Laid
<1>13. /\ buf = <<>> => buf'[1].entry = e
       /\ buf # <<>> => buf'[1].entry = buf[1].entry /\ e = buf[1].entry + Len(buf)
  <2>1. CASE buf = <<>>
    BY <1>9, <1>10, <2>1
  <2>2. CASE buf # <<>>
    <3>1. Len(buf) \in 1 .. Len(buf) /\ 1 \in 1 .. Len(buf)
      BY <1>10, <2>2, SMTT(30)
    <3>2. buf[Len(buf)].entry = Past /\ buf[Len(buf)].entry = buf[1].entry + (Len(buf) - 1)
      BY <1>2, <1>4, <2>2, <3>1, Zenon DEF DirInv, InOrder
    <3>3. buf[1] \in Records
      BY <1>1, <3>1 DEF DirTypes
    <3>4. buf[1].entry \in Nat
      BY <3>3, DirFacts DEF Records
    <3>5. buf'[1] = buf[1]
      BY <1>10, <3>1, Zenon
    <3>6. Len(buf) \in Nat
      BY <1>10
    <3>7. \A a, b \in Nat : (a + (b - 1)) + 1 = a + b
      OBVIOUS
    <3>8. Past + 1 = buf[1].entry + Len(buf)
      BY <3>2, <3>4, <3>6, <3>7, ZenonT(60)
    <3> QED
      BY <2>2, <3>5, <3>8, Zenon DEF e
  <2> QED
    BY <2>1, <2>2, Zenon
<1>14. InOrder'
  <2>1. \A j \in 1 .. Len(todo') : /\ todo'[j].entry = Past' + j
                                   /\ todo'[j].off = Past' + j + Delta'
    BY <1>2, <1>3, <1>4 DEF DirInv, InOrder, e
  <2>2. \A j \in 1 .. Len(buf') : /\ buf'[j].entry = buf'[1].entry + (j - 1)
                                  /\ buf'[j].off = buf'[j].entry + Delta'
    <3> SUFFICES ASSUME NEW j \in 1 .. Len(buf')
                 PROVE  /\ buf'[j].entry = buf'[1].entry + (j - 1)
                        /\ buf'[j].off = buf'[j].entry + Delta'
      BY Zenon
    <3>1. CASE j = Len(buf')
      BY <1>4, <1>9, <1>10, <1>13, <3>1, SMTT(30)
    <3>2. CASE j \in 1 .. Len(buf)
      <4>1. buf # <<>>
        BY <1>10, <3>2
      <4> QED
        BY <1>4, <1>10, <1>13, <3>2, <4>1, Zenon DEF DirInv, InOrder
    <3> QED
      BY <1>10, <3>1, <3>2
  <2> QED
    BY <1>2, <1>4, <1>9, <1>10, <2>1, <2>2, SMTT(30) DEF InOrder
<1>15. SeenBefore'
  <2>1. ASSUME NEW x \in seen
        PROVE  x + Delta <= pos /\ x <= e /\ x < buf'[1].entry
    <3>1. x \in Nat /\ x + Delta <= pos /\ x <= Past /\ (buf # <<>> => x < buf[1].entry)
      BY <1>1, <1>4, DirFacts, SMTT(30) DEF DirInv, SeenBefore, DirTypes
    <3> QED
      BY <1>4, <1>13, <3>1 DEF e
  <2> QED
    BY <1>2, <1>4, <2>1, Zenon DEF DirInv, SeenBefore
<1>16. NoneMissed'
  BY <1>2, <1>4, <1>10, <1>13, Zenon DEF DirInv, NoneMissed, e
<1> QED
  BY <1>11, <1>12, <1>14, <1>15, <1>16 DEF DirInv

\* reply_dir: an empty reply is the end of the stream, since an empty buffer has room for
\* any entry.
LEMMA ReplyDirStep == ASSUME DirInv, ReplyDir PROVE DirInv'
<1>1. DirTypes
  BY DEF DirInv
<1>2. /\ pc = "fill" /\ buf' = buf /\ len' = len
      /\ handler' = handler /\ pos' = pos /\ size' = size /\ sought' = sought
      /\ seen' = seen /\ back' = back /\ cut' = cut /\ rewound' = rewound
  BY Zenon DEF ReplyDir, hist
<1>3. Busy /\ len <= size /\ size \in Sizes
  BY <1>2, Zenon DEF DirInv, Laid, Busy
<1>4. pc' = "replied" /\ Busy' /\ Delta' = Delta /\ Promises' = Promises
  BY <1>2, <1>3, Zenon DEF ReplyDir, Busy, Delta, Promises
<1>5. ASSUME todo # <<>> PROVE Past + 1 \in 1 .. Total /\ Head(todo).entry = Past + 1
  <2>1. Len(todo) \in 1 .. Total /\ 1 \in 1 .. Len(todo) /\ Head(todo) = todo[1]
    BY <1>1, <1>5, DirFacts DEF DirTypes
  <2> QED
    BY <2>1, DirFacts DEF DirInv, InOrder, Past
<1>6. ASSUME buf = <<>> PROVE todo = <<>>
  <2> SUFFICES ASSUME todo # <<>> PROVE FALSE
    OBVIOUS
  <2> DEFINE e == Past + 1
  <2>1. e \in 1 .. Total /\ Head(todo).entry = e
    BY <1>5, Zenon
  <2> HIDE DEF e
  <2>2. Aligned(Header + NameLens[e]) = KernelRecord(e)
    BY <2>1, RecordIs, Zenon
  <2>3. len = 0
    BY <1>6, Zenon DEF DirInv, Laid
  <2>4. size >= KernelRecord(e)
    BY <1>3, <2>1, DirFacts, ReaddirAssumption, Zenon
  <2>5. Room(e)
    BY <1>1, <2>2, <2>3, <2>4 DEF Room, DirTypes
  <2> QED
    BY <2>1, <2>5 DEF ReplyDir
<1>7. \/ todo' = todo /\ Past' = Past
      \/ /\ handler = "passthrough" /\ todo # <<>> /\ todo' = Tail(todo) /\ Past' = Past + 1
         /\ todo' \in Seq(Listed) /\ Len(todo') = Len(todo) - 1 /\ Past \in Nat
         /\ Len(todo) \in 1 .. Total /\ \A j \in 1 .. Len(todo') : todo'[j] = todo[j + 1]
  <2>1. CASE handler = "passthrough" /\ todo # <<>>
    <3>1. todo' = Tail(todo)
      BY <2>1, Zenon DEF ReplyDir
    <3>2. /\ Len(todo) \in 1 .. Total /\ todo' \in Seq(Listed) /\ Len(todo') = Len(todo) - 1
          /\ \A j \in 1 .. Len(todo') : todo'[j] = todo[j + 1]
      BY <1>1, <2>1, <3>1, DirFacts DEF DirTypes
    <3>3. Past \in Nat /\ Past' = Past + 1
      BY <3>2, DirFacts DEF Past
    <3> QED
      BY <2>1, <3>1, <3>2, <3>3, Zenon
  <2>2. CASE ~(handler = "passthrough" /\ todo # <<>>)
    BY <2>2, Zenon DEF ReplyDir, Past
  <2> QED
    BY <2>1, <2>2, SMTT(30)
<1>8. Past \in Nat /\ Past' \in Nat /\ Past <= Past' /\ Delta \in Nat
  BY <1>1, <1>7, DirFacts, SMTT(30) DEF Past, DirTypes, Delta
<1>9. DirTypes'
  BY <1>1, <1>2, <1>4, <1>7, DirFacts, SMTT(30) DEF DirTypes
<1>10. Laid'
  BY <1>2, <1>3, <1>4, Zenon DEF DirInv, Laid
<1>11. InOrder'
  <2>1. \A j \in 1 .. Len(todo') : /\ todo'[j].entry = Past' + j
                                   /\ todo'[j].off = Past' + j + Delta
    <3>1. CASE todo' = todo /\ Past' = Past
      BY <3>1, Zenon DEF DirInv, InOrder
    <3>2. CASE ~(todo' = todo /\ Past' = Past)
      <4>1. ASSUME NEW j \in 1 .. Len(todo')
            PROVE  todo'[j].entry = Past' + j /\ todo'[j].off = Past' + j + Delta
        <5>1. /\ todo'[j] = todo[j + 1] /\ Past' = Past + 1 /\ j + 1 \in 1 .. Len(todo)
          BY <1>7, <3>2
        <5>2. todo[j + 1].entry = Past + (j + 1) /\ todo[j + 1].off = Past + (j + 1) + Delta
          BY <5>1, Zenon DEF DirInv, InOrder
        <5> QED
          BY <1>8, <5>1, <5>2
      <4> QED
        BY <4>1, Zenon
    <3> QED
      BY <3>1, <3>2, Zenon
  <2>2. buf # <<>> => /\ buf[Len(buf)].entry <= Past'
                      /\ handler = "path_through" => buf[Len(buf)].entry = Past'
    BY <1>2, <1>3, <1>7, <1>8, Zenon DEF DirInv, InOrder
  <2>3. buf = <<>> => todo' = <<>>
    BY <1>6, <1>7, Zenon
  <2> QED
    BY <1>2, <1>4, <2>1, <2>2, <2>3, Zenon DEF DirInv, InOrder
<1>12. SeenBefore'
  <2>1. ASSUME NEW x \in seen PROVE x <= Past'
    BY <1>1, <1>8, DirFacts DEF DirInv, SeenBefore, DirTypes
  <2> QED
    BY <1>2, <1>3, <1>4, <2>1, Zenon DEF DirInv, SeenBefore
<1>13. NoneMissed'
  <2>1. buf = <<>> => Past' = Past
    BY <1>6, <1>7, Zenon
  <2> QED
    BY <1>2, <1>3, <1>4, <2>1, Zenon DEF DirInv, NoneMissed
<1> QED
  BY <1>9, <1>10, <1>11, <1>12, <1>13 DEF DirInv

\* The reader takes the first records of the reply.
LEMMA TakeStep == ASSUME DirInv, TakeEntries PROVE DirInv'
<1>1. DirTypes /\ Busy
  BY DEF DirInv, TakeEntries, Busy
<1>2. PICK n \in 1 .. Len(buf) :
          /\ seen' = seen \cup {buf[i].entry : i \in 1 .. n}
          /\ back' = (back \/ \E i \in 1 .. n, e \in seen : buf[i].entry <= e)
          /\ pos' = buf[n].off /\ cut' = (cut \/ n < Len(buf))
  BY ZenonT(60) DEF TakeEntries
<1>3. /\ pc = "replied" /\ pc' = "reader" /\ buf # <<>> /\ buf' = buf /\ todo' = todo
      /\ len' = len /\ handler' = handler /\ size' = size /\ sought' = sought
      /\ rewound' = rewound /\ ~Busy' /\ Delta' = Delta /\ Past' = Past /\ Delta \in Nat
  BY Zenon DEF TakeEntries, Busy, Delta, Past
<1> DEFINE f == buf[1].entry
           m == Len(buf)
<1>4. m \in Nat /\ n \in 1 .. m /\ Past \in Nat
  BY <1>1, <1>2, DirFacts DEF DirTypes, Past
<1>5. \A i \in 1 .. m : buf[i] \in Records
  BY <1>1 DEF DirTypes
<1>6. \A i \in 1 .. m : buf[i].entry \in 1 .. Total
  BY <1>5, Zenon DEF Records
<1>7. \A i \in 1 .. m : buf[i].entry = f + (i - 1) /\ buf[i].off = buf[i].entry + Delta
  BY Zenon DEF DirInv, InOrder
<1>8. f \in Nat /\ f + (m - 1) <= Past /\ buf[m].entry = f + (m - 1)
  <2>1. m \in 1 .. m /\ 1 \in 1 .. m
    BY <1>4, SMTT(30)
  <2>2. buf[m].entry <= Past
    BY <1>1, <1>3, Zenon DEF DirInv, InOrder
  <2>3. buf[m].entry = f + (m - 1) /\ f \in 1 .. Total
    BY <1>6, <1>7, <2>1, Zenon
  <2> HIDE DEF m, f
  <2> QED
    BY <2>2, <2>3, DirFacts
<1>9. pos' = f + (n - 1) + Delta /\ pos' \in Nat
  <2>1. pos' = buf[n].off /\ buf[n].off = buf[n].entry + Delta /\ buf[n].entry = f + (n - 1)
    BY <1>2, <1>7
  <2>2. n \in Nat /\ n >= 1
    BY <1>4, SMTT(30)
  <2> HIDE DEF m, f
  <2> QED
    BY <1>3, <1>8, <2>1, <2>2, SMTT(30)
<1>10. \A x \in seen : x \in 1 .. Total /\ x < f
  BY <1>1, <1>3, Zenon DEF DirInv, SeenBefore, DirTypes
<1>11. \A i \in 1 .. n : /\ buf[i].entry = f + (i - 1) /\ buf[i].entry \in 1 .. Total
                         /\ i \in 1 .. m
  BY <1>4, <1>6, <1>7
<1> HIDE DEF f, m
<1>12. ~back /\ ~back'
  <2>1. ~back
    BY Zenon DEF DirInv, SeenBefore
  <2>2. ASSUME NEW i \in 1 .. n, NEW x \in seen PROVE ~(buf[i].entry <= x)
    <3>1. buf[i].entry = f + (i - 1) /\ x \in Nat /\ x < f
      BY <1>10, <1>11, DirFacts
    <3>2. i \in Nat /\ i >= 1
      BY <1>4
    <3> QED
      BY <1>8, <3>1, <3>2
  <2> QED
    BY <1>2, <2>1, <2>2, Zenon
<1>13. seen' \subseteq 1 .. Total
  BY <1>2, <1>10, <1>11, Zenon
<1>14. DirTypes'
  <2>1. back' \in BOOLEAN /\ cut' \in BOOLEAN
    BY <1>2, <1>12, ZenonT(60)
  <2> QED
    BY <1>1, <1>3, <1>9, <1>13, <2>1, Zenon DEF DirTypes
<1>15. Laid'
  BY <1>3, Zenon DEF DirInv, Laid
<1>16. InOrder'
  BY <1>3, Zenon DEF DirInv, InOrder
<1>17. SeenBefore'
  <2>1. ASSUME NEW x \in seen' PROVE x + Delta <= pos' /\ x <= Past
    <3>0. n \in Nat /\ n >= 1 /\ m \in Nat /\ n <= m
      BY <1>4, SMTT(30)
    <3>1. CASE x \in seen
      <4>1. x \in Nat /\ x < f
        BY <1>10, <3>1, DirFacts, SMTT(30)
      <4> QED
        BY <1>3, <1>4, <1>8, <1>9, <3>0, <4>1
    <3>2. CASE \E i \in 1 .. n : x = buf[i].entry
      <4>1. PICK i \in 1 .. n : x = buf[i].entry
        BY <3>2, Zenon
      <4>2. x = f + (i - 1)
        BY <1>11, <4>1
      <4>3. i \in Nat /\ i <= n
        BY <3>0
      <4> QED
        BY <1>3, <1>4, <1>8, <1>9, <3>0, <4>2, <4>3
    <3> QED
      BY <1>2, <3>1, <3>2, Zenon
  <2> QED
    BY <1>3, <1>12, <2>1 DEF SeenBefore
<1>18. NoneMissed'
  <2> SUFFICES ASSUME Promises'
               PROVE  /\ seen' = 1 .. pos' /\ pos' <= Total
                      /\ handler = "passthrough" => pos' # sought
                      /\ handler = "path_through" => Past = pos'
    BY <1>3 DEF NoneMissed
  <2>1. Promises /\ Delta = 0 /\ (handler = "path_through" => ~cut')
    BY <1>2, <1>3, ZenonT(60) DEF Promises, Delta
  <2>2. /\ seen = 1 .. pos /\ f = pos + 1 /\ pos \in Nat
        /\ handler = "passthrough" => sought = pos
    BY <1>1, <1>3, <2>1, Zenon DEF DirInv, NoneMissed, DirTypes, f
  <2>3. pos' = pos + n
    BY <1>4, <1>9, <2>1, <2>2
  <2>4. seen' = 1 .. pos + n
    <3>1. ASSUME NEW x \in seen' PROVE x \in 1 .. pos + n
      <4>1. CASE x \in seen
        BY <1>4, <2>2, <4>1
      <4>2. CASE \E i \in 1 .. n : x = buf[i].entry
        BY <1>4, <1>11, <2>2, <4>2
      <4> QED
        BY <1>2, <4>1, <4>2, Zenon
    <3>2. ASSUME NEW x \in 1 .. pos + n PROVE x \in seen'
      <4>1. CASE x <= pos
        BY <1>2, <1>4, <2>2, <4>1, SMTT(30)
      <4>2. CASE x > pos
        <5>1. x - pos \in 1 .. n /\ buf[x - pos].entry = x
          BY <1>4, <1>11, <2>2, <4>2, SMTT(30)
        <5> QED
          BY <1>2, <5>1, Zenon
      <4> QED
        BY <1>4, <2>2, <4>1, <4>2, SMTT(30)
    <3> QED
      BY <3>1, <3>2, ZenonT(60)
  <2>5. pos' <= Total
    <3>1. n \in 1 .. n /\ n \in Nat
      BY <1>4
    <3>2. buf[n].entry = f + (n - 1) /\ buf[n].entry \in 1 .. Total
      BY <1>11, <3>1, Zenon
    <3> QED
      BY <1>8, <2>2, <2>3, <3>1, <3>2, DirFacts
  <2>6. handler = "path_through" => Past = pos'
    <3> SUFFICES ASSUME handler = "path_through" PROVE Past = pos'
      OBVIOUS
    <3>0. ~(n < m)
      BY <1>2, <2>1, Zenon DEF m
    <3>1. n = m
      BY <1>4, <3>0, SMTT(30)
    <3>2. buf[m].entry = Past
      BY <1>1, <1>3, Zenon DEF DirInv, InOrder, m
    <3>3. pos' = buf[m].entry + Delta /\ buf[m].entry \in Nat
      BY <1>4, <1>8, <1>9, <3>1
    <3> QED
      BY <2>1, <3>2, <3>3
  <2> QED
    BY <1>4, <2>2, <2>3, <2>4, <2>5, <2>6, SMTT(30)
<1> QED
  BY <1>14, <1>15, <1>16, <1>17, <1>18, Zenon DEF DirInv

\* An empty reply ends the directory.
LEMMA EndStep == ASSUME DirInv, EndOfDir PROVE DirInv'
<1>1. /\ pc = "replied" /\ buf = <<>> /\ pc' = "end" /\ todo' = todo /\ buf' = buf
      /\ len' = len /\ handler' = handler /\ size' = size /\ sought' = sought /\ pos' = pos
      /\ seen' = seen /\ back' = back /\ cut' = cut /\ rewound' = rewound
  BY Zenon DEF EndOfDir, hist
<1>2. Busy /\ ~Busy' /\ Delta' = Delta /\ Past' = Past /\ Promises' = Promises
  BY <1>1, Zenon DEF Busy, Delta, Past, Promises
<1>3. todo = <<>> /\ Past = Total
  BY <1>1, DirFacts DEF DirInv, InOrder, Past
<1>4. DirTypes'
  BY <1>1, Zenon DEF DirInv, DirTypes
<1>5. Laid' /\ InOrder'
  BY <1>1, <1>2, Zenon DEF DirInv, Laid, InOrder
<1>6. SeenBefore'
  BY <1>1, <1>2, Zenon DEF DirInv, SeenBefore
<1>7. NoneMissed'
  BY <1>1, <1>2, <1>3, Zenon DEF DirInv, NoneMissed
<1> QED
  BY <1>4, <1>5, <1>6, <1>7, Zenon DEF DirInv

\* rewinddir: the handlers that still promise the whole directory will seek.
LEMMA RewindStep == ASSUME DirInv, Rewind PROVE DirInv'
<1>1. /\ pc \in {"reader", "end"} /\ rewound = "no" /\ pos' = 0 /\ pc' = "reader" /\ seen' = {}
      /\ rewound' = IF sought = 0 THEN "first" ELSE "later"
      /\ todo' = todo /\ buf' = buf /\ len' = len /\ handler' = handler /\ size' = size
      /\ sought' = sought /\ back' = back /\ cut' = cut
  BY Zenon DEF Rewind
<1>2. ~Busy /\ ~Busy' /\ Delta' = Delta /\ Past' = Past
  BY <1>1, Zenon DEF Busy, Delta, Past
<1>3. DirTypes'
  BY <1>1, Zenon DEF DirInv, DirTypes
<1>4. Laid' /\ InOrder'
  BY <1>1, <1>2, Zenon DEF DirInv, Laid, InOrder
<1>5. SeenBefore'
  BY <1>1, Zenon DEF DirInv, SeenBefore
<1>6. NoneMissed'
  <2>1. {} = 1 .. 0 /\ 0 <= Total
    BY DirFacts
  <2>2. Promises' => /\ handler # "path_through"
                     /\ handler = "passthrough" => sought # 0
    BY <1>1, Zenon DEF Promises
  <2> QED
    BY <1>1, <1>2, <2>1, <2>2, Zenon DEF NoneMissed
<1> QED
  BY <1>3, <1>4, <1>5, <1>6 DEF DirInv

\* Every step of the directory reader keeps DirInv.
LEMMA DirNextInv == DirInv /\ [DirNext]_dirVars => DirInv'
<1> SUFFICES ASSUME DirInv, [DirNext]_dirVars PROVE DirInv'
  BY Zenon
<1>1. CASE hello_readdir \/ memfs_readdir \/ passthrough_readdir \/ path_through_readdir
  <2>1. sought \in Nat /\ pos \in Nat
    BY Zenon DEF DirInv, DirTypes
  <2> QED
    BY <1>1, <2>1, AskedStep, Zenon
       DEF hello_readdir, memfs_readdir, passthrough_readdir, path_through_readdir
<1> QED
  BY <1>1, DirStutter, opendirStep, PushStep, ReplyDirStep, TakeStep, EndStep, RewindStep, Zenon
     DEF DirNext

\* DirInv holds of every behaviour of the reader.
LEMMA DirInvHolds == DirSpec => []DirInv
BY DirInitInv, DirNextInv, PTL DEF DirSpec

\* RecordsFit: whatever the names and the sizes asked for, the kernel steps through a
\* reply of DirEntryBuf record by record and refuses none as too long.
THEOREM RecordsAlwaysFit == DirSpec => []RecordsFit
<1>1. DirInv => RecordsFit
  BY Zenon DEF DirInv, DirTypes, Laid, RecordsFit
<1> QED
  BY <1>1, DirInvHolds, PTL

\* ListedOnce: whatever the names and the sizes, no entry is seen twice or out of order,
\* and the handlers that promise it give the whole directory.
THEOREM ListingIsWhole == DirSpec => []ListedOnce
<1>1. DirInv => ListedOnce
  <2> SUFFICES ASSUME DirInv PROVE ListedOnce
    BY Zenon
  <2>1. handler \in {"hello", "memfs", "passthrough", "path_through"}
    BY DEF DirInv, DirTypes
  <2> QED
    BY <2>1, DirFacts DEF DirInv, SeenBefore, NoneMissed, Promises, ListedOnce
<1> QED
  BY <1>1, DirInvHolds, PTL

============================================================================
