-------------------------- MODULE RequestBufProofs --------------------------
(***************************************************************************)
(* Proofs about RequestBuf: for every size of header, buffer and pipe, both*)
(* kinds of buffer implement the mailbox.                                  *)
(***************************************************************************)
EXTENDS RequestBuf, SequenceTheorems, TLAPS

----------------------------------------------------------------------------
(* The inductive invariant                                                 *)

Cell == [id : Nat, kind : Kinds, size : Nat, claim : Nat] \X Nat

\* A pipe whose counter is right.
Pipes == {p \in [cells : Seq(Cell), len : Nat] : p.len = Len(p.cells)}

\* The vector starts with everything that follows the header of m.
Holds(v, m) == \A i \in 1 .. Vec!Cap : Hdr + i <= m.size => v[i] = <<m, Hdr + i>>

IInv ==
    /\ pipe \in Pipes
    /\ vec \in [1 .. Vec!Cap -> Cell]
    /\ header \in [1 .. Hdr -> Cell]
    /\ pos \in Nat /\ taken \in Nat /\ pos + taken <= Vec!Cap
    /\ cur # NoMsg => cur \in Msgs /\ WellFormed(cur)
    /\ cur # NoMsg /\ kind = "Vec" => pos = ArgLen(cur) /\ Holds(vec, cur)

----------------------------------------------------------------------------
(* Messages and sequences of cells                                         *)

\* The buffers and the mailbox split a message in the same way.
LEMMA SameSplit ==
    /\ \A m : Mailbox!WellFormed(m) <=> WellFormed(m)
    /\ \A m : Mailbox!Arg(m) = Arg(m) /\ Mailbox!Data(m) = Data(m)
    /\ Mailbox!Msgs = Msgs
    /\ \A s, t : Mailbox!Begins(s, t) <=> Begins(s, t)
    /\ \A m : Pipe!Cells(m) = Cells(m) /\ Pipe!ArgLen(m) = ArgLen(m)
    /\ \A m : Vec!ArgLen(m) = ArgLen(m)
    /\ Pipe!ZeroCell = ZeroCell /\ Vec!ZeroCell = ZeroCell
  BY DEF Mailbox!Begins, Begins, Mailbox!WellFormed, WellFormed, Mailbox!Arg, Arg, Mailbox!Data, Data,
         Mailbox!Msgs, Msgs, Mailbox!Kinds, Kinds, Mailbox!Cells, Pipe!Cells, Cells,
         Mailbox!ArgLen, Pipe!ArgLen, Vec!ArgLen, ArgLen,
         Mailbox!SatSub, Pipe!SatSub, Vec!SatSub, SatSub,
         Pipe!ZeroCell, Vec!ZeroCell, ZeroCell

\* arg_len is a length, and at most what the message holds after its header.
LEMMA ArgLenType ==
    ASSUME NEW m \in Msgs
    PROVE  /\ m.size \in Nat /\ m.claim \in Nat /\ m.size <= BufSize
           /\ ArgLen(m) \in Nat
           /\ WellFormed(m) => Hdr + ArgLen(m) <= m.size
  BY SizeAssumption DEF Msgs, Kinds, ArgLen, SatSub, WellFormed

\* The cells of a message are a sequence of its length.
LEMMA CellsType ==
    ASSUME NEW m \in Msgs
    PROVE  /\ Cells(m) \in Seq(Cell) /\ Len(Cells(m)) = m.size
           /\ \A i \in 1 .. m.size : Cells(m)[i] = <<m, i>> /\ <<m, i>> \in Cell
  BY SizeAssumption, SMTT(30) DEF Msgs, Cells, Cell

\* A sequence is a piece of itself, and begins with itself.
LEMMA WholeSeq == \A s \in Seq(Cell) : SubSeq(s, 1, Len(s)) = s /\ Begins(s, s)
<1> TAKE s \in Seq(Cell)
<1> DEFINE t == SubSeq(s, 1, Len(s))
<1>1. Len(s) \in Nat /\ \A i \in 1 .. Len(s) : s[i] \in Cell
  BY LenProperties
<1>2. t \in Seq(Cell) /\ Len(t) = Len(s) /\ \A i \in 1 .. Len(s) : t[i] = s[i]
  BY <1>1, SubSeqProperties
<1> HIDE DEF t
<1>3. t = s
  BY <1>2, SeqEqual
<1> QED BY <1>1, <1>3 DEF t, Begins

\* A suffix of a piece of a sequence is a piece of the sequence.
LEMMA PieceOfPiece ==
    ASSUME NEW s \in Seq(Cell), NEW lo \in Nat \ {0}, NEW hi \in Nat, hi <= Len(s),
           NEW r, r = SubSeq(s, lo, hi), NEW j \in Nat \ {0}
    PROVE  SubSeq(r, j, Len(r)) = SubSeq(s, lo + j - 1, hi)
<1> DEFINE t == SubSeq(r, j, Len(r))
           u == SubSeq(s, lo + j - 1, hi)
<1>1. \A i \in lo .. hi : s[i] \in Cell
  BY LenProperties
<1>2. /\ r \in Seq(Cell)
      /\ Len(r) = IF lo <= hi THEN hi - lo + 1 ELSE 0
      /\ \A i \in 1 .. hi - lo + 1 : r[i] = s[lo + i - 1]
  BY <1>1, SubSeqProperties
<1>3. /\ u \in Seq(Cell)
      /\ Len(u) = IF lo + j - 1 <= hi THEN hi - (lo + j - 1) + 1 ELSE 0
      /\ \A i \in 1 .. hi - (lo + j - 1) + 1 : u[i] = s[lo + j - 1 + i - 1]
  BY <1>1, SubSeqProperties
<1> HIDE DEF u
<1>4. \A i \in j .. Len(r) : r[i] \in Cell
  BY <1>2, LenProperties
<1>5. /\ t \in Seq(Cell)
      /\ Len(t) = IF j <= Len(r) THEN Len(r) - j + 1 ELSE 0
      /\ \A i \in 1 .. Len(r) - j + 1 : t[i] = r[j + i - 1]
  BY <1>2, <1>4, SubSeqProperties
<1> HIDE DEF t
<1>6. Len(t) = Len(u)
  BY <1>2, <1>3, <1>5
<1>7. \A i \in 1 .. Len(t) : t[i] = u[i]
  BY <1>2, <1>3, <1>5
<1>8. t = u
  BY <1>3, <1>5, <1>6, <1>7, SeqEqual, Zenon
<1> QED
  BY <1>8 DEF t, u

----------------------------------------------------------------------------
(* The pipe                                                                *)

\* A read takes a prefix from a pipe and keeps its counter right.
LEMMA TakeDrops ==
    ASSUME NEW p \in Pipes, NEW k \in Nat
    PROVE  Pipe!Take(p, k) \in Pipes /\ Pipe!Take(p, k).cells = SubSeq(p.cells, k + 1, Len(p.cells))
<1> DEFINE c == p.cells
           a == Pipe!Min(k, Len(c))
           t == SubSeq(c, a + 1, Len(c))
<1>1. p.cells \in Seq(Cell) /\ p.len = Len(c) /\ Len(c) \in Nat
  BY LenProperties DEF Pipes
<1>2. a \in Nat /\ a <= Len(c) /\ (a = k \/ (a = Len(c) /\ k > Len(c)))
  BY <1>1 DEF Pipe!Min
<1>3. \A i \in a + 1 .. Len(c) : c[i] \in Cell
  BY <1>1, <1>2, LenProperties
<1>4. t \in Seq(Cell) /\ Len(t) = Len(c) - a
  <2> HIDE DEF a
  <2> QED BY <1>1, <1>2, <1>3, SubSeqProperties
<1>5. t = SubSeq(c, k + 1, Len(c))
  <2>1. CASE a = k
    BY <2>1
  <2>2. CASE a = Len(c) /\ k > Len(c)
    BY <1>1, <2>2, SubSeqEmpty
  <2> QED BY <1>2, <2>1, <2>2, Zenon
<1>6. Pipe!Take(p, k) = [cells |-> t, len |-> Pipe!SatSub(p.len, a)]
  BY DEF Pipe!Take
<1>7. Pipe!SatSub(p.len, a) = Len(c) - a
  <2> HIDE DEF a, c
  <2> QED BY <1>1, <1>2 DEF Pipe!SatSub
<1>8. Len(c) - a \in Nat
  <2> HIDE DEF a, c
  <2> QED BY <1>1, <1>2
<1> HIDE DEF t, a, c
<1>9. [cells |-> t, len |-> Len(c) - a] \in Pipes
  BY <1>4, <1>8 DEF Pipes
<1> QED
  BY <1>5, <1>6, <1>7, <1>9 DEF c

\* reset leaves an empty pipe, since the counter shows every leftover.
LEMMA ResetEmpties ==
    ASSUME NEW p \in Pipes
    PROVE  Pipe!Reset(p) = Pipe!NewPipe /\ Pipe!NewPipe \in Pipes
<1>1. p.cells \in Seq(Cell) /\ p.len = Len(p.cells) /\ p = [cells |-> p.cells, len |-> p.len]
  BY DEF Pipes
<1>2. p.len = 0 => p.cells = <<>>
  BY <1>1, EmptySeq, Zenon
<1>3. Pipe!NewPipe \in Pipes
  BY EmptySeq DEF Pipe!NewPipe, Pipes
<1> QED
  BY <1>1, <1>2, <1>3 DEF Pipe!Reset, Pipe!NewPipe

\* A message spliced into an empty pipe is all it holds.
LEMMA SpliceFills ==
    ASSUME NEW m \in Msgs
    PROVE  /\ Pipe!SpliceFrom(Pipe!NewPipe, Cells(m)) \in Pipes
           /\ Pipe!SpliceFrom(Pipe!NewPipe, Cells(m)).cells = Cells(m)
<1>1. Cells(m) \in Seq(Cell) /\ Len(Cells(m)) \in Nat
  BY CellsType, ArgLenType
<1>2. <<>> \o Cells(m) = Cells(m) /\ 0 + Len(Cells(m)) = Len(Cells(m))
  BY <1>1, ConcatEmptySeq
<1>3. Pipe!SpliceFrom(Pipe!NewPipe, Cells(m)) = [cells |-> Cells(m), len |-> Len(Cells(m))]
  BY <1>2 DEF Pipe!SpliceFrom, Pipe!NewPipe
<1> QED
  BY <1>1, <1>3 DEF Pipes

\* What a receive into a pipe does: it returns the message only when that is well
\* formed, and leaves its argument and its data, or returns nothing.
LEMMA PipeReceives ==
    ASSUME IInv, NEW m \in Msgs, Pipe!TryReceive(m)
    PROVE  /\ pipe' \in Pipes
           /\ header' \in [1 .. Hdr -> Cell]
           /\ \/ cur' = NoMsg
              \/ cur' = m /\ WellFormed(m) /\ arg' = Arg(m) /\ pipe'.cells = Data(m)
<1> DEFINE p == Pipe!SpliceFrom(Pipe!Reset(pipe), Pipe!Cells(m))
           q == Pipe!Take(p, Hdr)
           h == SubSeq(p.cells, 1, Hdr)
           parsed == h[1][1]
           l == Pipe!ArgLen(parsed)
           got == SubSeq(q.cells, 1, Pipe!Min(l, Len(q.cells)))
<1>a. Hdr \in Nat \ {0}
  BY SizeAssumption
<1>b. m.size \in Nat /\ m.claim \in Nat /\ ArgLen(m) \in Nat
  BY ArgLenType
<1>c. /\ Cells(m) \in Seq(Cell) /\ Len(Cells(m)) = m.size
      /\ \A i \in 1 .. m.size : Cells(m)[i] = <<m, i>> /\ <<m, i>> \in Cell
  BY CellsType
<1>1. p \in Pipes /\ p.cells = Cells(m)
  BY ResetEmpties, SpliceFills, SameSplit DEF IInv
<1>2. q \in Pipes /\ q.cells = SubSeq(Cells(m), Hdr + 1, m.size)
  <2> HIDE DEF p
  <2> QED BY <1>1, <1>a, <1>c, TakeDrops, Zenon
<1>d. /\ m.size < Hdr => pipe' = p /\ cur' = NoMsg /\ header' = header
      /\ ~(m.size < Hdr) =>
            /\ header' = h
            /\ m.size # parsed.claim => pipe' = q /\ cur' = NoMsg
            /\ m.size = parsed.claim =>
                  /\ arg' = got \o [i \in 1 .. l - Len(got) |-> Pipe!ZeroCell]
                  /\ pipe' = Pipe!Take(q, l)
                  /\ cur' = IF Len(got) = l THEN m ELSE NoMsg
  BY Zenon DEF Pipe!TryReceive
<1> HIDE DEF p, q
<1>3. CASE m.size < Hdr
  <2>1. pipe' = p /\ cur' = NoMsg /\ header' = header
    BY <1>3, <1>d, Zenon
  <2> QED
    BY <1>1, <2>1, SMTT(30) DEF IInv
<1>4. CASE m.size >= Hdr
  <2>1. h \in [1 .. Hdr -> Cell] /\ parsed = m
    <3> DEFINE g == SubSeq(Cells(m), 1, Hdr)
    <3>1. \A i \in 1 .. Hdr : Cells(m)[i] \in Cell
      BY <1>a, <1>b, <1>c, <1>4
    <3>2. g \in Seq(Cell) /\ Len(g) = Hdr /\ \A i \in 1 .. Hdr : g[i] = Cells(m)[i]
      BY <1>a, <3>1, SubSeqProperties
    <3> HIDE DEF g
    <3>3. g[1] = <<m, 1>>
      <4>1. 1 \in 1 .. Hdr /\ 1 \in 1 .. m.size
        BY <1>a, <1>b, <1>4
      <4> QED BY <1>c, <3>2, <4>1, Zenon
    <3>4. g \in [1 .. Hdr -> Cell]
      BY <3>2, LenProperties
    <3>5. h = g
      BY <1>1 DEF g
    <3> HIDE DEF h
    <3> QED BY <3>3, <3>4, <3>5
  <2>2. l = ArgLen(m)
    BY <2>1, SameSplit, Zenon
  <2>0. ~(m.size < Hdr)
    BY <1>4, <1>a, <1>b
  <2>3. header' = h /\ header' \in [1 .. Hdr -> Cell]
    <3> HIDE DEF h
    <3> QED BY <1>d, <2>0, <2>1
  <2>4. CASE m.size # m.claim
    <3>1. pipe' = q /\ cur' = NoMsg
      <4> HIDE DEF h, got, l
      <4> QED BY <1>d, <2>0, <2>1, <2>4
    <3> QED
      BY <1>2, <2>3, <3>1
  <2>5. CASE m.size = m.claim
    <3>1. /\ arg' = got \o [i \in 1 .. l - Len(got) |-> Pipe!ZeroCell]
          /\ pipe' = Pipe!Take(q, l)
          /\ cur' = IF Len(got) = l THEN m ELSE NoMsg
      <4> HIDE DEF h, got, l
      <4> QED BY <1>d, <2>0, <2>1, <2>5, Zenon
    <3> HIDE DEF h, l
    <3>2. pipe' \in Pipes /\ pipe'.cells = SubSeq(q.cells, l + 1, Len(q.cells))
      BY <1>2, <1>b, <2>2, <3>1, TakeDrops, Zenon
    <3>3. pipe'.cells = SubSeq(Cells(m), Hdr + ArgLen(m) + 1, m.size)
      <4>1. /\ Hdr + 1 \in Nat \ {0} /\ ArgLen(m) + 1 \in Nat \ {0} /\ m.size <= Len(Cells(m))
            /\ (Hdr + 1) + (ArgLen(m) + 1) - 1 = Hdr + ArgLen(m) + 1
        BY <1>a, <1>b, <1>c, SMTT(30)
      <4>2. SubSeq(q.cells, ArgLen(m) + 1, Len(q.cells))
            = SubSeq(Cells(m), (Hdr + 1) + (ArgLen(m) + 1) - 1, m.size)
        <5> DEFINE c == Cells(m)
                   z == m.size
                   lo == Hdr + 1
                   j == ArgLen(m) + 1
        <5>1. c \in Seq(Cell) /\ lo \in Nat \ {0} /\ j \in Nat \ {0} /\ z \in Nat /\ z <= Len(c)
          BY <1>b, <1>c, <4>1
        <5>2. q.cells = SubSeq(c, lo, z)
          BY <1>2
        <5> HIDE DEF c, z, lo, j
        <5>3. SubSeq(q.cells, j, Len(q.cells)) = SubSeq(c, lo + j - 1, z)
          BY <5>1, <5>2, PieceOfPiece
        <5> QED BY <5>3, Zenon DEF c, z, lo, j
      <4>3. SubSeq(q.cells, ArgLen(m) + 1, Len(q.cells)) = SubSeq(Cells(m), Hdr + ArgLen(m) + 1, m.size)
        BY <4>1, <4>2, Zenon
      <4> QED BY <2>2, <3>2, <4>3, Zenon
    <3>4. CASE Len(got) # l
      BY <2>3, <3>1, <3>2, <3>4, Zenon
    <3>5. CASE Len(got) = l
      <4>1. q.cells \in Seq(Cell) /\ Len(q.cells) \in Nat
        BY <1>2, LenProperties, Zenon DEF Pipes
      <4>2. /\ Len(q.cells) = m.size - Hdr
            /\ \A i \in 1 .. m.size - Hdr : q.cells[i] = Cells(m)[Hdr + i]
        <5>1. \A i \in Hdr + 1 .. m.size : Cells(m)[i] \in Cell
          BY <1>a, <1>b, <1>c
        <5> QED BY <1>2, <1>4, <1>a, <1>b, <5>1, SubSeqProperties
      <4>3. Pipe!Min(l, Len(q.cells)) \in Nat /\ Pipe!Min(l, Len(q.cells)) <= Len(q.cells)
        BY <1>b, <2>2, <4>1 DEF Pipe!Min
      <4>4. /\ got \in Seq(Cell)
            /\ Len(got) = Pipe!Min(l, Len(q.cells))
            /\ \A i \in 1 .. Pipe!Min(l, Len(q.cells)) : got[i] = q.cells[i]
        <5>1. \A i \in 1 .. Pipe!Min(l, Len(q.cells)) : q.cells[i] \in Cell
          BY <4>1, <4>3, LenProperties
        <5> QED BY <4>3, <5>1, SubSeqProperties
      <4> HIDE DEF got
      <4>5. l <= m.size - Hdr
        BY <3>5, <4>2, <4>3, <4>4
      <4>6. WellFormed(m)
        BY <1>a, <1>b, <2>2, <2>5, <4>5 DEF WellFormed
      <4>7. arg' = got
        <5>1. [i \in 1 .. l - Len(got) |-> Pipe!ZeroCell] = <<>>
          BY <1>b, <2>2, <3>5
        <5> QED BY <3>1, <4>4, <5>1, ConcatEmptySeq, Zenon
      <4>8. got = Arg(m)
        <5> DEFINE f == SubSeq(Cells(m), Hdr + 1, Hdr + ArgLen(m))
        <5>1. \A i \in Hdr + 1 .. Hdr + ArgLen(m) : Cells(m)[i] \in Cell
          BY <1>a, <1>b, <1>c, <2>2, <4>5
        <5>2. f \in Seq(Cell) /\ Len(f) = ArgLen(m) /\ \A i \in 1 .. ArgLen(m) : f[i] = Cells(m)[Hdr + i]
          BY <1>a, <1>b, <5>1, SubSeqProperties
        <5> HIDE DEF f
        <5>3. \A i \in 1 .. Len(got) : got[i] = f[i]
          <6> SUFFICES ASSUME NEW i \in 1 .. Len(got) PROVE got[i] = f[i]
            OBVIOUS
          <6>1. i \in 1 .. ArgLen(m) /\ i \in 1 .. Pipe!Min(l, Len(q.cells))
            BY <2>2, <3>5, <4>4
          <6>2. i \in 1 .. m.size - Hdr
            BY <1>a, <1>b, <2>2, <4>5, <6>1
          <6> QED BY <4>2, <4>4, <5>2, <6>1, <6>2, Zenon
        <5>4. got = f
          BY <2>2, <3>5, <4>4, <5>2, <5>3, SeqEqual, Zenon
        <5> QED BY <5>4 DEF f, Arg
      <4> QED
        BY <2>3, <3>1, <3>2, <3>3, <3>5, <4>6, <4>7, <4>8, Zenon DEF Data
    <3> QED BY <3>4, <3>5, Zenon
  <2> QED BY <2>4, <2>5
<1> QED BY <1>3, <1>4, <1>a, <1>b

----------------------------------------------------------------------------
(* The vector                                                              *)

\* The capacity of the buffer behind the header.
LEMMA CapType == Vec!Cap \in Nat /\ Hdr \in Nat \ {0} /\ Hdr + Vec!Cap = BufSize
  BY SizeAssumption DEF Vec!Cap

\* What a receive into a vector does: it fills the vector, and returns the message
\* only when that is well formed.
LEMMA VecReceives ==
    ASSUME IInv, NEW m \in Inputs, Vec!TryReceive(m)
    PROVE  /\ vec' \in [1 .. Vec!Cap -> Cell] /\ header' \in [1 .. Hdr -> Cell]
           /\ taken' = 0 /\ pos' \in Nat /\ pos' <= Vec!Cap
           /\ \/ cur' = NoMsg
              \/ cur' = m /\ WellFormed(m) /\ pos' = ArgLen(m) /\ Holds(vec', m)
<1> DEFINE h == Vec!Filled(header, m, 0)
<1>1. m \in Msgs /\ m.size > 0 /\ (m.claim = m.size => WellFormed(m))
  BY InputAssumption DEF Readable
<1>2. m.size \in Nat /\ m.claim \in Nat /\ ArgLen(m) \in Nat /\ m.size <= BufSize
  BY <1>1, ArgLenType
<1>3. \A i \in 1 .. m.size : <<m, i>> \in Cell
  BY <1>1, CellsType
<1>4. /\ header' = h
      /\ vec' = Vec!Filled(vec, m, Hdr)
      /\ taken' = 0
      /\ m.size # h[1][1].claim => cur' = NoMsg /\ pos' = 0
      /\ m.size = h[1][1].claim => cur' = m /\ pos' = Vec!ArgLen(h[Hdr][1])
  BY Zenon DEF Vec!TryReceive
<1>5. h \in [1 .. Hdr -> Cell]
  <2>1. h = [i \in 1 .. Hdr |-> IF 0 + i <= m.size THEN <<m, 0 + i>> ELSE header[i]]
    BY DEF IInv, Vec!Filled
  <2>2. \A i \in 1 .. Hdr : (IF 0 + i <= m.size THEN <<m, 0 + i>> ELSE header[i]) \in Cell
    BY <1>2, <1>3, CapType DEF IInv
  <2> HIDE DEF h
  <2> QED BY <2>1, <2>2
<1>6. vec' \in [1 .. Vec!Cap -> Cell] /\ Holds(vec', m)
  <2>1. vec' = [i \in 1 .. Vec!Cap |-> IF Hdr + i <= m.size THEN <<m, Hdr + i>> ELSE vec[i]]
    BY <1>4 DEF IInv, Vec!Filled
  <2>2. \A i \in 1 .. Vec!Cap : (IF Hdr + i <= m.size THEN <<m, Hdr + i>> ELSE vec[i]) \in Cell
    BY <1>2, <1>3, CapType DEF IInv
  <2> QED BY <2>1, <2>2 DEF Holds
<1>7. h[1] = <<m, 1>>
  <2>1. 1 \in DOMAIN header /\ 0 + 1 <= m.size
    BY <1>1, <1>2, CapType DEF IInv
  <2> QED BY <2>1 DEF Vec!Filled
<1>8. CASE m.size # m.claim
  <2>1. cur' = NoMsg /\ pos' = 0
    <3> HIDE DEF h
    <3> QED BY <1>4, <1>7, <1>8
  <2> QED
    BY <1>4, <1>5, <1>6, <2>1, CapType
<1>9. CASE m.size = m.claim
  <2>1. WellFormed(m) /\ Hdr + ArgLen(m) <= m.size
    BY <1>1, <1>9, ArgLenType
  <2>2. h[Hdr] = <<m, Hdr>>
    <3>1. Hdr \in DOMAIN header /\ 0 + Hdr <= m.size /\ 0 + Hdr = Hdr
      BY <1>2, <2>1, CapType DEF IInv
    <3> QED BY <3>1 DEF Vec!Filled
  <2>3. cur' = m /\ pos' = ArgLen(m)
    <3> HIDE DEF h
    <3>1. cur' = m /\ pos' = Vec!ArgLen(m)
      BY <1>4, <1>7, <1>9, <2>2
    <3> QED BY <3>1, SameSplit, Zenon
  <2>4. ArgLen(m) <= Vec!Cap
    BY <1>2, <2>1, CapType
  <2> HIDE DEF h
  <2> QED
    BY <1>2, <1>4, <1>5, <1>6, <2>1, <2>3, <2>4, Zenon
<1> QED BY <1>8, <1>9

\* A vector that holds a message gives out its argument and its data.
LEMMA VecParts ==
    ASSUME NEW m \in Msgs, WellFormed(m), NEW v \in [1 .. Vec!Cap -> Cell], Holds(v, m)
    PROVE  /\ SubSeq(v, 1, ArgLen(m)) = Arg(m)
           /\ SubSeq(v, ArgLen(m) + 1, Vec!Cap) \in Seq(Cell)
           /\ Begins(SubSeq(v, ArgLen(m) + 1, Vec!Cap), Data(m))
<1> DEFINE l == ArgLen(m)
           z == m.size
           cap == Vec!Cap
           d == z - Hdr - l
           a == SubSeq(v, 1, l)
           r == SubSeq(v, l + 1, cap)
           s == SubSeq(r, 1, d)
           c == Cells(m)
           aa == SubSeq(c, Hdr + 1, Hdr + l)
           dd == SubSeq(c, Hdr + l + 1, z)
<1>1. /\ Hdr \in Nat \ {0} /\ l \in Nat /\ z \in Nat /\ cap \in Nat
      /\ Hdr + l <= z /\ z <= Hdr + cap
  BY ArgLenType, CapType
<1>2. d = z - Hdr - l /\ d \in Nat /\ d <= cap - l
  BY <1>1
<1>3. /\ \A i \in 1 .. z : c[i] = <<m, i>> /\ c[i] \in Cell
      /\ \A i \in 1 .. cap : v[i] \in Cell /\ (Hdr + i <= z => v[i] = <<m, Hdr + i>>)
  BY CellsType, Zenon DEF Holds
<1> HIDE DEF c, l, z, cap
<1>4. a \in Seq(Cell) /\ Len(a) = l /\ \A i \in 1 .. l : a[i] = v[i]
  <2>1. \A i \in 1 .. l : v[i] \in Cell
    BY <1>1, <1>3
  <2> QED BY <1>1, <2>1, SubSeqProperties
<1>5. aa \in Seq(Cell) /\ Len(aa) = l /\ \A i \in 1 .. l : aa[i] = c[Hdr + i]
  <2>1. \A i \in Hdr + 1 .. Hdr + l : c[i] \in Cell
    BY <1>1, <1>3
  <2> QED BY <1>1, <2>1, SubSeqProperties
<1>6. r \in Seq(Cell) /\ Len(r) = cap - l /\ \A i \in 1 .. cap - l : r[i] = v[l + i]
  <2>1. \A i \in l + 1 .. cap : v[i] \in Cell
    BY <1>1, <1>3
  <2> QED BY <1>1, <2>1, SubSeqProperties
<1>7. dd \in Seq(Cell) /\ Len(dd) = z - Hdr - l /\ \A i \in 1 .. z - Hdr - l : dd[i] = c[Hdr + l + i]
  <2>1. \A i \in Hdr + l + 1 .. z : c[i] \in Cell
    BY <1>1, <1>3
  <2> QED BY <1>1, <2>1, SubSeqProperties
<1> HIDE DEF a, aa, r, dd, d
<1>8. s \in Seq(Cell) /\ Len(s) = d /\ \A i \in 1 .. d : s[i] = r[i]
  <2>1. \A i \in 1 .. d : r[i] \in Cell
    BY <1>1, <1>2, <1>6, LenProperties
  <2> QED BY <1>1, <1>2, <2>1, SubSeqProperties
<1>9. Len(dd) <= Len(r) /\ Len(dd) = d
  BY <1>2, <1>6, <1>7
<1> HIDE DEF s
<1>10. a = aa
  <2>1. ASSUME NEW i \in 1 .. l PROVE a[i] = aa[i]
    <3>1. i \in 1 .. cap /\ Hdr + i \in 1 .. z /\ Hdr + i <= z
      BY <1>1
    <3> QED BY <1>3, <1>4, <1>5, <3>1, Zenon
  <2> QED BY <1>4, <1>5, <2>1, SeqEqual
<1>11. s = dd
  <2>1. ASSUME NEW i \in 1 .. d PROVE s[i] = dd[i]
    <3>1. /\ i \in 1 .. cap - l /\ l + i \in 1 .. cap /\ Hdr + l + i \in 1 .. z
          /\ i \in 1 .. z - Hdr - l /\ Hdr + (l + i) = Hdr + l + i /\ Hdr + (l + i) <= z
      BY <1>1, <1>2
    <3>2. s[i] = v[l + i]
      BY <1>6, <1>8, <3>1, Zenon
    <3>3. v[l + i] = <<m, Hdr + l + i>>
      BY <1>3, <3>1
    <3> QED BY <1>3, <1>7, <3>1, <3>2, <3>3, Zenon
  <2> QED BY <1>2, <1>7, <1>8, <2>1, SeqEqual, Zenon
<1> QED
  <2>1. Begins(r, dd)
    BY <1>9, <1>11, Zenon DEF s, Begins
  <2> QED BY <1>6, <1>10, <2>1, Zenon DEF a, aa, dd, r, c, l, z, cap, Arg, Data

\* Reading on in a vector drops the units that were read from what is left.
LEMMA VecReads ==
    ASSUME IInv, kind = "Vec", kind' = kind, NEW k \in Nat, Vec!ReadRemaining(k)
    PROVE  /\ taken' \in Nat /\ pos + taken' <= Vec!Cap
           /\ RestOf' = SubSeq(RestOf, k + 1, Len(RestOf))
<1> DEFINE r == Vec!Remains
           d == Len(r)
           cap == Vec!Cap
<1>0. cur # NoMsg
  BY Zenon DEF Vec!ReadRemaining
<1>1. /\ pos \in Nat /\ taken \in Nat /\ cap \in Nat /\ pos + taken <= cap
      /\ vec \in [1 .. cap -> Cell] /\ cur \in Msgs
  BY <1>0, CapType DEF IInv
<1>2. r \in Seq(Cell) /\ Len(r) = cap - pos
  <2>1. r = SubSeq(vec, pos + 1, cap)
    BY DEF Vec!Remains
  <2>2. \A i \in pos + 1 .. cap : vec[i] \in Cell
    BY <1>1
  <2> HIDE DEF r, cap
  <2> QED BY <1>1, <2>1, <2>2, SubSeqProperties
<1>3. d \in Nat /\ d = cap - pos
  <2> HIDE DEF cap, r
  <2> QED BY <1>1, <1>2
<1>4. taken' = Vec!Min(taken + k, Len(r)) /\ cur' = cur /\ pos' = pos /\ vec' = vec
  BY Zenon DEF Vec!ReadRemaining
<1> HIDE DEF d, cap
<1>5. /\ taken' \in Nat /\ pos + taken' <= cap
      /\ \/ taken' = taken + k
         \/ taken' = cap - pos /\ taken + k > cap - pos
  <2> HIDE DEF r
  <2> QED BY <1>1, <1>2, <1>4 DEF Vec!Min
<1>6. RestOf = SubSeq(r, taken + 1, d)
  BY <1>0, Zenon DEF RestOf, d
<1>7. RestOf' = SubSeq(r, taken' + 1, d)
  BY <1>0, <1>4, Zenon DEF RestOf, d, Vec!Remains, Vec!Cap
<1> HIDE DEF r
<1>8. SubSeq(RestOf, k + 1, Len(RestOf)) = SubSeq(r, taken + k + 1, d)
  <2> DEFINE lo == taken + 1
             j == k + 1
  <2>1. lo \in Nat \ {0} /\ j \in Nat \ {0} /\ d <= Len(r) /\ RestOf = SubSeq(r, lo, d)
    BY <1>1, <1>2, <1>3, <1>6 DEF d
  <2>2. lo + j - 1 = taken + k + 1
    BY <1>1
  <2> HIDE DEF lo, j
  <2>3. SubSeq(RestOf, j, Len(RestOf)) = SubSeq(r, lo + j - 1, d)
    BY <1>2, <1>3, <2>1, PieceOfPiece
  <2> QED BY <2>2, <2>3, Zenon DEF j
<1>9. SubSeq(r, taken + k + 1, d) = SubSeq(r, taken' + 1, d)
  <2>1. CASE taken' = taken + k
    BY <2>1
  <2>2. CASE taken' = cap - pos /\ taken + k > cap - pos
    <3>1. d < taken + k + 1 /\ d < taken' + 1 /\ taken + k + 1 \in Int /\ taken' + 1 \in Int /\ d \in Int
      BY <1>1, <1>3, <1>5, <2>2
    <3> QED BY <3>1, SubSeqEmpty, Zenon
  <2> QED BY <1>5, <2>1, <2>2, Zenon
<1> QED
  BY <1>5, <1>7, <1>8, <1>9, Zenon DEF cap

----------------------------------------------------------------------------
(* Every step keeps the invariant                                          *)

\* The invariant holds at the start.
LEMMA InitInv == Init => IInv
<1> SUFFICES ASSUME Init PROVE IInv
  OBVIOUS
<1>1. ZeroCell \in Cell
  BY DEF ZeroCell, Cell, Kinds
<1>2. pipe = Pipe!NewPipe /\ cur = NoMsg /\ pos = 0 /\ taken = 0
  BY DEF Init, Pipe!Init, Vec!Init
<1>3. pipe \in Pipes
  BY <1>2, EmptySeq DEF Pipe!NewPipe, Pipes
<1>4. header = [i \in 1 .. Hdr |-> ZeroCell] /\ vec = [i \in 1 .. Vec!Cap |-> ZeroCell]
  BY SameSplit DEF Init, Pipe!Init, Vec!Init
<1> QED
  BY <1>1, <1>2, <1>3, <1>4, CapType DEF IInv

\* The steps of a pipe buffer.
LEMMA PipeInv ==
    ASSUME IInv, kind = "Pipe", Pipe!Next, UNCHANGED <<kind, vec, pos, taken>>
    PROVE  IInv'
<1> DEFINE Kept == /\ pipe' \in Pipes /\ header' \in [1 .. Hdr -> Cell]
                   /\ cur' # NoMsg => cur' \in Msgs /\ WellFormed(cur')
<1>1. SUFFICES Kept
  BY DEF IInv, Vec!Cap
<1>2. ASSUME NEW m \in Msgs, Pipe!TryReceive(m)
      PROVE  Kept
  BY <1>2, PipeReceives
<1>3. ASSUME NEW m \in Msgs, Pipe!SpliceNoRoom(m)
      PROVE  Kept
  BY <1>3, ResetEmpties DEF Pipe!SpliceNoRoom, IInv
<1>4. CASE Pipe!SpliceError
  BY <1>4, ResetEmpties DEF Pipe!SpliceError, IInv
<1>5. CASE Pipe!ResetError
  BY <1>5 DEF Pipe!ResetError, IInv
<1>6. ASSUME NEW k \in 1 .. BufSize, Pipe!ReadRemaining(k)
      PROVE  Kept
  BY <1>6, TakeDrops, SizeAssumption DEF Pipe!ReadRemaining, IInv
<1> QED
  BY <1>2, <1>3, <1>4, <1>5, <1>6, Zenon DEF Pipe!Next

\* The steps of a vector buffer.
LEMMA VecInv ==
    ASSUME IInv, kind = "Vec", Vec!Next, UNCHANGED <<kind, arg, pipe, full>>
    PROVE  IInv'
<1>1. ASSUME NEW m \in Inputs, Vec!TryReceive(m)
      PROVE  IInv'
  <2>1. m \in Msgs
    BY InputAssumption DEF Readable
  <2>2. /\ vec' \in [1 .. Vec!Cap -> Cell] /\ header' \in [1 .. Hdr -> Cell]
        /\ taken' = 0 /\ pos' \in Nat /\ pos' <= Vec!Cap
        /\ \/ cur' = NoMsg
           \/ cur' = m /\ WellFormed(m) /\ pos' = ArgLen(m) /\ Holds(vec', m)
    BY <1>1, VecReceives
  <2>3. cur' # NoMsg => cur' = m /\ WellFormed(m) /\ pos' = ArgLen(m) /\ Holds(vec', m)
    BY <2>2
  <2> QED
    BY <2>1, <2>2, <2>3, CapType DEF IInv, Vec!Cap, Holds
<1>2. CASE Vec!ReadError
  BY <1>2, CapType DEF Vec!ReadError, IInv, Vec!Cap
<1>3. ASSUME NEW k \in 1 .. BufSize, Vec!ReadRemaining(k)
      PROVE  IInv'
  <2>1. taken' \in Nat /\ pos + taken' <= Vec!Cap
    BY <1>3, VecReads, SizeAssumption
  <2>2. cur' = cur /\ pos' = pos /\ vec' = vec /\ header' = header
    BY <1>3, Zenon DEF Vec!ReadRemaining
  <2> QED
    BY <2>1, <2>2 DEF IInv, Vec!Cap, Holds
<1> QED
  BY <1>1, <1>2, <1>3, Zenon DEF Vec!Next

\* Every step keeps it.
LEMMA NextInv == ASSUME IInv, [Next]_vars PROVE IInv'
<1>1. CASE UNCHANGED vars
  BY <1>1 DEF vars, IInv, Vec!Cap, Holds
<1>2. CASE Next
  BY <1>2, PipeInv, VecInv DEF Next
<1> QED BY <1>1, <1>2, Zenon

\* The invariant holds of every behaviour.
LEMMA InvHolds == Spec => []IInv
  BY InitInv, NextInv, PTL DEF Spec

\* Pipe::len stays the number of bytes in the pipe, and split_at stays inside the
\* vector, for every sequence of receives, reads and errors of either kind of buffer.
THEOREM LengthsAlwaysAgree == Spec => []LengthsAgree
<1>1. IInv => LengthsAgree
  BY CapType DEF IInv, Pipes, LengthsAgree
<1> QED BY <1>1, InvHolds, PTL

----------------------------------------------------------------------------
(* Both kinds of buffer implement the mailbox                              *)

\* The steps of a pipe buffer.
LEMMA PipeRefines ==
    ASSUME IInv, kind = "Pipe", Pipe!Next, UNCHANGED <<kind, vec, pos, taken>>
    PROVE  Mailbox!Next
<1>0. /\ cur' = NoMsg => ArgOf' = <<>> /\ RestOf' = <<>>
      /\ cur' # NoMsg => ArgOf' = arg' /\ RestOf' = pipe'.cells
      /\ cur # NoMsg => ArgOf = arg /\ RestOf = pipe.cells
  BY Zenon DEF ArgOf, RestOf
<1>1. cur' = NoMsg => Mailbox!Next
  BY <1>0 DEF Mailbox!Next, Mailbox!Fail
<1>2. ASSUME NEW m \in Msgs, Pipe!TryReceive(m), cur' # NoMsg
      PROVE  Mailbox!Next
  <2>1. cur' = m /\ WellFormed(m) /\ arg' = Arg(m) /\ pipe'.cells = Data(m)
    BY <1>2, PipeReceives
  <2>2. Begins(Data(m), Data(m))
    <3>1. pipe'.cells \in Seq(Cell)
      BY <1>2, PipeReceives DEF Pipes
    <3> QED BY <2>1, <3>1, WholeSeq, Zenon
  <2>3. Mailbox!Receive(m) /\ m \in Mailbox!Msgs
    BY <1>0, <1>2, <2>1, <2>2, SameSplit, Zenon DEF Mailbox!Receive
  <2> QED BY <2>3 DEF Mailbox!Next
<1>3. ASSUME NEW k \in 1 .. BufSize, Pipe!ReadRemaining(k)
      PROVE  Mailbox!Next
  <2>1. cur # NoMsg /\ cur' = cur /\ arg' = arg /\ pipe' = Pipe!Take(pipe, k)
    BY <1>3, Zenon DEF Pipe!ReadRemaining
  <2>2. pipe'.cells = SubSeq(pipe.cells, k + 1, Len(pipe.cells))
    <3>1. pipe \in Pipes /\ k \in Nat
      BY SizeAssumption DEF IInv
    <3> QED BY <2>1, <3>1, TakeDrops, Zenon
  <2>3. Mailbox!Read(k)
    BY <1>0, <2>1, <2>2, Zenon DEF Mailbox!Read
  <2> QED BY <2>3 DEF Mailbox!Next
<1>4. (\E m \in Msgs : Pipe!SpliceNoRoom(m)) \/ Pipe!SpliceError \/ Pipe!ResetError => cur' = NoMsg
  BY Zenon DEF Pipe!SpliceNoRoom, Pipe!SpliceError, Pipe!ResetError
<1> QED
  BY <1>1, <1>2, <1>3, <1>4, Zenon DEF Pipe!Next

\* The steps of a vector buffer.
LEMMA VecRefines ==
    ASSUME IInv, kind = "Vec", Vec!Next, UNCHANGED <<kind, arg, pipe, full>>
    PROVE  Mailbox!Next
<1>0. /\ cur' = NoMsg => ArgOf' = <<>> /\ RestOf' = <<>>
      /\ cur' # NoMsg =>
            /\ ArgOf' = SubSeq(vec', 1, pos')
            /\ \E r : /\ r = SubSeq(vec', pos' + 1, Vec!Cap)
                     /\ RestOf' = SubSeq(r, taken' + 1, Len(r))
      /\ cur # NoMsg => ArgOf = SubSeq(vec, 1, pos)
  BY Zenon DEF ArgOf, RestOf, Vec!ArgPart, Vec!Remains, Vec!Cap
<1>1. cur' = NoMsg => Mailbox!Next
  BY <1>0 DEF Mailbox!Next, Mailbox!Fail
<1>2. ASSUME NEW m \in Inputs, Vec!TryReceive(m), cur' # NoMsg
      PROVE  Mailbox!Next
  <2>1. m \in Msgs
    BY InputAssumption DEF Readable
  <2>2. /\ vec' \in [1 .. Vec!Cap -> Cell] /\ taken' = 0
        /\ cur' = m /\ WellFormed(m) /\ pos' = ArgLen(m) /\ Holds(vec', m)
    BY <1>2, VecReceives
  <2>3. ArgOf' = Arg(m)
    BY <1>0, <1>2, <2>1, <2>2, VecParts, Zenon
  <2>4. Begins(RestOf', Data(m))
    <3>1. taken' + 1 = 1
      BY <2>2
    <3>2. PICK r : r = SubSeq(vec', ArgLen(m) + 1, Vec!Cap) /\ RestOf' = SubSeq(r, 1, Len(r))
      BY <1>0, <1>2, <2>2, <3>1, Zenon
    <3>3. r \in Seq(Cell) /\ Begins(r, Data(m))
      BY <2>1, <2>2, <3>2, VecParts, Zenon
    <3> QED BY <3>2, <3>3, WholeSeq, Zenon
  <2>5. Mailbox!Receive(m) /\ m \in Mailbox!Msgs
    BY <2>1, <2>2, <2>3, <2>4, SameSplit, Zenon DEF Mailbox!Receive
  <2> QED BY <2>5 DEF Mailbox!Next
<1>3. ASSUME NEW k \in 1 .. BufSize, Vec!ReadRemaining(k)
      PROVE  Mailbox!Next
  <2>1. cur # NoMsg /\ cur' = cur /\ vec' = vec /\ pos' = pos
    BY <1>3, Zenon DEF Vec!ReadRemaining
  <2>2. RestOf' = SubSeq(RestOf, k + 1, Len(RestOf))
    BY <1>3, VecReads, SizeAssumption
  <2>3. ArgOf' = ArgOf
    BY <1>0, <2>1, Zenon
  <2>4. Mailbox!Read(k)
    BY <2>1, <2>2, <2>3, Zenon DEF Mailbox!Read
  <2> QED BY <2>4 DEF Mailbox!Next
<1>4. Vec!ReadError => cur' = NoMsg
  BY Zenon DEF Vec!ReadError
<1> QED
  BY <1>1, <1>2, <1>3, <1>4, Zenon DEF Vec!Next

\* A RequestBuf of either kind implements the mailbox: after a receive the argument is
\* that of the one request that was received and what can be read begins with its data
\* (with a pipe, is exactly its data), for every size of header, buffer and pipe and
\* whatever was left unread.
THEOREM RequestBufIsMailbox == Spec => ImplementsMailbox
<1>1. Init => Mailbox!Init
  BY DEF Init, Pipe!Init, Mailbox!Init, ArgOf, RestOf
<1>2. ASSUME IInv, [Next]_vars
      PROVE  [Mailbox!Next]_<<cur, ArgOf, RestOf, kind = "Pipe">>
  <2>1. CASE UNCHANGED vars
    BY <2>1 DEF vars, ArgOf, RestOf, Vec!ArgPart, Vec!Remains, Vec!Cap
  <2>2. CASE Next
    BY <1>2, <2>2, PipeRefines, VecRefines DEF Next
  <2> QED BY <1>2, <2>1, <2>2, Zenon
<1> QED
  BY <1>1, <1>2, InvHolds, PTL DEF Spec, ImplementsMailbox, Mailbox!Spec

=============================================================================
