----------------------------- MODULE MCExchange -----------------------------
(* Leaves of every kind, empty and not; pairs of them, and a group of five *)
(* parts with a group in it, which takes the path without a stack array.   *)
EXTENDS Exchange

Leaves == {Chunk(0), Chunk(3), CStr(0), Pod(8)}
MCBodies == Leaves \cup {Group(<<>>)} \cup {Group(<<a, b>>) : a, b \in Leaves}
              \cup {Group(<<a, Group(<<b, Chunk(0), a>>), Chunk(1), b, a>>) : a, b \in Leaves}
MCNames == {0, 1, 5}
============================================================================
