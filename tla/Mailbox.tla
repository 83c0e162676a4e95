------------------------------ MODULE Mailbox ------------------------------
(***************************************************************************)
(* What a RequestBuf promises: after a receive that succeeds, the argument *)
(* is that of one well-formed message, and what can be read begins with    *)
(* the data of that message; after one that fails there is nothing to look *)
(* at.  An exact mailbox holds nothing but the data.  The other kind may   *)
(* go on with cells of any origin, and its user has to stop at the size    *)
(* that the message tells.                                                 *)
(***************************************************************************)
EXTENDS Message

CONSTANT NoMsg

VARIABLES cur, arg, rest, exact

Init == cur = NoMsg /\ arg = <<>> /\ rest = <<>> /\ exact \in BOOLEAN

Receive(m) ==
    /\ WellFormed(m)
    /\ cur' = m
    /\ arg' = Arg(m)
    /\ Begins(rest', Data(m))
    /\ exact => rest' = Data(m)
    /\ UNCHANGED exact

Fail == cur' = NoMsg /\ arg' = <<>> /\ rest' = <<>> /\ UNCHANGED exact

\* The handler reads or splices away the first k units of what is left.
Read(k) ==
    /\ cur # NoMsg
    /\ rest' = SubSeq(rest, k + 1, Len(rest))
    /\ UNCHANGED <<cur, arg, exact>>

Next == \/ \E m \in Msgs : Receive(m)
        \/ Fail
        \/ \E k \in 1 .. BufSize : Read(k)

Spec == Init /\ [][Next]_<<cur, arg, rest, exact>>

============================================================================
