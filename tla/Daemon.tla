------------------------------- MODULE Daemon -------------------------------
(***************************************************************************)
(* The main function that the examples poll.rs, heartbeat.rs and           *)
(* heartbeat_entry.rs share: in a thread::scope, a thread that waits for a *)
(* signal and unmounts, the receive loop in the scope's closure, and other *)
(* threads of the example.  The scope returns when the closure has and     *)
(* every thread has been joined.  The loop is one thread: it works on at   *)
(* most one request.                                                       *)
(***************************************************************************)
EXTENDS Naturals

CONSTANT None

ASSUME DaemonAssumption == None \notin Nat

VARIABLES
    up,    \* the connection exists
    sig,   \* the signal thread waits, or has ended
    main,  \* the closure: in its loop, or how it left it
    wpc,   \* where the loop is
    cur    \* the request it works on

dvars == <<up, sig, main, wpc, cur>>

DTypeOK ==
    /\ up \in BOOLEAN
    /\ sig \in {"waiting", "ended"}
    /\ main \in {"loop", "closed", "error", "panic", "returned"}

DInit ==
    /\ up = TRUE /\ sig = "waiting"
    /\ main = "loop" /\ wpc = "recv" /\ cur = None

\* The loop has received r and goes to its handler.
Receives(r, handler) ==
    /\ main = "loop" /\ wpc = "recv" /\ up
    /\ cur' = r /\ wpc' = handler
    /\ UNCHANGED <<up, sig, main>>

\* A handler goes on within the match.
Goto(l) == wpc' = l /\ UNCHANGED <<up, sig, main, cur>>

\* A handler is done.
HandlerDone == wpc' = "recv" /\ cur' = None /\ UNCHANGED <<up, sig, main>>

\* A handler leaves the closure with an error or a panic: nothing closes the signals.
Fails(how) == main' = how /\ wpc' = "left" /\ UNCHANGED <<up, sig, cur>>

\* The kernel has ended the connection: recv_request returns false, and the signals
\* are closed.
LeaveLoop ==
    /\ main = "loop" /\ wpc = "recv" /\ ~up
    /\ main' = "closed" /\ wpc' = "left"
    /\ UNCHANGED <<up, sig, cur>>

\* The first signal: unmount, whose failure (the file system is busy) is ignored.
\* The thread ends either way.
Signal ==
    /\ sig = "waiting" /\ main # "returned"
    /\ sig' = "ended"
    /\ up' \in {up, FALSE}
    /\ UNCHANGED <<main, wpc, cur>>

\* Someone else unmounts or aborts the connection.
Disconnect ==
    /\ up /\ up' = FALSE
    /\ UNCHANGED <<sig, main, wpc, cur>>

\* Mutant: the thread waits for the first signal only.
SignalsClosed_Waits == FALSE /\ UNCHANGED dvars

\* The closed signals end the thread that waits for them.
SignalsClosed ==
    /\ sig = "waiting" /\ main = "closed"
    /\ sig' = "ended"
    /\ UNCHANGED <<up, main, wpc, cur>>

\* The scope has joined the signal thread and the example's own ones; with the end
\* of the program the device is closed.
Joined(others) ==
    /\ main \in {"closed", "error", "panic"} /\ sig = "ended" /\ others
    /\ main' = "returned" /\ up' = FALSE
    /\ UNCHANGED <<sig, wpc, cur>>

============================================================================
