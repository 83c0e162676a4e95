------------------------------ MODULE Examples ------------------------------
(***************************************************************************)
(* The three examples with threads of their own: example says which of     *)
(* them runs, and the variables of the others keep their values.           *)
(***************************************************************************)
EXTENDS Poll, Heartbeat, HeartbeatEntry

VARIABLE example

exampleVars == <<example, dvars, pvars, bvars, hvars, evars>>

ExamplesInit ==
    /\ example \in {"poll", "heartbeat", "heartbeat_entry"}
    /\ PollInit /\ Init /\ EntryInit
    /\ example # "heartbeat" => kind = "none"
    /\ example # "heartbeat_entry" => ~no_notify

PollRuns == example = "poll" /\ UNCHANGED <<example, bvars, hvars, evars>>
HeartbeatRuns == example = "heartbeat" /\ UNCHANGED <<example, pvars, evars>>
EntryRuns == example = "heartbeat_entry" /\ UNCHANGED <<example, pvars, hvars>>

ExamplesNext ==
    \/ PollNext /\ PollRuns
    \/ Next /\ HeartbeatRuns
    \/ EntryNext /\ EntryRuns

\* Every thread of the program takes its steps, and so does a process in the kernel
\* that has its answer.  The queue is first in first out, so no file's request is
\* passed over for ever, and neither the mutex nor the kernel's lock is given to the
\* loop for ever while the beating thread waits for it.
LoopRuns == (PollLoop /\ PollRuns) \/ (Loop /\ HeartbeatRuns) \/ (EntryLoop /\ EntryRuns)
HeartBeats == (Beats /\ HeartbeatRuns) \/ (EntryBeats /\ EntryRuns)
LockIsFreed == (Unlocks /\ HeartbeatRuns) \/ (EntryUnlocks /\ EntryRuns)

Fairness ==
    /\ WF_exampleVars(LoopRuns) /\ SF_exampleVars(HeartBeats) /\ WF_exampleVars(LockIsFreed)
    /\ WF_exampleVars(PollScope /\ PollRuns)
    /\ \A f \in Files : SF_exampleVars(PollRecv(f) /\ PollRuns)
    /\ \A h \in 0 .. Cardinality(Files) - 1 : WF_exampleVars(Task(h) /\ PollRuns)

ExamplesSpec == ExamplesInit /\ [][ExamplesNext]_exampleVars /\ Fairness

\* Once the file system of poll is unmounted the program ends: the closed signals and
\* the tasks, which sleep for one interval at most, let the scope return.
ScopeReturns == (example = "poll" /\ main = "closed") ~> main = "returned"

============================================================================
