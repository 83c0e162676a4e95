----------------------------- MODULE MCStartup -----------------------------
(* Connect and Mount for TLC: part says which of the two runs, and the        *)
(* variables of the other keep their values.                                  *)
EXTENDS MCConnect, Mount

VARIABLE part

allVars == <<part, vars, mountVars>>

MCInit ==
    /\ part \in {"connect", "mount"}
    /\ Init /\ MountInit
    /\ part = "connect" => ~auto
    /\ part = "mount" => wish = Default /\ kin.major = 6 /\ kin.minor = 1

ConnectRuns == part = "connect" /\ UNCHANGED <<part, mountVars>>
MountRuns == part = "mount" /\ UNCHANGED <<part, vars>>

MCNext == (Next /\ ConnectRuns) \/ (MountNext /\ MountRuns)

\* connect runs on one thread and is blocked only in try_receive; the thread that mounts
\* and fusermount are scheduled.  That the daemon holds on to its Mount for ever is not
\* excluded.
MCSpec ==
    /\ MCInit /\ [][MCNext]_allVars
    /\ WF_allVars(Step /\ ConnectRuns)
    /\ WF_allVars((PrivMount \/ Spawn \/ ReceiveFd \/ WaitOutput \/ Reap) /\ MountRuns)
    /\ WF_allVars(at = "drop" /\ Drop /\ MountRuns)
    /\ WF_allVars(Child /\ MountRuns)

\* connect returns when the kernel speaks version 7 or can be downgraded to it.
ConnectReturns == part = "connect" => ReturnsIfModern

============================================================================
