----------------------------- MODULE MCSession -----------------------------
(* Session for TLC: worker w2 runs on a clone of the device of the others. *)
EXTENDS Session, FiniteSets, TLC

CONSTANTS w2, d1, d2

MCConn == [w \in Workers |-> IF w = w2 THEN d2 ELSE d1]
Perms == Permutations(Requests) \cup Permutations(Notifiers) \cup Permutations(Workers \ {w2})

\* Two kinds of behaviours: the workers alone, and the notifiers with one worker that
\* serves one request at most.
Silent == notify_unique = 0 /\ \A n \in Notifiers : npc[n] = "idle"
OneWorker ==
    /\ Cardinality({w \in Workers : pc[w] # "loop" \/ buf[w] # NoMessage \/ ret[w] # "ok"}) <= 1
    /\ Cardinality({r \in Requests : kstat[r] # "idle"}) <= 1
Scenarios == Silent \/ OneWorker

============================================================================
