----------------------------- MODULE MCExamples -----------------------------
(* Examples for TLC: any file and a blocking one, for whose deadline the loop *)
(* of poll sleeps.                                                            *)
EXTENDS Examples

CONSTANTS f1, f2

MCFiles == {f1, f2}
MCModes(f) == IF f = f1 THEN {"block", "nonblock", "write"} ELSE {"block"}

=============================================================================
