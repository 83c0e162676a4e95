---------------------------- MODULE MCRequestBuf ----------------------------
(* RequestBuf for TLC: messages as the kernel sends them, shorter than a     *)
(* header, or with a length that does not agree with what was read.          *)
EXTENDS RequestBuf

MCInputs == Readable

=============================================================================
