----------------------------- MODULE MCHostLoop -----------------------------
(* Model values for checking HostLoop with TLC. *)
EXTENDS HostLoop

\* The calls that differ in what they do to the task: one that prints, one
\* whose answer depends on the core, one that does not return.
FewCalls == {"write", "getcore", "exit"}
AllCalls == Calls
=============================================================================
