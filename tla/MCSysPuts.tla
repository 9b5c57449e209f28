----------------------------- MODULE MCSysPuts -----------------------------
(* SysPuts in an arena longer than its longest message. *)
EXTENDS SysPuts, TLC

\* The characters are interchangeable.
Symmetry == Permutations(Chars)
=============================================================================
