--------------------------- MODULE MCUmodeWindow ---------------------------
(* Model values and symmetry for checking UmodeWindow with TLC. *)
EXTENDS UmodeWindow, TLC

\* Harts, and tasks, are interchangeable; used in safety runs only.
Symmetry == Permutations(Harts) \cup Permutations(Tasks)

\* The coprocessor state does not matter to the properties of a run.
OneFS == {Clean}
TwoFS == {Clean, Dirty}
=============================================================================
