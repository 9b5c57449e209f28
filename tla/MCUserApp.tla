----------------------------- MODULE MCUserApp -----------------------------
(* Small words and strings for checking UserApp with TLC. *)
EXTENDS UserApp

PowersOfTen == [k \in 0 .. TmpSize |-> 10 ^ k]
ShortTexts  == [user_prefix |-> 2, core_infix |-> 1, syscall_prefix |-> 3]
=============================================================================
