---------------------------- MODULE UserPointer ----------------------------
(***************************************************************************)
(* user_range_ok() of kernel_main.c: every pointer a user hands the kernel *)
(* goes through it.  Addresses are machine words, so sums wrap.            *)
(***************************************************************************)
EXTENDS Integers

CONSTANT Word   \* number of values of a machine word: 2^32 on this core

ASSUME WordAssumption == Word \in Nat \ {0}

Address == 0..(Word - 1)

\* The sum of two words: (a + b) % Word.
Plus(a, b) == IF a + b < Word THEN a + b ELSE a + b - Word

\* Mutant: the lower bound is not looked at.
RangeOk_NoLower(lo, size, addr, len) ==
    LET hi == Plus(lo, size)
    IN  /\ ~(len > size)
        /\ ~(addr > hi \/ Plus(addr, len) < addr)
        /\ Plus(addr, len) <= hi

\* Is [addr, addr + len) inside the arena of size bytes at lo?
RangeOk(lo, size, addr, len) ==
    LET hi == Plus(lo, size)
    IN  /\ ~(len > size)
        /\ ~(addr < lo \/ addr > hi \/ Plus(addr, len) < addr)
        /\ Plus(addr, len) <= hi
=============================================================================
