------------------------------- MODULE MCBoot -------------------------------
(* Small memory maps and reset states for checking Boot with TLC. *)
EXTENDS Boot

Span(a, b) == [lo |-> a, hi |-> b]

SmallRegions ==
    [tcm    |-> Span(1, 3), flash  |-> Span(3, 5),   psram      |-> Span(6, 8),
     sram   |-> Span(8, 13), rtc   |-> Span(15, 16), peripheral |-> Span(13, 16)]

\* IRAM text ends where the pool begins, or before it; the pool lies within
\* internal SRAM or ends with it; user_main is in IRAM text, or in flash.
SmallLayouts ==
    {[iram |-> Span(8, 10), pool |-> Span(a, b), extram |-> Span(6, 8),
      table |-> 2, user |-> u] :
        a \in 10 .. 11, b \in 12 .. 13, u \in {9, 4}}

\* Nothing but addresses left over, or one entry somebody has locked.  The
\* report shifts a pmpaddr back into 32 bits, so no block ends at the top.
SmallResets ==
    {[i \in Entries |-> Off(a)] : a \in {0, 7, 20}} \cup
    {[[i \in Entries |-> Off(7)] EXCEPT
        ![k] = [addr |-> a, mode |-> m, perm |-> {"R", "X"}, lock |-> TRUE]] :
        k \in {0, 1, 3, 4, 9}, a \in {2, 9, 11, 12}, m \in {"OFF", "TOR", "NA4", "NAPOT"}}
=============================================================================
