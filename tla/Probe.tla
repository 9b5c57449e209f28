------------------------------- MODULE Probe -------------------------------
(***************************************************************************)
(* probe/p4_umode_mret.c: eight tests, each a run of mrets to a stub of    *)
(* ecalls through a private trap vector, with the interrupt threshold      *)
(* raised for the masked tests and lowered around every line that is       *)
(* printed.  The core is modelled as far as the program relies on it: its  *)
(* privilege, mstatus.MIE, interrupt level and vectors.                    *)
(***************************************************************************)
EXTENDS Naturals, Sequences

CONSTANTS
    FewIters, ManyIters,    \* 1000 and 200000
    Every                   \* 10000: iterations between two progress lines

ASSUME ItersAssumption ==
    {FewIters, ManyIters, Every} \subseteq Nat \ {0}

\* The calls of run() in app_main(), with the level g_ret_mpil holds by then.
\* All of them pass an mcause whose mpil is 1.
Tests == <<
    [mpp |-> "M", mask |-> TRUE,  level |-> 0, iters |-> FewIters],
    [mpp |-> "U", mask |-> TRUE,  level |-> 0, iters |-> FewIters],
    [mpp |-> "U", mask |-> TRUE,  level |-> 0, iters |-> ManyIters],
    [mpp |-> "U", mask |-> FALSE, level |-> 0, iters |-> ManyIters],
    [mpp |-> "U", mask |-> FALSE, level |-> 0, iters |-> ManyIters],
    [mpp |-> "U", mask |-> TRUE,  level |-> 1, iters |-> ManyIters],
    [mpp |-> "U", mask |-> TRUE,  level |-> 1, iters |-> ManyIters],
    [mpp |-> "U", mask |-> FALSE, level |-> 1, iters |-> ManyIters] >>

VARIABLES
    granted,    \* the PMP lets U-mode execute the stub
    test, i, bad, cause,    \* app_main() and run()
    pc, line,   \* where the core is, and the line it is about to print
    threshold, kept,        \* the CLIC threshold, and the thresh of run()
    priv, mie, mpp, mil,    \* the core
    mtvec, mtvt,            \* whose vectors are in
    g_save, g_out,
    reached,    \* mrets of this test that came to the stub
    told        \* what the "returned" line of each test said

coreVars == <<priv, mie, mpp, mil>>
runVars  == <<granted, test, i, bad, cause, line, kept, told>>
vars == <<runVars, pc, threshold, coreVars, mtvec, mtvt, g_save, g_out, reached>>

T == Tests[test]

Init ==
    /\ granted \in BOOLEAN
    /\ test = 1 /\ i = 0 /\ bad = 0 /\ cause = "none"
    /\ pc = "print" /\ line = "armed"
    /\ threshold = "live" /\ kept = "live"
    /\ priv = "M" /\ mie = TRUE /\ mpp = "M" /\ mil = 0
    /\ mtvec = "idf" /\ mtvt = "idf"
    /\ g_save = [mtvec |-> "none", mtvt |-> "none", mie |-> FALSE]
    /\ g_out = "none"
    /\ reached = 0 /\ told = <<>>

-----------------------------------------------------------------------------
(* p4_mret_probe, the stub and p4_handler *)

Asm(from, to) ==
    /\ pc = from /\ pc' = to
    /\ UNCHANGED <<runVars, threshold>>

Save ==
    /\ Asm("save", "mtvt")
    /\ g_save' = [mtvec |-> mtvec, mtvt |-> mtvt, mie |-> mie]
    /\ g_out' = "none"
    /\ UNCHANGED <<coreVars, mtvec, mtvt, reached>>

WriteMtvt ==
    /\ Asm("mtvt", "mtvec")
    /\ mtvt' = "probe"
    /\ UNCHANGED <<coreVars, mtvec, g_save, g_out, reached>>

WriteMtvec ==
    /\ Asm("mtvec", "mcause")
    /\ mtvec' = "probe"
    /\ UNCHANGED <<coreVars, mtvt, g_save, g_out, reached>>

\* mepc, and mcause, whose mpp is mstatus.MPP under another name: both values
\* under test say U.
WriteMcause ==
    /\ Asm("mcause", "mstatus")
    /\ mpp' = "U"
    /\ UNCHANGED <<priv, mie, mil, mtvec, mtvt, g_save, g_out, reached>>

\* Mutant: mstatus is not written after mcause, which decides the privilege.
WriteMstatus_McauseWins ==
    /\ Asm("mstatus", "mret")
    /\ mie' = FALSE
    /\ UNCHANGED <<priv, mpp, mil, mtvec, mtvt, g_save, g_out, reached>>

\* MPP as the test names it, MPIE = 1, MIE = 0.
WriteMstatus ==
    /\ Asm("mstatus", "mret")
    /\ mpp' = T.mpp /\ mie' = FALSE
    /\ UNCHANGED <<priv, mil, mtvec, mtvt, g_save, g_out, reached>>

Mret ==
    /\ Asm("mret", "stub")
    /\ priv' = mpp /\ mie' = TRUE /\ mil' = 1
    /\ UNCHANGED <<mpp, mtvec, mtvt, g_save, g_out, reached>>

\* The trap entry: machine mode, interrupts off.
Trap(why, level) ==
    /\ priv' = "M" /\ mpp' = priv /\ mie' = FALSE /\ mil' = level
    /\ g_out' = why
    /\ pc' = "handler"
    /\ UNCHANGED <<runVars, threshold, mtvec, mtvt, g_save>>

Ecall ==
    /\ pc = "stub" /\ (priv = "U" => granted)
    /\ Trap(IF priv = "U" THEN "ecall_U" ELSE "ecall_M", mil)
    /\ reached' = reached + 1

FetchFault ==
    /\ pc = "stub" /\ priv = "U" /\ ~granted
    /\ Trap("fetch_fault", mil)
    /\ UNCHANGED reached

\* An interrupt of level 1 that reaches p4_handler through mtvt: in U-mode MIE
\* and the level do not hold it off.
Interrupt ==
    /\ pc \in {"mtvec", "mcause", "mstatus", "mret", "stub"}
    /\ mtvt = "probe" /\ threshold = "live"
    /\ priv = "U" \/ (mie /\ mil < 1)
    /\ Trap("interrupt", 1)
    /\ UNCHANGED reached

\* Mutant: mtvt stays.
Restore_MtvecOnly ==
    /\ Asm("handler", "leave")
    /\ mtvec' = g_save.mtvec
    /\ UNCHANGED <<coreVars, mtvt, g_save, g_out, reached>>

\* p4_handler after it has recorded the trap.
Restore ==
    /\ Asm("handler", "leave")
    /\ mtvec' = g_save.mtvec /\ mtvt' = g_save.mtvt
    /\ UNCHANGED <<coreVars, g_save, g_out, reached>>

\* Its mret to .Lresume, at g_ret_mpil and with the caller's MIE.
Leave ==
    /\ Asm("leave", "judge")
    /\ priv' = "M" /\ mpp' = "M" /\ mie' = g_save.mie /\ mil' = T.level
    /\ UNCHANGED <<mtvec, mtvt, g_save, g_out, reached>>

-----------------------------------------------------------------------------
(* run() and app_main() *)

asmVars == <<granted, coreVars, mtvec, mtvt, g_save, g_out>>

\* The value a test finds in the threshold register is put back for a line.
Unmask ==
    /\ pc = "unmask"
    /\ threshold' = kept
    /\ pc' = "print"
    /\ UNCHANGED <<runVars, coreVars, mtvec, mtvt, g_save, g_out, reached>>

Masked == IF T.mask THEN "masked" ELSE threshold

\* The ARMED line, and the threshold for the test.
Armed ==
    /\ pc = "print" /\ line = "armed"
    /\ kept' = threshold /\ threshold' = Masked
    /\ pc' = "loop"
    /\ UNCHANGED <<asmVars, test, i, bad, cause, line, told, reached>>

Loop ==
    /\ pc = "loop"
    /\ \/ i < T.iters /\ pc' = "save" /\ UNCHANGED line
       \/ i = T.iters /\ pc' = "unmask" /\ line' = "returned"
    /\ UNCHANGED <<asmVars, test, i, bad, cause, kept, told, threshold, reached>>

\* Neither an interrupt nor an ecall from U- or M-mode.
IsBad == g_out \notin {"interrupt", "ecall_U", "ecall_M"}

\* Mutant: a fetch that faulted is taken for a trap of the stub.
Judge_FaultIsFine ==
    /\ pc = "judge"
    /\ cause' = g_out
    /\ pc' = "progress?"
    /\ UNCHANGED <<asmVars, test, i, bad, line, kept, told, threshold, reached>>

Judge ==
    /\ pc = "judge"
    /\ cause' = g_out
    /\ bad' = IF IsBad THEN bad + 1 ELSE bad
    /\ \/ bad' = 1 /\ IsBad /\ pc' = "unmask" /\ line' = "first_bad"
       \/ ~(bad' = 1 /\ IsBad) /\ pc' = "progress?" /\ UNCHANGED line
    /\ UNCHANGED <<asmVars, test, i, kept, told, threshold, reached>>

Progress ==
    /\ pc = "progress?"
    /\ \/ /\ T.iters > Every /\ i % Every = Every - 1
          /\ pc' = "unmask" /\ line' = "progress" /\ i' = i
       \/ /\ ~(T.iters > Every /\ i % Every = Every - 1)
          /\ pc' = "loop" /\ i' = i + 1 /\ UNCHANGED line
    /\ UNCHANGED <<asmVars, test, bad, cause, kept, told, threshold, reached>>

\* Mutant: the threshold stays down after the line of the first bad trap.
FirstBad_NoRemask ==
    /\ pc = "print" /\ line = "first_bad"
    /\ pc' = "progress?"
    /\ UNCHANGED <<runVars, threshold, coreVars, mtvec, mtvt, g_save, g_out, reached>>

FirstBad ==
    /\ pc = "print" /\ line = "first_bad"
    /\ threshold' = Masked
    /\ pc' = "progress?"
    /\ UNCHANGED <<runVars, coreVars, mtvec, mtvt, g_save, g_out, reached>>

ProgressLine ==
    /\ pc = "print" /\ line = "progress"
    /\ threshold' = Masked
    /\ i' = i + 1 /\ pc' = "loop"
    /\ UNCHANGED <<asmVars, test, bad, cause, line, kept, told, reached>>

\* The last line of a test, and the next run(); app_main() sets g_ret_mpil
\* between two of them.
Returned ==
    /\ pc = "print" /\ line = "returned"
    /\ told' = Append(told, [ok |-> bad = 0, last |-> cause, reached |-> reached])
    /\ i' = 0 /\ bad' = 0 /\ reached' = 0
    /\ \/ test < Len(Tests) /\ test' = test + 1 /\ line' = "armed" /\ pc' = pc
       \/ test = Len(Tests) /\ test' = test /\ line' = "all_returned" /\ pc' = "idle"
    /\ UNCHANGED <<asmVars, cause, kept, threshold>>

\* for (;;)
Idle == pc = "idle" /\ UNCHANGED vars

Next ==
    \/ Save \/ WriteMtvt \/ WriteMtvec \/ WriteMcause \/ WriteMstatus \/ Mret
    \/ Ecall \/ FetchFault \/ Interrupt \/ Restore \/ Leave
    \/ Unmask \/ Armed \/ Loop \/ Judge \/ Progress \/ FirstBad \/ ProgressLine
    \/ Returned \/ Idle

Spec == Init /\ [][Next]_vars

-----------------------------------------------------------------------------
InProbe == pc \in {"save", "mtvt", "mtvec", "mcause", "mstatus", "mret", "stub",
                   "handler", "leave"}

\* The threshold is up for every instruction of a masked test's probes, and
\* down for those of the others and for every line that is printed, which
\* needs the console's interrupts: run() raises and lowers it on three paths.
ThresholdFollowsTest ==
    /\ InProbe => (threshold = "masked" <=> T.mask)
    /\ pc \in {"print", "idle"} => threshold = "live"

\* Wherever a probe was interrupted, run() goes on as if it had been an
\* ordinary call: in machine mode, with ESP-IDF's two vectors and MIE as they
\* were, and at the resting level the test is about.
CallerUndisturbed ==
    ~InProbe =>
        /\ mtvec = "idf" /\ mtvt = "idf" /\ priv = "M" /\ mie
        /\ (i > 0 \/ pc = "judge") => mil = T.level

\* "OK" is a measurement: in a masked test with no bad trap, every mret it
\* counts came to the stub, with the privilege the table at the top of the
\* file names, and the PMP let it in.
OkMeansMeasured ==
    \A t \in DOMAIN told :
        Tests[t].mask /\ told[t].ok =>
            /\ told[t].reached = Tests[t].iters
            /\ told[t].last = IF Tests[t].mpp = "U" THEN "ecall_U" ELSE "ecall_M"
            /\ Tests[t].mpp = "U" => granted
=============================================================================
