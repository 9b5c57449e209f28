---------------------------- MODULE Probe_proof ----------------------------
(***************************************************************************)
(* The probe for any number of iterations and any spacing of its progress  *)
(* lines: the threshold follows the test, run() finds the core as it left  *)
(* it, and an OK of a masked test counts probes that came to the stub.     *)
(***************************************************************************)
EXTENDS Probe, SequenceTheorems, TLAPS

Causes == {"none", "ecall_U", "ecall_M", "fetch_fault", "interrupt"}
Lines  == {"armed", "first_bad", "progress", "returned", "all_returned"}
Verdict == [ok : BOOLEAN, last : Causes, reached : Nat]

-----------------------------------------------------------------------------
(* The inductive invariant *)

TypeInv ==
    /\ granted \in BOOLEAN
    /\ test \in 1..8 /\ i \in Nat /\ bad \in Nat /\ reached \in Nat
    /\ cause \in Causes /\ g_out \in Causes
    /\ pc \in {"save", "mtvt", "mtvec", "mcause", "mstatus", "mret", "stub", "handler",
               "leave", "judge", "progress?", "loop", "unmask", "print", "idle"}
    /\ line \in Lines
    /\ told \in Seq(Verdict)

\* A line that is printed belongs to the place in run() that prints it.
LineInv ==
    /\ pc = "unmask" => line \in {"first_bad", "progress", "returned"}
    /\ pc = "print" => line \in {"armed", "first_bad", "progress", "returned"}
    /\ pc \in {"unmask", "print"} /\ line = "returned" => i = T.iters
    /\ pc = "print" /\ line = "armed" => i = 0

\* The threshold of a test stands from its first probe to the line that takes
\* it down, and what run() has kept of the caller's is always the live one.
ThresholdInv ==
    /\ kept = "live"
    /\ threshold = IF pc \notin {"print", "idle"} /\ T.mask THEN "masked" ELSE "live"

\* Whoever's vectors are in, g_save holds the caller's from the first
\* instruction on, and p4_handler's mret finds them back.
VectorInv ==
    /\ pc \notin {"mtvec", "mcause", "mstatus", "mret", "stub", "handler"} =>
         mtvec = "idf" /\ mtvt = "idf"
    /\ InProbe /\ pc # "save" => g_save = [mtvec |-> "idf", mtvt |-> "idf", mie |-> TRUE]
    /\ ~InProbe \/ pc \in {"save", "mtvt"} => priv = "M" /\ mie = TRUE

\* A probe of this test has been judged and not yet counted.
Judged ==
    \/ pc = "progress?"
    \/ pc \in {"unmask", "print"} /\ line \in {"first_bad", "progress"}

LevelInv == ~InProbe /\ (i > 0 \/ pc = "judge" \/ Judged) => mil = T.level

Expected == IF T.mpp = "U" THEN "ecall_U" ELSE "ecall_M"
Trapped  == pc \in {"handler", "leave", "judge"}

\* In a masked test nothing but the stub's ecall or its fetch traps, and while
\* no trap was bad, as many probes came to the stub as were counted or are
\* about to be.
MeasureInv ==
    /\ pc = "mret" => mpp = T.mpp
    /\ pc = "stub" => priv = T.mpp
    /\ T.mask =>
         /\ Trapped => g_out \in {Expected, "fetch_fault"}
         /\ Trapped /\ g_out = Expected /\ T.mpp = "U" => granted
         /\ bad = 0 =>
              /\ reached = IF Judged \/ (Trapped /\ g_out = Expected) THEN i + 1 ELSE i
              /\ i > 0 \/ Judged =>
                   cause = Expected /\ (T.mpp = "U" => granted)

\* One verdict for each test that is over.
ToldInv ==
    /\ Len(told) = IF pc = "idle" THEN test ELSE test - 1
    /\ OkMeansMeasured

IInv ==
    /\ TypeInv /\ LineInv /\ ThresholdInv /\ VectorInv /\ LevelInv /\ MeasureInv
    /\ ToldInv

-----------------------------------------------------------------------------
\* The eight rows of the table at the top of the file.
Row == [mpp : {"M", "U"}, mask : BOOLEAN, level : {0, 1}, iters : Nat \ {0}]

LEMMA EightTests == Len(Tests) = 8 /\ \A t \in 1..8 : Tests[t] \in Row
  <1>1. FewIters \in Nat \ {0} /\ ManyIters \in Nat \ {0}
    BY ItersAssumption
  <1>2. Tests \in Seq(Row) /\ Len(Tests) = 8
    BY <1>1 DEF Tests, Row
  <1>3. QED BY <1>2, ElementOfSeq

LEMMA ThisTest ==
    ASSUME TypeInv
    PROVE  T.mpp \in {"M", "U"} /\ T.mask \in BOOLEAN /\ T.iters \in Nat \ {0}
  BY EightTests DEF TypeInv, T, Row

\* A step that goes on within a test and says no verdict.
LEMMA SameTold ==
    ASSUME IInv, UNCHANGED <<granted, test, told>>, pc # "idle", pc' # "idle"
    PROVE  ToldInv'
  BY DEF IInv, ToldInv, OkMeansMeasured

-----------------------------------------------------------------------------
(* p4_mret_probe, the stub and p4_handler *)

LEMMA InitIInv == Init => IInv
  <1> SUFFICES ASSUME Init
               PROVE  IInv
    OBVIOUS
  <1>1. TypeInv
    BY DEF Init, TypeInv, Causes, Lines
  <1>2. T.mask = TRUE
    BY DEF Init, T, Tests
  <1>3. LineInv /\ ThresholdInv /\ VectorInv /\ LevelInv
    BY <1>2 DEF Init, LineInv, ThresholdInv, VectorInv, LevelInv, InProbe, Judged
  <1>4. MeasureInv
    BY DEF Init, MeasureInv, Judged, Trapped
  <1>5. ToldInv
    BY DEF Init, ToldInv, OkMeansMeasured
  <1>6. QED BY <1>1, <1>3, <1>4, <1>5 DEF IInv

\* The instructions before the mret change the vectors and the mret state, one
\* after the other, and nothing that run() looks at.
LEMMA SetUpIInv ==
    ASSUME IInv, Save \/ WriteMtvt \/ WriteMtvec \/ WriteMcause \/ WriteMstatus \/ Mret
    PROVE  IInv'
  <1>1. /\ <<pc, pc'>> \in {<<"save", "mtvt">>, <<"mtvt", "mtvec">>, <<"mtvec", "mcause">>,
                           <<"mcause", "mstatus">>, <<"mstatus", "mret">>, <<"mret", "stub">>}
        /\ UNCHANGED <<granted, test, i, bad, cause, line, kept, told, threshold, reached>>
        /\ g_out' \in {g_out, "none"}
    BY DEF Save, WriteMtvt, WriteMtvec, WriteMcause, WriteMstatus, Mret, Asm, runVars
  <1>2. T' = T
    BY <1>1 DEF T
  <1>3. TypeInv'
    BY <1>1 DEF IInv, TypeInv, Causes
  <1>4. LineInv'
    BY <1>1 DEF LineInv
  <1>5. ThresholdInv'
    BY <1>1, <1>2 DEF IInv, ThresholdInv
  <1>6. VectorInv'
    BY <1>1 DEF IInv, VectorInv, InProbe, Save, WriteMtvt, WriteMtvec, WriteMcause,
                WriteMstatus, Mret, Asm, coreVars
  <1>7. LevelInv'
    BY <1>1 DEF LevelInv, InProbe
  <1>8. MeasureInv'
    <2>1. (pc = "mret" => mpp = T.mpp)' /\ (pc = "stub" => priv = T.mpp)'
      BY <1>1, <1>2 DEF IInv, MeasureInv, Save, WriteMtvt, WriteMtvec, WriteMcause,
                        WriteMstatus, Mret, Asm
    <2>2. ~Trapped /\ ~Trapped' /\ ~Judged /\ ~Judged'
      BY <1>1 DEF Trapped, Judged
    <2>3. Expected' = Expected
      BY <1>2 DEF Expected
    <2>4. QED
      BY <1>1, <1>2, <2>1, <2>2, <2>3 DEF IInv, MeasureInv
  <1>9. ToldInv'
    BY <1>1, SameTold
  <1>10. QED BY <1>3, <1>4, <1>5, <1>6, <1>7, <1>8, <1>9 DEF IInv

\* A trap: of the stub, in the privilege the mret gave, or, where the threshold
\* is down, an interrupt before or in it.
LEMMA TrapIInv ==
    ASSUME IInv, Ecall \/ FetchFault \/ Interrupt
    PROVE  IInv'
  <1>1. /\ pc \in {"mtvec", "mcause", "mstatus", "mret", "stub"} /\ pc' = "handler"
        /\ UNCHANGED <<granted, test, i, bad, cause, line, kept, told, threshold, g_save>>
        /\ g_out' \in Causes /\ reached' \in {reached, reached + 1}
    BY DEF Ecall, FetchFault, Interrupt, Trap, runVars, Causes
  <1>2. T' = T
    BY <1>1 DEF T
  <1>3. TypeInv'
    BY <1>1 DEF IInv, TypeInv
  <1>4. LineInv'
    BY <1>1 DEF LineInv
  <1>5. ThresholdInv'
    BY <1>1, <1>2 DEF IInv, ThresholdInv
  <1>6. VectorInv'
    BY <1>1 DEF IInv, VectorInv, InProbe
  <1>7. LevelInv'
    BY <1>1 DEF LevelInv, InProbe
  <1>8. MeasureInv'
    <2>1. ~Trapped /\ Trapped' /\ ~Judged /\ ~Judged' /\ Expected' = Expected
      BY <1>1, <1>2 DEF Trapped, Judged, Expected
    <2>2. SUFFICES ASSUME T.mask
                   PROVE  /\ g_out' \in {Expected, "fetch_fault"}
                          /\ g_out' = Expected /\ T.mpp = "U" => granted
                          /\ reached' = IF g_out' = Expected THEN reached + 1 ELSE reached
      BY <1>1, <1>2, <2>1 DEF IInv, MeasureInv
    <2>3. ~Interrupt
      BY <1>1, <2>2 DEF IInv, ThresholdInv, Interrupt
    <2>4. T.mpp \in {"M", "U"} /\ (pc = "stub" => priv = T.mpp)
      BY ThisTest DEF IInv, MeasureInv
    <2>5. CASE Ecall
      BY <2>4, <2>5 DEF Ecall, Trap, Expected
    <2>6. CASE FetchFault
      BY <2>4, <2>6 DEF FetchFault, Trap, Expected
    <2>7. QED BY <2>3, <2>5, <2>6
  <1>9. ToldInv'
    BY <1>1, SameTold
  <1>10. QED BY <1>3, <1>4, <1>5, <1>6, <1>7, <1>8, <1>9 DEF IInv

\* p4_handler gives the vectors back, and its mret the level and the caller's MIE.
LEMMA HandlerIInv ==
    ASSUME IInv, Restore \/ Leave
    PROVE  IInv'
  <1>1. /\ <<pc, pc'>> \in {<<"handler", "leave">>, <<"leave", "judge">>}
        /\ UNCHANGED <<granted, test, i, bad, cause, line, kept, told, threshold, reached,
                       g_save, g_out>>
    BY DEF Restore, Leave, Asm, runVars
  <1>2. T' = T /\ Expected' = Expected
    BY <1>1 DEF T, Expected
  <1>3. TypeInv'
    BY <1>1 DEF IInv, TypeInv
  <1>4. LineInv'
    BY <1>1 DEF LineInv
  <1>5. ThresholdInv'
    BY <1>1, <1>2 DEF IInv, ThresholdInv
  <1>6. VectorInv'
    BY <1>1 DEF IInv, VectorInv, InProbe, Restore, Leave, Asm
  <1>7. LevelInv'
    BY <1>1, <1>2 DEF LevelInv, InProbe, Restore, Leave, Asm
  <1>8. MeasureInv'
    BY <1>1, <1>2 DEF IInv, MeasureInv, Trapped, Judged
  <1>9. ToldInv'
    BY <1>1, SameTold
  <1>10. QED BY <1>3, <1>4, <1>5, <1>6, <1>7, <1>8, <1>9 DEF IInv

-----------------------------------------------------------------------------
(* run() and app_main() *)

\* Steps of run() outside a probe leave the core and its vectors alone.
LEMMA CoreKept ==
    ASSUME IInv, ~InProbe, UNCHANGED <<coreVars, mtvec, mtvt>>,
           ~InProbe' \/ pc' = "save"
    PROVE  VectorInv'
  BY DEF IInv, VectorInv, InProbe, coreVars

LEMMA UnmaskIInv ==
    ASSUME IInv, Unmask
    PROVE  IInv'
  <1>1. /\ pc = "unmask" /\ pc' = "print" /\ threshold' = kept
        /\ UNCHANGED <<granted, test, i, bad, cause, line, kept, told, reached, g_out,
                       coreVars, mtvec, mtvt>>
    BY DEF Unmask, runVars
  <1>2. T' = T /\ Expected' = Expected /\ ~InProbe /\ ~InProbe'
    BY <1>1 DEF T, Expected, InProbe
  <1>3. TypeInv' /\ LineInv'
    BY <1>1, <1>2 DEF IInv, TypeInv, LineInv
  <1>4. ThresholdInv'
    BY <1>1 DEF IInv, ThresholdInv
  <1>5. VectorInv'
    BY <1>1, <1>2, CoreKept
  <1>6. LevelInv' /\ MeasureInv'
    BY <1>1, <1>2 DEF IInv, LevelInv, MeasureInv, Trapped, Judged, coreVars
  <1>7. ToldInv'
    BY <1>1, SameTold
  <1>8. QED BY <1>3, <1>4, <1>5, <1>6, <1>7 DEF IInv

LEMMA ArmedIInv ==
    ASSUME IInv, Armed
    PROVE  IInv'
  <1>1. /\ pc = "print" /\ line = "armed" /\ pc' = "loop" /\ kept' = threshold
        /\ threshold' = Masked
        /\ UNCHANGED <<granted, test, i, bad, cause, line, told, reached, g_out,
                       coreVars, mtvec, mtvt>>
    BY DEF Armed, asmVars
  <1>2. T' = T /\ Expected' = Expected /\ ~InProbe /\ ~InProbe' /\ i = 0
    BY <1>1 DEF T, Expected, InProbe, IInv, LineInv
  <1>3. TypeInv' /\ LineInv'
    <2>1. TypeInv'
      <3>1. i \in Nat /\ bad \in Nat
        BY DEF IInv, TypeInv
      <3>2. i' \in Nat /\ bad' \in Nat
        BY <1>1, <3>1
      <3>3. QED BY <1>1, <3>2 DEF IInv, TypeInv, Lines
    <2>2. LineInv'
      BY <1>1 DEF IInv, LineInv
    <2>3. QED BY <2>1, <2>2
  <1>4. ThresholdInv'
    BY <1>1, <1>2 DEF IInv, ThresholdInv, Masked
  <1>5. VectorInv'
    BY <1>1, <1>2, CoreKept
  <1>6. LevelInv' /\ MeasureInv'
    BY <1>1, <1>2 DEF IInv, LevelInv, MeasureInv, Trapped, Judged, coreVars
  <1>7. ToldInv'
    BY <1>1, SameTold
  <1>8. QED BY <1>3, <1>4, <1>5, <1>6, <1>7 DEF IInv

LEMMA LoopIInv ==
    ASSUME IInv, Loop
    PROVE  IInv'
  <1>1. /\ pc = "loop"
        /\ \/ pc' = "save" /\ line' = line
           \/ i = T.iters /\ pc' = "unmask" /\ line' = "returned"
        /\ UNCHANGED <<granted, test, i, bad, cause, kept, threshold, told, reached, g_out,
                       coreVars, mtvec, mtvt>>
    BY DEF Loop, asmVars
  <1>2. T' = T /\ Expected' = Expected /\ ~InProbe /\ (~InProbe' \/ pc' = "save")
    BY <1>1 DEF T, Expected, InProbe
  <1>3. TypeInv' /\ LineInv'
    BY <1>1, <1>2 DEF IInv, TypeInv, LineInv, Lines
  <1>4. ThresholdInv'
    BY <1>1, <1>2 DEF IInv, ThresholdInv
  <1>5. VectorInv'
    BY <1>1, <1>2, CoreKept
  <1>6. LevelInv' /\ MeasureInv'
    <2>1. ~Trapped /\ ~Trapped' /\ ~Judged /\ ~Judged'
      BY <1>1 DEF Trapped, Judged
    <2>2. LevelInv'
      BY <1>1, <1>2, <2>1 DEF IInv, LevelInv, coreVars
    <2>3. MeasureInv'
      BY <1>1, <1>2, <2>1 DEF IInv, MeasureInv
    <2>4. QED BY <2>2, <2>3
  <1>7. ToldInv'
    BY <1>1, SameTold
  <1>8. QED BY <1>3, <1>4, <1>5, <1>6, <1>7 DEF IInv

LEMMA JudgeIInv ==
    ASSUME IInv, Judge
    PROVE  IInv'
  <1>1. /\ pc = "judge" /\ cause' = g_out /\ bad' = IF IsBad THEN bad + 1 ELSE bad
        /\ \/ pc' = "unmask" /\ line' = "first_bad"
           \/ pc' = "progress?" /\ line' = line
        /\ UNCHANGED <<granted, test, i, kept, threshold, told, reached, g_out,
                       coreVars, mtvec, mtvt>>
    BY DEF Judge, asmVars
  <1>2. T' = T /\ Expected' = Expected /\ ~InProbe /\ ~InProbe'
    BY <1>1 DEF T, Expected, InProbe
  <1>3. TypeInv' /\ LineInv'
    <2>1. TypeInv'
      <3>1. i \in Nat /\ bad \in Nat
        BY DEF IInv, TypeInv
      <3>2. i' \in Nat /\ bad' \in Nat
        BY <1>1, <3>1
      <3>3. QED BY <1>1, <3>2 DEF IInv, TypeInv, Lines
    <2>2. LineInv'
      BY <1>1 DEF IInv, LineInv
    <2>3. QED BY <2>1, <2>2
  <1>4. ThresholdInv'
    BY <1>1, <1>2 DEF IInv, ThresholdInv
  <1>5. VectorInv'
    BY <1>1, <1>2, CoreKept
  <1>6. LevelInv' /\ MeasureInv'
    <2>1. Trapped /\ ~Trapped' /\ ~Judged /\ Judged'
      BY <1>1 DEF Trapped, Judged
    <2>2. LevelInv'
      BY <1>1, <1>2, <2>1 DEF IInv, LevelInv, coreVars
    <2>3. ASSUME T.mask, bad' = 0
          PROVE  bad = 0 /\ g_out = Expected
      <3>1. bad = 0 /\ g_out # "fetch_fault"
        BY <1>1, <2>3 DEF IsBad, IInv, TypeInv
      <3>2. QED BY <2>1, <2>3, <3>1 DEF IInv, MeasureInv
    <2>4. MeasureInv'
      BY <1>1, <1>2, <2>1, <2>3 DEF IInv, MeasureInv
    <2>5. QED BY <2>2, <2>4
  <1>7. ToldInv'
    BY <1>1, SameTold
  <1>8. QED BY <1>3, <1>4, <1>5, <1>6, <1>7 DEF IInv

LEMMA ProgressIInv ==
    ASSUME IInv, Progress
    PROVE  IInv'
  <1>1. /\ pc = "progress?"
        /\ \/ pc' = "unmask" /\ line' = "progress" /\ i' = i
           \/ pc' = "loop" /\ i' = i + 1 /\ line' = line
        /\ UNCHANGED <<granted, test, bad, cause, kept, threshold, told, reached, g_out,
                       coreVars, mtvec, mtvt>>
    BY DEF Progress, asmVars
  <1>2. T' = T /\ Expected' = Expected /\ ~InProbe /\ ~InProbe' /\ i \in Nat
    BY <1>1 DEF T, Expected, InProbe, IInv, TypeInv
  <1>3. TypeInv' /\ LineInv'
    <2>1. TypeInv'
      <3>1. i \in Nat /\ bad \in Nat
        BY DEF IInv, TypeInv
      <3>2. i' \in Nat /\ bad' \in Nat
        BY <1>1, <3>1
      <3>3. QED BY <1>1, <3>2 DEF IInv, TypeInv, Lines
    <2>2. LineInv'
      BY <1>1 DEF IInv, LineInv
    <2>3. QED BY <2>1, <2>2
  <1>4. ThresholdInv'
    BY <1>1, <1>2 DEF IInv, ThresholdInv
  <1>5. VectorInv'
    BY <1>1, <1>2, CoreKept
  <1>6. LevelInv' /\ MeasureInv'
    <2>1. ~Trapped /\ ~Trapped' /\ Judged /\ (Judged' <=> pc' = "unmask")
      BY <1>1 DEF Trapped, Judged
    <2>2. LevelInv'
      BY <1>1, <1>2, <2>1 DEF IInv, LevelInv, coreVars
    <2>3. MeasureInv'
      BY <1>1, <1>2, <2>1 DEF IInv, MeasureInv
    <2>4. QED BY <2>2, <2>3
  <1>7. ToldInv'
    BY <1>1, SameTold
  <1>8. QED BY <1>3, <1>4, <1>5, <1>6, <1>7 DEF IInv

\* Both lines raise the threshold again before the loop goes on.
LEMMA RemaskIInv ==
    ASSUME IInv, FirstBad \/ ProgressLine
    PROVE  IInv'
  <1>1. /\ pc = "print" /\ threshold' = Masked
        /\ \/ line = "first_bad" /\ pc' = "progress?" /\ i' = i
           \/ line = "progress" /\ pc' = "loop" /\ i' = i + 1
        /\ UNCHANGED <<granted, test, bad, cause, line, kept, told, reached, g_out,
                       coreVars, mtvec, mtvt>>
    BY DEF FirstBad, ProgressLine, asmVars, runVars
  <1>2. T' = T /\ Expected' = Expected /\ ~InProbe /\ ~InProbe' /\ i \in Nat
    BY <1>1 DEF T, Expected, InProbe, IInv, TypeInv
  <1>3. TypeInv' /\ LineInv'
    <2>1. TypeInv'
      <3>1. i \in Nat /\ bad \in Nat
        BY DEF IInv, TypeInv
      <3>2. i' \in Nat /\ bad' \in Nat
        BY <1>1, <3>1
      <3>3. QED BY <1>1, <3>2 DEF IInv, TypeInv, Lines
    <2>2. LineInv'
      BY <1>1 DEF IInv, LineInv
    <2>3. QED BY <2>1, <2>2
  <1>4. ThresholdInv'
    BY <1>1, <1>2 DEF IInv, ThresholdInv, Masked
  <1>5. VectorInv'
    BY <1>1, <1>2, CoreKept
  <1>6. LevelInv' /\ MeasureInv'
    <2>1. ~Trapped /\ ~Trapped' /\ Judged /\ (Judged' <=> pc' = "progress?")
      BY <1>1 DEF Trapped, Judged
    <2>2. LevelInv'
      BY <1>1, <1>2, <2>1 DEF IInv, LevelInv, coreVars
    <2>3. MeasureInv'
      BY <1>1, <1>2, <2>1 DEF IInv, MeasureInv
    <2>4. QED BY <2>2, <2>3
  <1>7. ToldInv'
    BY <1>1, SameTold
  <1>8. QED BY <1>3, <1>4, <1>5, <1>6, <1>7 DEF IInv

\* The verdict of a test, and the next one from nothing.
LEMMA ReturnedIInv ==
    ASSUME IInv, Returned
    PROVE  IInv'
  <1> DEFINE verdict == [ok |-> bad = 0, last |-> cause, reached |-> reached]
  <1>1. /\ pc = "print" /\ line = "returned" /\ told' = Append(told, verdict)
        /\ i' = 0 /\ bad' = 0 /\ reached' = 0
        /\ \/ test < 8 /\ test' = test + 1 /\ line' = "armed" /\ pc' = "print"
           \/ test = 8 /\ test' = test /\ line' = "all_returned" /\ pc' = "idle"
        /\ UNCHANGED <<granted, cause, kept, threshold, g_out, coreVars, mtvec, mtvt>>
    BY EightTests DEF Returned, asmVars
  <1>2. ~InProbe /\ ~InProbe' /\ i = T.iters /\ test \in 1..8 /\ told \in Seq(Verdict)
    BY <1>1 DEF InProbe, IInv, LineInv, TypeInv
  <1>3. verdict \in Verdict
    BY DEF IInv, TypeInv, Verdict
  <1>4. TypeInv'
    <2> HIDE DEF verdict
    <2>1. told' \in Seq(Verdict)
      BY <1>1, <1>2, <1>3, AppendProperties
    <2>2. QED BY <1>1, <2>1 DEF IInv, TypeInv, Lines
  <1>5. LineInv' /\ ThresholdInv'
    BY <1>1 DEF IInv, LineInv, ThresholdInv
  <1>6. VectorInv'
    BY <1>1, <1>2, CoreKept
  <1>7. LevelInv' /\ MeasureInv'
    <2>1. ~Trapped' /\ ~Judged' /\ pc' \in {"print", "idle"}
      BY <1>1 DEF Trapped, Judged
    <2>2. QED BY <1>1, <2>1 DEF LevelInv, MeasureInv
  <1>8. ToldInv'
    <2>1. Len(told) = test - 1
      BY <1>1 DEF IInv, ToldInv
    <2>2. /\ Len(told') = test /\ DOMAIN told' = 1..test /\ told'[test] = verdict
          /\ \A t \in 1..(test - 1) : told'[t] = told[t]
      <3> HIDE DEF verdict
      <3>1. QED BY <1>1, <1>2, <1>3, <2>1, AppendProperties
    <2>3. DOMAIN told = 1..(test - 1)
      BY <1>2, <2>1
    <2>4. ASSUME T.mask, bad = 0
          PROVE  reached = T.iters /\ cause = Expected /\ (T.mpp = "U" => granted)
      <3>1. ~Judged /\ ~Trapped /\ i > 0
        BY <1>1, <1>2, ThisTest DEF Judged, Trapped, IInv
      <3>2. QED BY <1>2, <2>4, <3>1 DEF IInv, MeasureInv
    <2>5. ASSUME NEW t \in DOMAIN told', Tests[t].mask, told'[t].ok
          PROVE  /\ told'[t].reached = Tests[t].iters
                 /\ told'[t].last = IF Tests[t].mpp = "U" THEN "ecall_U" ELSE "ecall_M"
                 /\ Tests[t].mpp = "U" => granted
      <3>1. CASE t = test
        <4>1. Tests[t] = T /\ told'[t] = verdict
          BY <2>2, <3>1 DEF T
        <4>2. T.mask /\ bad = 0
          <5>1. T.mask /\ verdict.ok
            BY <2>5, <4>1, Zenon
          <5>2. verdict.ok = (bad = 0)
            BY Zenon
          <5>3. QED BY <5>1, <5>2, Zenon
        <4>3. reached = T.iters /\ cause = Expected /\ (T.mpp = "U" => granted)
          BY <2>4, <4>2
        <4>4. QED BY <4>1, <4>3 DEF Expected
      <3>2. CASE t # test
        <4>1. t \in 1..(test - 1)
          BY <1>2, <2>2, <2>5, <3>2
        <4>2. QED
          BY <2>2, <2>3, <2>5, <4>1 DEF IInv, ToldInv, OkMeansMeasured
      <3>3. QED BY <3>1, <3>2
    <2>6. OkMeansMeasured'
      BY <1>1, <2>5 DEF OkMeansMeasured
    <2>7. QED BY <1>1, <1>2, <2>2, <2>6 DEF ToldInv
  <1>9. QED BY <1>4, <1>5, <1>6, <1>7, <1>8 DEF IInv

-----------------------------------------------------------------------------
\* The inductive invariant of the probe: whose vectors are in, what the threshold
\* is and how many probes have come to the stub, at each place of run() and of
\* the assembly.
THEOREM ProbeInvariant == Spec => []IInv
<1>1. IInv /\ UNCHANGED vars => IInv'
  BY DEF vars, runVars, coreVars, IInv, TypeInv, LineInv, ThresholdInv, VectorInv, LevelInv,
         MeasureInv, ToldInv, OkMeansMeasured, InProbe, Judged, Trapped, Expected, T
<1>2. IInv /\ Next => IInv'
  BY <1>1, SetUpIInv, TrapIInv, HandlerIInv, UnmaskIInv, ArmedIInv, LoopIInv, JudgeIInv,
     ProgressIInv, RemaskIInv, ReturnedIInv DEF Next, Idle
<1>3. QED BY InitIInv, <1>1, <1>2, PTL DEF Spec

\* Every instruction of a masked test's probes has the threshold up, and every
\* line is printed with it down, on all three paths of run().
THEOREM ThresholdIsRight == Spec => []ThresholdFollowsTest
<1>1. IInv => ThresholdFollowsTest
  BY DEF IInv, ThresholdInv, ThresholdFollowsTest, InProbe
<1>2. QED BY <1>1, ProbeInvariant, PTL

\* Wherever it was interrupted, a probe gives run() back its privilege, vectors and
\* MIE, and the level the test is about.
THEOREM CallerComesBack == Spec => []CallerUndisturbed
<1>1. IInv => CallerUndisturbed
  BY DEF IInv, VectorInv, LevelInv, CallerUndisturbed, InProbe
<1>2. QED BY <1>1, ProbeInvariant, PTL

\* An OK of a masked test counts mrets that came to the stub with the privilege
\* under test, one for every iteration.
THEOREM OkIsAMeasurement == Spec => []OkMeansMeasured
<1>1. IInv => OkMeansMeasured
  BY DEF IInv, ToldInv
<1>2. QED BY <1>1, ProbeInvariant, PTL
=============================================================================
