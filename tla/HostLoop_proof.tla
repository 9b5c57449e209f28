--------------------------- MODULE HostLoop_proof ---------------------------
(***************************************************************************)
(* Proofs about HostLoop, for any number of slots, cores, windows and      *)
(* moves, whichever calls the users make.                                  *)
(***************************************************************************)
EXTENDS HostLoop, TLAPS

\* Where a task is, a line it is printing on the way put aside.
Printing == {"print", "printing"}
Place(a) == IF pc[a] \in Printing THEN after[a] ELSE pc[a]

Fresh == {"start", "ready"}
Trapped == {"sample", "account", "count", "decide"}
Dispatched == {"serve", "delay", "advance"}
Ending == {"details", "retire"}
HostPlaces == Fresh \cup {"loop", "window", "dispatch", "deleted"}
                    \cup Trapped \cup Dispatched \cup Ending
KernelPlaces == {"wait", "report", "figure", "again"}

\* Each task keeps to its own part of the code, and prints one line at a time.
PlaceInv ==
    /\ \A u \in Slots : Place(u) \in HostPlaces
    /\ Place(Kernel) \in KernelPlaces
    /\ \A u \in Slots : pc[u] \in Printing =>
         after[u] \in {"ready", "serve", "advance", "details", "retire", "deleted"}

\* Back at the head of the loop, for another window or for good.
Going(u) == Place(u) = "loop" /\ running[u]
Gone(u) == Place(u) = "loop" /\ ~running[u]

\* A new slot has not run; after that, it runs until it is retired.
RunInv(u) ==
    /\ Place(u) \in Fresh => ~running[u]
    /\ Place(u) \in {"window", "dispatch"} \cup Trapped \cup Dispatched \cup Ending => running[u]
    /\ Place(u) = "deleted" => ~running[u]

\* What has been counted of the windows opened, at each place.
BooksInv(u) ==
    /\ Place(u) = "start" => syscalls[u] = 0
    /\ Place(u) \in Fresh \cup {"window"} \/ Going(u) =>
         windows[u] = syscalls[u] + irqs[u] /\ x_pc[u] = syscalls[u]
    /\ Place(u) \in Trapped \cup {"dispatch"} =>
         windows[u] = syscalls[u] + irqs[u] + 1 /\ x_pc[u] = syscalls[u]
    /\ Place(u) \in Dispatched =>
         windows[u] = syscalls[u] + irqs[u] /\ x_pc[u] + 1 = syscalls[u]

\* A core that is not the one recorded took a move to get to.
Move(h, k) == IF h = k THEN 0 ELSE 1

MoveInv(u) ==
    /\ table[u].moves <= migrations[u]
    /\ Place(u) = "start" => migrations[u] = 0
    /\ Place(u) = "account" =>
         migrations[u] + Move(seen[u], core[u]) + Move(where[u], seen[u]) <= moves[u]
    /\ Place(u) = "count" =>
         core[u] = seen[u] /\ migrations[u] + 1 + Move(where[u], core[u]) <= moves[u]
    /\ Place(u) \notin {"start", "account", "count"} =>
         migrations[u] + Move(where[u], core[u]) <= moves[u]

\* Why the last window retires its slot, if it does.
Reason(u) ==
    IF sp_fired[u] THEN "stack" ELSE IF cause[u] = "ecall" THEN "exit" ELSE cause[u]

\* Nothing is said of a slot that runs, one thing of one that ends.
SaidInv(u) ==
    /\ Place(u) \in Fresh \cup {"window", "dispatch"} \cup Trapped \cup Dispatched
         \/ Going(u) => said[u] = {}
    /\ Place(u) \in Ending \cup {"deleted"} \/ Gone(u) =>
         said[u] = {Reason(u)}
    /\ Place(u) \in {"dispatch"} \cup Dispatched => ~sp_fired[u] /\ cause[u] = "ecall"

\* A syscall on its way to an answer that its number may have.
AnswerInv(u) ==
    /\ cause[u] = "ecall" => request[u] \in Requests
    /\ Place(u) = "serve" => ret[u] = "zero"
    /\ Place(u) = "delay" => ret[u] = "zero" /\ request[u] = "delay"
    /\ Place(u) = "advance" => ret[u] \in Answers[request[u]]

SlotInv(u) == AnswerInv(u) /\ RunInv(u) /\ BooksInv(u) /\ MoveInv(u) /\ SaidInv(u)

\* The inductive invariant.
IInv == TypeOK /\ PlaceInv /\ OneWriter /\ \A u \in Slots : SlotInv(u)

-----------------------------------------------------------------------------
(* What the definitions say, and how the parts of a task's state change. *)

USE DEF Printing, Fresh, Trapped, Dispatched, Ending, Going, Gone, At,
        restVars, placeVars, tableVars, slotVars, passVars

LEMMA Updated ==
    ASSUME NEW D, NEW S, NEW f \in [D -> S], NEW u \in D, NEW v \in S
    PROVE  [f EXCEPT ![u] = v] \in [D -> S]
  OBVIOUS

LEMMA Counted ==
    ASSUME NEW f \in [Slots -> Nat], NEW u \in Slots
    PROVE  [f EXCEPT ![u] = @ + 1] \in [Slots -> Nat]
  OBVIOUS

LEMMA AnswersHold ==
    \A v \in {"zero", "len", "SYS_ERR_FAULT", "SYS_ERR_BADNR"} \cup Harts :
       v \in AnyAnswer
  BY DEF Answers, Calls, AnyAnswer

\* What each call may answer.
LEMMA AnswersOf ==
    /\ \A r \in {"nop", "puts", "delay", "yield"} : Answers[r] = {"zero"}
    /\ Answers["write"] = {"len"}
    /\ \A r \in {"write_bad", "puts_bad"} : Answers[r] = {"SYS_ERR_FAULT"}
    /\ Answers["getcore"] = Harts
    /\ Answers["unknown"] = {"SYS_ERR_BADNR"}
    /\ Answers["exit"] = {}
  BY DEF Answers, Calls

\* The figures of a slot are numbers.
LEMMA Figures ==
    ASSUME TypeOK, NEW u \in Slots
    PROVE  /\ migrations[u] \in Nat /\ syscalls[u] \in Nat /\ irqs[u] \in Nat
           /\ x_pc[u] \in Nat /\ windows[u] \in Nat /\ moves[u] \in Nat
           /\ table[u].moves \in Nat
<1>1. windows[u] \in 0..MaxWindows /\ moves[u] \in 0..MaxMoves
  BY DEF TypeOK
<1>2. table[u] \in [core : Harts, moves : Nat]
  BY DEF TypeOK
<1>3. windows[u] \in Nat /\ moves[u] \in Nat /\ table[u].moves \in Nat
  BY <1>1, <1>2, BoundsAssumption
<1>4. /\ migrations[u] \in Nat /\ syscalls[u] \in Nat /\ irqs[u] \in Nat
      /\ x_pc[u] \in Nat
  BY DEF TypeOK
<1>5. QED BY <1>3, <1>4

\* Going on to a label, or to a line, leaves pc and after their types.
LEMMA GoesOn ==
    ASSUME TypeOK, NEW a \in Actors, NEW l \in Labels, Goto(a, l) \/ Say(a, l)
    PROVE  pc' \in [Actors -> Labels] /\ after' \in [Actors -> Labels]
<1>1. pc \in [Actors -> Labels] /\ after \in [Actors -> Labels] /\ "print" \in Labels
  BY DEF TypeOK, Labels
<1>2. CASE Goto(a, l)
  BY <1>1, <1>2, Updated DEF Goto
<1>3. CASE Say(a, l)
  BY <1>1, <1>3, Updated DEF Say
<1>4. QED BY <1>2, <1>3

\* Where a task is when it has gone on to a label, or to a line.
LEMMA GoesTo ==
    ASSUME TypeOK, NEW a \in Actors
    PROVE  /\ \A l : Goto(a, l) => pc'[a] = l
           /\ \A l : Say(a, l) => pc'[a] = "print" /\ after'[a] = l
  BY DEF TypeOK, Goto, Say

-----------------------------------------------------------------------------
(* Types *)

\* A step of user_host_task() keeps the types.
LEMMA HostTypes ==
    ASSUME TypeOK, NEW u \in Slots, Host(u)
    PROVE  TypeOK'
<1>1. CASE Start(u)
  BY <1>1
  DEF Start, Say, TypeOK, Actors, Labels, Reasons
<1>2. CASE Run(u)
  BY <1>2
  DEF Run, Goto, TypeOK, Actors, Labels, Reasons
<1>3. CASE Loop(u)
  <2>1. pc' \in [Actors -> Labels] /\ after' \in [Actors -> Labels]
    BY <1>3, GoesOn DEF Loop, Actors, Labels
  <2>2. QED
    BY <1>3, <2>1 DEF Loop, TypeOK
<1>4. CASE Window(u)
  <2>1. pc' \in [Actors -> Labels] /\ after' \in [Actors -> Labels]
    BY <1>4, GoesOn DEF Window, Actors, Labels
  <2>2. windows' \in [Slots -> 0..MaxWindows]
    <3>1. windows' = [windows EXCEPT ![u] = windows[u] + 1]
      BY <1>4 DEF Window
    <3>2. windows[u] + 1 \in 0..MaxWindows
      <4>1. windows[u] \in 0..MaxWindows /\ windows[u] < MaxWindows
        BY <1>4 DEF Window, TypeOK
      <4>2. QED BY <4>1, BoundsAssumption
    <3>3. windows \in [Slots -> 0..MaxWindows]
      BY DEF TypeOK
    <3>4. QED BY <3>1, <3>2, <3>3, Updated
  <2>3. sp_fired' \in [Slots -> BOOLEAN]
    BY <1>4 DEF Window, TypeOK
  <2>4. cause' \in [Slots -> {"none", "ecall", "fault", "interrupt"}]
    BY <1>4 DEF Window, TypeOK
  <2>5. request' \in [Slots -> Requests \cup {"no request"}]
    <3>1. request \in [Slots -> Requests \cup {"no request"}]
      BY DEF TypeOK
    <3>2. request' = request \/ \E r \in Requests : request' = [request EXCEPT ![u] = r]
      BY <1>4 DEF Window
    <3>3. QED BY <3>1, <3>2, Updated
  <2>6. QED
    BY <1>4, <2>1, <2>2, <2>3, <2>4, <2>5 DEF Window, TypeOK
<1>5. CASE Sample(u)
  BY <1>5
  DEF Sample, Goto, TypeOK, Actors, Labels, Reasons
<1>6. CASE Account(u)
  BY <1>6
  DEF Account, Goto, TypeOK, Actors, Labels, Reasons
<1>7. CASE Count(u)
  <2>1. pc' \in [Actors -> Labels] /\ after' \in [Actors -> Labels]
    BY <1>7, GoesOn DEF Count, Actors, Labels
  <2>2. migrations' \in [Slots -> Nat]
    BY <1>7, Counted DEF Count, TypeOK
  <2>3. QED
    BY <1>7, <2>1, <2>2 DEF Count, TypeOK
<1>8. CASE DecideStackFault(u)
  BY <1>8
  DEF DecideStackFault, Say, TypeOK, Actors, Labels, Reasons
<1>9. CASE DecideInterrupt(u)
  <2>1. pc' \in [Actors -> Labels] /\ after' \in [Actors -> Labels]
    BY <1>9, GoesOn DEF DecideInterrupt, Actors, Labels
  <2>2. irqs' \in [Slots -> Nat]
    BY <1>9, Counted DEF DecideInterrupt, TypeOK
  <2>3. QED
    BY <1>9, <2>1, <2>2 DEF DecideInterrupt, TypeOK
<1>10. CASE DecideSyscall(u)
  BY <1>10
  DEF DecideSyscall, Goto, TypeOK, Actors, Labels, Reasons
<1>11. CASE DecideFault(u)
  BY <1>11
  DEF DecideFault, ReportFault, Say, TypeOK, Actors, Labels, Reasons
<1>12. CASE Details(u)
  BY <1>12
  DEF Details, Say, TypeOK, Actors, Labels, Reasons
<1>13. CASE Retire(u)
  BY <1>13
  DEF Retire, Goto, TypeOK, Actors, Labels, Reasons
<1>14. QED
  BY <1>1, <1>2, <1>3, <1>4, <1>5, <1>6, <1>7, <1>8, <1>9, <1>10, <1>11,
     <1>12, <1>13
     DEF Host

\* A step of syscall_dispatch() keeps the types.
LEMMA SyscallTypes ==
    ASSUME TypeOK, NEW u \in Slots, Syscall(u)
    PROVE  TypeOK'
<1>1. CASE Dispatch(u)
  <2>1. pc' \in [Actors -> Labels] /\ after' \in [Actors -> Labels]
    BY <1>1, GoesOn DEF Dispatch, Actors, Labels
  <2>2. syscalls' \in [Slots -> Nat]
    BY <1>1, Counted DEF Dispatch, TypeOK
  <2>3. ret' \in [Slots -> AnyAnswer] /\ confirmed' \in [Slots -> BOOLEAN]
    BY <1>1, AnswersHold DEF Dispatch, TypeOK
  <2>4. QED
    BY <1>1, <2>1, <2>2, <2>3 DEF Dispatch, TypeOK
<1>2. CASE ServeNop(u)
  BY <1>2, AnswersHold
  DEF ServeNop, Serving, Returns, Goto, TypeOK, Actors, Labels, Reasons
<1>3. CASE ServeYield(u)
  BY <1>3, AnswersHold
  DEF ServeYield, Serving, Returns, Goto, TypeOK, Actors, Labels, Reasons
<1>4. CASE ServeWrite(u)
  <2>1. pc' \in [Actors -> Labels] /\ after' \in [Actors -> Labels]
    BY <1>4, GoesOn DEF ServeWrite, Actors, Labels
  <2>2. PICK v \in AnyAnswer : Returns(u, v)
    BY <1>4, AnswersHold DEF ServeWrite
  <2>3. QED BY <2>1, <2>2, Updated DEF Returns, TypeOK
<1>5. CASE ServePuts(u)
  <2>1. pc' \in [Actors -> Labels] /\ after' \in [Actors -> Labels]
    BY <1>5, GoesOn DEF ServePuts, Actors, Labels
  <2>2. PICK v \in AnyAnswer : Returns(u, v)
    BY <1>5, AnswersHold DEF ServePuts
  <2>3. QED BY <2>1, <2>2, Updated DEF Returns, TypeOK
<1>6. CASE ServeDelay(u)
  BY <1>6, AnswersHold
  DEF ServeDelay, Serving, Returns, Goto, TypeOK, Actors, Labels, Reasons
<1>7. CASE Wake(u)
  BY <1>7
  DEF Wake, Goto, TypeOK, Actors, Labels, Reasons
<1>8. CASE ServeGetcore(u)
  BY <1>8, AnswersHold
  DEF ServeGetcore, Serving, Returns, Goto, TypeOK, Actors, Labels, Reasons
<1>9. CASE ServeUnknown(u)
  BY <1>9, AnswersHold
  DEF ServeUnknown, Serving, Returns, Say, TypeOK, Actors, Labels, Reasons
<1>10. CASE ServeExit(u)
  BY <1>10, AnswersHold
  DEF ServeExit, Serving, Say, TypeOK, Actors, Labels, Reasons
<1>11. CASE Advance(u)
  <2>1. pc' \in [Actors -> Labels] /\ after' \in [Actors -> Labels]
    BY <1>11, GoesOn DEF Advance, Actors, Labels
  <2>2. x_pc' \in [Slots -> Nat]
    BY <1>11, Counted DEF Advance, TypeOK
  <2>3. x_a0' \in [Slots -> AnyAnswer \cup {"no answer"}]
    BY <1>11 DEF Advance, TypeOK
  <2>4. QED
    BY <1>11, <2>1, <2>2, <2>3 DEF Advance, TypeOK
<1>12. QED
  BY <1>1, <1>2, <1>3, <1>4, <1>5, <1>6, <1>7, <1>8, <1>9, <1>10, <1>11
     DEF Syscall

\* So do the scheduler, the console and kernel_task.
LEMMA OtherTypes ==
    ASSUME TypeOK, [Next]_vars,
           ~ \E u \in Slots : Host(u) \/ Syscall(u)
    PROVE  TypeOK'
<1>1. CASE UNCHANGED vars
  BY <1>1 DEF vars, TypeOK
<1>2. ASSUME NEW u \in Slots, Migrate(u)
      PROVE  TypeOK'
  <2>1. where' \in [Slots -> Harts]
    BY <1>2 DEF Migrate, TypeOK
  <2>2. moves' \in [Slots -> 0..MaxMoves]
    <3>1. moves' = [moves EXCEPT ![u] = moves[u] + 1]
      BY <1>2 DEF Migrate
    <3>2. moves[u] + 1 \in 0..MaxMoves
      <4>1. moves[u] \in 0..MaxMoves /\ moves[u] < MaxMoves
        BY <1>2 DEF Migrate, TypeOK
      <4>2. QED BY <4>1, BoundsAssumption
    <3>3. moves \in [Slots -> 0..MaxMoves]
      BY DEF TypeOK
    <3>4. QED BY <3>1, <3>2, <3>3, Updated
  <2>3. QED BY <1>2, <2>1, <2>2 DEF Migrate, TypeOK
<1>3. ASSUME NEW a \in Actors, Take(a) \/ Give(a)
      PROVE  TypeOK'
  <2>1. console' \in Actors \cup {Nobody}
    BY <1>3 DEF Take, Give
  <2>2. pc' \in [Actors -> Labels] /\ after' \in [Actors -> Labels]
    BY <1>3 DEF Take, Give, Goto, TypeOK, Labels
  <2>3. QED BY <1>3, <2>1, <2>2 DEF Take, Give, TypeOK
<1>4. CASE KernelTick
  <2>1. table' \in [Slots -> [core : Harts, moves : Nat]]
    BY <1>4, CoreAssumption DEF KernelTick, Blank
  <2>2. pc' \in [Actors -> Labels] /\ after' \in [Actors -> Labels]
    BY <1>4, GoesOn DEF KernelTick, Actors, Labels
  <2>3. QED BY <1>4, <2>1, <2>2 DEF KernelTick, KernelStep, TypeOK
<1>5. ASSUME NEW u \in Slots, ReadCore(u)
      PROVE  TypeOK'
  <2>1. table' \in [Slots -> [core : Harts, moves : Nat]]
    BY <1>5 DEF ReadCore, TypeOK
  <2>2. pc' \in [Actors -> Labels] /\ after' \in [Actors -> Labels]
    BY <1>5, GoesOn DEF ReadCore, Actors, Labels
  <2>3. QED BY <1>5, <2>1, <2>2 DEF ReadCore, KernelStep, TypeOK
<1>6. CASE ReadMigrations
  <2>1. table' \in [Slots -> [core : Harts, moves : Nat]]
    BY <1>6 DEF ReadMigrations, TypeOK
  <2>2. pc' \in [Actors -> Labels] /\ after' \in [Actors -> Labels]
    BY <1>6, GoesOn DEF ReadMigrations, Actors, Labels
  <2>3. QED BY <1>6, <2>1, <2>2 DEF ReadMigrations, KernelStep, TypeOK
<1>7. CASE KernelReport
  <2>1. pc' \in [Actors -> Labels] /\ after' \in [Actors -> Labels]
    BY <1>7, GoesOn DEF KernelReport, Actors, Labels
  <2>2. QED BY <1>7, <2>1 DEF KernelReport, KernelStep, TypeOK
<1>8. QED
  BY <1>1, <1>2, <1>3, <1>4, <1>5, <1>6, <1>7 DEF Next, Console

-----------------------------------------------------------------------------
(* The slot whose task takes the step. *)

\* It runs until it is retired, and is retired for the reason reported.
LEMMA StepRuns ==
    ASSUME TypeOK, NEW u \in Slots, RunInv(u), SaidInv(u), Host(u) \/ Syscall(u)
    PROVE  /\ Place(u)' \in HostPlaces /\ RunInv(u)' /\ SaidInv(u)'
           /\ pc'[u] \in Printing =>
                after'[u] \in {"ready", "serve", "advance", "details", "retire", "deleted"}
<1> USE DEF TypeOK, Actors, RunInv, SaidInv, Reason, Place, HostPlaces
<1>1. CASE Start(u)
  BY <1>1 DEF Start, Say
<1>2. CASE Run(u)
  BY <1>2 DEF Run, Goto
<1>3. CASE Loop(u)
  BY <1>3 DEF Loop, Goto, Say
<1>4. CASE Window(u)
  BY <1>4 DEF Window, Goto
<1>5. CASE Sample(u)
  BY <1>5 DEF Sample, Goto
<1>6. CASE Account(u)
  BY <1>6 DEF Account, Goto
<1>7. CASE Count(u)
  BY <1>7 DEF Count, Goto
<1>8. CASE DecideStackFault(u)
  BY <1>8 DEF DecideStackFault, Say
<1>9. CASE DecideInterrupt(u)
  BY <1>9 DEF DecideInterrupt, Goto
<1>10. CASE DecideSyscall(u)
  BY <1>10 DEF DecideSyscall, Goto
<1>11. CASE DecideFault(u)
  BY <1>11 DEF DecideFault, ReportFault, Say
<1>12. CASE Details(u)
  BY <1>12 DEF Details, Say
<1>13. CASE Retire(u)
  BY <1>13 DEF Retire, Goto
<1>14. CASE Dispatch(u)
  <2>1. CASE confirmed[u]
    BY <1>14, <2>1 DEF Dispatch, Goto
  <2>2. CASE ~confirmed[u]
    BY <1>14, <2>2 DEF Dispatch, Say
  <2>3. QED BY <2>1, <2>2
<1>15. CASE ServeNop(u)
  BY <1>15 DEF ServeNop, Serving, Returns, Goto
<1>16. CASE ServeYield(u)
  BY <1>16 DEF ServeYield, Serving, Returns, Goto
<1>17. CASE ServeWrite(u)
  BY <1>17 DEF ServeWrite, Serving, Returns, Say
<1>18. CASE ServePuts(u)
  BY <1>18 DEF ServePuts, Serving, Returns, Say
<1>19. CASE ServeDelay(u)
  BY <1>19 DEF ServeDelay, Serving, Returns, Goto
<1>20. CASE Wake(u)
  BY <1>20 DEF Wake, Goto
<1>21. CASE ServeGetcore(u)
  BY <1>21 DEF ServeGetcore, Serving, Returns, Goto
<1>22. CASE ServeUnknown(u)
  BY <1>22 DEF ServeUnknown, Serving, Returns, Say
<1>23. CASE ServeExit(u)
  BY <1>23 DEF ServeExit, Serving, Say
<1>24. CASE Advance(u)
  BY <1>24 DEF Advance, Goto
<1>25. QED
  BY <1>1, <1>2, <1>3, <1>4, <1>5, <1>6, <1>7, <1>8, <1>9, <1>10, <1>11,
     <1>12, <1>13, <1>14, <1>15, <1>16, <1>17, <1>18, <1>19, <1>20, <1>21,
     <1>22, <1>23, <1>24
     DEF Host, Syscall

\* Its syscall gets an answer that its number may have.
LEMMA StepAnswers ==
    ASSUME TypeOK, NEW u \in Slots, SaidInv(u), AnswerInv(u), Host(u) \/ Syscall(u)
    PROVE  AnswerInv(u)'
<1> USE DEF AnswerInv
<1> DEFINE Keeps == request' = request /\ cause' = cause
<1>a. /\ u \in Actors
      /\ ret \in [Slots -> AnyAnswer] /\ where \in [Slots -> Harts]
      /\ request \in [Slots -> Requests \cup {"no request"}]
      /\ cause \in [Slots -> {"none", "ecall", "fault", "interrupt"}]
  BY DEF TypeOK, Actors
<1>b. pc[u] \in Dispatched => Place(u) = pc[u]
  BY DEF Place
<1>1. CASE Start(u)
  <2>1. Place(u)' = "ready" /\ Keeps
    BY <1>1, <1>a, GoesTo DEF Start, Place
  <2>2. QED BY <2>1
<1>2. CASE Run(u)
  <2>1. Place(u)' = "loop" /\ Keeps
    BY <1>2, <1>a, GoesTo DEF Run, Place
  <2>2. QED BY <2>1
<1>3. CASE Loop(u)
  <2>1. (Place(u)' = "window" \/ Place(u)' = "deleted") /\ Keeps
    BY <1>3, <1>a, GoesTo DEF Loop, Place
  <2>2. QED BY <2>1
<1>4. CASE Window(u)
  <2>1. Place(u)' = "sample"
    BY <1>4, <1>a, GoesTo DEF Window, Place
  <2>2. \/ Keeps
        \/ request' = request /\ \E c \in {"fault", "interrupt"} : cause' = [cause EXCEPT ![u] = c]
        \/ \E r \in Requests : request' = [request EXCEPT ![u] = r]
    BY <1>4 DEF Window
  <2>3. cause'[u] = "ecall" => request'[u] \in Requests
    BY <1>a, <2>2
  <2>4. QED BY <2>1, <2>3
<1>5. CASE Sample(u)
  <2>1. Place(u)' = "account" /\ Keeps
    BY <1>5, <1>a, GoesTo DEF Sample, Place
  <2>2. QED BY <2>1
<1>6. CASE Account(u)
  <2>1. (Place(u)' = "decide" \/ Place(u)' = "count") /\ Keeps
    BY <1>6, <1>a, GoesTo DEF Account, Place
  <2>2. QED BY <2>1
<1>7. CASE Count(u)
  <2>1. Place(u)' = "decide" /\ Keeps
    BY <1>7, <1>a, GoesTo DEF Count, Place
  <2>2. QED BY <2>1
<1>8. CASE DecideStackFault(u)
  <2>1. Place(u)' = "details" /\ Keeps
    BY <1>8, <1>a, GoesTo DEF DecideStackFault, Place
  <2>2. QED BY <2>1
<1>9. CASE DecideInterrupt(u)
  <2>1. Place(u)' = "loop" /\ Keeps
    BY <1>9, <1>a, GoesTo DEF DecideInterrupt, Place
  <2>2. QED BY <2>1
<1>10. CASE DecideSyscall(u)
  <2>1. Place(u)' = "dispatch" /\ Keeps
    BY <1>10, <1>a, GoesTo DEF DecideSyscall, Place
  <2>2. QED BY <2>1
<1>11. CASE DecideFault(u)
  <2>1. Place(u)' = "details" /\ Keeps
    BY <1>11, <1>a, GoesTo DEF DecideFault, ReportFault, Place
  <2>2. QED BY <2>1
<1>12. CASE Details(u)
  <2>1. Place(u)' = "retire" /\ Keeps
    BY <1>12, <1>a, GoesTo DEF Details, Place
  <2>2. QED BY <2>1
<1>13. CASE Retire(u)
  <2>1. Place(u)' = "loop" /\ Keeps
    BY <1>13, <1>a, GoesTo DEF Retire, Place
  <2>2. QED BY <2>1
<1>14. CASE Dispatch(u)
  <2>1. Place(u)' = "serve" /\ Keeps /\ ret' = [ret EXCEPT ![u] = "zero"]
    BY <1>14, <1>a, GoesTo DEF Dispatch, Place
  <2>2. QED BY <1>a, <2>1
<1>15. CASE ServeNop(u)
  <2>1. Place(u)' = "advance" /\ Keeps /\ ret' = [ret EXCEPT ![u] = ret[u]]
    BY <1>15, <1>a, GoesTo DEF ServeNop, Returns, Place
  <2>2. Place(u) = "serve" /\ request[u] = "nop"
    BY <1>15, <1>b DEF ServeNop, Serving
  <2>3. QED BY <1>a, <2>1, <2>2, AnswersOf
<1>16. CASE ServeYield(u)
  <2>1. Place(u)' = "advance" /\ Keeps /\ ret' = [ret EXCEPT ![u] = ret[u]]
    BY <1>16, <1>a, GoesTo DEF ServeYield, Returns, Place
  <2>2. Place(u) = "serve" /\ request[u] = "yield"
    BY <1>16, <1>b DEF ServeYield, Serving
  <2>3. QED BY <1>a, <2>1, <2>2, AnswersOf
<1>17. CASE ServeWrite(u)
  <2>1. Place(u)' = "advance" /\ Keeps
    BY <1>17, <1>a, GoesTo DEF ServeWrite, Returns, Place
  <2>2. \/ request[u] = "write" /\ ret' = [ret EXCEPT ![u] = "len"]
        \/ request[u] = "write_bad" /\ ret' = [ret EXCEPT ![u] = "SYS_ERR_FAULT"]
    BY <1>17 DEF ServeWrite, Serving, Returns
  <2>3. ret'[u] \in Answers[request[u]]
    BY <1>a, <2>2, AnswersOf
  <2>4. QED BY <2>1, <2>3
<1>18. CASE ServePuts(u)
  <2>1. Place(u)' = "advance" /\ Keeps
    BY <1>18, <1>a, GoesTo DEF ServePuts, Returns, Place
  <2>2. \/ request[u] = "puts" /\ ret' = [ret EXCEPT ![u] = "zero"]
        \/ request[u] = "puts_bad" /\ ret' = [ret EXCEPT ![u] = "SYS_ERR_FAULT"]
    BY <1>18 DEF ServePuts, Serving, Returns
  <2>3. ret'[u] \in Answers[request[u]]
    BY <1>a, <2>2, AnswersOf
  <2>4. QED BY <2>1, <2>3
<1>19. CASE ServeDelay(u)
  <2>1. Place(u)' = "delay" /\ Keeps /\ ret' = [ret EXCEPT ![u] = ret[u]]
    BY <1>19, <1>a, GoesTo DEF ServeDelay, Returns, Place
  <2>2. Place(u) = "serve" /\ request[u] = "delay"
    BY <1>19, <1>b DEF ServeDelay, Serving
  <2>3. QED BY <1>a, <2>1, <2>2, AnswersOf
<1>20. CASE Wake(u)
  <2>1. Place(u)' = "advance" /\ Keeps /\ ret' = ret
    BY <1>20, <1>a, GoesTo DEF Wake, Place
  <2>2. Place(u) = "delay"
    BY <1>20, <1>b DEF Wake
  <2>3. QED BY <2>1, <2>2, AnswersOf
<1>21. CASE ServeGetcore(u)
  <2>1. Place(u)' = "advance" /\ Keeps /\ ret' = [ret EXCEPT ![u] = where[u]]
    BY <1>21, <1>a, GoesTo DEF ServeGetcore, Returns, Place
  <2>2. request[u] = "getcore"
    BY <1>21 DEF ServeGetcore, Serving
  <2>3. QED BY <1>a, <2>1, <2>2, AnswersOf
<1>22. CASE ServeUnknown(u)
  <2>1. Place(u)' = "advance" /\ Keeps /\ ret' = [ret EXCEPT ![u] = "SYS_ERR_BADNR"]
    BY <1>22, <1>a, GoesTo DEF ServeUnknown, Returns, Place
  <2>2. request[u] = "unknown"
    BY <1>22 DEF ServeUnknown, Serving
  <2>3. QED BY <1>a, <2>1, <2>2, AnswersOf
<1>23. CASE ServeExit(u)
  <2>1. Place(u)' = "retire" /\ Keeps
    BY <1>23, <1>a, GoesTo DEF ServeExit, Place
  <2>2. QED BY <2>1
<1>24. CASE Advance(u)
  <2>1. Place(u)' = "loop" /\ Keeps
    BY <1>24, <1>a, GoesTo DEF Advance, Place
  <2>2. QED BY <2>1
<1>25. QED
  BY <1>1, <1>2, <1>3, <1>4, <1>5, <1>6, <1>7, <1>8, <1>9, <1>10, <1>11,
     <1>12, <1>13, <1>14, <1>15, <1>16, <1>17, <1>18, <1>19, <1>20, <1>21,
     <1>22, <1>23, <1>24
     DEF Host, Syscall

\* Its windows stay accounted for.
LEMMA StepBooks ==
    ASSUME TypeOK, NEW u \in Slots, RunInv(u), BooksInv(u), Host(u) \/ Syscall(u)
    PROVE  BooksInv(u)'
<1> USE DEF TypeOK, Actors, RunInv, BooksInv, Place
<1>1. CASE Start(u)
  BY <1>1 DEF Start, Say
<1>2. CASE Run(u)
  BY <1>2 DEF Run, Goto
<1>3. CASE Loop(u)
  BY <1>3 DEF Loop, Goto, Say
<1>4. CASE Window(u)
  BY <1>4 DEF Window, Goto
<1>5. CASE Sample(u)
  BY <1>5 DEF Sample, Goto
<1>6. CASE Account(u)
  BY <1>6 DEF Account, Goto
<1>7. CASE Count(u)
  BY <1>7 DEF Count, Goto
<1>8. CASE DecideStackFault(u)
  BY <1>8 DEF DecideStackFault, Say
<1>9. CASE DecideInterrupt(u)
  <2>1. Place(u) = "decide" /\ Place(u)' = "loop"
    BY <1>9 DEF DecideInterrupt, Goto
  <2>2. /\ irqs'[u] = irqs[u] + 1
        /\ windows'[u] = windows[u] /\ syscalls'[u] = syscalls[u] /\ x_pc'[u] = x_pc[u]
    BY <1>9 DEF DecideInterrupt
  <2> HIDE DEF TypeOK, Place
  <2>3. QED BY <2>1, <2>2, Figures
<1>10. CASE DecideSyscall(u)
  BY <1>10 DEF DecideSyscall, Goto
<1>11. CASE DecideFault(u)
  BY <1>11 DEF DecideFault, ReportFault, Say
<1>12. CASE Details(u)
  BY <1>12 DEF Details, Say
<1>13. CASE Retire(u)
  BY <1>13 DEF Retire, Goto
<1>14. CASE Dispatch(u)
  <2>1. Place(u) = "dispatch" /\ Place(u)' = "serve"
    BY <1>14 DEF Dispatch, Goto, Say
  <2>2. /\ syscalls'[u] = syscalls[u] + 1
        /\ windows'[u] = windows[u] /\ irqs'[u] = irqs[u] /\ x_pc'[u] = x_pc[u]
    BY <1>14 DEF Dispatch
  <2> HIDE DEF TypeOK, Place
  <2>3. QED BY <2>1, <2>2, Figures
<1>15. CASE ServeNop(u)
  BY <1>15 DEF ServeNop, Serving, Returns, Goto
<1>16. CASE ServeYield(u)
  BY <1>16 DEF ServeYield, Serving, Returns, Goto
<1>17. CASE ServeWrite(u)
  BY <1>17 DEF ServeWrite, Serving, Returns, Say
<1>18. CASE ServePuts(u)
  BY <1>18 DEF ServePuts, Serving, Returns, Say
<1>19. CASE ServeDelay(u)
  BY <1>19 DEF ServeDelay, Serving, Returns, Goto
<1>20. CASE Wake(u)
  BY <1>20 DEF Wake, Goto
<1>21. CASE ServeGetcore(u)
  BY <1>21 DEF ServeGetcore, Serving, Returns, Goto
<1>22. CASE ServeUnknown(u)
  BY <1>22 DEF ServeUnknown, Serving, Returns, Say
<1>23. CASE ServeExit(u)
  BY <1>23 DEF ServeExit, Serving, Say
<1>24. CASE Advance(u)
  BY <1>24 DEF Advance, Goto
<1>25. QED
  BY <1>1, <1>2, <1>3, <1>4, <1>5, <1>6, <1>7, <1>8, <1>9, <1>10, <1>11,
     <1>12, <1>13, <1>14, <1>15, <1>16, <1>17, <1>18, <1>19, <1>20, <1>21,
     <1>22, <1>23, <1>24
     DEF Host, Syscall

\* Its core and its count of moves stay within what the scheduler did.
LEMMA StepMoves ==
    ASSUME TypeOK, NEW u \in Slots, MoveInv(u), Host(u) \/ Syscall(u)
    PROVE  MoveInv(u)'
<1> USE DEF TypeOK, Actors, MoveInv, Move, Place
<1>1. CASE Start(u)
  <2>1. Place(u) = "start" /\ Place(u)' = "ready"
    BY <1>1 DEF Start, Say
  <2>2. /\ where'[u] = where[u] /\ moves'[u] = moves[u] /\ table' = table
        /\ core'[u] = where[u] /\ migrations'[u] = migrations[u]
    BY <1>1 DEF Start
  <2> HIDE DEF TypeOK, Place
  <2>3. QED BY <2>1, <2>2, Figures
<1>2. CASE Run(u)
  BY <1>2 DEF Run, Goto
<1>3. CASE Loop(u)
  BY <1>3 DEF Loop, Goto, Say
<1>4. CASE Window(u)
  BY <1>4 DEF Window, Goto
<1>5. CASE Sample(u)
  <2>1. Place(u) = "sample" /\ Place(u)' = "account"
    BY <1>5 DEF Sample, Goto
  <2>2. /\ where'[u] = where[u] /\ moves'[u] = moves[u] /\ table' = table
        /\ seen'[u] = where[u] /\ core'[u] = core[u] /\ migrations'[u] = migrations[u]
    BY <1>5 DEF Sample
  <2> HIDE DEF TypeOK, Place
  <2>3. QED BY <2>1, <2>2, Figures
<1>6. CASE Account(u)
  <2>1. Place(u) = "account" /\ Place(u)' = IF seen[u] = core[u] THEN "decide" ELSE "count"
    BY <1>6 DEF Account, Goto
  <2>2. /\ where'[u] = where[u] /\ moves'[u] = moves[u] /\ table' = table
        /\ seen'[u] = seen[u] /\ core'[u] = seen[u] /\ migrations'[u] = migrations[u]
    BY <1>6 DEF Account
  <2> HIDE DEF TypeOK, Place
  <2>3. QED BY <2>1, <2>2, Figures
<1>7. CASE Count(u)
  <2>1. Place(u) = "count" /\ Place(u)' = "decide"
    BY <1>7 DEF Count, Goto
  <2>2. /\ where'[u] = where[u] /\ moves'[u] = moves[u] /\ table' = table
        /\ core'[u] = core[u] /\ migrations'[u] = migrations[u] + 1
    BY <1>7 DEF Count
  <2> HIDE DEF TypeOK, Place
  <2>3. QED BY <2>1, <2>2, Figures
<1>8. CASE DecideStackFault(u)
  BY <1>8 DEF DecideStackFault, Say
<1>9. CASE DecideInterrupt(u)
  BY <1>9 DEF DecideInterrupt, Goto
<1>10. CASE DecideSyscall(u)
  BY <1>10 DEF DecideSyscall, Goto
<1>11. CASE DecideFault(u)
  BY <1>11 DEF DecideFault, ReportFault, Say
<1>12. CASE Details(u)
  BY <1>12 DEF Details, Say
<1>13. CASE Retire(u)
  BY <1>13 DEF Retire, Goto
<1>14. CASE Dispatch(u)
  <2>1. CASE confirmed[u]
    BY <1>14, <2>1 DEF Dispatch, Goto
  <2>2. CASE ~confirmed[u]
    BY <1>14, <2>2 DEF Dispatch, Say
  <2>3. QED BY <2>1, <2>2
<1>15. CASE ServeNop(u)
  BY <1>15 DEF ServeNop, Serving, Returns, Goto
<1>16. CASE ServeYield(u)
  BY <1>16 DEF ServeYield, Serving, Returns, Goto
<1>17. CASE ServeWrite(u)
  BY <1>17 DEF ServeWrite, Serving, Returns, Say
<1>18. CASE ServePuts(u)
  BY <1>18 DEF ServePuts, Serving, Returns, Say
<1>19. CASE ServeDelay(u)
  BY <1>19 DEF ServeDelay, Serving, Returns, Goto
<1>20. CASE Wake(u)
  BY <1>20 DEF Wake, Goto
<1>21. CASE ServeGetcore(u)
  BY <1>21 DEF ServeGetcore, Serving, Returns, Goto
<1>22. CASE ServeUnknown(u)
  BY <1>22 DEF ServeUnknown, Serving, Returns, Say
<1>23. CASE ServeExit(u)
  BY <1>23 DEF ServeExit, Serving, Say
<1>24. CASE Advance(u)
  BY <1>24 DEF Advance, Goto
<1>25. QED
  BY <1>1, <1>2, <1>3, <1>4, <1>5, <1>6, <1>7, <1>8, <1>9, <1>10, <1>11,
     <1>12, <1>13, <1>14, <1>15, <1>16, <1>17, <1>18, <1>19, <1>20, <1>21,
     <1>22, <1>23, <1>24
     DEF Host, Syscall

-----------------------------------------------------------------------------
(* The other slots, kernel_task and the console. *)

\* The facts about a slot are about its own variables.
SameSlot(v) ==
    /\ Place(v)' = Place(v)
    /\ where'[v] = where[v] /\ moves'[v] = moves[v] /\ table'[v] = table[v]
    /\ core'[v] = core[v] /\ migrations'[v] = migrations[v] /\ seen'[v] = seen[v]
    /\ syscalls'[v] = syscalls[v] /\ irqs'[v] = irqs[v] /\ windows'[v] = windows[v]
    /\ x_pc'[v] = x_pc[v] /\ running'[v] = running[v] /\ said'[v] = said[v]
    /\ sp_fired'[v] = sp_fired[v] /\ cause'[v] = cause[v]
    /\ request'[v] = request[v] /\ ret'[v] = ret[v] /\ x_a0'[v] = x_a0[v]

LEMMA Elsewhere ==
    ASSUME NEW v \in Slots, SlotInv(v), SameSlot(v)
    PROVE  SlotInv(v)'
<1> USE DEF SlotInv, SameSlot
<1>1. RunInv(v)'
  BY DEF RunInv
<1>2. BooksInv(v)'
  BY DEF BooksInv
<1>3. MoveInv(v)'
  BY DEF MoveInv
<1>4. SaidInv(v)'
  BY DEF SaidInv, Reason
<1>5. AnswerInv(v)'
  BY DEF AnswerInv
<1>6. QED BY <1>1, <1>2, <1>3, <1>4, <1>5

\* A step of one slot's task leaves the others, kernel_task and the console
\* alone.
LEMMA StepLocal ==
    ASSUME TypeOK, NEW u \in Slots, Host(u) \/ Syscall(u)
    PROVE  /\ \A v \in Slots \ {u} : SameSlot(v)
           /\ \A a \in Actors \ {u} : pc'[a] = pc[a] /\ after'[a] = after[a]
           /\ console' = console
           /\ pc[u] # "printing" /\ pc'[u] # "printing"
<1> USE ActorsAssumption DEF TypeOK, Actors, SameSlot, Place
<1>1. CASE Start(u)
  BY <1>1 DEF Start, Say
<1>2. CASE Run(u)
  BY <1>2 DEF Run, Goto
<1>3. CASE Loop(u)
  BY <1>3 DEF Loop, Goto, Say
<1>4. CASE Window(u)
  <2>1. cause' = [cause EXCEPT ![u] = cause'[u]] /\ request' = [request EXCEPT ![u] = request'[u]]
    BY <1>4 DEF Window
  <2>2. sp_fired' = [sp_fired EXCEPT ![u] = sp_fired'[u]]
    BY <1>4 DEF Window
  <2>3. pc' = [pc EXCEPT ![u] = "sample"] /\ after' = after
    BY <1>4 DEF Window, Goto
  <2>4. \A a \in Actors \ {u} : pc'[a] = pc[a] /\ after'[a] = after[a]
    BY <2>3
  <2>5. \A v \in Slots \ {u} : cause'[v] = cause[v] /\ request'[v] = request[v]
                               /\ sp_fired'[v] = sp_fired[v]
    BY <2>1, <2>2
  <2>6. \A v \in Slots \ {u} : windows'[v] = windows[v]
    BY <1>4 DEF Window
  <2>7. pc[u] # "printing" /\ pc'[u] # "printing"
    BY <1>4, <2>3 DEF Window
  <2> HIDE DEF TypeOK
  <2>8. QED BY <1>4, <2>4, <2>5, <2>6, <2>7 DEF Window
<1>5. CASE Sample(u)
  BY <1>5 DEF Sample, Goto
<1>6. CASE Account(u)
  BY <1>6 DEF Account, Goto
<1>7. CASE Count(u)
  BY <1>7 DEF Count, Goto
<1>8. CASE DecideStackFault(u)
  BY <1>8 DEF DecideStackFault, Say
<1>9. CASE DecideInterrupt(u)
  BY <1>9 DEF DecideInterrupt, Goto
<1>10. CASE DecideSyscall(u)
  BY <1>10 DEF DecideSyscall, Goto
<1>11. CASE DecideFault(u)
  BY <1>11 DEF DecideFault, ReportFault, Say
<1>12. CASE Details(u)
  BY <1>12 DEF Details, Say
<1>13. CASE Retire(u)
  BY <1>13 DEF Retire, Goto
<1>14. CASE Dispatch(u)
  <2>1. \A a \in Actors \ {u} : pc'[a] = pc[a] /\ after'[a] = after[a]
    BY <1>14 DEF Dispatch, Goto, Say
  <2>2. \A v \in Slots \ {u} : syscalls'[v] = syscalls[v] /\ ret'[v] = ret[v]
    BY <1>14 DEF Dispatch
  <2>3. pc[u] # "printing" /\ pc'[u] # "printing"
    BY <1>14 DEF Dispatch, Goto, Say
  <2> HIDE DEF TypeOK
  <2>4. QED BY <1>14, <2>1, <2>2, <2>3 DEF Dispatch
<1>15. CASE ServeNop(u)
  BY <1>15 DEF ServeNop, Serving, Returns, Goto
<1>16. CASE ServeYield(u)
  BY <1>16 DEF ServeYield, Serving, Returns, Goto
<1>17. CASE ServeWrite(u)
  <2>1. Say(u, "advance") /\ pc[u] = "serve"
    BY <1>17 DEF ServeWrite, Serving
  <2>2. PICK v : Returns(u, v)
    BY <1>17 DEF ServeWrite
  <2>3. QED BY <2>1, <2>2 DEF Returns, Say
<1>18. CASE ServePuts(u)
  <2>1. Say(u, "advance") /\ pc[u] = "serve"
    BY <1>18 DEF ServePuts, Serving
  <2>2. PICK v : Returns(u, v)
    BY <1>18 DEF ServePuts
  <2>3. QED BY <2>1, <2>2 DEF Returns, Say
<1>19. CASE ServeDelay(u)
  BY <1>19 DEF ServeDelay, Serving, Returns, Goto
<1>20. CASE Wake(u)
  BY <1>20 DEF Wake, Goto
<1>21. CASE ServeGetcore(u)
  BY <1>21 DEF ServeGetcore, Serving, Returns, Goto
<1>22. CASE ServeUnknown(u)
  BY <1>22 DEF ServeUnknown, Serving, Returns, Say
<1>23. CASE ServeExit(u)
  BY <1>23 DEF ServeExit, Serving, Say
<1>24. CASE Advance(u)
  BY <1>24 DEF Advance, Goto
<1>25. QED
  BY <1>1, <1>2, <1>3, <1>4, <1>5, <1>6, <1>7, <1>8, <1>9, <1>10, <1>11,
     <1>12, <1>13, <1>14, <1>15, <1>16, <1>17, <1>18, <1>19, <1>20, <1>21,
     <1>22, <1>23, <1>24
     DEF Host, Syscall

LEMMA HostStep ==
    ASSUME IInv, NEW u \in Slots, Host(u) \/ Syscall(u)
    PROVE  IInv'
<1>1. TypeOK'
  BY HostTypes, SyscallTypes DEF IInv
<1>2. /\ \A v \in Slots \ {u} : SameSlot(v)
      /\ \A a \in Actors \ {u} : pc'[a] = pc[a] /\ after'[a] = after[a]
      /\ console' = console
      /\ pc[u] # "printing" /\ pc'[u] # "printing"
  BY StepLocal DEF IInv
<1>3. SlotInv(u)'
  BY StepRuns, StepAnswers, StepBooks, StepMoves DEF IInv, SlotInv
<1>4. PlaceInv'
  <2>1. Place(Kernel)' = Place(Kernel)
    BY <1>2, ActorsAssumption DEF Actors, Place
  <2>2. /\ Place(u)' \in HostPlaces
        /\ pc'[u] \in Printing =>
             after'[u] \in {"ready", "serve", "advance", "details", "retire", "deleted"}
    BY StepRuns DEF IInv, SlotInv
  <2>3. \A v \in Slots \ {u} : pc'[v] = pc[v] /\ after'[v] = after[v]
    BY <1>2 DEF Actors
  <2>4. QED BY <1>2, <2>1, <2>2, <2>3 DEF IInv, PlaceInv, SameSlot
<1>5. OneWriter'
  BY <1>2 DEF IInv, OneWriter, Actors
<1>6. \A v \in Slots : SlotInv(v)'
  BY <1>2, <1>3, Elsewhere DEF IInv
<1>7. QED BY <1>1, <1>4, <1>5, <1>6 DEF IInv

LEMMA MigrateStep ==
    ASSUME IInv, NEW u \in Slots, Migrate(u)
    PROVE  IInv'
<1>1. TypeOK'
  <2>1. CASE \E v \in Slots : Host(v) \/ Syscall(v)
    BY <2>1, HostStep DEF IInv
  <2>2. CASE ~ \E v \in Slots : Host(v) \/ Syscall(v)
    BY <2>2, OtherTypes DEF IInv, Next
  <2>3. QED BY <2>1, <2>2
<1>2. PlaceInv' /\ OneWriter'
  BY DEF Migrate, IInv, PlaceInv, OneWriter, Place
<1>3. ASSUME NEW v \in Slots \ {u}
      PROVE  SlotInv(v)'
  <2>1. SameSlot(v)
    BY DEF Migrate, IInv, TypeOK, SameSlot, Place
  <2>2. QED BY <2>1, Elsewhere DEF IInv
<1>4. SlotInv(u)'
  <2>1. /\ Place(u)' = Place(u)
        /\ seen'[u] = seen[u] /\ core'[u] = core[u] /\ table' = table
        /\ migrations'[u] = migrations[u] /\ moves'[u] = moves[u] + 1
    BY DEF Migrate, IInv, TypeOK, Place
  <2>2. MoveInv(u)'
    BY <2>1, Figures DEF IInv, SlotInv, MoveInv, Move
  <2>3. RunInv(u)' /\ BooksInv(u)' /\ SaidInv(u)' /\ AnswerInv(u)'
    BY <2>1 DEF Migrate, IInv, SlotInv, RunInv, BooksInv, SaidInv, Reason, AnswerInv
  <2>4. QED BY <2>2, <2>3 DEF SlotInv
<1>5. QED BY <1>1, <1>2, <1>3, <1>4 DEF IInv

\* Taking and giving the console moves no task to another place.
LEMMA ConsoleStep ==
    ASSUME IInv, NEW a \in Actors, Console(a), TypeOK'
    PROVE  IInv'
<1>1. after[a] \notin Printing \/ pc[a] \notin Printing
  BY DEF IInv, PlaceInv, Place, HostPlaces, KernelPlaces, Actors
<1>2. \A b \in Actors : Place(b)' = Place(b)
  <2>1. CASE Take(a)
    BY <2>1 DEF Take, Goto, IInv, TypeOK, Place
  <2>2. CASE Give(a)
    <3>1. pc' = [pc EXCEPT ![a] = after[a]] /\ after' = after /\ pc[a] = "printing"
      BY <2>2 DEF Give, Goto
    <3>2. after[a] \notin Printing
      BY <1>1, <3>1
    <3>3. pc \in [Actors -> Labels] /\ after \in [Actors -> Labels]
      BY DEF IInv, TypeOK
    <3>4. QED BY <3>1, <3>2, <3>3 DEF Place
  <2>3. QED BY <2>1, <2>2 DEF Console
<1>3. PlaceInv'
  <2>1. \A v \in Slots : pc'[v] \in Printing => pc[v] \in Printing /\ after'[v] = after[v]
    <3>1. \E l \in {"printing", after[a]} : pc' = [pc EXCEPT ![a] = l]
      BY DEF Console, Take, Give, Goto
    <3>2. after' = after /\ pc[a] \in Printing
      BY DEF Console, Take, Give, Goto
    <3>3. pc \in [Actors -> Labels]
      BY DEF IInv, TypeOK
    <3>4. QED BY <3>1, <3>2, <3>3
  <2>2. QED BY <1>2, <2>1 DEF IInv, PlaceInv, Actors
<1>4. OneWriter'
  <2>1. CASE Take(a)
    BY <2>1, ActorsAssumption DEF Take, Goto, IInv, TypeOK, OneWriter, Actors
  <2>2. CASE Give(a)
    <3>1. after[a] # "printing"
      BY <1>1, <2>2 DEF Give
    <3>2. QED
      <4>1. /\ pc' = [pc EXCEPT ![a] = after[a]] /\ console' = Nobody
            /\ pc[a] = "printing"
        BY <2>2 DEF Give, Goto
      <4>2. console = a
        BY <4>1 DEF IInv, OneWriter
      <4>3. \A b \in Actors : pc'[b] # "printing" /\ b # Nobody
        BY <3>1, <4>1, <4>2, ActorsAssumption DEF IInv, TypeOK, OneWriter, Actors
      <4>4. QED BY <4>1, <4>3 DEF OneWriter
  <2>3. QED BY <2>1, <2>2 DEF Console
<1>5. ASSUME NEW v \in Slots
      PROVE  SlotInv(v)'
  <2>1. SameSlot(v)
    BY <1>2 DEF Console, Take, Give, SameSlot, Actors
  <2>2. QED BY <2>1, Elsewhere DEF IInv
<1>6. QED BY <1>3, <1>4, <1>5 DEF IInv

\* kernel_task reads two figures of a slot and prints, and changes neither.
KernelSteps ==
    KernelTick \/ ReadMigrations \/ KernelReport \/ \E u \in Slots : ReadCore(u)

LEMMA KernelTaskStep ==
    ASSUME IInv, KernelSteps, TypeOK'
    PROVE  IInv'
<1> USE DEF KernelSteps, KernelTick, ReadMigrations, KernelReport, ReadCore, KernelStep
<1>1. Place(Kernel)' \in KernelPlaces /\ pc[Kernel] # "printing" /\ pc'[Kernel] # "printing"
  <2>1. pc \in [Actors -> Labels] /\ after \in [Actors -> Labels] /\ Kernel \in Actors
    BY DEF IInv, TypeOK, Actors
  <2>2. \E l \in KernelPlaces : Goto(Kernel, l) \/ Say(Kernel, l)
    BY DEF KernelPlaces
  <2>3. QED BY <2>1, <2>2 DEF Goto, Say, Place, KernelPlaces
<1>2. \A v \in Slots : pc'[v] = pc[v] /\ after'[v] = after[v]
  <2>1. Goto(Kernel, "report") \/ Goto(Kernel, "figure") \/ \E l : Say(Kernel, l)
    OBVIOUS
  <2>2. pc \in [Actors -> Labels] /\ after \in [Actors -> Labels]
    BY DEF IInv, TypeOK
  <2> HIDE DEF KernelSteps
  <2>3. QED BY <2>1, <2>2, ActorsAssumption DEF Goto, Say, Actors
<1>3. \A v \in Slots : Place(v)' = Place(v)
  BY <1>2 DEF Place
<1>4. PlaceInv'
  BY <1>1, <1>2, <1>3 DEF IInv, PlaceInv
<1>5. OneWriter'
  BY <1>1, <1>2 DEF IInv, OneWriter, Actors
<1>6. ASSUME NEW v \in Slots
      PROVE  SlotInv(v)'
  <2>1. RunInv(v)' /\ BooksInv(v)' /\ SaidInv(v)' /\ AnswerInv(v)'
    BY <1>3 DEF IInv, SlotInv, RunInv, BooksInv, SaidInv, Reason, AnswerInv
  <2>2. table'[v].moves <= migrations[v]
    <3>1. table[v].moves <= migrations[v] /\ migrations[v] \in Nat
      BY Figures DEF IInv, SlotInv, MoveInv
    <3>2. table'[v].moves \in {0, table[v].moves, migrations[v]}
      <4> USE DEF IInv, TypeOK
      <4>1. CASE KernelTick
        BY <4>1 DEF Blank
      <4>2. ASSUME NEW u \in Slots, ReadCore(u)
            PROVE  table'[v].moves = table[v].moves
        <5>1. table' = [table EXCEPT ![u].core = core[u]]
          BY <4>2
        <5>2. table \in [Slots -> [core : Harts, moves : Nat]]
          OBVIOUS
        <5> HIDE DEF IInv, TypeOK
        <5>3. QED BY <5>1, <5>2
      <4>3. CASE ReadMigrations
        BY <4>3
      <4>4. CASE KernelReport
        BY <4>4
      <4>5. QED BY <4>1, <4>2, <4>3, <4>4
    <3>3. QED BY <3>1, <3>2
  <2>3. MoveInv(v)'
    BY <1>3, <2>2 DEF IInv, SlotInv, MoveInv
  <2>4. QED BY <2>1, <2>3 DEF SlotInv
<1>7. QED BY <1>4, <1>5, <1>6 DEF IInv

-----------------------------------------------------------------------------
(* The theorems *)

LEMMA NothingYet == 0 \in 0..MaxMoves /\ 0 \in 0..MaxWindows
  BY BoundsAssumption

LEMMA Beginning ==
    ASSUME Init
    PROVE  IInv
<1> USE DEF Init
<1>1. TypeOK
  <2>1. /\ where \in [Slots -> Harts]
        /\ moves \in [Slots -> 0..MaxMoves]
        /\ windows \in [Slots -> 0..MaxWindows]
        /\ core \in [Slots -> Harts] /\ seen \in [Slots -> Harts]
    BY NothingYet, CoreAssumption
  <2>2. /\ pc \in [Actors -> Labels] /\ after \in [Actors -> Labels]
        /\ console \in Actors \cup {Nobody}
    BY DEF Labels
  <2>3. /\ migrations \in [Slots -> Nat] /\ syscalls \in [Slots -> Nat]
        /\ irqs \in [Slots -> Nat] /\ x_pc \in [Slots -> Nat]
    OBVIOUS
  <2>4. /\ running \in [Slots -> BOOLEAN] /\ confirmed \in [Slots -> BOOLEAN]
        /\ sp_fired \in [Slots -> BOOLEAN]
    OBVIOUS
  <2>5. /\ x_a0 \in [Slots -> AnyAnswer \cup {"no answer"}]
        /\ ret \in [Slots -> AnyAnswer]
    BY AnswersHold
  <2>6. /\ cause \in [Slots -> {"none", "ecall", "fault", "interrupt"}]
        /\ request \in [Slots -> Requests \cup {"no request"}]
        /\ said \in [Slots -> SUBSET Reasons]
    OBVIOUS
  <2>7. /\ table \in [Slots -> [core : Harts, moves : Nat]]
        /\ unread \subseteq Slots /\ reading \in Slots \cup {Nobody}
    BY CoreAssumption DEF Blank
  <2>8. QED
    BY <2>1, <2>2, <2>3, <2>4, <2>5, <2>6, <2>7 DEF TypeOK
<1>2. \A a \in Actors : Place(a) = IF a = Kernel THEN "wait" ELSE "start"
  BY DEF Place
<1>3. PlaceInv
  BY <1>2, ActorsAssumption DEF PlaceInv, Actors, HostPlaces, KernelPlaces
<1>4. OneWriter
  BY ActorsAssumption DEF OneWriter, Actors
<1>5. ASSUME NEW u \in Slots
      PROVE  SlotInv(u)
  <2>1. Place(u) = "start"
    BY <1>2, ActorsAssumption DEF Actors
  <2>2. QED
    <3>1. RunInv(u) /\ SaidInv(u) /\ AnswerInv(u)
      BY <2>1 DEF RunInv, SaidInv, AnswerInv
    <3>2. BooksInv(u)
      <4>1. /\ syscalls[u] = 0 /\ irqs[u] = 0 /\ windows[u] = 0 /\ x_pc[u] = 0
        OBVIOUS
      <4> HIDE DEF Init
      <4>2. QED BY <2>1, <4>1 DEF BooksInv
    <3>3. MoveInv(u)
      <4>1. table[u].moves = 0 /\ migrations[u] = 0
        BY DEF Blank
      <4> HIDE DEF Init
      <4>2. QED BY <2>1, <4>1 DEF MoveInv
    <3>4. QED BY <3>1, <3>2, <3>3 DEF SlotInv
<1>6. QED BY <1>1, <1>3, <1>4, <1>5 DEF IInv

LEMMA Step ==
    ASSUME IInv, [Next]_vars
    PROVE  IInv'
<1>1. CASE UNCHANGED vars
  <2> USE <1>1 DEF vars, IInv
  <2>1. TypeOK'
    BY DEF TypeOK
  <2>2. PlaceInv' /\ OneWriter'
    BY DEF PlaceInv, OneWriter, Place
  <2>3. ASSUME NEW v \in Slots
        PROVE  SlotInv(v)'
    <3>1. SameSlot(v)
      BY DEF SameSlot, Place
    <3>2. QED BY <3>1, Elsewhere
  <2>4. QED BY <2>1, <2>2, <2>3
<1>2. CASE \E u \in Slots : Host(u) \/ Syscall(u)
  BY <1>2, HostStep
<1>3. CASE ~ \E u \in Slots : Host(u) \/ Syscall(u)
  <2>1. TypeOK'
    BY <1>3, OtherTypes DEF IInv
  <2>2. QED
    BY <1>1, <1>3, <2>1, MigrateStep, ConsoleStep, KernelTaskStep DEF Next, KernelSteps
<1>4. QED BY <1>2, <1>3

\* IInv is an invariant of the host tasks, kernel_task and their console.
THEOREM Invariant == Spec => []IInv
<1>1. Init => IInv
  BY Beginning
<1>2. IInv /\ [Next]_vars => IInv'
  BY Step
<1>3. QED BY <1>1, <1>2, PTL DEF Spec

\* Every variable of the host tasks keeps its type.
THEOREM HostTypesHold == Spec => []TypeOK
<1>1. IInv => TypeOK
  BY DEF IInv
<1>2. QED BY <1>1, Invariant, PTL

\* However many tasks print, the console has one writer at a time: it is held
\* exactly by the task that is writing.
THEOREM ConsoleHasOneWriter == Spec => []OneWriter
<1>1. IInv => OneWriter
  BY DEF IInv
<1>2. QED BY <1>1, Invariant, PTL

\* Whatever the users ask for and however often they are interrupted, each
\* window is counted once, and each ecall is stepped past once.
THEOREM WindowsAreAccountedFor == Spec => []EveryWindowAccounted
<1>1. IInv => EveryWindowAccounted
  BY DEF IInv, SlotInv, BooksInv, EveryWindowAccounted, Place
<1>2. QED BY <1>1, Invariant, PTL

\* Neither a slot's count of moves nor kernel_task's copy of it, read without a
\* lock, exceeds the moves the scheduler made, and it falls short of them while
\* the core the slot records is not the one its task is on.
THEOREM MovesAreNotOvercounted == Spec => []MigrationsNeverOvercounted
<1>1. ASSUME IInv, NEW u \in Slots
      PROVE  /\ table[u].moves <= migrations[u]
             /\ migrations[u] <= moves[u]
             /\ (pc[u] # "start" /\ core[u] # where[u]) => migrations[u] < moves[u]
  <2>1. MoveInv(u)
    BY <1>1 DEF IInv, SlotInv
  <2>2. Move(where[u], core[u]) \in {0, 1} /\ Move(where[u], seen[u]) \in {0, 1}
        /\ Move(seen[u], core[u]) \in {0, 1}
    BY DEF Move
  <2>3. table[u].moves <= migrations[u] /\ migrations[u] <= moves[u]
    BY <1>1, <2>1, <2>2, Figures DEF IInv, MoveInv
  <2>4. ASSUME pc[u] # "start", core[u] # where[u]
        PROVE  migrations[u] < moves[u]
    <3>1. Place(u) # "start"
      BY <1>1, <2>4 DEF IInv, PlaceInv, Place
    <3>2. CASE Place(u) = "account"
      <4>1. Move(seen[u], core[u]) = 1 \/ Move(where[u], seen[u]) = 1
        BY <2>4 DEF Move
      <4>2. QED BY <1>1, <2>1, <2>2, <3>2, <4>1, Figures DEF IInv, MoveInv
    <3>3. CASE Place(u) # "account"
      <4>1. Move(where[u], core[u]) = 1
        BY <2>4 DEF Move
      <4>2. QED BY <1>1, <2>1, <3>1, <3>3, <4>1, Figures DEF IInv, MoveInv
    <3>4. QED BY <3>2, <3>3
  <2>5. QED BY <2>3, <2>4
<1>2. IInv => MigrationsNeverOvercounted
  BY <1>1 DEF MigrationsNeverOvercounted
<1>3. QED BY <1>2, Invariant, PTL

\* A slot is retired for one reason, the one its last window gave, and a fired
\* stack guard is that reason before any trap cause.
THEOREM SlotsRetireForTheRightReason == Spec => []RetiredForTheRightReason
<1>1. IInv => RetiredForTheRightReason
  BY DEF IInv, SlotInv, SaidInv, Reason, RetiredForTheRightReason, Place
<1>2. QED BY <1>1, Invariant, PTL

-----------------------------------------------------------------------------
(* UserService: what the program in each slot is promised *)

\* What a program sees is settled by where its host task is.
PhaseFacts(u) ==
    /\ Place(u) \in Fresh => Phase(u) = "new" /\ ~Asking(u)
    /\ Place(u) = "window" \/ Going(u) => Phase(u) = "running" /\ ~Asking(u)
    /\ Place(u) \in Trapped =>
         /\ Phase(u) = IF cause[u] = "ecall" /\ ~sp_fired[u] THEN "asking"
                                                            ELSE "running"
         /\ Asking(u) <=> cause[u] = "ecall" /\ ~sp_fired[u]
    /\ Place(u) \in {"dispatch"} \cup Dispatched => Phase(u) = "asking" /\ Asking(u)
    /\ Place(u) \in Ending \cup {"deleted"} \/ Gone(u) =>
         Phase(u) = "stopped" /\ ~Asking(u)

LEMMA PhaseOf == IInv => \A u \in Slots : PhaseFacts(u)
<1> SUFFICES ASSUME IInv, NEW u \in Slots
             PROVE  PhaseFacts(u)
  OBVIOUS
<1>1. pc[u] \in Printing =>
        after[u] \in {"ready", "serve", "advance", "details", "retire", "deleted"}
  BY DEF IInv, PlaceInv
<1>2. InPass(u) <=> Place(u) \in Trapped \cup {"dispatch"} \cup Dispatched
  BY <1>1 DEF InPass, Place
<1>3. RunInv(u) /\ SaidInv(u)
  BY DEF IInv, SlotInv
<1>4. QED BY <1>2, <1>3 DEF PhaseFacts, RunInv, SaidInv, Phase, Asking

LEMMA PhaseAfter == IInv' => \A u \in Slots : PhaseFacts(u)'
<1>1. IInv' => (\A u \in Slots : PhaseFacts(u))'
  BY PhaseOf, PTL
<1>2. QED BY <1>1

\* The program's view, and a step that does not change it.
SameView(u) ==
    /\ Phase(u)' = Phase(u) /\ (Asking(u)' <=> Asking(u))
    /\ (Asking(u) => request'[u] = request[u]) /\ x_a0'[u] = x_a0[u]

\* The view of a slot is about its own variables.
LEMMA ViewElsewhere ==
    ASSUME NEW v \in Slots, SameSlot(v), pc'[v] = pc[v], after'[v] = after[v]
    PROVE  SameView(v)
  BY DEF SameSlot, SameView, Phase, Asking, InPass

\* What a step of a host task is to its program.
Started(u) == Phase(u) = "new" /\ Phase(u)' = "running" /\ ~Asking(u) /\ ~Asking(u)'
                /\ x_a0'[u] = x_a0[u]
Asked(u) == Phase(u) = "running" /\ Phase(u)' = "asking" /\ ~Asking(u) /\ Asking(u)'
              /\ request'[u] \in Requests /\ x_a0'[u] = x_a0[u]
Replied(u) == Phase(u) = "asking" /\ Phase(u)' = "running" /\ Asking(u) /\ ~Asking(u)'
                /\ x_a0'[u] \in Answers[request[u]]
Stopped(u) == /\ \/ Phase(u) = "running" /\ ~Asking(u)
                 \/ Phase(u) = "asking" /\ Asking(u) /\ Answers[request[u]] = {}
              /\ Phase(u)' = "stopped" /\ ~Asking(u)' /\ x_a0'[u] = x_a0[u]

LEMMA StepView ==
    ASSUME IInv, IInv', NEW u \in Slots, Host(u) \/ Syscall(u)
    PROVE  SameView(u) \/ Started(u) \/ Asked(u) \/ Replied(u) \/ Stopped(u)
<1>1. /\ TypeOK /\ RunInv(u) /\ SaidInv(u) /\ AnswerInv(u)
      /\ RunInv(u)' /\ AnswerInv(u)'
  BY DEF IInv, SlotInv
<1>2. PhaseFacts(u)
  BY PhaseOf
<1>3. PhaseFacts(u)'
  BY PhaseAfter
<1> USE DEF TypeOK, Actors, Place, PhaseFacts, AnswerInv, RunInv
<1>4. CASE Start(u)
  BY <1>1, <1>2, <1>3, <1>4
  DEF Start, Say, SameView
<1>5. CASE Run(u)
  BY <1>1, <1>2, <1>3, <1>5
  DEF Run, Goto, Started
<1>6. CASE Loop(u)
  BY <1>1, <1>2, <1>3, <1>6
  DEF Loop, Goto, Say, SameView
<1>7. CASE Window(u)
  BY <1>1, <1>2, <1>3, <1>7
  DEF Window, Goto, SameView, Asked
<1>8. CASE Sample(u)
  BY <1>1, <1>2, <1>3, <1>8
  DEF Sample, Goto, SameView
<1>9. CASE Account(u)
  BY <1>1, <1>2, <1>3, <1>9
  DEF Account, Goto, SameView
<1>10. CASE Count(u)
  BY <1>1, <1>2, <1>3, <1>10
  DEF Count, Goto, SameView
<1>11. CASE DecideStackFault(u)
  BY <1>1, <1>2, <1>3, <1>11
  DEF DecideStackFault, Say, Stopped
<1>12. CASE DecideInterrupt(u)
  BY <1>1, <1>2, <1>3, <1>12
  DEF DecideInterrupt, Goto, SameView
<1>13. CASE DecideSyscall(u)
  BY <1>1, <1>2, <1>3, <1>13
  DEF DecideSyscall, Goto, SameView
<1>14. CASE DecideFault(u)
  BY <1>1, <1>2, <1>3, <1>14
  DEF DecideFault, ReportFault, Say, Stopped
<1>15. CASE Details(u)
  BY <1>1, <1>2, <1>3, <1>15
  DEF Details, Say, SameView
<1>16. CASE Retire(u)
  BY <1>1, <1>2, <1>3, <1>16
  DEF Retire, Goto, SameView
<1>17. CASE Dispatch(u)
  BY <1>1, <1>2, <1>3, <1>17
  DEF Dispatch, Goto, Say, SameView
<1>18. CASE ServeNop(u)
  BY <1>1, <1>2, <1>3, <1>18
  DEF ServeNop, Serving, Returns, Goto, SameView
<1>19. CASE ServeYield(u)
  BY <1>1, <1>2, <1>3, <1>19
  DEF ServeYield, Serving, Returns, Goto, SameView
<1>20. CASE ServeWrite(u)
  BY <1>1, <1>2, <1>3, <1>20
  DEF ServeWrite, Serving, Returns, Say, SameView
<1>21. CASE ServePuts(u)
  BY <1>1, <1>2, <1>3, <1>21
  DEF ServePuts, Serving, Returns, Say, SameView
<1>22. CASE ServeDelay(u)
  BY <1>1, <1>2, <1>3, <1>22
  DEF ServeDelay, Serving, Returns, Goto, SameView
<1>23. CASE Wake(u)
  BY <1>1, <1>2, <1>3, <1>23
  DEF Wake, Goto, SameView
<1>24. CASE ServeGetcore(u)
  BY <1>1, <1>2, <1>3, <1>24
  DEF ServeGetcore, Serving, Returns, Goto, SameView
<1>25. CASE ServeUnknown(u)
  BY <1>1, <1>2, <1>3, <1>25
  DEF ServeUnknown, Serving, Returns, Say, SameView
<1>26. CASE ServeExit(u)
  BY <1>1, <1>2, <1>3, <1>26, AnswersOf
  DEF ServeExit, Serving, Say, Stopped
<1>27. CASE Advance(u)
  BY <1>1, <1>2, <1>3, <1>27
  DEF Advance, Goto, Replied
<1>28. QED
  BY <1>4, <1>5, <1>6, <1>7, <1>8, <1>9, <1>10, <1>11, <1>12, <1>13, <1>14,
     <1>15, <1>16, <1>17, <1>18, <1>19, <1>20, <1>21, <1>22, <1>23, <1>24,
     <1>25, <1>26, <1>27
     DEF Host, Syscall


\* The three variables of UserService, here.
phases == [u \in Slots |-> Phase(u)]
asks   == [u \in Slots |-> IF Asking(u) THEN request[u] ELSE "no request"]

LEMMA AnswersKept ==
    ASSUME TypeOK, TypeOK', \A v \in Slots : x_a0'[v] = x_a0[v]
    PROVE  x_a0' = x_a0
<1>1. x_a0 = [v \in Slots |-> x_a0[v]] /\ x_a0' = [v \in Slots |-> x_a0'[v]]
  BY DEF TypeOK
<1>2. QED BY <1>1

LEMMA ViewsKept ==
    ASSUME TypeOK, TypeOK', \A v \in Slots : SameView(v)
    PROVE  phases' = phases /\ asks' = asks /\ x_a0' = x_a0
<1>1. phases' = phases
  BY DEF phases, SameView
<1>2. asks' = asks
  BY DEF asks, SameView
<1>3. x_a0' = x_a0
  BY AnswersKept DEF SameView
<1>4. QED BY <1>1, <1>2, <1>3

\* A step of one host task is a step of UserService, or none.
LEMMA ServiceHostStep ==
    ASSUME IInv, IInv', NEW u \in Slots, Host(u) \/ Syscall(u)
    PROVE  [Service!Next]_(Service!serviceVars)
<1>1. TypeOK /\ TypeOK'
  BY DEF IInv
<1>2. \A v \in Slots \ {u} : SameView(v)
  <2>1. /\ \A v \in Slots \ {u} : SameSlot(v)
        /\ \A a \in Actors \ {u} : pc'[a] = pc[a] /\ after'[a] = after[a]
    BY <1>1, StepLocal
  <2>2. QED BY <2>1, ViewElsewhere DEF Actors
<1>3. CASE SameView(u)
  <2>1. phases' = phases /\ asks' = asks /\ x_a0' = x_a0
    BY <1>1, <1>2, <1>3, ViewsKept
  <2>2. QED BY <2>1 DEF Service!serviceVars, phases, asks
<1>4. CASE Started(u)
  <2>1. phases' = [phases EXCEPT ![u] = "running"] /\ phases[u] = "new"
    BY <1>2, <1>4 DEF phases, SameView, Started
  <2>2. asks' = asks
    BY <1>2, <1>4 DEF asks, SameView, Started
  <2>3. x_a0' = x_a0
    BY <1>1, <1>2, <1>4, AnswersKept DEF SameView, Started
  <2>4. Service!Start(u)
    BY <2>1, <2>2, <2>3 DEF Service!Start, phases, asks
  <2>5. QED BY <2>4 DEF Service!Next
<1>5. CASE Asked(u)
  <2>1. phases' = [phases EXCEPT ![u] = "asking"] /\ phases[u] = "running"
    BY <1>2, <1>5 DEF phases, SameView, Asked
  <2>2. asks' = [asks EXCEPT ![u] = request'[u]]
    BY <1>2, <1>5 DEF asks, SameView, Asked
  <2>3. x_a0' = x_a0
    BY <1>1, <1>2, <1>5, AnswersKept DEF SameView, Asked
  <2>4. Service!Ask(u)
    BY <1>5, <2>1, <2>2, <2>3 DEF Service!Ask, phases, asks, Asked
  <2>5. QED BY <2>4 DEF Service!Next
<1>6. CASE Replied(u)
  <2>1. phases' = [phases EXCEPT ![u] = "running"] /\ phases[u] = "asking"
    BY <1>2, <1>6 DEF phases, SameView, Replied
  <2>2. asks' = [asks EXCEPT ![u] = "no request"] /\ asks[u] = request[u]
    BY <1>2, <1>6 DEF asks, SameView, Replied
  <2>3. x_a0' = [x_a0 EXCEPT ![u] = x_a0'[u]]
    BY <1>1, <1>2, <1>6 DEF TypeOK, SameView, Replied
  <2>4. Service!Reply(u)
    BY <1>6, <2>1, <2>2, <2>3
    DEF Service!Reply, Service!NoRequest, phases, asks, Replied
  <2>5. QED BY <2>4 DEF Service!Next
<1>7. CASE Stopped(u)
  <2>1. phases' = [phases EXCEPT ![u] = "stopped"]
    BY <1>2, <1>7 DEF phases, SameView, Stopped
  <2>2. asks' = [asks EXCEPT ![u] = "no request"]
    BY <1>2, <1>7 DEF asks, SameView, Stopped
  <2>3. x_a0' = x_a0
    BY <1>1, <1>2, <1>7, AnswersKept DEF SameView, Stopped
  <2>4. phases[u] = "running" \/ (phases[u] = "asking" /\ Answers[asks[u]] = {})
    BY <1>7 DEF phases, asks, Stopped
  <2>5. Service!Stop(u)
    BY <2>1, <2>2, <2>3, <2>4 DEF Service!Stop, Service!NoRequest, phases, asks
  <2>6. QED BY <2>5 DEF Service!Next
<1>8. QED BY <1>3, <1>4, <1>5, <1>6, <1>7, StepView

\* What else happens, a program does not notice.
LEMMA ServiceOtherStep ==
    ASSUME IInv, IInv', [Next]_vars, ~ \E u \in Slots : Host(u) \/ Syscall(u)
    PROVE  UNCHANGED Service!serviceVars
<1>1. TypeOK /\ TypeOK' /\ PlaceInv
  BY DEF IInv
<1>2. \/ UNCHANGED vars \/ KernelSteps
      \/ \E u \in Slots : Migrate(u)
      \/ \E a \in Actors : Console(a)
  BY DEF Next, KernelSteps
<1>3. /\ cause' = cause /\ sp_fired' = sp_fired /\ request' = request
      /\ said' = said /\ running' = running /\ x_a0' = x_a0
  BY <1>2 DEF vars, KernelSteps, KernelTick, ReadCore, ReadMigrations, KernelReport,
              KernelStep, Migrate, Console, Take, Give
<1>4. ASSUME NEW v \in Slots
      PROVE  SameView(v)
  <2>1. pc[v] \in Printing =>
          after[v] \in {"ready", "serve", "advance", "details", "retire", "deleted"}
    BY <1>1 DEF PlaceInv
  <2>2. InPass(v)' <=> InPass(v)
    <3>1. CASE UNCHANGED vars \/ \E u \in Slots : Migrate(u)
      BY <3>1 DEF vars, Migrate, InPass
    <3>2. CASE KernelSteps
      <4>1. \E l : Goto(Kernel, l) \/ Say(Kernel, l)
        BY <3>2 DEF KernelSteps, KernelTick, ReadCore, ReadMigrations, KernelReport
      <4>2. pc'[v] = pc[v] /\ after'[v] = after[v]
        BY <1>1, <4>1, ActorsAssumption DEF Goto, Say, TypeOK, Actors
      <4>3. QED BY <4>2 DEF InPass
    <3>3. ASSUME NEW a \in Actors, Console(a)
          PROVE  InPass(v)' <=> InPass(v)
      <4>1. CASE Take(a)
        BY <1>1, <2>1, <4>1 DEF Take, Goto, TypeOK, Actors, InPass
      <4>2. CASE Give(a)
        <5>1. pc' = [pc EXCEPT ![a] = after[a]] /\ after' = after /\ pc[a] = "printing"
          BY <4>2 DEF Give, Goto
        <5>2. CASE a = v
          BY <1>1, <2>1, <5>1, <5>2 DEF TypeOK, Actors, InPass
        <5>3. CASE a # v
          BY <1>1, <5>1, <5>3 DEF TypeOK, Actors, InPass
        <5>4. QED BY <5>2, <5>3
      <4>3. QED BY <3>3, <4>1, <4>2 DEF Console
    <3>4. QED BY <1>2, <3>1, <3>2, <3>3
  <2>3. QED BY <1>3, <2>2 DEF SameView, Phase, Asking
<1>5. phases' = phases /\ asks' = asks /\ x_a0' = x_a0
  BY <1>1, <1>4, ViewsKept
<1>6. QED BY <1>5 DEF Service!serviceVars, phases, asks

\* The host tasks give every program the service of UserService: whatever the
\* scheduler, the other slots and kernel_task do, each syscall gets exactly one
\* answer, one its number may have, and a program that is stopped stays so.
THEOREM ServiceIsProvided == Spec => Service!Init /\ [][Service!Next]_(Service!serviceVars)
<1>1. Init => Service!Init
  <2> SUFFICES ASSUME Init
               PROVE  Service!Init
    OBVIOUS
  <2>1. \A u \in Slots : Phase(u) = "new" /\ ~Asking(u)
    <3>1. \A u \in Slots : Place(u) = "start"
      BY ActorsAssumption DEF Init, Place, Actors
    <3>2. QED BY <3>1, Beginning, PhaseOf DEF PhaseFacts
  <2>2. x_a0 = [u \in Slots |-> "no answer"]
    BY DEF Init
  <2>3. QED
    BY <2>1, <2>2 DEF Service!Init, Service!NoRequest, Service!NoAnswer
<1>2. IInv /\ IInv' /\ [Next]_vars => [Service!Next]_(Service!serviceVars)
  BY ServiceHostStep, ServiceOtherStep
<1>3. QED BY <1>1, <1>2, Invariant, PTL DEF Spec
=============================================================================
