------------------------ MODULE WindowContract_proof ------------------------
(***************************************************************************)
(* umode_enter() and its trap path keep the contract of umode.h, for any   *)
(* number of cores and of windows: the safety half of ContractKept.        *)
(***************************************************************************)
EXTENDS UmodeWindow_proof

\* A trap has a cause, from the moment it is taken to the moment the host loop
\* reads it.
CauseInv ==
    /\ \A h \in Harts : Label(h) = "save" => cause[h] # "none"
    /\ \A t \in Tasks : pc[t] \in Saved \cup Epilogue => x_mcause[t] # "none"

CInv == IInv /\ CauseInv

\* The hart on which the window of a task is.
Seat(t) == CHOOSE h \in Harts : cur[h] = t

places  == [t \in Tasks |-> IF Within(t) THEN Seat(t) ELSE Idle]
results == [t \in Tasks |-> IF Within(t) THEN "pending"
                            ELSE [cause |-> x_mcause[t], fired |-> sp_fired[t]]]

LEMMA SeatIs ==
    ASSUME SchedInv, NEW t \in Tasks, NEW h \in Harts, cur[h] = t
    PROVE  Seat(t) = h
<1>1. cur[Seat(t)] = t /\ Seat(t) \in Harts
  BY DEF Seat
<1>2. QED BY <1>1, IdleAssumption DEF SchedInv

\* A task in its window is on a hart.
LEMMA Seated ==
    ASSUME SchedInv, NEW t \in Tasks, Within(t)
    PROVE  Seat(t) \in Harts /\ cur[Seat(t)] = t
<1>1. \E h \in Harts : cur[h] = t
  BY DEF SchedInv, Within, TrapLabels, Preemptible
<1>2. QED BY <1>1 DEF Seat

-----------------------------------------------------------------------------
(* Steps the contract does not see. *)

Unseen ==
    /\ \A u \in Tasks : Within(u)' <=> Within(u)
    /\ \A u \in Tasks : Within(u) => \A h \in Harts : cur[h] = u => cur'[h] = u
    /\ strayed' = strayed
    /\ \A u \in Tasks : ~Within(u) => x_mcause'[u] = x_mcause[u] /\ sp_fired'[u] = sp_fired[u]

LEMMA UnseenSteps ==
    ASSUME SchedInv, SchedInv', Unseen
    PROVE  UNCHANGED Contract!vars
<1>1. ASSUME NEW u \in Tasks, Within(u)
      PROVE  Seat(u)' = Seat(u)
  <2>1. Seat(u) \in Harts /\ cur[Seat(u)] = u
    BY <1>1, Seated
  <2> DEFINE k == Seat(u)
  <2> HIDE DEF k
  <2>2. k \in Harts /\ cur'[k] = u
    BY <1>1, <2>1 DEF Unseen, k
  <2>3. (CHOOSE h \in Harts : cur'[h] = u) = k
    BY <2>2, IdleAssumption DEF SchedInv
  <2>4. QED BY <2>3 DEF Seat, k
<1>2. places' = places
  BY <1>1 DEF places, Unseen
<1>3. results' = results
  BY DEF results, Unseen
<1>4. QED BY <1>2, <1>3 DEF Contract!vars, places, results, Seat, Unseen

\* A step of task t between two labels on the same side of the window's edge.
Inside(t, l) ==
    /\ cur' = cur /\ Goto(t, l) /\ strayed' = strayed
    /\ l \in {"user"} \cup TrapLabels <=> Within(t)
    /\ \A u \in Tasks : ~Within(u) \/ u # t =>
         x_mcause'[u] = x_mcause[u] /\ sp_fired'[u] = sp_fired[u]

LEMMA InsideUnseen ==
    ASSUME TypeOK, NEW t \in Tasks, NEW l, Inside(t, l)
    PROVE  Unseen
<1>1. \A u \in Tasks : Within(u)' <=> Within(u)
  BY DEF TypeOK, Inside, Goto, Within
<1>2. QED BY <1>1 DEF Unseen, Inside

\* What a0 and mscratch name is the task's own context.
LEMMA OwnContext ==
    ASSUME IInv, NEW h \in Harts, NEW t \in Tasks, cur[h] = t
    PROVE  /\ pc[t] = "save" => csr[h].mscratch = t
           /\ pc[t] = "verdict" => a0[t] = t
<1>1. Label(h) = pc[t]
  BY IdleAssumption DEF Label
<1>2. CsrInv(h) /\ TaskInv(t)
  BY DEF IInv, HartInv
<1>3. QED BY <1>1, <1>2 DEF CsrInv, TaskInv, InUser

\* The steps that neither open nor close a window nor move the user's sp.
LEMMA QuietSteps ==
    ASSUME IInv, NEW h \in Harts, NEW t \in Tasks, Step(h, t),
           ~EnterMret(h, t), ~TrapMret(h, t), ~UserMoveSp(h, t), ~HostRetire(h, t)
    PROVE  Unseen
<1>1. TypeOK
  BY DEF IInv
<1> USE DEF At, schedVars, resultVars, Within, TrapLabels
<1>2. CASE EnterSaveMstatus(h, t)
  <2>1. Inside(t, "mask")
    BY <1>2 DEF EnterSaveMstatus, Inside
  <2>2. QED BY <1>1, <2>1, InsideUnseen
<1>3. CASE EnterMask(h, t)
  <2>1. Inside(t, "snapshot")
    BY <1>3 DEF EnterMask, Inside
  <2>2. QED BY <1>1, <2>1, InsideUnseen
<1>4. CASE EnterSnapshot(h, t)
  <2>1. Inside(t, "raise")
    BY <1>4 DEF EnterSnapshot, Inside
  <2>2. QED BY <1>1, <2>1, InsideUnseen
<1>5. CASE EnterRaise(h, t)
  <2>1. Inside(t, "stop")
    BY <1>5 DEF EnterRaise, Inside
  <2>2. QED BY <1>1, <2>1, InsideUnseen
<1>6. CASE EnterGuardStop(h, t)
  <2>1. Inside(t, "handover")
    BY <1>6 DEF EnterGuardStop, Inside
  <2>2. QED BY <1>1, <2>1, InsideUnseen
<1>7. CASE EnterGuardHandOver(h, t)
  <2>1. Inside(t, "install")
    BY <1>7 DEF EnterGuardHandOver, Inside
  <2>2. QED BY <1>1, <2>1, InsideUnseen
<1>8. CASE EnterInstall(h, t)
  <2>1. Inside(t, "mcause")
    BY <1>8 DEF EnterInstall, Inside
  <2>2. QED BY <1>1, <2>1, InsideUnseen
<1>9. CASE EnterMcause(h, t)
  <2>1. Inside(t, "mstatus")
    BY <1>9 DEF EnterMcause, Inside
  <2>2. QED BY <1>1, <2>1, InsideUnseen
<1>10. CASE EnterMstatus(h, t)
  <2>1. Inside(t, "load")
    BY <1>10 DEF EnterMstatus, Inside
  <2>2. QED BY <1>1, <2>1, InsideUnseen
<1>11. CASE EnterLoadRegs(h, t)
  <2>1. Inside(t, "arm")
    BY <1>11 DEF EnterLoadRegs, Inside
  <2>2. QED BY <1>1, <2>1, InsideUnseen
<1>12. CASE EnterGuardStart(h, t)
  <2>1. Inside(t, "drop")
    BY <1>12 DEF EnterGuardStart, Inside
  <2>2. QED BY <1>1, <2>1, InsideUnseen
<1>13. CASE UserTrap(h, t)
  <2>1. Inside(t, "save")
    BY <1>13 DEF UserTrap, Inside
  <2>2. QED BY <1>1, <2>1, InsideUnseen
<1>14. CASE TrapSave(h, t)
  <2>1. pc[t] = "save" /\ cur[h] = t
    BY <1>14 DEF TrapSave
  <2>2. csr[h].mscratch = t
    BY <2>1, OwnContext
  <2>3. Inside(t, "unwatch")
    BY <1>1, <1>14, <2>1, <2>2 DEF TrapSave, Inside, TypeOK
  <2>4. QED BY <1>1, <2>3, InsideUnseen
<1>15. CASE TrapGuardStop(h, t)
  <2>1. Inside(t, "verdict")
    BY <1>15 DEF TrapGuardStop, Inside
  <2>2. QED BY <1>1, <2>1, InsideUnseen
<1>16. CASE TrapVerdict(h, t)
  <2>1. pc[t] = "verdict" /\ cur[h] = t
    BY <1>16 DEF TrapVerdict
  <2>2. a0[t] = t
    BY <2>1, OwnContext
  <2>3. Inside(t, "bounds")
    BY <1>1, <1>16, <2>1, <2>2 DEF TrapVerdict, Inside, TypeOK
  <2>4. QED BY <1>1, <2>3, InsideUnseen
<1>17. CASE TrapBounds(h, t)
  <2>1. Inside(t, "unmask")
    BY <1>17 DEF TrapBounds, Inside
  <2>2. QED BY <1>1, <2>1, InsideUnseen
<1>18. CASE TrapUnmask(h, t)
  <2>1. Inside(t, "vectors")
    BY <1>18 DEF TrapUnmask, Inside
  <2>2. QED BY <1>1, <2>1, InsideUnseen
<1>19. CASE TrapVectors(h, t)
  <2>1. Inside(t, "rearm")
    BY <1>19 DEF TrapVectors, Inside
  <2>2. QED BY <1>1, <2>1, InsideUnseen
<1>20. CASE TrapGuardStart(h, t)
  <2>1. Inside(t, "kmcause")
    BY <1>20 DEF TrapGuardStart, Inside
  <2>2. QED BY <1>1, <2>1, InsideUnseen
<1>21. CASE TrapMcause(h, t)
  <2>1. Inside(t, "kmstatus")
    BY <1>21 DEF TrapMcause, Inside
  <2>2. QED BY <1>1, <2>1, InsideUnseen
<1>22. CASE TrapMstatus(h, t)
  <2>1. Inside(t, "return")
    BY <1>22 DEF TrapMstatus, Inside
  <2>2. QED BY <1>1, <2>1, InsideUnseen
<1>23. CASE Resume(h, t)
  <2>1. Inside(t, "decide")
    BY <1>23 DEF Resume, Inside
  <2>2. QED BY <1>1, <2>1, InsideUnseen
<1>24. CASE HostResume(h, t)
  <2>1. Inside(t, "call")
    BY <1>24 DEF HostResume, Inside
  <2>2. QED BY <1>1, <2>1, InsideUnseen
<1>25. CASE UserClobberGp(h, t) \/ UserFp(h, t)
  BY <1>25 DEF UserClobberGp, UserFp, Unseen
<1>26. QED
  BY <1>2, <1>3, <1>4, <1>5, <1>6, <1>7, <1>8, <1>9, <1>10, <1>11, <1>12, <1>13,
     <1>14, <1>15, <1>16, <1>17, <1>18, <1>19, <1>20, <1>21, <1>22, <1>23, <1>24, <1>25
  DEF Step, Enter, User, Trap, Host

\* So are what happens outside umode.S and the end of a host task.
LEMMA OutsideUnseen ==
    ASSUME IInv,
           \/ UNCHANGED vars \/ Boot
           \/ \E h \in Harts : External(h) \/ \E t \in Tasks : HostRetire(h, t)
    PROVE  Unseen
<1> USE DEF schedVars, resultVars
<1>1. CASE UNCHANGED vars \/ Boot
  BY <1>1 DEF vars, Boot, Unseen, Within
<1>2. ASSUME NEW h \in Harts, Raise(h) \/ KernelOverflow(h)
      PROVE  Unseen
  BY <1>2 DEF Raise, KernelOverflow, Unseen, Within
<1>3. ASSUME NEW h \in Harts, NEW x \in Owners, Interrupt(h, x)
      PROVE  Unseen
  <2>1. Label(h) \in Resting
    BY <1>3 DEF Interrupt, Interrupted, Open, IInv, HartInv, ModeInv
  <2>2. \A u \in Tasks : Within(u) => cur[h] # u
    BY <2>1, IdleAssumption DEF Label, Resting, Within, TrapLabels
  <2>3. QED BY <1>3, <2>2 DEF Interrupt, Dispatch, IInv, TypeOK, Unseen, Within
<1>4. ASSUME NEW h \in Harts, NEW t \in Tasks, HostRetire(h, t)
      PROVE  Unseen
  <2>1. cur[h] = t /\ pc[t] = "decide" /\ pc' = [pc EXCEPT ![t] = "retired"]
    BY <1>4 DEF HostRetire, At, Goto
  <2>2. \A u \in Tasks : Within(u)' <=> Within(u)
    BY <2>1 DEF IInv, TypeOK, Within, TrapLabels
  <2>3. \A u \in Tasks : Within(u) => u # t
    BY <2>1 DEF Within, TrapLabels
  <2>4. QED
    BY <1>4, <2>1, <2>2, <2>3 DEF HostRetire, Dispatch, IInv, TypeOK, Unseen
<1>5. QED BY <1>1, <1>2, <1>3, <1>4 DEF External

-----------------------------------------------------------------------------
(* The three steps the contract sees. *)

LEMMA Strays ==
    ASSUME IInv, IInv', NEW h \in Harts, NEW t \in Tasks, UserMoveSp(h, t)
    PROVE  [Contract!Next]_(Contract!vars)
<1>1. PICK s \in {"arena", "outside"} : strayed' = [strayed EXCEPT ![t] = @ \/ s = "outside"]
  BY DEF UserMoveSp
<1>2. cur[h] = t /\ pc[t] = "user" /\ pc' = pc /\ cur' = cur
      /\ x_mcause' = x_mcause /\ sp_fired' = sp_fired
  BY DEF UserMoveSp, At, schedVars, resultVars
<1>3. places' = places /\ results' = results
  BY <1>2 DEF places, results, Seat, Within
<1>4. CASE s = "outside"
  <2>1. Within(t) /\ places[t] = h
    BY <1>2, SeatIs DEF IInv, Within, places
  <2>2. strayed' = [strayed EXCEPT ![t] = TRUE]
    BY <1>1, <1>4 DEF IInv, TypeOK
  <2>3. Contract!Stray(t)
    BY <1>3, <2>1, <2>2, NoHartAssumption DEF Contract!Stray, places, results, Seat
  <2>4. QED BY <2>3 DEF Contract!Next
<1>5. CASE s = "arena"
  <2>1. strayed' = [strayed EXCEPT ![t] = @]
    BY <1>1, <1>5 DEF IInv, TypeOK
  <2>2. strayed' = strayed
    BY <2>1 DEF IInv, TypeOK
  <2>3. QED BY <1>3, <2>2 DEF Contract!vars, places, results, Seat
<1>6. QED BY <1>1, <1>4, <1>5

\* What a step that moves one task over the window's edge leaves of the rest.
Crossing(t) ==
    /\ cur' = cur
    /\ \A u \in Tasks \ {t} : pc'[u] = pc[u]
    /\ x_mcause' = x_mcause /\ sp_fired' = sp_fired

LEMMA CrossingLeaves ==
    ASSUME NEW t \in Tasks, Crossing(t)
    PROVE  \A u \in Tasks \ {t} : places'[u] = places[u] /\ results'[u] = results[u]
  BY DEF Crossing, places, results, Seat, Within

LEMMA Opens ==
    ASSUME IInv, IInv', NEW h \in Harts, NEW t \in Tasks, EnterMret(h, t)
    PROVE  [Contract!Next]_(Contract!vars)
<1>1. cur[h] = t /\ pc[t] = "drop" /\ pc' = [pc EXCEPT ![t] = "user"]
      /\ strayed' = [strayed EXCEPT ![t] = sp[t] # "arena"]
  BY DEF EnterMret, At, Goto
<1>2. Crossing(t)
  BY <1>1 DEF EnterMret, Crossing, schedVars, resultVars, IInv, TypeOK
<1>3. pc'[t] = "user" /\ cur'[h] = t
  BY <1>1, <1>2 DEF IInv, TypeOK, Crossing
<1>4. ~Within(t) /\ Within(t)'
  BY <1>1, <1>3 DEF Within, TrapLabels
<1>5. Seat(t)' = h
  <2>1. (CHOOSE k \in Harts : cur'[k] = t) = h
    BY <1>3, IdleAssumption DEF IInv, SchedInv
  <2>2. QED BY <2>1 DEF Seat
<1>6. places[t] = Idle /\ places' = [places EXCEPT ![t] = h]
  <2>1. places[t] = Idle /\ places'[t] = h
    BY <1>4, <1>5 DEF places
  <2>2. QED BY <1>2, <2>1, CrossingLeaves DEF places
<1>7. results' = [results EXCEPT ![t] = "pending"]
  <2>1. results'[t] = "pending"
    BY <1>4 DEF results
  <2>2. QED BY <1>2, <2>1, CrossingLeaves DEF results
<1>8. \A u \in Tasks : places[u] # h
  <2> SUFFICES ASSUME NEW u \in Tasks, places[u] = h
               PROVE  FALSE
    OBVIOUS
  <2>1. Within(u) /\ Seat(u) = h
    BY NoHartAssumption DEF places
  <2>2. cur[h] = u
    BY <2>1, Seated DEF IInv
  <2>3. QED BY <1>1, <1>4, <2>1, <2>2
<1>9. strayed' = [strayed EXCEPT ![t] = FALSE]
  <2>1. sp[t] = "arena"
    BY <1>1 DEF IInv, TaskInv
  <2>2. QED BY <1>1, <2>1
<1>10. Contract!Open(t, h)
  BY <1>6, <1>7, <1>8, <1>9 DEF Contract!Open, places, results, Seat
<1>11. QED BY <1>10 DEF Contract!Next

LEMMA Closes ==
    ASSUME CInv, IInv', NEW h \in Harts, NEW t \in Tasks, TrapMret(h, t)
    PROVE  [Contract!Next]_(Contract!vars)
<1>1. cur[h] = t /\ pc[t] = "return" /\ pc' = [pc EXCEPT ![t] = "resume"]
      /\ strayed' = strayed
  BY DEF TrapMret, At, Goto
<1>2. Crossing(t)
  BY <1>1 DEF TrapMret, Crossing, schedVars, resultVars, CInv, IInv, TypeOK
<1>3. Within(t) /\ ~Within(t)'
  BY <1>1 DEF Within, TrapLabels, CInv, IInv, TypeOK
<1>4. places[t] # Idle /\ places' = [places EXCEPT ![t] = Idle]
  <2>1. places[t] = h /\ places'[t] = Idle
    BY <1>1, <1>3, SeatIs DEF places, CInv, IInv
  <2>2. QED BY <1>2, <2>1, CrossingLeaves, NoHartAssumption DEF places
<1>5. results' = [results EXCEPT ![t] = [cause |-> x_mcause[t], fired |-> strayed[t]]]
  <2>1. sp_fired[t] = strayed[t]
    BY <1>1 DEF CInv, IInv, VerdictExact
  <2>2. results'[t] = [cause |-> x_mcause[t], fired |-> strayed[t]]
    BY <1>2, <1>3, <2>1 DEF results, Crossing
  <2>3. QED BY <1>2, <2>2, CrossingLeaves DEF results
<1>6. x_mcause[t] \in Contract!Causes
  BY <1>1 DEF CInv, CauseInv, Epilogue, IInv, TypeOK, Causes, Contract!Causes
<1>7. Contract!Close(t)
  BY <1>1, <1>4, <1>5, <1>6 DEF Contract!Close, places, results, Seat
<1>8. QED BY <1>7 DEF Contract!Next

-----------------------------------------------------------------------------
(* Traps have causes *)

LEMMA CauseStep ==
    ASSUME CInv, IInv', [Next]_vars
    PROVE  CauseInv'
<1>1. TypeOK /\ SchedInv /\ HartInv
  BY DEF CInv, IInv
\* The hart that takes a trap writes its cause first.
<1>2. ASSUME NEW h \in Harts, Label(h)' = "save"
      PROVE  cause'[h] # "none"
  <2>1. cur'[h] \in Tasks /\ pc'[cur'[h]] = "save"
    BY <1>2 DEF CInv, IInv, TypeOK, Owners, Label
  <2>2. CASE Label(h) = "save" /\ cause' = cause
    BY <2>2 DEF CInv, CauseInv
  <2>3. ASSUME NEW g \in Harts, NEW t \in Tasks, UserTrap(g, t)
        PROVE  cause'[h] # "none"
    <3>1. CASE g = h
      <4>1. PICK c \in {"interrupt", "ecall", "fault"} : cause' = [cause EXCEPT ![g] = c]
        BY <2>3 DEF UserTrap
      <4>2. QED BY <1>1, <3>1, <4>1 DEF TypeOK
    <3>2. CASE g # h
      <4>1. cur[g] = t /\ cur' = cur /\ pc' = [pc EXCEPT ![t] = "save"]
        BY <2>3 DEF UserTrap, schedVars, Goto
      <4>2. cur[h] # t /\ cur[h] \in Tasks
        BY <1>1, <2>1, <3>2, <4>1, IdleAssumption DEF SchedInv
      <4>3. Label(h) = "save"
        BY <1>1, <2>1, <4>1, <4>2, IdleAssumption DEF TypeOK, Label
      <4>4. cause'[h] = cause[h]
        BY <1>1, <2>3, <3>2 DEF UserTrap, TypeOK
      <4>5. QED BY <4>3, <4>4 DEF CInv, CauseInv
    <3>3. QED BY <3>1, <3>2
  <2>4. ASSUME NEW g \in Harts, NEW t \in Tasks, EnterMcause(g, t) \/ TrapMcause(g, t)
        PROVE  cause'[h] # "none"
    <3>1. /\ cur[g] = t /\ cur' = cur /\ pc[t] # "save" /\ cause' = [cause EXCEPT ![g] = "none"]
          /\ pc' = [pc EXCEPT ![t] = "mstatus"] \/ pc' = [pc EXCEPT ![t] = "kmstatus"]
      BY <2>4 DEF EnterMcause, TrapMcause, At, schedVars, Goto
    <3>2. h # g
      BY <1>1, <2>1, <3>1 DEF TypeOK
    <3>3. cur[h] # t /\ cur[h] \in Tasks
      BY <1>1, <2>1, <3>1, <3>2, IdleAssumption DEF SchedInv
    <3>4. Label(h) = "save" /\ cause'[h] = cause[h]
      BY <1>1, <2>1, <3>1, <3>2, <3>3, IdleAssumption DEF TypeOK, Label
    <3>5. QED BY <3>4 DEF CInv, CauseInv
  <2>5. ASSUME NEW g \in Harts, NEW t \in Tasks, Step(g, t), ~UserTrap(g, t),
               ~EnterMcause(g, t), ~TrapMcause(g, t), ~HostRetire(g, t)
        PROVE  cause'[h] # "none"
    <3>1. cause' = cause /\ cur' = cur
      BY <2>5 DEF Step, Enter, User, Trap, Host, EnterSaveMstatus, EnterMask,
         EnterSnapshot, EnterRaise, EnterGuardStop, EnterGuardHandOver, EnterInstall,
         EnterMstatus, EnterLoadRegs, EnterGuardStart, EnterMret,
         UserMoveSp, UserClobberGp, UserFp, TrapSave, TrapGuardStop, TrapVerdict,
         TrapBounds, TrapUnmask, TrapVectors, TrapGuardStart,
         TrapMstatus, TrapMret, Resume, HostResume, schedVars
    <3>2. pc' = pc \/ \E l \in PC \ {"save"} : pc' = [pc EXCEPT ![t] = l]
      BY <2>5 DEF Step, Enter, User, Trap, Host, EnterSaveMstatus, EnterMask,
         EnterSnapshot, EnterRaise, EnterGuardStop, EnterGuardHandOver, EnterInstall,
         EnterMstatus, EnterLoadRegs, EnterGuardStart, EnterMret,
         UserMoveSp, UserClobberGp, UserFp, TrapSave, TrapGuardStop, TrapVerdict,
         TrapBounds, TrapUnmask, TrapVectors, TrapGuardStart,
         TrapMstatus, TrapMret, Resume, HostResume, Goto, PC
    <3>3. Label(h) = "save"
      BY <1>1, <2>1, <3>1, <3>2, IdleAssumption DEF TypeOK, Label
    <3>4. QED BY <3>1, <3>3 DEF CInv, CauseInv
  <2>6. ASSUME NEW g \in Harts, NEW x \in Owners, Dispatch(g, x), cause' = cause,
               pc' = pc \/ \E t \in Tasks : pc' = [pc EXCEPT ![t] = "retired"],
               x = Idle \/ x = cur[g] \/ pc[x] \in Preemptible
        PROVE  cause'[h] # "none"
    <3>1. pc[cur'[h]] = "save"
      BY <1>1, <2>1, <2>6 DEF TypeOK
    <3>2. cur'[h] = cur[h]
      BY <1>1, <2>1, <2>6, <3>1, IdleAssumption DEF Dispatch, TypeOK, Preemptible
    <3>3. Label(h) = "save"
      BY <2>1, <3>1, <3>2, IdleAssumption DEF Label
    <3>4. QED BY <2>6, <3>3 DEF CInv, CauseInv
  <2>7. ASSUME NEW g \in Harts, NEW x \in Owners, Interrupt(g, x)
        PROVE  cause'[h] # "none"
    <3>1. x = Idle \/ x = cur[g] \/ pc[x] \in Preemptible
      BY <1>1, <2>7 DEF Interrupt, Ready, SchedInv
    <3>2. QED BY <2>6, <2>7, <3>1 DEF Interrupt
  <2>8. ASSUME NEW g \in Harts, NEW t \in Tasks, HostRetire(g, t)
        PROVE  cause'[h] # "none"
    BY <2>6, <2>8 DEF HostRetire, Owners, Goto
  <2>9. ASSUME NEW g \in Harts, Raise(g) \/ KernelOverflow(g) \/ Boot \/ UNCHANGED vars
        PROVE  cause'[h] # "none"
    BY <1>2, <2>9 DEF Raise, KernelOverflow, Boot, vars, schedVars, Label, CInv, CauseInv
  <2>10. QED
    BY <1>2, <2>3, <2>4, <2>5, <2>7, <2>8, <2>9 DEF Next, External
\* The prologue of the trap path puts it in the context, where it stays.
<1>3. ASSUME NEW u \in Tasks, pc'[u] \in Saved \cup Epilogue
      PROVE  x_mcause'[u] # "none"
  <2>1. ASSUME NEW g \in Harts, NEW t \in Tasks, TrapSave(g, t)
        PROVE  x_mcause'[u] # "none"
    <3>1. cur[g] = t /\ pc[t] = "save" /\ csr[g].mscratch = t
      <4>1. cur[g] = t /\ pc[t] = "save"
        BY <2>1 DEF TrapSave, At
      <4>2. QED BY <4>1, OwnContext DEF CInv
    <3>2. x_mcause' = [x_mcause EXCEPT ![t] = cause[g]] /\ pc' = [pc EXCEPT ![t] = "unwatch"]
      BY <2>1, <3>1 DEF TrapSave, Goto
    <3>3. cause[g] # "none"
      BY <3>1, IdleAssumption DEF CInv, CauseInv, Label
    <3>4. QED BY <1>1, <1>3, <3>2, <3>3 DEF CInv, CauseInv, TypeOK
  <2>2. ASSUME NEW g \in Harts, NEW t \in Tasks, Step(g, t), ~TrapSave(g, t)
        PROVE  x_mcause'[u] # "none"
    <3>1. x_mcause' = x_mcause
      BY <2>2 DEF Step, Enter, User, Trap, Host, EnterSaveMstatus, EnterMask,
         EnterSnapshot, EnterRaise, EnterGuardStop, EnterGuardHandOver, EnterInstall,
         EnterMcause, EnterMstatus, EnterLoadRegs, EnterGuardStart, EnterMret,
         UserMoveSp, UserClobberGp, UserFp, UserTrap, TrapGuardStop, TrapVerdict,
         TrapBounds, TrapUnmask, TrapVectors, TrapGuardStart, TrapMcause,
         TrapMstatus, TrapMret, Resume, HostResume, HostRetire, resultVars
    <3>2. \/ pc' = pc
          \/ \E l \in PC \ (Saved \cup Epilogue) : pc' = [pc EXCEPT ![t] = l]
          \/ pc[t] \in Saved \cup Epilogue /\ \E l \in PC : pc' = [pc EXCEPT ![t] = l]
      <4>1. CASE Enter(g, t) \/ User(g, t) \/ Host(g, t)
        BY <4>1 DEF Enter, User, Host, EnterSaveMstatus, EnterMask,
           EnterSnapshot, EnterRaise, EnterGuardStop, EnterGuardHandOver, EnterInstall,
           EnterMcause, EnterMstatus, EnterLoadRegs, EnterGuardStart, EnterMret,
           UserMoveSp, UserClobberGp, UserFp, UserTrap, Resume, HostResume, HostRetire,
           Goto, PC, Saved, Epilogue
      <4>2. CASE Trap(g, t)
        BY <2>2, <4>2 DEF Trap, TrapGuardStop, TrapVerdict, TrapBounds, TrapUnmask,
           TrapVectors, TrapGuardStart, TrapMcause, TrapMstatus, TrapMret, At, Goto,
           PC, Saved, Epilogue
      <4>3. QED BY <2>2, <4>1, <4>2 DEF Step
    <3>3. pc[u] \in Saved \cup Epilogue
      BY <1>1, <1>3, <3>2 DEF TypeOK
    <3>4. QED BY <3>1, <3>3 DEF CInv, CauseInv
  <2>3. ASSUME NEW g \in Harts, External(g) \/ Boot \/ UNCHANGED vars
        PROVE  x_mcause'[u] # "none"
    BY <1>3, <2>3 DEF External, Interrupt, Raise, KernelOverflow, Boot, vars, resultVars,
       CInv, CauseInv
  <2>4. QED BY <1>3, <2>1, <2>2, <2>3, HartsAssumption DEF Next
<1>4. QED BY <1>2, <1>3 DEF CauseInv

LEMMA CInvStep == CInv /\ [Next]_vars => CInv'
<1> SUFFICES ASSUME CInv, [Next]_vars
             PROVE  CInv'
  OBVIOUS
<1>1. IInv'
  BY NextInv DEF CInv
<1>2. QED BY <1>1, CauseStep DEF CInv

LEMMA CInvInit == Init => CInv
<1>1. Init => CauseInv
  BY IdleAssumption DEF Init, CauseInv, Label, Saved, Epilogue
<1>2. QED BY <1>1, InitInv DEF CInv

-----------------------------------------------------------------------------
LEMMA ContractStep ==
    ASSUME CInv, IInv', [Next]_vars
    PROVE  [Contract!Next]_(Contract!vars)
<1>1. ASSUME Unseen
      PROVE  UNCHANGED Contract!vars
  BY <1>1, UnseenSteps DEF CInv, IInv
<1>2. ASSUME NEW h \in Harts, NEW t \in Tasks, Step(h, t), ~HostRetire(h, t)
      PROVE  [Contract!Next]_(Contract!vars)
  BY <1>1, <1>2, QuietSteps, Strays, Opens, Closes DEF CInv
<1>3. CASE \/ UNCHANGED vars \/ Boot
           \/ \E h \in Harts : External(h) \/ \E t \in Tasks : HostRetire(h, t)
  BY <1>1, <1>3, OutsideUnseen DEF CInv
<1>4. QED BY <1>2, <1>3 DEF Next

\* Whatever the scheduler and the users do, a window stays on one core from the
\* mret that opens it to the mret that closes it, alone there, and the host
\* loop finds a cause, and sp_fired exactly if the user left its arena.
THEOREM ContractIsKept == Spec => Contract!Safety
<1>1. Init => Contract!Init
  <2> SUFFICES ASSUME Init
               PROVE  Contract!Init
    OBVIOUS
  <2>1. \A t \in Tasks : ~Within(t)
    BY DEF Init, Within, TrapLabels
  <2>2. \A t \in Tasks : x_mcause[t] = "none" /\ sp_fired[t] = FALSE
    BY DEF Init
  <2>3. places = [t \in Tasks |-> Idle]
    BY <2>1 DEF places
  <2>4. results = [t \in Tasks |-> [cause |-> "none", fired |-> FALSE]]
    BY <2>1, <2>2 DEF results
  <2>5. strayed = [t \in Tasks |-> FALSE]
    BY DEF Init
  <2>6. QED BY <2>3, <2>4, <2>5 DEF Contract!Init, places, results, Seat
<1>2. CInv /\ CInv' /\ [Next]_vars => [Contract!Next]_(Contract!vars)
  BY ContractStep DEF CInv
<1>3. QED BY <1>1, <1>2, CInvInit, CInvStep, PTL DEF Spec, Contract!Safety
=============================================================================
