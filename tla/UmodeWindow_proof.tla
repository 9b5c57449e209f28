------------------------- MODULE UmodeWindow_proof -------------------------
(* Proofs about UmodeWindow, for any number of harts and windows. *)
EXTENDS UmodeWindow, TLAPS

\* The facts about one hart, and about one task, that a step elsewhere keeps.
HartFacts(g) == ModeInv(g) /\ CsrInv(g) /\ GuardInv(g) /\ ParkedInv(g)

SameHart(g) ==
    /\ cur'[g] = cur[g] /\ mode'[g] = mode[g] /\ mie'[g] = mie[g]
    /\ prev'[g] = prev[g] /\ csr'[g] = csr[g]
    /\ thresh'[g] = thresh[g] /\ masked'[g] = masked[g]
    /\ on'[g] = on[g] /\ bnd'[g] = bnd[g] /\ raw'[g] = raw[g]

SameTask(u) ==
    /\ pc'[u] = pc[u] /\ sp'[u] = sp[u] /\ a0'[u] = a0[u]
    /\ k_mstatus'[u] = k_mstatus[u] /\ k_csr'[u] = k_csr[u]
    /\ k_thresh'[u] = k_thresh[u] /\ k_bounds'[u] = k_bounds[u]
    /\ x_sp'[u] = x_sp[u] /\ sp_fired'[u] = sp_fired[u]
    /\ strayed'[u] = strayed[u]

\* A step of task t on hart h that ends at label l: nothing of another hart
\* or another task changes.
LocalStep(h, t, l) ==
    /\ cur[h] = t
    /\ UNCHANGED schedVars
    /\ Goto(t, l)
    /\ \A g \in Harts \ {h} : SameHart(g)
    /\ \A u \in Tasks \ {t} : SameTask(u)

\* A local step keeps the scheduler's invariant and every other label.
LEMMA LocalLabels ==
    ASSUME TypeOK, SchedInv, NEW h \in Harts, NEW t \in Tasks,
           NEW l \in PC, l # "retired", LocalStep(h, t, l)
    PROVE  /\ Label(h) = pc[t] /\ Label(h)' = l
           /\ \A g \in Harts \ {h} : Label(g)' = Label(g) /\ cur[g] # t
           /\ SchedInv'
<1>1. Label(h) = pc[t] /\ Label(h)' = l
  BY IdleAssumption DEF Label, LocalStep, schedVars, Goto, TypeOK
<1>2. ASSUME NEW g \in Harts \ {h}
      PROVE  Label(g)' = Label(g) /\ cur[g] # t
  BY <1>2, IdleAssumption DEF Label, LocalStep, schedVars, Goto, TypeOK, SchedInv, Owners
<1>3. SchedInv'
  <2>1. (\A g, k \in Harts : cur[g] = cur[k] => g = k \/ cur[g] = Idle)'
    BY DEF SchedInv, LocalStep, schedVars
  <2>2. (\A u \in Tasks : pc[u] \notin Preemptible => \E k \in Harts : cur[k] = u)'
    BY DEF SchedInv, LocalStep, schedVars, Goto, TypeOK
  <2>3. (\A k \in Harts : Label(k) # "retired")'
    BY <1>1, <1>2 DEF SchedInv
  <2>4. QED BY <2>1, <2>2, <2>3 DEF SchedInv, LocalStep, schedVars
<1>4. QED BY <1>1, <1>2, <1>3

\* A local step keeps the facts about every other hart and task, so what is
\* left to show is about hart h and task t alone.
LEMMA LocalInvariant ==
    ASSUME IInv, NEW h \in Harts, NEW t \in Tasks,
           NEW l \in PC, l # "retired", LocalStep(h, t, l),
           TypeOK', HartFacts(h)', TaskInv(t)',
           l \in {"bounds", "unmask", "vectors", "rearm", "kmcause", "kmstatus",
                  "return", "resume", "decide"} => sp_fired'[t] = strayed'[t]
    PROVE  IInv'
<1>1. /\ Label(h) = pc[t] /\ Label(h)' = l
      /\ \A g \in Harts \ {h} : Label(g)' = Label(g) /\ cur[g] # t
      /\ SchedInv'
  BY LocalLabels DEF IInv
<1>2. ASSUME NEW g \in Harts \ {h}
      PROVE  HartFacts(g)'
  <2>1. HartFacts(g) /\ SameHart(g) /\ Label(g)' = Label(g)
    BY <1>1, <1>2 DEF IInv, HartInv, HartFacts, LocalStep
  <2>2. cur[g] = Idle \/ SameTask(cur[g])
    BY <1>1, <1>2 DEF IInv, TypeOK, Owners, LocalStep
  <2>3. ModeInv(g)'
    BY <2>1 DEF ModeInv, HartFacts, SameHart
  <2>4. CsrInv(g)'
    BY <2>1 DEF CsrInv, HartFacts, SameHart, Home
  <2>5. CASE cur[g] = Idle
    <3>1. Label(g) = "idle"
      BY <2>5 DEF Label
    <3>2. GuardInv(g)' /\ ParkedInv(g)'
      BY <2>1, <3>1 DEF GuardInv, ParkedInv, HartFacts, SameHart, InUser, Installed,
         Saved, Epilogue, MaskedLabels, ArenaLabels, WatchedLabels, Resting
    <3>3. QED BY <2>3, <2>4, <3>2 DEF HartFacts
  <2>6. CASE SameTask(cur[g])
    BY <2>1, <2>3, <2>4, <2>6 DEF GuardInv, ParkedInv, HartFacts, SameHart, SameTask, Home
  <2>7. QED BY <2>2, <2>5, <2>6
<1>3. HartInv'
  BY <1>2 DEF HartInv, HartFacts
<1>4. ASSUME NEW u \in Tasks
      PROVE  TaskInv(u)'
  <2>1. CASE u = t
    BY <2>1
  <2>2. CASE u # t
    BY <2>2 DEF IInv, TaskInv, LocalStep, SameTask
  <2>3. QED BY <2>1, <2>2
<1>5. VerdictExact'
  BY DEF IInv, TypeOK, VerdictExact, LocalStep, SameTask, Goto
<1>6. QED BY <1>1, <1>3, <1>4, <1>5 DEF IInv

-----------------------------------------------------------------------------
LEMMA EnterSaveMstatusInv ==
    ASSUME IInv, NEW h \in Harts, NEW t \in Tasks, EnterSaveMstatus(h, t)
    PROVE  IInv'
<1> USE DEF EnterSaveMstatus, Goto, schedVars, modeVars, csrVars, guardVars, regVars,
            parkedVars, resultVars
<1>1. /\ TypeOK /\ SchedInv /\ HartFacts(h) /\ TaskInv(t) /\ VerdictExact
      /\ cur[h] = t /\ pc[t] = "call" /\ Label(h) = "call"
  BY IdleAssumption DEF IInv, HartInv, HartFacts, At, Label
<1>2. a0[t] = t
  BY <1>1 DEF TaskInv, InUser
<1>3. LocalStep(h, t, "mask")
  BY <1>1, <1>2 DEF LocalStep, SameHart, SameTask, TypeOK
<1>4. TypeOK'
  BY <1>1, <1>2 DEF TypeOK, Csr, Prev, Mstatus, Bounds, Causes, PC, Word, Owners
<1>5. Label(h)' = "mask"
  BY <1>1, <1>3, LocalLabels DEF PC
<1> USE DEF TypeOK, Resting, Prologue, Installed, InUser, Saved, Epilogue,
            MaskedLabels, WatchedLabels, ArenaLabels
<1>6. HartFacts(h)'
  BY <1>1, <1>2, <1>5 DEF HartFacts, ModeInv, CsrInv, GuardInv, ParkedInv, TaskInv, Home
<1>7. TaskInv(t)'
  BY <1>1, <1>2 DEF TaskInv, VerdictExact, HartFacts, ModeInv
<1>8. QED BY <1>3, <1>4, <1>6, <1>7, LocalInvariant DEF PC

LEMMA EnterMaskInv ==
    ASSUME IInv, NEW h \in Harts, NEW t \in Tasks, EnterMask(h, t)
    PROVE  IInv'
<1> USE DEF EnterMask, Goto, schedVars, modeVars, csrVars, guardVars, regVars,
            parkedVars, resultVars
<1>1. /\ TypeOK /\ SchedInv /\ HartFacts(h) /\ TaskInv(t) /\ VerdictExact
      /\ cur[h] = t /\ pc[t] = "mask" /\ Label(h) = "mask"
  BY IdleAssumption DEF IInv, HartInv, HartFacts, At, Label
<1>2. a0[t] = t
  BY <1>1 DEF TaskInv, InUser
<1>3. LocalStep(h, t, "snapshot")
  BY <1>1, <1>2 DEF LocalStep, SameHart, SameTask, TypeOK
<1>4. TypeOK'
  BY <1>1, <1>2 DEF TypeOK, Csr, Prev, Mstatus, Bounds, Causes, PC, Word, Owners
<1>5. Label(h)' = "snapshot"
  BY <1>1, <1>3, LocalLabels DEF PC
<1> USE DEF TypeOK, Resting, Prologue, Installed, InUser, Saved, Epilogue,
            MaskedLabels, WatchedLabels, ArenaLabels
<1>6. HartFacts(h)'
  BY <1>1, <1>2, <1>5 DEF HartFacts, ModeInv, CsrInv, GuardInv, ParkedInv, TaskInv, Home
<1>7. TaskInv(t)'
  BY <1>1, <1>2 DEF TaskInv, VerdictExact, HartFacts, ModeInv
<1>8. QED BY <1>3, <1>4, <1>6, <1>7, LocalInvariant DEF PC

LEMMA EnterSnapshotInv ==
    ASSUME IInv, NEW h \in Harts, NEW t \in Tasks, EnterSnapshot(h, t)
    PROVE  IInv'
<1> USE DEF EnterSnapshot, Goto, schedVars, modeVars, csrVars, guardVars, regVars,
            parkedVars, resultVars
<1>1. /\ TypeOK /\ SchedInv /\ HartFacts(h) /\ TaskInv(t) /\ VerdictExact
      /\ cur[h] = t /\ pc[t] = "snapshot" /\ Label(h) = "snapshot"
  BY IdleAssumption DEF IInv, HartInv, HartFacts, At, Label
<1>2. a0[t] = t
  BY <1>1 DEF TaskInv, InUser
<1>3. LocalStep(h, t, "raise")
  BY <1>1, <1>2 DEF LocalStep, SameHart, SameTask, TypeOK
<1>4. TypeOK'
  BY <1>1, <1>2 DEF TypeOK, Csr, Prev, Mstatus, Bounds, Causes, PC, Word, Owners
<1>5. Label(h)' = "raise"
  BY <1>1, <1>3, LocalLabels DEF PC
<1> USE DEF TypeOK, Resting, Prologue, Installed, InUser, Saved, Epilogue,
            MaskedLabels, WatchedLabels, ArenaLabels
<1>6. HartFacts(h)'
  BY <1>1, <1>2, <1>5 DEF HartFacts, ModeInv, CsrInv, GuardInv, ParkedInv, TaskInv, Home
<1>7. TaskInv(t)'
  BY <1>1, <1>2 DEF TaskInv, VerdictExact, HartFacts, ModeInv
<1>8. QED BY <1>3, <1>4, <1>6, <1>7, LocalInvariant DEF PC

LEMMA EnterRaiseInv ==
    ASSUME IInv, NEW h \in Harts, NEW t \in Tasks, EnterRaise(h, t)
    PROVE  IInv'
<1> USE DEF EnterRaise, Goto, schedVars, modeVars, csrVars, guardVars, regVars,
            parkedVars, resultVars
<1>1. /\ TypeOK /\ SchedInv /\ HartFacts(h) /\ TaskInv(t) /\ VerdictExact
      /\ cur[h] = t /\ pc[t] = "raise" /\ Label(h) = "raise"
  BY IdleAssumption DEF IInv, HartInv, HartFacts, At, Label
<1>2. a0[t] = t
  BY <1>1 DEF TaskInv, InUser
<1>3. LocalStep(h, t, "stop")
  BY <1>1, <1>2 DEF LocalStep, SameHart, SameTask, TypeOK
<1>4. TypeOK'
  BY <1>1, <1>2 DEF TypeOK, Csr, Prev, Mstatus, Bounds, Causes, PC, Word, Owners
<1>5. Label(h)' = "stop"
  BY <1>1, <1>3, LocalLabels DEF PC
<1> USE DEF TypeOK, Resting, Prologue, Installed, InUser, Saved, Epilogue,
            MaskedLabels, WatchedLabels, ArenaLabels
<1>6. HartFacts(h)'
  BY <1>1, <1>2, <1>5 DEF HartFacts, ModeInv, CsrInv, GuardInv, ParkedInv, TaskInv, Home
<1>7. TaskInv(t)'
  BY <1>1, <1>2 DEF TaskInv, VerdictExact, HartFacts, ModeInv
<1>8. QED BY <1>3, <1>4, <1>6, <1>7, LocalInvariant DEF PC

LEMMA EnterGuardStopInv ==
    ASSUME IInv, NEW h \in Harts, NEW t \in Tasks, EnterGuardStop(h, t)
    PROVE  IInv'
<1> USE DEF EnterGuardStop, Goto, schedVars, modeVars, csrVars, guardVars, regVars,
            parkedVars, resultVars
<1>1. /\ TypeOK /\ SchedInv /\ HartFacts(h) /\ TaskInv(t) /\ VerdictExact
      /\ cur[h] = t /\ pc[t] = "stop" /\ Label(h) = "stop"
  BY IdleAssumption DEF IInv, HartInv, HartFacts, At, Label
<1>2. a0[t] = t
  BY <1>1 DEF TaskInv, InUser
<1>3. LocalStep(h, t, "handover")
  BY <1>1, <1>2 DEF LocalStep, SameHart, SameTask, TypeOK
<1>4. TypeOK'
  BY <1>1, <1>2 DEF TypeOK, Csr, Prev, Mstatus, Bounds, Causes, PC, Word, Owners
<1>5. Label(h)' = "handover"
  BY <1>1, <1>3, LocalLabels DEF PC
<1> USE DEF TypeOK, Resting, Prologue, Installed, InUser, Saved, Epilogue,
            MaskedLabels, WatchedLabels, ArenaLabels
<1>6. HartFacts(h)'
  BY <1>1, <1>2, <1>5 DEF HartFacts, ModeInv, CsrInv, GuardInv, ParkedInv, TaskInv, Home
<1>7. TaskInv(t)'
  BY <1>1, <1>2 DEF TaskInv, VerdictExact, HartFacts, ModeInv
<1>8. QED BY <1>3, <1>4, <1>6, <1>7, LocalInvariant DEF PC

LEMMA EnterGuardHandOverInv ==
    ASSUME IInv, NEW h \in Harts, NEW t \in Tasks, EnterGuardHandOver(h, t)
    PROVE  IInv'
<1> USE DEF EnterGuardHandOver, Watch, Goto, schedVars, modeVars, csrVars, guardVars, regVars,
            parkedVars, resultVars
<1>1. /\ TypeOK /\ SchedInv /\ HartFacts(h) /\ TaskInv(t) /\ VerdictExact
      /\ cur[h] = t /\ pc[t] = "handover" /\ Label(h) = "handover"
  BY IdleAssumption DEF IInv, HartInv, HartFacts, At, Label
<1>2. a0[t] = t
  BY <1>1 DEF TaskInv, InUser
<1>3. LocalStep(h, t, "install")
  BY <1>1, <1>2 DEF LocalStep, SameHart, SameTask, TypeOK
<1>4. TypeOK'
  BY <1>1, <1>2 DEF TypeOK, Csr, Prev, Mstatus, Bounds, Causes, PC, Word, Owners
<1>5. Label(h)' = "install"
  BY <1>1, <1>3, LocalLabels DEF PC
<1> USE DEF TypeOK, Resting, Prologue, Installed, InUser, Saved, Epilogue,
            MaskedLabels, WatchedLabels, ArenaLabels
<1>6. HartFacts(h)'
  BY <1>1, <1>2, <1>5 DEF HartFacts, ModeInv, CsrInv, GuardInv, ParkedInv, TaskInv, Home
<1>7. TaskInv(t)'
  BY <1>1, <1>2 DEF TaskInv, VerdictExact, HartFacts, ModeInv
<1>8. QED BY <1>3, <1>4, <1>6, <1>7, LocalInvariant DEF PC

LEMMA EnterInstallInv ==
    ASSUME IInv, NEW h \in Harts, NEW t \in Tasks, EnterInstall(h, t)
    PROVE  IInv'
<1> USE DEF EnterInstall, Goto, schedVars, modeVars, csrVars, guardVars, regVars,
            parkedVars, resultVars
<1>1. /\ TypeOK /\ SchedInv /\ HartFacts(h) /\ TaskInv(t) /\ VerdictExact
      /\ cur[h] = t /\ pc[t] = "install" /\ Label(h) = "install"
  BY IdleAssumption DEF IInv, HartInv, HartFacts, At, Label
<1>2. a0[t] = t
  BY <1>1 DEF TaskInv, InUser
<1>3. LocalStep(h, t, "mcause")
  BY <1>1, <1>2 DEF LocalStep, SameHart, SameTask, TypeOK
<1>4. TypeOK'
  BY <1>1, <1>2 DEF TypeOK, Csr, Prev, Mstatus, Bounds, Causes, PC, Word, Owners
<1>5. Label(h)' = "mcause"
  BY <1>1, <1>3, LocalLabels DEF PC
<1> USE DEF TypeOK, Resting, Prologue, Installed, InUser, Saved, Epilogue,
            MaskedLabels, WatchedLabels, ArenaLabels
<1>6. HartFacts(h)'
  BY <1>1, <1>2, <1>5 DEF HartFacts, ModeInv, CsrInv, GuardInv, ParkedInv, TaskInv, Home
<1>7. TaskInv(t)'
  BY <1>1, <1>2 DEF TaskInv, VerdictExact, HartFacts, ModeInv
<1>8. QED BY <1>3, <1>4, <1>6, <1>7, LocalInvariant DEF PC

LEMMA EnterMcauseInv ==
    ASSUME IInv, NEW h \in Harts, NEW t \in Tasks, EnterMcause(h, t)
    PROVE  IInv'
<1> USE DEF EnterMcause, Goto, schedVars, modeVars, csrVars, guardVars, regVars,
            parkedVars, resultVars
<1>1. /\ TypeOK /\ SchedInv /\ HartFacts(h) /\ TaskInv(t) /\ VerdictExact
      /\ cur[h] = t /\ pc[t] = "mcause" /\ Label(h) = "mcause"
  BY IdleAssumption DEF IInv, HartInv, HartFacts, At, Label
<1>2. a0[t] = t
  BY <1>1 DEF TaskInv, InUser
<1>3. LocalStep(h, t, "mstatus")
  BY <1>1, <1>2 DEF LocalStep, SameHart, SameTask, TypeOK
<1>4. TypeOK'
  BY <1>1, <1>2 DEF TypeOK, Csr, Prev, Mstatus, Bounds, Causes, PC, Word, Owners
<1>5. Label(h)' = "mstatus"
  BY <1>1, <1>3, LocalLabels DEF PC
<1> USE DEF TypeOK, Resting, Prologue, Installed, InUser, Saved, Epilogue,
            MaskedLabels, WatchedLabels, ArenaLabels
<1>6. HartFacts(h)'
  BY <1>1, <1>2, <1>5 DEF HartFacts, ModeInv, CsrInv, GuardInv, ParkedInv, TaskInv, Home
<1>7. TaskInv(t)'
  BY <1>1, <1>2 DEF TaskInv, VerdictExact, HartFacts, ModeInv
<1>8. QED BY <1>3, <1>4, <1>6, <1>7, LocalInvariant DEF PC

LEMMA EnterMstatusInv ==
    ASSUME IInv, NEW h \in Harts, NEW t \in Tasks, EnterMstatus(h, t)
    PROVE  IInv'
<1> USE DEF EnterMstatus, Goto, schedVars, modeVars, csrVars, guardVars, regVars,
            parkedVars, resultVars
<1>1. /\ TypeOK /\ SchedInv /\ HartFacts(h) /\ TaskInv(t) /\ VerdictExact
      /\ cur[h] = t /\ pc[t] = "mstatus" /\ Label(h) = "mstatus"
  BY IdleAssumption DEF IInv, HartInv, HartFacts, At, Label
<1>2. a0[t] = t
  BY <1>1 DEF TaskInv, InUser
<1>3. LocalStep(h, t, "load")
  BY <1>1, <1>2 DEF LocalStep, SameHart, SameTask, TypeOK
<1>4. TypeOK'
  BY <1>1, <1>2 DEF TypeOK, Csr, Prev, Mstatus, Bounds, Causes, PC, Word, Owners
<1>5. Label(h)' = "load"
  BY <1>1, <1>3, LocalLabels DEF PC
<1> USE DEF TypeOK, Resting, Prologue, Installed, InUser, Saved, Epilogue,
            MaskedLabels, WatchedLabels, ArenaLabels
<1>6. HartFacts(h)'
  BY <1>1, <1>2, <1>5 DEF HartFacts, ModeInv, CsrInv, GuardInv, ParkedInv, TaskInv, Home
<1>7. TaskInv(t)'
  BY <1>1, <1>2 DEF TaskInv, VerdictExact, HartFacts, ModeInv
<1>8. QED BY <1>3, <1>4, <1>6, <1>7, LocalInvariant DEF PC

LEMMA EnterLoadRegsInv ==
    ASSUME IInv, NEW h \in Harts, NEW t \in Tasks, EnterLoadRegs(h, t)
    PROVE  IInv'
<1> USE DEF EnterLoadRegs, Watch, Goto, schedVars, modeVars, csrVars, guardVars, regVars,
            parkedVars, resultVars
<1>1. /\ TypeOK /\ SchedInv /\ HartFacts(h) /\ TaskInv(t) /\ VerdictExact
      /\ cur[h] = t /\ pc[t] = "load" /\ Label(h) = "load"
  BY IdleAssumption DEF IInv, HartInv, HartFacts, At, Label
<1>2. a0[t] = t
  BY <1>1 DEF TaskInv, InUser
<1>3. LocalStep(h, t, "arm")
  BY <1>1, <1>2 DEF LocalStep, SameHart, SameTask, TypeOK
<1>4. TypeOK'
  BY <1>1, <1>2 DEF TypeOK, Csr, Prev, Mstatus, Bounds, Causes, PC, Word, Owners
<1>5. Label(h)' = "arm"
  BY <1>1, <1>3, LocalLabels DEF PC
<1> USE DEF TypeOK, Resting, Prologue, Installed, InUser, Saved, Epilogue,
            MaskedLabels, WatchedLabels, ArenaLabels
<1>6. HartFacts(h)'
  BY <1>1, <1>2, <1>5 DEF HartFacts, ModeInv, CsrInv, GuardInv, ParkedInv, TaskInv, Home
<1>7. TaskInv(t)'
  BY <1>1, <1>2 DEF TaskInv, VerdictExact, HartFacts, ModeInv
<1>8. QED BY <1>3, <1>4, <1>6, <1>7, LocalInvariant DEF PC

LEMMA EnterGuardStartInv ==
    ASSUME IInv, NEW h \in Harts, NEW t \in Tasks, EnterGuardStart(h, t)
    PROVE  IInv'
<1> USE DEF EnterGuardStart, Watch, Goto, schedVars, modeVars, csrVars, guardVars, regVars,
            parkedVars, resultVars
<1>1. /\ TypeOK /\ SchedInv /\ HartFacts(h) /\ TaskInv(t) /\ VerdictExact
      /\ cur[h] = t /\ pc[t] = "arm" /\ Label(h) = "arm"
  BY IdleAssumption DEF IInv, HartInv, HartFacts, At, Label
<1>2. a0[t] = t
  BY <1>1 DEF TaskInv, InUser
<1>3. LocalStep(h, t, "drop")
  BY <1>1, <1>2 DEF LocalStep, SameHart, SameTask, TypeOK
<1>4. TypeOK'
  BY <1>1, <1>2 DEF TypeOK, Csr, Prev, Mstatus, Bounds, Causes, PC, Word, Owners
<1>5. Label(h)' = "drop"
  BY <1>1, <1>3, LocalLabels DEF PC
<1> USE DEF TypeOK, Resting, Prologue, Installed, InUser, Saved, Epilogue,
            MaskedLabels, WatchedLabels, ArenaLabels
<1>6. HartFacts(h)'
  BY <1>1, <1>2, <1>5 DEF HartFacts, ModeInv, CsrInv, GuardInv, ParkedInv, TaskInv, Home
<1>7. TaskInv(t)'
  BY <1>1, <1>2 DEF TaskInv, VerdictExact, HartFacts, ModeInv
<1>8. QED BY <1>3, <1>4, <1>6, <1>7, LocalInvariant DEF PC

LEMMA EnterMretInv ==
    ASSUME IInv, NEW h \in Harts, NEW t \in Tasks, EnterMret(h, t)
    PROVE  IInv'
<1> USE DEF EnterMret, Mret, Goto, schedVars, modeVars, csrVars, guardVars, regVars,
            parkedVars, resultVars
<1>1. /\ TypeOK /\ SchedInv /\ HartFacts(h) /\ TaskInv(t) /\ VerdictExact
      /\ cur[h] = t /\ pc[t] = "drop" /\ Label(h) = "drop"
  BY IdleAssumption DEF IInv, HartInv, HartFacts, At, Label
<1>2. a0[t] = t
  BY <1>1 DEF TaskInv, InUser
<1>3. LocalStep(h, t, "user")
  BY <1>1, <1>2 DEF LocalStep, SameHart, SameTask, TypeOK
<1>4. TypeOK'
  BY <1>1, <1>2 DEF TypeOK, Csr, Prev, Mstatus, Bounds, Causes, PC, Word, Owners
<1>5. Label(h)' = "user"
  BY <1>1, <1>3, LocalLabels DEF PC
<1> USE DEF TypeOK, Resting, Prologue, Installed, InUser, Saved, Epilogue,
            MaskedLabels, WatchedLabels, ArenaLabels
<1>6. HartFacts(h)'
  BY <1>1, <1>2, <1>5 DEF HartFacts, ModeInv, CsrInv, GuardInv, ParkedInv, TaskInv, Home
<1>7. TaskInv(t)'
  BY <1>1, <1>2 DEF TaskInv, VerdictExact, HartFacts, ModeInv
<1>8. QED BY <1>3, <1>4, <1>6, <1>7, LocalInvariant DEF PC

LEMMA UserMoveSpInv ==
    ASSUME IInv, NEW h \in Harts, NEW t \in Tasks, UserMoveSp(h, t)
    PROVE  IInv'
<1> USE DEF UserMoveSp, Watch, Goto, schedVars, modeVars, csrVars, guardVars, regVars,
            parkedVars, resultVars
<1>1. /\ TypeOK /\ SchedInv /\ HartFacts(h) /\ TaskInv(t) /\ VerdictExact
      /\ cur[h] = t /\ pc[t] = "user" /\ Label(h) = "user"
  BY IdleAssumption DEF IInv, HartInv, HartFacts, At, Label
<1>3. LocalStep(h, t, "user")
  BY <1>1 DEF LocalStep, SameHart, SameTask, TypeOK
<1>4. TypeOK'
  BY <1>1 DEF TypeOK, Csr, Prev, Mstatus, Bounds, Causes, PC, Word, Owners
<1>5. Label(h)' = "user"
  BY <1>1, <1>3, LocalLabels DEF PC
<1> USE DEF TypeOK, Resting, Prologue, Installed, InUser, Saved, Epilogue,
            MaskedLabels, WatchedLabels, ArenaLabels
<1>6. HartFacts(h)'
  BY <1>1, <1>5 DEF HartFacts, ModeInv, CsrInv, GuardInv, ParkedInv, TaskInv, Home
<1>7. TaskInv(t)'
  BY <1>1 DEF TaskInv, VerdictExact, HartFacts, ModeInv
<1>8. QED BY <1>3, <1>4, <1>6, <1>7, LocalInvariant DEF PC

LEMMA UserClobberGpInv ==
    ASSUME IInv, NEW h \in Harts, NEW t \in Tasks, UserClobberGp(h, t)
    PROVE  IInv'
<1> USE DEF UserClobberGp, Goto, schedVars, modeVars, csrVars, guardVars, regVars,
            parkedVars, resultVars
<1>1. /\ TypeOK /\ SchedInv /\ HartFacts(h) /\ TaskInv(t) /\ VerdictExact
      /\ cur[h] = t /\ pc[t] = "user" /\ Label(h) = "user"
  BY IdleAssumption DEF IInv, HartInv, HartFacts, At, Label
<1>3. LocalStep(h, t, "user")
  BY <1>1 DEF LocalStep, SameHart, SameTask, TypeOK
<1>4. TypeOK'
  BY <1>1 DEF TypeOK, Csr, Prev, Mstatus, Bounds, Causes, PC, Word, Owners
<1>5. Label(h)' = "user"
  BY <1>1, <1>3, LocalLabels DEF PC
<1> USE DEF TypeOK, Resting, Prologue, Installed, InUser, Saved, Epilogue,
            MaskedLabels, WatchedLabels, ArenaLabels
<1>6. HartFacts(h)'
  BY <1>1, <1>5 DEF HartFacts, ModeInv, CsrInv, GuardInv, ParkedInv, TaskInv, Home
<1>7. TaskInv(t)'
  BY <1>1 DEF TaskInv, VerdictExact, HartFacts, ModeInv
<1>8. QED BY <1>3, <1>4, <1>6, <1>7, LocalInvariant DEF PC

LEMMA UserFpInv ==
    ASSUME IInv, NEW h \in Harts, NEW t \in Tasks, UserFp(h, t)
    PROVE  IInv'
<1> USE DEF UserFp, Goto, schedVars, modeVars, csrVars, guardVars, regVars,
            parkedVars, resultVars
<1>1. /\ TypeOK /\ SchedInv /\ HartFacts(h) /\ TaskInv(t) /\ VerdictExact
      /\ cur[h] = t /\ pc[t] = "user" /\ Label(h) = "user"
  BY IdleAssumption DEF IInv, HartInv, HartFacts, At, Label
<1>3. LocalStep(h, t, "user")
  BY <1>1 DEF LocalStep, SameHart, SameTask, TypeOK
<1>4. TypeOK'
  BY <1>1 DEF TypeOK, Csr, Prev, Mstatus, Bounds, Causes, PC, Word, Owners
<1>5. Label(h)' = "user"
  BY <1>1, <1>3, LocalLabels DEF PC
<1> USE DEF TypeOK, Resting, Prologue, Installed, InUser, Saved, Epilogue,
            MaskedLabels, WatchedLabels, ArenaLabels
<1>6. HartFacts(h)'
  BY <1>1, <1>5 DEF HartFacts, ModeInv, CsrInv, GuardInv, ParkedInv, TaskInv, Home
<1>7. TaskInv(t)'
  BY <1>1 DEF TaskInv, VerdictExact, HartFacts, ModeInv
<1>8. QED BY <1>3, <1>4, <1>6, <1>7, LocalInvariant DEF PC

LEMMA UserTrapInv ==
    ASSUME IInv, NEW h \in Harts, NEW t \in Tasks, UserTrap(h, t)
    PROVE  IInv'
<1> USE DEF UserTrap, Goto, schedVars, modeVars, csrVars, guardVars, regVars,
            parkedVars, resultVars
<1>1. /\ TypeOK /\ SchedInv /\ HartFacts(h) /\ TaskInv(t) /\ VerdictExact
      /\ cur[h] = t /\ pc[t] = "user" /\ Label(h) = "user"
  BY IdleAssumption DEF IInv, HartInv, HartFacts, At, Label
<1>3. LocalStep(h, t, "save")
  BY <1>1 DEF LocalStep, SameHart, SameTask, TypeOK
<1>4. TypeOK'
  BY <1>1 DEF TypeOK, Csr, Prev, Mstatus, Bounds, Causes, PC, Word, Owners
<1>5. Label(h)' = "save"
  BY <1>1, <1>3, LocalLabels DEF PC
<1> USE DEF TypeOK, Resting, Prologue, Installed, InUser, Saved, Epilogue,
            MaskedLabels, WatchedLabels, ArenaLabels
<1>6. HartFacts(h)'
  BY <1>1, <1>5 DEF HartFacts, ModeInv, CsrInv, GuardInv, ParkedInv, TaskInv, Home
<1>7. TaskInv(t)'
  BY <1>1 DEF TaskInv, VerdictExact, HartFacts, ModeInv
<1>8. QED BY <1>3, <1>4, <1>6, <1>7, LocalInvariant DEF PC

LEMMA TrapSaveInv ==
    ASSUME IInv, NEW h \in Harts, NEW t \in Tasks, TrapSave(h, t)
    PROVE  IInv'
<1> USE DEF TrapSave, Goto, schedVars, modeVars, csrVars, guardVars, regVars,
            parkedVars, resultVars
<1>1. /\ TypeOK /\ SchedInv /\ HartFacts(h) /\ TaskInv(t) /\ VerdictExact
      /\ cur[h] = t /\ pc[t] = "save" /\ Label(h) = "save"
  BY IdleAssumption DEF IInv, HartInv, HartFacts, At, Label
<1>2. csr[h].mscratch = t
  BY <1>1 DEF TypeOK, HartFacts, CsrInv, InUser
<1>3. LocalStep(h, t, "unwatch")
  BY <1>1, <1>2 DEF LocalStep, SameHart, SameTask, TypeOK
<1>4. TypeOK'
  BY <1>1, <1>2 DEF TypeOK, Csr, Prev, Mstatus, Bounds, Causes, PC, Word, Owners
<1>5. Label(h)' = "unwatch"
  BY <1>1, <1>3, LocalLabels DEF PC
<1> USE DEF TypeOK, Resting, Prologue, Installed, InUser, Saved, Epilogue,
            MaskedLabels, WatchedLabels, ArenaLabels
<1>6. HartFacts(h)'
  BY <1>1, <1>2, <1>5 DEF HartFacts, ModeInv, CsrInv, GuardInv, ParkedInv, TaskInv, Home
<1>7. TaskInv(t)'
  BY <1>1, <1>2 DEF TaskInv, VerdictExact, HartFacts, ModeInv
<1>8. QED BY <1>3, <1>4, <1>6, <1>7, LocalInvariant DEF PC

LEMMA TrapGuardStopInv ==
    ASSUME IInv, NEW h \in Harts, NEW t \in Tasks, TrapGuardStop(h, t)
    PROVE  IInv'
<1> USE DEF TrapGuardStop, Goto, schedVars, modeVars, csrVars, guardVars, regVars,
            parkedVars, resultVars
<1>1. /\ TypeOK /\ SchedInv /\ HartFacts(h) /\ TaskInv(t) /\ VerdictExact
      /\ cur[h] = t /\ pc[t] = "unwatch" /\ Label(h) = "unwatch"
  BY IdleAssumption DEF IInv, HartInv, HartFacts, At, Label
<1>2. a0[t] = t
  BY <1>1 DEF TaskInv, InUser
<1>3. LocalStep(h, t, "verdict")
  BY <1>1, <1>2 DEF LocalStep, SameHart, SameTask, TypeOK
<1>4. TypeOK'
  BY <1>1, <1>2 DEF TypeOK, Csr, Prev, Mstatus, Bounds, Causes, PC, Word, Owners
<1>5. Label(h)' = "verdict"
  BY <1>1, <1>3, LocalLabels DEF PC
<1> USE DEF TypeOK, Resting, Prologue, Installed, InUser, Saved, Epilogue,
            MaskedLabels, WatchedLabels, ArenaLabels
<1>6. HartFacts(h)'
  BY <1>1, <1>2, <1>5 DEF HartFacts, ModeInv, CsrInv, GuardInv, ParkedInv, TaskInv, Home
<1>7. TaskInv(t)'
  BY <1>1, <1>2 DEF TaskInv, VerdictExact, HartFacts, ModeInv
<1>8. QED BY <1>3, <1>4, <1>6, <1>7, LocalInvariant DEF PC

LEMMA TrapVerdictInv ==
    ASSUME IInv, NEW h \in Harts, NEW t \in Tasks, TrapVerdict(h, t)
    PROVE  IInv'
<1> USE DEF TrapVerdict, Goto, schedVars, modeVars, csrVars, guardVars, regVars,
            parkedVars, resultVars
<1>1. /\ TypeOK /\ SchedInv /\ HartFacts(h) /\ TaskInv(t) /\ VerdictExact
      /\ cur[h] = t /\ pc[t] = "verdict" /\ Label(h) = "verdict"
  BY IdleAssumption DEF IInv, HartInv, HartFacts, At, Label
<1>2. a0[t] = t
  BY <1>1 DEF TaskInv, InUser
<1>3. LocalStep(h, t, "bounds")
  BY <1>1, <1>2 DEF LocalStep, SameHart, SameTask, TypeOK
<1>4. TypeOK'
  BY <1>1, <1>2 DEF TypeOK, Csr, Prev, Mstatus, Bounds, Causes, PC, Word, Owners
<1>5. Label(h)' = "bounds"
  BY <1>1, <1>3, LocalLabels DEF PC
<1> USE DEF TypeOK, Resting, Prologue, Installed, InUser, Saved, Epilogue,
            MaskedLabels, WatchedLabels, ArenaLabels
<1>6. HartFacts(h)'
  BY <1>1, <1>2, <1>5 DEF HartFacts, ModeInv, CsrInv, GuardInv, ParkedInv, TaskInv, Home
<1>7. TaskInv(t)'
  BY <1>1, <1>2 DEF TaskInv, VerdictExact, HartFacts, ModeInv
<1>8. sp_fired'[t] = strayed'[t]
  BY <1>1, <1>2 DEF VerdictExact, HartFacts, GuardInv
<1>9. QED BY <1>3, <1>4, <1>6, <1>7, <1>8, LocalInvariant DEF PC

LEMMA TrapBoundsInv ==
    ASSUME IInv, NEW h \in Harts, NEW t \in Tasks, TrapBounds(h, t)
    PROVE  IInv'
<1> USE DEF TrapBounds, Watch, Goto, schedVars, modeVars, csrVars, guardVars, regVars,
            parkedVars, resultVars
<1>1. /\ TypeOK /\ SchedInv /\ HartFacts(h) /\ TaskInv(t) /\ VerdictExact
      /\ cur[h] = t /\ pc[t] = "bounds" /\ Label(h) = "bounds"
  BY IdleAssumption DEF IInv, HartInv, HartFacts, At, Label
<1>2. a0[t] = t
  BY <1>1 DEF TaskInv, InUser
<1>3. LocalStep(h, t, "unmask")
  BY <1>1, <1>2 DEF LocalStep, SameHart, SameTask, TypeOK
<1>4. TypeOK'
  BY <1>1, <1>2 DEF TypeOK, Csr, Prev, Mstatus, Bounds, Causes, PC, Word, Owners
<1>5. Label(h)' = "unmask"
  BY <1>1, <1>3, LocalLabels DEF PC
<1> USE DEF TypeOK, Resting, Prologue, Installed, InUser, Saved, Epilogue,
            MaskedLabels, WatchedLabels, ArenaLabels
<1>6. HartFacts(h)'
  BY <1>1, <1>2, <1>5 DEF HartFacts, ModeInv, CsrInv, GuardInv, ParkedInv, TaskInv, Home
<1>7. TaskInv(t)'
  BY <1>1, <1>2 DEF TaskInv, VerdictExact, HartFacts, ModeInv
<1>8. sp_fired'[t] = strayed'[t]
  BY <1>1, <1>2 DEF VerdictExact, HartFacts, GuardInv
<1>9. QED BY <1>3, <1>4, <1>6, <1>7, <1>8, LocalInvariant DEF PC

LEMMA TrapUnmaskInv ==
    ASSUME IInv, NEW h \in Harts, NEW t \in Tasks, TrapUnmask(h, t)
    PROVE  IInv'
<1> USE DEF TrapUnmask, Goto, schedVars, modeVars, csrVars, guardVars, regVars,
            parkedVars, resultVars
<1>1. /\ TypeOK /\ SchedInv /\ HartFacts(h) /\ TaskInv(t) /\ VerdictExact
      /\ cur[h] = t /\ pc[t] = "unmask" /\ Label(h) = "unmask"
  BY IdleAssumption DEF IInv, HartInv, HartFacts, At, Label
<1>2. a0[t] = t
  BY <1>1 DEF TaskInv, InUser
<1>3. LocalStep(h, t, "vectors")
  BY <1>1, <1>2 DEF LocalStep, SameHart, SameTask, TypeOK
<1>4. TypeOK'
  BY <1>1, <1>2 DEF TypeOK, Csr, Prev, Mstatus, Bounds, Causes, PC, Word, Owners
<1>5. Label(h)' = "vectors"
  BY <1>1, <1>3, LocalLabels DEF PC
<1> USE DEF TypeOK, Resting, Prologue, Installed, InUser, Saved, Epilogue,
            MaskedLabels, WatchedLabels, ArenaLabels
<1>6. ModeInv(h)'
  BY <1>1, <1>2, <1>5 DEF HartFacts, ModeInv, TaskInv, ParkedInv, Home
<1>7. CsrInv(h)'
  <2>1. k_thresh[t] = h /\ h # Raised
    BY <1>1, DisjointAssumption DEF HartFacts, ParkedInv
  <2>2. thresh'[h] = h /\ masked'[h] = FALSE /\ csr'[h] = csr[h]
    BY <1>1, <1>2, <2>1
  <2>3. QED BY <1>1, <1>5, <2>2 DEF HartFacts, CsrInv
<1>8. GuardInv(h)'
  BY <1>1, <1>2, <1>5 DEF HartFacts, GuardInv, TaskInv, ParkedInv
<1>9. ParkedInv(h)'
  BY <1>1, <1>2, <1>5 DEF HartFacts, ParkedInv, CsrInv, GuardInv, Home
<1>10. TaskInv(t)'
  BY <1>1, <1>2 DEF TaskInv, VerdictExact, HartFacts, ModeInv
<1>11. sp_fired'[t] = strayed'[t]
  BY <1>1, <1>2 DEF VerdictExact, HartFacts, GuardInv
<1>12. QED BY <1>3, <1>4, <1>6, <1>7, <1>8, <1>9, <1>10, <1>11, LocalInvariant DEF HartFacts, PC

LEMMA TrapVectorsInv ==
    ASSUME IInv, NEW h \in Harts, NEW t \in Tasks, TrapVectors(h, t)
    PROVE  IInv'
<1> USE DEF TrapVectors, Watch, Goto, schedVars, modeVars, csrVars, guardVars, regVars,
            parkedVars, resultVars
<1>1. /\ TypeOK /\ SchedInv /\ HartFacts(h) /\ TaskInv(t) /\ VerdictExact
      /\ cur[h] = t /\ pc[t] = "vectors" /\ Label(h) = "vectors"
  BY IdleAssumption DEF IInv, HartInv, HartFacts, At, Label
<1>2. a0[t] = t
  BY <1>1 DEF TaskInv, InUser
<1>3. LocalStep(h, t, "rearm")
  BY <1>1, <1>2 DEF LocalStep, SameHart, SameTask, TypeOK
<1>4. TypeOK'
  BY <1>1, <1>2 DEF TypeOK, Csr, Prev, Mstatus, Bounds, Causes, PC, Word, Owners
<1>5. Label(h)' = "rearm"
  BY <1>1, <1>3, LocalLabels DEF PC
<1> USE DEF TypeOK, Resting, Prologue, Installed, InUser, Saved, Epilogue,
            MaskedLabels, WatchedLabels, ArenaLabels
<1>6. ModeInv(h)'
  BY <1>1, <1>2, <1>5 DEF HartFacts, ModeInv, TaskInv, ParkedInv, Home
<1>7. CsrInv(h)'
  <2>1. k_csr[t] = Home(h) /\ csr[h].mil = Zero
    BY <1>1 DEF HartFacts, CsrInv, ModeInv, ParkedInv
  <2>2. csr'[h] = [mtvec |-> h, mtvt |-> h, mscratch |-> h, mil |-> Zero]
    BY <1>1, <1>2, <2>1 DEF Home
  <2>3. QED BY <1>1, <1>5, <2>2 DEF HartFacts, CsrInv
<1>8. GuardInv(h)'
  BY <1>1, <1>2, <1>5 DEF HartFacts, GuardInv, TaskInv, ParkedInv
<1>9. ParkedInv(h)'
  BY <1>1, <1>2, <1>5 DEF HartFacts, ParkedInv, CsrInv, GuardInv, Home
<1>10. TaskInv(t)'
  BY <1>1, <1>2 DEF TaskInv, VerdictExact, HartFacts, ModeInv
<1>11. sp_fired'[t] = strayed'[t]
  BY <1>1, <1>2 DEF VerdictExact, HartFacts, GuardInv
<1>12. QED BY <1>3, <1>4, <1>6, <1>7, <1>8, <1>9, <1>10, <1>11, LocalInvariant DEF HartFacts, PC

LEMMA TrapGuardStartInv ==
    ASSUME IInv, NEW h \in Harts, NEW t \in Tasks, TrapGuardStart(h, t)
    PROVE  IInv'
<1> USE DEF TrapGuardStart, Watch, Goto, schedVars, modeVars, csrVars, guardVars, regVars,
            parkedVars, resultVars
<1>1. /\ TypeOK /\ SchedInv /\ HartFacts(h) /\ TaskInv(t) /\ VerdictExact
      /\ cur[h] = t /\ pc[t] = "rearm" /\ Label(h) = "rearm"
  BY IdleAssumption DEF IInv, HartInv, HartFacts, At, Label
<1>2. a0[t] = t
  BY <1>1 DEF TaskInv, InUser
<1>3. LocalStep(h, t, "kmcause")
  BY <1>1, <1>2 DEF LocalStep, SameHart, SameTask, TypeOK
<1>4. TypeOK'
  BY <1>1, <1>2 DEF TypeOK, Csr, Prev, Mstatus, Bounds, Causes, PC, Word, Owners
<1>5. Label(h)' = "kmcause"
  BY <1>1, <1>3, LocalLabels DEF PC
<1> USE DEF TypeOK, Resting, Prologue, Installed, InUser, Saved, Epilogue,
            MaskedLabels, WatchedLabels, ArenaLabels
<1>6. HartFacts(h)'
  BY <1>1, <1>2, <1>5 DEF HartFacts, ModeInv, CsrInv, GuardInv, ParkedInv, TaskInv, Home
<1>7. TaskInv(t)'
  BY <1>1, <1>2 DEF TaskInv, VerdictExact, HartFacts, ModeInv
<1>8. sp_fired'[t] = strayed'[t]
  BY <1>1, <1>2 DEF VerdictExact, HartFacts, GuardInv
<1>9. QED BY <1>3, <1>4, <1>6, <1>7, <1>8, LocalInvariant DEF PC

LEMMA TrapMcauseInv ==
    ASSUME IInv, NEW h \in Harts, NEW t \in Tasks, TrapMcause(h, t)
    PROVE  IInv'
<1> USE DEF TrapMcause, Goto, schedVars, modeVars, csrVars, guardVars, regVars,
            parkedVars, resultVars
<1>1. /\ TypeOK /\ SchedInv /\ HartFacts(h) /\ TaskInv(t) /\ VerdictExact
      /\ cur[h] = t /\ pc[t] = "kmcause" /\ Label(h) = "kmcause"
  BY IdleAssumption DEF IInv, HartInv, HartFacts, At, Label
<1>2. a0[t] = t
  BY <1>1 DEF TaskInv, InUser
<1>3. LocalStep(h, t, "kmstatus")
  BY <1>1, <1>2 DEF LocalStep, SameHart, SameTask, TypeOK
<1>4. TypeOK'
  BY <1>1, <1>2 DEF TypeOK, Csr, Prev, Mstatus, Bounds, Causes, PC, Word, Owners
<1>5. Label(h)' = "kmstatus"
  BY <1>1, <1>3, LocalLabels DEF PC
<1> USE DEF TypeOK, Resting, Prologue, Installed, InUser, Saved, Epilogue,
            MaskedLabels, WatchedLabels, ArenaLabels
<1>6. HartFacts(h)'
  BY <1>1, <1>2, <1>5 DEF HartFacts, ModeInv, CsrInv, GuardInv, ParkedInv, TaskInv, Home
<1>7. TaskInv(t)'
  BY <1>1, <1>2 DEF TaskInv, VerdictExact, HartFacts, ModeInv
<1>8. sp_fired'[t] = strayed'[t]
  BY <1>1, <1>2 DEF VerdictExact, HartFacts, GuardInv
<1>9. QED BY <1>3, <1>4, <1>6, <1>7, <1>8, LocalInvariant DEF PC

LEMMA TrapMstatusInv ==
    ASSUME IInv, NEW h \in Harts, NEW t \in Tasks, TrapMstatus(h, t)
    PROVE  IInv'
<1> USE DEF TrapMstatus, Goto, schedVars, modeVars, csrVars, guardVars, regVars,
            parkedVars, resultVars
<1>1. /\ TypeOK /\ SchedInv /\ HartFacts(h) /\ TaskInv(t) /\ VerdictExact
      /\ cur[h] = t /\ pc[t] = "kmstatus" /\ Label(h) = "kmstatus"
  BY IdleAssumption DEF IInv, HartInv, HartFacts, At, Label
<1>2. a0[t] = t
  BY <1>1 DEF TaskInv, InUser
<1>3. LocalStep(h, t, "return")
  BY <1>1, <1>2 DEF LocalStep, SameHart, SameTask, TypeOK
<1>4. TypeOK'
  BY <1>1, <1>2 DEF TypeOK, Csr, Prev, Mstatus, Bounds, Causes, PC, Word, Owners
<1>5. Label(h)' = "return"
  BY <1>1, <1>3, LocalLabels DEF PC
<1> USE DEF TypeOK, Resting, Prologue, Installed, InUser, Saved, Epilogue,
            MaskedLabels, WatchedLabels, ArenaLabels
<1>6. HartFacts(h)'
  BY <1>1, <1>2, <1>5 DEF HartFacts, ModeInv, CsrInv, GuardInv, ParkedInv, TaskInv, Home
<1>7. TaskInv(t)'
  BY <1>1, <1>2 DEF TaskInv, VerdictExact, HartFacts, ModeInv
<1>8. sp_fired'[t] = strayed'[t]
  BY <1>1, <1>2 DEF VerdictExact, HartFacts, GuardInv
<1>9. QED BY <1>3, <1>4, <1>6, <1>7, <1>8, LocalInvariant DEF PC

LEMMA TrapMretInv ==
    ASSUME IInv, NEW h \in Harts, NEW t \in Tasks, TrapMret(h, t)
    PROVE  IInv'
<1> USE DEF TrapMret, Mret, Goto, schedVars, modeVars, csrVars, guardVars, regVars,
            parkedVars, resultVars
<1>1. /\ TypeOK /\ SchedInv /\ HartFacts(h) /\ TaskInv(t) /\ VerdictExact
      /\ cur[h] = t /\ pc[t] = "return" /\ Label(h) = "return"
  BY IdleAssumption DEF IInv, HartInv, HartFacts, At, Label
<1>2. a0[t] = t
  BY <1>1 DEF TaskInv, InUser
<1>3. LocalStep(h, t, "resume")
  BY <1>1, <1>2 DEF LocalStep, SameHart, SameTask, TypeOK
<1>4. TypeOK'
  BY <1>1, <1>2 DEF TypeOK, Csr, Prev, Mstatus, Bounds, Causes, PC, Word, Owners
<1>5. Label(h)' = "resume"
  BY <1>1, <1>3, LocalLabels DEF PC
<1> USE DEF TypeOK, Resting, Prologue, Installed, InUser, Saved, Epilogue,
            MaskedLabels, WatchedLabels, ArenaLabels
<1>6. HartFacts(h)'
  BY <1>1, <1>2, <1>5 DEF HartFacts, ModeInv, CsrInv, GuardInv, ParkedInv, TaskInv, Home
<1>7. TaskInv(t)'
  BY <1>1, <1>2 DEF TaskInv, VerdictExact, HartFacts, ModeInv
<1>8. sp_fired'[t] = strayed'[t]
  BY <1>1, <1>2 DEF VerdictExact, HartFacts, GuardInv
<1>9. QED BY <1>3, <1>4, <1>6, <1>7, <1>8, LocalInvariant DEF PC

LEMMA ResumeInv ==
    ASSUME IInv, NEW h \in Harts, NEW t \in Tasks, Resume(h, t)
    PROVE  IInv'
<1> USE DEF Resume, Goto, schedVars, modeVars, csrVars, guardVars, regVars,
            parkedVars, resultVars
<1>1. /\ TypeOK /\ SchedInv /\ HartFacts(h) /\ TaskInv(t) /\ VerdictExact
      /\ cur[h] = t /\ pc[t] = "resume" /\ Label(h) = "resume"
  BY IdleAssumption DEF IInv, HartInv, HartFacts, At, Label
<1>2. a0[t] = t
  BY <1>1 DEF TaskInv, InUser
<1>3. LocalStep(h, t, "decide")
  BY <1>1, <1>2 DEF LocalStep, SameHart, SameTask, TypeOK
<1>4. TypeOK'
  BY <1>1, <1>2 DEF TypeOK, Csr, Prev, Mstatus, Bounds, Causes, PC, Word, Owners
<1>5. Label(h)' = "decide"
  BY <1>1, <1>3, LocalLabels DEF PC
<1> USE DEF TypeOK, Resting, Prologue, Installed, InUser, Saved, Epilogue,
            MaskedLabels, WatchedLabels, ArenaLabels
<1>6. HartFacts(h)'
  BY <1>1, <1>2, <1>5 DEF HartFacts, ModeInv, CsrInv, GuardInv, ParkedInv, TaskInv, Home
<1>7. TaskInv(t)'
  BY <1>1, <1>2 DEF TaskInv, VerdictExact, HartFacts, ModeInv
<1>8. sp_fired'[t] = strayed'[t]
  BY <1>1, <1>2 DEF VerdictExact, HartFacts, GuardInv
<1>9. QED BY <1>3, <1>4, <1>6, <1>7, <1>8, LocalInvariant DEF PC

LEMMA HostResumeInv ==
    ASSUME IInv, NEW h \in Harts, NEW t \in Tasks, HostResume(h, t)
    PROVE  IInv'
<1> USE DEF HostResume, Goto, schedVars, modeVars, csrVars, guardVars, regVars,
            parkedVars, resultVars
<1>1. /\ TypeOK /\ SchedInv /\ HartFacts(h) /\ TaskInv(t) /\ VerdictExact
      /\ cur[h] = t /\ pc[t] = "decide" /\ Label(h) = "decide"
  BY IdleAssumption DEF IInv, HartInv, HartFacts, At, Label
<1>3. LocalStep(h, t, "call")
  BY <1>1 DEF LocalStep, SameHart, SameTask, TypeOK
<1>4. TypeOK'
  BY <1>1 DEF TypeOK, Csr, Prev, Mstatus, Bounds, Causes, PC, Word, Owners
<1>5. Label(h)' = "call"
  BY <1>1, <1>3, LocalLabels DEF PC
<1> USE DEF TypeOK, Resting, Prologue, Installed, InUser, Saved, Epilogue,
            MaskedLabels, WatchedLabels, ArenaLabels
<1>6. HartFacts(h)'
  BY <1>1, <1>5 DEF HartFacts, ModeInv, CsrInv, GuardInv, ParkedInv, TaskInv, Home
<1>7. TaskInv(t)'
  BY <1>1 DEF TaskInv, VerdictExact, HartFacts, ModeInv
<1>8. QED BY <1>3, <1>4, <1>6, <1>7, LocalInvariant DEF PC

-----------------------------------------------------------------------------
\* The steps that are not local: those that move a hart to another task, and
\* those of the world outside.

LEMMA InitInv == Init => IInv
<1> SUFFICES ASSUME Init PROVE IInv
  OBVIOUS
<1> USE DEF Init
<1>1. TypeOK
  BY FSAssumption DEF TypeOK, Csr, Prev, Mstatus, Bounds, Causes, PC, Word, Owners, Home
<1>2. \A h \in Harts : Label(h) = "idle"
  BY DEF Label
<1>3. SchedInv
  BY <1>2 DEF SchedInv, Preemptible
<1>4. ASSUME NEW h \in Harts
      PROVE  HartFacts(h)
  BY <1>2, <1>4 DEF HartFacts, ModeInv, CsrInv, GuardInv, ParkedInv, Resting, Prologue,
     Installed, InUser, Saved, Epilogue, MaskedLabels, WatchedLabels, ArenaLabels
<1>5. \A t \in Tasks : TaskInv(t)
  BY DEF TaskInv, Prologue, Installed, InUser, Saved, Epilogue
<1>6. VerdictExact
  BY DEF VerdictExact
<1>7. QED BY <1>1, <1>3, <1>4, <1>5, <1>6 DEF IInv, HartInv, HartFacts

\* Steps that change no task and no register of a hart, whatever they do to
\* the latch of one that is at rest.
LEMMA OutsideInv ==
    ASSUME IInv, TypeOK',
           UNCHANGED <<cur, modeVars, csrVars, on, bnd, pc, regVars, parkedVars,
                       resultVars, strayed>>,
           started' => routed' = {},
           ~started' => ~started,
           \A g \in Harts : raw'[g] = raw[g] \/ Label(g) \in Resting
    PROVE  IInv'
<1> USE DEF modeVars, csrVars, regVars, parkedVars, resultVars
<1>1. ASSUME NEW h \in Harts PROVE Label(h)' = Label(h)
  BY DEF Label
<1>2. SchedInv'
  BY <1>1 DEF IInv, SchedInv
<1>3. ASSUME NEW h \in Harts PROVE HartFacts(h)'
  <2>1. HartFacts(h) /\ Label(h)' = Label(h)
    BY <1>1, <1>3 DEF IInv, HartInv, HartFacts
  <2>2. ModeInv(h)' /\ CsrInv(h)' /\ ParkedInv(h)'
    BY <2>1 DEF HartFacts, ModeInv, CsrInv, ParkedInv, Home
  <2>3. GuardInv(h)'
    BY <2>1 DEF HartFacts, GuardInv, Resting, Installed, InUser
  <2>4. QED BY <2>2, <2>3 DEF HartFacts
<1>4. (\A t \in Tasks : TaskInv(t))'
  BY DEF IInv, TaskInv
<1>5. VerdictExact'
  BY DEF IInv, VerdictExact
<1>6. QED BY <1>2, <1>3, <1>4, <1>5 DEF IInv, HartInv, HartFacts

LEMMA BootInv == IInv /\ Boot => IInv'
<1> SUFFICES ASSUME IInv, Boot PROVE IInv'
  OBVIOUS
<1>1. TypeOK'
  BY DEF IInv, TypeOK, Boot, modeVars, csrVars, guardVars, regVars, parkedVars, resultVars
<1>2. routed' = {}
  BY DEF Boot, IInv, TypeOK
<1>3. QED BY <1>1, <1>2, OutsideInv DEF Boot, guardVars

LEMMA RaiseInv ==
    ASSUME IInv, NEW h \in Harts, Raise(h)
    PROVE  IInv'
<1>1. TypeOK'
  BY DEF IInv, TypeOK, Raise, schedVars, modeVars, csrVars, guardVars, regVars,
         parkedVars, resultVars
<1>2. QED BY <1>1, OutsideInv DEF Raise, schedVars, guardVars, IInv, SchedInv

LEMMA KernelOverflowInv ==
    ASSUME IInv, NEW h \in Harts, KernelOverflow(h)
    PROVE  IInv'
<1>1. TypeOK'
  BY DEF IInv, TypeOK, KernelOverflow, schedVars, modeVars, csrVars, guardVars,
         regVars, parkedVars, resultVars
<1>2. Label(h) \in Resting
  BY DEF KernelOverflow, Open, IInv, HartInv, ModeInv
<1>3. \A g \in Harts : raw'[g] = raw[g] \/ Label(g) \in Resting
  BY <1>2 DEF KernelOverflow, IInv, TypeOK
<1>4. QED BY <1>1, <1>3, OutsideInv DEF KernelOverflow, schedVars, IInv, SchedInv

\* Hart h, at rest, is given to x.
LEMMA DispatchInv ==
    ASSUME IInv, TypeOK', NEW h \in Harts, NEW x \in Owners, NEW l \in PC,
           Label(h) \in Resting,
           Dispatch(h, x),
           UNCHANGED <<started, routed, modeVars, csrVars, raw, regVars,
                       parkedVars, resultVars, strayed>>,
           pc' = pc \/ (x = Idle /\ pc[cur[h]] = "decide" /\ cur[h] \in Tasks
                        /\ pc' = [pc EXCEPT ![cur[h]] = "retired"]),
           Ready(h, x)
    PROVE  IInv'
<1> USE DEF Dispatch, modeVars, csrVars, regVars, parkedVars, resultVars
<1>1. Label(h)' \in Resting
  BY IdleAssumption DEF IInv, TypeOK, SchedInv, Label, Ready, Resting, Preemptible, Owners, PC
<1>2. ASSUME NEW g \in Harts \ {h} PROVE Label(g)' = Label(g)
  BY <1>2, IdleAssumption DEF IInv, TypeOK, SchedInv, Label, Owners
<1>3. SchedInv'
  <2>1. (\A g, k \in Harts : cur[g] = cur[k] => g = k \/ cur[g] = Idle)'
    BY DEF IInv, TypeOK, SchedInv, Ready
  <2>2. (\A u \in Tasks : pc[u] \notin Preemptible => \E k \in Harts : cur[k] = u)'
    <3> SUFFICES ASSUME NEW u \in Tasks, pc'[u] \notin Preemptible
                 PROVE  \E k \in Harts : cur'[k] = u
      OBVIOUS
    <3>1. pc[u] = pc'[u]
      BY DEF IInv, TypeOK, Preemptible
    <3>2. PICK k \in Harts : cur[k] = u
      BY <3>1 DEF IInv, SchedInv
    <3>3. k # h
      BY <3>1, <3>2, IdleAssumption DEF IInv, TypeOK, PC, Label, Resting, Preemptible
    <3>4. QED BY <3>2, <3>3 DEF IInv, TypeOK
  <2>3. (\A k \in Harts : Label(k) # "retired")'
    BY <1>1, <1>2 DEF IInv, SchedInv, Resting
  <2>4. (started => routed = {})' /\ (~started => \A k \in Harts : cur[k] = Idle)'
    BY DEF IInv, TypeOK, SchedInv, Ready
  <2>5. QED BY <2>1, <2>2, <2>3, <2>4 DEF SchedInv
<1>4. ASSUME NEW g \in Harts PROVE HartFacts(g)'
  <2>1. HartFacts(g)
    BY DEF IInv, HartInv, HartFacts
  <2>2. CASE g = h
    <3> USE DEF Resting, Prologue, Installed, InUser, Saved, Epilogue,
                MaskedLabels, WatchedLabels, ArenaLabels
    <3>1. ModeInv(h)'
      BY <1>1, <2>1, <2>2 DEF HartFacts, ModeInv
    <3>2. CsrInv(h)'
      BY <1>1, <2>1, <2>2 DEF HartFacts, CsrInv, Home
    <3>3. GuardInv(h)'
      <4>1. cur'[h] = x /\ on'[h] = TRUE /\ bnd'[h] = <<"kernel", x>>
        BY DEF IInv, TypeOK
      <4>2. QED BY <1>1, <4>1 DEF GuardInv
    <3>4. ParkedInv(h)'
      BY <1>1 DEF ParkedInv
    <3>5. QED BY <2>2, <3>1, <3>2, <3>3, <3>4 DEF HartFacts
  <2>3. CASE g # h
    <3>1. cur'[g] = cur[g] /\ on'[g] = on[g] /\ bnd'[g] = bnd[g] /\ Label(g)' = Label(g)
      BY <2>3, <1>2 DEF IInv, TypeOK
    <3>2. ModeInv(g)' /\ CsrInv(g)'
      BY <2>1, <3>1 DEF HartFacts, ModeInv, CsrInv, Home
    <3>3. GuardInv(g)'
      BY <2>1, <3>1 DEF HartFacts, GuardInv
    <3>4. ParkedInv(g)'
      BY <2>1, <3>1 DEF HartFacts, ParkedInv, Home
    <3>5. QED BY <3>2, <3>3, <3>4 DEF HartFacts
  <2>4. QED BY <2>2, <2>3
<1>5. ASSUME NEW t \in Tasks PROVE TaskInv(t)'
  <2>1. CASE pc'[t] = pc[t]
    BY <2>1 DEF IInv, TaskInv
  <2>2. CASE pc'[t] # pc[t]
    <3>1. pc'[t] = "retired"
      BY <2>2 DEF IInv, TypeOK
    <3>2. QED BY <3>1 DEF TaskInv, Prologue, Installed, InUser, Saved, Epilogue
  <2>3. QED BY <2>1, <2>2
<1>6. VerdictExact'
  BY DEF IInv, TypeOK, VerdictExact
<1>7. QED BY <1>3, <1>4, <1>5, <1>6 DEF IInv, HartInv, HartFacts

LEMMA InterruptInv ==
    ASSUME IInv, NEW h \in Harts, NEW x \in Owners, Interrupt(h, x)
    PROVE  IInv'
<1>1. TypeOK'
  <2>1. TypeOK /\ h \in Harts /\ x \in Owners
    BY DEF IInv
  <2>2. fs' \in [Harts -> {Clean, Dirty}]
    BY <2>1, FSAssumption DEF TypeOK, Interrupt, Dispatch
  <2>3. bnd' \in [Harts -> Bounds]
    BY <2>1 DEF TypeOK, Interrupt, Dispatch, Bounds
  <2>4. cur' \in [Harts -> Owners] /\ on' \in [Harts -> BOOLEAN] /\ pend' \in [Harts -> BOOLEAN]
    BY <2>1 DEF TypeOK, Interrupt, Dispatch
  <2>5. QED BY <2>1, <2>2, <2>3, <2>4 DEF TypeOK, Interrupt, modeVars, csrVars, regVars,
               parkedVars, resultVars
<1>2. Label(h) \in Resting
  BY DEF Interrupt, Interrupted, Open, IInv, HartInv, ModeInv
<1>3. QED BY <1>1, <1>2, DispatchInv DEF Interrupt, PC

LEMMA HostRetireInv ==
    ASSUME IInv, NEW h \in Harts, NEW t \in Tasks, HostRetire(h, t)
    PROVE  IInv'
<1>1. TypeOK'
  BY FSAssumption DEF IInv, TypeOK, HostRetire, Dispatch, Goto, PC, Owners, modeVars,
     csrVars, regVars, parkedVars, resultVars, Bounds
<1>2. cur[h] = t /\ pc[t] = "decide" /\ Label(h) \in Resting
  BY IdleAssumption DEF HostRetire, At, Label, Resting
<1>3. QED BY <1>1, <1>2, DispatchInv DEF HostRetire, Goto, Ready, Owners, PC

LEMMA NextInv == IInv /\ [Next]_vars => IInv'
<1> SUFFICES ASSUME IInv, [Next]_vars PROVE IInv'
  OBVIOUS
<1>1. CASE Boot
  BY <1>1, BootInv
<1>2. CASE \E h \in Harts : External(h)
  BY <1>2, RaiseInv, KernelOverflowInv, InterruptInv DEF External
<1>3. ASSUME NEW h \in Harts, NEW t \in Tasks, Step(h, t) PROVE IInv'
  <2>1. CASE Enter(h, t)
    BY <2>1, EnterSaveMstatusInv, EnterMaskInv, EnterSnapshotInv, EnterRaiseInv,
       EnterGuardStopInv, EnterGuardHandOverInv, EnterInstallInv, EnterMcauseInv,
       EnterMstatusInv, EnterLoadRegsInv, EnterGuardStartInv, EnterMretInv DEF Enter
  <2>2. CASE User(h, t)
    BY <2>2, UserMoveSpInv, UserClobberGpInv, UserFpInv, UserTrapInv DEF User
  <2>3. CASE Trap(h, t)
    BY <2>3, TrapSaveInv, TrapGuardStopInv, TrapVerdictInv, TrapBoundsInv,
       TrapUnmaskInv, TrapVectorsInv, TrapGuardStartInv, TrapMcauseInv,
       TrapMstatusInv, TrapMretInv DEF Trap
  <2>4. CASE Host(h, t)
    BY <2>4, ResumeInv, HostResumeInv, HostRetireInv DEF Host
  <2>5. QED BY <1>3, <2>1, <2>2, <2>3, <2>4 DEF Step
<1>4. CASE UNCHANGED vars
  <2> USE <1>4 DEF vars, schedVars, modeVars, csrVars, guardVars, regVars,
                   parkedVars, resultVars
  <2>1. TypeOK'
    BY DEF IInv, TypeOK
  <2>2. QED BY <2>1, OutsideInv DEF IInv, SchedInv
<1>5. QED BY <1>1, <1>2, <1>3, <1>4 DEF Next

-----------------------------------------------------------------------------
\* The inductive invariant holds in every reachable state.
THEOREM Invariance == Spec => []IInv
<1>1. QED BY InitInv, NextInv, PTL DEF Spec

\* Every variable of the window, the harts and the contexts keeps its type.
THEOREM TypeCorrect == Spec => []TypeOK
<1>1. IInv => TypeOK
  BY DEF IInv
<1>2. QED BY Invariance, <1>1, PTL

\* However the host tasks migrate, a hart that can be preempted has its own
\* vectors, level and threshold.
THEOREM RegistersComeHome == Spec => []BorrowedRegistersHome
<1>1. IInv => BorrowedRegistersHome
  <2> SUFFICES ASSUME IInv, NEW h \in Harts, mode[h] = "M", Open(h)
               PROVE  csr[h] = Home(h) /\ thresh[h] = h
    BY DEF BorrowedRegistersHome
  <2>1. ModeInv(h) /\ CsrInv(h)
    BY DEF IInv, HartInv
  <2>2. Label(h) \in Resting
    BY <2>1 DEF ModeInv, Open, Resting
  <2>3. QED BY <2>1, <2>2 DEF CsrInv, Open
<1>2. QED BY Invariance, <1>1, PTL

\* However the host tasks migrate, a hart that can be preempted guards the
\* stack of the task it runs.
THEOREM GuardComesHome == Spec => []GuardWatchesTheTask
<1>1. IInv => GuardWatchesTheTask
  <2> SUFFICES ASSUME IInv, NEW h \in Harts, mode[h] = "M", Open(h)
               PROVE  on[h] /\ bnd[h] = <<"kernel", cur[h]>>
    BY DEF GuardWatchesTheTask
  <2>1. ModeInv(h) /\ GuardInv(h)
    BY DEF IInv, HartInv
  <2>2. Label(h) \in Resting
    BY <2>1 DEF ModeInv, Open, Resting
  <2>3. Label(h) \in WatchedLabels /\ Label(h) \notin ArenaLabels
    BY <2>2 DEF Resting, WatchedLabels, ArenaLabels, Installed, InUser
  <2>4. QED BY <2>1, <2>3 DEF GuardInv
<1>2. QED BY Invariance, <1>1, PTL

\* A hart in U-mode runs the user of its current task, unreachable by
\* interrupts, with the private vector and the guard set up for that user.
THEOREM WindowIsSealed == Spec => []WindowSealed
<1>1. IInv => WindowSealed
  <2> SUFFICES ASSUME IInv, NEW h \in Harts, mode[h] = "U"
               PROVE  /\ cur[h] \in Tasks /\ pc[cur[h]] = "user"
                      /\ masked[h]
                      /\ csr[h] = [mtvec |-> Private, mtvt |-> Private,
                                   mscratch |-> cur[h], mil |-> Zero]
                      /\ on[h] /\ bnd[h] = <<"arena", cur[h]>>
    BY DEF WindowSealed
  <2>1. ModeInv(h) /\ CsrInv(h) /\ GuardInv(h) /\ TypeOK
    BY DEF IInv, HartInv
  <2>2. Label(h) = "user"
    BY <2>1 DEF ModeInv
  <2>3. cur[h] \in Tasks /\ pc[cur[h]] = "user"
    BY <2>1, <2>2 DEF Label, TypeOK, Owners
  <2>4. QED BY <2>1, <2>2, <2>3 DEF CsrInv, GuardInv, InUser, MaskedLabels,
            WatchedLabels, ArenaLabels
<1>2. QED BY Invariance, <1>1, PTL

\* No mret ever runs kernel code in U-mode or the user in M-mode.
THEOREM PrivilegeIsRight == Spec => []PrivilegeMatchesCode
<1>1. IInv => PrivilegeMatchesCode
  BY IdleAssumption DEF IInv, HartInv, ModeInv, Label, PrivilegeMatchesCode
<1>2. QED BY Invariance, <1>1, PTL

\* sp_fired is set for exactly the windows in which that user's sp strayed.
THEOREM VerdictIsExact == Spec => []VerdictExact
<1>1. IInv => VerdictExact
  BY DEF IInv
<1>2. QED BY Invariance, <1>1, PTL

\* No hart is ever open to the stack-guard interrupt a user's sp asserts.
THEOREM ViolationIsQuiet == Spec => []UserViolationStaysQuiet
<1>1. IInv => UserViolationStaysQuiet
  <2> SUFFICES ASSUME IInv, NEW g \in Harts, NEW h \in Harts,
                      bnd[g][1] = "arena", h \in routed
               PROVE  FALSE
    BY DEF UserViolationStaysQuiet
  <2>1. GuardInv(g) /\ SchedInv /\ TypeOK
    BY DEF IInv, HartInv
  <2>2. cur[g] = Idle
    BY <2>1 DEF SchedInv, TypeOK
  <2>3. Label(g) \notin ArenaLabels
    BY <2>2 DEF Label, ArenaLabels, Installed, InUser
  <2>4. bnd[g] = <<"kernel", cur[g]>>
    BY <2>1, <2>3 DEF GuardInv
  <2>5. QED BY <2>4
<1>2. QED BY Invariance, <1>1, PTL

-----------------------------------------------------------------------------
\* An interrupt stops being pending only by reaching IDF's vector.
THEOREM InterruptsAreNotLost == Spec => InterruptsReachTheKernel
<1> DEFINE A == \A h \in Harts :
                  (pend[h] /\ ~pend'[h]) => csr[h].mtvec = h /\ csr[h].mtvt = h
<1>1. IInv /\ [Next]_vars => A
  <2> SUFFICES ASSUME IInv, [Next]_vars, NEW h \in Harts, pend[h], ~pend'[h]
               PROVE  csr[h].mtvec = h /\ csr[h].mtvt = h
    OBVIOUS
  <2>1. TypeOK /\ ModeInv(h) /\ CsrInv(h)
    BY DEF IInv, HartInv
  <2>2. ASSUME NEW g \in Harts, NEW x \in Owners, Interrupt(g, x)
        PROVE  csr[h].mtvec = h /\ csr[h].mtvt = h
    <3>1. g = h
      BY <2>1, <2>2 DEF Interrupt, TypeOK
    <3>2. Label(h) \in Resting
      BY <2>1, <2>2, <3>1 DEF Interrupt, Interrupted, Open, ModeInv
    <3>3. QED BY <2>1, <3>2 DEF CsrInv, Home
  <2>3. ASSUME NEW g \in Harts, NEW t \in Tasks, UserTrap(g, t)
        PROVE  FALSE
    <3>1. g = h /\ Interrupted(h)
      BY <2>1, <2>3 DEF UserTrap, TypeOK
    <3>2. Label(h) = "user"
      BY <2>1, <2>3, <3>1, IdleAssumption DEF UserTrap, Label
    <3>3. masked[h]
      BY <2>1, <3>2 DEF CsrInv, MaskedLabels, InUser
    <3>4. QED BY <3>1, <3>3 DEF Interrupted, Open
  <2>4. ASSUME NEW g \in Harts, NEW t \in Tasks, Step(g, t), ~UserTrap(g, t)
        PROVE  pend' = pend
    BY <2>4 DEF Step, Enter, User, Trap, Host, EnterSaveMstatus, EnterMask,
       EnterSnapshot, EnterRaise, EnterGuardStop, EnterGuardHandOver, EnterInstall,
       EnterMcause, EnterMstatus, EnterLoadRegs, EnterGuardStart, EnterMret,
       UserMoveSp, UserClobberGp, UserFp, TrapSave, TrapGuardStop, TrapVerdict,
       TrapBounds, TrapUnmask, TrapVectors, TrapGuardStart, TrapMcause,
       TrapMstatus, TrapMret, Resume, HostResume, HostRetire
  <2>5. ASSUME NEW g \in Harts, Raise(g) \/ KernelOverflow(g) \/ Boot
        PROVE  FALSE
    BY <2>1, <2>5 DEF Raise, KernelOverflow, Boot, TypeOK
  <2>6. QED BY <2>2, <2>3, <2>4, <2>5 DEF Next, External, vars
<1>2. QED BY <1>1, Invariance, PTL DEF Spec, InterruptsReachTheKernel

\* The trap path leaves the hart's coprocessor state as the user left it.
THEOREM ExitKeepsCoprocessor == Spec => ExitKeepsCoprocessorState
<1> DEFINE A == \A h \in Harts : \A t \in Tasks :
                  (cur[h] = t /\ pc[t] \in TrapLabels) => fs'[h] = fs[h]
<1>1. IInv /\ [Next]_vars => A
  <2> SUFFICES ASSUME IInv, [Next]_vars, NEW h \in Harts, NEW t \in Tasks,
                      cur[h] = t, pc[t] \in TrapLabels
               PROVE  fs'[h] = fs[h]
    OBVIOUS
  <2>1. TypeOK /\ SchedInv /\ HartInv
    BY DEF IInv
  <2>2. Label(h) = pc[t]
    BY IdleAssumption DEF Label
  <2>3. ASSUME NEW g \in Harts, Label(g) \notin TrapLabels,
               NEW v, fs' = [fs EXCEPT ![g] = v]
        PROVE  fs'[h] = fs[h]
    BY <2>1, <2>2, <2>3 DEF TypeOK
  <2>4. ASSUME NEW g \in Harts, NEW x \in Owners, Interrupt(g, x)
        PROVE  fs'[h] = fs[h]
    <3>1. Label(g) \in Resting
      BY <2>1, <2>4 DEF Interrupt, Interrupted, Open, HartInv, ModeInv
    <3>2. Label(g) \notin TrapLabels
      BY <3>1 DEF Resting, TrapLabels
    <3>3. QED BY <2>4, <3>2, <2>3 DEF Interrupt, Dispatch
  <2>5. ASSUME NEW g \in Harts, NEW u \in Tasks,
               EnterMstatus(g, u) \/ UserFp(g, u) \/ HostRetire(g, u)
        PROVE  fs'[h] = fs[h]
    <3>1. Label(g) \notin TrapLabels
      BY <2>5, IdleAssumption DEF EnterMstatus, UserFp, HostRetire, At, Label, TrapLabels
    <3>2. QED BY <2>5, <3>1, <2>3 DEF EnterMstatus, UserFp, HostRetire, Dispatch
  <2>6. ASSUME NEW g \in Harts, NEW u \in Tasks, Step(g, u),
               ~(EnterMstatus(g, u) \/ UserFp(g, u) \/ HostRetire(g, u))
        PROVE  fs' = fs
    BY <2>6 DEF Step, Enter, User, Trap, Host, EnterSaveMstatus, EnterMask,
       EnterSnapshot, EnterRaise, EnterGuardStop, EnterGuardHandOver, EnterInstall,
       EnterMcause, EnterLoadRegs, EnterGuardStart, EnterMret, UserMoveSp,
       UserClobberGp, UserTrap, TrapSave, TrapGuardStop, TrapVerdict, TrapBounds,
       TrapUnmask, TrapVectors, TrapGuardStart, TrapMcause, TrapMstatus, TrapMret,
       Resume, HostResume
  <2>7. ASSUME NEW g \in Harts, Raise(g) \/ KernelOverflow(g) \/ Boot
        PROVE  fs' = fs
    BY <2>7 DEF Raise, KernelOverflow, Boot
  <2>8. QED BY <2>4, <2>5, <2>6, <2>7 DEF Next, External, vars
<1>2. QED BY <1>1, Invariance, PTL DEF Spec, ExitKeepsCoprocessorState
=============================================================================
