---------------------------- MODULE UmodeWindow ----------------------------
(***************************************************************************)
(* The U-mode window of umode.S: umode_enter() parks the trap state of the *)
(* hart it happens to run on, installs a private vector, hands the         *)
(* hardware stack guard to the user's stack and mrets to U-mode;           *)
(* umode_trap_entry puts all of it back and mrets to .Lkresume.            *)
(*                                                                         *)
(* One host task per user slot calls umode_enter() in a loop.  The tasks   *)
(* are not pinned, so FreeRTOS may move a task between harts at any        *)
(* instruction at which its hart takes interrupts.  A step of a task is a  *)
(* run of instructions between two points at which something outside can   *)
(* tell the difference.                                                    *)
(*                                                                         *)
(* The value a borrowed per-hart register rests at is represented by the   *)
(* hart itself, so that putting back the value of another hart shows even  *)
(* where IDF happens to program both alike.                                *)
(***************************************************************************)
EXTENDS Naturals, FiniteSets

CONSTANTS
    Harts,      \* the cores
    Tasks,      \* the host tasks; a task also names its slot and its context
    Idle,       \* any FreeRTOS task that never opens a window
    Private,    \* &umode_trap_entry and &umode_mtvt_table
    Raised,     \* UMODE_CLIC_THRESH_MASK
    Zero,       \* the zero a csrw puts in mcause; CLIC level 0
    UserWord,   \* whatever a user leaves in a register
    Clean, Dirty, \* coprocessor state, mstatus.FS
    FS          \* the coprocessor states the scheduler installs

Owners == Tasks \cup {Idle}

Word == Harts \cup Tasks \cup {Private, Raised, Zero, UserWord}

ASSUME HartsAssumption == Harts # {}
ASSUME IdleAssumption  == Idle \notin Tasks
ASSUME NoHartAssumption == Idle \notin Harts
ASSUME DisjointAssumption == Harts \cap (Tasks \cup {Private, Raised}) = {}
ASSUME PrivateAssumption  == Private # Raised /\ {Private, Raised} \cap Tasks = {}
ASSUME FSAssumption == FS # {} /\ FS \subseteq {Clean, Dirty}

PC == {"call", "mask", "snapshot", "raise", "stop", "handover", "install",
       "mcause", "mstatus", "load", "arm", "drop", "user",
       "save", "unwatch", "verdict", "bounds", "unmask", "vectors", "rearm",
       "kmcause", "kmstatus", "return", "resume", "decide", "retired"}

\* Inside umode_enter() with mstatus.MIE clear.
EntryMasked == {"snapshot", "raise", "stop", "handover", "install", "mcause",
                "mstatus", "load", "arm", "drop"}
\* Inside umode_trap_entry, up to its mret.
TrapLabels  == {"save", "unwatch", "verdict", "bounds", "unmask", "vectors",
                "rearm", "kmcause", "kmstatus", "return"}
\* Code that runs with mstatus.MIE set.
Preemptible == {"call", "mask", "resume", "decide", "retired"}

Csr     == [mtvec : Word, mtvt : Word, mscratch : Word, mil : Word]
Prev    == [mpp : {"M", "U"}, mpie : BOOLEAN, mpil : Word]
Mstatus == [mie : BOOLEAN, fs : {Clean, Dirty}]
Bounds  == {"kernel", "arena"} \X Owners
Causes  == {"none", "ecall", "fault", "interrupt"}

VARIABLES
    \* the scheduler
    cur,        \* [Harts -> Owners] the task each hart runs
    started,    \* kernel_main() has created the host tasks
    routed,     \* harts the assist_debug interrupt source is routed to
    pend,       \* [Harts -> BOOLEAN] an interrupt is pending at the hart
    \* each hart
    mode,       \* the privilege it runs at
    mie,        \* mstatus.MIE
    fs,         \* mstatus.FS
    prev,       \* the mret state, one copy aliased in mcause and mstatus
    csr,        \* the borrowed CSRs, and mintstatus.mil
    thresh,     \* the CLIC threshold register
    masked,     \* the threshold in effect masks every interrupt
    cause,      \* mcause.exccode and its interrupt bit
    \* each hart's stack guard (assist_debug)
    on,         \* the SP monitor is enabled, and with it its interrupt
    bnd,        \* SP_MIN .. SP_MAX: a stack and the task it belongs to
    raw,        \* INTR_RAW, sticky
    \* each host task: control and the registers FreeRTOS switches with it
    pc, sp, gp, a0,
    \* each host task's context (umode_ctx_t) and umode_enter() frame
    k_mstatus, k_csr, k_thresh, k_bounds, x_sp, x_mcause, sp_fired, kf_gp,
    \* what really happened
    strayed     \* the user's sp left its arena since the last mret to U-mode

schedVars  == <<cur, started, routed>>
modeVars   == <<mode, mie, prev>>
csrVars    == <<csr, thresh, masked>>
guardVars  == <<on, bnd, raw>>
regVars    == <<sp, gp, a0>>
parkedVars == <<k_mstatus, k_csr, k_thresh, k_bounds, kf_gp>>
resultVars == <<x_sp, x_mcause, sp_fired>>
vars == <<schedVars, pend, modeVars, fs, csrVars, cause, guardVars, pc,
          regVars, parkedVars, resultVars, strayed>>

-----------------------------------------------------------------------------
\* The hart takes interrupts: MIE gates them in M-mode only, the threshold
\* in both modes.
Open(h) == ~masked[h] /\ (mode[h] = "U" \/ mie[h])

\* A pending interrupt is taken before the hart's next instruction.
Interrupted(h) == pend[h] /\ Open(h)

\* Hart h is about to execute step l of task t.
At(h, t, l) == cur[h] = t /\ pc[t] = l /\ ~Interrupted(h)

Goto(t, l) == pc' = [pc EXCEPT ![t] = l]

\* The monitor of h compares the sp of t with the bounds; was is the latch
\* before the comparison.
Watch(h, t, was) ==
    raw' = [raw EXCEPT ![h] = was \/ (on'[h] /\ <<sp'[t], t>> # bnd'[h])]

\* What the borrowed CSRs of a hart rest at.
Home(h) == [mtvec |-> h, mtvt |-> h, mscratch |-> h, mil |-> h]

Init ==
    /\ cur = [h \in Harts |-> Idle]
    /\ started = FALSE
    /\ routed = Harts
    /\ pend = [h \in Harts |-> FALSE]
    /\ mode = [h \in Harts |-> "M"]
    /\ mie = [h \in Harts |-> TRUE]
    /\ prev = [h \in Harts |-> [mpp |-> "M", mpie |-> TRUE, mpil |-> h]]
    /\ fs \in [Harts -> FS]
    /\ csr = [h \in Harts |-> Home(h)]
    /\ thresh = [h \in Harts |-> h]
    /\ masked = [h \in Harts |-> FALSE]
    /\ cause = [h \in Harts |-> "none"]
    /\ on = [h \in Harts |-> TRUE]
    /\ bnd = [h \in Harts |-> <<"kernel", Idle>>]
    /\ raw = [h \in Harts |-> FALSE]
    /\ pc = [t \in Tasks |-> "call"]
    /\ sp = [t \in Tasks |-> "kernel"]
    /\ gp = [t \in Tasks |-> "kernel"]
    /\ a0 = [t \in Tasks |-> t]
    /\ k_mstatus = [t \in Tasks |-> [mie |-> FALSE, fs |-> Clean]]
    /\ k_csr = [t \in Tasks |->
                  [mtvec |-> Zero, mtvt |-> Zero, mscratch |-> Zero, mil |-> Zero]]
    /\ k_thresh = [t \in Tasks |-> Zero]
    /\ k_bounds = [t \in Tasks |-> <<"kernel", Idle>>]
    /\ x_sp = [t \in Tasks |-> "arena"]
    /\ x_mcause = [t \in Tasks |-> "none"]
    /\ sp_fired = [t \in Tasks |-> FALSE]
    /\ kf_gp = [t \in Tasks |-> "kernel"]
    /\ strayed = [t \in Tasks |-> FALSE]

-----------------------------------------------------------------------------
(* The world outside umode.S *)

\* Mutant: the core that runs kernel_main() keeps the source.
Boot_KeepsOneCore ==
    /\ ~started
    /\ started' = TRUE
    /\ \E h \in Harts : routed' = {h}
    /\ UNCHANGED <<cur, pend, modeVars, fs, csrVars, cause, guardVars, pc,
                   regVars, parkedVars, resultVars, strayed>>

\* kernel_main() takes the stack guard's interrupt source away from every
\* core, then creates the host tasks.
Boot ==
    /\ ~started
    /\ started' = TRUE
    /\ routed' = routed \ Harts
    /\ UNCHANGED <<cur, pend, modeVars, fs, csrVars, cause, guardVars, pc,
                   regVars, parkedVars, resultVars, strayed>>

\* A tick, a device or another core asks for an interrupt.
Raise(h) ==
    /\ ~pend[h]
    /\ pend' = [pend EXCEPT ![h] = TRUE]
    /\ UNCHANGED <<schedVars, modeVars, fs, csrVars, cause, guardVars, pc,
                   regVars, parkedVars, resultVars, strayed>>

\* M-mode code that may be interrupted (a task or a handler) runs its stack
\* past the bounds; the latch stays set until something clears it.
KernelOverflow(h) ==
    /\ mode[h] = "M" /\ Open(h) /\ on[h]
    /\ raw' = [raw EXCEPT ![h] = TRUE]
    /\ UNCHANGED <<schedVars, pend, modeVars, fs, csrVars, cause, on, bnd, pc,
                   regVars, parkedVars, resultVars, strayed>>

\* FreeRTOS may give hart h to x: x is what it runs, or idle, or a task that
\* is created, not deleted and not running anywhere.
Ready(h, x) ==
    \/ x \in {cur[h], Idle}
    \/ started /\ x \in Tasks /\ pc[x] # "retired" /\ \A g \in Harts : cur[g] # x

\* rtos_int_exit: x runs, the monitor is re-armed and watches its stack, and
\* the coprocessor state is whatever suits x.
Dispatch(h, x) ==
    /\ cur' = [cur EXCEPT ![h] = x]
    /\ on' = [on EXCEPT ![h] = TRUE]
    /\ bnd' = [bnd EXCEPT ![h] = <<"kernel", x>>]
    /\ IF x = cur[h]
       THEN fs' = fs
       ELSE \E v \in FS : fs' = [fs EXCEPT ![h] = v]

\* The pending interrupt reaches IDF's vector, is serviced, and may switch
\* the hart to another task.
Interrupt(h, x) ==
    /\ Interrupted(h) /\ mode[h] = "M" /\ csr[h].mtvec = h
    /\ Ready(h, x)
    /\ pend' = [pend EXCEPT ![h] = FALSE]
    /\ Dispatch(h, x)
    /\ UNCHANGED <<started, routed, modeVars, csrVars, cause, raw, pc, regVars,
                   parkedVars, resultVars, strayed>>

-----------------------------------------------------------------------------
(* umode_enter() *)

\* Mutant: the frame slot of gp is given another register.
EnterSaveMstatus_WrongSlot(h, t) ==
    /\ At(h, t, "call")
    /\ kf_gp' = [kf_gp EXCEPT ![t] = a0[t]]
    /\ k_mstatus' = [k_mstatus EXCEPT ![a0[t]] = [mie |-> mie[h], fs |-> fs[h]]]
    /\ Goto(t, "mask")
    /\ UNCHANGED <<schedVars, pend, modeVars, fs, csrVars, cause, guardVars,
                   regVars, k_csr, k_thresh, k_bounds, resultVars, strayed>>

\* The kernel frame, and mstatus: the one register read with MIE still set.
EnterSaveMstatus(h, t) ==
    /\ At(h, t, "call")
    /\ kf_gp' = [kf_gp EXCEPT ![t] = gp[t]]
    /\ k_mstatus' = [k_mstatus EXCEPT ![a0[t]] = [mie |-> mie[h], fs |-> fs[h]]]
    /\ Goto(t, "mask")
    /\ UNCHANGED <<schedVars, pend, modeVars, fs, csrVars, cause, guardVars,
                   regVars, k_csr, k_thresh, k_bounds, resultVars, strayed>>

\* Mutant: without the csrci.
EnterMask_Dropped(h, t) ==
    /\ At(h, t, "mask")
    /\ Goto(t, "snapshot")
    /\ UNCHANGED <<schedVars, pend, modeVars, fs, csrVars, cause, guardVars,
                   regVars, parkedVars, resultVars, strayed>>

\* csrci mstatus, MIE
EnterMask(h, t) ==
    /\ At(h, t, "mask")
    /\ mie' = [mie EXCEPT ![h] = FALSE]
    /\ Goto(t, "snapshot")
    /\ UNCHANGED <<schedVars, pend, mode, prev, fs, csrVars, cause, guardVars,
                   regVars, parkedVars, resultVars, strayed>>

\* mtvec, mtvt, mscratch and mintstatus into the context.  sp goes with
\* them; it is the task's own kernel stack.
EnterSnapshot(h, t) ==
    /\ At(h, t, "snapshot")
    /\ k_csr' = [k_csr EXCEPT ![a0[t]] = csr[h]]
    /\ Goto(t, "raise")
    /\ UNCHANGED <<schedVars, pend, modeVars, fs, csrVars, cause, guardVars,
                   regVars, k_mstatus, k_thresh, k_bounds, kf_gp, resultVars,
                   strayed>>

\* Mutant: parked, but not raised.
EnterRaise_NotRaised(h, t) ==
    /\ At(h, t, "raise")
    /\ k_thresh' = [k_thresh EXCEPT ![a0[t]] = thresh[h]]
    /\ Goto(t, "stop")
    /\ UNCHANGED <<schedVars, pend, modeVars, fs, csrVars, cause, guardVars,
                   regVars, k_mstatus, k_csr, k_bounds, kf_gp, resultVars,
                   strayed>>

\* The CLIC threshold is parked and raised; the read-back makes it effective.
EnterRaise(h, t) ==
    /\ At(h, t, "raise")
    /\ k_thresh' = [k_thresh EXCEPT ![a0[t]] = thresh[h]]
    /\ thresh' = [thresh EXCEPT ![h] = Raised]
    /\ masked' = [masked EXCEPT ![h] = TRUE]
    /\ Goto(t, "stop")
    /\ UNCHANGED <<schedVars, pend, modeVars, fs, csr, cause, guardVars,
                   regVars, k_mstatus, k_csr, k_bounds, kf_gp, resultVars,
                   strayed>>

\* ESP_HW_STACK_GUARD_MONITOR_STOP_CUR_CORE
EnterGuardStop(h, t) ==
    /\ At(h, t, "stop")
    /\ on' = [on EXCEPT ![h] = FALSE]
    /\ Goto(t, "handover")
    /\ UNCHANGED <<schedVars, pend, modeVars, fs, csrVars, cause, bnd, raw,
                   regVars, parkedVars, resultVars, strayed>>

\* Mutant: the latch is not cleared on the way in.
EnterGuardHandOver_StaleLatch(h, t) ==
    /\ At(h, t, "handover")
    /\ k_bounds' = [k_bounds EXCEPT ![a0[t]] = bnd[h]]
    /\ bnd' = [bnd EXCEPT ![h] = <<"arena", a0[t]>>]
    /\ UNCHANGED <<on, sp>>
    /\ Watch(h, t, raw[h])
    /\ Goto(t, "install")
    /\ UNCHANGED <<schedVars, pend, modeVars, fs, csrVars, cause, gp, a0,
                   k_mstatus, k_csr, k_thresh, kf_gp, resultVars, strayed>>

\* Clear the latch, park the host task's bounds, install the user's.
EnterGuardHandOver(h, t) ==
    /\ At(h, t, "handover")
    /\ k_bounds' = [k_bounds EXCEPT ![a0[t]] = bnd[h]]
    /\ bnd' = [bnd EXCEPT ![h] = <<"arena", a0[t]>>]
    /\ UNCHANGED <<on, sp>>
    /\ Watch(h, t, FALSE)
    /\ Goto(t, "install")
    /\ UNCHANGED <<schedVars, pend, modeVars, fs, csrVars, cause, gp, a0,
                   k_mstatus, k_csr, k_thresh, kf_gp, resultVars, strayed>>

\* Mutant: mscratch is not given the context.
EnterInstall_NoContext(h, t) ==
    /\ At(h, t, "install")
    /\ csr' = [csr EXCEPT ![h] = [mtvec |-> Private, mtvt |-> Private,
                                  mscratch |-> csr[h].mscratch, mil |-> csr[h].mil]]
    /\ Goto(t, "mcause")
    /\ UNCHANGED <<schedVars, pend, modeVars, fs, thresh, masked, cause,
                   guardVars, regVars, parkedVars, resultVars, strayed>>

\* The private table and vector, and mscratch for the vector to find the
\* context by.  mepc, the user's pc, is data here.
EnterInstall(h, t) ==
    /\ At(h, t, "install")
    /\ csr' = [csr EXCEPT ![h] = [mtvec |-> Private, mtvt |-> Private,
                                  mscratch |-> a0[t], mil |-> csr[h].mil]]
    /\ Goto(t, "mcause")
    /\ UNCHANGED <<schedVars, pend, modeVars, fs, thresh, masked, cause,
                   guardVars, regVars, parkedVars, resultVars, strayed>>

\* Mutant: mcause is left alone, and with it the previous interrupt level.
EnterMcause_Dropped(h, t) ==
    /\ At(h, t, "mcause")
    /\ Goto(t, "mstatus")
    /\ UNCHANGED <<schedVars, pend, modeVars, fs, csrVars, cause, guardVars,
                   regVars, parkedVars, resultVars, strayed>>

\* csrw mcause, zero: level 0, and through the alias MPP = U and MPIE = 0.
EnterMcause(h, t) ==
    /\ At(h, t, "mcause")
    /\ prev' = [prev EXCEPT ![h] = [mpp |-> "U", mpie |-> FALSE, mpil |-> Zero]]
    /\ cause' = [cause EXCEPT ![h] = "none"]
    /\ Goto(t, "mstatus")
    /\ UNCHANGED <<schedVars, pend, mode, mie, fs, csrVars, guardVars, regVars,
                   parkedVars, resultVars, strayed>>

\* The parked mstatus, FS included, with MPP = U, MIE = 0 and MPIE = 1.
EnterMstatus(h, t) ==
    /\ At(h, t, "mstatus")
    /\ prev' = [prev EXCEPT ![h] = [mpp |-> "U", mpie |-> TRUE,
                                    mpil |-> prev[h].mpil]]
    /\ mie' = [mie EXCEPT ![h] = FALSE]
    /\ fs' = [fs EXCEPT ![h] = k_mstatus[a0[t]].fs]
    /\ Goto(t, "load")
    /\ UNCHANGED <<schedVars, pend, mode, csrVars, cause, guardVars, regVars,
                   parkedVars, resultVars, strayed>>

\* The user's registers, sp last.  gp and tp are not loaded.
EnterLoadRegs(h, t) ==
    /\ At(h, t, "load")
    /\ sp' = [sp EXCEPT ![t] = x_sp[a0[t]]]
    /\ UNCHANGED <<on, bnd>>
    /\ Watch(h, t, raw[h])
    /\ Goto(t, "arm")
    /\ UNCHANGED <<schedVars, pend, modeVars, fs, csrVars, cause, gp, a0,
                   parkedVars, resultVars, strayed>>

\* ESP_HW_STACK_GUARD_MONITOR_START_CUR_CORE, on the user's stack
EnterGuardStart(h, t) ==
    /\ At(h, t, "arm")
    /\ on' = [on EXCEPT ![h] = TRUE]
    /\ UNCHANGED <<bnd, sp>>
    /\ Watch(h, t, raw[h])
    /\ Goto(t, "drop")
    /\ UNCHANGED <<schedVars, pend, modeVars, fs, csrVars, cause, gp, a0,
                   parkedVars, resultVars, strayed>>

\* mret: privilege, MIE and level come out of the mret state, which is left
\* at the least privilege.
Mret(h) ==
    /\ mode' = [mode EXCEPT ![h] = prev[h].mpp]
    /\ mie' = [mie EXCEPT ![h] = prev[h].mpie]
    /\ csr' = [csr EXCEPT ![h] = [mtvec |-> csr[h].mtvec, mtvt |-> csr[h].mtvt,
                                  mscratch |-> csr[h].mscratch,
                                  mil |-> prev[h].mpil]]
    /\ prev' = [prev EXCEPT ![h] = [mpp |-> "U", mpie |-> TRUE,
                                    mpil |-> prev[h].mpil]]

\* t0, t1 and a0, then the mret into the user.
EnterMret(h, t) ==
    /\ At(h, t, "drop")
    /\ Mret(h)
    /\ a0' = [a0 EXCEPT ![t] = UserWord]
    /\ strayed' = [strayed EXCEPT ![t] = sp[t] # "arena"]
    /\ Goto(t, "user")
    /\ UNCHANGED <<schedVars, pend, fs, thresh, masked, cause, guardVars, sp, gp,
                   parkedVars, resultVars>>

-----------------------------------------------------------------------------
(* The user, between the two mrets *)

\* The user moves its sp, inside its arena or out of it and back.
UserMoveSp(h, t) ==
    /\ At(h, t, "user")
    /\ \E s \in {"arena", "outside"} :
         /\ sp' = [sp EXCEPT ![t] = s]
         /\ strayed' = [strayed EXCEPT ![t] = @ \/ s = "outside"]
    /\ UNCHANGED <<on, bnd>>
    /\ Watch(h, t, raw[h])
    /\ UNCHANGED <<schedVars, pend, modeVars, fs, csrVars, cause, pc, gp, a0,
                   parkedVars, resultVars>>

\* The user overwrites gp.
UserClobberGp(h, t) ==
    /\ At(h, t, "user")
    /\ gp' = [gp EXCEPT ![t] = "user"]
    /\ UNCHANGED <<schedVars, pend, modeVars, fs, csrVars, cause, guardVars, pc,
                   sp, a0, parkedVars, resultVars, strayed>>

\* The user computes in the FPU.
UserFp(h, t) ==
    /\ At(h, t, "user")
    /\ fs' = [fs EXCEPT ![h] = Dirty]
    /\ UNCHANGED <<schedVars, pend, modeVars, csrVars, cause, guardVars, pc,
                   regVars, parkedVars, resultVars, strayed>>

\* The trap that ends the window: an ecall, a fault, or, if the hart takes
\* interrupts, the pending one, which the private vector claims.
UserTrap(h, t) ==
    /\ cur[h] = t /\ pc[t] = "user"
    /\ \E c \in IF Interrupted(h) THEN {"interrupt"} ELSE {"ecall", "fault"} :
         /\ cause' = [cause EXCEPT ![h] = c]
         /\ pend' = [pend EXCEPT ![h] = @ /\ c # "interrupt"]
    /\ prev' = [prev EXCEPT ![h] = [mpp |-> mode[h], mpie |-> mie[h],
                                    mpil |-> csr[h].mil]]
    /\ mode' = [mode EXCEPT ![h] = "M"]
    /\ mie' = [mie EXCEPT ![h] = FALSE]
    /\ Goto(t, "save")
    /\ UNCHANGED <<schedVars, fs, csrVars, guardVars, regVars, parkedVars,
                   resultVars, strayed>>

-----------------------------------------------------------------------------
(* umode_trap_entry *)

\* The swap with mscratch, the user's registers and the trap CSRs into the
\* context mscratch named; from here a0 is the context.
TrapSave(h, t) ==
    /\ At(h, t, "save")
    /\ csr[h].mscratch \in Tasks
    /\ a0' = [a0 EXCEPT ![t] = csr[h].mscratch]
    /\ csr' = [csr EXCEPT ![h] = [mtvec |-> csr[h].mtvec, mtvt |-> csr[h].mtvt,
                                  mscratch |-> UserWord, mil |-> csr[h].mil]]
    /\ x_sp' = [x_sp EXCEPT ![csr[h].mscratch] = sp[t]]
    /\ x_mcause' = [x_mcause EXCEPT ![csr[h].mscratch] = cause[h]]
    /\ Goto(t, "unwatch")
    /\ UNCHANGED <<schedVars, pend, modeVars, fs, thresh, masked, cause,
                   guardVars, sp, gp, parkedVars, sp_fired, strayed>>

\* ESP_HW_STACK_GUARD_MONITOR_STOP_CUR_CORE
TrapGuardStop(h, t) ==
    /\ At(h, t, "unwatch")
    /\ on' = [on EXCEPT ![h] = FALSE]
    /\ Goto(t, "verdict")
    /\ UNCHANGED <<schedVars, pend, modeVars, fs, csrVars, cause, bnd, raw,
                   regVars, parkedVars, resultVars, strayed>>

\* Mutant: the latch is cleared before it is read.
TrapVerdict_ClearFirst(h, t) ==
    /\ At(h, t, "verdict")
    /\ sp_fired' = [sp_fired EXCEPT ![a0[t]] = FALSE]
    /\ raw' = [raw EXCEPT ![h] = FALSE]
    /\ Goto(t, "bounds")
    /\ UNCHANGED <<schedVars, pend, modeVars, fs, csrVars, cause, on, bnd,
                   regVars, parkedVars, x_sp, x_mcause, strayed>>

\* INTR_RAW into sp_fired; the latch is cleared if it was set.
TrapVerdict(h, t) ==
    /\ At(h, t, "verdict")
    /\ sp_fired' = [sp_fired EXCEPT ![a0[t]] = raw[h]]
    /\ raw' = [raw EXCEPT ![h] = FALSE]
    /\ Goto(t, "bounds")
    /\ UNCHANGED <<schedVars, pend, modeVars, fs, csrVars, cause, on, bnd,
                   regVars, parkedVars, x_sp, x_mcause, strayed>>

\* The host task's bounds go back.
TrapBounds(h, t) ==
    /\ At(h, t, "bounds")
    /\ bnd' = [bnd EXCEPT ![h] = k_bounds[a0[t]]]
    /\ UNCHANGED <<on, sp>>
    /\ Watch(h, t, raw[h])
    /\ Goto(t, "unmask")
    /\ UNCHANGED <<schedVars, pend, modeVars, fs, csrVars, cause, gp, a0,
                   parkedVars, resultVars, strayed>>

\* Mutant: the threshold stays raised.
TrapUnmask_Dropped(h, t) ==
    /\ At(h, t, "unmask")
    /\ Goto(t, "vectors")
    /\ UNCHANGED <<schedVars, pend, modeVars, fs, csrVars, cause, guardVars,
                   regVars, parkedVars, resultVars, strayed>>

\* The threshold goes back, and is read back.
TrapUnmask(h, t) ==
    /\ At(h, t, "unmask")
    /\ thresh' = [thresh EXCEPT ![h] = k_thresh[a0[t]]]
    /\ masked' = [masked EXCEPT ![h] = k_thresh[a0[t]] = Raised]
    /\ Goto(t, "vectors")
    /\ UNCHANGED <<schedVars, pend, modeVars, fs, csr, cause, guardVars,
                   regVars, parkedVars, resultVars, strayed>>

\* mtvec, mtvt, mscratch and sp go back.
TrapVectors(h, t) ==
    /\ At(h, t, "vectors")
    /\ csr' = [csr EXCEPT ![h] = [mtvec |-> k_csr[a0[t]].mtvec,
                                  mtvt |-> k_csr[a0[t]].mtvt,
                                  mscratch |-> k_csr[a0[t]].mscratch,
                                  mil |-> csr[h].mil]]
    /\ sp' = [sp EXCEPT ![t] = "kernel"]
    /\ UNCHANGED <<on, bnd>>
    /\ Watch(h, t, raw[h])
    /\ Goto(t, "rearm")
    /\ UNCHANGED <<schedVars, pend, modeVars, fs, thresh, masked, cause, gp, a0,
                   parkedVars, resultVars, strayed>>

\* Mutant: the monitor is not restarted.
TrapGuardStart_Dropped(h, t) ==
    /\ At(h, t, "rearm")
    /\ Goto(t, "kmcause")
    /\ UNCHANGED <<schedVars, pend, modeVars, fs, csrVars, cause, guardVars,
                   regVars, parkedVars, resultVars, strayed>>

\* ESP_HW_STACK_GUARD_MONITOR_START_CUR_CORE, on the kernel's stack
TrapGuardStart(h, t) ==
    /\ At(h, t, "rearm")
    /\ on' = [on EXCEPT ![h] = TRUE]
    /\ UNCHANGED <<bnd, sp>>
    /\ Watch(h, t, raw[h])
    /\ Goto(t, "kmcause")
    /\ UNCHANGED <<schedVars, pend, modeVars, fs, csrVars, cause, gp, a0,
                   parkedVars, resultVars, strayed>>

\* mcause: MPP = M, MPIE and the level as they were parked.
TrapMcause(h, t) ==
    /\ At(h, t, "kmcause")
    /\ prev' = [prev EXCEPT ![h] = [mpp |-> "M", mpie |-> k_mstatus[a0[t]].mie,
                                    mpil |-> k_csr[a0[t]].mil]]
    /\ cause' = [cause EXCEPT ![h] = "none"]
    /\ Goto(t, "kmstatus")
    /\ UNCHANGED <<schedVars, pend, mode, mie, fs, csrVars, guardVars, regVars,
                   parkedVars, resultVars, strayed>>

\* Mutant: MPP is cleared and not set again.
TrapMstatus_MppUser(h, t) ==
    /\ At(h, t, "kmstatus")
    /\ prev' = [prev EXCEPT ![h] = [mpp |-> "U", mpie |-> k_mstatus[a0[t]].mie,
                                    mpil |-> prev[h].mpil]]
    /\ mie' = [mie EXCEPT ![h] = FALSE]
    /\ fs' = fs
    /\ Goto(t, "return")
    /\ UNCHANGED <<schedVars, pend, mode, csrVars, cause, guardVars, regVars,
                   parkedVars, resultVars, strayed>>

\* Mutant: the whole parked mstatus goes back.
TrapMstatus_WholeSnapshot(h, t) ==
    /\ At(h, t, "kmstatus")
    /\ prev' = [prev EXCEPT ![h] = [mpp |-> "M", mpie |-> k_mstatus[a0[t]].mie,
                                    mpil |-> prev[h].mpil]]
    /\ mie' = [mie EXCEPT ![h] = FALSE]
    /\ fs' = [fs EXCEPT ![h] = k_mstatus[a0[t]].fs]
    /\ Goto(t, "return")
    /\ UNCHANGED <<schedVars, pend, mode, csrVars, cause, guardVars, regVars,
                   parkedVars, resultVars, strayed>>

\* mstatus: this hart's, with MPP = M, MIE = 0 and MPIE as parked.
TrapMstatus(h, t) ==
    /\ At(h, t, "kmstatus")
    /\ prev' = [prev EXCEPT ![h] = [mpp |-> "M", mpie |-> k_mstatus[a0[t]].mie,
                                    mpil |-> prev[h].mpil]]
    /\ mie' = [mie EXCEPT ![h] = FALSE]
    /\ fs' = fs
    /\ Goto(t, "return")
    /\ UNCHANGED <<schedVars, pend, mode, csrVars, cause, guardVars, regVars,
                   parkedVars, resultVars, strayed>>

\* The mret to .Lkresume.
TrapMret(h, t) ==
    /\ At(h, t, "return")
    /\ Mret(h)
    /\ Goto(t, "resume")
    /\ UNCHANGED <<schedVars, pend, fs, thresh, masked, cause, guardVars,
                   regVars, parkedVars, resultVars, strayed>>

\* .Lkresume: the cause into a0 and the kernel's registers off the frame.
\* From here on a0 no longer names the context.
Resume(h, t) ==
    /\ At(h, t, "resume")
    /\ gp' = [gp EXCEPT ![t] = kf_gp[t]]
    /\ a0' = [a0 EXCEPT ![t] = UserWord]
    /\ Goto(t, "decide")
    /\ UNCHANGED <<schedVars, pend, modeVars, fs, csrVars, cause, guardVars, sp,
                   parkedVars, resultVars, strayed>>

-----------------------------------------------------------------------------
(* user_host_task(), as much of it as the window sees *)

\* An interrupt or a serviced syscall: open the window again.
HostResume(h, t) ==
    /\ At(h, t, "decide")
    /\ ~sp_fired[t] /\ x_mcause[t] # "fault"
    /\ a0' = [a0 EXCEPT ![t] = t]
    /\ Goto(t, "call")
    /\ UNCHANGED <<schedVars, pend, modeVars, fs, csrVars, cause, guardVars, sp,
                   gp, parkedVars, resultVars, strayed>>

\* A stack fault, a fault or SYS_EXIT: the task deletes itself.
HostRetire(h, t) ==
    /\ At(h, t, "decide")
    /\ sp_fired[t] \/ x_mcause[t] \in {"fault", "ecall"}
    /\ Goto(t, "retired")
    /\ Dispatch(h, Idle)
    /\ UNCHANGED <<started, routed, pend, modeVars, csrVars, cause, raw, regVars,
                   parkedVars, resultVars, strayed>>

-----------------------------------------------------------------------------
Enter(h, t) ==
    \/ EnterSaveMstatus(h, t) \/ EnterMask(h, t) \/ EnterSnapshot(h, t)
    \/ EnterRaise(h, t) \/ EnterGuardStop(h, t) \/ EnterGuardHandOver(h, t)
    \/ EnterInstall(h, t) \/ EnterMcause(h, t) \/ EnterMstatus(h, t)
    \/ EnterLoadRegs(h, t) \/ EnterGuardStart(h, t) \/ EnterMret(h, t)

Trap(h, t) ==
    \/ TrapSave(h, t) \/ TrapGuardStop(h, t) \/ TrapVerdict(h, t)
    \/ TrapBounds(h, t) \/ TrapUnmask(h, t) \/ TrapVectors(h, t)
    \/ TrapGuardStart(h, t) \/ TrapMcause(h, t) \/ TrapMstatus(h, t)
    \/ TrapMret(h, t)

Host(h, t) == Resume(h, t) \/ HostResume(h, t) \/ HostRetire(h, t)

User(h, t) == UserMoveSp(h, t) \/ UserClobberGp(h, t) \/ UserFp(h, t) \/ UserTrap(h, t)

Step(h, t) == Enter(h, t) \/ User(h, t) \/ Trap(h, t) \/ Host(h, t)

External(h) == Raise(h) \/ KernelOverflow(h) \/ \E x \in Owners : Interrupt(h, x)

Next ==
    \/ Boot
    \/ \E h \in Harts : External(h) \/ \E t \in Tasks : Step(h, t)

Spec == Init /\ [][Next]_vars

\* A hart keeps executing the code it is in, takes the interrupts it is open
\* to, and a user does not compute for ever: this is the cooperative user the
\* window is built for.
Fairness ==
    \A h \in Harts :
        /\ WF_vars(\E x \in Owners : Interrupt(h, x))
        /\ WF_vars(\E t \in Tasks : Enter(h, t) \/ Trap(h, t) \/ Host(h, t))
        /\ WF_vars(\E t \in Tasks : UserTrap(h, t))

FairSpec == Spec /\ Fairness

-----------------------------------------------------------------------------
\* Every variable keeps its type.
TypeOK ==
    /\ cur \in [Harts -> Owners]
    /\ started \in BOOLEAN
    /\ routed \subseteq Harts
    /\ pend \in [Harts -> BOOLEAN]
    /\ mode \in [Harts -> {"M", "U"}]
    /\ mie \in [Harts -> BOOLEAN]
    /\ fs \in [Harts -> {Clean, Dirty}]
    /\ prev \in [Harts -> Prev]
    /\ csr \in [Harts -> Csr]
    /\ thresh \in [Harts -> Word]
    /\ masked \in [Harts -> BOOLEAN]
    /\ cause \in [Harts -> Causes]
    /\ on \in [Harts -> BOOLEAN]
    /\ bnd \in [Harts -> Bounds]
    /\ raw \in [Harts -> BOOLEAN]
    /\ pc \in [Tasks -> PC]
    /\ sp \in [Tasks -> {"kernel", "arena", "outside"}]
    /\ gp \in [Tasks -> {"kernel", "user"}]
    /\ a0 \in [Tasks -> Tasks \cup {UserWord}]
    /\ k_mstatus \in [Tasks -> Mstatus]
    /\ k_csr \in [Tasks -> Csr]
    /\ k_thresh \in [Tasks -> Word]
    /\ k_bounds \in [Tasks -> Bounds]
    /\ x_sp \in [Tasks -> {"kernel", "arena", "outside"}]
    /\ x_mcause \in [Tasks -> Causes]
    /\ sp_fired \in [Tasks -> BOOLEAN]
    /\ kf_gp \in [Tasks -> {"kernel", "user"}]
    /\ strayed \in [Tasks -> BOOLEAN]

\* A hart that may take an M-mode interrupt has its own vectors, scratch
\* register, interrupt level and threshold in place, never those of the
\* window and never those of another hart the task was on before.
BorrowedRegistersHome ==
    \A h \in Harts : (mode[h] = "M" /\ Open(h)) => csr[h] = Home(h) /\ thresh[h] = h

\* A hart that may be preempted has its stack guard armed on the stack of
\* the task it runs, as FreeRTOS left it.
GuardWatchesTheTask ==
    \A h \in Harts :
        (mode[h] = "M" /\ Open(h)) => on[h] /\ bnd[h] = <<"kernel", cur[h]>>

\* While a hart is in U-mode it runs the user of its current task, no
\* interrupt can be taken, a trap finds the private vector and the task's
\* context at CLIC level 0, and the guard watches that user's arena.
WindowSealed ==
    \A h \in Harts :
        mode[h] = "U" =>
            /\ cur[h] \in Tasks /\ pc[cur[h]] = "user"
            /\ masked[h]
            /\ csr[h] = [mtvec |-> Private, mtvt |-> Private,
                         mscratch |-> cur[h], mil |-> Zero]
            /\ on[h] /\ bnd[h] = <<"arena", cur[h]>>

\* Kernel code never runs in U-mode and the user never runs in M-mode,
\* whichever of mcause and mstatus supplied the privilege an mret returned to.
PrivilegeMatchesCode ==
    \A h \in Harts : \A t \in Tasks :
        cur[h] = t => (mode[h] = "U" <=> pc[t] = "user")

\* The verdict the host loop reads is about this window and this user: set
\* if and only if the user's sp left its arena in the window that just
\* closed, whatever the kernel's stack, an earlier window or the other hart did.
VerdictExact ==
    \A t \in Tasks :
        pc[t] \in {"bounds", "unmask", "vectors", "rearm", "kmcause", "kmstatus",
                   "return", "resume", "decide"} => sp_fired[t] = strayed[t]

\* A violation latched on a user's stack asserts the assist_debug source; no
\* hart that could take that interrupt has it routed.
UserViolationStaysQuiet ==
    \A g, h \in Harts :
        (raw[g] /\ on[g] /\ bnd[g][1] = "arena" /\ h \in routed) => ~Open(h)

\* An interrupt stops being pending only by reaching IDF's vector: none is
\* claimed by the private vector, which would lose an edge-triggered one.
InterruptsReachTheKernel ==
    [][\A h \in Harts :
         (pend[h] /\ ~pend'[h]) => csr[h].mtvec = h /\ csr[h].mtvt = h]_vars

\* The trap path never changes the hart's coprocessor state: what the user
\* made of it is what the kernel gets.
ExitKeepsCoprocessorState ==
    [][\A h \in Harts : \A t \in Tasks :
         (cur[h] = t /\ pc[t] \in TrapLabels) => fs'[h] = fs[h]]_vars

\* The comments say that only the MIE bit of the parked mstatus is used, so
\* that umode_enter() would leave the hart's coprocessor state alone too.
EntryKeepsCoprocessorState ==
    [][\A h \in Harts : \A t \in Tasks :
         (cur[h] = t /\ pc[t] \in EntryMasked) => fs'[h] = fs[h]]_vars

\* The comments say that a user cannot hurt the kernel by clobbering gp and
\* tp, as the frame puts them back: code that can be interrupted in M-mode
\* would then have the kernel's.
KernelGpWhenPreemptible ==
    \A h \in Harts : \A t \in Tasks :
        (cur[h] = t /\ mode[h] = "M" /\ Open(h)) => gp[t] = "kernel"

\* A pending interrupt is eventually taken, window or no window.
InterruptsServed == \A h \in Harts : pend[h] ~> ~pend[h]

\* Every window ends: whoever enters U-mode is back at .Lkresume eventually.
WindowReturns == \A t \in Tasks : pc[t] = "user" ~> pc[t] = "resume"

-----------------------------------------------------------------------------
(* The contract of umode.h.  The window is open from the mret to the user to *)
(* the mret to .Lkresume; what the trap path has put in the context by then  *)
(* is what the host loop finds.                                              *)

Within(t) == pc[t] \in {"user"} \cup TrapLabels

Contract == INSTANCE WindowContract
              WITH Closed <- Idle,
                   place  <- [t \in Tasks |-> IF Within(t)
                                THEN CHOOSE h \in Harts : cur[h] = t ELSE Idle],
                   out    <- strayed,
                   result <- [t \in Tasks |-> IF Within(t) THEN "pending"
                                ELSE [cause |-> x_mcause[t], fired |-> sp_fired[t]]]

\* umode_enter() keeps the contract: one core from end to end, a result for
\* the window that has just closed, and every window closes.
ContractKept == Contract!Spec

-----------------------------------------------------------------------------
(* The inductive invariant.  What a hart holds is a function of the label of *)
(* the code it runs; what a task and its context hold is a function of the   *)
(* task's label, wherever the task is.                                       *)

\* Where hart h is.
Label(h) == IF cur[h] = Idle THEN "idle" ELSE pc[cur[h]]

Resting == {"idle", "call", "mask", "resume", "decide"}

\* From the csrci to the write of the private vector, from there to the mret.
Prologue  == {"snapshot", "raise", "stop", "handover", "install"}
Installed == {"mcause", "mstatus", "load", "arm", "drop"}
\* From the user's mret to the swap, from there to the kernel's vectors, and on.
InUser    == {"user", "save"}
Saved     == {"unwatch", "verdict", "bounds", "unmask", "vectors"}
Epilogue  == {"rearm", "kmcause", "kmstatus", "return"}

MaskedLabels  == {"stop", "handover", "install"} \cup Installed \cup InUser
                   \cup {"unwatch", "verdict", "bounds", "unmask"}
WatchedLabels == Resting \cup {"snapshot", "raise", "stop", "drop"} \cup InUser
                   \cup {"unwatch", "kmcause", "kmstatus", "return"}
ArenaLabels   == {"install"} \cup Installed \cup InUser
                   \cup {"unwatch", "verdict", "bounds"}

\* The mode, the interrupt enable and the state the next mret goes back to.
ModeInv(h) ==
    /\ mode[h] = IF Label(h) = "user" THEN "U" ELSE "M"
    /\ mie[h] <=> (Label(h) \in Resting \cup {"user"})
    /\ Label(h) \in {"mstatus", "load", "arm", "drop"} =>
         prev[h].mpp = "U" /\ prev[h].mpil = Zero
    /\ Label(h) \in {"load", "arm", "drop"} => prev[h].mpie
    /\ Label(h) \in {"kmstatus", "return"} =>
         prev[h].mpp = "M" /\ prev[h].mpie /\ prev[h].mpil = h

\* The borrowed registers and the threshold.
CsrInv(h) ==
    /\ Label(h) \in Resting \cup Prologue => csr[h] = Home(h)
    /\ Label(h) \in Installed =>
         csr[h] = [mtvec |-> Private, mtvt |-> Private, mscratch |-> cur[h], mil |-> h]
    /\ Label(h) \in InUser =>
         csr[h] = [mtvec |-> Private, mtvt |-> Private, mscratch |-> cur[h], mil |-> Zero]
    /\ Label(h) \in Saved =>
         csr[h] = [mtvec |-> Private, mtvt |-> Private, mscratch |-> UserWord, mil |-> Zero]
    /\ Label(h) \in Epilogue =>
         csr[h] = [mtvec |-> h, mtvt |-> h, mscratch |-> h, mil |-> Zero]
    /\ masked[h] <=> (Label(h) \in MaskedLabels)
    /\ thresh[h] = IF Label(h) \in MaskedLabels THEN Raised ELSE h

\* The stack guard: what it watches, and that its latch tells of this window.
GuardInv(h) ==
    /\ on[h] <=> (Label(h) \in WatchedLabels)
    /\ bnd[h] = <<IF Label(h) \in ArenaLabels THEN "arena" ELSE "kernel", cur[h]>>
    /\ Label(h) \in {"install"} \cup Installed => ~raw[h]
    /\ Label(h) \in InUser \cup {"unwatch", "verdict"} => (raw[h] <=> strayed[cur[h]])

\* What the context of a task holds for the hart the task is on.
ParkedInv(h) ==
    /\ Label(h) \in {"raise", "stop", "handover", "install"} \cup Installed \cup
         InUser \cup Saved \cup Epilogue => k_csr[cur[h]] = Home(h)
    /\ Label(h) \in MaskedLabels => k_thresh[cur[h]] = h
    /\ Label(h) \in ArenaLabels => k_bounds[cur[h]] = <<"kernel", cur[h]>>

HartInv == \A h \in Harts : ModeInv(h) /\ CsrInv(h) /\ GuardInv(h) /\ ParkedInv(h)

\* What a task holds wherever it is.
TaskInv(t) ==
    /\ pc[t] \notin InUser \cup {"decide", "retired"} => a0[t] = t
    /\ pc[t] \notin {"call", "resume", "decide", "retired"} => k_mstatus[t].mie
    /\ pc[t] \in {"call", "mask"} \cup Prologue \cup Installed => x_sp[t] = "arena"
    /\ pc[t] \in {"call", "mask"} \cup Prologue \cup {"mcause", "mstatus", "load"}
         \cup Epilogue \cup {"resume", "decide"} => sp[t] = "kernel"
    /\ pc[t] \in {"arm", "drop"} => sp[t] = "arena"
    /\ pc[t] \in InUser => (sp[t] = "arena" \/ strayed[t])
    /\ pc[t] \in Saved \cup Epilogue \cup {"resume", "decide"} =>
         (x_sp[t] = "arena" \/ strayed[t])

\* A task is on one hart at most, leaves it only where it can be preempted,
\* and runs only once the stack guard's source is routed nowhere.
SchedInv ==
    /\ \A g, h \in Harts : cur[g] = cur[h] => g = h \/ cur[g] = Idle
    /\ \A t \in Tasks : pc[t] \notin Preemptible => \E h \in Harts : cur[h] = t
    /\ \A h \in Harts : Label(h) # "retired"
    /\ started => routed = {}
    /\ ~started => \A h \in Harts : cur[h] = Idle

IInv ==
    /\ TypeOK
    /\ SchedInv
    /\ HartInv
    /\ \A t \in Tasks : TaskInv(t)
    /\ VerdictExact
=============================================================================
