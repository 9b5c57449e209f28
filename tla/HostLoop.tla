------------------------------ MODULE HostLoop ------------------------------
(***************************************************************************)
(* user_host_task() and syscall_dispatch() of kernel_main.c: one host task *)
(* per slot opens a U-mode window, accounts for the core it ran on,        *)
(* decides why it closed and serves the syscall, printing through the one  *)
(* console mutex it shares with the other host tasks and kernel_task().    *)
(*                                                                         *)
(* The tasks are unpinned: between any two steps a task may find itself on *)
(* another core.  A window is one step; UmodeWindow shows it stays on one  *)
(* core and that sp_fired is exact.                                        *)
(***************************************************************************)
EXTENDS Integers

CONSTANTS
    Slots,      \* the user slots, one host task each
    Kernel,     \* kernel_task
    Nobody,     \* holds the console when it is free
    Harts,      \* the cores
    Core0,      \* core number 0, what .bss holds
    Requests,   \* the syscalls the users make, a subset of Calls
    MaxWindows, \* bound: windows a slot opens
    MaxMoves    \* bound: times the scheduler moves a task

\* Syscall numbers, with a pointer that passes user_range_ok() or not.
Calls == {"nop", "write", "write_bad", "puts", "puts_bad", "delay", "yield",
          "getcore", "exit", "unknown"}

ASSUME RequestsAssumption == Requests \subseteq Calls
ASSUME CoreAssumption == Core0 \in Harts
ASSUME ActorsAssumption == Kernel \notin Slots /\ Nobody \notin Slots \cup {Kernel}
ASSUME BoundsAssumption == MaxWindows \in Nat /\ MaxMoves \in Nat

Actors == Slots \cup {Kernel}

\* What each call may answer in the saved a0; exit does not return.
Answers ==
    [r \in Calls |->
       CASE r \in {"nop", "puts", "delay", "yield"} -> {"zero"}
         [] r = "write"                   -> {"len"}
         [] r \in {"write_bad", "puts_bad"} -> {"SYS_ERR_FAULT"}
         [] r = "getcore"                 -> Harts
         [] r = "unknown"                 -> {"SYS_ERR_BADNR"}
         [] r = "exit"                    -> {}]
AnyAnswer == UNION {Answers[r] : r \in Calls}

Labels == {"start", "ready", "loop", "window", "sample", "account", "count",
           "decide", "details", "retire", "dispatch", "serve", "delay", "advance",
           "print", "printing", "deleted", "wait", "report", "figure", "again"}
Reasons == {"stack", "fault", "exit"}

VARIABLES
    where,      \* [Slots -> Harts] the core the host task is on
    moves,      \* how often the scheduler has moved it
    pc, after,  \* where a task is, and where it goes on when it has printed
    console,    \* the holder of g_console_mux
    core, migrations, syscalls, irqs, running, confirmed,   \* user_slot_t
    x_pc,       \* ctx->pc, as the number of ecalls it has been stepped past
    x_a0,       \* the last return value stored in ctx->x[10]
    sp_fired, cause, request, seen, ret,  \* results and locals of a pass
    windows,    \* windows opened
    said,       \* why the slot was retired, as reported
    table,      \* the figures of each slot in kernel_task's line
    unread, reading     \* slots the loop has to come to, and the one it is at

placeVars == <<where, moves>>
tableVars == <<table, unread, reading>>
restVars  == <<placeVars, tableVars>>
slotVars  == <<core, migrations, syscalls, irqs, running, confirmed, x_pc, x_a0>>
passVars  == <<sp_fired, cause, request, seen, ret, windows>>
Blank == [u \in Slots |-> [core |-> Core0, moves |-> 0]]

vars == <<restVars, pc, after, console, slotVars, passVars, said>>

Init ==
    /\ where \in [Slots -> Harts]
    /\ moves = [u \in Slots |-> 0]
    /\ pc = [a \in Actors |-> IF a = Kernel THEN "wait" ELSE "start"]
    /\ after = [a \in Actors |-> "wait"]
    /\ console = Nobody
    /\ core = [u \in Slots |-> Core0]
    /\ migrations = [u \in Slots |-> 0]
    /\ syscalls = [u \in Slots |-> 0]
    /\ irqs = [u \in Slots |-> 0]
    /\ running = [u \in Slots |-> FALSE]
    /\ confirmed = [u \in Slots |-> FALSE]
    /\ x_pc = [u \in Slots |-> 0]
    /\ x_a0 = [u \in Slots |-> "no answer"]
    /\ sp_fired = [u \in Slots |-> FALSE]
    /\ cause = [u \in Slots |-> "none"]
    /\ request = [u \in Slots |-> "no request"]
    /\ seen = [u \in Slots |-> Core0]
    /\ ret = [u \in Slots |-> "zero"]
    /\ windows = [u \in Slots |-> 0]
    /\ said = [u \in Slots |-> {}]
    /\ table = Blank
    /\ unread = {} /\ reading = Nobody

-----------------------------------------------------------------------------
At(a, l) == pc[a] = l
Goto(a, l) == pc' = [pc EXCEPT ![a] = l] /\ after' = after

\* kprintf() or kwrite(), then l.
Say(a, l) ==
    /\ pc' = [pc EXCEPT ![a] = "print"]
    /\ after' = [after EXCEPT ![a] = l]

\* Mutant: no mutex.
Take_Unlocked(a) ==
    /\ At(a, "print")
    /\ console' = a
    /\ Goto(a, "printing")
    /\ UNCHANGED <<restVars, slotVars, passVars, said>>

\* xSemaphoreTake, the output, xSemaphoreGive
Take(a) ==
    /\ At(a, "print") /\ console = Nobody
    /\ console' = a
    /\ Goto(a, "printing")
    /\ UNCHANGED <<restVars, slotVars, passVars, said>>

\* Mutant: a line that ends without giving the mutex back.
Give_Leaked(a) ==
    /\ At(a, "printing")
    /\ console' = console
    /\ Goto(a, after[a])
    /\ UNCHANGED <<restVars, slotVars, passVars, said>>

Give(a) ==
    /\ At(a, "printing")
    /\ console' = Nobody
    /\ Goto(a, after[a])
    /\ UNCHANGED <<restVars, slotVars, passVars, said>>

\* The scheduler moves an unpinned host task to another core.
Migrate(u) ==
    /\ pc[u] # "deleted" /\ moves[u] < MaxMoves
    /\ \E h \in Harts \ {where[u]} : where' = [where EXCEPT ![u] = h]
    /\ moves' = [moves EXCEPT ![u] = @ + 1]
    /\ UNCHANGED <<pc, after, console, slotVars, passVars, said, tableVars>>

-----------------------------------------------------------------------------
(* user_host_task() *)

\* Mutant: the starting core is not recorded.
Start_NoCore(u) ==
    /\ At(u, "start")
    /\ x_pc' = [x_pc EXCEPT ![u] = 0]
    /\ sp_fired' = [sp_fired EXCEPT ![u] = FALSE]
    /\ Say(u, "ready")
    /\ UNCHANGED <<restVars, console, core, migrations, syscalls, irqs, running,
                   confirmed, x_a0, cause, request, seen, ret, windows, said>>

\* The first core, user_ctx_init(), and the line that says so.
Start(u) ==
    /\ At(u, "start")
    /\ core' = [core EXCEPT ![u] = where[u]]
    /\ x_pc' = [x_pc EXCEPT ![u] = 0]
    /\ sp_fired' = [sp_fired EXCEPT ![u] = FALSE]
    /\ Say(u, "ready")
    /\ UNCHANGED <<restVars, console, migrations, syscalls, irqs, running,
                   confirmed, x_a0, cause, request, seen, ret, windows, said>>

Run(u) ==
    /\ At(u, "ready")
    /\ running' = [running EXCEPT ![u] = TRUE]
    /\ Goto(u, "loop")
    /\ UNCHANGED <<restVars, console, core, migrations, syscalls, irqs,
                   confirmed, x_pc, x_a0, passVars, said>>

\* while (u->running)
Loop(u) ==
    /\ At(u, "loop")
    /\ \/ running[u] /\ Goto(u, "window")
       \/ ~running[u] /\ Say(u, "deleted")
    /\ UNCHANGED <<restVars, console, slotVars, passVars, said>>

\* umode_enter(): the user goes on from x_pc with x_a0 until it traps, having
\* kept its sp inside its arena or not.
Window(u) ==
    /\ At(u, "window") /\ windows[u] < MaxWindows
    /\ windows' = [windows EXCEPT ![u] = @ + 1]
    /\ \E f \in BOOLEAN : sp_fired' = [sp_fired EXCEPT ![u] = f]
    /\ \/ \E r \in Requests :
            /\ cause' = [cause EXCEPT ![u] = "ecall"]
            /\ request' = [request EXCEPT ![u] = r]
       \/ \E c \in {"fault", "interrupt"} :
            /\ cause' = [cause EXCEPT ![u] = c]
            /\ UNCHANGED request
    /\ Goto(u, "sample")
    /\ UNCHANGED <<restVars, console, slotVars, seen, ret, said>>

\* const int core = xPortGetCoreID()
Sample(u) ==
    /\ At(u, "sample")
    /\ seen' = [seen EXCEPT ![u] = where[u]]
    /\ Goto(u, "account")
    /\ UNCHANGED <<restVars, console, slotVars, sp_fired, cause, request, ret,
                   windows, said>>

\* u->core = core, if it differs
Account(u) ==
    /\ At(u, "account")
    /\ core' = [core EXCEPT ![u] = seen[u]]
    /\ Goto(u, IF seen[u] = core[u] THEN "decide" ELSE "count")
    /\ UNCHANGED <<restVars, console, migrations, syscalls, irqs, running,
                   confirmed, x_pc, x_a0, passVars, said>>

\* u->migrations++
Count(u) ==
    /\ At(u, "count")
    /\ migrations' = [migrations EXCEPT ![u] = @ + 1]
    /\ Goto(u, "decide")
    /\ UNCHANGED <<restVars, console, core, syscalls, irqs, running, confirmed,
                   x_pc, x_a0, passVars, said>>

\* report_stack_fault(), checked before the trap cause
DecideStackFault(u) ==
    /\ At(u, "decide") /\ sp_fired[u]
    /\ said' = [said EXCEPT ![u] = @ \cup {"stack"}]
    /\ Say(u, "details")
    /\ UNCHANGED <<restVars, console, slotVars, passVars>>

\* An interrupt in U-mode: pick the user up where it was.
DecideInterrupt(u) ==
    /\ At(u, "decide") /\ ~sp_fired[u] /\ cause[u] = "interrupt"
    /\ irqs' = [irqs EXCEPT ![u] = @ + 1]
    /\ Goto(u, "loop")
    /\ UNCHANGED <<restVars, console, core, migrations, syscalls, running,
                   confirmed, x_pc, x_a0, passVars, said>>

\* Mutant: the cause is acted on before sp_fired is looked at.
DecideSyscall_CauseFirst(u) ==
    /\ At(u, "decide") /\ cause[u] = "ecall"
    /\ Goto(u, "dispatch")
    /\ UNCHANGED <<restVars, console, slotVars, passVars, said>>

DecideSyscall(u) ==
    /\ At(u, "decide") /\ ~sp_fired[u] /\ cause[u] = "ecall"
    /\ Goto(u, "dispatch")
    /\ UNCHANGED <<restVars, console, slotVars, passVars, said>>

\* report_fault(), up to its first line
ReportFault(u) ==
    /\ said' = [said EXCEPT ![u] = @ \cup {"fault"}]
    /\ Say(u, "details")

\* Mutant: the cause is acted on before sp_fired is looked at.
DecideFault_CauseFirst(u) ==
    /\ At(u, "decide") /\ cause[u] = "fault"
    /\ ReportFault(u)
    /\ UNCHANGED <<restVars, console, slotVars, passVars>>

\* A trap that is neither an interrupt nor an ecall.
DecideFault(u) ==
    /\ At(u, "decide") /\ ~sp_fired[u] /\ cause[u] = "fault"
    /\ ReportFault(u)
    /\ UNCHANGED <<restVars, console, slotVars, passVars>>

\* The second line of either report.
Details(u) ==
    /\ At(u, "details")
    /\ Say(u, "retire")
    /\ UNCHANGED <<restVars, console, slotVars, passVars, said>>

\* u->running = false, when the fault is reported or syscall_dispatch() has
\* returned false.
Retire(u) ==
    /\ At(u, "retire")
    /\ running' = [running EXCEPT ![u] = FALSE]
    /\ Goto(u, "loop")
    /\ UNCHANGED <<restVars, console, core, migrations, syscalls, irqs,
                   confirmed, x_pc, x_a0, passVars, said>>

-----------------------------------------------------------------------------
(* syscall_dispatch() *)

\* The counter, ret = 0, and the line the first syscall of a slot prints.
Dispatch(u) ==
    /\ At(u, "dispatch")
    /\ syscalls' = [syscalls EXCEPT ![u] = @ + 1]
    /\ ret' = [ret EXCEPT ![u] = "zero"]
    /\ confirmed' = [confirmed EXCEPT ![u] = TRUE]
    /\ IF confirmed[u] THEN Goto(u, "serve") ELSE Say(u, "serve")
    /\ UNCHANGED <<restVars, console, core, migrations, irqs, running, x_pc,
                   x_a0, sp_fired, cause, request, seen, windows, said>>

Serving(u, r) == At(u, "serve") /\ request[u] = r

\* What a call leaves in ret, and in no other variable but pc.
Returns(u, v) ==
    /\ ret' = [ret EXCEPT ![u] = v]
    /\ UNCHANGED <<restVars, console, slotVars, sp_fired, cause, request, seen,
                   windows, said>>

ServeNop(u) ==
    /\ Serving(u, "nop")
    /\ Goto(u, "advance")
    /\ Returns(u, ret[u])

\* taskYIELD() is one more point at which the scheduler may move the task.
ServeYield(u) ==
    /\ Serving(u, "yield")
    /\ Goto(u, "advance")
    /\ Returns(u, ret[u])

ServeWrite(u) ==
    /\ \/ Serving(u, "write") /\ Returns(u, "len")
       \/ Serving(u, "write_bad") /\ Returns(u, "SYS_ERR_FAULT")
    /\ Say(u, "advance")

\* Mutant: a rejected call returns without stepping past the ecall.
ServePuts_EarlyReturn(u) ==
    \/ Serving(u, "puts") /\ Returns(u, "zero") /\ Say(u, "advance")
    \/ Serving(u, "puts_bad") /\ Returns(u, "SYS_ERR_FAULT") /\ Say(u, "loop")

ServePuts(u) ==
    /\ \/ Serving(u, "puts") /\ Returns(u, "zero")
       \/ Serving(u, "puts_bad") /\ Returns(u, "SYS_ERR_FAULT")
    /\ Say(u, "advance")

\* vTaskDelay(), and the tick that ends it
ServeDelay(u) ==
    /\ Serving(u, "delay")
    /\ Goto(u, "delay")
    /\ Returns(u, ret[u])

Wake(u) ==
    /\ At(u, "delay")
    /\ Goto(u, "advance")
    /\ UNCHANGED <<restVars, console, slotVars, passVars, said>>

ServeGetcore(u) ==
    /\ Serving(u, "getcore")
    /\ Goto(u, "advance")
    /\ Returns(u, where[u])

ServeUnknown(u) ==
    /\ Serving(u, "unknown")
    /\ Say(u, "advance")
    /\ Returns(u, "SYS_ERR_BADNR")

\* SYS_EXIT returns false: the context is not stepped past its ecall.
ServeExit(u) ==
    /\ Serving(u, "exit")
    /\ said' = [said EXCEPT ![u] = @ \cup {"exit"}]
    /\ Say(u, "retire")
    /\ UNCHANGED <<restVars, console, slotVars, passVars>>

\* Mutant: a7 where the return value belongs.
Advance_WrongRegister(u) ==
    /\ At(u, "advance")
    /\ x_pc' = [x_pc EXCEPT ![u] = @ + 1]
    /\ x_a0' = [x_a0 EXCEPT ![u] = request[u]]
    /\ Goto(u, "loop")
    /\ UNCHANGED <<restVars, console, core, migrations, syscalls, irqs, running,
                   confirmed, passVars, said>>

\* Past the ecall, with the return value in a0.
Advance(u) ==
    /\ At(u, "advance")
    /\ x_pc' = [x_pc EXCEPT ![u] = @ + 1]
    /\ x_a0' = [x_a0 EXCEPT ![u] = ret[u]]
    /\ Goto(u, "loop")
    /\ UNCHANGED <<restVars, console, core, migrations, syscalls, irqs, running,
                   confirmed, passVars, said>>

-----------------------------------------------------------------------------
(* kernel_task() *)

KernelStep == UNCHANGED <<placeVars, console, slotVars, passVars, said>>

\* "Kernel n" once a second, and on some of them the table of windows.
KernelTick ==
    /\ pc[Kernel] \in {"wait", "again"}
    /\ \/ Say(Kernel, "wait") /\ UNCHANGED unread
       \/ Say(Kernel, "report") /\ unread' = Slots
    /\ table' = Blank
    /\ UNCHANGED reading /\ KernelStep

\* The two reads of a slot, without a lock; the order of the slots is free.
ReadCore(u) ==
    /\ At(Kernel, "report") /\ u \in unread
    /\ table' = [table EXCEPT ![u].core = core[u]]
    /\ unread' = unread \ {u} /\ reading' = u
    /\ Goto(Kernel, "figure") /\ KernelStep

ReadMigrations ==
    /\ At(Kernel, "figure")
    /\ table' = [table EXCEPT ![reading].moves = migrations[reading]]
    /\ reading' = Nobody
    /\ Goto(Kernel, "report") /\ UNCHANGED unread /\ KernelStep

KernelReport ==
    /\ At(Kernel, "report") /\ unread = {}
    /\ Say(Kernel, "again")
    /\ UNCHANGED tableVars /\ KernelStep

-----------------------------------------------------------------------------
Host(u) ==
    \/ Start(u) \/ Run(u) \/ Loop(u) \/ Window(u) \/ Sample(u) \/ Account(u)
    \/ Count(u) \/ DecideStackFault(u) \/ DecideInterrupt(u)
    \/ DecideSyscall(u) \/ DecideFault(u) \/ Details(u) \/ Retire(u)

Syscall(u) ==
    \/ Dispatch(u) \/ ServeNop(u) \/ ServeYield(u) \/ ServeWrite(u)
    \/ ServePuts(u) \/ ServeDelay(u) \/ Wake(u) \/ ServeGetcore(u)
    \/ ServeUnknown(u) \/ ServeExit(u) \/ Advance(u)

Console(a) == Take(a) \/ Give(a)

Next ==
    \/ \E u \in Slots : Host(u) \/ Syscall(u) \/ Migrate(u)
    \/ KernelTick \/ ReadMigrations \/ KernelReport
    \/ \E u \in Slots : ReadCore(u)
    \/ \E a \in Actors : Console(a)

Spec == Init /\ [][Next]_vars

\* Tasks of equal priority share the cores.  The console mutex wakes its
\* waiters in order, and kernel_task sleeps between its lines, so a task that
\* finds the console free again and again gets it.
Fairness ==
    /\ \A u \in Slots : WF_vars(Host(u)) /\ WF_vars(Syscall(u))
    /\ \A a \in Actors : SF_vars(Take(a)) /\ WF_vars(Give(a))

FairSpec == Spec /\ Fairness

-----------------------------------------------------------------------------
\* What the program in slot u sees of all this.
InPass(u) ==
    \/ pc[u] \in {"sample", "account", "count", "decide", "dispatch", "serve",
                  "delay", "advance"}
    \/ pc[u] \in {"print", "printing"} /\ after[u] \in {"serve", "advance"}

Asking(u) == said[u] = {} /\ InPass(u) /\ cause[u] = "ecall" /\ ~sp_fired[u]

Phase(u) ==
    IF said[u] # {} THEN "stopped"
    ELSE IF ~running[u] THEN "new"
    ELSE IF Asking(u) THEN "asking"
    ELSE "running"

Service == INSTANCE UserService
             WITH phase  <- [u \in Slots |-> Phase(u)],
                  ask    <- [u \in Slots |-> IF Asking(u) THEN request[u]
                                             ELSE "no request"],
                  answer <- x_a0

-----------------------------------------------------------------------------
\* Every variable keeps its type.
TypeOK ==
    /\ where \in [Slots -> Harts]
    /\ moves \in [Slots -> 0..MaxMoves]
    /\ pc \in [Actors -> Labels]
    /\ after \in [Actors -> Labels]
    /\ console \in Actors \cup {Nobody}
    /\ core \in [Slots -> Harts]
    /\ migrations \in [Slots -> Nat]
    /\ syscalls \in [Slots -> Nat]
    /\ irqs \in [Slots -> Nat]
    /\ running \in [Slots -> BOOLEAN]
    /\ confirmed \in [Slots -> BOOLEAN]
    /\ x_pc \in [Slots -> Nat]
    /\ x_a0 \in [Slots -> AnyAnswer \cup {"no answer"}]
    /\ sp_fired \in [Slots -> BOOLEAN]
    /\ cause \in [Slots -> {"none", "ecall", "fault", "interrupt"}]
    /\ request \in [Slots -> Requests \cup {"no request"}]
    /\ seen \in [Slots -> Harts]
    /\ ret \in [Slots -> AnyAnswer]
    /\ windows \in [Slots -> 0..MaxWindows]
    /\ said \in [Slots -> SUBSET Reasons]
    /\ table \in [Slots -> [core : Harts, moves : Nat]]
    /\ unread \subseteq Slots /\ reading \in Slots \cup {Nobody}

\* When a window opens, every earlier one has been accounted for exactly once,
\* as a syscall or as an interrupt, and the user has been stepped past every
\* ecall it made, rejected ones included, and past nothing else.
EveryWindowAccounted ==
    \A u \in Slots :
        pc[u] = "window" => /\ windows[u] = syscalls[u] + irqs[u]
                            /\ x_pc[u] = syscalls[u]

\* The move count of a slot never claims a move the scheduler did not make,
\* whenever the core is sampled, and while the core the slot records is not the
\* one its task is on, there is a move it has not counted yet: a slot that has
\* counted them all names the right core.  The line kernel_task puts together
\* without a lock, while the host tasks go on, claims no more than the slot.
MigrationsNeverOvercounted ==
    \A u \in Slots :
        /\ table[u].moves <= migrations[u]
        /\ migrations[u] <= moves[u]
        /\ (pc[u] # "start" /\ core[u] # where[u]) => migrations[u] < moves[u]

\* A slot whose task is gone was retired by its last window, for one reported
\* reason, and a stack fault is the reason whenever the guard fired, however
\* ordinary the trap that ended the window.
RetiredForTheRightReason ==
    \A u \in Slots :
        pc[u] = "deleted" =>
            said[u] = {IF sp_fired[u] THEN "stack"
                       ELSE IF cause[u] = "ecall" THEN "exit" ELSE cause[u]}

\* Two tasks never write to the console at the same time, and a task that is
\* gone or between two lines does not hold it.
OneWriter ==
    \A a \in Actors : pc[a] = "printing" <=> console = a

\* syscall.h says SYS_GETCORE answers "the core this window is running on":
\* the window that gets the answer would then be on that core.
GetcoreNamesTheCore ==
    [][\A u \in Slots :
         (windows'[u] > windows[u] /\ request[u] = "getcore" /\ cause[u] = "ecall")
           => where[u] = x_a0[u]]_vars

\* Every line a task wants to print is printed, and the task goes on.
EveryLinePrinted == \A a \in Actors : pc[a] = "print" ~> pc[a] = "printing"

\* Each program gets what UserService promises.
ServiceProvided == Service!Spec
=============================================================================
