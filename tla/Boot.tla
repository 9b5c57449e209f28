-------------------------------- MODULE Boot --------------------------------
(***************************************************************************)
(* kernel_main(): from the reset of every core to users in their windows.  *)
(* The guard's interrupt is un-routed, the PMP programmed one register at  *)
(* a time on every core, the slots set up, the report printed, and the     *)
(* tasks created while those created first already run.                    *)
(***************************************************************************)
EXTENDS Pmp

CONSTANTS
    NumCores,   \* SOC_CPU_CORES_NUM
    MainCore,   \* the core ESP-IDF pins its main task to
    NumSlots,   \* USER_SLOTS
    Kernel,     \* kernel_task
    None,       \* no window on a core
    Layouts,    \* what the linker may place where
    Resets      \* what the PMP of a core may hold when kernel_main() starts

Cores == 0 .. NumCores - 1
Slots == 0 .. NumSlots - 1

ASSUME BootAssumption ==
    /\ NumCores \in Nat /\ MainCore \in Cores
    /\ NumSlots \in Nat \ {0} /\ None \notin Slots /\ Kernel \notin Slots

\* The linker and the chip keep the three ranges apart, and out of TCM.
ASSUME LayoutAssumption ==
    \A l \in Layouts : \A g \in 1 .. 3 :
        /\ Grants(l)[g].range.lo \in Unit /\ Grants(l)[g].range.hi \in Unit
        /\ \A h \in 1 .. g - 1 :
             Within(Grants(l)[g].range) \cap Within(Grants(l)[h].range) = {}
        /\ Within(Grants(l)[g].range) \cap Within(Regions.tcm) = {}

\* Where nobody has locked anything, the reset has left every entry off; and what
\* is locked leaves the end of the address space alone.
ASSUME ResetAssumption ==
    \A f \in Resets :
        /\ f \in [Entries -> Entry]
        /\ Unlocked(f) => \A i \in Entries : f[i].mode = "OFF"
        /\ \A i \in Entries : f[i].lock => ~Matches(f, i, Top - 1)

VARIABLES
    layout,     \* the ranges of the grants, user_main and g_slots
    at,         \* the part of kernel_main() that runs
    n,          \* its loop counter
    csrw,       \* registers umode_pmp_program() has written on this core
    pmp,        \* [Cores -> the entries of that core]
    routed,     \* cores with the assist_debug source routed
    mux,        \* g_console_mux exists
    ready,      \* slots whose name, id and arena are set
    created,    \* kernel_task, and slots whose host task exists
    told,       \* the reports boot_report() has printed
    window      \* [Cores -> the slot whose window is open there, or None]

vars == <<layout, at, n, csrw, pmp, routed, mux, ready, created, told, window>>

Init ==
    /\ layout \in Layouts
    /\ at = "mutex"
    /\ n = 0 /\ csrw = 0
    /\ \E f \in Resets : pmp = [c \in Cores |-> f]
    /\ routed = Cores
    /\ mux = FALSE
    /\ ready = {} /\ created = {}
    /\ told = {}
    /\ window = [c \in Cores |-> None]

-----------------------------------------------------------------------------
\* Host tasks outrank the main task: it runs while no window holds its core.
MainAt(part) == at = part /\ window[MainCore] = None

\* One turn of a for loop of kernel_main(), and what follows the last.
Turn(count, next) ==
    IF n + 1 < count THEN n' = n + 1 /\ at' = at ELSE n' = 0 /\ at' = next

CreateMutex ==
    /\ MainAt("mutex")
    /\ mux' = TRUE /\ at' = "unroute"
    /\ UNCHANGED <<layout, n, csrw, pmp, routed, ready, created, told, window>>

UnrouteGuard ==
    /\ MainAt("unroute")
    /\ routed' = routed \ {n}
    /\ Turn(NumCores, "apply")
    /\ UNCHANGED <<layout, csrw, pmp, mux, ready, created, told, window>>

\* pmp_apply_all_cores(): this core, then every other by a blocking IPC.
CoreOrder ==
    [k \in 1 .. NumCores |-> IF k = 1 THEN MainCore
                            ELSE IF k - 2 < MainCore THEN k - 2 ELSE k - 1]

\* Mutant: an entry is enabled before its address is there.
RegisterWritten_CfgFirst(f, k, table) ==
    IF k < Last4 THEN WriteCfg(f, k, table)
                 ELSE WriteAddr(f, k - Last4, table[k - Last4].addr)

\* The k-th csrw of umode_pmp_program(): the addresses, then the
\* configurations.
RegisterWritten(f, k, table) ==
    IF k \in Entries THEN WriteAddr(f, k, table[k].addr)
                     ELSE WriteCfg(f, k - 4 * Last4, table)

\* Mutant: the IPC is left out.
ProgramPmp_OwnCoreOnly ==
    /\ MainAt("apply")
    /\ pmp' = [pmp EXCEPT ![MainCore] = RegisterWritten(@, csrw, Table(layout))]
    /\ IF csrw + 1 < 5 * Last4
       THEN csrw' = csrw + 1 /\ UNCHANGED <<n, at>>
       ELSE csrw' = 0 /\ Turn(1, "slots")
    /\ UNCHANGED <<layout, routed, mux, ready, created, told, window>>

ProgramPmp ==
    /\ MainAt("apply")
    /\ pmp' = [pmp EXCEPT ![CoreOrder[n + 1]] =
                 RegisterWritten(@, csrw, Table(layout))]
    /\ IF csrw + 1 < 5 * Last4
       THEN csrw' = csrw + 1 /\ UNCHANGED <<n, at>>
       ELSE csrw' = 0 /\ Turn(NumCores, "slots")
    /\ UNCHANGED <<layout, routed, mux, ready, created, told, window>>

\* Mutant: the loop runs one slot past the table.
SetUpSlot_Past ==
    /\ MainAt("slots")
    /\ ready' = ready \cup {n}
    /\ Turn(NumSlots + 1, "report")
    /\ UNCHANGED <<layout, csrw, pmp, routed, mux, created, told, window>>

SetUpSlot ==
    /\ MainAt("slots")
    /\ ready' = ready \cup {n}
    /\ Turn(NumSlots, "report")
    /\ UNCHANGED <<layout, csrw, pmp, routed, mux, created, told, window>>

\* boot_report() reads the registers of the core it runs on, which nothing
\* writes any more.
BootReport ==
    /\ MainAt("report")
    /\ told' = told \cup {[gaps  |-> Report(pmp[MainCore]),
                            tcm   |-> layout.table \in Within(Regions.tcm),
                            fetch |-> layout.user \in Within(layout.iram)]}
    /\ at' = "kernel"
    /\ UNCHANGED <<layout, n, csrw, pmp, routed, mux, ready, created, window>>

CreateKernelTask ==
    /\ MainAt("kernel")
    /\ created' = created \cup {Kernel}
    /\ at' = "hosts"
    /\ UNCHANGED <<layout, n, csrw, pmp, routed, mux, ready, told, window>>

\* Mutant: a slot's host task is created as soon as the slot is set up.
CreateHost_WithSlot ==
    /\ at \in {"slots", "report", "hosts"} /\ window[MainCore] = None
    /\ \E s \in ready \ created : created' = created \cup {s}
    /\ at' = IF Slots \subseteq created' THEN "done" ELSE at
    /\ UNCHANGED <<layout, n, csrw, pmp, routed, mux, ready, told, window>>

CreateHost ==
    /\ MainAt("hosts")
    /\ created' = created \cup {n}
    /\ Turn(NumSlots, "done")
    /\ UNCHANGED <<layout, csrw, pmp, routed, mux, ready, told, window>>

\* A host task opens its window on whichever core it finds itself.
OpenWindow(s, c) ==
    /\ s \in created /\ window[c] = None
    /\ \A d \in Cores : window[d] # s
    /\ window' = [window EXCEPT ![c] = s]
    /\ UNCHANGED <<layout, at, n, csrw, pmp, routed, mux, ready, created, told>>

CloseWindow(c) ==
    /\ window[c] # None
    /\ window' = [window EXCEPT ![c] = None]
    /\ UNCHANGED <<layout, at, n, csrw, pmp, routed, mux, ready, created, told>>

Next ==
    \/ CreateMutex \/ UnrouteGuard \/ ProgramPmp \/ SetUpSlot \/ BootReport
    \/ CreateKernelTask \/ CreateHost
    \/ \E c \in Cores : CloseWindow(c) \/ \E s \in Slots : OpenWindow(s, c)

Spec == Init /\ [][Next]_vars

-----------------------------------------------------------------------------
\* Types: each variable holds what its declaration in the code, or the
\* register it stands for, can hold.
TypeOK ==
    /\ layout \in Layouts
    /\ at \in {"mutex", "unroute", "apply", "slots", "report", "kernel",
              "hosts", "done"}
    /\ n \in 0 .. NumCores + NumSlots /\ csrw \in 0 .. 5 * Last4 - 1
    /\ pmp \in [Cores -> [Entries -> Entry]]
    /\ routed \subseteq Cores /\ mux \in BOOLEAN
    /\ ready \subseteq Slots /\ created \subseteq Slots \cup {Kernel}
    /\ window \in [Cores -> Slots \cup {None}]

\* umode_pmp_program() leaves a half-written table behind each of its twenty
\* writes: where nothing was locked before, none of them lets U-mode reach a
\* unit that the finished table does not ("no entry is ever briefly enabled
\* against a stale bound").
NeverGrantsMore ==
    \A c \in Cores : Unlocked(pmp[c]) =>
        \A op \in Perms : Reach(pmp[c], op) \subseteq Intended(layout, op)

\* A user in a window, on whichever core it came to run, has the three grants
\* of pmp_apply() and nothing besides.
UsersReachExactly ==
    \A c \in Cores : window[c] # None /\ Unlocked(pmp[c]) =>
        \A op \in Perms : Reach(pmp[c], op) = Intended(layout, op)

\* kernel_task and the first users run while kernel_main() still creates the
\* others: by then all they read must be there, every slot of the table and
\* the console's lock; the report, which is not meant to be interleaved, must
\* be out; and no core may be open to the interrupt of another's guard.
TasksFindAllPrepared ==
    created # {} => mux /\ routed = {} /\ ready = Slots /\ told # {}

\* boot_report() speaks for every core though it read one: a unit is named as
\* matched by no entry exactly if none matches it, so U-mode reaches none of
\* them, and where nothing was locked it reaches all the others; the fetch of
\* user_main succeeds if it says so, and a slot table in TCM is out of reach.
ReportTruthful ==
    \A report \in told, c \in Cores :
        /\ \A name \in DOMAIN Regions :
             report.gaps[name] = {x \in Within(Regions[name]) :
                                  \A i \in Entries : ~Matches(pmp[c], i, x)}
        /\ Unlocked(pmp[c]) =>
             /\ \A name \in DOMAIN Regions :
                  Within(Regions[name]) \ report.gaps[name] \subseteq
                      UNION {Reach(pmp[c], op) : op \in Perms}
             /\ report.fetch <=> layout.user \in Reach(pmp[c], "X")
             /\ report.tcm => \A op \in Perms : layout.table \notin Reach(pmp[c], op)
=============================================================================
