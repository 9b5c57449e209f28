--------------------------- MODULE WindowContract ---------------------------
(***************************************************************************)
(* What umode.h promises the host loop of umode_enter(): the user runs on  *)
(* one core until it takes a trap, no other user runs on that core in the  *)
(* meantime, and on return the context tells why the window ended and      *)
(* whether the user's stack pointer ever left its arena.                   *)
(***************************************************************************)
CONSTANTS
    Harts, Tasks,
    Closed      \* not a core

VARIABLES
    place,  \* [Tasks -> Harts \cup {Closed}] where the task's window is open
    out,    \* the user has left its arena in its last window
    result  \* what the context says, while the window is closed

vars == <<place, out, result>>

Causes  == {"ecall", "fault", "interrupt"}
Results == [cause : Causes \cup {"none"}, fired : BOOLEAN] \cup {"pending"}

Init ==
    /\ place = [t \in Tasks |-> Closed]
    /\ out = [t \in Tasks |-> FALSE]
    /\ result = [t \in Tasks |-> [cause |-> "none", fired |-> FALSE]]

Open(t, h) ==
    /\ place[t] = Closed /\ \A u \in Tasks : place[u] # h
    /\ place' = [place EXCEPT ![t] = h]
    /\ out' = [out EXCEPT ![t] = FALSE]
    /\ result' = [result EXCEPT ![t] = "pending"]

Stray(t) ==
    /\ place[t] # Closed
    /\ out' = [out EXCEPT ![t] = TRUE]
    /\ UNCHANGED <<place, result>>

Close(t) ==
    /\ place[t] # Closed
    /\ place' = [place EXCEPT ![t] = Closed]
    /\ \E c \in Causes :
         result' = [result EXCEPT ![t] = [cause |-> c, fired |-> out[t]]]
    /\ UNCHANGED out

Next == \E t \in Tasks : Stray(t) \/ Close(t) \/ \E h \in Harts : Open(t, h)

Safety == Init /\ [][Next]_vars

\* Every window that opens closes.
Spec == Safety /\ \A t \in Tasks : WF_vars(Close(t))
=============================================================================
