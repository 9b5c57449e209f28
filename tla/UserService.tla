---------------------------- MODULE UserService ----------------------------
(***************************************************************************)
(* What the kernel promises a user program, whatever core it runs on and   *)
(* however its windows are cut up by traps: a program runs, asks, gets     *)
(* exactly one answer to each question, and once stopped stays stopped.    *)
(***************************************************************************)
CONSTANTS
    Slots,      \* the user programs
    Requests,   \* what a program can ask
    Answers     \* [Requests -> set of answers]; none means the call is final

VARIABLES
    phase,      \* [Slots -> {"new", "running", "asking", "stopped"}]
    ask,        \* [Slots -> the request while asking, NoRequest otherwise]
    answer      \* [Slots -> the last answer]

serviceVars == <<phase, ask, answer>>

NoRequest == "no request"
NoAnswer  == "no answer"

Init ==
    /\ phase = [u \in Slots |-> "new"]
    /\ ask = [u \in Slots |-> NoRequest]
    /\ answer = [u \in Slots |-> NoAnswer]

Start(u) ==
    /\ phase[u] = "new"
    /\ phase' = [phase EXCEPT ![u] = "running"]
    /\ UNCHANGED <<ask, answer>>

Ask(u) ==
    /\ phase[u] = "running"
    /\ \E r \in Requests : ask' = [ask EXCEPT ![u] = r]
    /\ phase' = [phase EXCEPT ![u] = "asking"]
    /\ UNCHANGED answer

Reply(u) ==
    /\ phase[u] = "asking"
    /\ \E a \in Answers[ask[u]] : answer' = [answer EXCEPT ![u] = a]
    /\ ask' = [ask EXCEPT ![u] = NoRequest]
    /\ phase' = [phase EXCEPT ![u] = "running"]

\* A running program may fault; an asking one stops only on a final call.
Stop(u) ==
    /\ phase[u] = "running" \/ (phase[u] = "asking" /\ Answers[ask[u]] = {})
    /\ phase' = [phase EXCEPT ![u] = "stopped"]
    /\ ask' = [ask EXCEPT ![u] = NoRequest]
    /\ UNCHANGED answer

Next == \E u \in Slots : Start(u) \/ Ask(u) \/ Reply(u) \/ Stop(u)

\* Whoever has asked is not left waiting.
Spec ==
    /\ Init /\ [][Next]_serviceVars
    /\ \A u \in Slots : WF_serviceVars(Reply(u) \/ (phase[u] = "asking" /\ Stop(u)))
=============================================================================
