---------------------------- MODULE JobContract -----------------------------
(***************************************************************************)
(* What a pool promises about a job, without tables, sessions or clocks.   *)
(* A job waits or is held by exactly one holder, named by the epoch it was *)
(* given.  Epochs are issued once and grow.  Only the present holder can   *)
(* finish the job; what earlier holders do later has no effect.  A job     *)
(* that is done or failed stays so.                                        *)
(***************************************************************************)
EXTENDS Naturals

CONSTANT Job

VARIABLES
    phase,      \* "waiting", "held", "done" or "failed", by job
    holder,     \* the epoch last given to a holder of the job, 0 for none
    winner,     \* the epoch whose holder finished the job, 0 for none
    issued      \* the last epoch given to anyone

contractVars == <<phase, holder, winner, issued>>

Init ==
    /\ phase = [j \in Job |-> "waiting"]
    /\ holder = [j \in Job |-> 0]
    /\ winner = [j \in Job |-> 0]
    /\ issued = 0

Assign(j) ==
    /\ phase[j] = "waiting"
    /\ phase' = [phase EXCEPT ![j] = "held"]
    /\ issued' = issued + 1
    /\ holder' = [holder EXCEPT ![j] = issued + 1]
    /\ UNCHANGED winner

Withdraw(j) ==
    /\ phase[j] = "held"
    /\ phase' = [phase EXCEPT ![j] = "waiting"]
    /\ UNCHANGED <<holder, winner, issued>>

Finish(j) ==
    /\ phase[j] = "held"
    /\ phase' = [phase EXCEPT ![j] = "done"]
    /\ winner' = [winner EXCEPT ![j] = holder[j]]
    /\ UNCHANGED <<holder, issued>>

Fail(j) ==
    /\ phase[j] \in {"waiting", "held"}
    /\ phase' = [phase EXCEPT ![j] = "failed"]
    /\ UNCHANGED <<holder, winner, issued>>

Next == \E j \in Job : Assign(j) \/ Withdraw(j) \/ Finish(j) \/ Fail(j)

Spec == Init /\ [][Next]_contractVars
=============================================================================
