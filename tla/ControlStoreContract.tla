------------------------ MODULE ControlStoreContract ------------------------
(***************************************************************************)
(* The control store keeps the contract of JobContract: the mapping from   *)
(* its tables to phases and epochs.                                        *)
(***************************************************************************)
EXTENDS ControlStore

PhaseOf(j) ==
    CASE job[j].state \in RunStates -> "held"
      [] job[j].state = "COMPLETED" -> "done"
      [] job[j].state = "FAILED" -> "failed"
      [] OTHER -> "waiting"

(***************************************************************************)
(* The largest of a set of epochs, 0 for none.                             *)
(***************************************************************************)
TopEpoch(E) == IF E = {} THEN 0 ELSE CHOOSE e \in E : \A f \in E : f <= e

HolderOf(j) == TopEpoch({attempt[a].fence : a \in {b \in AttemptsOf(j) : Exists(b)}})

(***************************************************************************)
(* Whose result the job carries: the newest attempt that completed.        *)
(***************************************************************************)
WinnerOf(j) ==
    IF job[j].state = "COMPLETED"
    THEN TopEpoch({attempt[a].fence :
                       a \in {b \in AttemptsOf(j) :
                                  attempt[b].state = "COMPLETED"}})
    ELSE 0

Contract ==
    INSTANCE JobContract WITH
        phase <- [j \in Job |-> PhaseOf(j)],
        holder <- [j \in Job |-> HolderOf(j)],
        winner <- [j \in Job |-> WinnerOf(j)],
        issued <- epoch

(***************************************************************************)
(* Every step of the store is a step of the contract or leaves what the    *)
(* contract speaks of alone: only the attempt with the newest epoch        *)
(* finishes a job, no report, renewal or failover that comes late changes  *)
(* who finished it, and a finished job never moves again.                  *)
(***************************************************************************)
KeepsContract == Contract!Spec
=============================================================================
