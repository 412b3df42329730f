------------------------------ MODULE JobState ------------------------------
(***************************************************************************)
(* The normative job state machine of crates/protocol (job_state.rs): the  *)
(* table of allowed transitions, as the set of its rows without the names  *)
(* of their triggers, and the walk that checks a path against it.          *)
(***************************************************************************)
EXTENDS Naturals, Sequences

JobStates ==
    {"SUBMITTED", "PLANNING", "QUEUED", "STAGING", "RUNNING", "PAUSED",
     "INTERRUPTED", "REPLANNING", "RECONCILING", "COMPLETED", "FAILED",
     "CANCELLED", "ARCHIVED"}

(***************************************************************************)
(* The states job_store.rs reads back; the others are only walked through. *)
(***************************************************************************)
StoredJobStates ==
    {"SUBMITTED", "PLANNING", "QUEUED", "STAGING", "RUNNING", "PAUSED",
     "COMPLETED", "FAILED"}

RunStates == {"STAGING", "RUNNING"}

SchedulableStates == {"QUEUED", "PAUSED"}

JobTransitions ==
    {"SUBMITTED"} \X {"PLANNING", "CANCELLED"}
        \cup {"PLANNING"} \X {"QUEUED", "FAILED", "CANCELLED"}
        \cup {"QUEUED"} \X {"STAGING", "PLANNING", "FAILED", "CANCELLED"}
        \cup {"STAGING"} \X {"RUNNING", "FAILED", "QUEUED", "CANCELLED"}
        \cup {"RUNNING"} \X {"COMPLETED", "INTERRUPTED", "FAILED", "PAUSED",
                             "RECONCILING", "CANCELLED"}
        \cup {"INTERRUPTED"} \X {"REPLANNING", "FAILED", "CANCELLED"}
        \cup {"REPLANNING"} \X {"QUEUED", "STAGING", "FAILED", "CANCELLED"}
        \cup {"PAUSED"} \X {"RUNNING", "FAILED", "CANCELLED"}
        \cup {"RECONCILING"} \X {"COMPLETED", "FAILED", "RECONCILING"}
        \cup {<<"COMPLETED", "ARCHIVED">>}

(***************************************************************************)
(* walk: every step of path is a row of the table, starting at from.       *)
(***************************************************************************)
Walkable(from, path) ==
    \A i \in 1 .. Len(path) :
        <<IF i = 1 THEN from ELSE path[i - 1], path[i]>> \in JobTransitions
=============================================================================
