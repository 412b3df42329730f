---------------------------- MODULE AttemptState ----------------------------
(***************************************************************************)
(* The normative attempt state machine of crates/protocol                  *)
(* (attempt_state.rs), and what a verified terminal report does to an      *)
(* attempt (attempt_report_rules.rs, attempt_report_store.rs): the state   *)
(* the report proves and the path through the table that leads there.      *)
(***************************************************************************)
EXTENDS Naturals, Sequences

AttemptStates ==
    {"CREATED", "STARTING", "RUNNING", "PAUSED", "STALE", "COMPLETED",
     "RECONCILING", "CANONICAL", "SUPERSEDED", "FAILED", "CANCELLED",
     "RUN_UNKNOWN"}

AttemptTransitions ==
    {"CREATED"} \X {"STARTING", "CANCELLED"}
        \cup {"STARTING"} \X {"RUNNING", "FAILED", "RUN_UNKNOWN"}
        \cup {"RUNNING"} \X {"COMPLETED", "FAILED", "RUN_UNKNOWN", "PAUSED",
                             "STALE"}
        \cup {"PAUSED"} \X {"RUNNING", "CANCELLED", "RUN_UNKNOWN"}
        \cup {"STALE"} \X {"RUNNING", "COMPLETED", "FAILED", "RECONCILING"}
        \cup {<<"COMPLETED", "RECONCILING">>}
        \cup {"RECONCILING"} \X {"CANONICAL", "SUPERSEDED", "FAILED"}
        \cup {<<"RUN_UNKNOWN", "FAILED">>}

(***************************************************************************)
(* The states failover does not take an attempt from: its end was seen.    *)
(***************************************************************************)
EndedAttemptStates ==
    {"COMPLETED", "FAILED", "CANCELLED", "CANONICAL", "SUPERSEDED"}

(***************************************************************************)
(* A terminal report is its outcome and whether the exit of the process    *)
(* was observed.  The rules of schema version 2 tie the two: a completion  *)
(* and a failed finalization of the output are observed exits with code 0. *)
(* Version 1 carries no observation.                                       *)
(***************************************************************************)
Outcomes ==
    {"COMPLETED", "STALE_COMPLETED", "FAILED", "OUTPUT_FINALIZATION_FAILED",
     "CANCELLED", "INTERRUPTED"}

ExitedWithSuccess ==
    {"COMPLETED", "STALE_COMPLETED", "OUTPUT_FINALIZATION_FAILED"}

AllowedReports ==
    [schema : {1}, outcome : Outcomes \ {"OUTPUT_FINALIZATION_FAILED"},
     observed : {FALSE}]
        \cup [schema : {2}, outcome : ExitedWithSuccess, observed : {TRUE}]
        \cup [schema : {2}, outcome : Outcomes \ ExitedWithSuccess,
              observed : BOOLEAN]

IsCompletion(r) == r.outcome \in {"COMPLETED", "STALE_COMPLETED"}

(***************************************************************************)
(* terminal_state_for: the attempt table has no row for INTERRUPTED, such  *)
(* a report is stored and moves nothing ("NONE").                          *)
(***************************************************************************)
TerminalStateFor(r) ==
    CASE IsCompletion(r) -> "COMPLETED"
      [] r.outcome \in {"FAILED", "OUTPUT_FINALIZATION_FAILED"} -> "FAILED"
      [] r.outcome = "CANCELLED" -> "CANCELLED"
      [] OTHER -> "NONE"

(***************************************************************************)
(* normative_path, as the set of candidate paths that survive its two      *)
(* filters (an unobserved failure is not led through RUNNING; an observed  *)
(* one is) and follow the table.  The code takes the first; only whether   *)
(* there is one, and whether it passes RUNNING, is used afterwards.        *)
(***************************************************************************)
PathsTo(to) ==
    {<<to>>, <<"STARTING", to>>, <<"STARTING", "RUNNING", to>>,
     <<"RUNNING", to>>}

PassesRunning(path) == \E i \in 1 .. Len(path) : path[i] = "RUNNING"

FollowsTable(from, path) ==
    \A i \in 1 .. Len(path) :
        <<IF i = 1 THEN from ELSE path[i - 1], path[i]>> \in AttemptTransitions

NormativePaths(from, to, observed) ==
    {path \in PathsTo(to) :
        /\ to = "FAILED" /\ ~ observed => ~ PassesRunning(path)
        /\ to = "FAILED" /\ observed /\ from # "RUNNING" => PassesRunning(path)
        /\ FollowsTable(from, path)}

(***************************************************************************)
(* attempt_ran: the attempt was seen running, or the report alone proves   *)
(* that it ran.                                                            *)
(***************************************************************************)
AttemptRan(state, r) ==
    \/ state = "RUNNING"
    \/ \E path \in NormativePaths("CREATED", TerminalStateFor(r), r.observed) :
           PassesRunning(path)
=============================================================================
