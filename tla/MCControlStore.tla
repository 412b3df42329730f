--------------------------- MODULE MCControlStore ---------------------------
(***************************************************************************)
(* Small instances of ControlStore for TLC: the sets of reports, and the   *)
(* symmetry of jobs, nodes and schedulers.                                 *)
(***************************************************************************)
EXTENDS ControlStoreContract, TLC

V1(outcome) == [schema |-> 1, outcome |-> outcome, observed |-> FALSE]
V2(outcome, observed) ==
    [schema |-> 2, outcome |-> outcome, observed |-> observed]

\* What a node of a pool reports.
PoolReports ==
    {V2("COMPLETED", TRUE), V2("FAILED", TRUE), V2("FAILED", FALSE),
     V2("INTERRUPTED", TRUE), V2("CANCELLED", FALSE)}

\* Reports of older nodes, and the outcomes that differ only for them.
LegacyReports ==
    {V1("COMPLETED"), V1("FAILED"), V1("CANCELLED"),
     V2("STALE_COMPLETED", TRUE), V2("OUTPUT_FINALIZATION_FAILED", TRUE)}

\* The two outcomes that decide whether a node may be placed on again.
RaceReports == {V2("COMPLETED", TRUE), V2("INTERRUPTED", TRUE)}

\* The report of a node whose owner took it back.
PreemptReports == {V2("INTERRUPTED", TRUE)}

NoAnnouncements == {}
OneAnnouncement == {3}

NodeSymmetry == Permutations(Node)
RaceSymmetry == Permutations(Job) \cup Permutations(Scheduler)
=============================================================================
