------------------------ MODULE NeighborReportStore ------------------------
(***************************************************************************)
(* coordinator/neighbor_report_store.rs: for every pair of a reporter and  *)
(* a node it could not reach, the newest signed report, with a limit on    *)
(* the rows one device can fill.                                           *)
(*                                                                         *)
(* Nodes are numbers, whose order is that of the ids.  The file outlives   *)
(* the process, which may be opened for another coordinator id later.      *)
(***************************************************************************)
EXTENDS Integers, FiniteSets, FiniteSetsExt

CONSTANTS
    Reporters, Targets, ReporterDevices, Coordinators,
    MaxObserved,          \* bound: instants at which a node is found unreachable
    MaxRowsPerDevice,     \* MAX_ROWS_PER_REPORTER_DEVICE
    NoRow

VARIABLES
    reports,    \* coordinator_neighbor_reports
    ours,       \* the coordinator id this process was opened with
    highest     \* history: the newest observation ever recorded of each key

nbVars == <<reports, ours, highest>>

\* validate_input: nobody reports himself.
Keys == {k \in Reporters \X Targets : k[1] # k[2]}

Report == [device : ReporterDevices, observed : 1 .. MaxObserved, addressed : Coordinators]

ASSUME NeighborAssumption ==
    /\ Reporters \subseteq Nat /\ Targets \subseteq Nat
    /\ MaxObserved \in Nat /\ MaxRowsPerDevice \in Nat \ {0}
    /\ NoRow \notin Report

NeighborInit ==
    /\ reports = [k \in Keys |-> NoRow]
    /\ ours \in Coordinators
    /\ highest = [d \in ReporterDevices |-> [k \in Keys |-> 0]]

Rows == {k \in Keys : reports[k] # NoRow}

\* fetch_report and decode_row: a row for another coordinator is an error.
Readable(k) == reports[k].addressed = ours

RowsOfMachine(reporter) == {k \in Rows : k[1] = reporter}

RowsOfDevice(d) == {k \in Rows : reports[k].device = d}

Older(k, l) ==
    \/ reports[k].observed < reports[l].observed
    \/ /\ reports[k].observed = reports[l].observed
       /\ \/ k[1] < l[1]
          \/ k[1] = l[1] /\ k[2] < l[2]

\* The rows that have to go for one more row of this device: none below the limit.
Doomed(d) ==
    LET over == Cardinality(RowsOfDevice(d)) - MaxRowsPerDevice + 1
    IN  IF over <= 0 THEN {}
        ELSE CHOOSE s \in kSubset(over, RowsOfDevice(d)) :
                 \A k \in s, l \in RowsOfDevice(d) \ s : Older(k, l)

\* A report may push out only what is older than itself.
RoomFor(report) ==
    Doomed(report.device) # {} =>
        /\ \A k \in RowsOfDevice(report.device) : Readable(k)
        /\ \A k \in Doomed(report.device) : report.observed > reports[k].observed

\* record_verified_report: the signer is the device of the report, the report is
\* for this coordinator, the machine speaks through one device, and the report is
\* newer than the row it replaces or finds room.
RecordVerifiedReport(k, report, signer) ==
    /\ signer = report.device
    /\ report.addressed = ours
    /\ \A l \in RowsOfMachine(k[1]) : Readable(l) /\ reports[l].device = report.device
    /\ \/ /\ reports[k] # NoRow
          /\ report.observed > reports[k].observed
          /\ reports' = [reports EXCEPT ![k] = report]
       \/ /\ reports[k] = NoRow
          /\ RoomFor(report)
          /\ reports' = [l \in Keys |-> IF l = k THEN report
                                        ELSE IF l \in Doomed(report.device) THEN NoRow
                                        ELSE reports[l]]
    /\ highest' = [highest EXCEPT ![report.device][k] =
                      Max({highest[report.device][k], report.observed})]
    /\ UNCHANGED ours

\* open, by the next process.
Open(c) ==
    /\ ours' = c
    /\ UNCHANGED <<reports, highest>>

NeighborNext ==
    \/ \E k \in Keys, report \in Report, signer \in ReporterDevices :
          RecordVerifiedReport(k, report, signer)
    \/ \E c \in Coordinators : Open(c)

-----------------------------------------------------------------------------

\* reports_about: what a decision about a node can use, if every row is readable.
ReportsAbout(t) ==
    LET rows == {k \in Rows : k[2] = t}
    IN  IF \A k \in rows : Readable(k)
        THEN {[reporter |-> k[1], report |-> reports[k]] : k \in rows}
        ELSE {}

\* No knowledge goes back: what a reader is told of a pair is the newest that
\* this device ever told of it, also when the row was pushed out in between and old
\* reports arrive again (the header's promise, neighbor_report_store.rs:1-60);
\* and no device has more rows than its share.
ReportsNeverGoBack ==
    /\ \A t \in Targets : \A e \in ReportsAbout(t) :
          e.report.observed = highest[e.report.device][<<e.reporter, t>>]
    /\ \A d \in ReporterDevices : Cardinality(RowsOfDevice(d)) <= MaxRowsPerDevice

=============================================================================
