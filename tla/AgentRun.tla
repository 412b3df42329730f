------------------------------ MODULE AgentRun ------------------------------
(***************************************************************************)
(* One node's agent over many rounds (crates/agent, crates/cli/agent_loop):*)
(* start-up, one grant, one workload, its report, and the end of the       *)
(* process; then the loop starts it again.  What survives a process is on  *)
(* disk (the run ledger, start records, incident marks, the outbox, the    *)
(* owner's mark) or in the container runtime.  Every file operation,       *)
(* transaction and runtime command is a step, and the process may end      *)
(* between any two of them, by a crash or by an error it does not handle.  *)
(*                                                                         *)
(* The files of the ledger are sound here; RunLedgerFiles is about them.   *)
(* `starts` counts, for the properties only, how often a workload began.   *)
(***************************************************************************)
EXTENDS Naturals, FiniteSets

CONSTANTS
    Attempt,    \* attempts the coordinator may grant to this node
    OnHost,     \* those that run as a host process, not in a container
    RunLedger,  \* --run-ledger
    MaxRetry,   \* --max-reconnect-attempts, less the first
    MaxDeaths,  \* how often the process ends in the middle of things
    None

ASSUME AttemptAssumption == OnHost \subseteq Attempt /\ None \notin Attempt

ASSUME SettingsAssumption ==
    RunLedger \in BOOLEAN /\ MaxRetry \in Nat /\ MaxDeaths \in Nat

VARIABLES
    row,        \* the ledger's row of each attempt
    started,    \* attempts with a start record
    incident,   \* attempts with an open incident mark
    outbox,     \* attempts whose report waits on disk
    rejected,   \* attempts whose report could not be read back, set aside
    stored,     \* attempts whose report the coordinator has
    reclaimed,  \* the owner's mark
    box,        \* the container, or host process, of each attempt
    agent,      \* the process that holds the root lock
    looping,    \* agent-loop will start the agent again
    starts,     \* history: how often each workload began
    deaths

disk == <<row, started, incident, outbox, rejected, stored, reclaimed>>
vars == <<disk, box, agent, looping, starts, deaths>>

Reasons == {"none", "not_started", "no_sentinel", "host_restart",
            "report_persisted", "unresolved", "cleared"}

Row == [state : {"none", "ACTIVE", "LOCAL_BLOCKED", "CLOSED"},
        removed : BOOLEAN, reason : Reasons]

NoRow == [state |-> "none", removed |-> FALSE, reason |-> "none"]

(***************************************************************************)
(* A container: asked for and not there yet; created; its start accepted   *)
(* but not applied yet; running; exited.  A host process uses three of     *)
(* these.                                                                  *)
(***************************************************************************)
Boxes == {"none", "creating", "created", "starting", "running", "exited"}

Live == {"starting", "running"}

\* Broken: asks the runtime for running containers only.
ListedRunning == {"running"}

Listed == {"created", "starting", "running", "exited"}

\* ContainerRunError and ContainerExit: what is known of a run that ended.
Result == [kind : {"NotStarted", "Unobserved", "Exited"},
           stopped : BOOLEAN, left : {"Removed", "Kept", "Unknown"}]

NoResult == [kind |-> "NotStarted", stopped |-> FALSE, left |-> "Removed"]

Startup == {"resolve", "resolve_incident", "reclaim", "incidents",
            "leftovers", "flush", "farewell"}

TakesWork == {"session", "ack", "insert", "sentinel", "confirm",
              "run", "start", "wait", "stop"}

Ending == {"incident", "settle", "marker", "persist", "close", "deliver"}

Process == [pc : {"down", "clear"} \cup Startup \cup TakesWork \cup Ending,
            attempt : Attempt \cup {None}, todo : SUBSET Attempt,
            problem : BOOLEAN, result : Result, tries : 0 .. MaxRetry]

Down == [pc |-> "down", attempt |-> None, todo |-> {}, problem |-> FALSE,
         result |-> NoResult, tries |-> 0]

\* Disk, runtime and process hold what the code can write to them.
TypeOK ==
    /\ row \in [Attempt -> Row]
    /\ started \subseteq Attempt
    /\ incident \subseteq Attempt
    /\ outbox \subseteq Attempt
    /\ rejected \subseteq Attempt
    /\ stored \subseteq Attempt
    /\ reclaimed \in BOOLEAN
    /\ box \in [Attempt -> Boxes]
    /\ agent \in Process
    /\ looping \in BOOLEAN
    /\ starts \in [Attempt -> Nat]
    /\ deaths \in 0 .. MaxDeaths

Init ==
    /\ row = [a \in Attempt |-> NoRow]
    /\ started = {} /\ incident = {} /\ outbox = {}
    /\ rejected = {} /\ stored = {}
    /\ reclaimed = FALSE
    /\ box = [a \in Attempt |-> "none"]
    /\ agent = Down
    /\ looping = TRUE
    /\ starts = [a \in Attempt |-> 0]
    /\ deaths = 0

(***************************************************************************)
(* Steps of the process.                                                   *)
(***************************************************************************)
At(pc) == agent.pc = pc

Goto(pc) == agent' = [agent EXCEPT !.pc = pc]

Exits == agent' = Down

RowsIn(state) == {a \in Attempt : row[a].state = state}

InContainer(a) == a \in Attempt \ OnHost

\* RunLedger::close_active, whose guards the callers below all satisfy.
CloseActive(a, why) ==
    row' = [row EXCEPT ![a].state = "CLOSED", ![a].reason = why]

BlockLocally(a) ==
    row' = [row EXCEPT ![a].state = "LOCAL_BLOCKED", ![a].reason = "unresolved"]

\* RUN_LEDGER_FATAL: the process ends, and the loop does not start another.
LedgerFatal == Exits /\ looping' = FALSE

(***************************************************************************)
(* Start-up, in the order of run: the ledger's open rows, the owner's      *)
(* mark, incidents, containers left over, the outbox.                      *)
(***************************************************************************)
StartAgent ==
    /\ At("down") /\ looping
    /\ agent' = [Down EXCEPT !.pc = IF RunLedger THEN "resolve" ELSE "reclaim",
                             !.todo = RowsIn("ACTIVE")]
    /\ UNCHANGED <<disk, box, looping, starts, deaths>>

\* A container that was started and whose end is not proved: a report that
\* this node accepts, and the recorded absence of the container.
Unproved(a) ==
    InContainer(a) /\ a \in started /\ ~ (a \in outbox /\ row[a].removed)

ResolveReason(a) ==
    CASE a \notin started -> "no_sentinel"
      [] a \in started /\ a \in OnHost -> "host_restart"
      [] OTHER -> "report_persisted"

ResolveRow(a) ==
    /\ At("resolve") /\ a \in agent.todo
    /\ \/ /\ ~ Unproved(a)
          /\ CloseActive(a, ResolveReason(a))
          /\ agent' = [agent EXCEPT !.todo = @ \ {a}]
       \/ /\ Unproved(a)
          /\ BlockLocally(a)
          /\ agent' = [agent EXCEPT !.pc = "resolve_incident",
                                    !.attempt = a, !.todo = @ \ {a}]
    /\ UNCHANGED <<started, incident, outbox, rejected, stored,
                   reclaimed, box, looping, starts, deaths>>

\* The mark may fail to be written: the row blocks all the same.
ResolveIncident ==
    /\ At("resolve_incident")
    /\ incident' \in {incident, incident \cup {agent.attempt}}
    /\ agent' = [agent EXCEPT !.pc = "resolve", !.attempt = None]
    /\ UNCHANGED <<row, started, outbox, rejected, stored,
                   reclaimed, box, looping, starts, deaths>>

\* Broken: does not count the rows a human must clear.
BlocksNewWorkActiveOnly == RowsIn("ACTIVE") # {}

BlocksNewWork == RowsIn("ACTIVE") \cup RowsIn("LOCAL_BLOCKED") # {}

ResolveEnds ==
    /\ At("resolve") /\ agent.todo = {}
    /\ IF BlocksNewWork THEN Exits ELSE Goto("reclaim")
    /\ UNCHANGED <<disk, box, looping, starts, deaths>>

CheckReclaimed ==
    /\ At("reclaim")
    /\ agent' = [agent EXCEPT !.pc = IF reclaimed THEN "farewell"
                                     ELSE "incidents",
                              !.todo = outbox]
    /\ UNCHANGED <<disk, box, looping, starts, deaths>>

CheckIncidents ==
    /\ At("incidents")
    /\ IF incident # {}
       THEN Exits
       ELSE agent' = [agent EXCEPT
                        !.pc = "leftovers",
                        !.todo = {a \in Attempt \ OnHost : box[a] \in Listed}]
    /\ UNCHANGED <<disk, box, looping, starts, deaths>>

\* remove_leftovers: stopped, its logs saved, removed and seen to be gone.
RemoveLeftover(a) ==
    /\ At("leftovers") /\ a \in agent.todo
    /\ box' = [box EXCEPT ![a] = "none"]
    /\ agent' = [agent EXCEPT !.todo = @ \ {a}]
    /\ UNCHANGED <<disk, looping, starts, deaths>>

\* One of these could not be done; the container stays, perhaps stopped.
KeepLeftover(a) ==
    /\ At("leftovers") /\ a \in agent.todo
    /\ \/ UNCHANGED box
       \/ box[a] = "running" /\ box' = [box EXCEPT ![a] = "exited"]
    /\ agent' = [agent EXCEPT !.todo = @ \ {a}, !.problem = TRUE]
    /\ UNCHANGED <<disk, looping, starts, deaths>>

LeftoversEnd ==
    /\ At("leftovers") /\ agent.todo = {}
    /\ IF agent.problem
       THEN Exits
       ELSE agent' = [agent EXCEPT !.pc = "flush", !.todo = outbox]
    /\ UNCHANGED <<disk, box, looping, starts, deaths>>

(***************************************************************************)
(* deliver_outboxed_report: acknowledged and removed, or stored by the     *)
(* coordinator while the answer is lost, or not sent at all.  The flush    *)
(* reads the file back first, and sets aside what it cannot read.          *)
(***************************************************************************)
Acknowledged(a) == stored' = stored \cup {a} /\ outbox' = outbox \ {a}

AnswerLost(a) == stored' = stored \cup {a} /\ UNCHANGED outbox

NotSent == UNCHANGED <<stored, outbox>>

FlushReport(a) ==
    /\ agent.pc \in {"flush", "farewell"} /\ a \in agent.todo
    /\ agent' = [agent EXCEPT !.todo = @ \ {a}]
    /\ UNCHANGED <<row, started, incident, reclaimed,
                   box, looping, starts, deaths>>

FlushAcknowledged(a) ==
    FlushReport(a) /\ Acknowledged(a) /\ UNCHANGED rejected

FlushFails(a) ==
    FlushReport(a) /\ (AnswerLost(a) \/ NotSent) /\ UNCHANGED rejected

FlushRejects(a) ==
    /\ FlushReport(a)
    /\ outbox' = outbox \ {a}
    /\ rejected' = rejected \cup {a}
    /\ UNCHANGED stored

FlushEnds ==
    /\ agent.pc \in {"flush", "farewell"} /\ agent.todo = {}
    /\ IF At("flush") THEN Goto("session") ELSE Exits
    /\ UNCHANGED <<disk, box, looping, starts, deaths>>

(***************************************************************************)
(* A session: the grant, the ACK and its receipt, the row, the start       *)
(* record, the renewal that confirms the start.  A connection that breaks  *)
(* before the workload is tried may be made again by the same process.     *)
(***************************************************************************)
\* Broken: accepts a grant for an attempt that was started before.
MayTakeAgain(a) == TRUE

MayTake(a) == a \notin started

ReceiveGrant(a) ==
    /\ At("session")
    /\ IF MayTake(a)
       THEN agent' = [agent EXCEPT !.pc = "ack", !.attempt = a]
       ELSE Exits
    /\ UNCHANGED <<disk, box, looping, starts, deaths>>

ReceiveReceipt ==
    /\ At("ack")
    /\ Goto("insert")
    /\ UNCHANGED <<disk, box, looping, starts, deaths>>

MayRetry == agent.tries < MaxRetry

ConnectionLost ==
    /\ agent.pc \in {"session", "ack", "confirm"}
    /\ \/ Exits
       \/ /\ MayRetry
          /\ agent' = [Down EXCEPT !.pc = "session", !.tries = agent.tries + 1]
    /\ UNCHANGED <<disk, box, looping, starts, deaths>>

InsertActive ==
    /\ At("insert")
    /\ IF ~ RunLedger
       THEN Goto("sentinel") /\ UNCHANGED row
       ELSE IF row[agent.attempt].state = "none"
            THEN /\ row' = [row EXCEPT ![agent.attempt].state = "ACTIVE"]
                 /\ Goto("sentinel")
            ELSE Exits /\ UNCHANGED row
    /\ UNCHANGED <<started, incident, outbox, rejected, stored,
                   reclaimed, box, looping, starts, deaths>>

RecordStarted ==
    /\ At("sentinel")
    /\ started' = started \cup {agent.attempt}
    /\ Goto("confirm")
    /\ UNCHANGED <<row, incident, outbox, rejected, stored,
                   reclaimed, box, looping, starts, deaths>>

\* The write fails, perhaps with the file in place; the row is closed.
RecordStartedFails ==
    /\ At("sentinel")
    /\ started' \in {started, started \cup {agent.attempt}}
    /\ \/ /\ RunLedger
          /\ \/ CloseActive(agent.attempt, "not_started") /\ Exits
                /\ UNCHANGED looping
             \/ LedgerFatal /\ UNCHANGED row
       \/ ~ RunLedger /\ Exits /\ UNCHANGED <<row, looping>>
    /\ UNCHANGED <<incident, outbox, rejected, stored, reclaimed, box,
                   starts, deaths>>

ConfirmStart ==
    /\ At("confirm")
    /\ Goto("run")
    /\ UNCHANGED <<disk, box, looping, starts, deaths>>

(***************************************************************************)
(* A host process: spawned, or not; its end seen, or not.                  *)
(***************************************************************************)
Current == agent.attempt

Began(a) == starts' = [starts EXCEPT ![a] = @ + 1]

Ends(kind, stopped, left, pc) ==
    agent' = [agent EXCEPT
                !.pc = pc,
                !.result = [kind |-> kind, stopped |-> stopped, left |-> left]]

Spawn ==
    /\ At("run") /\ Current \in OnHost
    /\ box' = [box EXCEPT ![Current] = "running"]
    /\ Began(Current)
    /\ Goto("wait")
    /\ UNCHANGED <<disk, looping, deaths>>

SpawnFails ==
    /\ At("run") /\ Current \in OnHost
    /\ Ends("NotStarted", FALSE, "Removed", "settle")
    /\ UNCHANGED <<disk, box, looping, starts, deaths>>

HostExitSeen ==
    /\ At("wait") /\ Current \in OnHost
    /\ box[Current] = "exited"
    /\ Ends("Exited", TRUE, "Removed", "settle")
    /\ UNCHANGED <<disk, box, looping, starts, deaths>>

\* Broken: takes a failed wait for an exit.
HostWaitFailsAsExit ==
    /\ At("wait") /\ Current \in OnHost
    /\ Ends("Exited", TRUE, "Removed", "settle")
    /\ UNCHANGED <<disk, box, looping, starts, deaths>>

HostWaitFails ==
    /\ At("wait") /\ Current \in OnHost
    /\ Ends("Unobserved", FALSE, "Kept", "settle")
    /\ UNCHANGED <<disk, box, looping, starts, deaths>>

(***************************************************************************)
(* A container, container::run_inner: create, start, wait, logs, remove.   *)
(* A command that fails may have been carried out all the same, and one    *)
(* that got no answer may be carried out later.                            *)
(***************************************************************************)
SetBox(b) == box' = [box EXCEPT ![Current] = b]

\* remove_container_fact: gone and seen to be gone, or nobody knows.
RemoveFact(kind, stopped, b) ==
    \/ SetBox("none") /\ Ends(kind, stopped, "Removed", "incident")
    \/ /\ SetBox("none") \/ SetBox(b)
       /\ Ends(kind, stopped, "Unknown", "incident")

Create ==
    /\ At("run") /\ InContainer(Current)
    /\ SetBox("created")
    /\ Goto("start")
    /\ UNCHANGED <<disk, looping, starts, deaths>>

\* Not found by inspect: either not there, or not there yet.
CreateFails ==
    /\ At("run") /\ InContainer(Current)
    /\ \/ /\ SetBox("none") \/ SetBox("creating")
          /\ Ends("NotStarted", FALSE, "Removed", "incident")
       \/ /\ SetBox("none") \/ SetBox("creating") \/ SetBox("created")
          /\ Ends("NotStarted", FALSE, "Unknown", "incident")
    /\ UNCHANGED <<disk, looping, starts, deaths>>

StartNotSent ==
    /\ At("start")
    /\ RemoveFact("NotStarted", FALSE, "created")
    /\ UNCHANGED <<disk, looping, starts, deaths>>

Start ==
    /\ At("start")
    /\ SetBox("running")
    /\ Began(Current)
    /\ Goto("wait")
    /\ UNCHANGED <<disk, looping, deaths>>

\* Broken: sends the start again when no answer came.
StartUnansweredRetried ==
    /\ At("start")
    /\ SetBox("starting")
    /\ UNCHANGED <<disk, agent, looping, starts, deaths>>

StartUnanswered ==
    /\ At("start")
    /\ SetBox("starting")
    /\ Ends("Unobserved", FALSE, "Kept", "incident")
    /\ UNCHANGED <<disk, looping, starts, deaths>>

\* The runtime answers that it failed; the workload may have run.
StartFails ==
    /\ At("start")
    /\ \/ UNCHANGED <<box, starts>>
       \/ SetBox("running") /\ Began(Current)
    /\ Goto("stop")
    /\ UNCHANGED <<disk, looping, deaths>>

PollFails ==
    /\ At("wait") /\ InContainer(Current)
    /\ Goto("stop")
    /\ UNCHANGED <<disk, box, looping, starts, deaths>>

Halted(b) == IF b = "running" THEN "exited" ELSE b

StopUnconfirmed ==
    /\ At("stop")
    /\ UNCHANGED box \/ SetBox(Halted(box[Current]))
    /\ Ends("Unobserved", FALSE, "Kept", "incident")
    /\ UNCHANGED <<disk, looping, starts, deaths>>

\* Stopped; then the logs are lost, or saved and the container removed.
StopConfirmed ==
    /\ At("stop")
    /\ \/ /\ SetBox(Halted(box[Current]))
          /\ Ends("Unobserved", TRUE, "Kept", "incident")
       \/ RemoveFact("Unobserved", TRUE, Halted(box[Current]))
    /\ UNCHANGED <<disk, looping, starts, deaths>>

ContainerExitSeen ==
    /\ At("wait") /\ InContainer(Current)
    /\ box[Current] = "exited"
    /\ \/ Ends("Exited", TRUE, "Kept", "incident") /\ UNCHANGED box
       \/ RemoveFact("Exited", TRUE, "exited")
    /\ UNCHANGED <<disk, looping, starts, deaths>>

(***************************************************************************)
(* record_incident_if_needed: a run that a human must look at leaves a     *)
(* mark.  If it cannot be written the loop does not go on.                 *)
(***************************************************************************)
NeedsHuman(r) ==
    r.left # "Removed" \/ (r.kind = "Unobserved" /\ ~ r.stopped)

RecordIncident ==
    /\ At("incident")
    /\ \/ ~ NeedsHuman(agent.result) /\ UNCHANGED <<incident, looping>>
       \/ /\ NeedsHuman(agent.result)
          /\ \/ incident' = incident \cup {Current} /\ UNCHANGED looping
             \/ /\ incident' \in {incident, incident \cup {Current}}
                /\ looping' = FALSE
    /\ Goto("settle")
    /\ UNCHANGED <<row, started, outbox, rejected, stored, reclaimed, box,
                   starts, deaths>>

(***************************************************************************)
(* What the ledger learns of a run that ended, before its report exists.   *)
(* execute_in_container gives a run no report while it may be alive or     *)
(* when it never began.                                                    *)
(***************************************************************************)
NeverBegan(r) == r.kind = "NotStarted" /\ ~ NeedsHuman(r)

HasReport(r) == r.kind = "Exited" \/ (r.kind = "Unobserved" /\ r.stopped)

RemovalConfirmed(r, incidentOpen) ==
    HasReport(r) /\ r.left = "Removed" /\ ~ incidentOpen

SettleRow(a, r, incidentOpen) ==
    CASE RunLedger /\ NeverBegan(r) -> CloseActive(a, "not_started")
      [] RunLedger /\ ~ NeverBegan(r) /\ InContainer(a) ->
             IF RemovalConfirmed(r, incidentOpen)
             THEN row' = [row EXCEPT ![a].removed = TRUE]
             ELSE BlockLocally(a)
      [] OTHER -> UNCHANGED row

\* A folder of marks that cannot be read counts as an open incident.
Settle ==
    /\ At("settle")
    /\ \E incidentOpen \in BOOLEAN :
           /\ Current \in incident => incidentOpen
           /\ SettleRow(Current, agent.result, incidentOpen)
    /\ IF HasReport(agent.result) THEN Goto("marker") ELSE Exits
    /\ UNCHANGED <<started, incident, outbox, rejected, stored, reclaimed, box,
                   looping, starts, deaths>>

SettleFails ==
    /\ At("settle") /\ RunLedger
    /\ NeverBegan(agent.result) \/ InContainer(Current)
    /\ LedgerFatal
    /\ UNCHANGED <<disk, box, starts, deaths>>

(***************************************************************************)
(* The owner's mark, if the owner stopped the workload; the report to      *)
(* disk; the row; the report to the coordinator.                           *)
(***************************************************************************)
MarkReclaimed ==
    /\ At("marker")
    /\ \/ UNCHANGED reclaimed /\ Goto("persist")
       \/ reclaimed' = TRUE /\ Goto("persist")
       \/ reclaimed' \in {reclaimed, TRUE} /\ Exits
    /\ UNCHANGED <<row, started, incident, outbox, rejected, stored, box,
                   looping, starts, deaths>>

PersistReport ==
    /\ At("persist")
    /\ \/ outbox' = outbox \cup {Current} /\ Goto("close")
       \/ outbox' \in {outbox, outbox \cup {Current}} /\ Exits
    /\ UNCHANGED <<row, started, incident, rejected, stored, reclaimed, box,
                   looping, starts, deaths>>

CloseReported ==
    /\ At("close")
    /\ IF RunLedger /\ row[Current].state = "ACTIVE"
       THEN CloseActive(Current, "report_persisted")
       ELSE UNCHANGED row
    /\ Goto("deliver")
    /\ UNCHANGED <<started, incident, outbox, rejected, stored, reclaimed, box,
                   looping, starts, deaths>>

CloseReportedFails ==
    /\ At("close") /\ RunLedger
    /\ LedgerFatal
    /\ UNCHANGED <<disk, box, starts, deaths>>

DeliverReport ==
    /\ At("deliver")
    /\ Acknowledged(Current) \/ AnswerLost(Current) \/ NotSent
    /\ Exits
    /\ UNCHANGED <<row, started, incident, rejected, reclaimed, box,
                   looping, starts, deaths>>

(***************************************************************************)
(* The operator: container-incidents --clear for one attempt or for all,   *)
(* with the root lock held; owner-resume; starting the loop again.         *)
(***************************************************************************)
Named(a) == Current \in {None, a}

\* Broken: removes the marks and leaves the rows blocked.
ClearMarksOnly(a) ==
    /\ At("down")
    /\ agent' = [Down EXCEPT !.pc = "clear", !.attempt = a]
    /\ UNCHANGED <<disk, box, looping, starts, deaths>>

Clear(a) ==
    /\ At("down")
    /\ agent' = [Down EXCEPT
                   !.pc = "clear", !.attempt = a,
                   !.todo = {b \in RowsIn("LOCAL_BLOCKED") : a \in {None, b}}]
    /\ UNCHANGED <<disk, box, looping, starts, deaths>>

ClearRow(a) ==
    /\ At("clear") /\ a \in agent.todo
    /\ row' = [row EXCEPT ![a].state = "CLOSED", ![a].reason = "cleared"]
    /\ agent' = [agent EXCEPT !.todo = @ \ {a}]
    /\ UNCHANGED <<started, incident, outbox, rejected, stored, reclaimed, box,
                   looping, starts, deaths>>

ClearIncidents ==
    /\ At("clear") /\ agent.todo = {}
    /\ incident' = {a \in incident : ~ Named(a)}
    /\ Exits
    /\ UNCHANGED <<row, started, outbox, rejected, stored, reclaimed, box,
                   looping, starts, deaths>>

OwnerResume ==
    /\ reclaimed
    /\ reclaimed' = FALSE
    /\ UNCHANGED <<row, started, incident, outbox, rejected, stored, box,
                   agent, looping, starts, deaths>>

Relaunch ==
    /\ ~ looping /\ agent.pc \in {"down", "clear"}
    /\ looping' = TRUE
    /\ UNCHANGED <<disk, box, agent, starts, deaths>>

(***************************************************************************)
(* The surroundings: a workload ends, the runtime carries out late what it *)
(* accepted, the process ends.  A command in flight when the process ends  *)
(* may still be carried out.                                               *)
(***************************************************************************)
WorkloadExits(a) ==
    /\ box[a] = "running"
    /\ box' = [box EXCEPT ![a] = "exited"]
    /\ UNCHANGED <<disk, agent, looping, starts, deaths>>

LateStart(a) ==
    /\ box[a] = "starting"
    /\ box' = [box EXCEPT ![a] = "running"]
    /\ Began(a)
    /\ UNCHANGED <<disk, agent, looping, deaths>>

LateCreate(a) ==
    /\ box[a] = "creating"
    /\ \E b \in {"created", "none"} : box' = [box EXCEPT ![a] = b]
    /\ UNCHANGED <<disk, agent, looping, starts, deaths>>

InFlight ==
    \/ At("run") /\ InContainer(Current) /\ SetBox("creating")
    \/ At("start") /\ SetBox("starting")

Dies ==
    /\ ~ At("down")
    /\ deaths < MaxDeaths
    /\ deaths' = deaths + 1
    /\ UNCHANGED box \/ InFlight
    /\ Exits
    /\ UNCHANGED <<disk, looping, starts>>

AgentStep ==
    \/ StartAgent
    \/ \E a \in Attempt : ResolveRow(a)
    \/ ResolveIncident \/ ResolveEnds
    \/ CheckReclaimed \/ CheckIncidents
    \/ \E a \in Attempt : RemoveLeftover(a) \/ KeepLeftover(a)
    \/ LeftoversEnd
    \/ \E a \in Attempt :
           FlushAcknowledged(a) \/ FlushFails(a) \/ FlushRejects(a)
    \/ FlushEnds
    \/ \E a \in Attempt : ReceiveGrant(a)
    \/ ReceiveReceipt \/ ConnectionLost
    \/ InsertActive \/ RecordStarted \/ RecordStartedFails \/ ConfirmStart
    \/ Spawn \/ SpawnFails \/ HostExitSeen \/ HostWaitFails
    \/ Create \/ CreateFails
    \/ StartNotSent \/ Start \/ StartUnanswered \/ StartFails
    \/ PollFails \/ StopUnconfirmed \/ StopConfirmed \/ ContainerExitSeen
    \/ RecordIncident \/ Settle \/ SettleFails
    \/ MarkReclaimed \/ PersistReport
    \/ CloseReported \/ CloseReportedFails \/ DeliverReport
    \/ \E a \in Attempt : ClearRow(a)
    \/ ClearIncidents

Next ==
    \/ AgentStep
    \/ \E a \in Attempt \cup {None} : Clear(a)
    \/ OwnerResume \/ Relaunch
    \/ \E a \in Attempt : WorkloadExits(a) \/ LateStart(a) \/ LateCreate(a)
    \/ Dies

(***************************************************************************)
(* Every wait of the process has a deadline, so it moves on; workloads     *)
(* end; the loop starts the agent again, and the operator the loop; the    *)
(* operator clears what blocks the node, and neither of the two keeps the  *)
(* root lock from the other for ever; and neither the runtime nor the      *)
(* coordinator fails for ever when asked again and again.                  *)
(***************************************************************************)
Fairness ==
    /\ WF_vars(AgentStep)
    /\ SF_vars(StartAgent)
    /\ WF_vars(Relaunch)
    /\ SF_vars(Clear(None))
    /\ \A a \in Attempt :
           /\ WF_vars(WorkloadExits(a))
           /\ SF_vars(RemoveLeftover(a))
           /\ SF_vars(FlushAcknowledged(a))

Spec == Init /\ [][Next]_vars

FairSpec == Spec /\ Fairness

-----------------------------------------------------------------------------
(***************************************************************************)
(* Properties.                                                             *)
(***************************************************************************)

\* Attempts whose report is on this disk or with the coordinator.
Reported == outbox \cup rejected \cup stored

\* No workload begins twice on this node: not after a crash at any point of
\* its start, not by a repeated grant, not by a start applied late.
RunsOnce == \A a \in Attempt : starts[a] <= 1

\* A node that takes or runs work has no container of another attempt that
\* runs or may still start: remove_leftovers and the blocks before it left
\* nothing behind, whatever the runtime did not answer.
NoWorkBesideStray ==
    agent.pc \in TakesWork =>
        \A a \in Attempt \ (OnHost \cup {Current}) : box[a] \notin Live

\* With the ledger, a node that takes work knows the end of every container
\* that ever began on it: its report was kept, or a human cleared it.
EveryStartAccountedFor ==
    RunLedger /\ agent.pc \in TakesWork =>
        \A a \in Attempt \ (OnHost \cup {Current}) :
            starts[a] > 0 =>
                /\ row[a].state = "CLOSED"
                /\ a \in Reported \/ row[a].reason = "cleared"

\* A row is closed for a reason that is true: a kept report and no container
\* left, or a workload that never began.
ClosedHonestly ==
    \A a \in Attempt :
        row[a].state = "CLOSED" =>
            /\ row[a].reason = "report_persisted" =>
                   a \in Reported /\ (InContainer(a) => box[a] = "none")
            /\ row[a].reason \in {"not_started", "no_sentinel"} =>
                   starts[a] = 0

\* A report says that the workload is over, and it is: nothing that is
\* reported still runs or may still start.
ReportedIsOver == \A a \in Reported : box[a] \notin Live

\* What the agent writes down of an end is true: the reason a ledger row is
\* closed for, and the report that the workload is over.
EndsToldTruly == ClosedHonestly /\ ReportedIsOver

\* Every report that reached the disk gets to the coordinator, or is set
\* aside for a human, through crashes, lost answers and blocked starts.
ReportsArrive ==
    \A a \in Attempt : a \in outbox ~> a \in rejected \cup stored
=============================================================================
