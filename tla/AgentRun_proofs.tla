-------------------------- MODULE AgentRun_proofs --------------------------
(***************************************************************************)
(* The safety properties of AgentRun hold for any attempts, on the host or *)
(* in containers, with or without the ledger, for any number of deaths and *)
(* reconnections.  None of them is inductive.  The invariant says in       *)
(* addition what the process may take for granted at each of its steps:    *)
(* that nothing of an attempt exists before its start record, that what it *)
(* is about to report is over, that once the leftovers were removed no     *)
(* other container can come to life, and that an attempt at hand has an    *)
(* open row.                                                               *)
(***************************************************************************)
EXTENDS AgentRun, TLAPS

\* The steps at which a process can be; those at which it has an attempt,
\* and those at which it has none.
Pc == {"down", "clear"} \cup Startup \cup TakesWork \cup Ending

HasAttempt == (TakesWork \cup Ending \cup {"resolve_incident"}) \ {"session"}

Idle == {"down", "session"} \cup (Startup \ {"resolve_incident"})

\* Which attempt the process has, and what is on disk of it.
AttemptKnown ==
    /\ agent.pc \in HasAttempt => Current \in Attempt
    /\ agent.pc \in Idle => Current = None
    /\ agent.pc \in {"start", "stop", "incident"} => Current \notin OnHost
    /\ agent.pc \in {"ack", "insert", "sentinel"} => Current \notin started
    /\ agent.pc \in {"confirm", "run", "start", "wait", "stop"} \cup Ending =>
           Current \in started

\* Nothing exists of an attempt without a start record.
RecordedFirst ==
    \A a \in Attempt \ started :
        starts[a] = 0 /\ box[a] = "none" /\ a \notin Reported

\* A workload that may still begin has not begun.
NotBegun ==
    /\ \A a \in Attempt : box[a] = "starting" => starts[a] = 0
    /\ agent.pc \in {"confirm", "run", "start"} =>
           starts[Current] = 0 /\ Current \notin Reported
    /\ agent.pc \in {"confirm", "run"} => box[Current] = "none"
    /\ agent.pc = "start" => box[Current] = "created"

\* A workload that is about to be reported is over, and one that is said not
\* to have begun did not begin.
ResultTrue ==
    /\ agent.pc \in {"wait", "stop"} => box[Current] # "starting"
    /\ agent.pc \in {"incident", "settle"} /\ HasReport(agent.result) =>
           box[Current] \notin Live
    /\ agent.pc \in {"incident", "settle"} =>
           (agent.result.kind = "NotStarted" =>
                starts[Current] = 0 /\ box[Current] \notin Live)
    /\ agent.pc \in {"marker", "persist", "close", "deliver"} =>
           box[Current] \notin Live
    /\ agent.pc \in {"close", "deliver"} => Current \in Reported
    /\ agent.pc \in {"flush", "farewell"} => agent.todo \subseteq outbox

\* Once the leftovers are gone no stray container comes to life.
NoStray ==
    /\ agent.pc = "leftovers" /\ ~ agent.problem =>
           \A a \in Attempt \ OnHost : box[a] \in Live => a \in agent.todo
    /\ agent.pc = "flush" => \A a \in Attempt \ OnHost : box[a] \notin Live

Held == {"sentinel", "confirm", "run", "start", "wait", "stop",
         "incident", "settle"}

\* The attempt at hand has an ACTIVE row from before its start record until
\* its end is settled; no other start record is without a row; without the
\* ledger there are no rows.
RowKept ==
    /\ \A a \in Attempt : row[a].state = "none" => ~ row[a].removed
    /\ ~ RunLedger => /\ \A a \in Attempt : row[a].state = "none"
                      /\ agent.pc \notin {"resolve", "resolve_incident"}
    /\ RunLedger => \A a \in started : row[a].state # "none"
    /\ RunLedger /\ agent.pc \in Held =>
           row[Current].state = "ACTIVE" /\ ~ row[Current].removed
    /\ agent.pc = "clear" => agent.todo \subseteq RowsIn("LOCAL_BLOCKED")

\* A container with a start record has an open row, a report or the word of a
\* human, or it did not begin and will not.
RowAccounts ==
    RunLedger =>
        \A a \in started \ OnHost :
            \/ row[a].state \in {"ACTIVE", "LOCAL_BLOCKED"}
            \/ a \in Reported \/ row[a].reason = "cleared"
            \/ starts[a] = 0 /\ box[a] \notin Live

\* A start that went past the open rows left none open.
NoneOpen ==
    /\ agent.pc \in {"resolve", "resolve_incident"} =>
           RowsIn("ACTIVE") \subseteq agent.todo
    /\ RunLedger =>
           (agent.pc \in {"reclaim", "incidents", "leftovers", "flush"} =>
                ~ BlocksNewWork)

\* A container that is recorded or about to be recorded as removed is gone.
RemovedGone ==
    /\ \A a \in Attempt \ OnHost : row[a].removed => box[a] = "none"
    /\ agent.pc \in {"incident", "settle"} /\ InContainer(Current) =>
           (HasReport(agent.result) /\ agent.result.left = "Removed" =>
                box[Current] = "none")
    /\ RunLedger /\ InContainer(Current) =>
           (agent.pc \in {"marker", "persist", "close"} =>
                row[Current].state = "LOCAL_BLOCKED" \/ row[Current].removed)

\* A row closed because nothing began is right for ever.
IdleRows ==
    \A a \in Attempt :
        /\ row[a].state = "CLOSED"
        /\ row[a].reason \in {"not_started", "no_sentinel"}
        => starts[a] = 0 /\ box[a] \notin Live

-----------------------------------------------------------------------------
\* The invariant, in the parts that are proved one after the other: what
\* becomes of workloads, of containers nobody waits for, of rows, and the
\* truth of what rows say.
Safe ==
    RecordedFirst /\ NotBegun /\ ResultTrue /\ RunsOnce /\ ReportedIsOver

Stray == NoStray /\ NoWorkBesideStray

Ledger == RowKept /\ RowAccounts /\ NoneOpen /\ EveryStartAccountedFor

Honest == RemovedGone /\ IdleRows /\ ClosedHonestly

IInv == TypeOK /\ AttemptKnown /\ Safe /\ Stray /\ Ledger /\ Honest

-----------------------------------------------------------------------------
\* A process that is not there is of the right type.
LEMMA DownFacts ==
    /\ Down \in Process
    /\ Down.pc = "down" /\ Down.attempt = None /\ Down.todo = {}
<1> USE AttemptAssumption, SettingsAssumption
<1>1. Down.pc = "down" /\ Down.attempt = None /\ Down.todo = {} BY DEF Down
<1>2. NoResult \in Result BY DEF NoResult, Result
<1>3. 0 \in 0 .. MaxRetry OBVIOUS
<1>4. Down \in Process BY <1>2, <1>3 DEF Down, Process
<1> QED BY <1>1, <1>4

\* The ways in which rows change keep their type.
LEMMA RowType ==
    ASSUME TypeOK, NEW a \in Attempt, NEW why \in Reasons,
           \/ CloseActive(a, why) \/ BlockLocally(a)
           \/ row' = [row EXCEPT ![a].removed = TRUE]
           \/ row' = row
    PROVE  row' \in [Attempt -> Row]
<1>1. ASSUME NEW s \in {"CLOSED", "LOCAL_BLOCKED"}, NEW r \in Reasons,
             row' = [row EXCEPT ![a].state = s, ![a].reason = r]
      PROVE  row' \in [Attempt -> Row]
  <2>1. row[a] \in Row
    BY DEF TypeOK
  <2>2. [row[a] EXCEPT !.state = s] \in Row
    BY <2>1 DEF Row
  <2>3. [row EXCEPT ![a].state = s] \in [Attempt -> Row]
    BY <2>2 DEF TypeOK
  <2>4. ASSUME NEW f \in [Attempt -> Row]
        PROVE  [f EXCEPT ![a].reason = r] \in [Attempt -> Row]
    <3>1. [f[a] EXCEPT !.reason = r] \in Row
      BY DEF Row
    <3> QED BY <3>1
  <2> QED BY <1>1, <2>3, <2>4
<1>2. CASE row' = [row EXCEPT ![a].removed = TRUE]
  BY <1>2 DEF TypeOK, Row
<1> QED BY <1>1, <1>2 DEF TypeOK, CloseActive, BlockLocally, Reasons

\* Containers keep their type.
LEMMA BoxType ==
    ASSUME TypeOK, Current \in Attempt, NEW b \in Boxes,
           UNCHANGED box \/ SetBox(b)
    PROVE  box' \in [Attempt -> Boxes]
BY DEF TypeOK, SetBox

\* The end of a run.
LEMMA EndsType ==
    ASSUME agent \in Process, NEW kind \in {"NotStarted", "Unobserved", "Exited"},
           NEW stopped \in BOOLEAN, NEW left \in {"Removed", "Kept", "Unknown"},
           NEW pc \in {"incident", "settle"}, Ends(kind, stopped, left, pc)
    PROVE  /\ agent' \in Process
           /\ agent'.pc = pc /\ agent'.attempt = agent.attempt
           /\ agent'.result.kind = kind /\ agent'.result.stopped = stopped
           /\ agent'.result.left = left
BY DEF Ends, Process, Result, Ending

\* A step that only moves on.
LEMMA GotoType ==
    ASSUME agent \in Process, NEW pc \in Pc, Goto(pc)
    PROVE  /\ agent' \in Process
           /\ agent'.pc = pc /\ agent'.attempt = agent.attempt
           /\ agent'.todo = agent.todo /\ agent'.result = agent.result
           /\ agent'.problem = agent.problem
BY DEF Goto, Process, Pc

\* A step that takes an attempt.
LEMMA TakeType ==
    ASSUME agent \in Process, NEW pc \in Pc, NEW a \in Attempt,
           NEW todo \in SUBSET Attempt,
           \/ agent' = [agent EXCEPT !.pc = pc, !.attempt = a]
           \/ agent' = [agent EXCEPT !.pc = pc, !.attempt = a, !.todo = todo]
    PROVE  agent' \in Process /\ agent'.pc = pc /\ agent'.attempt = a
<1>1. CASE agent' = [agent EXCEPT !.pc = pc, !.attempt = a]
  BY <1>1 DEF Process, Pc
<1>2. CASE agent' = [agent EXCEPT !.pc = pc, !.attempt = a, !.todo = todo]
  BY <1>2 DEF Process, Pc
<1> QED BY <1>1, <1>2

\* A step that takes a list of things to do.
LEMMA TodoType ==
    ASSUME agent \in Process, NEW pc \in Pc, NEW todo \in SUBSET Attempt,
           agent' = [agent EXCEPT !.pc = pc, !.todo = todo]
    PROVE  /\ agent' \in Process
           /\ agent'.pc = pc /\ agent'.attempt = agent.attempt
           /\ agent'.todo = todo /\ agent'.problem = agent.problem
BY DEF Process, Pc

\* The history keeps its type.
LEMMA BeganType ==
    ASSUME TypeOK, NEW a \in Attempt, Began(a)
    PROVE  starts' \in [Attempt -> Nat]
BY DEF Began, TypeOK

\* What closing, blocking and noting a removal do to the rows.
LEMMA CloseFacts ==
    ASSUME TypeOK, NEW a \in Attempt, NEW why \in Reasons, CloseActive(a, why)
    PROVE  /\ row'[a].state = "CLOSED" /\ row'[a].reason = why
           /\ row'[a].removed = row[a].removed
           /\ \A b \in Attempt \ {a} : row'[b] = row[b]
BY DEF TypeOK, Row, CloseActive

\* The same for a row that is blocked.
LEMMA BlockFacts ==
    ASSUME TypeOK, NEW a \in Attempt, BlockLocally(a)
    PROVE  /\ row'[a].state = "LOCAL_BLOCKED" /\ row'[a].reason = "unresolved"
           /\ row'[a].removed = row[a].removed
           /\ \A b \in Attempt \ {a} : row'[b] = row[b]
BY DEF TypeOK, Row, BlockLocally

\* The same for a removal that is noted.
LEMMA RemovedFacts ==
    ASSUME TypeOK, NEW a \in Attempt, row' = [row EXCEPT ![a].removed = TRUE]
    PROVE  /\ row'[a].state = row[a].state /\ row'[a].reason = row[a].reason
           /\ row'[a].removed
           /\ \A b \in Attempt \ {a} : row'[b] = row[b]
BY DEF TypeOK, Row

\* Where the steps that choose between two ways lead the process.
LEMMA WayMoves ==
    ASSUME TypeOK
    PROVE  /\ CheckIncidents =>
                  \/ agent' = Down
                  \/ /\ agent'.pc = "leftovers" /\ agent'.attempt = Current
                     /\ \A a \in Attempt \ OnHost :
                            box[a] \in Live => a \in agent'.todo
           /\ LeftoversEnd =>
                  \/ agent' = Down
                  \/ /\ ~ agent.problem
                     /\ agent'.pc = "flush" /\ agent'.attempt = Current
                     /\ agent'.todo = outbox
           /\ \A a \in Attempt :
                  ReceiveGrant(a) =>
                      \/ agent' = Down
                      \/ /\ a \notin started
                         /\ agent'.pc = "ack" /\ agent'.attempt = a
           /\ ConnectionLost =>
                  agent'.pc \in {"down", "session"} /\ agent'.attempt = None
           /\ MarkReclaimed =>
                  \/ agent' = Down
                  \/ agent'.pc = "persist" /\ agent'.attempt = Current
<1>1. agent \in Process
  BY DEF TypeOK
<1>2. ASSUME CheckIncidents
      PROVE  \/ agent' = Down
             \/ /\ agent'.pc = "leftovers" /\ agent'.attempt = Current
                /\ \A a \in Attempt \ OnHost :
                       box[a] \in Live => a \in agent'.todo
  <2> DEFINE todo == {a \in Attempt \ OnHost : box[a] \in Listed}
  <2>1. \/ agent' = Down
        \/ agent' = [agent EXCEPT !.pc = "leftovers", !.todo = todo]
    BY <1>2 DEF CheckIncidents, Exits
  <2>2. \A a \in Attempt \ OnHost : box[a] \in Live => a \in todo
    BY DEF Listed, Live
  <2> HIDE DEF todo
  <2> QED BY <1>1, <2>1, <2>2 DEF Process, Current
<1>3. ASSUME LeftoversEnd, agent' # Down
      PROVE  /\ ~ agent.problem
             /\ agent'.pc = "flush" /\ agent'.attempt = Current
             /\ agent'.todo = outbox
  BY <1>1, <1>3 DEF LeftoversEnd, Exits, Process, Current
<1>4. ASSUME NEW a \in Attempt, ReceiveGrant(a), agent' # Down
      PROVE  a \notin started /\ agent'.pc = "ack" /\ agent'.attempt = a
  BY <1>1, <1>4 DEF ReceiveGrant, MayTake, Exits, Process
<1>5. ConnectionLost =>
          agent'.pc \in {"down", "session"} /\ agent'.attempt = None
  BY DownFacts DEF ConnectionLost, Exits, Process
<1>6. MarkReclaimed =>
          \/ agent' = Down
          \/ agent'.pc = "persist" /\ agent'.attempt = Current
  BY <1>1 DEF MarkReclaimed, Goto, Exits, Process, Current
<1> QED BY <1>2, <1>3, <1>4, <1>5, <1>6

\* What the steps that end a run say about it.
LEMMA EndMoves ==
    ASSUME TypeOK
    PROVE  /\ HostExitSeen =>
                  /\ agent'.pc = "settle" /\ agent'.attempt = Current
                  /\ agent'.result.kind = "Exited"
           /\ HostWaitFails =>
                  /\ agent'.pc = "settle" /\ agent'.attempt = Current
                  /\ agent'.result.kind = "Unobserved" /\ ~ agent'.result.stopped
           /\ StartUnanswered \/ StopUnconfirmed =>
                  /\ agent'.pc = "incident" /\ agent'.attempt = Current
                  /\ agent'.result.kind = "Unobserved" /\ ~ agent'.result.stopped
           /\ CreateFails \/ StartNotSent =>
                  /\ agent'.pc = "incident" /\ agent'.attempt = Current
                  /\ agent'.result.kind = "NotStarted"
                  /\ \E b \in {"none", "creating", "created"} : SetBox(b)
           /\ StopConfirmed =>
                  /\ agent'.pc = "incident" /\ agent'.attempt = Current
                  /\ agent'.result.kind = "Unobserved"
                  /\ \/ SetBox("none")
                     \/ /\ agent'.result.left # "Removed"
                        /\ SetBox(Halted(box[Current]))
           /\ ContainerExitSeen =>
                  /\ agent'.pc = "incident" /\ agent'.attempt = Current
                  /\ agent'.result.kind = "Exited"
                  /\ \/ SetBox("none")
                     \/ /\ agent'.result.left # "Removed"
                        /\ UNCHANGED box \/ SetBox("exited")
<1> USE EndsType DEF TypeOK, Current
<1>1. HostExitSeen =>
          /\ agent'.pc = "settle" /\ agent'.attempt = Current
          /\ agent'.result.kind = "Exited"
  BY DEF HostExitSeen
<1>2. HostWaitFails =>
          /\ agent'.pc = "settle" /\ agent'.attempt = Current
          /\ agent'.result.kind = "Unobserved" /\ ~ agent'.result.stopped
  BY DEF HostWaitFails
<1>3. StartUnanswered \/ StopUnconfirmed =>
          /\ agent'.pc = "incident" /\ agent'.attempt = Current
          /\ agent'.result.kind = "Unobserved" /\ ~ agent'.result.stopped
  BY DEF StartUnanswered, StopUnconfirmed
<1>4. CreateFails \/ StartNotSent =>
          /\ agent'.pc = "incident" /\ agent'.attempt = Current
          /\ agent'.result.kind = "NotStarted"
          /\ \E b \in {"none", "creating", "created"} : SetBox(b)
  BY DEF CreateFails, StartNotSent, RemoveFact
<1>5. StopConfirmed =>
          /\ agent'.pc = "incident" /\ agent'.attempt = Current
          /\ agent'.result.kind = "Unobserved"
          /\ \/ SetBox("none")
             \/ agent'.result.left # "Removed" /\ SetBox(Halted(box[Current]))
  BY DEF StopConfirmed, RemoveFact
<1>6. ContainerExitSeen =>
          /\ agent'.pc = "incident" /\ agent'.attempt = Current
          /\ agent'.result.kind = "Exited"
          /\ \/ SetBox("none")
             \/ /\ agent'.result.left # "Removed"
                /\ UNCHANGED box \/ SetBox("exited")
  BY DEF ContainerExitSeen, RemoveFact
<1> QED BY <1>1, <1>2, <1>3, <1>4, <1>5, <1>6

\* Every step keeps the types.
LEMMA TypeStep == IInv /\ [Next]_vars => TypeOK'
<1> SUFFICES ASSUME TypeOK, AttemptKnown, [Next]_vars
             PROVE  TypeOK'
  BY DEF IInv
<1> USE DownFacts, AttemptAssumption, SettingsAssumption DEF TypeOK, disk,
   At, Current, AttemptKnown, HasAttempt, Startup, TakesWork, Ending
<1>1. CASE StartAgent  BY <1>1 DEF StartAgent, Process, RowsIn
<1>2. ASSUME NEW a \in Attempt, ResolveRow(a)
      PROVE  TypeOK'
  <2>1. ResolveReason(a) \in Reasons
    BY DEF ResolveReason, Reasons
  <2>2. row' \in [Attempt -> Row]
    BY <1>2, <2>1, RowType DEF ResolveRow
  <2>4. agent.todo \ {a} \in SUBSET Attempt
    BY DEF Process
  <2>3. agent' \in Process
    <3>1. CASE agent' = [agent EXCEPT !.todo = @ \ {a}]
      BY <3>1, <2>4 DEF Process
    <3>2. CASE agent' = [agent EXCEPT !.pc = "resolve_incident",
                                      !.attempt = a, !.todo = @ \ {a}]
      BY <3>2, <2>4, TakeType DEF Pc
    <3> QED BY <3>1, <3>2, <1>2 DEF ResolveRow
  <2> QED BY <2>2, <2>3, <1>2 DEF ResolveRow
<1>3. CASE ResolveIncident  BY <1>3 DEF ResolveIncident, Process
<1>4. CASE ResolveEnds  BY <1>4, GotoType DEF ResolveEnds, Exits, Pc
<1>5. CASE CheckReclaimed  BY <1>5 DEF CheckReclaimed, Process
<1>6. CASE CheckIncidents
  <2>1. agent' \in Process
    BY <1>6, DownFacts, TodoType DEF CheckIncidents, Exits, Pc
  <2> QED BY <2>1, <1>6 DEF CheckIncidents
<1>7. ASSUME NEW a \in Attempt, RemoveLeftover(a) PROVE TypeOK'
  BY <1>7 DEF RemoveLeftover, Process, Boxes
<1>8. ASSUME NEW a \in Attempt, KeepLeftover(a)
      PROVE  TypeOK'
  <2>1. agent' \in Process
    BY <1>8 DEF KeepLeftover, Process
  <2>2. box' \in [Attempt -> Boxes]
    BY <1>8 DEF KeepLeftover, Boxes
  <2> QED BY <2>1, <2>2, <1>8 DEF KeepLeftover
<1>9. CASE LeftoversEnd
  <2>1. agent' \in Process
    BY <1>9, DownFacts, TodoType DEF LeftoversEnd, Exits, Pc
  <2> QED BY <2>1, <1>9 DEF LeftoversEnd
<1>10. ASSUME NEW a \in Attempt, FlushAcknowledged(a) PROVE TypeOK'
  BY <1>10 DEF FlushAcknowledged, FlushReport, Acknowledged, Process
<1>11. ASSUME NEW a \in Attempt, FlushFails(a) PROVE TypeOK'
  BY <1>11 DEF FlushFails, FlushReport, AnswerLost, NotSent, Process
<1>12. ASSUME NEW a \in Attempt, FlushRejects(a) PROVE TypeOK'
  BY <1>12 DEF FlushRejects, FlushReport, Process
<1>13. CASE FlushEnds  BY <1>13, GotoType DEF FlushEnds, Exits, Pc
<1>14. ASSUME NEW a \in Attempt, ReceiveGrant(a)
      PROVE  TypeOK'
  <2>1. agent' \in Process
    BY <1>14, DownFacts, TakeType DEF ReceiveGrant, Exits, Pc
  <2> QED BY <2>1, <1>14 DEF ReceiveGrant
<1>15. CASE ReceiveReceipt  BY <1>15, GotoType DEF ReceiveReceipt, Pc
<1>16. CASE ConnectionLost
  <2>1. CASE Exits
    BY <2>1, <1>16, DownFacts DEF ConnectionLost, Exits
  <2>2. CASE MayRetry /\ agent' = [Down EXCEPT !.pc = "session",
                                               !.tries = agent.tries + 1]
    <3>1. agent.tries + 1 \in 0 .. MaxRetry
      BY <2>2 DEF MayRetry, Process
    <3>2. agent' \in Process
      BY <2>2, <3>1, DownFacts DEF Process
    <3> QED BY <3>2, <1>16 DEF ConnectionLost
  <2> QED BY <2>1, <2>2, <1>16 DEF ConnectionLost
<1>17. CASE InsertActive
  <2>1. row' \in [Attempt -> Row]
    BY <1>17 DEF InsertActive, Row
  <2> QED BY <2>1, <1>17, GotoType DEF InsertActive, Exits, Pc
<1>18. CASE RecordStarted  BY <1>18, GotoType DEF RecordStarted, Pc
<1>19. CASE RecordStartedFails
  <2>1. Current \in Attempt
    BY <1>19 DEF RecordStartedFails, AttemptKnown, HasAttempt
  <2>2. row' \in [Attempt -> Row]
    BY <1>19, <2>1, RowType DEF RecordStartedFails, Current, Reasons
  <2>3. agent' \in Process /\ looping' \in BOOLEAN
    BY <1>19, DownFacts DEF RecordStartedFails, Exits, LedgerFatal
  <2> QED BY <2>1, <2>2, <2>3, <1>19 DEF RecordStartedFails, Current
<1>20. CASE ConfirmStart  BY <1>20, GotoType DEF ConfirmStart, Pc
<1>21. CASE Spawn  BY <1>21, GotoType, BeganType DEF Spawn, Pc, Boxes
<1>22. CASE SpawnFails  BY <1>22, EndsType DEF SpawnFails
<1>23. CASE HostExitSeen  BY <1>23, EndsType DEF HostExitSeen
<1>24. CASE HostWaitFails  BY <1>24, EndsType DEF HostWaitFails
<1>25. CASE Create
  BY <1>25, GotoType DEF Create, SetBox, Pc, Boxes, InContainer
<1>26. CASE CreateFails
  <2>1. Current \in Attempt
    BY <1>26 DEF CreateFails, AttemptKnown, HasAttempt
  <2>2. box' \in [Attempt -> Boxes]
    BY <1>26, <2>1 DEF CreateFails, SetBox, Boxes
  <2>3. agent' \in Process
    BY <1>26, EndsType DEF CreateFails
  <2> QED BY <2>2, <2>3, <1>26 DEF CreateFails
<1>27. CASE StartNotSent
  <2>1. Current \in Attempt
    BY <1>27 DEF StartNotSent, AttemptKnown, HasAttempt
  <2>2. box' \in [Attempt -> Boxes]
    BY <1>27, <2>1 DEF StartNotSent, RemoveFact, SetBox, Boxes
  <2>3. agent' \in Process
    BY <1>27, EndsType DEF StartNotSent, RemoveFact
  <2> QED BY <2>2, <2>3, <1>27 DEF StartNotSent, RemoveFact
<1>28. CASE Start  BY <1>28, GotoType, BeganType DEF Start, SetBox, Pc, Boxes
<1>29. CASE StartUnanswered
  BY <1>29, EndsType DEF StartUnanswered, SetBox, Boxes
<1>30. CASE StartFails
  <2>1. Current \in Attempt
    BY <1>30 DEF StartFails, AttemptKnown, HasAttempt
  <2>2. box' \in [Attempt -> Boxes] /\ starts' \in [Attempt -> Nat]
    BY <1>30, <2>1, BoxType, BeganType DEF StartFails, Boxes
  <2>3. agent' \in Process
    BY <1>30, GotoType DEF StartFails, Pc
  <2> QED BY <2>2, <2>3, <1>30 DEF StartFails
<1>31. CASE PollFails  BY <1>31, GotoType DEF PollFails, Pc
<1>32. CASE StopUnconfirmed
  <2>1. Current \in Attempt
    BY <1>32 DEF StopUnconfirmed, AttemptKnown, HasAttempt
  <2>2. box' \in [Attempt -> Boxes]
    BY <1>32, <2>1 DEF StopUnconfirmed, SetBox, Boxes, Halted
  <2>3. agent' \in Process
    BY <1>32, EndsType DEF StopUnconfirmed
  <2> QED BY <2>2, <2>3, <1>32 DEF StopUnconfirmed
<1>33. CASE StopConfirmed
  <2>1. Current \in Attempt
    BY <1>33 DEF StopConfirmed, AttemptKnown, HasAttempt
  <2>2. box' \in [Attempt -> Boxes]
    BY <1>33, <2>1 DEF StopConfirmed, RemoveFact, SetBox, Boxes, Halted
  <2>3. agent' \in Process
    BY <1>33, EndsType DEF StopConfirmed, RemoveFact
  <2> QED BY <2>2, <2>3, <1>33 DEF StopConfirmed, RemoveFact
<1>34. CASE ContainerExitSeen
  <2>1. Current \in Attempt
    BY <1>34 DEF ContainerExitSeen, AttemptKnown, HasAttempt
  <2>2. box' \in [Attempt -> Boxes]
    BY <1>34, <2>1 DEF ContainerExitSeen, RemoveFact, SetBox, Boxes
  <2>3. agent' \in Process
    BY <1>34, EndsType DEF ContainerExitSeen, RemoveFact
  <2> QED BY <2>2, <2>3, <1>34 DEF ContainerExitSeen, RemoveFact
<1>35. CASE RecordIncident  BY <1>35, GotoType DEF RecordIncident, Pc
<1>36. CASE Settle
  <2>1. Current \in Attempt
    BY <1>36 DEF Settle, AttemptKnown, HasAttempt
  <2>2. row' \in [Attempt -> Row]
    BY <1>36, <2>1, RowType DEF Settle, SettleRow, Reasons
  <2>3. agent' \in Process
    BY <1>36, DownFacts, GotoType DEF Settle, Exits, Pc
  <2> QED BY <2>2, <2>3, <1>36 DEF Settle
<1>37. CASE SettleFails
  BY <1>37 DEF SettleFails, LedgerFatal, Exits, InContainer
<1>38. CASE MarkReclaimed  BY <1>38, GotoType DEF MarkReclaimed, Exits, Pc
<1>39. CASE PersistReport  BY <1>39, GotoType DEF PersistReport, Exits, Pc
<1>40. CASE CloseReported
  BY <1>40, GotoType, RowType DEF CloseReported, Reasons, Pc
<1>41. CASE CloseReportedFails
  BY <1>41 DEF CloseReportedFails, LedgerFatal, Exits
<1>42. CASE DeliverReport
  BY <1>42 DEF DeliverReport, Acknowledged, AnswerLost, NotSent, Exits
<1>43. ASSUME NEW a \in Attempt, ClearRow(a)
      PROVE  TypeOK'
  <2>1. row' \in [Attempt -> Row]
    <3>1. "cleared" \in Reasons BY DEF Reasons
    <3>2. CloseActive(a, "cleared") BY <1>43 DEF ClearRow, CloseActive
    <3> QED BY <3>1, <3>2, RowType
  <2>2. agent' \in Process
    BY <1>43 DEF ClearRow, Process
  <2> QED BY <2>1, <2>2, <1>43 DEF ClearRow
<1>44. CASE ClearIncidents  BY <1>44 DEF ClearIncidents, Exits
<1>45. ASSUME NEW a \in Attempt \cup {None}, Clear(a) PROVE TypeOK'
  <2>1. {b \in RowsIn("LOCAL_BLOCKED") : a \in {None, b}} \in SUBSET Attempt
    BY DEF RowsIn
  <2>2. ASSUME NEW rows \in SUBSET Attempt
        PROVE  [Down EXCEPT !.pc = "clear", !.attempt = a, !.todo = rows] \in Process
    BY DEF Process
  <2>3. agent' \in Process
    BY <1>45, <2>1, <2>2 DEF Clear
  <2> QED BY <1>45, <2>3 DEF Clear
<1>46. CASE OwnerResume  BY <1>46 DEF OwnerResume
<1>47. CASE Relaunch  BY <1>47 DEF Relaunch
<1>48. ASSUME NEW a \in Attempt, WorkloadExits(a) PROVE TypeOK'
  BY <1>48 DEF WorkloadExits, Boxes
<1>49. ASSUME NEW a \in Attempt, LateStart(a) PROVE TypeOK'
  BY <1>49, BeganType DEF LateStart, Boxes
<1>50. ASSUME NEW a \in Attempt, LateCreate(a) PROVE TypeOK'
  BY <1>50 DEF LateCreate, Boxes
<1>51. CASE Dies  BY <1>51 DEF Dies, InFlight, SetBox, Exits, Boxes
<1>52. CASE UNCHANGED vars
  BY <1>52 DEF vars, Reported
<1> QED
  BY <1>1, <1>2, <1>3, <1>4, <1>5, <1>6, <1>7, <1>8, <1>9, <1>10, <1>11,
     <1>12, <1>13, <1>14, <1>15, <1>16, <1>17, <1>18, <1>19, <1>20, <1>21,
     <1>22, <1>23, <1>24, <1>25, <1>26, <1>27, <1>28, <1>29, <1>30, <1>31,
     <1>32, <1>33, <1>34, <1>35, <1>36, <1>37, <1>38, <1>39, <1>40, <1>41,
     <1>42, <1>43, <1>44, <1>45, <1>46, <1>47, <1>48, <1>49, <1>50, <1>51,
     <1>52 DEF Next, AgentStep

\* Every step keeps what is known of the attempt at hand.
LEMMA AttemptStep == IInv /\ [Next]_vars => AttemptKnown'
<1> SUFFICES ASSUME TypeOK, AttemptKnown, [Next]_vars
             PROVE  AttemptKnown'
  BY DEF IInv
<1> USE DownFacts, AttemptAssumption, SettingsAssumption DEF TypeOK,
   AttemptKnown, Current, HasAttempt, Idle, disk, At, Startup, TakesWork,
   Ending, InContainer
<1>1. CASE StartAgent  BY <1>1 DEF StartAgent, Process
<1>2. ASSUME NEW a \in Attempt, ResolveRow(a) PROVE AttemptKnown'
  <2>1. \/ agent'.pc = "resolve" /\ agent'.attempt = agent.attempt
        \/ agent'.pc = "resolve_incident" /\ agent'.attempt = a
    BY <1>2 DEF ResolveRow, Process
  <2>2. agent.pc = "resolve" /\ started' = started
    BY <1>2 DEF ResolveRow
  <2> QED BY <2>1, <2>2
<1>3. CASE ResolveIncident  BY <1>3 DEF ResolveIncident, Process
<1>4. CASE ResolveEnds  BY <1>4, GotoType DEF ResolveEnds, Exits, Pc
<1>5. CASE CheckReclaimed  BY <1>5 DEF CheckReclaimed, Process
<1>6. CASE CheckIncidents  BY <1>6, WayMoves DEF CheckIncidents
<1>7. ASSUME NEW a \in Attempt, RemoveLeftover(a) PROVE AttemptKnown'
  BY <1>7 DEF RemoveLeftover, Process
<1>8. ASSUME NEW a \in Attempt, KeepLeftover(a) PROVE AttemptKnown'
  BY <1>8 DEF KeepLeftover, Process
<1>9. CASE LeftoversEnd  BY <1>9, WayMoves DEF LeftoversEnd
<1>10. ASSUME NEW a \in Attempt, FlushAcknowledged(a) PROVE AttemptKnown'
  BY <1>10 DEF FlushAcknowledged, FlushReport, Acknowledged, Process
<1>11. ASSUME NEW a \in Attempt, FlushFails(a) PROVE AttemptKnown'
  BY <1>11 DEF FlushFails, FlushReport, AnswerLost, NotSent, Process
<1>12. ASSUME NEW a \in Attempt, FlushRejects(a) PROVE AttemptKnown'
  BY <1>12 DEF FlushRejects, FlushReport, Process
<1>13. CASE FlushEnds  BY <1>13, GotoType DEF FlushEnds, Exits, Pc
<1>14. ASSUME NEW a \in Attempt, ReceiveGrant(a) PROVE AttemptKnown'
  BY <1>14, WayMoves DEF ReceiveGrant
<1>15. CASE ReceiveReceipt  BY <1>15, GotoType DEF ReceiveReceipt, Pc
<1>16. CASE ConnectionLost  BY <1>16, WayMoves DEF ConnectionLost
<1>17. CASE InsertActive  BY <1>17, GotoType DEF InsertActive, Exits, Pc
<1>18. CASE RecordStarted  BY <1>18, GotoType DEF RecordStarted, Pc
<1>19. CASE RecordStartedFails
  BY <1>19 DEF RecordStartedFails, LedgerFatal, Exits
<1>20. CASE ConfirmStart  BY <1>20, GotoType DEF ConfirmStart, Pc
<1>21. CASE Spawn  BY <1>21, GotoType DEF Spawn, Began, Pc
<1>22. CASE SpawnFails  BY <1>22, EndsType DEF SpawnFails
<1>23. CASE HostExitSeen  BY <1>23, EndMoves DEF HostExitSeen
<1>24. CASE HostWaitFails  BY <1>24, EndMoves DEF HostWaitFails
<1>25. CASE Create  BY <1>25, GotoType DEF Create, SetBox, Pc
<1>26. CASE CreateFails  BY <1>26, EndMoves DEF CreateFails, SetBox
<1>27. CASE StartNotSent  BY <1>27, EndMoves DEF StartNotSent, SetBox
<1>28. CASE Start  BY <1>28, GotoType DEF Start, SetBox, Began, Pc
<1>29. CASE StartUnanswered  BY <1>29, EndMoves DEF StartUnanswered, SetBox
<1>30. CASE StartFails  BY <1>30, GotoType DEF StartFails, SetBox, Began, Pc
<1>31. CASE PollFails  BY <1>31, GotoType DEF PollFails, Pc
<1>32. CASE StopUnconfirmed
  BY <1>32, EndMoves DEF StopUnconfirmed, SetBox, Halted
<1>33. CASE StopConfirmed
  BY <1>33, EndMoves DEF StopConfirmed, SetBox, Halted
<1>34. CASE ContainerExitSeen
  BY <1>34, EndMoves DEF ContainerExitSeen, SetBox
<1>35. CASE RecordIncident  BY <1>35, GotoType DEF RecordIncident, Pc
<1>36. CASE Settle  BY <1>36, GotoType DEF Settle, Exits, Pc
<1>37. CASE SettleFails  BY <1>37 DEF SettleFails, LedgerFatal, Exits
<1>38. CASE MarkReclaimed  BY <1>38, WayMoves DEF MarkReclaimed
<1>39. CASE PersistReport  BY <1>39, GotoType DEF PersistReport, Exits, Pc
<1>40. CASE CloseReported  BY <1>40, GotoType DEF CloseReported, Pc
<1>41. CASE CloseReportedFails
  BY <1>41 DEF CloseReportedFails, LedgerFatal, Exits
<1>42. CASE DeliverReport
  BY <1>42 DEF DeliverReport, Acknowledged, AnswerLost, NotSent, Exits
<1>43. ASSUME NEW a \in Attempt, ClearRow(a) PROVE AttemptKnown'
  BY <1>43 DEF ClearRow, Process
<1>44. CASE ClearIncidents  BY <1>44 DEF ClearIncidents, Exits
<1>45. ASSUME NEW a \in Attempt \cup {None}, Clear(a) PROVE AttemptKnown'
  BY <1>45 DEF Clear, Process
<1>46. CASE OwnerResume  BY <1>46 DEF OwnerResume
<1>47. CASE Relaunch  BY <1>47 DEF Relaunch
<1>48. ASSUME NEW a \in Attempt, WorkloadExits(a) PROVE AttemptKnown'
  BY <1>48 DEF WorkloadExits
<1>49. ASSUME NEW a \in Attempt, LateStart(a) PROVE AttemptKnown'
  BY <1>49 DEF LateStart, Began
<1>50. ASSUME NEW a \in Attempt, LateCreate(a) PROVE AttemptKnown'
  BY <1>50 DEF LateCreate
<1>51. CASE Dies  BY <1>51 DEF Dies, InFlight, SetBox, Exits
<1>52. CASE UNCHANGED vars
  BY <1>52 DEF vars, Reported
<1> QED
  BY <1>1, <1>2, <1>3, <1>4, <1>5, <1>6, <1>7, <1>8, <1>9, <1>10, <1>11,
     <1>12, <1>13, <1>14, <1>15, <1>16, <1>17, <1>18, <1>19, <1>20, <1>21,
     <1>22, <1>23, <1>24, <1>25, <1>26, <1>27, <1>28, <1>29, <1>30, <1>31,
     <1>32, <1>33, <1>34, <1>35, <1>36, <1>37, <1>38, <1>39, <1>40, <1>41,
     <1>42, <1>43, <1>44, <1>45, <1>46, <1>47, <1>48, <1>49, <1>50, <1>51,
     <1>52 DEF Next, AgentStep

\* Every step keeps Safe: a workload begins only where it has not begun, and
\* is reported only after its end was seen.
LEMMA SafeStep == IInv /\ [Next]_vars => Safe'
<1> SUFFICES ASSUME TypeOK, AttemptKnown, Safe, [Next]_vars
             PROVE  Safe'
  BY DEF IInv
<1> USE DownFacts, AttemptAssumption, SettingsAssumption DEF TypeOK,
   AttemptKnown, Current, HasAttempt, Idle, disk, At, Startup, TakesWork,
   Ending, InContainer, Safe, RecordedFirst, NotBegun, ResultTrue, RunsOnce,
   ReportedIsOver, Reported, Live, Boxes, HasReport
<1>1. CASE StartAgent  BY <1>1 DEF StartAgent, Process
<1>2. ASSUME NEW a \in Attempt, ResolveRow(a) PROVE Safe'
  BY <1>2 DEF ResolveRow, Process
<1>3. CASE ResolveIncident  BY <1>3 DEF ResolveIncident, Process
<1>4. CASE ResolveEnds  BY <1>4, GotoType DEF ResolveEnds, Exits, Pc
<1>5. CASE CheckReclaimed  BY <1>5 DEF CheckReclaimed, Process
<1>6. CASE CheckIncidents  BY <1>6, WayMoves DEF CheckIncidents
<1>7. ASSUME NEW a \in Attempt, RemoveLeftover(a) PROVE Safe'
  BY <1>7 DEF RemoveLeftover, Process
<1>8. ASSUME NEW a \in Attempt, KeepLeftover(a) PROVE Safe'
  BY <1>8 DEF KeepLeftover, Process
<1>9. CASE LeftoversEnd  BY <1>9, WayMoves DEF LeftoversEnd
<1>10. ASSUME NEW a \in Attempt, FlushAcknowledged(a) PROVE Safe'
  BY <1>10 DEF FlushAcknowledged, FlushReport, Acknowledged, Process
<1>11. ASSUME NEW a \in Attempt, FlushFails(a) PROVE Safe'
  BY <1>11 DEF FlushFails, FlushReport, AnswerLost, NotSent, Process
<1>12. ASSUME NEW a \in Attempt, FlushRejects(a) PROVE Safe'
  BY <1>12 DEF FlushRejects, FlushReport, Process
<1>13. CASE FlushEnds  BY <1>13, GotoType DEF FlushEnds, Exits, Pc
<1>14. ASSUME NEW a \in Attempt, ReceiveGrant(a) PROVE Safe'
  BY <1>14, WayMoves DEF ReceiveGrant
<1>15. CASE ReceiveReceipt  BY <1>15, GotoType DEF ReceiveReceipt, Pc
<1>16. CASE ConnectionLost  BY <1>16, WayMoves DEF ConnectionLost
<1>17. CASE InsertActive  BY <1>17, GotoType DEF InsertActive, Exits, Pc
<1>18. CASE RecordStarted  BY <1>18, GotoType DEF RecordStarted, Pc
<1>19. CASE RecordStartedFails
  BY <1>19 DEF RecordStartedFails, LedgerFatal, Exits
<1>20. CASE ConfirmStart  BY <1>20, GotoType DEF ConfirmStart, Pc
<1>21. CASE Spawn  BY <1>21, GotoType DEF Spawn, Began, Pc
<1>22. CASE SpawnFails  BY <1>22, EndsType DEF SpawnFails
<1>23. CASE HostExitSeen  BY <1>23, EndMoves DEF HostExitSeen
<1>24. CASE HostWaitFails  BY <1>24, EndMoves DEF HostWaitFails
<1>25. CASE Create  BY <1>25, GotoType DEF Create, SetBox, Pc
<1>26. CASE CreateFails
  <2>1. At("run") /\ UNCHANGED <<disk, looping, starts, deaths>>
    BY <1>26 DEF CreateFails
  <2> QED BY <2>1, <1>26, EndMoves DEF SetBox
<1>27. CASE StartNotSent  BY <1>27, EndMoves DEF StartNotSent, SetBox
<1>28. CASE Start  BY <1>28, GotoType DEF Start, SetBox, Began, Pc
<1>29. CASE StartUnanswered  BY <1>29, EndMoves DEF StartUnanswered, SetBox
<1>30. CASE StartFails  BY <1>30, GotoType DEF StartFails, SetBox, Began, Pc
<1>31. CASE PollFails  BY <1>31, GotoType DEF PollFails, Pc
<1>32. CASE StopUnconfirmed
  <2>1. /\ At("stop") /\ UNCHANGED <<disk, looping, starts, deaths>>
        /\ UNCHANGED box \/ SetBox(Halted(box[Current]))
    BY <1>32 DEF StopUnconfirmed
  <2> QED BY <2>1, <1>32, EndMoves DEF SetBox, Halted
<1>33. CASE StopConfirmed
  <2>1. At("stop") /\ UNCHANGED <<disk, looping, starts, deaths>>
    BY <1>33 DEF StopConfirmed
  <2> QED BY <2>1, <1>33, EndMoves DEF SetBox, Halted
<1>34. CASE ContainerExitSeen
  <2>1. At("wait") /\ box[Current] = "exited" /\ UNCHANGED <<disk, looping, starts, deaths>>
    BY <1>34 DEF ContainerExitSeen
  <2> QED BY <2>1, <1>34, EndMoves DEF SetBox
<1>35. CASE RecordIncident  BY <1>35, GotoType DEF RecordIncident, Pc
<1>36. CASE Settle  BY <1>36, GotoType DEF Settle, Exits, Pc
<1>37. CASE SettleFails  BY <1>37 DEF SettleFails, LedgerFatal, Exits
<1>38. CASE MarkReclaimed  BY <1>38, WayMoves DEF MarkReclaimed
<1>39. CASE PersistReport  BY <1>39, GotoType DEF PersistReport, Exits, Pc
<1>40. CASE CloseReported  BY <1>40, GotoType DEF CloseReported, Pc
<1>41. CASE CloseReportedFails
  BY <1>41 DEF CloseReportedFails, LedgerFatal, Exits
<1>42. CASE DeliverReport
  BY <1>42 DEF DeliverReport, Acknowledged, AnswerLost, NotSent, Exits
<1>43. ASSUME NEW a \in Attempt, ClearRow(a) PROVE Safe'
  BY <1>43 DEF ClearRow, Process
<1>44. CASE ClearIncidents  BY <1>44 DEF ClearIncidents, Exits
<1>45. ASSUME NEW a \in Attempt \cup {None}, Clear(a) PROVE Safe'
  BY <1>45 DEF Clear, Process
<1>46. CASE OwnerResume  BY <1>46 DEF OwnerResume
<1>47. CASE Relaunch  BY <1>47 DEF Relaunch
<1>48. ASSUME NEW a \in Attempt, WorkloadExits(a) PROVE Safe'
  BY <1>48 DEF WorkloadExits
<1>49. ASSUME NEW a \in Attempt, LateStart(a) PROVE Safe'
  BY <1>49 DEF LateStart, Began
<1>50. ASSUME NEW a \in Attempt, LateCreate(a) PROVE Safe'
  BY <1>50 DEF LateCreate
<1>51. CASE Dies  BY <1>51 DEF Dies, InFlight, SetBox, Exits
<1>52. CASE UNCHANGED vars
  BY <1>52 DEF vars, Reported
<1> QED
  BY <1>1, <1>2, <1>3, <1>4, <1>5, <1>6, <1>7, <1>8, <1>9, <1>10, <1>11,
     <1>12, <1>13, <1>14, <1>15, <1>16, <1>17, <1>18, <1>19, <1>20, <1>21,
     <1>22, <1>23, <1>24, <1>25, <1>26, <1>27, <1>28, <1>29, <1>30, <1>31,
     <1>32, <1>33, <1>34, <1>35, <1>36, <1>37, <1>38, <1>39, <1>40, <1>41,
     <1>42, <1>43, <1>44, <1>45, <1>46, <1>47, <1>48, <1>49, <1>50, <1>51,
     <1>52 DEF Next, AgentStep

\* Every step keeps Stray: start-up removes every container that is there, and
\* one that is only asked for is not started by anybody else.
LEMMA StrayStep == IInv /\ [Next]_vars => Stray'
<1> SUFFICES ASSUME TypeOK, AttemptKnown, RecordedFirst, NotBegun, Stray, [Next]_vars
             PROVE  Stray'
  BY DEF IInv, Safe
<1> USE DownFacts, AttemptAssumption, SettingsAssumption DEF TypeOK,
   AttemptKnown, Current, HasAttempt, Idle, disk, At, Startup, TakesWork,
   Ending, InContainer, RecordedFirst, NotBegun, Stray, NoStray,
   NoWorkBesideStray, Live, Boxes
<1>1. CASE StartAgent  BY <1>1 DEF StartAgent, Process
<1>2. ASSUME NEW a \in Attempt, ResolveRow(a) PROVE Stray'
  BY <1>2 DEF ResolveRow, Process
<1>3. CASE ResolveIncident  BY <1>3 DEF ResolveIncident, Process
<1>4. CASE ResolveEnds  BY <1>4, GotoType DEF ResolveEnds, Exits, Pc
<1>5. CASE CheckReclaimed  BY <1>5 DEF CheckReclaimed, Process
<1>6. CASE CheckIncidents  BY <1>6, WayMoves DEF CheckIncidents
<1>7. ASSUME NEW a \in Attempt, RemoveLeftover(a) PROVE Stray'
  BY <1>7 DEF RemoveLeftover, Process
<1>8. ASSUME NEW a \in Attempt, KeepLeftover(a) PROVE Stray'
  BY <1>8 DEF KeepLeftover, Process
<1>9. CASE LeftoversEnd  BY <1>9, WayMoves DEF LeftoversEnd
<1>10. ASSUME NEW a \in Attempt, FlushAcknowledged(a) PROVE Stray'
  BY <1>10 DEF FlushAcknowledged, FlushReport, Acknowledged, Process
<1>11. ASSUME NEW a \in Attempt, FlushFails(a) PROVE Stray'
  BY <1>11 DEF FlushFails, FlushReport, AnswerLost, NotSent, Process
<1>12. ASSUME NEW a \in Attempt, FlushRejects(a) PROVE Stray'
  BY <1>12 DEF FlushRejects, FlushReport, Process
<1>13. CASE FlushEnds  BY <1>13, GotoType DEF FlushEnds, Exits, Pc
<1>14. ASSUME NEW a \in Attempt, ReceiveGrant(a)
      PROVE  Stray'
  <2>1. At("session") /\ UNCHANGED <<disk, box, looping, starts, deaths>>
    BY <1>14 DEF ReceiveGrant
  <2> QED BY <2>1, <1>14, WayMoves
<1>15. CASE ReceiveReceipt  BY <1>15, GotoType DEF ReceiveReceipt, Pc
<1>16. CASE ConnectionLost  BY <1>16, WayMoves DEF ConnectionLost
<1>17. CASE InsertActive  BY <1>17, GotoType DEF InsertActive, Exits, Pc
<1>18. CASE RecordStarted  BY <1>18, GotoType DEF RecordStarted, Pc
<1>19. CASE RecordStartedFails
  BY <1>19 DEF RecordStartedFails, LedgerFatal, Exits
<1>20. CASE ConfirmStart  BY <1>20, GotoType DEF ConfirmStart, Pc
<1>21. CASE Spawn  BY <1>21, GotoType DEF Spawn, Began, Pc
<1>22. CASE SpawnFails  BY <1>22, EndsType DEF SpawnFails
<1>23. CASE HostExitSeen  BY <1>23, EndMoves DEF HostExitSeen
<1>24. CASE HostWaitFails  BY <1>24, EndMoves DEF HostWaitFails
<1>25. CASE Create  BY <1>25, GotoType DEF Create, SetBox, Pc
<1>26. CASE CreateFails  BY <1>26, EndMoves DEF CreateFails, SetBox
<1>27. CASE StartNotSent  BY <1>27, EndMoves DEF StartNotSent, SetBox
<1>28. CASE Start  BY <1>28, GotoType DEF Start, SetBox, Began, Pc
<1>29. CASE StartUnanswered  BY <1>29, EndMoves DEF StartUnanswered, SetBox
<1>30. CASE StartFails  BY <1>30, GotoType DEF StartFails, SetBox, Began, Pc
<1>31. CASE PollFails  BY <1>31, GotoType DEF PollFails, Pc
<1>32. CASE StopUnconfirmed
  BY <1>32, EndMoves DEF StopUnconfirmed, SetBox, Halted
<1>33. CASE StopConfirmed
  BY <1>33, EndMoves DEF StopConfirmed, SetBox, Halted
<1>34. CASE ContainerExitSeen
  BY <1>34, EndMoves DEF ContainerExitSeen, SetBox
<1>35. CASE RecordIncident  BY <1>35, GotoType DEF RecordIncident, Pc
<1>36. CASE Settle  BY <1>36, GotoType DEF Settle, Exits, Pc
<1>37. CASE SettleFails  BY <1>37 DEF SettleFails, LedgerFatal, Exits
<1>38. CASE MarkReclaimed  BY <1>38, WayMoves DEF MarkReclaimed
<1>39. CASE PersistReport  BY <1>39, GotoType DEF PersistReport, Exits, Pc
<1>40. CASE CloseReported  BY <1>40, GotoType DEF CloseReported, Pc
<1>41. CASE CloseReportedFails
  BY <1>41 DEF CloseReportedFails, LedgerFatal, Exits
<1>42. CASE DeliverReport
  BY <1>42 DEF DeliverReport, Acknowledged, AnswerLost, NotSent, Exits
<1>43. ASSUME NEW a \in Attempt, ClearRow(a) PROVE Stray'
  BY <1>43 DEF ClearRow, Process
<1>44. CASE ClearIncidents  BY <1>44 DEF ClearIncidents, Exits
<1>45. ASSUME NEW a \in Attempt \cup {None}, Clear(a) PROVE Stray'
  BY <1>45 DEF Clear, Process
<1>46. CASE OwnerResume  BY <1>46 DEF OwnerResume
<1>47. CASE Relaunch  BY <1>47 DEF Relaunch
<1>48. ASSUME NEW a \in Attempt, WorkloadExits(a) PROVE Stray'
  BY <1>48 DEF WorkloadExits
<1>49. ASSUME NEW a \in Attempt, LateStart(a) PROVE Stray'
  BY <1>49 DEF LateStart, Began
<1>50. ASSUME NEW a \in Attempt, LateCreate(a) PROVE Stray'
  BY <1>50 DEF LateCreate
<1>51. CASE Dies  BY <1>51 DEF Dies, InFlight, SetBox, Exits
<1>52. CASE UNCHANGED vars
  BY <1>52 DEF vars, Reported
<1> QED
  BY <1>1, <1>2, <1>3, <1>4, <1>5, <1>6, <1>7, <1>8, <1>9, <1>10, <1>11,
     <1>12, <1>13, <1>14, <1>15, <1>16, <1>17, <1>18, <1>19, <1>20, <1>21,
     <1>22, <1>23, <1>24, <1>25, <1>26, <1>27, <1>28, <1>29, <1>30, <1>31,
     <1>32, <1>33, <1>34, <1>35, <1>36, <1>37, <1>38, <1>39, <1>40, <1>41,
     <1>42, <1>43, <1>44, <1>45, <1>46, <1>47, <1>48, <1>49, <1>50, <1>51,
     <1>52 DEF Next, AgentStep

\* Every step keeps Ledger: rows are opened before and closed after the run.
LEMMA LedgerStep == IInv /\ [Next]_vars => Ledger'
<1> SUFFICES ASSUME TypeOK, AttemptKnown, RecordedFirst, NotBegun, ResultTrue,
                    NoWorkBesideStray, Ledger, [Next]_vars
             PROVE  Ledger'
  BY DEF IInv, Safe, Stray
<1> USE DownFacts, AttemptAssumption, SettingsAssumption DEF TypeOK,
   AttemptKnown, Current, HasAttempt, Idle, disk, At, Startup, TakesWork,
   Ending, InContainer, RecordedFirst, NotBegun, ResultTrue,
   NoWorkBesideStray, Live, Boxes, Ledger, RowKept, RowAccounts, NoneOpen,
   EveryStartAccountedFor, Held, RowsIn, BlocksNewWork, Reported
<1>1. CASE StartAgent  BY <1>1 DEF StartAgent, Process
<1>2. ASSUME NEW a \in Attempt, ResolveRow(a)
      PROVE  Ledger'
  <2>1. CASE /\ ~ Unproved(a) /\ CloseActive(a, ResolveReason(a))
             /\ agent' = [agent EXCEPT !.todo = @ \ {a}]
    <3>1. ResolveReason(a) \in Reasons
      BY DEF ResolveReason, Reasons
    <3>2. agent'.pc = "resolve" /\ agent'.todo = agent.todo \ {a}
      BY <2>1, <1>2 DEF ResolveRow, Process
    <3> QED BY <2>1, <3>1, <3>2, CloseFacts, <1>2 DEF ResolveRow, Unproved
  <2>2. CASE /\ Unproved(a) /\ BlockLocally(a)
             /\ agent' = [agent EXCEPT !.pc = "resolve_incident",
                                       !.attempt = a, !.todo = @ \ {a}]
    <3>1. agent'.pc = "resolve_incident" /\ agent'.todo = agent.todo \ {a}
      BY <2>2, <1>2 DEF ResolveRow, Process
    <3> QED BY <2>2, <3>1, BlockFacts, <1>2 DEF ResolveRow
  <2> QED BY <2>1, <2>2, <1>2 DEF ResolveRow
<1>3. CASE ResolveIncident  BY <1>3 DEF ResolveIncident, Process
<1>4. CASE ResolveEnds
  BY <1>4, GotoType DEF ResolveEnds, BlocksNewWork, Exits, Pc
<1>5. CASE CheckReclaimed  BY <1>5 DEF CheckReclaimed, Process
<1>6. CASE CheckIncidents  BY <1>6, WayMoves DEF CheckIncidents
<1>7. ASSUME NEW a \in Attempt, RemoveLeftover(a) PROVE Ledger'
  BY <1>7 DEF RemoveLeftover, Process
<1>8. ASSUME NEW a \in Attempt, KeepLeftover(a) PROVE Ledger'
  BY <1>8 DEF KeepLeftover, Process
<1>9. CASE LeftoversEnd  BY <1>9, WayMoves DEF LeftoversEnd
<1>10. ASSUME NEW a \in Attempt, FlushAcknowledged(a) PROVE Ledger'
  BY <1>10 DEF FlushAcknowledged, FlushReport, Acknowledged, Process
<1>11. ASSUME NEW a \in Attempt, FlushFails(a) PROVE Ledger'
  BY <1>11 DEF FlushFails, FlushReport, AnswerLost, NotSent, Process
<1>12. ASSUME NEW a \in Attempt, FlushRejects(a) PROVE Ledger'
  BY <1>12 DEF FlushRejects, FlushReport, Process
<1>13. CASE FlushEnds
  <2>1. CASE At("farewell")
    BY <2>1, <1>13 DEF FlushEnds, Exits
  <2>2. CASE At("flush")
    <3>1. agent'.pc = "session" /\ agent'.attempt = Current
      BY <2>2, <1>13, GotoType DEF FlushEnds, Pc
    <3>2. ASSUME RunLedger, NEW a \in Attempt \ OnHost, starts[a] > 0
          PROVE  /\ row[a].state = "CLOSED"
                 /\ a \in Reported \/ row[a].reason = "cleared"
      <4>1. a \in started /\ row[a].state # "none"
        BY <3>2
      <4>2. row[a].state = "CLOSED"
        BY <4>1, <3>2, <2>2 DEF Row
      <4> QED BY <4>1, <4>2, <3>2
    <3>3. EveryStartAccountedFor'
      BY <3>1, <3>2, <1>13 DEF FlushEnds
    <3> QED BY <3>1, <3>3, <1>13 DEF FlushEnds
  <2> QED BY <2>1, <2>2, <1>13 DEF FlushEnds
<1>14. ASSUME NEW a \in Attempt, ReceiveGrant(a)
      PROVE  Ledger'
  <2>1. At("session") /\ UNCHANGED <<disk, box, looping, starts, deaths>>
    BY <1>14 DEF ReceiveGrant
  <2> QED BY <2>1, <1>14, WayMoves
<1>15. CASE ReceiveReceipt  BY <1>15, GotoType DEF ReceiveReceipt, Pc
<1>16. CASE ConnectionLost  BY <1>16, WayMoves DEF ConnectionLost
<1>17. CASE InsertActive
  <2>1. CASE ~ RunLedger
    <3>1. agent'.pc = "sentinel" /\ agent'.attempt = Current
      BY <2>1, <1>17, GotoType DEF InsertActive, Pc
    <3> QED BY <2>1, <3>1, <1>17 DEF InsertActive
  <2>2. CASE RunLedger /\ row[Current].state = "none"
    <3>1. agent'.pc = "sentinel" /\ agent'.attempt = Current
      BY <2>2, <1>17, GotoType DEF InsertActive, Pc
    <3>2. /\ row'[Current].state = "ACTIVE"
          /\ row'[Current].removed = row[Current].removed
          /\ \A b \in Attempt \ {Current} : row'[b] = row[b]
      BY <2>2, <1>17 DEF InsertActive, Row
    <3> QED BY <3>1, <3>2, <2>2, <1>17 DEF InsertActive
  <2>3. CASE RunLedger /\ row[Current].state # "none"
    BY <2>3, <1>17 DEF InsertActive, Exits
  <2> QED BY <2>1, <2>2, <2>3
<1>18. CASE RecordStarted  BY <1>18, GotoType DEF RecordStarted, Pc
<1>19. CASE RecordStartedFails
  <2>1. agent' = Down
    BY <1>19 DEF RecordStartedFails, LedgerFatal, Exits
  <2>2. CASE UNCHANGED row
    BY <2>1, <2>2, <1>19 DEF RecordStartedFails
  <2>3. CASE CloseActive(Current, "not_started")
    BY <2>1, <2>3, CloseFacts, <1>19 DEF RecordStartedFails, Reasons
  <2> QED BY <2>2, <2>3, <1>19 DEF RecordStartedFails
<1>20. CASE ConfirmStart  BY <1>20, GotoType DEF ConfirmStart, Pc
<1>21. CASE Spawn  BY <1>21, GotoType DEF Spawn, Began, Pc
<1>22. CASE SpawnFails  BY <1>22, EndsType DEF SpawnFails
<1>23. CASE HostExitSeen  BY <1>23, EndMoves DEF HostExitSeen
<1>24. CASE HostWaitFails  BY <1>24, EndMoves DEF HostWaitFails
<1>25. CASE Create  BY <1>25, GotoType DEF Create, SetBox, Pc
<1>26. CASE CreateFails  BY <1>26, EndMoves DEF CreateFails, SetBox
<1>27. CASE StartNotSent  BY <1>27, EndMoves DEF StartNotSent, SetBox
<1>28. CASE Start  BY <1>28, GotoType DEF Start, SetBox, Began, Pc
<1>29. CASE StartUnanswered  BY <1>29, EndMoves DEF StartUnanswered, SetBox
<1>30. CASE StartFails  BY <1>30, GotoType DEF StartFails, SetBox, Began, Pc
<1>31. CASE PollFails  BY <1>31, GotoType DEF PollFails, Pc
<1>32. CASE StopUnconfirmed
  BY <1>32, EndMoves DEF StopUnconfirmed, SetBox, Halted
<1>33. CASE StopConfirmed
  BY <1>33, EndMoves DEF StopConfirmed, SetBox, Halted
<1>34. CASE ContainerExitSeen
  BY <1>34, EndMoves DEF ContainerExitSeen, SetBox
<1>35. CASE RecordIncident  BY <1>35, GotoType DEF RecordIncident, Pc
<1>36. CASE Settle
  <2>1. \/ agent'.pc = "marker" /\ agent'.attempt = Current
        \/ agent' = Down
    BY <1>36, GotoType DEF Settle, Exits, Pc
  <2>2. /\ UNCHANGED <<started, outbox, rejected, stored, box, starts>>
        /\ Current \in Attempt /\ agent.pc = "settle"
    BY <1>36 DEF Settle
  <2>3. CASE UNCHANGED row
    BY <2>1, <2>2, <2>3
  <2>4. CASE /\ RunLedger /\ NeverBegan(agent.result)
             /\ CloseActive(Current, "not_started")
    BY <2>1, <2>2, <2>4, CloseFacts DEF Reasons, NeverBegan
  <2>5. CASE RunLedger /\ BlockLocally(Current)
    BY <2>1, <2>2, <2>5, BlockFacts
  <2>6. CASE RunLedger /\ row' = [row EXCEPT ![Current].removed = TRUE]
    BY <2>1, <2>2, <2>6, RemovedFacts
  <2> QED BY <2>3, <2>4, <2>5, <2>6, <1>36 DEF Settle, SettleRow
<1>37. CASE SettleFails  BY <1>37 DEF SettleFails, LedgerFatal, Exits
<1>38. CASE MarkReclaimed  BY <1>38, WayMoves DEF MarkReclaimed
<1>39. CASE PersistReport  BY <1>39, GotoType DEF PersistReport, Exits, Pc
<1>40. CASE CloseReported
  <2>1. agent'.pc = "deliver" /\ agent'.attempt = Current
    BY <1>40, GotoType DEF CloseReported, Pc
  <2>2. CASE UNCHANGED row
    BY <2>1, <2>2, <1>40 DEF CloseReported
  <2>3. CASE CloseActive(Current, "report_persisted")
    BY <2>1, <2>3, CloseFacts, <1>40 DEF CloseReported, Reasons
  <2> QED BY <2>2, <2>3, <1>40 DEF CloseReported
<1>41. CASE CloseReportedFails
  BY <1>41 DEF CloseReportedFails, LedgerFatal, Exits
<1>42. CASE DeliverReport
  BY <1>42 DEF DeliverReport, Acknowledged, AnswerLost, NotSent, Exits
<1>43. ASSUME NEW a \in Attempt, ClearRow(a) PROVE Ledger'
  BY <1>43 DEF ClearRow, Process
<1>44. CASE ClearIncidents  BY <1>44 DEF ClearIncidents, Exits
<1>45. ASSUME NEW a \in Attempt \cup {None}, Clear(a) PROVE Ledger'
  BY <1>45 DEF Clear, Process
<1>46. CASE OwnerResume  BY <1>46 DEF OwnerResume
<1>47. CASE Relaunch  BY <1>47 DEF Relaunch
<1>48. ASSUME NEW a \in Attempt, WorkloadExits(a) PROVE Ledger'
  BY <1>48 DEF WorkloadExits
<1>49. ASSUME NEW a \in Attempt, LateStart(a) PROVE Ledger'
  BY <1>49 DEF LateStart, Began
<1>50. ASSUME NEW a \in Attempt, LateCreate(a) PROVE Ledger'
  BY <1>50 DEF LateCreate
<1>51. CASE Dies  BY <1>51 DEF Dies, InFlight, SetBox, Exits
<1>52. CASE UNCHANGED vars
  BY <1>52 DEF vars, Reported
<1> QED
  BY <1>1, <1>2, <1>3, <1>4, <1>5, <1>6, <1>7, <1>8, <1>9, <1>10, <1>11,
     <1>12, <1>13, <1>14, <1>15, <1>16, <1>17, <1>18, <1>19, <1>20, <1>21,
     <1>22, <1>23, <1>24, <1>25, <1>26, <1>27, <1>28, <1>29, <1>30, <1>31,
     <1>32, <1>33, <1>34, <1>35, <1>36, <1>37, <1>38, <1>39, <1>40, <1>41,
     <1>42, <1>43, <1>44, <1>45, <1>46, <1>47, <1>48, <1>49, <1>50, <1>51,
     <1>52 DEF Next, AgentStep

\* Every step keeps Honest: a row is closed for what was seen.
LEMMA HonestStep == IInv /\ [Next]_vars => Honest'
<1> SUFFICES ASSUME TypeOK, AttemptKnown, RecordedFirst, NotBegun, ResultTrue,
                    RowKept, Honest, [Next]_vars
             PROVE  Honest'
  BY DEF IInv, Safe, Ledger
<1> USE DownFacts, AttemptAssumption, SettingsAssumption DEF TypeOK,
   AttemptKnown, Current, HasAttempt, Idle, disk, At, Startup, TakesWork,
   Ending, InContainer, RecordedFirst, NotBegun, ResultTrue, Live, Boxes,
   RowKept, Honest, RemovedGone, IdleRows, ClosedHonestly, Held, RowsIn,
   Reported, HasReport
<1>1. CASE StartAgent  BY <1>1 DEF StartAgent, Process
<1>2. ASSUME NEW a \in Attempt, ResolveRow(a)
      PROVE  Honest'
  <2>1. CASE /\ ~ Unproved(a) /\ CloseActive(a, ResolveReason(a))
             /\ agent' = [agent EXCEPT !.todo = @ \ {a}]
    <3>1. /\ ResolveReason(a) \in {"no_sentinel", "host_restart", "report_persisted"}
          /\ ResolveReason(a) = "no_sentinel" => a \notin started
          /\ ResolveReason(a) = "report_persisted" =>
                 InContainer(a) /\ a \in outbox /\ row[a].removed
      BY <2>1 DEF ResolveReason, Unproved
    <3>2. agent'.pc = "resolve"
      BY <2>1, <1>2 DEF ResolveRow, Process
    <3>3. /\ row'[a].state = "CLOSED" /\ row'[a].reason = ResolveReason(a)
          /\ row'[a].removed = row[a].removed
          /\ \A b \in Attempt \ {a} : row'[b] = row[b]
      BY <2>1, <3>1, CloseFacts DEF Reasons
    <3> HIDE DEF ResolveReason
    <3> QED BY <3>1, <3>2, <3>3, <1>2 DEF ResolveRow
  <2>2. CASE /\ Unproved(a) /\ BlockLocally(a)
             /\ agent' = [agent EXCEPT !.pc = "resolve_incident",
                                       !.attempt = a, !.todo = @ \ {a}]
    <3>1. agent'.pc = "resolve_incident"
      BY <2>2, <1>2 DEF ResolveRow, Process
    <3> QED BY <2>2, <3>1, BlockFacts, <1>2 DEF ResolveRow
  <2> QED BY <2>1, <2>2, <1>2 DEF ResolveRow
<1>3. CASE ResolveIncident  BY <1>3 DEF ResolveIncident, Process
<1>4. CASE ResolveEnds  BY <1>4, GotoType DEF ResolveEnds, Exits, Pc
<1>5. CASE CheckReclaimed  BY <1>5 DEF CheckReclaimed, Process
<1>6. CASE CheckIncidents  BY <1>6, WayMoves DEF CheckIncidents
<1>7. ASSUME NEW a \in Attempt, RemoveLeftover(a) PROVE Honest'
  BY <1>7 DEF RemoveLeftover, Process
<1>8. ASSUME NEW a \in Attempt, KeepLeftover(a) PROVE Honest'
  BY <1>8 DEF KeepLeftover, Process
<1>9. CASE LeftoversEnd  BY <1>9, WayMoves DEF LeftoversEnd
<1>10. ASSUME NEW a \in Attempt, FlushAcknowledged(a) PROVE Honest'
  BY <1>10 DEF FlushAcknowledged, FlushReport, Acknowledged, Process
<1>11. ASSUME NEW a \in Attempt, FlushFails(a) PROVE Honest'
  BY <1>11 DEF FlushFails, FlushReport, AnswerLost, NotSent, Process
<1>12. ASSUME NEW a \in Attempt, FlushRejects(a) PROVE Honest'
  BY <1>12 DEF FlushRejects, FlushReport, Process
<1>13. CASE FlushEnds  BY <1>13, GotoType DEF FlushEnds, Exits, Pc
<1>14. ASSUME NEW a \in Attempt, ReceiveGrant(a) PROVE Honest'
  BY <1>14, WayMoves DEF ReceiveGrant
<1>15. CASE ReceiveReceipt  BY <1>15, GotoType DEF ReceiveReceipt, Pc
<1>16. CASE ConnectionLost  BY <1>16, WayMoves DEF ConnectionLost
<1>17. CASE InsertActive
  <2>1. CASE ~ RunLedger
    <3>1. agent'.pc = "sentinel" /\ agent'.attempt = Current
      BY <2>1, <1>17, GotoType DEF InsertActive, Pc
    <3> QED BY <2>1, <3>1, <1>17 DEF InsertActive
  <2>2. CASE RunLedger /\ row[Current].state = "none"
    <3>1. agent'.pc = "sentinel" /\ agent'.attempt = Current
      BY <2>2, <1>17, GotoType DEF InsertActive, Pc
    <3>2. /\ row'[Current].state = "ACTIVE"
          /\ row'[Current].removed = row[Current].removed
          /\ \A b \in Attempt \ {Current} : row'[b] = row[b]
      BY <2>2, <1>17 DEF InsertActive, Row
    <3> QED BY <3>1, <3>2, <2>2, <1>17 DEF InsertActive
  <2>3. CASE RunLedger /\ row[Current].state # "none"
    BY <2>3, <1>17 DEF InsertActive, Exits
  <2> QED BY <2>1, <2>2, <2>3
<1>18. CASE RecordStarted  BY <1>18, GotoType DEF RecordStarted, Pc
<1>19. CASE RecordStartedFails
  <2>1. agent' = Down
    BY <1>19 DEF RecordStartedFails, LedgerFatal, Exits
  <2>2. CASE UNCHANGED row
    BY <2>1, <2>2, <1>19 DEF RecordStartedFails
  <2>3. CASE CloseActive(Current, "not_started")
    BY <2>1, <2>3, CloseFacts, <1>19 DEF RecordStartedFails, Reasons
  <2> QED BY <2>2, <2>3, <1>19 DEF RecordStartedFails
<1>20. CASE ConfirmStart  BY <1>20, GotoType DEF ConfirmStart, Pc
<1>21. CASE Spawn  BY <1>21, GotoType DEF Spawn, Began, Pc
<1>22. CASE SpawnFails  BY <1>22, EndsType DEF SpawnFails
<1>23. CASE HostExitSeen  BY <1>23, EndMoves DEF HostExitSeen
<1>24. CASE HostWaitFails  BY <1>24, EndMoves DEF HostWaitFails
<1>25. CASE Create  BY <1>25, GotoType DEF Create, SetBox, Pc
<1>26. CASE CreateFails
  <2>1. At("run") /\ UNCHANGED <<disk, looping, starts, deaths>>
    BY <1>26 DEF CreateFails
  <2> QED BY <2>1, <1>26, EndMoves DEF SetBox
<1>27. CASE StartNotSent  BY <1>27, EndMoves DEF StartNotSent, SetBox
<1>28. CASE Start  BY <1>28, GotoType DEF Start, SetBox, Began, Pc
<1>29. CASE StartUnanswered  BY <1>29, EndMoves DEF StartUnanswered, SetBox
<1>30. CASE StartFails  BY <1>30, GotoType DEF StartFails, SetBox, Began, Pc
<1>31. CASE PollFails  BY <1>31, GotoType DEF PollFails, Pc
<1>32. CASE StopUnconfirmed
  <2>1. /\ At("stop") /\ UNCHANGED <<disk, looping, starts, deaths>>
        /\ UNCHANGED box \/ SetBox(Halted(box[Current]))
    BY <1>32 DEF StopUnconfirmed
  <2> QED BY <2>1, <1>32, EndMoves DEF SetBox, Halted
<1>33. CASE StopConfirmed
  <2>1. At("stop") /\ UNCHANGED <<disk, looping, starts, deaths>>
    BY <1>33 DEF StopConfirmed
  <2> QED BY <2>1, <1>33, EndMoves DEF SetBox, Halted
<1>34. CASE ContainerExitSeen
  <2>1. At("wait") /\ box[Current] = "exited" /\ UNCHANGED <<disk, looping, starts, deaths>>
    BY <1>34 DEF ContainerExitSeen
  <2> QED BY <2>1, <1>34, EndMoves DEF SetBox
<1>35. CASE RecordIncident  BY <1>35, GotoType DEF RecordIncident, Pc
<1>36. CASE Settle
  <2>1. \/ /\ agent'.pc = "marker" /\ agent'.attempt = Current
           /\ HasReport(agent.result)
        \/ agent' = Down
    BY <1>36, GotoType DEF Settle, Exits, Pc
  <2>2. /\ UNCHANGED <<started, outbox, rejected, stored, box, starts>>
        /\ Current \in Attempt /\ agent.pc = "settle"
    BY <1>36 DEF Settle
  <2>3. CASE UNCHANGED row /\ (RunLedger => ~ InContainer(Current))
    BY <2>1, <2>2, <2>3
  <2>4. CASE /\ RunLedger /\ NeverBegan(agent.result)
             /\ CloseActive(Current, "not_started")
    <3>1. ~ HasReport(agent.result) /\ starts[Current] = 0 /\ box[Current] \notin Live
      BY <2>2, <2>4 DEF NeverBegan
    <3>2. /\ row'[Current].state = "CLOSED" /\ row'[Current].reason = "not_started"
          /\ row'[Current].removed = row[Current].removed
          /\ \A b \in Attempt \ {Current} : row'[b] = row[b]
      BY <2>2, <2>4, CloseFacts DEF Reasons
    <3> QED BY <2>1, <2>2, <3>1, <3>2
  <2>5. CASE RunLedger /\ BlockLocally(Current)
    BY <2>1, <2>2, <2>5, BlockFacts
  <2>6. CASE /\ RunLedger /\ InContainer(Current)
             /\ HasReport(agent.result) /\ agent.result.left = "Removed"
             /\ row' = [row EXCEPT ![Current].removed = TRUE]
    <3>1. box[Current] = "none" /\ row[Current].state = "ACTIVE"
      BY <2>2, <2>6
    <3>2. /\ row'[Current].state = "ACTIVE" /\ row'[Current].removed
          /\ \A b \in Attempt \ {Current} : row'[b] = row[b]
      BY <2>2, <2>6, <3>1, RemovedFacts
    <3> QED BY <2>1, <2>2, <3>1, <3>2
  <2> QED BY <2>3, <2>4, <2>5, <2>6, <1>36 DEF Settle, SettleRow, RemovalConfirmed
<1>37. CASE SettleFails  BY <1>37 DEF SettleFails, LedgerFatal, Exits
<1>38. CASE MarkReclaimed  BY <1>38, WayMoves DEF MarkReclaimed
<1>39. CASE PersistReport  BY <1>39, GotoType DEF PersistReport, Exits, Pc
<1>40. CASE CloseReported
  <2>1. agent'.pc = "deliver" /\ agent'.attempt = Current
    BY <1>40, GotoType DEF CloseReported, Pc
  <2>2. CASE UNCHANGED row
    BY <2>1, <2>2, <1>40 DEF CloseReported
  <2>3. CASE CloseActive(Current, "report_persisted")
    BY <2>1, <2>3, CloseFacts, <1>40 DEF CloseReported, Reasons
  <2> QED BY <2>2, <2>3, <1>40 DEF CloseReported
<1>41. CASE CloseReportedFails
  BY <1>41 DEF CloseReportedFails, LedgerFatal, Exits
<1>42. CASE DeliverReport
  BY <1>42 DEF DeliverReport, Acknowledged, AnswerLost, NotSent, Exits
<1>43. ASSUME NEW a \in Attempt, ClearRow(a) PROVE Honest'
  BY <1>43 DEF ClearRow, Process
<1>44. CASE ClearIncidents  BY <1>44 DEF ClearIncidents, Exits
<1>45. ASSUME NEW a \in Attempt \cup {None}, Clear(a) PROVE Honest'
  BY <1>45 DEF Clear, Process
<1>46. CASE OwnerResume  BY <1>46 DEF OwnerResume
<1>47. CASE Relaunch  BY <1>47 DEF Relaunch
<1>48. ASSUME NEW a \in Attempt, WorkloadExits(a) PROVE Honest'
  BY <1>48 DEF WorkloadExits
<1>49. ASSUME NEW a \in Attempt, LateStart(a) PROVE Honest'
  BY <1>49 DEF LateStart, Began
<1>50. ASSUME NEW a \in Attempt, LateCreate(a) PROVE Honest'
  BY <1>50 DEF LateCreate
<1>51. CASE Dies  BY <1>51 DEF Dies, InFlight, SetBox, Exits
<1>52. CASE UNCHANGED vars
  BY <1>52 DEF vars, Reported
<1> QED
  BY <1>1, <1>2, <1>3, <1>4, <1>5, <1>6, <1>7, <1>8, <1>9, <1>10, <1>11,
     <1>12, <1>13, <1>14, <1>15, <1>16, <1>17, <1>18, <1>19, <1>20, <1>21,
     <1>22, <1>23, <1>24, <1>25, <1>26, <1>27, <1>28, <1>29, <1>30, <1>31,
     <1>32, <1>33, <1>34, <1>35, <1>36, <1>37, <1>38, <1>39, <1>40, <1>41,
     <1>42, <1>43, <1>44, <1>45, <1>46, <1>47, <1>48, <1>49, <1>50, <1>51,
     <1>52 DEF Next, AgentStep


\* The initial state satisfies IInv.
LEMMA InitInv == Init => IInv
<1> USE DownFacts, AttemptAssumption, SettingsAssumption DEF Init
<1>1. Init => TypeOK
  <2>1. NoRow \in Row
    BY DEF NoRow, Row, Reasons
  <2>2. 0 \in 0 .. MaxDeaths
    OBVIOUS
  <2>3. Init => row \in [Attempt -> Row] /\ box \in [Attempt -> Boxes]
    BY <2>1 DEF Boxes
  <2>4. Init => agent \in Process /\ starts \in [Attempt -> Nat]
    OBVIOUS
  <2> QED BY <2>2, <2>3, <2>4 DEF TypeOK
<1>2. Init => AttemptKnown
  BY DEF AttemptKnown, HasAttempt, Idle, Startup, TakesWork, Ending, Current
<1>3. Init => Safe
  BY DEF Safe, RecordedFirst, NotBegun, ResultTrue, RunsOnce, ReportedIsOver,
         Reported, Live
<1>4. Init => Stray
  BY DEF Stray, NoStray, NoWorkBesideStray, TakesWork
<1>5. Init => Ledger
  BY DEF Ledger, RowKept, RowAccounts, NoneOpen, EveryStartAccountedFor, Held,
         TakesWork, NoRow
<1>6. Init => Honest
  BY DEF Honest, RemovedGone, IdleRows, ClosedHonestly, NoRow
<1> QED BY <1>1, <1>2, <1>3, <1>4, <1>5, <1>6 DEF IInv

\* IInv is an inductive invariant of the agent.
THEOREM AgentInvariance == Spec => []IInv
<1>1. IInv /\ [Next]_vars => IInv'
  BY TypeStep, AttemptStep, SafeStep, StrayStep, LedgerStep, HonestStep DEF IInv
<1> QED BY InitInv, <1>1, PTL DEF Spec

\* Disk, runtime and process keep their types, whatever the process does.
THEOREM AgentTypeCorrect == Spec => []TypeOK
BY AgentInvariance, PTL DEF IInv

\* No workload begins twice on a node: not after a death at any point of its
\* start, not by a repeated grant, not by a start applied late.
THEOREM NothingRunsTwice == Spec => []RunsOnce
BY AgentInvariance, PTL DEF IInv, Safe

\* A node that takes or runs work has no live container of another attempt.
THEOREM NoStrayBesideWork == Spec => []NoWorkBesideStray
BY AgentInvariance, PTL DEF IInv, Stray

\* With the ledger, a node that takes work knows the end of every container
\* that ever began on it.
THEOREM StartsAccounted == Spec => []EveryStartAccountedFor
BY AgentInvariance, PTL DEF IInv, Ledger

\* A row is closed only for a reason that is true, and nothing that is reported
\* still runs or may still start.
THEOREM EndsTrue == Spec => []EndsToldTruly
<1>1. IInv => EndsToldTruly
  BY DEF IInv, Honest, Safe, EndsToldTruly
<1> QED BY <1>1, AgentInvariance, PTL
=============================================================================
