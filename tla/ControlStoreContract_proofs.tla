--------------------- MODULE ControlStoreContract_proofs ---------------------
(***************************************************************************)
(* How a step of the control store writes job rows, for all sets of jobs,  *)
(* nodes and schedulers, all settings and all bounds: along the normative  *)
(* table, back to an older resume point only past one that cannot be used, *)
(* and always as a step of the contract of JobContract.                    *)
(***************************************************************************)
EXTENDS ControlStore_proofs, ControlStoreContract

-----------------------------------------------------------------------------
(* One row is written per step.                                            *)

(***************************************************************************)
(* The states a row can leave and reach in one transaction.                *)
(***************************************************************************)
RowMoves ==
    {<<"ABSENT", "SUBMITTED">>,
     <<"SUBMITTED", "PLANNING">>, <<"SUBMITTED", "QUEUED">>,
     <<"PLANNING", "QUEUED">>, <<"QUEUED", "FAILED">>,
     <<"QUEUED", "STAGING">>, <<"PAUSED", "RUNNING">>,
     <<"STAGING", "RUNNING">>, <<"STAGING", "QUEUED">>,
     <<"RUNNING", "QUEUED">>, <<"RUNNING", "PAUSED">>,
     <<"STAGING", "COMPLETED">>, <<"RUNNING", "COMPLETED">>,
     <<"STAGING", "FAILED">>, <<"RUNNING", "FAILED">>}

RowWritten(j) ==
    /\ <<job[j].state, job'[j].state>> \in RowMoves
    /\ \/ job'[j].resume = job[j].resume
       \/ job'[j].resume # None /\ IsResumePoint(j, job'[j].resume)
    /\ \A i \in Job \ {j} : job'[i] = job[i]

LEMMA OneRowWritten ==
    ASSUME IInv, Next
    PROVE  job' = job \/ \E j \in Job : RowWritten(j)
<1> USE DEF IInv
<1>0. job \in [Job -> JobRow] /\ job' \in [Job -> JobRow]
  BY TypeStep DEF TypeOK
<1>1. CASE JobStep
  <2> PICK j \in Job : \/ SubmitAccepted(j)
                       \/ StartPlanning(j)
                       \/ Enqueue(j)
                       \/ PlanAndEnqueue(j)
                       \/ \E failure \in QueueFailures : FailQueued(j, failure)
    BY <1>1 DEF JobStep
  <2>1. \A i \in Job \ {j} : job'[i] = job[i]
    BY <1>0 DEF SubmitAccepted, StartPlanning, Enqueue, PlanAndEnqueue,
       FailQueued, SetJobState
  <2>2. /\ <<job[j].state, job'[j].state>> \in RowMoves
        /\ job'[j].resume = job[j].resume
    <3>1. CASE SubmitAccepted(j) \/ StartPlanning(j)
      BY <1>0, <3>1 DEF SubmitAccepted, StartPlanning, SetJobState, JobRow, RowMoves
    <3>2. CASE Enqueue(j) \/ PlanAndEnqueue(j)
      <4>1. job'[j] = [job[j] EXCEPT !.state = "QUEUED", !.queued_at = now]
        BY <1>0, <3>2 DEF Enqueue, PlanAndEnqueue
      <4>2. job[j].state \in {"SUBMITTED", "PLANNING"}
        BY <3>2 DEF Enqueue, PlanAndEnqueue
      <4> QED BY <1>0, <4>1, <4>2 DEF JobRow, RowMoves
    <3>3. CASE \E failure \in QueueFailures : FailQueued(j, failure)
      <4> PICK failure \in QueueFailures : FailQueued(j, failure)
        BY <3>3
      <4>1. job'[j] = [job[j] EXCEPT !.state = "FAILED",
                                     !.queue_failure = failure]
        BY <1>0 DEF FailQueued
      <4>2. job[j].state = "QUEUED"
        BY DEF FailQueued
      <4> QED BY <1>0, <4>1, <4>2 DEF JobRow, RowMoves
    <3> QED BY <3>1, <3>2, <3>3
  <2> QED BY <2>1, <2>2 DEF RowWritten
<1>2. CASE \E s \in Scheduler : ReserveAndStage(s)
  <2> PICK s \in Scheduler : ReserveAndStage(s)
    BY <1>2
  <2> DEFINE j == JobOf(plan[s].attempt)
  <2>1. j \in Job /\ job[j] \in JobRow /\ job[j].state \in SchedulableStates
    BY <1>0, AttemptPair DEF ReserveAndStage, TypeOK, PlanRow
  <2>2. job' = [job EXCEPT ![j] = StagedJob(job[j], plan[s].issued)]
    BY DEF ReserveAndStage
  <2>3. job'[j] = StagedJob(job[j], plan[s].issued)
        /\ \A i \in Job \ {j} : job'[i] = job[i]
    BY <1>0, <2>1, <2>2
  <2>4. /\ <<job[j].state, job'[j].state>> \in RowMoves
        /\ job'[j].resume = job[j].resume
    BY <2>1, <2>3 DEF StagedJob, JobRow, RowMoves, SchedulableStates
  <2> QED BY <2>1, <2>3, <2>4 DEF RowWritten
<1>3. CASE \E a \in Attempt : Failover(a)
  <2> PICK a \in Attempt : Failover(a)
    BY <1>3
  <2> DEFINE j == JobOf(a)
  <2>1. j \in Job /\ job[j] \in JobRow /\ job[j].state \in RunStates
    BY <1>0, AttemptPair DEF Failover, Lost, IsCurrent
  <2>2. PICK r \in ResumePoints(j) :
            /\ IF job[j].state = "RUNNING" THEN IsResumePoint(j, r)
                                           ELSE r = None
            /\ job' = [job EXCEPT ![j] = RequeuedJob(j, r)]
    BY DEF Failover
  <2>3. job'[j] = RequeuedJob(j, r) /\ \A i \in Job \ {j} : job'[i] = job[i]
    BY <1>0, <2>1, <2>2
  <2>4. CASE job[j].state = "RUNNING" /\ r = None
    BY <2>1, <2>3, <2>4 DEF RequeuedJob, JobRow, RowMoves, RowWritten
  <2>5. CASE ~ (job[j].state = "RUNNING" /\ r = None)
    <3>1. /\ job'[j].state = "QUEUED" /\ job'[j].resume = NewResume(j, r)
      BY <2>1, <2>3, <2>5 DEF RequeuedJob, JobRow
    <3>2. <<job[j].state, job'[j].state>> \in RowMoves
      BY <2>1, <3>1 DEF RunStates, RowMoves
    <3>3. \/ job'[j].resume = job[j].resume
          \/ job'[j].resume # None /\ IsResumePoint(j, job'[j].resume)
      BY <2>2, <2>5, <3>1 DEF NewResume
    <3> QED BY <2>1, <2>3, <3>2, <3>3 DEF RowWritten
  <2> QED BY <2>4, <2>5
<1>4. CASE RecordGrantAccepted \/ RecordProcessStarted
  <2> DEFINE j == JobOf(handler.attempt)
  <2>1. job' = job \/ StagingComplete(j)
    BY <1>4 DEF RecordGrantAccepted, RecordProcessStarted
  <2>2. j \in Job
    BY <1>4, HandlerFields, AttemptPair
       DEF RecordGrantAccepted, RecordProcessStarted, TypeOK, Idle
  <2>3. CASE job' # job
    <3>1. /\ job[j].state = "STAGING"
          /\ job' = [job EXCEPT ![j].state = "RUNNING", ![j].running = TRUE]
      BY <2>1, <2>3 DEF StagingComplete
    <3>2. /\ job'[j].state = "RUNNING" /\ job'[j].resume = job[j].resume
          /\ \A i \in Job \ {j} : job'[i] = job[i]
      BY <1>0, <2>2, <3>1 DEF JobRow
    <3> QED BY <2>2, <3>1, <3>2 DEF RowWritten, RowMoves
  <2> QED BY <2>3
<1>5. CASE StoreReport
  <2> DEFINE a == handler.attempt
             r == handler.report
             j == JobOf(a)
  <2>1. a \in Attempt /\ j \in Job /\ job[j] \in JobRow
    BY <1>0, <1>5, HandlerFields, AttemptPair DEF StoreReport, TypeOK, Idle
  <2>2. CASE Preempts(a, r)
    <3>1. PICK point \in ResumePoints(j) :
              /\ point = None \/ IsResumePoint(j, point)
              /\ job' = [job EXCEPT ![j] = PausedJob(j, point)]
      BY <1>5, <2>2 DEF StoreReport
    <3>2. job'[j] = PausedJob(j, point) /\ \A i \in Job \ {j} : job'[i] = job[i]
      BY <1>0, <2>1, <3>1
    <3>3. job'[j].state = "PAUSED" /\ job'[j].resume = NewResume(j, point)
      BY <2>1, <3>2 DEF PausedJob, JobRow
    <3>4. job[j].state = "RUNNING"
      BY <2>2 DEF Preempts
    <3>5. \/ job'[j].resume = job[j].resume
          \/ job'[j].resume # None /\ IsResumePoint(j, job'[j].resume)
      BY <3>1, <3>3 DEF NewResume
    <3> QED BY <2>1, <3>2, <3>3, <3>4, <3>5 DEF RowWritten, RowMoves
  <2>3. CASE ~ Preempts(a, r) /\ job' # job
    <3>1. /\ job' = FollowAttemptTerminal(a, r)
          /\ IsCurrent(a) /\ TerminalStateFor(r) # "NONE"
      BY <1>5, <2>3 DEF StoreReport, FollowAttemptTerminal
    <3>2. PICK end \in {"COMPLETED", "FAILED"} :
              \E why : job' = [job EXCEPT ![j] = [job[j] EXCEPT !.state = end,
                                                                !.run_terminal = why]]
      BY <3>1 DEF FollowAttemptTerminal
    <3>3. /\ job'[j].state = end /\ job'[j].resume = job[j].resume
          /\ \A i \in Job \ {j} : job'[i] = job[i]
      BY <1>0, <2>1, <3>2 DEF JobRow
    <3>4. job[j].state \in RunStates
      BY <3>1 DEF IsCurrent
    <3> QED BY <2>1, <3>3, <3>4 DEF RowWritten, RowMoves, RunStates
  <2> QED BY <2>2, <2>3
<1>6. CASE ~ \/ JobStep
             \/ \E s \in Scheduler : ReserveAndStage(s)
             \/ \E a \in Attempt : Failover(a)
             \/ RecordGrantAccepted
             \/ RecordProcessStarted
             \/ StoreReport
  BY <1>6 DEF Next, SchedulerStep, SessionStep, OperatorStep,
     EnvironmentStep, TickPlan, TickGivesUp, GrantRead, GrantSign, RenewRead,
     FreshRenewRead, RenewExisting, RenewSign, ReportRead, SessionEnds,
     MarkRevoked, ReleaseLostNodeByOperator,
     PublishCheckpoint, CheckpointUnusable, CheckpointUsable,
     Tick, SetClockBack, StoreUnchangedButHandler
<1> QED BY <1>1, <1>2, <1>3, <1>4, <1>5, <1>6

(***************************************************************************)
(* Every pair of states a transaction can leave and reach is a row of the  *)
(* table or the ends of a path that it walks.                              *)
(***************************************************************************)
LEMMA MovesFollowTable ==
    ASSUME NEW from, NEW to, <<from, to>> \in RowMoves
    PROVE  \/ from = "ABSENT" /\ to = "SUBMITTED"
           \/ \E path \in WalkedPaths \cup {<<to>>} :
                  Walkable(from, path) /\ path[Len(path)] = to
<1>1. ASSUME NEW f, NEW t, <<f, t>> \in JobTransitions
      PROVE  Walkable(f, <<t>>) /\ <<t>>[Len(<<t>>)] = t
  BY <1>1 DEF Walkable
<1>2. ASSUME NEW f, NEW m, NEW t, <<f, m>> \in JobTransitions,
             <<m, t>> \in JobTransitions
      PROVE  Walkable(f, <<m, t>>) /\ <<m, t>>[Len(<<m, t>>)] = t
  BY <1>2 DEF Walkable
<1>3. ASSUME NEW f, NEW l, NEW m, NEW t, <<f, l>> \in JobTransitions,
             <<l, m>> \in JobTransitions, <<m, t>> \in JobTransitions
      PROVE  Walkable(f, <<l, m, t>>) /\ <<l, m, t>>[Len(<<l, m, t>>)] = t
  BY <1>3 DEF Walkable
<1>4. CASE <<from, to>> \in JobTransitions
  BY <1>1, <1>4
<1>5. CASE <<from, to>> = <<"SUBMITTED", "QUEUED">>
  <2>1. Walkable(from, <<"PLANNING", to>>)
        /\ <<"PLANNING", to>>[Len(<<"PLANNING", to>>)] = to
    BY <1>2, <1>5 DEF JobTransitions
  <2> QED BY <1>5, <2>1 DEF WalkedPaths
<1>6. CASE <<from, to>> = <<"STAGING", "COMPLETED">>
  <2>1. Walkable(from, <<"RUNNING", to>>)
        /\ <<"RUNNING", to>>[Len(<<"RUNNING", to>>)] = to
    BY <1>2, <1>6 DEF JobTransitions
  <2> QED BY <1>6, <2>1 DEF WalkedPaths
<1>7. CASE <<from, to>> = <<"RUNNING", "QUEUED">>
  <2> DEFINE path == <<"INTERRUPTED", "REPLANNING", "QUEUED">>
  <2>1. Walkable(from, path) /\ path[Len(path)] = to
    BY <1>3, <1>7 DEF JobTransitions
  <2> QED BY <2>1 DEF WalkedPaths
<1>8. CASE <<from, to>> = <<"ABSENT", "SUBMITTED">>
  BY <1>8
<1>9. RowMoves \subseteq
          JobTransitions \cup {<<"SUBMITTED", "QUEUED">>,
                               <<"STAGING", "COMPLETED">>,
                               <<"RUNNING", "QUEUED">>,
                               <<"ABSENT", "SUBMITTED">>}
  BY DEF RowMoves, JobTransitions
<1> QED BY <1>4, <1>5, <1>6, <1>7, <1>8, <1>9

(***************************************************************************)
(* No transaction leaves the normative job table: late reports,            *)
(* preemptions and failovers all re-read the row they move                 *)
(* (job_store.rs, follow_attempt_terminal, requeue_after_node_lost).       *)
(***************************************************************************)
THEOREM TableFollowed == Spec => JobFollowsTable
<1> DEFINE Follows(j) ==
               \/ job'[j].state = job[j].state
               \/ job[j].state = "ABSENT" /\ job'[j].state = "SUBMITTED"
               \/ \E path \in WalkedPaths \cup {<<job'[j].state>>} :
                      /\ Walkable(job[j].state, path)
                      /\ path[Len(path)] = job'[j].state
<1>1. IInv /\ [Next]_vars => [\A j \in Job : Follows(j)]_vars
  <2> SUFFICES ASSUME IInv, Next, NEW j \in Job
               PROVE  Follows(j)
    OBVIOUS
  <2>1. CASE job' = job
    BY <2>1
  <2>2. CASE \E i \in Job : RowWritten(i)
    <3> PICK i \in Job : RowWritten(i)
      BY <2>2
    <3>1. CASE i = j
      BY <3>1, MovesFollowTable DEF RowWritten
    <3>2. CASE i # j
      BY <3>2 DEF RowWritten
    <3> QED BY <3>1, <3>2
  <2> QED BY <2>1, <2>2, OneRowWritten
<1> QED BY <1>1, Invariance, PTL DEF Spec, JobFollowsTable

-----------------------------------------------------------------------------
(* Resume points.                                                          *)

(***************************************************************************)
(* A stored resume point is a checkpoint that one of the job's attempts    *)
(* has published; the shared store still has it, usable or not.            *)
(***************************************************************************)
PublishedBy(c, a) == c[1] = attempt[a].fence /\ 0 < c[2] /\ c[2] <= checkpoint[a]

ResumeRecorded ==
    \A j \in Job :
        job[j].resume # None =>
            \E a \in AttemptsOf(j) : Exists(a) /\ PublishedBy(job[j].resume, a)

LEMMA CommittedIs ==
    ASSUME TypeOK, NEW j \in Job, NEW c \in Nat \X Nat
    PROVE  c \in Committed(j) <=>
               \E a \in AttemptsOf(j) : Exists(a) /\ PublishedBy(c, a)
<1>1. c = <<c[1], c[2]>> /\ c[1] \in Nat /\ c[2] \in Nat
  OBVIOUS
<1>2. \A a \in AttemptsOf(j) :
          c \in {attempt[a].fence} \X (1 .. checkpoint[a]) <=> PublishedBy(c, a)
  <2> TAKE a \in AttemptsOf(j)
  <2>1. checkpoint[a] \in Nat
    BY DEF AttemptsOf, TypeOK
  <2>2. c \in {attempt[a].fence} \X (1 .. checkpoint[a])
            <=> c[1] = attempt[a].fence /\ c[2] \in 1 .. checkpoint[a]
    BY <1>1
  <2>3. c[2] \in 1 .. checkpoint[a] <=> 0 < c[2] /\ c[2] <= checkpoint[a]
    BY <1>1, <2>1
  <2> QED BY <2>2, <2>3 DEF PublishedBy
<1> QED BY <1>2 DEF Committed

LEMMA CheckpointsKept ==
    ASSUME IInv, Next, NEW a \in Attempt
    PROVE  /\ checkpoint'[a] \in Nat /\ checkpoint[a] <= checkpoint'[a]
           /\ Exists(a) => Exists(a)' /\ attempt'[a].fence = attempt[a].fence
<1>0. checkpoint \in [Attempt -> Nat]
  BY DEF IInv, TypeOK
<1>1. CASE \E b \in Attempt : PublishCheckpoint(b)
  BY <1>0, <1>1 DEF PublishCheckpoint, Exists
<1>2. CASE \E s \in Scheduler : ReserveAndStage(s)
  <2> PICK s \in Scheduler : ReserveAndStage(s)
    BY <1>2
  <2>1. plan[s].attempt \in Attempt /\ ~ Exists(plan[s].attempt)
    BY DEF ReserveAndStage, IInv, TypeOK, PlanRow
  <2>2. Exists(a) => attempt'[a] = attempt[a]
    BY <2>1 DEF ReserveAndStage, IInv, TypeOK
  <2>3. checkpoint' = checkpoint
    BY DEF ReserveAndStage
  <2> QED BY <1>0, <2>2, <2>3 DEF Exists
<1>3. CASE NoStaging /\ ~ \E b \in Attempt : PublishCheckpoint(b)
  <2>1. checkpoint' = checkpoint
    BY <1>3 DEF NoStaging, Next, JobStep, SchedulerStep, SessionStep,
       OperatorStep, EnvironmentStep, SubmitAccepted, StartPlanning, Enqueue,
       PlanAndEnqueue, FailQueued, TickPlan, TickGivesUp, Failover, GrantRead,
       GrantSign, RenewRead, FreshRenewRead, RenewExisting, RenewSign,
       RecordGrantAccepted, RecordProcessStarted, ReportRead, StoreReport,
       SessionEnds, MarkRevoked, ReleaseLostNodeByOperator,
       CheckpointUnusable, CheckpointUsable, Tick, SetClockBack,
       StoreUnchangedButJobs, StoreUnchangedButHandler
  <2> QED BY <1>0, <1>3, <2>1, AttemptsKept DEF AttemptKept, Exists
<1> QED BY <1>1, <1>2, <1>3 DEF NoStaging

LEMMA ResumeStep ==
    ASSUME IInv, ResumeRecorded, Next
    PROVE  ResumeRecorded'
<1> SUFFICES ASSUME NEW j \in Job, job'[j].resume # None
             PROVE  \E a \in AttemptsOf(j) :
                        Exists(a)' /\ PublishedBy(job[j].resume, a)'
  BY DEF ResumeRecorded, AttemptsOf
<1> DEFINE new == job'[j].resume
<1>1. \/ new = job[j].resume
      \/ IsResumePoint(j, new)
  BY OneRowWritten DEF RowWritten
<1>2. new \in Nat \X Nat /\ TypeOK
  BY TypeStep DEF IInv, TypeOK, JobRow
<1>3. PICK a \in AttemptsOf(j) : Exists(a) /\ PublishedBy(new, a)
  <2>1. CASE new = job[j].resume
    BY <2>1 DEF ResumeRecorded
  <2>2. CASE IsResumePoint(j, new)
    <3>1. new \in Committed(j)
      BY <2>2 DEF IsResumePoint, Usable
    <3> QED BY <1>2, <3>1, CommittedIs
  <2> QED BY <1>1, <2>1, <2>2
<1>4. /\ a \in Attempt /\ checkpoint[a] \in Nat /\ new[2] \in Nat
  BY <1>2 DEF AttemptsOf, TypeOK
<1>5. /\ checkpoint'[a] \in Nat /\ checkpoint[a] <= checkpoint'[a]
      /\ Exists(a)' /\ attempt'[a].fence = attempt[a].fence
  BY <1>3, <1>4, CheckpointsKept
<1> QED BY <1>3, <1>4, <1>5 DEF PublishedBy

LEMMA ResumeInvariance == Spec => []ResumeRecorded
<1>1. Init => ResumeRecorded
  BY DEF Init, ResumeRecorded, AbsentJob
<1>2. IInv /\ ResumeRecorded /\ [Next]_vars => ResumeRecorded'
  <2>1. CASE UNCHANGED vars
    BY <2>1 DEF vars, ResumeRecorded, PublishedBy, Exists, AttemptsOf
  <2> QED BY <2>1, ResumeStep
<1> QED BY <1>1, <1>2, Invariance, PTL DEF Spec

(***************************************************************************)
(* A job never loses its resume point, and resumes from an older           *)
(* checkpoint than it already could only when the one it had cannot be     *)
(* used at the time of the search: find_resume_point takes the largest     *)
(* that is committed and usable, the stored one is still committed, and    *)
(* without a readable list the stored one is kept.                         *)
(***************************************************************************)
THEOREM ResumeMonotone == Spec => ResumeNeverRegresses
<1> DEFINE Kept(j) == job[j].resume # None =>
                          /\ job'[j].resume # None
                          /\ \/ NotAfter(job[j].resume, job'[j].resume)
                             \/ job[j].resume \in skipped
<1>1. IInv /\ ResumeRecorded /\ [Next]_vars => [\A j \in Job : Kept(j)]_vars
  <2> SUFFICES ASSUME IInv, ResumeRecorded, Next, NEW j \in Job,
                      job[j].resume # None
               PROVE  /\ job'[j].resume # None
                      /\ \/ NotAfter(job[j].resume, job'[j].resume)
                         \/ job[j].resume \in skipped
    OBVIOUS
  <2> DEFINE old == job[j].resume
             new == job'[j].resume
  <2>1. TypeOK /\ old \in Nat \X Nat
    BY DEF IInv, TypeOK, JobRow
  <2>2. CASE new = old
    BY <2>1, <2>2 DEF NotAfter
  <2>3. CASE new # None /\ IsResumePoint(j, new) /\ old \notin skipped
    <3>1. old \in Committed(j)
      BY <2>1, CommittedIs DEF ResumeRecorded
    <3>2. SharedRoot
      BY <2>3 DEF IsResumePoint, Usable
    <3>3. old \in Usable(j)
      BY <2>3, <3>1, <3>2 DEF Usable
    <3> QED BY <2>3, <3>3 DEF IsResumePoint
  <2> QED BY <2>2, <2>3, OneRowWritten DEF RowWritten
<1> QED BY <1>1, Invariance, ResumeInvariance, PTL DEF Spec, ResumeNeverRegresses

-----------------------------------------------------------------------------
(* The contract.                                                           *)

LEMMA TopIs ==
    ASSUME NEW E, E \subseteq Nat, NEW e \in E, \A f \in E : f <= e
    PROVE  TopEpoch(E) = e
<1>1. E # {}
  OBVIOUS
<1>2. PICK t \in E : t = (CHOOSE x \in E : \A f \in E : f <= x)
                    /\ \A f \in E : f <= t
  OBVIOUS
<1>3. t = e
  BY <1>2
<1> QED BY <1>1, <1>2, <1>3 DEF TopEpoch

(***************************************************************************)
(* The last epoch given out for a job is that of its latest attempt.       *)
(***************************************************************************)
LatestHolds ==
    \A a \in Attempt : IsLatest(a) => HolderOf(JobOf(a)) = attempt[a].fence

LEMMA HolderIsLatest == TypeOK => LatestHolds
<1> SUFFICES ASSUME TypeOK, NEW a \in Attempt, IsLatest(a)
             PROVE  HolderOf(JobOf(a)) = attempt[a].fence
  BY DEF LatestHolds
<1> DEFINE E == {attempt[b].fence : b \in {c \in AttemptsOf(JobOf(a)) : Exists(c)}}
<1>1. E \subseteq Nat
  BY DEF AttemptsOf, TypeOK, AttemptRow
<1>2. attempt[a].fence \in E
  BY DEF IsLatest, AttemptsOf
<1>3. \A f \in E : f <= attempt[a].fence
  BY DEF IsLatest
<1> HIDE DEF E
<1>4. TopEpoch(E) = attempt[a].fence
  BY <1>1, <1>2, <1>3, TopIs
<1> QED BY <1>4 DEF HolderOf, E

(***************************************************************************)
(* The winner is the holder: a completed job was completed by its latest   *)
(* attempt, and what earlier attempts report is below its epoch.           *)
(***************************************************************************)
HolderWins ==
    \A j \in Job :
        WinnerOf(j) = IF PhaseOf(j) = "done" THEN HolderOf(j) ELSE 0

LEMMA WinnerIsHolder == IInv => HolderWins
<1> SUFFICES ASSUME IInv, NEW j \in Job
             PROVE  WinnerOf(j) = IF PhaseOf(j) = "done" THEN HolderOf(j) ELSE 0
  BY DEF HolderWins
<1>1. PhaseOf(j) = "done" <=> job[j].state = "COMPLETED"
  BY DEF PhaseOf, RunStates
<1>2. CASE job[j].state = "COMPLETED"
  <2> DEFINE E == {attempt[b].fence :
                       b \in {c \in AttemptsOf(j) : attempt[c].state = "COMPLETED"}}
  <2>1. PICK a \in AttemptsOf(j) : IsLatest(a) /\ attempt[a].state = "COMPLETED"
    BY <1>2 DEF IInv, CompletedByLatest
  <2>2. a \in Attempt /\ JobOf(a) = j
    BY DEF AttemptsOf
  <2>3. E \subseteq Nat
    BY DEF AttemptsOf, IInv, TypeOK, AttemptRow
  <2>4. attempt[a].fence \in E
    BY <2>1
  <2>5. \A f \in E : f <= attempt[a].fence
    BY <2>1, <2>2 DEF IsLatest, Exists
  <2> HIDE DEF E
  <2>6. TopEpoch(E) = attempt[a].fence
    BY <2>3, <2>4, <2>5, TopIs
  <2>7. HolderOf(j) = attempt[a].fence
    BY <2>1, <2>2, HolderIsLatest DEF IInv, LatestHolds
  <2> QED BY <1>1, <1>2, <2>6, <2>7 DEF WinnerOf, E
<1>3. CASE job[j].state # "COMPLETED"
  BY <1>1, <1>3 DEF WinnerOf
<1> QED BY <1>2, <1>3

(***************************************************************************)
(* Who holds a job changes only when it is staged.                         *)
(***************************************************************************)
LEMMA HolderKept ==
    ASSUME NEW j \in Job,
           \A a \in AttemptsOf(j) : /\ Exists(a)' <=> Exists(a)
                                    /\ attempt'[a].fence = attempt[a].fence
    PROVE  HolderOf(j)' = HolderOf(j)
<1>1. {attempt'[a].fence : a \in {b \in AttemptsOf(j) : Exists(b)'}}
          = {attempt[a].fence : a \in {b \in AttemptsOf(j) : Exists(b)}}
  OBVIOUS
<1> QED BY <1>1 DEF HolderOf, AttemptsOf

PhaseMoves ==
    {<<"waiting", "waiting">>, <<"held", "held">>, <<"held", "waiting">>,
     <<"held", "done">>, <<"held", "failed">>, <<"waiting", "failed">>}

LEMMA PhaseMove ==
    ASSUME NEW j \in Job, RowWritten(j),
           ~ (job[j].state \in SchedulableStates /\ job'[j].state \in RunStates)
    PROVE  <<PhaseOf(j), PhaseOf(j)'>> \in PhaseMoves
  BY DEF RowWritten, RowMoves, PhaseMoves, PhaseOf, RunStates, SchedulableStates

PhaseMap == [j \in Job |-> PhaseOf(j)]
HolderMap == [j \in Job |-> HolderOf(j)]
WinnerMap == [j \in Job |-> WinnerOf(j)]

ContractStep ==
    \/ Contract!Next
    \/ UNCHANGED <<PhaseMap, HolderMap, WinnerMap, epoch>>

LEMMA QuietContract ==
    ASSUME IInv, IInv', NoStaging
    PROVE  ContractStep
<1>1. epoch' = epoch
  BY EpochKept
<1>2. \A i \in Job : HolderOf(i)' = HolderOf(i)
  <2> TAKE i \in Job
  <2>1. \A a \in AttemptsOf(i) : /\ Exists(a)' <=> Exists(a)
                                 /\ attempt'[a].fence = attempt[a].fence
    BY AttemptsKept DEF AttemptKept, AttemptsOf, Exists
  <2> QED BY <2>1, HolderKept
<1>3. \A i \in Job : /\ WinnerOf(i) = IF PhaseOf(i) = "done" THEN HolderOf(i) ELSE 0
                     /\ WinnerOf(i)' = IF PhaseOf(i)' = "done" THEN HolderOf(i)' ELSE 0
  <2>1. HolderWins /\ HolderWins'
    BY WinnerIsHolder, PTL
  <2> QED BY <2>1 DEF HolderWins
<1>4. HolderMap' = HolderMap
  BY <1>2 DEF HolderMap
<1>5. CASE \A i \in Job : PhaseOf(i)' = PhaseOf(i)
  <2>1. PhaseMap' = PhaseMap
    BY <1>5 DEF PhaseMap
  <2>2. WinnerMap' = WinnerMap
    BY <1>2, <1>3, <1>5 DEF WinnerMap
  <2> QED BY <1>1, <1>4, <2>1, <2>2 DEF ContractStep
<1>6. CASE \E i \in Job : PhaseOf(i)' # PhaseOf(i)
  <2>1. PICK j \in Job : PhaseOf(j)' # PhaseOf(j)
    BY <1>6
  <2>2. RowWritten(j)
    <3>1. job' # job
      BY <2>1 DEF PhaseOf
    <3>2. PICK i \in Job : RowWritten(i)
      BY <3>1, OneRowWritten DEF NoStaging
    <3>3. i = j
      BY <2>1, <3>2 DEF RowWritten, PhaseOf
    <3> QED BY <3>2, <3>3
  <2>3. \A i \in Job \ {j} : PhaseOf(i)' = PhaseOf(i)
    BY <2>2 DEF RowWritten, PhaseOf
  <2>4. <<PhaseOf(j), PhaseOf(j)'>> \in PhaseMoves
    <3>1. JobMove(j)
      BY JobMoves
    <3>2. ~ (job[j].state \in SchedulableStates /\ job'[j].state \in RunStates)
      BY <3>1 DEF JobMove, Stays, Enters, Starts, Withdrawn, Fails, Completes,
         SchedulableStates, RunStates
    <3> QED BY <2>2, <3>2, PhaseMove
  <2>5. PhaseMap' = [PhaseMap EXCEPT ![j] = PhaseOf(j)']
    BY <2>3 DEF PhaseMap
  <2>6. WinnerMap' = [WinnerMap EXCEPT ![j] = WinnerOf(j)']
    <3>1. \A i \in Job \ {j} : WinnerOf(i)' = WinnerOf(i)
      BY <1>2, <1>3, <2>3
    <3> QED BY <3>1 DEF WinnerMap
  <2>7. CASE PhaseOf(j)' = "done"
    <3>1. PhaseMap[j] = "held" /\ WinnerOf(j)' = HolderMap[j]
      BY <1>2, <1>3, <2>1, <2>4, <2>7 DEF PhaseMoves, PhaseMap, HolderMap
    <3>2. Contract!Finish(j)
      BY <1>1, <1>4, <2>5, <2>6, <2>7, <3>1
         DEF Contract!Finish, PhaseMap, HolderMap, WinnerMap
    <3> QED BY <3>2 DEF Contract!Next, ContractStep
  <2>8. CASE PhaseOf(j)' # "done"
    <3>1. PhaseOf(j) # "done"
      BY <2>1, <2>4 DEF PhaseMoves
    <3>2. WinnerMap' = WinnerMap
      BY <1>3, <2>6, <2>8, <3>1 DEF WinnerMap
    <3>3. Contract!Withdraw(j) \/ Contract!Fail(j)
      <4>1. \/ PhaseMap[j] = "held" /\ PhaseOf(j)' = "waiting"
            \/ PhaseMap[j] \in {"waiting", "held"} /\ PhaseOf(j)' = "failed"
        BY <2>1, <2>4, <2>8 DEF PhaseMoves, PhaseMap
      <4> QED BY <1>1, <1>4, <2>5, <3>2, <4>1
              DEF Contract!Withdraw, Contract!Fail, PhaseMap, HolderMap, WinnerMap
    <3> QED BY <3>3 DEF Contract!Next, ContractStep
  <2> QED BY <2>7, <2>8
<1> QED BY <1>5, <1>6

LEMMA StagedContract ==
    ASSUME IInv, IInv', NEW s \in Scheduler, ReserveAndStage(s)
    PROVE  ContractStep
<1>1. PICK a \in Attempt, n \in Node, issued \in Nat : Stages(s, a, n, issued)
  <2>1. plan[s] \in PlanRow
    BY DEF ReserveAndStage, IInv, TypeOK
  <2>2. PICK a \in Attempt, n \in Node, issued \in Nat :
            plan[s] = [attempt |-> a, node |-> n, issued |-> issued]
    BY <2>1 DEF PlanRow
  <2> QED BY <2>2 DEF Stages
<1> DEFINE j == JobOf(a)
<1>2. /\ j \in Job /\ ~ Exists(a) /\ epoch' = epoch + 1
      /\ attempt'[a].fence = epoch + 1 /\ IsLatest(a)'
      /\ \A b \in Attempt \ {a} : attempt'[b] = attempt[b]
      /\ job[j].state \in SchedulableStates /\ job'[j].state \in RunStates
      /\ \A i \in Job \ {j} : job'[i] = job[i]
  BY <1>1, AttemptPair, StagedPlan, StagedRows, StagedJobs, StagedLatest
<1>3. HolderOf(j)' = epoch + 1
  <2>1. TypeOK'
    BY DEF IInv
  <2>2. LatestHolds'
    BY <2>1, HolderIsLatest, PTL
  <2> QED BY <1>2, <2>2 DEF LatestHolds
<1>4. \A i \in Job \ {j} : HolderOf(i)' = HolderOf(i)
  <2> TAKE i \in Job \ {j}
  <2>1. \A b \in AttemptsOf(i) : /\ Exists(b)' <=> Exists(b)
                                 /\ attempt'[b].fence = attempt[b].fence
    BY <1>2 DEF AttemptsOf, Exists
  <2> QED BY <2>1, HolderKept
<1>5. PhaseOf(j) = "waiting" /\ PhaseOf(j)' = "held"
  BY <1>2 DEF PhaseOf, SchedulableStates, RunStates
<1>6. \A i \in Job \ {j} : PhaseOf(i)' = PhaseOf(i)
  BY <1>2 DEF PhaseOf
<1>7. WinnerMap' = WinnerMap
  <2>1. HolderWins /\ HolderWins'
    BY WinnerIsHolder, PTL
  <2>2. \A i \in Job : WinnerOf(i)' = WinnerOf(i)
    <3> TAKE i \in Job
    <3>1. CASE i = j
      BY <1>5, <2>1, <3>1 DEF HolderWins
    <3>2. CASE i # j
      BY <1>4, <1>6, <2>1, <3>2 DEF HolderWins
    <3> QED BY <3>1, <3>2
  <2> QED BY <2>2 DEF WinnerMap
<1>8. PhaseMap' = [PhaseMap EXCEPT ![j] = "held"]
  BY <1>2, <1>5, <1>6 DEF PhaseMap
<1>9. HolderMap' = [HolderMap EXCEPT ![j] = epoch + 1]
  BY <1>2, <1>3, <1>4 DEF HolderMap
<1>10. Contract!Assign(j)
  BY <1>2, <1>5, <1>7, <1>8, <1>9
     DEF Contract!Assign, PhaseMap, HolderMap, WinnerMap
<1> QED BY <1>2, <1>10 DEF Contract!Next, ContractStep

(***************************************************************************)
(* The control store implements the contract: whatever the sessions, the   *)
(* schedulers, the failover and the clock do, only the holder of the       *)
(* newest epoch finishes a job, epochs are issued once and grow, and a     *)
(* finished job never moves again.                                         *)
(***************************************************************************)
THEOREM ContractKept == Spec => KeepsContract
<1>1. Init => Contract!Init
  <2> SUFFICES ASSUME Init
               PROVE  Contract!Init
    OBVIOUS
  <2>1. \A j \in Job : job[j].state = "ABSENT" /\ \A a \in AttemptsOf(j) : ~ Exists(a)
    BY DEF Init, AbsentJob, AbsentAttempt, AttemptsOf, Exists
  <2>2. \A j \in Job : PhaseOf(j) = "waiting" /\ WinnerOf(j) = 0
    BY <2>1 DEF PhaseOf, WinnerOf, RunStates
  <2>3. \A j \in Job : HolderOf(j) = 0
    BY <2>1 DEF HolderOf, TopEpoch
  <2>4. epoch = 0
    BY DEF Init
  <2> QED BY <2>2, <2>3, <2>4 DEF Contract!Init
<1>2. IInv /\ IInv' /\ [Next]_vars => [Contract!Next]_(Contract!contractVars)
  <2> SUFFICES ASSUME IInv, IInv', [Next]_vars
               PROVE  ContractStep
    BY DEF ContractStep, Contract!contractVars, PhaseMap, HolderMap, WinnerMap
  <2>1. CASE \E s \in Scheduler : ReserveAndStage(s)
    BY <2>1, StagedContract
  <2>2. CASE NoStaging
    BY <2>2, QuietContract
  <2>3. CASE UNCHANGED vars
    BY <2>3 DEF vars, ContractStep, PhaseMap, HolderMap, WinnerMap, PhaseOf,
       HolderOf, WinnerOf, AttemptsOf, Exists
  <2> QED BY <2>1, <2>2, <2>3 DEF NoStaging
<1> QED BY <1>1, <1>2, Invariance, PTL DEF Spec, KeepsContract, Contract!Spec
=============================================================================
