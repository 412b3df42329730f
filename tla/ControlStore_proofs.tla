------------------------- MODULE ControlStore_proofs -------------------------
(***************************************************************************)
(* The invariants of ControlStore hold for all sets of jobs, nodes and     *)
(* schedulers, all settings and all bounds.                                *)
(***************************************************************************)
EXTENDS ControlStore, TLAPS

-----------------------------------------------------------------------------
(* Operators.                                                              *)

(***************************************************************************)
(* An attempt is the pair of its job and its generation.                   *)
(***************************************************************************)
LEMMA AttemptPair ==
    ASSUME NEW a \in Attempt
    PROVE  /\ JobOf(a) \in Job
           /\ GenerationOf(a) \in 0 .. MaxRequeue
           /\ a = <<JobOf(a), GenerationOf(a)>>
           /\ a # None
  BY NoneAssumption DEF Attempt, JobOf, GenerationOf

LEMMA PairIsAttempt ==
    ASSUME NEW j \in Job, NEW g \in 0 .. MaxRequeue
    PROVE  /\ <<j, g>> \in Attempt
           /\ JobOf(<<j, g>>) = j
           /\ GenerationOf(<<j, g>>) = g
  BY DEF Attempt, JobOf, GenerationOf

(***************************************************************************)
(* Two attempts of a job with the same generation are the same.            *)
(***************************************************************************)
LEMMA SameGeneration ==
    ASSUME NEW a \in Attempt, NEW b \in Attempt,
           JobOf(a) = JobOf(b), GenerationOf(a) = GenerationOf(b)
    PROVE  a = b
  BY AttemptPair

LEMMA LargerNat ==
    ASSUME NEW m \in Nat, NEW n \in Nat
    PROVE  Larger(m, n) \in Nat /\ m <= Larger(m, n) /\ n <= Larger(m, n)
  BY DEF Larger

(***************************************************************************)
(* A renewal is granted for a natural number of ticks, at most what is     *)
(* left of the total duration.                                             *)
(***************************************************************************)
LEMMA ExtensionCapped ==
    ASSUME NEW until \in Nat, NEW at \in Nat, NEW maxEnd \in Nat
    PROVE  /\ AnnouncedRenewExtension(until, at, maxEnd) \in Nat
           /\ AnnouncedRenewExtension(until, at, maxEnd)
                  <= AtLeastZero(maxEnd - at)
  BY TimesAssumption
     DEF AnnouncedRenewExtension, Larger, Smaller, AtLeastZero

(***************************************************************************)
(* What a busy session carries, by its phase.                              *)
(***************************************************************************)
LEMMA HandlerFields ==
    ASSUME handler \in HandlerStates
    PROVE  /\ handler # Idle => handler.attempt \in Attempt
           /\ handler.phase \in {"sign", "ack", "renew", "grace", "started",
                                 "report", "idle"}
           /\ handler.phase = "idle" <=> handler = Idle
           /\ handler.phase = "renew" => /\ handler.at \in Nat
                                         /\ handler.extension \in Nat
                                         /\ handler.session \in {"FRESH", "RENEW"}
           /\ handler.phase = "grace" => /\ handler.at \in Nat
                                         /\ handler.session \in {"FRESH", "RENEW"}
           /\ handler.phase = "started" => handler.at \in Nat
           /\ handler.phase = "report" => /\ handler.report \in Reports
                                          /\ handler.release \in BOOLEAN
  BY DEF HandlerStates, Idle

(***************************************************************************)
(* The next epoch is one above the counter: no stored fence is above it.   *)
(***************************************************************************)
LEMMA NextEpoch ==
    ASSUME TypeOK, FencesIncrease, OnlyStagedAttempts
    PROVE  AllocateEpoch = epoch + 1
<1>1. \A e \in IssuedEpochs : e \in Nat /\ e <= epoch
  <2>1. \A a \in Attempt : attempt[a].fence \in Nat /\ attempt[a].fence <= epoch
    <3> TAKE a \in Attempt
    <3>1. attempt[a].fence \in Nat /\ epoch \in Nat
      BY DEF TypeOK, AttemptRow
    <3>2. CASE Exists(a)
      BY <3>1, <3>2 DEF FencesIncrease
    <3>3. CASE ~ Exists(a)
      BY <3>1, <3>3 DEF OnlyStagedAttempts, AbsentAttempt
    <3> QED BY <3>2, <3>3
  <2> QED BY <2>1 DEF IssuedEpochs, TypeOK
<1>2. epoch \in IssuedEpochs
  BY DEF IssuedEpochs
<1>3. PICK e \in IssuedEpochs :
          /\ e = CHOOSE x \in IssuedEpochs : \A f \in IssuedEpochs : f <= x
          /\ \A f \in IssuedEpochs : f <= e
  BY <1>1, <1>2
<1>4. e = epoch
  BY <1>1, <1>2, <1>3 DEF TypeOK
<1>5. AllocateEpoch = 1 + e
  BY <1>3, Zenon DEF AllocateEpoch
<1> QED BY <1>4, <1>5 DEF TypeOK

-----------------------------------------------------------------------------
(* Types.                                                                  *)

(***************************************************************************)
(* The resume points of a job are epochs with steps.                       *)
(***************************************************************************)
LEMMA UsableType ==
    ASSUME TypeOK, NEW j \in Job
    PROVE  Usable(j) \subseteq Nat \X Nat
<1>1. \A a \in AttemptsOf(j) :
          {attempt[a].fence} \X (1 .. checkpoint[a]) \subseteq Nat \X Nat
  BY DEF AttemptsOf, TypeOK, AttemptRow
<1> QED BY <1>1 DEF Usable, Committed

LEMMA ResumePointType ==
    ASSUME TypeOK, NEW j \in Job, NEW r \in ResumePoints(j)
    PROVE  NewResume(j, r) \in (Nat \X Nat) \cup {None}
  BY UsableType DEF ResumePoints, NewResume, TypeOK, JobRow

(***************************************************************************)
(* A job that waits or runs has been in the queue.                         *)
(***************************************************************************)
LEMMA QueuedStamp ==
    ASSUME TypeOK, RowsReadable, NEW j \in Job,
           job[j].state \in SchedulableStates \cup RunStates
    PROVE  job[j].queued_at \in Nat
  BY DEF TypeOK, JobRow, RowsReadable, ReadableRow, SchedulableStates, RunStates

(***************************************************************************)
(* The rows that staging, pausing and requeueing write are job rows.       *)
(***************************************************************************)
LEMMA StagedJobType ==
    ASSUME NEW row \in JobRow, NEW issued \in Nat
    PROVE  StagedJob(row, issued) \in JobRow
<1>1. CASE row.state = "PAUSED"
  BY <1>1 DEF JobRow, StagedJob, StoredJobStates
<1>2. CASE row.state # "PAUSED"
  BY <1>2 DEF JobRow, StagedJob, StoredJobStates
<1> QED BY <1>1, <1>2

LEMMA RequeuedJobType ==
    ASSUME TypeOK, NEW j \in Job, NEW r \in ResumePoints(j),
           RequeuedJob(j, r).requeue_count <= MaxRequeue
    PROVE  RequeuedJob(j, r) \in JobRow
<1>1. PICK row \in JobRow : row = job[j]
  BY DEF TypeOK
<1>2. PICK point \in (Nat \X Nat) \cup {None} : point = NewResume(j, r)
  BY ResumePointType
<1>3. CASE job[j].state = "RUNNING" /\ r = None
  <2>1. RequeuedJob(j, r) = [row EXCEPT
            !.state = "FAILED", !.run_terminal = "NO_COMMITTED_CHECKPOINT"]
    BY <1>1, <1>3 DEF RequeuedJob
  <2> QED BY <2>1 DEF JobRow, StoredJobStates, RunTerminals
<1>4. CASE ~ (job[j].state = "RUNNING" /\ r = None)
  <2>1. RequeuedJob(j, r) = [row EXCEPT
            !.state = "QUEUED", !.staging_at = None, !.running = FALSE,
            !.requeue_count = row.requeue_count + 1, !.resume = point]
    BY <1>1, <1>2, <1>4 DEF RequeuedJob
  <2>2. row.requeue_count + 1 \in 0 .. MaxRequeue
    BY <2>1, BoundsAssumption DEF JobRow
  <2> QED BY <2>1, <2>2 DEF JobRow, StoredJobStates
<1> QED BY <1>3, <1>4

LEMMA PausedJobType ==
    ASSUME TypeOK, NEW j \in Job, NEW r \in ResumePoints(j),
           job[j].requeue_count < MaxRequeue
    PROVE  PausedJob(j, r) \in JobRow
<1>1. PICK row \in JobRow : row = job[j]
  BY DEF TypeOK
<1>2. PICK point \in (Nat \X Nat) \cup {None} : point = NewResume(j, r)
  BY ResumePointType
<1>3. PausedJob(j, r) = [row EXCEPT
          !.state = "PAUSED", !.requeue_count = row.requeue_count + 1,
          !.resume = point]
  BY <1>1, <1>2 DEF PausedJob
<1>4. row.requeue_count + 1 \in 0 .. MaxRequeue
  BY <1>1, BoundsAssumption DEF JobRow
<1> QED BY <1>3, <1>4 DEF JobRow, StoredJobStates

LEMMA FollowedType ==
    ASSUME TypeOK, NEW a \in Attempt, NEW r \in Reports
    PROVE  FollowAttemptTerminal(a, r) \in [Job -> JobRow]
<1> DEFINE j == JobOf(a)
           end == IF TerminalStateFor(r) = "COMPLETED"
                  THEN "COMPLETED" ELSE "FAILED"
           trigger == TerminalOf(job[j], TerminalStateFor(r),
                                 AttemptRan(attempt[a].state, r))
<1>1. j \in Job /\ job[j] \in JobRow
  BY AttemptPair DEF TypeOK
<1>2. trigger \in RunTerminals /\ end \in StoredJobStates
  BY DEF TerminalOf, RunTerminals, StoredJobStates
<1>3. [job[j] EXCEPT !.state = end, !.run_terminal = trigger] \in JobRow
  <2> HIDE DEF j, end, trigger
  <2> QED BY <1>1, <1>2 DEF JobRow
<1> QED BY <1>1, <1>3 DEF FollowAttemptTerminal, TypeOK

(***************************************************************************)
(* A revoked lease is a lease.                                             *)
(***************************************************************************)
LEMMA RevokedType ==
    ASSUME TypeOK, NEW a \in Attempt, RevokeWithin(a)
    PROVE  lease' \in [Attempt -> LeaseRow]
<1>1. [lease[a] EXCEPT !.revoked = TRUE] \in LeaseRow
  BY DEF TypeOK, LeaseRow
<1> QED BY <1>1 DEF TypeOK, RevokeWithin

(***************************************************************************)
(* A reservation marked expired is a reservation, whatever the node.       *)
(***************************************************************************)
LEMMA MarkedType ==
    ASSUME TypeOK, NEW n, MarkReservationExpired(n)
    PROVE  reservation' \in [Node -> ReservationRow]
<1>1. reservation \in [Node -> ReservationRow]
  BY DEF TypeOK
<1>2. ASSUME NEW row \in ReservationRow
      PROVE  [row EXCEPT !.expired = TRUE] \in ReservationRow
  BY DEF ReservationRow
<1>3. n \in Node => [reservation[n] EXCEPT !.expired = TRUE] \in ReservationRow
  BY <1>1, <1>2
<1>4. [reservation EXCEPT ![n].expired = TRUE] \in [Node -> ReservationRow]
  BY <1>1, <1>3
<1> QED BY <1>1, <1>4 DEF MarkReservationExpired

(***************************************************************************)
(* Every row keeps its type in every step.                                 *)
(***************************************************************************)
LEMMA TypeStep ==
    ASSUME IInv, Next
    PROVE  TypeOK'
<1> USE DEF IInv
<1>1. CASE JobStep
  BY <1>1 DEF JobStep, SubmitAccepted, StartPlanning, Enqueue, PlanAndEnqueue,
     FailQueued, SetJobState, StoreUnchangedButJobs, TypeOK, JobRow,
     StoredJobStates
<1>2. CASE \E s \in Scheduler, j \in Job, n \in Node : TickPlan(s, j, n)
  <2> PICK s \in Scheduler, j \in Job, n \in Node : TickPlan(s, j, n)
    BY <1>2
  <2>1. Larger(job[j].queued_at, now) \in Nat
    BY QueuedStamp, LargerNat DEF TickPlan, TypeOK
  <2>2. <<j, job[j].requeue_count>> \in Attempt
    BY PairIsAttempt DEF TypeOK, JobRow
  <2> QED BY <2>1, <2>2 DEF TickPlan, TypeOK, PlanRow
<1>3. CASE \E s \in Scheduler : ReserveAndStage(s)
  <2> PICK s \in Scheduler : ReserveAndStage(s)
    BY <1>3
  <2> DEFINE a == plan[s].attempt
             issued == plan[s].issued
  <2>1. /\ a \in Attempt /\ JobOf(a) \in Job
        /\ plan[s].node \in Node /\ issued \in Nat
    BY AttemptPair DEF ReserveAndStage, TypeOK, PlanRow
  <2>2. AllocateEpoch \in Nat
    BY NextEpoch DEF TypeOK
  <2>3. StagedJob(job[JobOf(a)], issued) \in JobRow
    BY <2>1, StagedJobType DEF TypeOK
  <2>4. job' \in [Job -> JobRow]
    BY <2>1, <2>3 DEF ReserveAndStage, TypeOK
  <2>5. attempt' \in [Attempt -> AttemptRow]
    BY <2>1, <2>2 DEF ReserveAndStage, TypeOK, AttemptRow, AttemptStates
  <2>6. lease' \in [Attempt -> LeaseRow]
    BY <2>1, TimesAssumption DEF ReserveAndStage, TypeOK, LeaseRow
  <2>7. reservation' \in [Node -> ReservationRow]
    BY <2>1 DEF ReserveAndStage, TypeOK, ReservationRow
  <2>8. plan' \in [Scheduler -> PlanRow \cup {None}]
    BY DEF ReserveAndStage, TypeOK
  <2> QED BY <2>2, <2>4, <2>5, <2>6, <2>7, <2>8 DEF ReserveAndStage, TypeOK
<1>4. CASE \E s \in Scheduler : TickGivesUp(s)
  BY <1>4 DEF TickGivesUp, TypeOK
<1>5. CASE \E a \in Attempt : Failover(a)
  <2> PICK a \in Attempt : Failover(a)
    BY <1>5
  <2>1. JobOf(a) \in Job /\ attempt[a].node \in Node \cup {None}
    BY AttemptPair DEF TypeOK, AttemptRow
  <2>2. PICK r \in ResumePoints(JobOf(a)) :
            /\ RequeuedJob(JobOf(a), r).requeue_count <= MaxRequeue
            /\ job' = [job EXCEPT ![JobOf(a)] = RequeuedJob(JobOf(a), r)]
    BY DEF Failover
  <2>4. RequeuedJob(JobOf(a), r) \in JobRow
    BY <2>1, <2>2, RequeuedJobType
  <2>5. job' \in [Job -> JobRow]
    BY <2>1, <2>2, <2>4 DEF TypeOK
  <2>6. lease' \in [Attempt -> LeaseRow]
    BY RevokedType DEF Failover
  <2>7. reservation' \in [Node -> ReservationRow]
    BY MarkedType DEF Failover
  <2> QED BY <2>5, <2>6, <2>7 DEF Failover, TypeOK
<1>6. CASE \E n \in Node : GrantRead(n)
  <2> PICK n \in Node : GrantRead(n)
    BY <1>6
  <2>1. reservation[n].attempt \in Attempt
    BY DEF GrantRead, TypeOK, ReservationRow
  <2>2. handler' \in HandlerStates
    BY <2>1 DEF GrantRead, HandlerStates
  <2> QED BY <2>2 DEF GrantRead, StoreUnchangedButHandler, TypeOK
<1>7. CASE GrantSign
  <2>1. handler.attempt \in Attempt
    BY <1>7, HandlerFields DEF GrantSign, TypeOK, Idle
  <2>2. handler' \in HandlerStates
    BY <1>7, <2>1 DEF GrantSign, HandlerStates
  <2>3. Larger(lease[handler.attempt].grace, SignedGrace) \in Nat
    BY <2>1, LargerNat, TimesAssumption DEF TypeOK, LeaseRow
  <2>4. lease' \in [Attempt -> LeaseRow]
    BY <1>7, <2>1, <2>3 DEF GrantSign, RaiseReassignmentGrace, TypeOK, LeaseRow
  <2> QED BY <1>7, <2>1, <2>2, <2>4 DEF GrantSign, TypeOK
<1>8. CASE RecordGrantAccepted
  <2>1. handler.attempt \in Attempt /\ JobOf(handler.attempt) \in Job
    BY <1>8, HandlerFields, AttemptPair DEF RecordGrantAccepted, TypeOK, Idle
  <2>2. attempt' \in [Attempt -> AttemptRow]
    BY <1>8, <2>1 DEF RecordGrantAccepted, TypeOK, AttemptRow, AttemptStates
  <2>3. job' \in [Job -> JobRow]
    BY <1>8, <2>1
       DEF RecordGrantAccepted, StagingComplete, TypeOK, JobRow, StoredJobStates
  <2> QED BY <1>8, <2>2, <2>3 DEF RecordGrantAccepted, TypeOK, HandlerStates
<1>9. CASE \E a \in Attempt, ahead \in Announcements \cup {0} :
              RenewRead(a, ahead)
  <2> PICK a \in Attempt, ahead \in Announcements \cup {0} :
          RenewRead(a, ahead)
    BY <1>9
  <2> DEFINE until == IF ahead = 0 THEN 0 ELSE now + ahead
             maxEnd == lease[a].issued + MaxTotalDuration
  <2>1. until \in Nat /\ now \in Nat /\ maxEnd \in Nat
    BY SetsAssumption, TimesAssumption DEF TypeOK, LeaseRow
  <2>2. AnnouncedRenewExtension(until, now, maxEnd) \in Nat
    BY <2>1, ExtensionCapped
  <2>3. handler' \in HandlerStates
    BY <2>1, <2>2 DEF RenewRead, HandlerStates
  <2> QED BY <2>3 DEF RenewRead, StoreUnchangedButHandler, TypeOK
<1>10. CASE \E a \in Attempt : FreshRenewRead(a)
  BY <1>10, TimesAssumption
     DEF FreshRenewRead, StoreUnchangedButHandler, TypeOK, HandlerStates
<1>11. CASE RenewExisting
  <2>1. /\ handler.attempt \in Attempt
        /\ handler.at \in Nat /\ handler.extension \in Nat
        /\ handler.session \in {"FRESH", "RENEW"}
    BY <1>11, HandlerFields DEF RenewExisting, TypeOK, Idle
  <2>2. lease' \in [Attempt -> LeaseRow]
    <3>1. lease \in [Attempt -> LeaseRow]
      BY DEF TypeOK
    <3>2. lease' = [lease EXCEPT ![handler.attempt].expires =
                                     handler.at + handler.extension]
      BY <1>11 DEF RenewExisting
    <3> QED BY <2>1, <3>1, <3>2 DEF LeaseRow
  <2>3. handler' \in HandlerStates
    BY <1>11, <2>1 DEF RenewExisting, HandlerStates
  <2> QED BY <1>11, <2>2, <2>3 DEF RenewExisting, TypeOK
<1>12. CASE RenewSign
  <2>1. handler.attempt \in Attempt /\ handler.at \in Nat
    BY <1>12, HandlerFields DEF RenewSign, TypeOK, Idle
  <2>2. Larger(lease[handler.attempt].grace, SignedGrace) \in Nat
    BY <2>1, LargerNat, TimesAssumption DEF TypeOK, LeaseRow
  <2>3. lease' \in [Attempt -> LeaseRow]
    BY <1>12, <2>1, <2>2 DEF RenewSign, RaiseReassignmentGrace, TypeOK, LeaseRow
  <2>4. handler' \in HandlerStates
    BY <1>12, <2>1 DEF RenewSign, HandlerStates
  <2> QED BY <1>12, <2>3, <2>4 DEF RenewSign, TypeOK
<1>13. CASE RecordProcessStarted
  <2>1. handler.attempt \in Attempt /\ JobOf(handler.attempt) \in Job
    BY <1>13, HandlerFields, AttemptPair DEF RecordProcessStarted, TypeOK, Idle
  <2>2. attempt' \in [Attempt -> AttemptRow]
    BY <1>13, <2>1 DEF RecordProcessStarted, TypeOK, AttemptRow, AttemptStates
  <2>3. job' \in [Job -> JobRow]
    <3>1. job \in [Job -> JobRow]
      BY DEF TypeOK
    <3>2. job' = job \/ StagingComplete(JobOf(handler.attempt))
      BY <1>13 DEF RecordProcessStarted
    <3> QED BY <2>1, <3>1, <3>2 DEF StagingComplete, JobRow, StoredJobStates
  <2> QED BY <1>13, <2>2, <2>3 DEF RecordProcessStarted, TypeOK, HandlerStates
<1>14. CASE \E a \in Attempt, r \in Reports : ReportRead(a, r)
  <2> PICK a \in Attempt, r \in Reports : ReportRead(a, r)
    BY <1>14
  <2>1. DecidesToRelease(a, r) \in BOOLEAN
    BY SwitchesAssumption, SetsAssumption DEF DecidesToRelease, AllowedReports
  <2>2. handler' \in HandlerStates
    BY <2>1 DEF ReportRead, HandlerStates
  <2> QED BY <2>2 DEF ReportRead, StoreUnchangedButHandler, TypeOK
<1>15. CASE StoreReport
  <2>1. /\ handler.attempt \in Attempt /\ JobOf(handler.attempt) \in Job
        /\ handler.report \in Reports
    BY <1>15, HandlerFields, AttemptPair DEF StoreReport, TypeOK, Idle
  <2>2. report' \in [Attempt -> Reports \cup {None}]
    BY <1>15, <2>1 DEF StoreReport, TypeOK
  <2>3. attempt' \in [Attempt -> AttemptRow]
    <3>1. TerminalStateFor(handler.report) \in AttemptStates \cup {"NONE"}
      BY DEF TerminalStateFor, AttemptStates
    <3>2. ASSUME NEW s \in AttemptStates
          PROVE  [attempt EXCEPT ![handler.attempt].state = s]
                     \in [Attempt -> AttemptRow]
      BY <2>1 DEF TypeOK, AttemptRow
    <3>3. EndedAttempt(handler.attempt, handler.report) \in [Attempt -> AttemptRow]
      BY <3>1, <3>2 DEF EndedAttempt, TypeOK
    <3> QED BY <1>15, <3>3 DEF StoreReport, TypeOK
  <2>4. reservation' \in [Node -> ReservationRow]
    <3>1. NoReservation \in ReservationRow
      BY DEF NoReservation, ReservationRow
    <3> QED BY <1>15, <2>1, <3>1 DEF StoreReport, ReleaseReservation, TypeOK
  <2>5. released' \subseteq Attempt
    BY <1>15, <2>1 DEF StoreReport, ReleaseReservation, TypeOK
  <2>6. lease' \in [Attempt -> LeaseRow]
    <3>1. lease' = lease \/ RevokeWithin(handler.attempt)
      BY <1>15 DEF StoreReport
    <3> QED BY <2>1, <3>1, RevokedType DEF TypeOK
  <2>7. job' \in [Job -> JobRow]
    <3>1. CASE Preempts(handler.attempt, handler.report)
      <4>1. PICK point \in ResumePoints(JobOf(handler.attempt)) :
                job' = [job EXCEPT ![JobOf(handler.attempt)] =
                            PausedJob(JobOf(handler.attempt), point)]
        BY <1>15, <3>1 DEF StoreReport
      <4>2. PausedJob(JobOf(handler.attempt), point) \in JobRow
        BY <1>15, <2>1, <3>1, PausedJobType DEF StoreReport
      <4> QED BY <2>1, <4>1, <4>2 DEF TypeOK
    <3>2. CASE ~ Preempts(handler.attempt, handler.report)
      <4>1. \/ job' = FollowAttemptTerminal(handler.attempt, handler.report)
            \/ job' = job
        BY <1>15, <3>2 DEF StoreReport
      <4> QED BY <2>1, <4>1, FollowedType DEF TypeOK
    <3> QED BY <3>1, <3>2
  <2> QED BY <1>15, <2>2, <2>3, <2>4, <2>5, <2>6, <2>7
          DEF StoreReport, TypeOK, HandlerStates
<1>16. CASE SessionEnds
  BY <1>16 DEF SessionEnds, StoreUnchangedButHandler, TypeOK, HandlerStates
<1>17. CASE \E a \in Attempt : MarkRevoked(a)
  <2> PICK a \in Attempt : MarkRevoked(a)
    BY <1>17
  <2>1. lease' \in [Attempt -> LeaseRow]
    BY RevokedType DEF MarkRevoked, RevokeWithin
  <2> QED BY <2>1 DEF MarkRevoked, TypeOK
<1>18. CASE OperatorStep
  BY <1>18 DEF OperatorStep, ReleaseLostNodeByOperator, TypeOK, ReservationRow,
     NoReservation
<1>19. CASE EnvironmentStep
  <2>1. CASE \E j \in Job : \E c \in Usable(j) : CheckpointUnusable(c)
    <3> PICK j \in Job : \E c \in Usable(j) : CheckpointUnusable(c)
      BY <2>1
    <3> PICK c \in Usable(j) : CheckpointUnusable(c)
      OBVIOUS
    <3>1. c \in Nat \X Nat
      BY UsableType
    <3> QED BY <3>1 DEF CheckpointUnusable, TypeOK
  <2>2. CASE ~ \E j \in Job : \E c \in Usable(j) : CheckpointUnusable(c)
    BY <1>19, <2>2 DEF EnvironmentStep, PublishCheckpoint, CheckpointUsable,
       Tick, SetClockBack, TypeOK
  <2> QED BY <2>1, <2>2
<1> QED
  BY <1>1, <1>2, <1>3, <1>4, <1>5, <1>6, <1>7, <1>8, <1>9, <1>10, <1>11, <1>12,
     <1>13, <1>14, <1>15, <1>16, <1>17, <1>18, <1>19
     DEF Next, SchedulerStep, SessionStep

-----------------------------------------------------------------------------
(* Readable rows.                                                          *)

(***************************************************************************)
(* What moves a row that can be read leaves a row that can be read.        *)
(***************************************************************************)
LEMMA StagedReadable ==
    ASSUME NEW row \in JobRow, ReadableRow(row), NEW issued \in Nat,
           row.state \in SchedulableStates
    PROVE  ReadableRow(StagedJob(row, issued))
<1>1. CASE row.state = "PAUSED"
  <2> DEFINE new == [row EXCEPT !.state = "RUNNING", !.staging_at = issued,
                                !.running = TRUE]
  <2>1. StagedJob(row, issued) = new
    BY <1>1 DEF StagedJob
  <2>2. /\ new.state = "RUNNING" /\ new.staging_at = issued
        /\ new.running /\ new.queued_at = row.queued_at
        /\ new.run_terminal = row.run_terminal
        /\ new.queue_failure = row.queue_failure
        /\ new.resume = row.resume /\ new.requeue_count = row.requeue_count
    BY DEF JobRow
  <2> QED BY <1>1, <2>1, <2>2, NoneAssumption DEF ReadableRow
<1>2. CASE row.state = "QUEUED"
  <2> DEFINE new == [row EXCEPT !.state = "STAGING", !.staging_at = issued]
  <2>1. StagedJob(row, issued) = new
    BY <1>2 DEF StagedJob
  <2>2. /\ new.state = "STAGING" /\ new.staging_at = issued
        /\ new.running = row.running /\ new.queued_at = row.queued_at
        /\ new.run_terminal = row.run_terminal
        /\ new.queue_failure = row.queue_failure
        /\ new.resume = row.resume /\ new.requeue_count = row.requeue_count
    BY DEF JobRow
  <2> QED BY <1>2, <2>1, <2>2, NoneAssumption DEF ReadableRow
<1> QED BY <1>1, <1>2 DEF SchedulableStates

LEMMA RequeuedReadable ==
    ASSUME TypeOK, NEW j \in Job, NEW r \in ResumePoints(j),
           ReadableRow(job[j]), job[j].state \in RunStates
    PROVE  ReadableRow(RequeuedJob(j, r))
<1>1. PICK row \in JobRow : row = job[j]
  BY DEF TypeOK
<1>2. CASE row.state = "RUNNING" /\ r = None
  <2> DEFINE new == [row EXCEPT !.state = "FAILED",
                                !.run_terminal = "NO_COMMITTED_CHECKPOINT"]
  <2>1. RequeuedJob(j, r) = new
    BY <1>1, <1>2 DEF RequeuedJob
  <2>2. /\ new.state = "FAILED" /\ new.staging_at = row.staging_at
        /\ new.running = row.running /\ new.queued_at = row.queued_at
        /\ new.run_terminal = "NO_COMMITTED_CHECKPOINT"
        /\ new.queue_failure = row.queue_failure
        /\ new.resume = row.resume /\ new.requeue_count = row.requeue_count
    BY DEF JobRow
  <2> QED BY <1>1, <1>2, <2>1, <2>2 DEF ReadableRow, RunTerminals
<1>3. CASE ~ (row.state = "RUNNING" /\ r = None)
  <2> DEFINE new == [row EXCEPT !.state = "QUEUED", !.staging_at = None,
                        !.running = FALSE, !.requeue_count = @ + 1,
                        !.resume = NewResume(j, r)]
  <2>1. RequeuedJob(j, r) = new
    BY <1>1, <1>3 DEF RequeuedJob
  <2>2. /\ new.state = "QUEUED" /\ new.staging_at = None
        /\ ~ new.running /\ new.queued_at = row.queued_at
        /\ new.run_terminal = row.run_terminal
        /\ new.queue_failure = row.queue_failure
        /\ new.requeue_count = row.requeue_count + 1
        /\ row.requeue_count \in 0 .. MaxRequeue
    BY DEF JobRow
  <2>3. new.requeue_count > 0
    BY <2>2, BoundsAssumption
  <2> QED BY <1>1, <2>1, <2>2, <2>3 DEF ReadableRow, RunStates
<1> QED BY <1>2, <1>3

LEMMA PausedReadable ==
    ASSUME TypeOK, NEW j \in Job, NEW r \in ResumePoints(j),
           ReadableRow(job[j]), job[j].state = "RUNNING"
    PROVE  ReadableRow(PausedJob(j, r))
<1>1. PICK row \in JobRow : row = job[j]
  BY DEF TypeOK
<1> DEFINE new == [row EXCEPT !.state = "PAUSED", !.requeue_count = @ + 1,
                              !.resume = NewResume(j, r)]
<1>2. PausedJob(j, r) = new
  BY <1>1 DEF PausedJob
<1>3. /\ new.state = "PAUSED" /\ new.staging_at = row.staging_at
      /\ new.running = row.running /\ new.queued_at = row.queued_at
      /\ new.run_terminal = row.run_terminal
      /\ new.queue_failure = row.queue_failure
      /\ new.requeue_count = row.requeue_count + 1
      /\ row.requeue_count \in 0 .. MaxRequeue
  BY DEF JobRow
<1>4. new.requeue_count > 0
  BY <1>3, BoundsAssumption
<1> QED BY <1>1, <1>2, <1>3, <1>4 DEF ReadableRow

LEMMA FollowedReadable ==
    ASSUME TypeOK, NEW a \in Attempt, NEW r \in Reports, RowsReadable
    PROVE  \A j \in Job : ReadableRow(FollowAttemptTerminal(a, r)[j])
<1>1. CASE TerminalStateFor(r) = "NONE" \/ ~ IsCurrent(a)
  BY <1>1 DEF FollowAttemptTerminal, RowsReadable
<1>2. CASE TerminalStateFor(r) # "NONE" /\ IsCurrent(a)
  <2> DEFINE target == TerminalStateFor(r)
             j == JobOf(a)
             end == IF target = "COMPLETED" THEN "COMPLETED" ELSE "FAILED"
             trigger == TerminalOf(job[j], target,
                                   AttemptRan(attempt[a].state, r))
             new == [job[j] EXCEPT !.state = end, !.run_terminal = trigger]
  <2>1. j \in Job /\ job[j] \in JobRow /\ ReadableRow(job[j])
        /\ job[j].state \in RunStates
    BY <1>2, AttemptPair DEF TypeOK, RowsReadable, IsCurrent
  <2>2. FollowAttemptTerminal(a, r) = [job EXCEPT ![j] = new]
    BY <1>2 DEF FollowAttemptTerminal
  <2>3. /\ new.state = end /\ new.staging_at = job[j].staging_at
        /\ new.running = job[j].running
        /\ new.queued_at = job[j].queued_at
        /\ new.run_terminal = trigger
        /\ new.queue_failure = job[j].queue_failure
        /\ new.requeue_count = job[j].requeue_count
        /\ new.resume = job[j].resume
    BY <2>1 DEF JobRow
  <2>4. /\ target = "COMPLETED" => trigger = "ATTEMPT_COMPLETED"
        /\ target # "COMPLETED" =>
               trigger \in RunTerminals \ {"ATTEMPT_COMPLETED"}
    BY DEF TerminalOf, RunTerminals
  <2>5. ReadableRow(new)
    <3> HIDE DEF new, trigger, target
    <3>1. CASE target = "COMPLETED"
      BY <2>1, <2>3, <2>4, <3>1 DEF ReadableRow, RunStates
    <3>2. CASE target # "COMPLETED"
      BY <2>1, <2>3, <2>4, <3>2 DEF ReadableRow, RunStates
    <3> QED BY <3>1, <3>2
  <2> QED BY <2>1, <2>2, <2>5 DEF RowsReadable, TypeOK
<1> QED BY <1>1, <1>2

(***************************************************************************)
(* Every step leaves rows that can be read.                                *)
(***************************************************************************)
LEMMA RowsStep ==
    ASSUME IInv, Next
    PROVE  RowsReadable'
<1> USE DEF IInv
<1> SUFFICES ASSUME NEW j \in Job
             PROVE  ReadableRow(job'[j])
  BY DEF RowsReadable
<1>0. ReadableRow(job[j])
  BY DEF RowsReadable
<1>1. CASE job' = job
  BY <1>0, <1>1
<1>2. CASE JobStep
  <2> PICK i \in Job : \/ SubmitAccepted(i)
                       \/ StartPlanning(i)
                       \/ Enqueue(i)
                       \/ PlanAndEnqueue(i)
                       \/ \E failure \in QueueFailures : FailQueued(i, failure)
    BY <1>2 DEF JobStep
  <2>1. CASE i # j
    BY <1>0, <2>1 DEF SubmitAccepted, StartPlanning, Enqueue, PlanAndEnqueue,
       FailQueued, SetJobState, TypeOK
  <2>2. CASE i = j
    <3>0. job[j] \in JobRow /\ now \in Nat
      BY DEF TypeOK
    <3>1. CASE SubmitAccepted(i)
      BY <1>0, <2>2, <3>0, <3>1
         DEF SubmitAccepted, SetJobState, TypeOK, ReadableRow, AbsentJob
    <3>2. CASE StartPlanning(i)
      BY <1>0, <2>2, <3>0, <3>2
         DEF StartPlanning, SetJobState, TypeOK, JobRow, ReadableRow
    <3>3. CASE Enqueue(i) \/ PlanAndEnqueue(i)
      <4>1. job' = [job EXCEPT ![j] = [job[j] EXCEPT !.state = "QUEUED",
                                                     !.queued_at = now]]
        BY <2>2, <3>3 DEF Enqueue, PlanAndEnqueue, TypeOK
      <4>2. /\ job'[j].state = "QUEUED" /\ job'[j].queued_at = now
            /\ \A c \in {"staging_at", "running", "run_terminal",
                         "queue_failure", "requeue_count", "resume"} :
                   job'[j][c] = job[j][c]
        BY <3>0, <4>1 DEF TypeOK, JobRow
      <4>3. job[j].state \in {"SUBMITTED", "PLANNING"}
        BY <2>2, <3>3 DEF Enqueue, PlanAndEnqueue
      <4> QED BY <1>0, <3>0, <4>2, <4>3, NoneAssumption DEF ReadableRow
    <3>4. CASE \E failure \in QueueFailures : FailQueued(i, failure)
      <4> PICK failure \in QueueFailures : FailQueued(i, failure)
        BY <3>4
      <4>1. job' = [job EXCEPT ![j] = [job[j] EXCEPT
                                          !.state = "FAILED",
                                          !.queue_failure = failure]]
        BY <2>2 DEF FailQueued, TypeOK
      <4>2. /\ job'[j].state = "FAILED" /\ job'[j].queue_failure = failure
            /\ \A c \in {"queued_at", "staging_at", "running", "run_terminal",
                         "requeue_count", "resume"} :
                   job'[j][c] = job[j][c]
        BY <3>0, <4>1 DEF TypeOK, JobRow
      <4> QED BY <1>0, <2>2, <4>2, NoneAssumption DEF ReadableRow, FailQueued
    <3> QED BY <3>1, <3>2, <3>3, <3>4
  <2> QED BY <2>1, <2>2
<1>3. CASE \E s \in Scheduler : ReserveAndStage(s)
  <2> PICK s \in Scheduler : ReserveAndStage(s)
    BY <1>3
  <2>1. /\ plan[s].attempt \in Attempt
        /\ JobOf(plan[s].attempt) \in Job
        /\ plan[s].issued \in Nat
    BY AttemptPair DEF ReserveAndStage, TypeOK, PlanRow
  <2>2. job' = [job EXCEPT ![JobOf(plan[s].attempt)] =
                   StagedJob(job[JobOf(plan[s].attempt)], plan[s].issued)]
    BY DEF ReserveAndStage
  <2>3. job[JobOf(plan[s].attempt)].state \in SchedulableStates
    BY DEF ReserveAndStage
  <2>4. CASE j = JobOf(plan[s].attempt)
    <3>1. ReadableRow(StagedJob(job[j], plan[s].issued))
      BY <1>0, <2>1, <2>3, <2>4, StagedReadable DEF TypeOK
    <3> QED BY <2>2, <2>4, <3>1 DEF TypeOK
  <2>5. CASE j # JobOf(plan[s].attempt)
    BY <1>0, <2>2, <2>5 DEF TypeOK
  <2> QED BY <2>4, <2>5
<1>4. CASE \E a \in Attempt : Failover(a)
  <2> PICK a \in Attempt : Failover(a)
    BY <1>4
  <2>1. PICK r \in ResumePoints(JobOf(a)) :
            job' = [job EXCEPT ![JobOf(a)] = RequeuedJob(JobOf(a), r)]
    BY DEF Failover
  <2>2. JobOf(a) \in Job /\ job[JobOf(a)].state \in RunStates
    BY AttemptPair DEF Failover, Lost, IsCurrent
  <2>3. CASE j = JobOf(a)
    <3>1. ReadableRow(RequeuedJob(j, r))
      BY <1>0, <2>2, <2>3, RequeuedReadable
    <3> QED BY <2>1, <2>3, <3>1 DEF TypeOK
  <2>4. CASE j # JobOf(a)
    BY <1>0, <2>1, <2>4 DEF TypeOK
  <2> QED BY <2>3, <2>4
<1>5. CASE /\ RecordGrantAccepted \/ RecordProcessStarted
           /\ job' # job
  <2>1. StagingComplete(JobOf(handler.attempt))
    BY <1>5 DEF RecordGrantAccepted, RecordProcessStarted
  <2>2. PICK i \in Job : job[i].state = "STAGING"
                         /\ job' = [job EXCEPT ![i].state = "RUNNING",
                                               ![i].running = TRUE]
    BY <1>5, <2>1, HandlerFields, AttemptPair
       DEF StagingComplete, RecordGrantAccepted, RecordProcessStarted, TypeOK,
           Idle
  <2>3. CASE i = j
    <3>1. job[j] \in JobRow
      BY DEF TypeOK
    <3>2. job' = [job EXCEPT ![j] = [job[j] EXCEPT !.state = "RUNNING",
                                                   !.running = TRUE]]
      BY <2>2, <2>3 DEF TypeOK
    <3>3. /\ job'[j].state = "RUNNING" /\ job'[j].running
          /\ \A c \in {"queued_at", "staging_at", "run_terminal",
                       "queue_failure", "requeue_count", "resume"} :
                 job'[j][c] = job[j][c]
      BY <3>1, <3>2 DEF TypeOK, JobRow
    <3> QED BY <1>0, <2>2, <2>3, <3>3 DEF ReadableRow
  <2>4. CASE i # j
    BY <1>0, <2>2, <2>4 DEF TypeOK
  <2> QED BY <2>3, <2>4
<1>6. CASE StoreReport
  <2>1. /\ handler.attempt \in Attempt /\ JobOf(handler.attempt) \in Job
        /\ handler.report \in Reports
    BY <1>6, HandlerFields, AttemptPair DEF StoreReport, TypeOK, Idle
  <2>2. CASE Preempts(handler.attempt, handler.report)
    <3>1. PICK point \in ResumePoints(JobOf(handler.attempt)) :
              job' = [job EXCEPT ![JobOf(handler.attempt)] =
                          PausedJob(JobOf(handler.attempt), point)]
      BY <1>6, <2>2 DEF StoreReport
    <3>2. CASE j = JobOf(handler.attempt)
      <4>1. ReadableRow(PausedJob(j, point))
        BY <1>0, <2>2, <3>2, PausedReadable DEF Preempts
      <4> QED BY <3>1, <3>2, <4>1 DEF TypeOK
    <3>3. CASE j # JobOf(handler.attempt)
      BY <1>0, <3>1, <3>3 DEF TypeOK
    <3> QED BY <3>2, <3>3
  <2>3. CASE ~ Preempts(handler.attempt, handler.report)
    <3>1. \/ job' = FollowAttemptTerminal(handler.attempt, handler.report)
          \/ job' = job
      BY <1>6, <2>3 DEF StoreReport
    <3> QED BY <1>0, <2>1, <3>1, FollowedReadable
  <2> QED BY <2>2, <2>3
<1>7. CASE \/ \E s \in Scheduler, i \in Job, n \in Node : TickPlan(s, i, n)
           \/ \E s \in Scheduler : TickGivesUp(s)
           \/ \E n \in Node : GrantRead(n)
           \/ GrantSign
           \/ \E a \in Attempt, ahead \in Announcements \cup {0} :
                  RenewRead(a, ahead)
           \/ \E a \in Attempt : FreshRenewRead(a)
           \/ RenewExisting
           \/ RenewSign
           \/ \E a \in Attempt, r \in Reports : ReportRead(a, r)
           \/ SessionEnds
           \/ \E a \in Attempt : MarkRevoked(a)
           \/ OperatorStep
           \/ EnvironmentStep
  <2>1. job' = job
    BY <1>7 DEF TickPlan, TickGivesUp, GrantRead, GrantSign, RenewRead,
       FreshRenewRead, RenewExisting, RenewSign, ReportRead, SessionEnds,
       MarkRevoked, OperatorStep, ReleaseLostNodeByOperator, EnvironmentStep,
       PublishCheckpoint, CheckpointUnusable, CheckpointUsable,
       Tick, SetClockBack, StoreUnchangedButHandler
  <2> QED BY <1>0, <2>1
<1> QED
  BY <1>1, <1>2, <1>3, <1>4, <1>5, <1>6, <1>7
     DEF Next, SchedulerStep, SessionStep

-----------------------------------------------------------------------------
(* What a step other than a staging can do.                                *)

NoStaging == Next /\ ~ \E s \in Scheduler : ReserveAndStage(s)

(***************************************************************************)
(* No attempt comes, goes or changes its epoch or node, and one that       *)
(* completed stays so.                                                     *)
(***************************************************************************)
AttemptKept(a) ==
    /\ attempt'[a].fence = attempt[a].fence
    /\ attempt'[a].node = attempt[a].node
    /\ attempt'[a].state = "ABSENT" <=> attempt[a].state = "ABSENT"
    /\ attempt[a].state = "COMPLETED" /\ report[a] # None
           => attempt'[a].state = "COMPLETED"
    /\ ~ Exists(a) => attempt'[a] = attempt[a]

LEMMA AttemptStateSet ==
    ASSUME TypeOK, NEW a \in Attempt, NEW b \in Attempt,
           NEW s \in AttemptStates,
           attempt' = [attempt EXCEPT ![b].state = s]
    PROVE  /\ attempt'[a].fence = attempt[a].fence
           /\ attempt'[a].node = attempt[a].node
           /\ a = b => attempt'[a].state = s
           /\ a # b => attempt'[a] = attempt[a]
  BY DEF TypeOK, AttemptRow

LEMMA AttemptsKept ==
    ASSUME IInv, NoStaging, NEW a \in Attempt
    PROVE  AttemptKept(a)
<1> USE DEF IInv
<1>1. CASE attempt' = attempt
  BY <1>1 DEF AttemptKept
<1>2. CASE RecordGrantAccepted \/ RecordProcessStarted
  <2>1. handler # Idle /\ handler.attempt \in Attempt
    BY <1>2, HandlerFields
       DEF RecordGrantAccepted, RecordProcessStarted, TypeOK, Idle
  <2>2. \/ attempt' = attempt
        \/ /\ attempt[handler.attempt].state \in {"CREATED", "STARTING"}
           /\ \E s \in {"STARTING", "RUNNING"} :
                  attempt' = [attempt EXCEPT ![handler.attempt].state = s]
    BY <1>2 DEF RecordGrantAccepted, RecordProcessStarted
  <2>3. CASE attempt' # attempt
    <3>1. PICK s \in {"STARTING", "RUNNING"} :
              attempt' = [attempt EXCEPT ![handler.attempt].state = s]
      BY <2>2, <2>3
    <3>2. attempt[handler.attempt].state \in {"CREATED", "STARTING"}
      BY <2>2, <2>3
    <3>3. CASE a = handler.attempt
      BY <2>1, <3>1, <3>2, <3>3, AttemptStateSet
         DEF AttemptKept, Exists, AttemptStates
    <3>4. CASE a # handler.attempt
      BY <2>1, <3>1, <3>4, AttemptStateSet DEF AttemptKept, AttemptStates
    <3> QED BY <3>3, <3>4
  <2> QED BY <1>1, <2>3
<1>3. CASE StoreReport
  <2>1. /\ handler # Idle /\ handler.attempt \in Attempt
        /\ handler.report \in Reports
    BY <1>3, HandlerFields DEF StoreReport, TypeOK, Idle
  <2>2. \/ attempt' = attempt
        \/ /\ report[handler.attempt] = None
           /\ \E s \in AttemptStates :
                  attempt' = [attempt EXCEPT ![handler.attempt].state = s]
    <3>1. TerminalStateFor(handler.report)
              \in {"COMPLETED", "FAILED", "CANCELLED", "NONE"}
      BY DEF TerminalStateFor
    <3> QED BY <1>3, <3>1 DEF StoreReport, EndedAttempt, AttemptStates
  <2>3. Exists(handler.attempt)
    BY <2>1 DEF OnlyStagedAttempts
  <2>4. CASE attempt' # attempt
    <3>1. PICK s \in AttemptStates :
              attempt' = [attempt EXCEPT ![handler.attempt].state = s]
      BY <2>2, <2>4
    <3>2. CASE a = handler.attempt
      <4>1. /\ attempt'[a].state = s /\ attempt[a].state # "ABSENT"
            /\ s # "ABSENT" /\ report[a] = None
        <5>1. attempt'[a].state = s
          BY <2>1, <3>1, <3>2, AttemptStateSet
        <5>2. s # "ABSENT"
          BY DEF AttemptStates
        <5> QED BY <2>2, <2>3, <2>4, <3>2, <5>1, <5>2 DEF Exists
      <4> QED BY <2>1, <3>1, <3>2, <4>1, AttemptStateSet DEF AttemptKept, Exists
    <3>3. CASE a # handler.attempt
      BY <2>1, <3>1, <3>3, AttemptStateSet DEF AttemptKept
    <3> QED BY <3>2, <3>3
  <2> QED BY <1>1, <2>4
<1>4. CASE ~ (RecordGrantAccepted \/ RecordProcessStarted \/ StoreReport)
  <2>1. attempt' = attempt
    BY <1>4 DEF NoStaging, Next, JobStep, SchedulerStep, SessionStep,
       OperatorStep, EnvironmentStep, SubmitAccepted, StartPlanning, Enqueue,
       PlanAndEnqueue, FailQueued, TickPlan, TickGivesUp, Failover, GrantRead,
       GrantSign, RenewRead, FreshRenewRead, RenewExisting, RenewSign,
       ReportRead, SessionEnds, MarkRevoked, ReleaseLostNodeByOperator,
       PublishCheckpoint, CheckpointUnusable, CheckpointUsable,
       Tick, SetClockBack, StoreUnchangedButJobs, StoreUnchangedButHandler
  <2> QED BY <1>1, <2>1
<1> QED BY <1>2, <1>3, <1>4

(***************************************************************************)
(* So the latest attempt of a job stays the latest.                        *)
(***************************************************************************)
LEMMA LatestKept ==
    ASSUME IInv, NoStaging, NEW a \in Attempt
    PROVE  /\ Exists(a)' <=> Exists(a)
           /\ IsLatest(a)' <=> IsLatest(a)
<1>1. \A b \in Attempt : /\ attempt'[b].fence = attempt[b].fence
                         /\ Exists(b)' <=> Exists(b)
  BY AttemptsKept DEF AttemptKept, Exists
<1>2. AttemptsOf(JobOf(a)) \subseteq Attempt
  BY DEF AttemptsOf
<1> QED BY <1>1, <1>2 DEF IsLatest

(***************************************************************************)
(* How the state of a job may change: it stays, moves up to the queue,     *)
(* starts, is withdrawn from an attempt that is surrendered with it, fails *)
(* or is completed by its latest attempt.                                  *)
(***************************************************************************)
SameCount(j) == job'[j].requeue_count = job[j].requeue_count

Stays(j) == job'[j].state = job[j].state /\ SameCount(j)

Enters(j) ==
    /\ job[j].state \in {"ABSENT", "SUBMITTED", "PLANNING"}
    /\ job'[j].state \in {"SUBMITTED", "PLANNING", "QUEUED"}
    /\ SameCount(j)

Starts(j) ==
    job[j].state = "STAGING" /\ job'[j].state = "RUNNING" /\ SameCount(j)

Withdrawn(j) ==
    /\ job[j].state \in RunStates
    /\ job'[j].state \in SchedulableStates
    /\ job'[j].requeue_count = job[j].requeue_count + 1
    /\ \A a \in AttemptsOf(j) : IsLatest(a) => Surrendered(a)'

Fails(j) ==
    /\ job[j].state \in RunStates \cup {"QUEUED"}
    /\ job'[j].state = "FAILED"
    /\ SameCount(j)

Completes(j) ==
    /\ job[j].state \in RunStates
    /\ job'[j].state = "COMPLETED"
    /\ SameCount(j)
    /\ \E a \in AttemptsOf(j) :
           /\ IsLatest(a)
           /\ attempt'[a].state = "COMPLETED"
           /\ report'[a] \in Reports /\ IsCompletion(report'[a])

JobMove(j) ==
    Stays(j) \/ Enters(j) \/ Starts(j) \/ Withdrawn(j) \/ Fails(j) \/ Completes(j)

(***************************************************************************)
(* Two latest attempts of a job are the same: epochs are distinct.         *)
(***************************************************************************)
LEMMA LatestUnique ==
    ASSUME TypeOK, FencesIncrease, NEW a \in Attempt, NEW b \in Attempt,
           JobOf(a) = JobOf(b), IsLatest(a), IsLatest(b)
    PROVE  a = b
<1>1. /\ attempt[a].fence \in Nat /\ attempt[b].fence \in Nat
      /\ Exists(a) /\ Exists(b)
      /\ attempt[a].fence <= attempt[b].fence
      /\ attempt[b].fence <= attempt[a].fence
  BY DEF IsLatest, AttemptsOf, TypeOK, AttemptRow
<1> QED BY <1>1 DEF FencesIncrease

LEMMA JobMoves ==
    ASSUME IInv, NoStaging, NEW j \in Job
    PROVE  JobMove(j)
<1> USE DEF IInv
<1>0. CASE job'[j] = job[j]
  BY <1>0 DEF JobMove, Stays, SameCount
<1>1. CASE JobStep
  <2> PICK i \in Job : \/ SubmitAccepted(i)
                       \/ StartPlanning(i)
                       \/ Enqueue(i)
                       \/ PlanAndEnqueue(i)
                       \/ \E failure \in QueueFailures : FailQueued(i, failure)
    BY <1>1 DEF JobStep
  <2>1. CASE i # j
    <3>1. job'[j] = job[j]
      BY <2>1 DEF SubmitAccepted, StartPlanning, Enqueue, PlanAndEnqueue,
         FailQueued, SetJobState, TypeOK
    <3> QED BY <1>0, <3>1
  <2>2. CASE i = j
    <3>1. job[j] \in JobRow
      BY DEF TypeOK
    <3>2. CASE SubmitAccepted(i) \/ StartPlanning(i)
      BY <2>2, <3>1, <3>2 DEF SubmitAccepted, StartPlanning, SetJobState, TypeOK,
         JobRow, JobMove, Enters, SameCount
    <3>3. CASE Enqueue(i) \/ PlanAndEnqueue(i)
      <4>1. job'[j] = [job[j] EXCEPT !.state = "QUEUED", !.queued_at = now]
        BY <2>2, <3>3 DEF Enqueue, PlanAndEnqueue, TypeOK
      <4>2. job[j].state \in {"SUBMITTED", "PLANNING"}
        BY <2>2, <3>3 DEF Enqueue, PlanAndEnqueue
      <4> QED BY <3>1, <4>1, <4>2 DEF JobRow, JobMove, Enters, SameCount
    <3>4. CASE \E failure \in QueueFailures : FailQueued(i, failure)
      <4> PICK failure \in QueueFailures : FailQueued(i, failure)
        BY <3>4
      <4>1. job'[j] = [job[j] EXCEPT !.state = "FAILED",
                                     !.queue_failure = failure]
        BY <2>2 DEF FailQueued, TypeOK
      <4>2. job[j].state = "QUEUED"
        BY <2>2 DEF FailQueued
      <4>3. /\ job'[j].state = "FAILED"
            /\ job'[j].requeue_count = job[j].requeue_count
        BY <3>1, <4>1 DEF JobRow
      <4> QED BY <4>2, <4>3 DEF JobMove, Fails, SameCount
    <3> QED BY <3>2, <3>3, <3>4
  <2> QED BY <2>1, <2>2
<1>2. CASE \E a \in Attempt : Failover(a)
  <2> PICK a \in Attempt : Failover(a)
    BY <1>2
  <2>1. PICK r \in ResumePoints(JobOf(a)) :
            job' = [job EXCEPT ![JobOf(a)] = RequeuedJob(JobOf(a), r)]
    BY DEF Failover
  <2>2. JobOf(a) \in Job /\ job[JobOf(a)].state \in RunStates /\ IsLatest(a)
    BY AttemptPair DEF Failover, Lost, IsCurrent
  <2>3. CASE j # JobOf(a)
    BY <1>0, <2>1, <2>3 DEF TypeOK
  <2>4. CASE j = JobOf(a)
    <3>1. job'[j] = RequeuedJob(j, r) /\ job[j] \in JobRow
      BY <2>1, <2>4 DEF TypeOK
    <3>2. CASE job[j].state = "RUNNING" /\ r = None
      BY <3>1, <3>2 DEF RequeuedJob, JobRow, JobMove, Fails, SameCount, RunStates
    <3>3. CASE ~ (job[j].state = "RUNNING" /\ r = None)
      <4>1. /\ job'[j].state = "QUEUED"
            /\ job'[j].requeue_count = job[j].requeue_count + 1
        BY <3>1, <3>3 DEF RequeuedJob, JobRow
      <4>2. \A b \in AttemptsOf(j) : IsLatest(b) => Surrendered(b)'
        <5> TAKE b \in AttemptsOf(j)
        <5> HAVE IsLatest(b)
        <5>1. a = b
          BY <2>2, <2>4, LatestUnique DEF AttemptsOf
        <5>2. RevokeWithin(b) /\ now' = now
              /\ now > lease[b].expires + Larger(PolicyGrace, lease[b].grace)
          BY <5>1 DEF Failover, Lost
        <5>3. /\ lease'[b].revoked
              /\ lease'[b].expires = lease[b].expires
              /\ lease'[b].grace = lease[b].grace
          BY <5>1, <5>2 DEF RevokeWithin, TypeOK, LeaseRow
        <5>4. /\ now \in Nat /\ lease[b].expires \in Nat
              /\ lease[b].grace \in Nat /\ PolicyGrace \in Nat
          BY <5>1, TimesAssumption DEF TypeOK, LeaseRow
        <5>5. LeaseOver(b)'
          BY <5>2, <5>3, <5>4 DEF LeaseOver, Larger
        <5> QED BY <5>3, <5>5 DEF Surrendered
      <4> QED BY <2>2, <2>4, <4>1, <4>2
              DEF JobMove, Withdrawn, SchedulableStates
    <3> QED BY <3>2, <3>3
  <2> QED BY <2>3, <2>4
<1>3. CASE RecordGrantAccepted \/ RecordProcessStarted
  <2>1. \/ job' = job
        \/ StagingComplete(JobOf(handler.attempt))
    BY <1>3 DEF RecordGrantAccepted, RecordProcessStarted
  <2>2. \/ job'[j] = job[j]
        \/ /\ job[j].state = "STAGING"
           /\ job'[j] = [job[j] EXCEPT !.state = "RUNNING", !.running = TRUE]
    BY <2>1 DEF StagingComplete, TypeOK
  <2> QED BY <1>0, <2>2 DEF TypeOK, JobRow, JobMove, Starts, SameCount
<1>4. CASE StoreReport
  <2> DEFINE a == handler.attempt
             r == handler.report
  <2>1. a \in Attempt /\ JobOf(a) \in Job /\ r \in Reports
    BY <1>4, HandlerFields, AttemptPair DEF StoreReport, TypeOK, Idle
  <2>2. CASE Preempts(a, r)
    <3>1. PICK point \in ResumePoints(JobOf(a)) :
              job' = [job EXCEPT ![JobOf(a)] = PausedJob(JobOf(a), point)]
      BY <1>4, <2>2 DEF StoreReport
    <3>2. CASE j # JobOf(a)
      BY <1>0, <3>1, <3>2 DEF TypeOK
    <3>3. CASE j = JobOf(a)
      <4>1. job'[j] = PausedJob(j, point) /\ job[j] \in JobRow
        BY <3>1, <3>3 DEF TypeOK
      <4>2. /\ job'[j].state = "PAUSED"
            /\ job'[j].requeue_count = job[j].requeue_count + 1
        BY <4>1 DEF PausedJob, JobRow
      <4>3. \A b \in AttemptsOf(j) : IsLatest(b) => Surrendered(b)'
        <5> TAKE b \in AttemptsOf(j)
        <5> HAVE IsLatest(b)
        <5>1. a = b
          BY <2>1, <2>2, <3>3, LatestUnique DEF AttemptsOf, Preempts
        <5>2. RevokeWithin(a) /\ report' = [report EXCEPT ![a] = r]
          BY <1>4, <2>2 DEF StoreReport
        <5>3. lease'[b].revoked
          BY <2>1, <5>1, <5>2 DEF RevokeWithin, TypeOK, LeaseRow
        <5>4. report'[b] = r /\ r # None /\ r.outcome = "INTERRUPTED"
          BY <2>1, <2>2, <5>1, <5>2, NoneAssumption, SetsAssumption DEF TypeOK, Preempts
        <5> QED BY <5>3, <5>4 DEF Surrendered, NodeStopped
      <4> QED BY <2>2, <3>3, <4>2, <4>3
              DEF JobMove, Withdrawn, SchedulableStates, RunStates, Preempts
    <3> QED BY <3>2, <3>3
  <2>3. CASE /\ ~ Preempts(a, r)
             /\ report[a] = None
             /\ TerminalStateFor(r) # "NONE"
             /\ IsCurrent(a)
             /\ j = JobOf(a)
    <3>1. job' = FollowAttemptTerminal(a, r)
      BY <1>4, <2>3 DEF StoreReport
    <3>2. /\ job'[j].state = (IF TerminalStateFor(r) = "COMPLETED"
                              THEN "COMPLETED" ELSE "FAILED")
          /\ SameCount(j)
      BY <2>3, <3>1 DEF FollowAttemptTerminal, TypeOK, JobRow, SameCount
    <3>3. CASE TerminalStateFor(r) = "COMPLETED"
      <4>1. attempt' = [attempt EXCEPT ![a].state = "COMPLETED"]
        BY <1>4, <2>3, <3>3 DEF StoreReport, EndedAttempt
      <4>2. attempt'[a].state = "COMPLETED"
        BY <2>1, <4>1 DEF TypeOK, AttemptRow
      <4>3. report'[a] = r
        BY <1>4, <2>1 DEF StoreReport, TypeOK
      <4>4. IsCompletion(r)
        BY <3>3 DEF TerminalStateFor
      <4> QED BY <2>1, <2>3, <3>2, <3>3, <4>2, <4>3, <4>4
              DEF JobMove, Completes, IsCurrent, AttemptsOf
    <3>4. CASE TerminalStateFor(r) # "COMPLETED"
      BY <2>3, <3>2, <3>4 DEF JobMove, Fails, IsCurrent
    <3> QED BY <3>3, <3>4
  <2>4. CASE /\ ~ Preempts(a, r)
             /\ ~ /\ report[a] = None
                  /\ TerminalStateFor(r) # "NONE"
                  /\ IsCurrent(a)
                  /\ j = JobOf(a)
    <3>1. job'[j] = job[j]
      BY <1>4, <2>1, <2>4 DEF StoreReport, FollowAttemptTerminal, TypeOK
    <3> QED BY <1>0, <3>1
  <2> QED BY <2>2, <2>3, <2>4
<1>5. CASE ~ \/ JobStep
             \/ \E a \in Attempt : Failover(a)
             \/ RecordGrantAccepted
             \/ RecordProcessStarted
             \/ StoreReport
  <2>1. job' = job
    BY <1>5 DEF NoStaging, Next, SchedulerStep, SessionStep, OperatorStep,
       EnvironmentStep, TickPlan, TickGivesUp, GrantRead, GrantSign, RenewRead,
       FreshRenewRead, RenewExisting, RenewSign, ReportRead, SessionEnds,
       MarkRevoked, ReleaseLostNodeByOperator,
       PublishCheckpoint, CheckpointUnusable, CheckpointUsable,
       Tick, SetClockBack, StoreUnchangedButHandler
  <2> QED BY <1>0, <2>1
<1> QED BY <1>1, <1>2, <1>3, <1>4, <1>5

(***************************************************************************)
(* Leases keep their time of issue; a revoked one keeps everything.        *)
(***************************************************************************)
LeaseKept(a) ==
    /\ lease'[a].issued = lease[a].issued
    /\ lease[a].revoked => /\ lease'[a].revoked
                           /\ lease'[a].expires = lease[a].expires
                           /\ lease'[a].grace = lease[a].grace
    /\ ~ Exists(a) => lease'[a] = lease[a]

LEMMA LeasesKept ==
    ASSUME IInv, NoStaging, NEW a \in Attempt
    PROVE  LeaseKept(a)
<1> USE DEF IInv
<1>0. CASE lease'[a] = lease[a]
  BY <1>0 DEF LeaseKept
<1>1. lease[a] \in LeaseRow
  BY DEF TypeOK
<1>2. ASSUME NEW b \in Attempt, RevokeWithin(b), Exists(b)
      PROVE  LeaseKept(a)
  <2>1. CASE a # b
    BY <1>0, <1>2, <2>1 DEF RevokeWithin, TypeOK
  <2>2. CASE a = b
    BY <1>1, <1>2, <2>2 DEF RevokeWithin, TypeOK, LeaseRow, LeaseKept
  <2> QED BY <2>1, <2>2
<1>3. ASSUME handler # Idle, ~ RefusesToSign(handler.attempt),
             RaiseReassignmentGrace(handler.attempt)
      PROVE  LeaseKept(a)
  <2>1. handler.attempt \in Attempt /\ Exists(handler.attempt)
    BY <1>3, HandlerFields DEF TypeOK, OnlyStagedAttempts
  <2>2. CASE a # handler.attempt
    BY <1>0, <1>3, <2>1, <2>2 DEF RaiseReassignmentGrace, TypeOK
  <2>3. CASE a = handler.attempt
    <3>1. /\ lease'[a].grace = Larger(lease[a].grace, SignedGrace)
          /\ lease'[a].issued = lease[a].issued
          /\ lease'[a].expires = lease[a].expires
          /\ lease'[a].revoked = lease[a].revoked
      BY <1>1, <1>3, <2>3 DEF RaiseReassignmentGrace, TypeOK, LeaseRow
    <3>2. lease[a].revoked => Larger(lease[a].grace, SignedGrace) = lease[a].grace
      BY <1>1, <1>3, <2>3, TimesAssumption DEF RefusesToSign, Larger, LeaseRow
    <3> QED BY <2>1, <2>3, <3>1, <3>2 DEF LeaseKept
  <2> QED BY <2>2, <2>3
<1>4. CASE GrantSign \/ RenewSign
  BY <1>3, <1>4 DEF GrantSign, RenewSign, Idle
<1>5. CASE RenewExisting
  <2>1. /\ handler # Idle /\ handler.attempt \in Attempt
        /\ ~ lease[handler.attempt].revoked
    BY <1>5, HandlerFields DEF RenewExisting, RenewalAllowed, TypeOK, Idle
  <2>2. Exists(handler.attempt)
    BY <2>1 DEF OnlyStagedAttempts
  <2>3. lease' = [lease EXCEPT ![handler.attempt].expires =
                                   handler.at + handler.extension]
    BY <1>5 DEF RenewExisting
  <2>4. CASE a # handler.attempt
    BY <1>0, <2>3, <2>4 DEF TypeOK
  <2>5. CASE a = handler.attempt
    <3>1. /\ lease'[a].issued = lease[a].issued
          /\ lease'[a].revoked = lease[a].revoked
      BY <1>1, <2>3, <2>5 DEF TypeOK, LeaseRow
    <3> QED BY <2>1, <2>2, <2>5, <3>1 DEF LeaseKept
  <2> QED BY <2>4, <2>5
<1>6. CASE StoreReport
  <2>1. handler.attempt \in Attempt /\ Exists(handler.attempt)
    BY <1>6, HandlerFields DEF StoreReport, TypeOK, OnlyStagedAttempts, Idle
  <2>2. lease' = lease \/ RevokeWithin(handler.attempt)
    BY <1>6 DEF StoreReport
  <2> QED BY <1>0, <1>2, <2>1, <2>2
<1>7. CASE \E b \in Attempt : MarkRevoked(b)
  <2> PICK b \in Attempt : MarkRevoked(b)
    BY <1>7
  <2>1. RevokeWithin(b) /\ Exists(b)
    BY DEF MarkRevoked, RevokeWithin, OnlyStagedAttempts
  <2> QED BY <1>2, <2>1
<1>8. CASE \E b \in Attempt : Failover(b)
  BY <1>2, <1>8 DEF Failover, Lost, IsCurrent, IsLatest
<1>9. CASE ~ \/ GrantSign
             \/ RenewSign
             \/ RenewExisting
             \/ StoreReport
             \/ \E b \in Attempt : MarkRevoked(b)
             \/ \E b \in Attempt : Failover(b)
  <2>1. lease' = lease
    BY <1>9 DEF NoStaging, Next, JobStep, SchedulerStep, SessionStep,
       OperatorStep, EnvironmentStep, SubmitAccepted, StartPlanning, Enqueue,
       PlanAndEnqueue, FailQueued, TickPlan, TickGivesUp, GrantRead, RenewRead,
       FreshRenewRead, RecordGrantAccepted, RecordProcessStarted, ReportRead,
       SessionEnds, ReleaseLostNodeByOperator,
       PublishCheckpoint, CheckpointUnusable, CheckpointUsable,
       Tick, SetClockBack, StoreUnchangedButJobs, StoreUnchangedButHandler
  <2> QED BY <1>0, <2>1
<1> QED BY <1>4, <1>5, <1>6, <1>7, <1>8, <1>9

(***************************************************************************)
(* A stored report is not replaced, and nothing is recorded of an attempt  *)
(* that does not exist.                                                    *)
(***************************************************************************)
RecordsKept(a) ==
    /\ report[a] # None => report'[a] = report[a]
    /\ ~ Exists(a) => /\ report'[a] = report[a]
                      /\ a \in granted' => a \in granted
                      /\ a \in released' => a \in released

LEMMA AllRecordsKept ==
    ASSUME IInv, NoStaging, NEW a \in Attempt
    PROVE  RecordsKept(a)
<1> USE DEF IInv
<1>1. CASE StoreReport
  <2>1. /\ handler.attempt \in Attempt /\ Exists(handler.attempt)
        /\ report[handler.attempt] \in {None, handler.report}
    BY <1>1, HandlerFields
       DEF StoreReport, TypeOK, OnlyStagedAttempts, ReportsRepeated, Idle
  <2>2. /\ report' = [report EXCEPT ![handler.attempt] = handler.report]
        /\ released' \subseteq released \cup {handler.attempt}
        /\ granted' = granted
    BY <1>1 DEF StoreReport, ReleaseReservation
  <2> QED BY <2>1, <2>2 DEF RecordsKept, TypeOK
<1>2. CASE GrantSign
  <2>1. /\ Exists(handler.attempt)
        /\ granted' = granted \cup {handler.attempt}
        /\ report' = report /\ released' = released
    BY <1>2 DEF GrantSign, OnlyStagedAttempts, Idle
  <2> QED BY <2>1 DEF RecordsKept
<1>3. CASE ~ (StoreReport \/ GrantSign)
  <2>1. report' = report /\ released' = released /\ granted' = granted
    BY <1>3 DEF NoStaging, Next, JobStep, SchedulerStep, SessionStep,
       OperatorStep, EnvironmentStep, SubmitAccepted, StartPlanning, Enqueue,
       PlanAndEnqueue, FailQueued, TickPlan, TickGivesUp, Failover, GrantRead,
       RenewRead, FreshRenewRead, RenewExisting, RenewSign, RecordGrantAccepted,
       RecordProcessStarted, ReportRead, SessionEnds, MarkRevoked,
       ReleaseLostNodeByOperator,
       PublishCheckpoint, CheckpointUnusable, CheckpointUsable,
       Tick, SetClockBack, StoreUnchangedButJobs, StoreUnchangedButHandler
  <2> QED BY <2>1 DEF RecordsKept
<1> QED BY <1>1, <1>2, <1>3

(***************************************************************************)
(* A node keeps its reservation, or loses it to a report or because the    *)
(* job does not count on the attempt any more; what was released just now  *)
(* holds no node.                                                          *)
(***************************************************************************)
ReservationKept(n) ==
    \/ reservation'[n].attempt = reservation[n].attempt
    \/ /\ reservation[n].attempt \in Attempt
       /\ reservation'[n].attempt = None
       /\ \/ report'[reservation[n].attempt] # None
          \/ ~ IsCurrent(reservation[n].attempt)

LEMMA ReservationsKept ==
    ASSUME IInv, NoStaging, NEW n \in Node
    PROVE  /\ ReservationKept(n)
           /\ reservation'[n].attempt # None =>
                  /\ reservation'[n].attempt = reservation[n].attempt
                  /\ reservation[n].attempt \notin released'
<1> USE DEF IInv
<1>1. reservation[n].attempt \in Attempt \cup {None}
  BY DEF TypeOK, ReservationRow
<1>2. reservation[n].attempt # None => reservation[n].attempt \notin released
  BY DEF ReservationsSound
<1>3. CASE StoreReport
  <2> DEFINE a == handler.attempt
  <2>1. a \in Attempt /\ handler.report \in Reports
    BY <1>3, HandlerFields DEF StoreReport, TypeOK, Idle
  <2>2. report'[a] # None
    BY <1>3, <2>1, NoneAssumption, SetsAssumption DEF StoreReport, TypeOK
  <2>3. CASE reservation' = reservation /\ released' = released
    BY <1>2, <2>3 DEF ReservationKept
  <2>4. CASE ~ (reservation' = reservation /\ released' = released)
    <3>1. /\ reservation' = [reservation EXCEPT ![attempt[a].node] =
                                                    NoReservation]
          /\ released' = released \cup {a}
          /\ reservation[attempt[a].node].attempt = a
      BY <1>3, <2>4 DEF StoreReport, ReleaseReservation, ReleaseIsPossible
    <3>2. CASE n = attempt[a].node
      <4>1. reservation[n].attempt = a /\ reservation'[n] = NoReservation
        BY <3>1, <3>2 DEF TypeOK
      <4> QED BY <2>1, <2>2, <4>1 DEF ReservationKept, NoReservation
    <3>3. CASE n # attempt[a].node
      <4>1. reservation'[n] = reservation[n]
        BY <3>1, <3>3 DEF TypeOK
      <4>2. reservation[n].attempt # a
        BY <2>1, <3>3, AttemptPair DEF ReservationsSound
      <4> QED BY <1>2, <3>1, <4>1, <4>2 DEF ReservationKept
    <3> QED BY <3>2, <3>3
  <2> QED BY <2>3, <2>4
<1>4. CASE \E a \in Attempt : Failover(a)
  <2> PICK a \in Attempt : Failover(a)
    BY <1>4
  <2>1. released' = released /\ MarkReservationExpired(attempt[a].node)
    BY DEF Failover
  <2>2. reservation'[n].attempt = reservation[n].attempt
    BY <2>1 DEF MarkReservationExpired, TypeOK, ReservationRow
  <2> QED BY <1>2, <2>1, <2>2 DEF ReservationKept
<1>5. CASE OperatorStep
  <2> PICK m \in Node : ReleaseLostNodeByOperator(m)
    BY <1>5 DEF OperatorStep
  <2>1. /\ released' = released
        /\ reservation' = [reservation EXCEPT ![m] = NoReservation]
        /\ reservation[m].attempt # None
        /\ NoLongerNeeded(reservation[m].attempt)
    BY DEF ReleaseLostNodeByOperator
  <2>2. CASE n = m
    <3>1. ~ IsCurrent(reservation[n].attempt)
      BY <2>1, <2>2 DEF NoLongerNeeded, IsCurrent, RunStates
    <3>2. reservation'[n] = NoReservation
      BY <2>1, <2>2 DEF TypeOK
    <3> QED BY <1>1, <2>1, <2>2, <3>1, <3>2 DEF ReservationKept, NoReservation
  <2>3. CASE n # m
    <3>1. reservation'[n] = reservation[n]
      BY <2>1, <2>3 DEF TypeOK
    <3> QED BY <1>2, <2>1, <3>1 DEF ReservationKept
  <2> QED BY <2>2, <2>3
<1>6. CASE ~ \/ StoreReport
             \/ \E a \in Attempt : Failover(a)
             \/ OperatorStep
  <2>1. reservation' = reservation /\ released' = released
    BY <1>6 DEF NoStaging, Next, JobStep, SchedulerStep, SessionStep,
       EnvironmentStep, SubmitAccepted, StartPlanning, Enqueue, PlanAndEnqueue,
       FailQueued, TickPlan, TickGivesUp, GrantRead, GrantSign, RenewRead,
       FreshRenewRead, RenewExisting, RenewSign, RecordGrantAccepted,
       RecordProcessStarted, ReportRead, SessionEnds, MarkRevoked,
       PublishCheckpoint, CheckpointUnusable, CheckpointUsable,
       Tick, SetClockBack, StoreUnchangedButJobs, StoreUnchangedButHandler
  <2> QED BY <1>2, <2>1 DEF ReservationKept
<1> QED BY <1>3, <1>4, <1>5, <1>6

(***************************************************************************)
(* A plan is kept, dropped or made from the job's present generation.      *)
(***************************************************************************)
PlanKept(s) ==
    \/ plan'[s] \in {None, plan[s]}
    \/ /\ job' = job
       /\ plan'[s].attempt \in Attempt
       /\ GenerationOf(plan'[s].attempt)
              = job[JobOf(plan'[s].attempt)].requeue_count

LEMMA PlansKept ==
    ASSUME IInv, NoStaging, NEW s \in Scheduler
    PROVE  PlanKept(s)
<1> USE DEF IInv
<1>1. CASE \E i \in Scheduler, j \in Job, n \in Node : TickPlan(i, j, n)
  <2> PICK i \in Scheduler, j \in Job, n \in Node : TickPlan(i, j, n)
    BY <1>1
  <2>1. CASE s # i
    BY <2>1 DEF TickPlan, PlanKept, TypeOK
  <2>2. CASE s = i
    <3>1. plan'[s].attempt = <<j, job[j].requeue_count>> /\ job' = job
      BY <2>2 DEF TickPlan, TypeOK
    <3>2. job[j].requeue_count \in 0 .. MaxRequeue
      BY DEF TypeOK, JobRow
    <3> QED BY <3>1, <3>2, PairIsAttempt DEF PlanKept
  <2> QED BY <2>1, <2>2
<1>2. CASE \E i \in Scheduler : TickGivesUp(i)
  BY <1>2 DEF TickGivesUp, PlanKept, TypeOK
<1>3. CASE ~ \/ \E i \in Scheduler, j \in Job, n \in Node : TickPlan(i, j, n)
             \/ \E i \in Scheduler : TickGivesUp(i)
  <2>1. plan' = plan
    BY <1>3 DEF NoStaging, Next, JobStep, SchedulerStep, SessionStep,
       OperatorStep, EnvironmentStep, SubmitAccepted, StartPlanning, Enqueue,
       PlanAndEnqueue, FailQueued, Failover, GrantRead, GrantSign, RenewRead,
       FreshRenewRead, RenewExisting, RenewSign, RecordGrantAccepted,
       RecordProcessStarted, ReportRead, StoreReport, SessionEnds, MarkRevoked,
       ReleaseLostNodeByOperator,
       PublishCheckpoint, CheckpointUnusable, CheckpointUsable,
       Tick, SetClockBack, StoreUnchangedButJobs, StoreUnchangedButHandler
  <2> QED BY <2>1 DEF PlanKept
<1> QED BY <1>1, <1>2, <1>3

(***************************************************************************)
(* A session works on one attempt from its first read to its end, and no   *)
(* one else stores reports meanwhile.                                      *)
(***************************************************************************)
LEMMA SessionKept ==
    ASSUME IInv, NoStaging
    PROVE  /\ handler' # Idle => handler'.attempt \in Attempt
                                 /\ Exists(handler'.attempt)
           /\ ReportsRepeated'
           /\ RenewalsCapped'
<1> USE DEF IInv
<1>0. CASE handler' = Idle
  BY <1>0 DEF ReportsRepeated, RenewalsCapped, Idle
<1>1. CASE handler' = handler /\ report' = report
  <2>1. handler # Idle => handler.attempt \in Attempt /\ Exists(handler.attempt)
    BY HandlerFields DEF TypeOK, OnlyStagedAttempts
  <2>2. ReportsRepeated'
    BY <1>1 DEF ReportsRepeated
  <2>3. handler # Idle => lease'[handler.attempt].issued
                              = lease[handler.attempt].issued
    BY <2>1, LeasesKept DEF LeaseKept
  <2>4. RenewalsCapped'
    BY <1>1, <2>3 DEF RenewalsCapped, Idle
  <2> QED BY <1>1, <2>1, <2>2, <2>4
<1>2. CASE \E n \in Node : GrantRead(n)
  BY <1>2 DEF GrantRead, TypeOK, ReservationRow, IsLatest, ReportsRepeated,
     RenewalsCapped
<1>3. CASE \E a \in Attempt, ahead \in Announcements \cup {0} :
              RenewRead(a, ahead)
  <2> PICK a \in Attempt, ahead \in Announcements \cup {0} :
          RenewRead(a, ahead)
    BY <1>3
  <2> DEFINE until == IF ahead = 0 THEN 0 ELSE now + ahead
             maxEnd == lease[a].issued + MaxTotalDuration
  <2>1. until \in Nat /\ now \in Nat /\ maxEnd \in Nat
    BY SetsAssumption, TimesAssumption DEF TypeOK, LeaseRow
  <2>2. PICK ext \in Nat :
            /\ ext = AnnouncedRenewExtension(until, now, maxEnd)
            /\ ext <= AtLeastZero(maxEnd - now)
    BY <2>1, ExtensionCapped
  <2>3. /\ handler'.phase = "renew" /\ handler'.session = "RENEW"
        /\ handler'.attempt = a /\ handler'.at = now
        /\ handler'.extension = ext
        /\ lease' = lease
    BY <2>2 DEF RenewRead, StoreUnchangedButHandler
  <2>4. RenewalsCapped'
    <3>1. lease[a].issued \in Nat /\ MaxTotalDuration \in Nat
      BY TimesAssumption DEF TypeOK, LeaseRow
    <3>2. lease'[handler'.attempt].issued + MaxTotalDuration - handler'.at
              = maxEnd - now
      <4>1. lease'[handler'.attempt].issued = lease[a].issued /\ handler'.at = now
        BY <2>3
      <4> QED BY <2>1, <3>1, <4>1
    <3>3. ext <= AtLeastZero(lease'[handler'.attempt].issued
                                 + MaxTotalDuration - handler'.at)
      BY <2>2, <3>2, Zenon
    <3>4. handler'.extension
              <= AtLeastZero(lease'[handler'.attempt].issued
                                 + MaxTotalDuration - handler'.at)
      BY <2>3, <3>3, Zenon
    <3> QED BY <2>3, <3>4, Zenon DEF RenewalsCapped
  <2>5. Exists(a)
    BY DEF RenewRead, MayRun, OnlyStagedAttempts
  <2> QED BY <2>3, <2>4, <2>5 DEF ReportsRepeated
<1>4. CASE \E a \in Attempt : FreshRenewRead(a)
  BY <1>4 DEF FreshRenewRead, MayRun, OnlyStagedAttempts, ReportsRepeated,
     RenewalsCapped
<1>5. CASE \E a \in Attempt, r \in Reports : ReportRead(a, r)
  BY <1>5 DEF ReportRead, StoreUnchangedButHandler, OnlyStagedAttempts,
     ReportsRepeated, RenewalsCapped
<1>6. CASE GrantSign \/ RenewExisting \/ RenewSign
  <2>1. handler # Idle /\ handler.attempt \in Attempt /\ Exists(handler.attempt)
    BY <1>6, HandlerFields DEF GrantSign, RenewExisting, RenewSign, TypeOK,
       OnlyStagedAttempts, Idle
  <2>2. \/ handler' = Idle
        \/ /\ handler'.attempt = handler.attempt
           /\ handler'.phase \in {"ack", "grace", "started"}
    BY <1>6 DEF GrantSign, RenewExisting, RenewSign
  <2> QED BY <1>0, <2>1, <2>2 DEF ReportsRepeated, RenewalsCapped
<1>7. CASE ~ \/ \E n \in Node : GrantRead(n)
             \/ \E a \in Attempt, ahead \in Announcements \cup {0} :
                    RenewRead(a, ahead)
             \/ \E a \in Attempt : FreshRenewRead(a)
             \/ \E a \in Attempt, r \in Reports : ReportRead(a, r)
             \/ GrantSign \/ RenewExisting \/ RenewSign
  <2>1. handler' = Idle \/ (handler' = handler /\ report' = report)
    BY <1>7 DEF NoStaging, Next, JobStep, SchedulerStep, SessionStep,
       OperatorStep, EnvironmentStep, SubmitAccepted, StartPlanning, Enqueue,
       PlanAndEnqueue, FailQueued, TickPlan, TickGivesUp, Failover,
       RecordGrantAccepted, RecordProcessStarted, StoreReport, SessionEnds,
       MarkRevoked, ReleaseLostNodeByOperator,
       PublishCheckpoint, CheckpointUnusable, CheckpointUsable,
       Tick, SetClockBack, StoreUnchangedButJobs, StoreUnchangedButHandler
  <2> QED BY <1>0, <1>1, <2>1
<1> QED BY <1>2, <1>3, <1>4, <1>5, <1>6, <1>7

LEMMA EpochKept ==
    ASSUME NoStaging
    PROVE  epoch' = epoch
  BY DEF NoStaging, Next, JobStep, SchedulerStep, SessionStep, OperatorStep,
     EnvironmentStep, SubmitAccepted, StartPlanning, Enqueue, PlanAndEnqueue,
     FailQueued, TickPlan, TickGivesUp, Failover, GrantRead, GrantSign, RenewRead,
     FreshRenewRead, RenewExisting, RenewSign, RecordGrantAccepted,
     RecordProcessStarted, ReportRead, StoreReport, SessionEnds, MarkRevoked,
     ReleaseLostNodeByOperator,
     PublishCheckpoint, CheckpointUnusable, CheckpointUsable,
     Tick, SetClockBack, StoreUnchangedButJobs, StoreUnchangedButHandler

(***************************************************************************)
(* A renewal ends at most at the end of the total duration: the read cut   *)
(* the extension, the transaction checks that the end has not passed.      *)
(***************************************************************************)
LEMMA DurationKept ==
    ASSUME IInv, NoStaging
    PROVE  LeaseWithinDuration'
<1> USE DEF IInv
<1> SUFFICES ASSUME PoolMode, NEW a \in Attempt
             PROVE  lease'[a].expires <= lease'[a].issued + MaxTotalDuration
  BY DEF LeaseWithinDuration
<1>0. /\ lease[a] \in LeaseRow
      /\ lease[a].expires <= lease[a].issued + MaxTotalDuration
      /\ lease'[a].issued = lease[a].issued
  BY LeasesKept DEF LeaseWithinDuration, TypeOK, LeaseKept
<1>1. CASE lease'[a].expires = lease[a].expires
  BY <1>0, <1>1
<1>2. CASE RenewExisting /\ a = handler.attempt
  <2>1. /\ handler.phase = "renew" /\ handler.at \in Nat
        /\ handler.extension \in Nat
    BY <1>2, HandlerFields DEF RenewExisting, TypeOK
  <2>2. /\ handler.extension <= AtLeastZero(lease[a].issued
                                               + MaxTotalDuration - handler.at)
        /\ ~ MaxDurationExceeded(a, handler.at)
    BY <1>2, <2>1 DEF RenewalsCapped, RenewExisting, RenewalAllowed
  <2>3. lease'[a].expires = handler.at + handler.extension
    BY <1>0, <1>2 DEF RenewExisting, TypeOK, LeaseRow
  <2>4. /\ lease[a].issued \in Nat /\ MaxTotalDuration \in Nat
        /\ handler.at < lease[a].issued + MaxTotalDuration
    BY <1>0, <2>1, <2>2, TimesAssumption DEF MaxDurationExceeded, LeaseRow
  <2>5. handler.extension <= lease[a].issued + MaxTotalDuration - handler.at
    BY <2>1, <2>2, <2>4 DEF AtLeastZero, Larger
  <2> QED BY <1>0, <2>1, <2>3, <2>4, <2>5
<1>3. CASE ~ (RenewExisting /\ a = handler.attempt)
  <2>1. \/ lease' = lease
        \/ \E b \in Attempt : RevokeWithin(b)
        \/ RaiseReassignmentGrace(handler.attempt)
        \/ RenewExisting
    <3>1. CASE StoreReport
      BY <3>1, HandlerFields DEF StoreReport, TypeOK, Idle
    <3>2. CASE ~ StoreReport
      BY <3>2 DEF NoStaging, Next, JobStep, SchedulerStep, SessionStep,
         OperatorStep, EnvironmentStep, SubmitAccepted, StartPlanning, Enqueue,
         PlanAndEnqueue, FailQueued, TickPlan, TickGivesUp, Failover, GrantRead,
         GrantSign, RenewRead, FreshRenewRead, RenewSign, RecordGrantAccepted,
         RecordProcessStarted, ReportRead, SessionEnds, MarkRevoked,
         RevokeWithin, ReleaseLostNodeByOperator,
         PublishCheckpoint, CheckpointUnusable, CheckpointUsable,
         Tick, SetClockBack, StoreUnchangedButJobs, StoreUnchangedButHandler
    <3> QED BY <3>1, <3>2
  <2>2. lease'[a].expires = lease[a].expires
    <3>1. CASE \E b \in Attempt : RevokeWithin(b)
      BY <1>0, <3>1 DEF RevokeWithin, TypeOK, LeaseRow
    <3>2. CASE RaiseReassignmentGrace(handler.attempt)
      BY <1>0, <3>2 DEF RaiseReassignmentGrace, TypeOK, LeaseRow
    <3>3. CASE RenewExisting
      BY <1>3, <3>3 DEF RenewExisting, TypeOK
    <3> QED BY <2>1, <3>1, <3>2, <3>3
  <2> QED BY <1>1, <2>2
<1> QED BY <1>2, <1>3

(***************************************************************************)
(* The invariants after a step other than a staging.                       *)
(***************************************************************************)
LEMMA QuietFences ==
    ASSUME IInv, NoStaging
    PROVE  FencesIncrease'
<1>1. \A a \in Attempt : /\ attempt'[a].fence = attempt[a].fence
                         /\ Exists(a)' <=> Exists(a)
  BY AttemptsKept, LatestKept DEF AttemptKept
<1> QED BY <1>1, EpochKept DEF FencesIncrease, IInv

LEMMA QuietGenerations ==
    ASSUME IInv, NoStaging
    PROVE  GenerationsMatch'
<1> USE DEF IInv
<1> SUFFICES ASSUME NEW a \in Attempt
             PROVE  /\ Exists(a)' => GenerationOf(a)
                                         <= job'[JobOf(a)].requeue_count
                    /\ GenerationOf(a) = job'[JobOf(a)].requeue_count =>
                         /\ job'[JobOf(a)].state \in RunStates => IsLatest(a)'
                         /\ job'[JobOf(a)].state \in SchedulableStates =>
                                ~ Exists(a)'
  BY DEF GenerationsMatch
<1> DEFINE j == JobOf(a)
<1>1. /\ job[j].requeue_count \in Nat
      /\ GenerationOf(a) \in Nat
      /\ j \in Job
  BY AttemptPair, BoundsAssumption DEF TypeOK, JobRow
<1>2. (Exists(a)' <=> Exists(a)) /\ (IsLatest(a)' <=> IsLatest(a))
  BY LatestKept
<1>3. /\ Exists(a) => GenerationOf(a) <= job[j].requeue_count
      /\ GenerationOf(a) = job[j].requeue_count =>
             /\ job[j].state \in RunStates => IsLatest(a)
             /\ job[j].state \in SchedulableStates => ~ Exists(a)
      /\ job[j].state \in {"ABSENT", "SUBMITTED", "PLANNING"} => ~ Exists(a)
  BY DEF GenerationsMatch, UnqueuedUnattempted
<1> HIDE DEF j
<1>4. CASE SameCount(j)
  <2>1. /\ job'[j].state \in RunStates => job[j].state \in RunStates
        /\ job'[j].state \in SchedulableStates =>
               \/ job[j].state \in SchedulableStates
               \/ job[j].state \in {"ABSENT", "SUBMITTED", "PLANNING"}
    <3>1. job'[j].requeue_count # job[j].requeue_count + 1
      BY <1>1, <1>4 DEF SameCount
    <3> QED BY <1>1, <3>1, JobMoves DEF JobMove, Stays, Enters, Starts,
            Withdrawn, Fails, Completes, RunStates, SchedulableStates
  <2> QED BY <1>2, <1>3, <1>4, <2>1 DEF SameCount, j
<1>5. CASE Withdrawn(j)
  <2>1. /\ job'[j].requeue_count = job[j].requeue_count + 1
        /\ job'[j].state \notin RunStates
    BY <1>5 DEF Withdrawn, RunStates, SchedulableStates
  <2>2. Exists(a) => /\ GenerationOf(a) <= job'[j].requeue_count
                     /\ GenerationOf(a) # job'[j].requeue_count
    BY <1>1, <1>3, <2>1
  <2> QED BY <1>2, <2>1, <2>2 DEF j
<1> QED BY <1>1, <1>4, <1>5, JobMoves
        DEF JobMove, Stays, Enters, Starts, Fails, Completes

LEMMA QuietUnattempted ==
    ASSUME IInv, NoStaging
    PROVE  UnqueuedUnattempted'
<1> SUFFICES ASSUME NEW a \in Attempt,
                    job'[JobOf(a)].state \in {"ABSENT", "SUBMITTED", "PLANNING"}
             PROVE  ~ Exists(a)'
  BY DEF UnqueuedUnattempted
<1>1. job[JobOf(a)].state \in {"ABSENT", "SUBMITTED", "PLANNING"}
  BY AttemptPair, JobMoves DEF JobMove, Stays, Enters, Starts, Withdrawn, Fails,
     Completes, SchedulableStates
<1> QED BY <1>1, LatestKept DEF UnqueuedUnattempted, IInv

LEMMA QuietPlans ==
    ASSUME IInv, NoStaging
    PROVE  PlansCurrent'
<1> USE DEF IInv
<1> SUFFICES ASSUME NEW s \in Scheduler, plan'[s] # None
             PROVE  LET b == plan'[s].attempt
                        count == job'[JobOf(b)].requeue_count
                    IN  /\ GenerationOf(b) <= count
                        /\ attempt'[b].state # "ABSENT" \/ GenerationOf(b) = count
  BY DEF PlansCurrent, Exists
<1>1. PICK b \in Attempt : b = plan'[s].attempt
  <2>1. TypeOK'
    BY TypeStep DEF NoStaging
  <2> QED BY <2>1 DEF TypeOK, PlanRow
<1> DEFINE j == JobOf(b)
<1>2. /\ GenerationOf(b) \in Nat /\ job[j].requeue_count \in Nat /\ j \in Job
  BY AttemptPair, BoundsAssumption DEF TypeOK, JobRow
<1>3. attempt'[b].state # "ABSENT" <=> Exists(b)
  BY AttemptsKept DEF AttemptKept, Exists
<1>4. SUFFICES /\ GenerationOf(b) <= job'[j].requeue_count
               /\ Exists(b) \/ GenerationOf(b) = job'[j].requeue_count
  BY <1>1, <1>3
<1>5. \/ /\ GenerationOf(b) <= job[j].requeue_count
         /\ Exists(b) \/ GenerationOf(b) = job[j].requeue_count
      \/ job' = job /\ GenerationOf(b) = job[j].requeue_count
  BY <1>1, PlansKept DEF PlanKept, PlansCurrent
<1>6. CASE SameCount(j)
  BY <1>2, <1>5, <1>6 DEF SameCount
<1>7. CASE Withdrawn(j)
  <2>1. job[j].state \in RunStates
        /\ job'[j].requeue_count = job[j].requeue_count + 1
    BY <1>7 DEF Withdrawn
  <2>2. GenerationOf(b) = job[j].requeue_count => Exists(b)
    BY <2>1 DEF GenerationsMatch, IsLatest
  <2> QED BY <1>2, <1>5, <2>1, <2>2
<1> QED BY <1>2, <1>6, <1>7, JobMoves
        DEF JobMove, Stays, Enters, Starts, Fails, Completes

LEMMA QuietRecords ==
    ASSUME IInv, NoStaging
    PROVE  OnlyStagedAttempts'
<1> USE DEF IInv
<1>1. ASSUME NEW a \in Attempt
      PROVE  /\ ~ Exists(a)' => /\ attempt'[a] = AbsentAttempt
                                /\ lease'[a] = NoLease
                                /\ report'[a] = None
                                /\ a \notin granted' \cup released'
             /\ Exists(a)' => attempt'[a].node \in Node
  <2>1. Exists(a)' <=> Exists(a)
    BY LatestKept
  <2>2. AttemptKept(a) /\ LeaseKept(a) /\ RecordsKept(a)
    BY AttemptsKept, LeasesKept, AllRecordsKept
  <2>3. CASE Exists(a)
    BY <2>1, <2>2, <2>3 DEF AttemptKept, OnlyStagedAttempts
  <2>4. CASE ~ Exists(a)
    BY <2>1, <2>2, <2>4
       DEF AttemptKept, LeaseKept, RecordsKept, OnlyStagedAttempts
  <2> QED BY <2>3, <2>4
<1>2. handler' # Idle => attempt'[handler'.attempt].state # "ABSENT"
  <2> HAVE handler' # Idle
  <2>1. PICK b \in Attempt : b = handler'.attempt /\ Exists(b)
    BY SessionKept
  <2>2. Exists(b)'
    BY <2>1, LatestKept
  <2> QED BY <2>1, <2>2 DEF Exists
<1> QED BY <1>1, <1>2 DEF OnlyStagedAttempts, Exists

(***************************************************************************)
(* No session adds to the lease of a surrendered attempt or takes back     *)
(* what its node reported, and time that has passed stays passed.          *)
(***************************************************************************)
LEMMA ClockKept ==
    ASSUME IInv, Next, ~ ClockGoesBack
    PROVE  now \in Nat /\ now' \in Nat /\ now' >= now
<1>1. now \in Nat
  BY DEF IInv, TypeOK
<1>2. CASE Tick
  BY <1>1, <1>2 DEF Tick
<1>3. CASE ~ Tick
  <2>1. now' = now
    BY <1>3 DEF Next, JobStep, SchedulerStep, SessionStep, OperatorStep,
       EnvironmentStep, SubmitAccepted, StartPlanning, Enqueue, PlanAndEnqueue,
       FailQueued, TickPlan, ReserveAndStage, TickGivesUp, Failover, GrantRead,
       GrantSign, RenewRead, FreshRenewRead, RenewExisting, RenewSign,
       RecordGrantAccepted, RecordProcessStarted, ReportRead, StoreReport,
       SessionEnds, MarkRevoked, ReleaseLostNodeByOperator,
       PublishCheckpoint, CheckpointUnusable, CheckpointUsable,
       SetClockBack, StoreUnchangedButJobs, StoreUnchangedButHandler
  <2> QED BY <1>1, <2>1
<1> QED BY <1>2, <1>3

LEMMA SurrenderKept ==
    ASSUME IInv, NoStaging, NEW a \in Attempt, Surrendered(a)
    PROVE  Surrendered(a)'
<1>1. /\ lease'[a].revoked
      /\ lease'[a].expires = lease[a].expires
      /\ lease'[a].grace = lease[a].grace
  BY LeasesKept DEF LeaseKept, Surrendered
<1>2. CASE ClockGoesBack
  BY <1>1, <1>2 DEF Surrendered
<1>3. CASE NodeStopped(a)
  BY <1>1, <1>3, AllRecordsKept DEF RecordsKept, NodeStopped, Surrendered
<1>4. CASE ~ ClockGoesBack /\ LeaseOver(a)
  <2>1. now \in Nat /\ now' \in Nat /\ now' >= now
    BY <1>4, ClockKept DEF NoStaging
  <2>2. /\ lease[a].expires \in Nat /\ lease[a].grace \in Nat
        /\ PolicyGrace \in Nat
    BY TimesAssumption DEF IInv, TypeOK, LeaseRow
  <2>3. LeaseOver(a)'
    BY <1>1, <1>4, <2>1, <2>2 DEF LeaseOver
  <2> QED BY <1>1, <2>3 DEF Surrendered
<1> QED BY <1>2, <1>3, <1>4 DEF Surrendered

LEMMA QuietRevoked ==
    ASSUME IInv, NoStaging
    PROVE  OldAttemptsRevoked'
<1> USE DEF IInv
<1> SUFFICES ASSUME NEW a \in Attempt, Exists(a)',
                    \/ ~ IsLatest(a)'
                    \/ job'[JobOf(a)].state \in SchedulableStates
             PROVE  Surrendered(a)'
  BY DEF OldAttemptsRevoked, LeftByJob
<1>1. Exists(a) /\ (IsLatest(a)' <=> IsLatest(a))
  BY LatestKept
<1>2. CASE ~ IsLatest(a)
  BY <1>1, <1>2, SurrenderKept DEF OldAttemptsRevoked, LeftByJob
<1>3. CASE IsLatest(a)
  <2>1. JobOf(a) \in Job /\ job'[JobOf(a)].state \in SchedulableStates
    BY <1>1, <1>3, AttemptPair
  <2>2. CASE Withdrawn(JobOf(a))
    BY <1>3, <2>2 DEF Withdrawn, AttemptsOf
  <2>3. CASE ~ Withdrawn(JobOf(a))
    <3>1. job[JobOf(a)].state \notin {"ABSENT", "SUBMITTED", "PLANNING"}
      BY <1>1 DEF UnqueuedUnattempted
    <3>2. job[JobOf(a)].state \in SchedulableStates
      BY <2>1, <2>3, <3>1, JobMoves DEF JobMove, Stays, Enters, Starts, Fails,
         Completes, SchedulableStates
    <3> QED BY <1>1, <3>2, SurrenderKept DEF OldAttemptsRevoked, LeftByJob
  <2> QED BY <2>2, <2>3
<1> QED BY <1>2, <1>3

LEMMA QuietReservations ==
    ASSUME IInv, NoStaging
    PROVE  ReservationsSound'
<1> USE DEF IInv
<1> SUFFICES ASSUME NEW n \in Node, reservation'[n].attempt # None
             PROVE  LET b == reservation'[n].attempt
                    IN  /\ attempt'[b].state # "ABSENT"
                        /\ attempt'[b].node = n
                        /\ b \notin released'
  BY DEF ReservationsSound, Exists
<1>1. PICK b \in Attempt : /\ b = reservation'[n].attempt
                           /\ b = reservation[n].attempt
                           /\ b # None
                           /\ b \notin released'
  BY ReservationsKept, AttemptPair DEF TypeOK, ReservationRow
<1>2. Exists(b) /\ attempt[b].node = n
  BY <1>1 DEF ReservationsSound
<1> QED BY <1>1, <1>2, AttemptsKept DEF AttemptKept, Exists

LEMMA QuietLive ==
    ASSUME IInv, NoStaging
    PROVE  LiveAttemptHoldsNode'
<1> USE DEF IInv
<1> SUFFICES ASSUME NEW a \in Attempt, IsLatest(a)',
                    job'[JobOf(a)].state \in RunStates, report'[a] = None
             PROVE  reservation'[attempt'[a].node].attempt = a
  BY DEF LiveAttemptHoldsNode, IsCurrent
<1>1. IsLatest(a) /\ report[a] = None /\ attempt'[a].node = attempt[a].node
  BY LatestKept, AllRecordsKept, AttemptsKept DEF RecordsKept, AttemptKept
<1>2. job[JobOf(a)].state \in RunStates
  BY AttemptPair, JobMoves DEF JobMove, Stays, Enters, Starts, Withdrawn, Fails,
     Completes, RunStates, SchedulableStates
<1>3. IsCurrent(a)
  BY <1>1, <1>2 DEF IsCurrent
<1>4. reservation[attempt[a].node].attempt = a
  BY <1>1, <1>3 DEF LiveAttemptHoldsNode
<1>5. attempt[a].node \in Node
  BY <1>1 DEF IsLatest, OnlyStagedAttempts
<1>6. ReservationKept(attempt[a].node)
  BY <1>5, ReservationsKept
<1> QED BY <1>1, <1>3, <1>4, <1>6 DEF ReservationKept

LEMMA QuietCompleted ==
    ASSUME IInv, NoStaging
    PROVE  CompletedByLatest'
<1> USE DEF IInv
<1> SUFFICES ASSUME NEW j \in Job, job'[j].state = "COMPLETED"
             PROVE  \E a \in AttemptsOf(j) :
                        /\ IsLatest(a)'
                        /\ attempt'[a].state = "COMPLETED"
                        /\ report'[a] # None /\ IsCompletion(report'[a])
  BY DEF CompletedByLatest
<1>1. CASE Completes(j)
  <2>1. PICK a \in AttemptsOf(j) :
            /\ IsLatest(a)
            /\ attempt'[a].state = "COMPLETED"
            /\ report'[a] \in Reports /\ IsCompletion(report'[a])
    BY <1>1 DEF Completes
  <2>2. a \in Attempt
    BY DEF AttemptsOf
  <2>3. IsLatest(a)'
    BY <2>1, <2>2, LatestKept
  <2> QED BY <2>1, <2>3, NoneAssumption, SetsAssumption
<1>2. CASE Stays(j)
  <2>1. PICK a \in AttemptsOf(j) :
            /\ IsLatest(a)
            /\ attempt[a].state = "COMPLETED"
            /\ report[a] # None /\ IsCompletion(report[a])
    BY <1>2 DEF Stays, CompletedByLatest
  <2>2. a \in Attempt
    BY DEF AttemptsOf
  <2>3. IsLatest(a)'
    BY <2>1, <2>2, LatestKept
  <2>4. attempt'[a].state = "COMPLETED" /\ report'[a] = report[a]
    BY <2>1, <2>2, AttemptsKept, AllRecordsKept DEF AttemptKept, RecordsKept
  <2> QED BY <2>1, <2>3, <2>4
<1> QED BY <1>1, <1>2, JobMoves DEF JobMove, Enters, Starts, Withdrawn, Fails,
        SchedulableStates

LEMMA QuietStep ==
    ASSUME IInv, NoStaging
    PROVE  IInv'
<1>1. TypeOK' /\ RowsReadable'
  BY TypeStep, RowsStep DEF NoStaging
<1> QED BY <1>1, QuietFences, QuietGenerations, QuietUnattempted, QuietPlans,
        QuietRecords, QuietRevoked, QuietReservations, QuietLive,
        QuietCompleted, SessionKept, DurationKept DEF IInv

-----------------------------------------------------------------------------
(* Staging: an attempt that did not exist becomes the latest of its job.   *)

Stages(s, a, n, issued) ==
    /\ plan[s] = [attempt |-> a, node |-> n, issued |-> issued]
    /\ ReserveAndStage(s)

(***************************************************************************)
(* The plan of a staging that succeeds is up to date: a job that moved on  *)
(* would have an attempt of the planned generation.                        *)
(***************************************************************************)
LEMMA StagedPlan ==
    ASSUME IInv, NEW s \in Scheduler, NEW a \in Attempt, NEW n \in Node,
           NEW issued \in Nat, Stages(s, a, n, issued)
    PROVE  /\ ~ Exists(a)
           /\ GenerationOf(a) = job[JobOf(a)].requeue_count
           /\ job[JobOf(a)].state \in SchedulableStates
           /\ reservation[n].attempt = None
<1>1. /\ plan[s].attempt = a /\ plan[s].node = n /\ plan[s] # None
      /\ ~ Exists(a) /\ job[JobOf(a)].state \in SchedulableStates
      /\ reservation[n].attempt = None
  BY DEF Stages, ReserveAndStage
<1> QED BY <1>1 DEF PlansCurrent, IInv

(***************************************************************************)
(* The rows after it.                                                      *)
(***************************************************************************)
LEMMA StagedRows ==
    ASSUME IInv, NEW s \in Scheduler, NEW a \in Attempt, NEW n \in Node,
           NEW issued \in Nat, Stages(s, a, n, issued)
    PROVE  /\ epoch' = epoch + 1
           /\ attempt'[a].state = "CREATED" /\ attempt'[a].node = n
           /\ attempt'[a].fence = epoch + 1
           /\ lease'[a].issued = issued /\ ~ lease'[a].revoked
           /\ lease'[a].expires = issued + LeaseTtl
           /\ \A b \in Attempt \ {a} : /\ attempt'[b] = attempt[b]
                                       /\ lease'[b] = lease[b]
           /\ reservation'[n].attempt = a
           /\ \A m \in Node \ {n} : reservation'[m] = reservation[m]
           /\ plan'[s] = None
           /\ \A i \in Scheduler \ {s} : plan'[i] = plan[i]
<1>0. AllocateEpoch = epoch + 1
  BY NextEpoch DEF IInv
<1>1. /\ epoch' = AllocateEpoch
      /\ attempt' = [attempt EXCEPT ![a] = [state |-> "CREATED", node |-> n,
                                            fence |-> AllocateEpoch]]
      /\ lease' = [lease EXCEPT ![a] =
                      [issued |-> issued, expires |-> issued + LeaseTtl,
                       grace |-> 0, revoked |-> FALSE]]
      /\ reservation' = [reservation EXCEPT ![n] =
                            [attempt |-> a, expired |-> FALSE]]
      /\ plan' = [plan EXCEPT ![s] = None]
  <2>1. plan[s].attempt = a /\ plan[s].node = n /\ plan[s].issued = issued
    BY DEF Stages
  <2>2. ReserveAndStage(s)
    BY DEF Stages
  <2> QED BY <2>1, <2>2 DEF ReserveAndStage
<1> QED BY <1>0, <1>1 DEF IInv, TypeOK

LEMMA StagedJobs ==
    ASSUME IInv, NEW s \in Scheduler, NEW a \in Attempt, NEW n \in Node,
           NEW issued \in Nat, Stages(s, a, n, issued)
    PROVE  /\ job'[JobOf(a)].state \in RunStates
           /\ job'[JobOf(a)].requeue_count = job[JobOf(a)].requeue_count
           /\ \A i \in Job \ {JobOf(a)} : job'[i] = job[i]
<1> DEFINE j == JobOf(a)
<1>1. job' = [job EXCEPT ![j] = StagedJob(job[j], issued)]
  <2>1. plan[s].attempt = a /\ plan[s].issued = issued
    BY DEF Stages
  <2>2. ReserveAndStage(s)
    BY DEF Stages
  <2> QED BY <2>1, <2>2 DEF ReserveAndStage
<1>2. j \in Job /\ job[j] \in JobRow
  BY AttemptPair DEF IInv, TypeOK
<1>3. job'[j] = StagedJob(job[j], issued)
  BY <1>1, <1>2 DEF IInv, TypeOK
<1>4. job'[j].state \in RunStates /\ job'[j].requeue_count = job[j].requeue_count
  BY <1>2, <1>3 DEF StagedJob, JobRow, RunStates
<1> QED BY <1>1, <1>2, <1>4 DEF IInv, TypeOK

(***************************************************************************)
(* It is the latest of its job from now on; the other jobs keep theirs.    *)
(***************************************************************************)
LEMMA StagedLatest ==
    ASSUME IInv, NEW s \in Scheduler, NEW a \in Attempt, NEW n \in Node,
           NEW issued \in Nat, Stages(s, a, n, issued)
    PROVE  /\ \A b \in Attempt : Exists(b)' <=> b = a \/ Exists(b)
           /\ IsLatest(a)'
           /\ \A b \in Attempt \ {a} :
                  /\ JobOf(b) = JobOf(a) => ~ IsLatest(b)'
                  /\ JobOf(b) # JobOf(a) => (IsLatest(b)' <=> IsLatest(b))
<1> USE DEF IInv
<1>1. /\ attempt'[a].state = "CREATED" /\ attempt'[a].fence = epoch + 1
      /\ \A b \in Attempt \ {a} : attempt'[b] = attempt[b]
  BY StagedRows
<1>2. \A b \in Attempt : Exists(b)' <=> b = a \/ Exists(b)
  BY <1>1 DEF Exists
<1>3. \A b \in Attempt : /\ attempt[b].fence \in Nat /\ epoch \in Nat
                         /\ Exists(b) => attempt[b].fence <= epoch
  BY DEF FencesIncrease, TypeOK, AttemptRow
<1>4. IsLatest(a)'
  <2>1. \A b \in AttemptsOf(JobOf(a)) :
            Exists(b)' => attempt'[b].fence <= attempt'[a].fence
    <3> TAKE b \in AttemptsOf(JobOf(a))
    <3> HAVE Exists(b)'
    <3>1. b \in Attempt
      BY DEF AttemptsOf
    <3>2. CASE b = a
      BY <1>1, <1>3, <3>2
    <3>3. CASE b # a
      BY <1>1, <1>2, <1>3, <3>1, <3>3
    <3> QED BY <3>2, <3>3
  <2> QED BY <1>2, <2>1 DEF IsLatest
<1>5. ASSUME NEW b \in Attempt \ {a}, JobOf(b) = JobOf(a)
      PROVE  ~ IsLatest(b)'
  <2>1. a \in AttemptsOf(JobOf(b)) /\ Exists(a)'
    BY <1>2, <1>5 DEF AttemptsOf
  <2>2. Exists(b)' => ~ (attempt'[a].fence <= attempt'[b].fence)
    BY <1>1, <1>2, <1>3
  <2> QED BY <2>1, <2>2 DEF IsLatest
<1>6. ASSUME NEW b \in Attempt \ {a}, JobOf(b) # JobOf(a)
      PROVE  IsLatest(b)' <=> IsLatest(b)
  <2>1. \A c \in AttemptsOf(JobOf(b)) : c \in Attempt \ {a}
    BY <1>6 DEF AttemptsOf
  <2> QED BY <1>1, <1>2, <2>1 DEF IsLatest
<1> QED BY <1>2, <1>4, <1>5, <1>6

(***************************************************************************)
(* The invariants after a staging.                                         *)
(***************************************************************************)
LEMMA StagedFences ==
    ASSUME IInv, NEW s \in Scheduler, NEW a \in Attempt, NEW n \in Node,
           NEW issued \in Nat, Stages(s, a, n, issued)
    PROVE  FencesIncrease' /\ GenerationsMatch' /\ UnqueuedUnattempted'
<1> USE DEF IInv
<1>1. /\ epoch' = epoch + 1 /\ attempt'[a].fence = epoch + 1
      /\ \A b \in Attempt \ {a} : attempt'[b] = attempt[b]
  BY StagedRows
<1>2. /\ \A b \in Attempt : Exists(b)' <=> b = a \/ Exists(b)
      /\ IsLatest(a)'
      /\ \A b \in Attempt \ {a} :
             JobOf(b) # JobOf(a) => (IsLatest(b)' <=> IsLatest(b))
  BY StagedLatest
<1>3. \A b \in Attempt :
          /\ attempt[b].fence \in Nat /\ epoch \in Nat
          /\ GenerationOf(b) \in Nat
          /\ JobOf(b) \in Job
          /\ Exists(b) => /\ 0 < attempt[b].fence /\ attempt[b].fence <= epoch
                          /\ GenerationOf(b) <= job[JobOf(b)].requeue_count
  BY AttemptPair, BoundsAssumption
     DEF FencesIncrease, GenerationsMatch, TypeOK, AttemptRow
<1>4. /\ ~ Exists(a)
      /\ GenerationOf(a) = job[JobOf(a)].requeue_count
      /\ job[JobOf(a)].requeue_count \in Nat
  BY <1>3, StagedPlan
<1>5. /\ job'[JobOf(a)].state \in RunStates
      /\ job'[JobOf(a)].requeue_count = job[JobOf(a)].requeue_count
      /\ \A i \in Job \ {JobOf(a)} : job'[i] = job[i]
  BY StagedJobs
<1>6. \A b \in Attempt \ {a} : JobOf(a) = JobOf(b) /\ Exists(b) =>
                                   GenerationOf(b) < GenerationOf(a)
  <2> TAKE b \in Attempt \ {a}
  <2> HAVE JobOf(a) = JobOf(b) /\ Exists(b)
  <2>1. GenerationOf(b) <= GenerationOf(a)
    BY <1>3, <1>4
  <2>2. GenerationOf(b) # GenerationOf(a)
    BY SameGeneration
  <2> QED BY <1>3, <2>1, <2>2
<1>7. FencesIncrease'
  <2> SUFFICES ASSUME NEW b \in Attempt, NEW c \in Attempt \ {b},
                      Exists(b)'
               PROVE  /\ 0 < attempt'[b].fence /\ attempt'[b].fence <= epoch'
                      /\ Exists(c)' =>
                           /\ attempt'[b].fence # attempt'[c].fence
                           /\ JobOf(b) = JobOf(c) =>
                                (attempt'[b].fence < attempt'[c].fence
                                    <=> GenerationOf(b) < GenerationOf(c))
    <3>1. ASSUME NEW b \in Attempt, Exists(b)'
          PROVE  0 < attempt'[b].fence /\ attempt'[b].fence <= epoch'
      BY <1>1, <1>2, <1>3, <3>1
    <3> QED BY <3>1 DEF FencesIncrease
  <2>1. 0 < attempt'[b].fence /\ attempt'[b].fence <= epoch'
    BY <1>1, <1>2, <1>3
  <2>2. CASE b = a
    BY <1>1, <1>2, <1>3, <1>6, <2>1, <2>2
  <2>3. CASE c = a
    BY <1>1, <1>2, <1>3, <1>6, <2>1, <2>3
  <2>4. CASE b # a /\ c # a
    BY <1>1, <1>2, <2>1, <2>4 DEF FencesIncrease
  <2> QED BY <2>2, <2>3, <2>4
<1>8. GenerationsMatch'
  <2> SUFFICES ASSUME NEW b \in Attempt
               PROVE  /\ Exists(b)' => GenerationOf(b)
                                           <= job'[JobOf(b)].requeue_count
                      /\ GenerationOf(b) = job'[JobOf(b)].requeue_count =>
                           /\ job'[JobOf(b)].state \in RunStates => IsLatest(b)'
                           /\ job'[JobOf(b)].state \in SchedulableStates =>
                                  ~ Exists(b)'
    BY DEF GenerationsMatch
  <2>1. CASE JobOf(b) = JobOf(a)
    <3>1. job'[JobOf(b)].state \notin SchedulableStates
      BY <1>5, <2>1 DEF RunStates, SchedulableStates
    <3>2. GenerationOf(b) = job'[JobOf(b)].requeue_count => b = a
      BY <1>4, <1>5, <2>1, SameGeneration
    <3>3. Exists(b)' => GenerationOf(b) <= job'[JobOf(b)].requeue_count
      BY <1>2, <1>3, <1>4, <1>5, <2>1
    <3> QED BY <1>2, <3>1, <3>2, <3>3
  <2>2. CASE JobOf(b) # JobOf(a)
    <3>1. b # a /\ job'[JobOf(b)] = job[JobOf(b)]
      BY <1>3, <1>5, <2>2
    <3> QED BY <1>2, <2>2, <3>1 DEF GenerationsMatch
  <2> QED BY <2>1, <2>2
<1>9. UnqueuedUnattempted'
  <2> SUFFICES ASSUME NEW b \in Attempt,
                      job'[JobOf(b)].state
                          \in {"ABSENT", "SUBMITTED", "PLANNING"}
               PROVE  ~ Exists(b)'
    BY DEF UnqueuedUnattempted
  <2>1. JobOf(b) # JobOf(a)
    BY <1>5 DEF RunStates
  <2>2. b # a /\ job'[JobOf(b)] = job[JobOf(b)]
    BY <1>3, <1>5, <2>1
  <2> QED BY <1>2, <2>2 DEF UnqueuedUnattempted
<1> QED BY <1>7, <1>8, <1>9

LEMMA StagedRecords ==
    ASSUME IInv, NEW s \in Scheduler, NEW a \in Attempt, NEW n \in Node,
           NEW issued \in Nat, Stages(s, a, n, issued)
    PROVE  /\ PlansCurrent' /\ OnlyStagedAttempts' /\ ReportsRepeated'
           /\ RenewalsCapped' /\ LeaseWithinDuration'
<1> USE DEF IInv
<1>0. /\ report' = report /\ released' = released /\ granted' = granted
      /\ handler' = handler
  BY DEF Stages, ReserveAndStage
<1>1. /\ attempt'[a].node = n
      /\ lease'[a].issued = issued /\ lease'[a].expires = issued + LeaseTtl
      /\ \A b \in Attempt \ {a} : /\ attempt'[b] = attempt[b]
                                  /\ lease'[b] = lease[b]
      /\ plan'[s] = None
      /\ \A i \in Scheduler \ {s} : plan'[i] = plan[i]
  BY StagedRows
<1>2. \A b \in Attempt : Exists(b)' <=> b = a \/ Exists(b)
  BY StagedLatest
<1>3. \A i \in Job : job'[i].requeue_count = job[i].requeue_count
  BY StagedJobs
<1>4. handler # Idle => /\ handler.attempt \in Attempt \ {a}
                        /\ Exists(handler.attempt)
  BY HandlerFields, StagedPlan DEF TypeOK, OnlyStagedAttempts
<1>5. PlansCurrent'
  <2> SUFFICES ASSUME NEW i \in Scheduler, plan'[i] # None
               PROVE  LET b == plan'[i].attempt
                          count == job'[JobOf(b)].requeue_count
                      IN  /\ GenerationOf(b) <= count
                          /\ \/ attempt'[b].state # "ABSENT"
                             \/ GenerationOf(b) = count
    BY DEF PlansCurrent, Exists
  <2>1. i # s /\ plan'[i] = plan[i]
    BY <1>1
  <2>2. PICK b \in Attempt : b = plan[i].attempt
    BY <2>1 DEF TypeOK, PlanRow
  <2>3. /\ GenerationOf(b) <= job[JobOf(b)].requeue_count
        /\ Exists(b) \/ GenerationOf(b) = job[JobOf(b)].requeue_count
    BY <2>1, <2>2 DEF PlansCurrent
  <2>4. Exists(b) => attempt'[b].state # "ABSENT"
    BY <1>2 DEF Exists
  <2>5. job'[JobOf(b)].requeue_count = job[JobOf(b)].requeue_count
    BY <1>3, AttemptPair
  <2> QED BY <2>1, <2>2, <2>3, <2>4, <2>5
<1>6. OnlyStagedAttempts'
  <2>1. ASSUME NEW b \in Attempt
        PROVE  /\ ~ Exists(b)' => /\ attempt'[b] = AbsentAttempt
                                  /\ lease'[b] = NoLease
                                  /\ report'[b] = None
                                  /\ b \notin granted' \cup released'
               /\ Exists(b)' => attempt'[b].node \in Node
    BY <1>0, <1>1, <1>2 DEF OnlyStagedAttempts
  <2>2. handler' # Idle => attempt'[handler'.attempt].state # "ABSENT"
    BY <1>0, <1>2, <1>4 DEF Exists
  <2> QED BY <2>1, <2>2 DEF OnlyStagedAttempts, Exists
<1>7. ReportsRepeated'
  BY <1>0 DEF ReportsRepeated
<1>8. RenewalsCapped'
  <2>1. handler # Idle => lease'[handler.attempt] = lease[handler.attempt]
    BY <1>1, <1>4
  <2> QED BY <1>0, <2>1 DEF RenewalsCapped, Idle
<1>9. LeaseWithinDuration'
  <2>1. issued + LeaseTtl <= issued + MaxTotalDuration
    BY TimesAssumption
  <2> QED BY <1>1, <2>1 DEF LeaseWithinDuration
<1> QED BY <1>5, <1>6, <1>7, <1>8, <1>9

LEMMA StagedReservations ==
    ASSUME IInv, NEW s \in Scheduler, NEW a \in Attempt, NEW n \in Node,
           NEW issued \in Nat, Stages(s, a, n, issued)
    PROVE  /\ OldAttemptsRevoked' /\ ReservationsSound' /\ LiveAttemptHoldsNode'
           /\ CompletedByLatest'
<1> USE DEF IInv
<1>0. report' = report /\ released' = released /\ now' = now
  BY DEF Stages, ReserveAndStage
<1>1. /\ attempt'[a].node = n /\ reservation'[n].attempt = a
      /\ \A b \in Attempt \ {a} : /\ attempt'[b] = attempt[b]
                                  /\ lease'[b] = lease[b]
      /\ \A m \in Node \ {n} : reservation'[m] = reservation[m]
  BY StagedRows
<1>2. /\ \A b \in Attempt : Exists(b)' <=> b = a \/ Exists(b)
      /\ IsLatest(a)'
      /\ \A b \in Attempt \ {a} :
             /\ JobOf(b) = JobOf(a) => ~ IsLatest(b)'
             /\ JobOf(b) # JobOf(a) => (IsLatest(b)' <=> IsLatest(b))
  BY StagedLatest
<1>3. /\ job'[JobOf(a)].state \in RunStates
      /\ \A i \in Job \ {JobOf(a)} : job'[i] = job[i]
  BY StagedJobs
<1>4. /\ ~ Exists(a) /\ reservation[n].attempt = None
      /\ job[JobOf(a)].state \in SchedulableStates
  BY StagedPlan
<1>5. OldAttemptsRevoked'
  <2> SUFFICES ASSUME NEW b \in Attempt, Exists(b)',
                      \/ ~ IsLatest(b)'
                      \/ job'[JobOf(b)].state \in SchedulableStates
               PROVE  Surrendered(b)'
    BY DEF OldAttemptsRevoked, LeftByJob
  <2>1. b # a
    BY <1>2, <1>3 DEF RunStates, SchedulableStates
  <2>2. Exists(b) /\ lease'[b] = lease[b]
    BY <1>1, <1>2, <2>1
  <2>3. Surrendered(b) => Surrendered(b)'
    BY <1>0, <2>2 DEF Surrendered, NodeStopped, LeaseOver
  <2>4. CASE JobOf(b) = JobOf(a)
    BY <1>4, <2>2, <2>3, <2>4 DEF OldAttemptsRevoked, LeftByJob
  <2>5. CASE JobOf(b) # JobOf(a)
    <3>1. job'[JobOf(b)] = job[JobOf(b)] /\ (IsLatest(b)' <=> IsLatest(b))
      BY <1>2, <1>3, <2>1, <2>5, AttemptPair
    <3> QED BY <2>2, <2>3, <3>1 DEF OldAttemptsRevoked, LeftByJob
  <2> QED BY <2>4, <2>5
<1>6. ReservationsSound'
  <2> SUFFICES ASSUME NEW m \in Node, reservation'[m].attempt # None
               PROVE  LET b == reservation'[m].attempt
                      IN  /\ attempt'[b].state # "ABSENT"
                          /\ attempt'[b].node = m
                          /\ b \notin released'
    BY DEF ReservationsSound, Exists
  <2>1. CASE m = n
    BY <1>0, <1>1, <1>2, <1>4, <2>1 DEF OnlyStagedAttempts, Exists
  <2>2. CASE m # n
    <3>1. PICK b \in Attempt : b = reservation[m].attempt
                               /\ b = reservation'[m].attempt
      BY <1>1, <2>2 DEF TypeOK, ReservationRow
    <3>2. Exists(b) /\ attempt[b].node = m /\ b \notin released
      BY <3>1, AttemptPair DEF ReservationsSound
    <3>3. attempt'[b] = attempt[b]
      BY <1>1, <1>4, <3>2
    <3> QED BY <1>0, <3>1, <3>2, <3>3 DEF Exists
  <2> QED BY <2>1, <2>2
<1>7. LiveAttemptHoldsNode'
  <2> SUFFICES ASSUME NEW b \in Attempt, IsLatest(b)',
                      job'[JobOf(b)].state \in RunStates, report'[b] = None
               PROVE  reservation'[attempt'[b].node].attempt = b
    BY DEF LiveAttemptHoldsNode, IsCurrent
  <2>1. CASE b = a
    BY <1>1, <2>1
  <2>2. CASE b # a
    <3>1. JobOf(b) # JobOf(a) /\ IsLatest(b)
      BY <1>2, <2>2
    <3>2. job'[JobOf(b)] = job[JobOf(b)] /\ attempt'[b] = attempt[b]
      BY <1>1, <1>3, <2>2, <3>1, AttemptPair
    <3>3. reservation[attempt[b].node].attempt = b
      BY <1>0, <3>1, <3>2 DEF LiveAttemptHoldsNode, IsCurrent
    <3>4. attempt[b].node \in Node \ {n}
      BY <1>4, <3>1, <3>3, AttemptPair DEF IsLatest, OnlyStagedAttempts
    <3> QED BY <1>1, <3>2, <3>3, <3>4
  <2> QED BY <2>1, <2>2
<1>8. CompletedByLatest'
  <2> SUFFICES ASSUME NEW j \in Job, job'[j].state = "COMPLETED"
               PROVE  \E b \in AttemptsOf(j) :
                          /\ IsLatest(b)'
                          /\ attempt'[b].state = "COMPLETED"
                          /\ report'[b] # None /\ IsCompletion(report'[b])
    BY DEF CompletedByLatest
  <2>1. j # JobOf(a)
    BY <1>3 DEF RunStates
  <2>2. PICK b \in AttemptsOf(j) :
            /\ IsLatest(b)
            /\ attempt[b].state = "COMPLETED"
            /\ report[b] # None /\ IsCompletion(report[b])
    BY <1>3, <2>1 DEF CompletedByLatest
  <2>3. b \in Attempt \ {a} /\ JobOf(b) # JobOf(a)
    BY <2>1 DEF AttemptsOf
  <2> QED BY <1>0, <1>1, <1>2, <2>2, <2>3
<1> QED BY <1>5, <1>6, <1>7, <1>8

LEMMA StagingStep ==
    ASSUME IInv, NEW s \in Scheduler, ReserveAndStage(s)
    PROVE  IInv'
<1>1. plan[s] \in PlanRow
  BY DEF ReserveAndStage, IInv, TypeOK
<1>2. PICK a \in Attempt, n \in Node, issued \in Nat :
          plan[s] = [attempt |-> a, node |-> n, issued |-> issued]
  BY <1>1 DEF PlanRow
<1>3. Stages(s, a, n, issued)
  BY <1>2 DEF Stages
<1>4. Next
  BY DEF Next, SchedulerStep
<1>5. TypeOK' /\ RowsReadable'
  BY <1>4, TypeStep, RowsStep
<1> QED BY <1>3, <1>5, StagedFences, StagedRecords, StagedReservations DEF IInv

-----------------------------------------------------------------------------
(* The inductive invariant.                                                *)

LEMMA InitHolds ==
    ASSUME Init
    PROVE  IInv
<1>1. TypeOK
  <2>1. AbsentJob \in JobRow
    BY BoundsAssumption DEF AbsentJob, JobRow
  <2> QED BY <2>1 DEF Init, TypeOK, AbsentAttempt, AttemptRow, NoLease, LeaseRow,
          NoReservation, ReservationRow, HandlerStates
<1>2. \A a \in Attempt : ~ Exists(a)
  BY DEF Init, Exists, AbsentAttempt
<1>3. RowsReadable
  BY DEF Init, RowsReadable, ReadableRow, AbsentJob
<1>4. FencesIncrease /\ UnqueuedUnattempted /\ OldAttemptsRevoked
      /\ LiveAttemptHoldsNode
  BY <1>2 DEF FencesIncrease, UnqueuedUnattempted, OldAttemptsRevoked,
     LeftByJob, LiveAttemptHoldsNode, IsCurrent, IsLatest
<1>5. GenerationsMatch
  <2>1. \A a \in Attempt : job[JobOf(a)].state = "ABSENT"
    BY AttemptPair DEF Init, AbsentJob
  <2> QED BY <1>2, <2>1 DEF GenerationsMatch, RunStates
<1>6. PlansCurrent /\ ReportsRepeated /\ RenewalsCapped
  BY DEF Init, PlansCurrent, ReportsRepeated, RenewalsCapped, Idle
<1>7. OnlyStagedAttempts
  BY <1>2 DEF Init, OnlyStagedAttempts
<1>8. ReservationsSound /\ CompletedByLatest
  BY DEF Init, ReservationsSound, NoReservation, CompletedByLatest, AbsentJob
<1>9. LeaseWithinDuration
  BY TimesAssumption DEF Init, LeaseWithinDuration, NoLease
<1> QED BY <1>1, <1>3, <1>4, <1>5, <1>6, <1>7, <1>8, <1>9 DEF IInv

LEMMA StutterHolds ==
    ASSUME IInv, UNCHANGED vars
    PROVE  IInv'
<1> USE DEF IInv, vars
<1>1. TypeOK' /\ RowsReadable'
  BY DEF TypeOK, RowsReadable
<1>2. /\ FencesIncrease' /\ GenerationsMatch' /\ UnqueuedUnattempted'
      /\ PlansCurrent' /\ OnlyStagedAttempts'
  BY DEF FencesIncrease, GenerationsMatch, UnqueuedUnattempted, PlansCurrent,
     OnlyStagedAttempts, IsLatest, Exists
<1>3. /\ ReportsRepeated' /\ OldAttemptsRevoked' /\ ReservationsSound'
      /\ LiveAttemptHoldsNode'
  BY DEF ReportsRepeated, OldAttemptsRevoked, LeftByJob, Surrendered,
     NodeStopped, LeaseOver, ReservationsSound, LiveAttemptHoldsNode, IsCurrent,
     IsLatest, Exists
<1>4. CompletedByLatest' /\ RenewalsCapped' /\ LeaseWithinDuration'
  BY DEF CompletedByLatest, RenewalsCapped, LeaseWithinDuration, IsLatest, Exists
<1> QED BY <1>1, <1>2, <1>3, <1>4

(***************************************************************************)
(* IInv is inductive: it holds initially and every transaction, every read *)
(* of a session or a scheduler, every crash and every move of the clock    *)
(* keeps it.                                                               *)
(***************************************************************************)
THEOREM Invariance == Spec => []IInv
<1>1. Init => IInv
  BY InitHolds
<1>2. IInv /\ [Next]_vars => IInv'
  <2> SUFFICES ASSUME IInv, [Next]_vars
               PROVE  IInv'
    OBVIOUS
  <2>1. CASE \E s \in Scheduler : ReserveAndStage(s)
    BY <2>1, StagingStep
  <2>2. CASE NoStaging
    BY <2>2, QuietStep
  <2>3. CASE UNCHANGED vars
    BY <2>3, StutterHolds
  <2> QED BY <2>1, <2>2, <2>3 DEF NoStaging
<1> QED BY <1>1, <1>2, PTL DEF Spec

(***************************************************************************)
(* Every row of the control database, and what sessions and schedulers     *)
(* carry between transactions, keeps its type.                             *)
(***************************************************************************)
THEOREM TypeCorrect == Spec => []TypeOK
<1>1. IInv => TypeOK
  BY DEF IInv
<1> QED BY <1>1, Invariance, PTL

(***************************************************************************)
(* No transaction writes a job row that into_stored refuses to read.       *)
(***************************************************************************)
THEOREM RowsStayReadable == Spec => []RowsReadable
<1>1. IInv => RowsReadable
  BY DEF IInv
<1> QED BY <1>1, Invariance, PTL

(***************************************************************************)
(* Whichever scheduler stages, allocate_epoch gives every attempt its own  *)
(* epoch, larger for later generations of a job; and the generation a      *)
(* waiting job is staged under next is unused.                             *)
(***************************************************************************)
THEOREM Fencing == Spec => [](FencesIncrease /\ GenerationsMatch)
<1>1. IInv => FencesIncrease /\ GenerationsMatch
  BY DEF IInv
<1> QED BY <1>1, Invariance, PTL

(***************************************************************************)
(* failover and the owner's preemption leave no overtaken attempt with a   *)
(* lease that a renewal could still prolong, and, on a clock that is not   *)
(* set back, leave none before its lease and its graces have ended, unless *)
(* its own node reported that it stopped.                                  *)
(***************************************************************************)
THEOREM NoOldLease == Spec => []OldAttemptsRevoked
<1>1. IInv => OldAttemptsRevoked
  BY DEF IInv
<1> QED BY <1>1, Invariance, PTL

(***************************************************************************)
(* The attempt a job runs in owns the node it was placed on until its      *)
(* report arrives, and every reservation names an attempt placed there     *)
(* that has not been released (reserve_and_stage,                          *)
(* release_within_transaction, release_lost_node_by_operator).             *)
(***************************************************************************)
THEOREM NodesHeld == Spec => [](LiveAttemptHoldsNode /\ ReservationsSound)
<1>1. IInv => LiveAttemptHoldsNode /\ ReservationsSound
  BY DEF IInv
<1> QED BY <1>1, Invariance, PTL

(***************************************************************************)
(* Only the latest attempt's own completion report completes a job         *)
(* (follow_attempt_terminal).                                              *)
(***************************************************************************)
THEOREM CompletionIsLatest == Spec => []CompletedByLatest
<1>1. IInv => CompletedByLatest
  BY DEF IInv
<1> QED BY <1>1, Invariance, PTL

(***************************************************************************)
(* In a pool no stored lease ends after the total duration of its attempt  *)
(* (announced_renew_extension_ms, renew_existing_within_duration).         *)
(***************************************************************************)
THEOREM DurationBounded == Spec => []LeaseWithinDuration
<1>1. IInv => LeaseWithinDuration
  BY DEF IInv
<1> QED BY <1>1, Invariance, PTL

(***************************************************************************)
(* No transaction takes a revocation back or prolongs a revoked lease,     *)
(* also not a renewal whose session read the lease before                  *)
(* (renew_existing_within_duration).                                       *)
(***************************************************************************)
THEOREM RevocationFinal == Spec => RevokedStaysRevoked
<1>1. ASSUME IInv, [Next]_vars, NEW a \in Attempt, lease[a].revoked
      PROVE  lease'[a].revoked /\ lease'[a].expires = lease[a].expires
  <2>1. CASE \E s \in Scheduler : ReserveAndStage(s)
    <3>1. PICK s \in Scheduler : ReserveAndStage(s)
      BY <2>1
    <3>2. /\ plan[s].attempt \in Attempt /\ ~ Exists(plan[s].attempt)
          /\ \A b \in Attempt : b # plan[s].attempt => lease'[b] = lease[b]
      BY <1>1, <3>1 DEF ReserveAndStage, IInv, TypeOK, PlanRow
    <3>3. a # plan[s].attempt
      BY <1>1, <3>2 DEF IInv, OnlyStagedAttempts, NoLease
    <3> QED BY <1>1, <3>2, <3>3
  <2>2. CASE NoStaging
    BY <1>1, <2>2, LeasesKept DEF LeaseKept
  <2>3. CASE UNCHANGED vars
    BY <1>1, <2>3 DEF vars
  <2> QED BY <1>1, <2>1, <2>2, <2>3 DEF NoStaging
<1>2. IInv /\ [Next]_vars =>
          [\A a \in Attempt :
               lease[a].revoked => lease'[a].revoked
                                   /\ lease'[a].expires = lease[a].expires]_vars
  BY <1>1
<1> QED BY <1>2, Invariance, PTL DEF Spec, RevokedStaysRevoked
=============================================================================
