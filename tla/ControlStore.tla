---------------------------- MODULE ControlStore ----------------------------
(***************************************************************************)
(* The control database of a gPUteer pool and every process that writes    *)
(* it: the submitter's and the operator's commands, the scheduler ticks    *)
(* (several may run at once), and the one sequential session handler of    *)
(* the coordinator.                                                        *)
(*                                                                         *)
(* One database transaction (BEGIN IMMEDIATE) is one action.  A session    *)
(* that uses several transactions, or decides in one what it writes in     *)
(* the next, is several actions, with what it carries between them in      *)
(* handler; a tick that reads in one transaction and stages in another     *)
(* carries its choice in plan.  Both may die at any point.                 *)
(*                                                                         *)
(* An attempt is named <<job, generation>>: scheduler_tick derives the     *)
(* attempt id, the lease id and the operation key from the job, its plan   *)
(* and its requeue_count.  An attempt and its lease are inserted together, *)
(* so the fence epoch of both is kept in the attempt row.                  *)
(***************************************************************************)
EXTENDS JobState, AttemptState, Integers, FiniteSets

CONSTANTS
    Job,                \* job ids
    Node,               \* node ids
    Scheduler,          \* concurrent scheduler processes
    None,               \* an absent column, row or choice
    LocalJob,           \* the jobs whose manifest requires LOCAL durability
    Reports,            \* the terminal reports nodes send
    PoolMode,           \* config.pool_mode
    ReleaseOnExit,      \* config.release_on_exit_report
    RevokeConfigured,   \* one of the configured revocations is switched on
    SharedRoot,         \* a shared checkpoint root is configured
    ClockGoesBack,      \* whether the wall clock may be set back
    LeaseTtl,           \* --lease-ttl-ms
    RenewExtension,     \* config.renew_extension_ms
    PlannedUnreachableMax,      \* config.planned_unreachable_max_ms
    Announcements,      \* how far ahead nodes announce a disconnection
    MaxTotalDuration,   \* --lease-max-total-duration-seconds
    PolicyGrace,        \* --failover-grace-ms
    SignedGrace,        \* config.signed_reassignment_grace_ms
    QueueLimit,         \* max_queue_duration_ms of every job
    Deadline,           \* deadline_unix_ms of every job
    MaxRequeue,         \* bound: how often a job is requeued or paused
    MaxStep,            \* bound: checkpoints an attempt publishes
    MaxSkipped,         \* bound: checkpoints that cannot be used at one time
    MaxTime             \* bound: the largest reading of the wall clock

RunTerminals == {"ATTEMPT_COMPLETED", "STAGING_FAILED", "UNRECOVERABLE_ERROR",
                 "NO_COMMITTED_CHECKPOINT"}
QueueFailures == {"DEADLINE_PASSED", "QUEUE_TIMEOUT", "PERMANENTLY_INFEASIBLE"}

ASSUME SetsAssumption ==
    /\ Reports \subseteq AllowedReports
    /\ LocalJob \subseteq Job
    /\ Announcements \subseteq Nat

ASSUME SwitchesAssumption ==
    /\ PoolMode \in BOOLEAN
    /\ ReleaseOnExit \in BOOLEAN
    /\ RevokeConfigured \in BOOLEAN
    /\ SharedRoot \in BOOLEAN
    /\ ClockGoesBack \in BOOLEAN

ASSUME TimesAssumption ==
    /\ LeaseTtl \in Nat \ {0}
    /\ RenewExtension \in Nat
    /\ PlannedUnreachableMax \in Nat
    /\ MaxTotalDuration \in Nat
    /\ LeaseTtl <= MaxTotalDuration
    /\ PolicyGrace \in Nat
    /\ SignedGrace \in Nat
    /\ QueueLimit \in Nat
    /\ Deadline \in Nat
    /\ MaxTime \in Nat

ASSUME BoundsAssumption ==
    /\ MaxRequeue \in Nat
    /\ MaxStep \in Nat
    /\ MaxSkipped \in Nat

ASSUME NoneAssumption ==
    /\ None \notin Nat
    /\ None \notin Node
    /\ None \notin Job \X (0 .. MaxRequeue)
    /\ None \notin Nat \X Nat
    /\ None \notin AllowedReports
    /\ None \notin RunTerminals \cup QueueFailures

VARIABLES
    now,            \* the wall clock
    job,            \* coordinator_jobs
    attempt,        \* coordinator_attempts
    lease,          \* coordinator_leases
    epoch,          \* coordinator_fence_state.max_issued_epoch
    reservation,    \* coordinator_node_reservations, by node
    report,         \* coordinator_attempt_reports, by attempt
    released,       \* coordinator_reservation_releases
    granted,        \* attempts whose signed Grant has left the coordinator
    checkpoint,     \* last checkpoint each attempt published, 0 for none
    skipped,        \* checkpoints a search would skip at this moment
    handler,        \* what the coordinator's session carries
    plan            \* what each scheduler read and has not yet staged

vars == <<now, job, attempt, lease, epoch, reservation, report, released,
          granted, checkpoint, skipped, handler, plan>>

-----------------------------------------------------------------------------
Attempt == Job \X (0 .. MaxRequeue)
JobOf(a) == a[1]
GenerationOf(a) == a[2]
AttemptsOf(j) == {a \in Attempt : JobOf(a) = j}

Larger(m, n) == IF m >= n THEN m ELSE n
Smaller(m, n) == IF m <= n THEN m ELSE n
AtLeastZero(i) == Larger(i, 0)

AbsentJob ==
    [state |-> "ABSENT", queued_at |-> None, staging_at |-> None,
     running |-> FALSE, run_terminal |-> None, queue_failure |-> None,
     requeue_count |-> 0, resume |-> None]

AbsentAttempt == [state |-> "ABSENT", node |-> None, fence |-> 0]

NoLease == [issued |-> 0, expires |-> 0, grace |-> 0, revoked |-> FALSE]

NoReservation == [attempt |-> None, expired |-> FALSE]

Idle == [phase |-> "idle"]

Exists(a) == attempt[a].state # "ABSENT"

(***************************************************************************)
(* The attempt every decision about a job is made for:                     *)
(* ORDER BY fence_epoch DESC, attempt_id DESC LIMIT 1.  The second key     *)
(* never decides, no two attempts share an epoch (FencesIncrease).         *)
(***************************************************************************)
IsLatest(a) ==
    /\ Exists(a)
    /\ \A b \in AttemptsOf(JobOf(a)) :
           Exists(b) => attempt[b].fence <= attempt[a].fence

\* Broken: hands out the highest stored epoch once more.
AllocateEpochTwice ==
    CHOOSE e \in {epoch} \cup {attempt[a].fence : a \in Attempt} :
        \A a \in Attempt : attempt[a].fence <= e

(***************************************************************************)
(* allocate_epoch: above the counter and above every stored lease.         *)
(***************************************************************************)
IssuedEpochs == {epoch} \cup {attempt[a].fence : a \in Attempt}

AllocateEpoch ==
    1 + CHOOSE e \in IssuedEpochs : \A f \in IssuedEpochs : f <= e

(***************************************************************************)
(* The checkpoints of a job in the shared store, which keeps every one: of *)
(* this job, with the fence and node of the attempt that made it.          *)
(***************************************************************************)
Committed(j) ==
    UNION {{attempt[a].fence} \X (1 .. checkpoint[a]) :
               a \in {b \in AttemptsOf(j) : Exists(b)}}

NotAfter(c, d) == c[1] < d[1] \/ (c[1] = d[1] /\ c[2] <= d[2])

(***************************************************************************)
(* find_resume_point: the largest checkpoint by (fence, step) among those  *)
(* whose signature verifies and whose files are intact; the others are     *)
(* skipped, however new they are.  None without one, or a shared root.     *)
(***************************************************************************)
Usable(j) == IF SharedRoot THEN Committed(j) \ skipped ELSE {}

IsResumePoint(j, r) ==
    IF Usable(j) = {}
    THEN r = None
    ELSE r \in Usable(j) /\ \A c \in Usable(j) : NotAfter(c, r)

ResumePoints(j) == {None} \cup Usable(j)

\* Broken: forgets the old resume point (no COALESCE).
NewResumeOverwriting(j, r) == r

NewResume(j, r) == IF r = None THEN job[j].resume ELSE r

\* Broken: never shorter than a plain renewal, even past the total duration.
AnnouncedRenewExtensionUncut(until, at, maxEnd) ==
    Larger(RenewExtension, Smaller(AtLeastZero(until - at),
                                   PlannedUnreachableMax))

(***************************************************************************)
(* announced_renew_extension_ms: how long a renewal is granted for, to a   *)
(* node that announced nothing (until = 0) or a disconnection until that   *)
(* time, within the operator's cap and the attempt's total duration.       *)
(***************************************************************************)
AnnouncedRenewExtension(until, at, maxEnd) ==
    LET wanted ==
            IF PlannedUnreachableMax = 0 \/ until <= at
            THEN RenewExtension
            ELSE Larger(Smaller(until - at, PlannedUnreachableMax),
                        RenewExtension)
    IN  Smaller(wanted, AtLeastZero(maxEnd - at))

MaxDurationExceeded(a, at) ==
    at < lease[a].issued \/ at - lease[a].issued >= MaxTotalDuration

\* Broken: trusts what the session read before its transaction.
RenewalAllowedUnchecked(a, at) ==
    lease[a].expires > at /\ ~ MaxDurationExceeded(a, at)

(***************************************************************************)
(* What renew_existing_within_duration checks again in its transaction.    *)
(***************************************************************************)
RenewalAllowed(a, at) ==
    /\ ~ lease[a].revoked
    /\ lease[a].expires > at
    /\ ~ MaxDurationExceeded(a, at)

\* Broken: the job moves and the lease is left as it is.
RevokeNothing(a) == UNCHANGED lease

(***************************************************************************)
(* revoke_within: part of the caller's transaction.                        *)
(***************************************************************************)
RevokeWithin(a) == lease' = [lease EXCEPT ![a].revoked = TRUE]

-----------------------------------------------------------------------------
Init ==
    /\ now = 0
    /\ job = [j \in Job |-> AbsentJob]
    /\ attempt = [a \in Attempt |-> AbsentAttempt]
    /\ lease = [a \in Attempt |-> NoLease]
    /\ epoch = 0
    /\ reservation = [n \in Node |-> NoReservation]
    /\ report = [a \in Attempt |-> None]
    /\ released = {}
    /\ granted = {}
    /\ checkpoint = [a \in Attempt |-> 0]
    /\ skipped = {}
    /\ handler = Idle
    /\ plan = [s \in Scheduler |-> None]

-----------------------------------------------------------------------------
(* Submission and planning (job_store.rs).  The stamps of SUBMITTED and    *)
(* PLANNING are not kept: a clock set back behind them only delays these   *)
(* actions.                                                                *)

SetJobState(j, s) == job' = [job EXCEPT ![j].state = s]

StoreUnchangedButJobs ==
    UNCHANGED <<now, attempt, lease, epoch, reservation, report, released,
                granted, checkpoint, skipped, handler, plan>>

SubmitAccepted(j) ==
    /\ job[j].state = "ABSENT"
    /\ SetJobState(j, "SUBMITTED")
    /\ StoreUnchangedButJobs

StartPlanning(j) ==
    /\ job[j].state = "SUBMITTED"
    /\ SetJobState(j, "PLANNING")
    /\ StoreUnchangedButJobs

Enqueue(j) ==
    /\ job[j].state = "PLANNING"
    /\ job' = [job EXCEPT ![j].state = "QUEUED", ![j].queued_at = now]
    /\ StoreUnchangedButJobs

PlanAndEnqueue(j) ==
    /\ job[j].state \in {"SUBMITTED", "PLANNING"}
    /\ job' = [job EXCEPT ![j].state = "QUEUED", ![j].queued_at = now]
    /\ StoreUnchangedButJobs

FailQueued(j, failure) ==
    /\ job[j].state = "QUEUED"
    /\ now >= job[j].queued_at
    /\ failure = "DEADLINE_PASSED" => now > Deadline
    /\ failure = "QUEUE_TIMEOUT" => now - job[j].queued_at > QueueLimit
    /\ job' = [job EXCEPT ![j].state = "FAILED", ![j].queue_failure = failure]
    /\ StoreUnchangedButJobs

-----------------------------------------------------------------------------
(* A scheduler tick (scheduler_tick.rs, orchestrate.rs, staging_store.rs): *)
(* it reads the queue and a snapshot of the pool, then stages in a         *)
(* transaction that checks again what can have changed.                    *)

TickPlan(s, j, n) ==
    /\ plan[s] = None
    /\ job[j].state \in SchedulableStates
    /\ reservation[n].attempt = None
    /\ plan' = [plan EXCEPT ![s] =
                   [attempt |-> <<j, job[j].requeue_count>>, node |-> n,
                    issued |-> Larger(job[j].queued_at, now)]]
    /\ UNCHANGED <<now, job, attempt, lease, epoch, reservation, report,
                   released, granted, checkpoint, skipped, handler>>

(***************************************************************************)
(* reserve_and_stage: the node's reservation, the attempt, its lease and   *)
(* the job's new state in one transaction.  A paused job resumes at once.  *)
(***************************************************************************)
StagedJob(row, issued) ==
    IF row.state = "PAUSED"
    THEN [row EXCEPT !.state = "RUNNING", !.staging_at = issued,
                     !.running = TRUE]
    ELSE [row EXCEPT !.state = "STAGING", !.staging_at = issued]

ReserveAndStage(s) ==
    LET a == plan[s].attempt
        j == JobOf(a)
        n == plan[s].node
        issued == plan[s].issued
    IN  /\ plan[s] # None
        /\ ~ Exists(a)
        /\ reservation[n].attempt = None
        /\ job[j].state \in SchedulableStates
        /\ issued >= job[j].queued_at
        /\ reservation' = [reservation EXCEPT ![n] =
                              [attempt |-> a, expired |-> FALSE]]
        /\ epoch' = AllocateEpoch
        /\ attempt' = [attempt EXCEPT ![a] =
                          [state |-> "CREATED", node |-> n,
                           fence |-> AllocateEpoch]]
        /\ lease' = [lease EXCEPT ![a] =
                        [issued |-> issued, expires |-> issued + LeaseTtl,
                         grace |-> 0, revoked |-> FALSE]]
        /\ job' = [job EXCEPT ![j] = StagedJob(job[j], issued)]
        /\ plan' = [plan EXCEPT ![s] = None]
        /\ UNCHANGED <<now, report, released, granted, checkpoint, skipped,
                       handler>>

(***************************************************************************)
(* The tick ends without staging: refused by any of the checks above, by   *)
(* the inventory revision or the manifest row, an operation replay, or the *)
(* process died.                                                           *)
(***************************************************************************)
TickGivesUp(s) ==
    /\ plan[s] # None
    /\ plan' = [plan EXCEPT ![s] = None]
    /\ UNCHANGED <<now, job, attempt, lease, epoch, reservation, report,
                   released, granted, checkpoint, skipped, handler>>

-----------------------------------------------------------------------------
(* A FRESH session: the coordinator finds the work assigned to the node,   *)
(* raises the reassignment grace it is about to sign, sends the Grant and  *)
(* records the ACK (grant_from_stored.rs, lease_store.rs, lib.rs).         *)

StoreUnchangedButHandler ==
    UNCHANGED <<now, job, attempt, lease, epoch, reservation, report, released,
                granted, checkpoint, skipped, plan>>

GrantRead(n) ==
    LET a == reservation[n].attempt
    IN  /\ handler = Idle
        /\ a # None
        /\ job[JobOf(a)].state \in RunStates
        /\ IsLatest(a)
        /\ attempt[a].state = "CREATED"
        /\ ~ lease[a].revoked
        /\ lease[a].expires > now
        /\ handler' = [phase |-> "sign", attempt |-> a]
        /\ StoreUnchangedButHandler

(***************************************************************************)
(* with_signed_reassignment_grace: with a configured grace the stored one  *)
(* is raised, never lowered, unless the lease was revoked meanwhile;       *)
(* without one nothing is read or written.                                 *)
(***************************************************************************)
RefusesToSign(a) == SignedGrace > 0 /\ lease[a].revoked

RaiseReassignmentGrace(a) ==
    lease' = [lease EXCEPT ![a].grace = Larger(@, SignedGrace)]

GrantSign ==
    LET a == handler.attempt
    IN  /\ handler.phase = "sign"
        /\ ~ RefusesToSign(a)
        /\ RaiseReassignmentGrace(a)
        /\ granted' = granted \cup {a}
        /\ handler' = [phase |-> "ack", attempt |-> a]
        /\ UNCHANGED <<now, job, attempt, epoch, reservation, report, released,
                       checkpoint, skipped, plan>>

\* Broken: any attempt of the job will do; or the job may wait in the queue.
IsCurrentOfAnyAttempt(a) == job[JobOf(a)].state \in RunStates /\ Exists(a)

IsCurrentInQueue(a) ==
    job[JobOf(a)].state \in RunStates \cup {"QUEUED"} /\ IsLatest(a)

(***************************************************************************)
(* What record_staging_complete does to the job when the attempt is the    *)
(* current one and the clock is not behind the staging time.               *)
(***************************************************************************)
IsCurrent(a) == job[JobOf(a)].state \in RunStates /\ IsLatest(a)

ClockBehindStaging(j, at) ==
    job[j].state = "STAGING" /\ at < job[j].staging_at

StagingComplete(j) ==
    job' = IF job[j].state = "STAGING"
           THEN [job EXCEPT ![j].state = "RUNNING", ![j].running = TRUE]
           ELSE job

(***************************************************************************)
(* record_grant_accepted.  In a pool the ACK moves only the attempt; the   *)
(* job waits for the first renewal.  An ACK that is not recorded changes   *)
(* nothing (SessionEnds).                                                  *)
(***************************************************************************)
RecordGrantAccepted ==
    LET a == handler.attempt
    IN  /\ handler.phase = "ack"
        /\ attempt[a].state = "CREATED"
        /\ IsCurrent(a)
        /\ ~ ClockBehindStaging(JobOf(a), now)
        /\ attempt' = [attempt EXCEPT ![a].state = "STARTING"]
        /\ IF PoolMode THEN UNCHANGED job ELSE StagingComplete(JobOf(a))
        /\ handler' = Idle
        /\ UNCHANGED <<now, lease, epoch, reservation, report, released,
                       granted, checkpoint, skipped, plan>>

-----------------------------------------------------------------------------
(* A RENEW session (serve_renew_session, build_renew_result): a read, the  *)
(* renewal, the raised grace, and the record that the process runs, each   *)
(* in a transaction of its own, all with the time read first.              *)

(***************************************************************************)
(* A pool node runs only after the signed receipt of a recorded ACK; other *)
(* nodes run as soon as they have sent the ACK.                            *)
(***************************************************************************)
MayRun(a) ==
    /\ a \in granted
    /\ PoolMode => attempt[a].state # "CREATED"

RenewRead(a, ahead) ==
    /\ handler = Idle
    /\ MayRun(a)
    /\ ~ lease[a].revoked
    /\ lease[a].expires > now
    /\ handler' = [phase |-> "renew", session |-> "RENEW", attempt |-> a,
                   at |-> now,
                   extension |-> AnnouncedRenewExtension(
                                     IF ahead = 0 THEN 0 ELSE now + ahead, now,
                                     lease[a].issued + MaxTotalDuration)]
    /\ StoreUnchangedButHandler

(***************************************************************************)
(* A renewal inside the FRESH connection itself, which a pool refuses at   *)
(* startup: it is granted for RenewExtension, however little of the total  *)
(* duration is left, and records no start of the process.                  *)
(***************************************************************************)
FreshRenewRead(a) ==
    /\ ~ PoolMode
    /\ handler = Idle
    /\ MayRun(a)
    /\ handler' = [phase |-> "renew", session |-> "FRESH", attempt |-> a,
                   at |-> now, extension |-> RenewExtension]
    /\ StoreUnchangedButHandler

(***************************************************************************)
(* renew_existing_within_duration: the expiry is overwritten, also by an   *)
(* earlier one.                                                            *)
(***************************************************************************)
RenewExisting ==
    LET a == handler.attempt
    IN  /\ handler.phase = "renew"
        /\ RenewalAllowed(a, handler.at)
        /\ lease' = [lease EXCEPT ![a].expires =
                                      handler.at + handler.extension]
        /\ handler' = [phase |-> "grace", session |-> handler.session,
                       attempt |-> a, at |-> handler.at]
        /\ UNCHANGED <<now, job, attempt, epoch, reservation, report, released,
                       granted, checkpoint, skipped, plan>>

RenewSign ==
    LET a == handler.attempt
    IN  /\ handler.phase = "grace"
        /\ ~ RefusesToSign(a)
        /\ RaiseReassignmentGrace(a)
        /\ handler' = IF handler.session = "FRESH"
                      THEN Idle
                      ELSE [phase |-> "started", attempt |-> a,
                            at |-> handler.at]
        /\ UNCHANGED <<now, job, attempt, epoch, reservation, report, released,
                       granted, checkpoint, skipped, plan>>

(***************************************************************************)
(* record_process_started: the attempt moves whenever it is STARTING; the  *)
(* job only for its current attempt and a clock not behind the staging.    *)
(***************************************************************************)
RecordProcessStarted ==
    LET a == handler.attempt
    IN  /\ handler.phase = "started"
        /\ attempt' = IF attempt[a].state = "STARTING"
                      THEN [attempt EXCEPT ![a].state = "RUNNING"]
                      ELSE attempt
        /\ IF /\ attempt[a].state \in {"STARTING", "RUNNING"}
              /\ IsCurrent(a)
              /\ ~ ClockBehindStaging(JobOf(a), handler.at)
           THEN StagingComplete(JobOf(a))
           ELSE UNCHANGED job
        /\ handler' = Idle
        /\ UNCHANGED <<now, lease, epoch, reservation, report, released,
                       granted, checkpoint, skipped, plan>>

-----------------------------------------------------------------------------
(* A terminal report (store_terminal_report_with_policy): whether to       *)
(* release the reservation is decided before the transaction that stores.  *)

DecidesToRelease(a, r) ==
    /\ ReleaseOnExit
    /\ r.observed
    /\ reservation[attempt[a].node].attempt = a
    /\ IsCompletion(r) => JobOf(a) \in LocalJob

(***************************************************************************)
(* A node reports once per attempt, and sends the same report again until  *)
(* it is acknowledged.                                                     *)
(***************************************************************************)
ReportRead(a, r) ==
    /\ handler = Idle
    /\ a \in granted
    /\ report[a] \in {None, r}
    /\ handler' = [phase |-> "report", attempt |-> a, report |-> r,
                   release |-> DecidesToRelease(a, r)]
    /\ StoreUnchangedButHandler

(***************************************************************************)
(* The attempt's end: where the report leads it, if the table allows.      *)
(***************************************************************************)
ReportIsReachable(a, r) ==
    \/ TerminalStateFor(r) \in {"NONE", attempt[a].state}
    \/ NormativePaths(attempt[a].state, TerminalStateFor(r), r.observed) # {}

EndedAttempt(a, r) ==
    IF TerminalStateFor(r) = "NONE"
    THEN attempt
    ELSE [attempt EXCEPT ![a].state = TerminalStateFor(r)]

(***************************************************************************)
(* follow_attempt_terminal: the job ends with its latest attempt.  The     *)
(* recorded trigger is the one of the last transition.                     *)
(***************************************************************************)
TerminalOf(row, target, ran) ==
    CASE target = "COMPLETED" -> "ATTEMPT_COMPLETED"
      [] target # "COMPLETED" /\ (row.state = "RUNNING"
                                  \/ (target = "FAILED" /\ ran))
           -> "UNRECOVERABLE_ERROR"
      [] OTHER -> "STAGING_FAILED"

FollowAttemptTerminal(a, r) ==
    LET j == JobOf(a)
        target == TerminalStateFor(r)
    IN  IF target = "NONE" \/ ~ IsCurrent(a)
        THEN job
        ELSE [job EXCEPT ![j] =
                [job[j] EXCEPT
                    !.state =
                        IF target = "COMPLETED" THEN "COMPLETED" ELSE "FAILED",
                    !.run_terminal =
                        TerminalOf(job[j], target,
                                   AttemptRan(attempt[a].state, r))]]

\* Broken: trusts the owner of the reservation read before the transaction.
ReleaseIsPossibleUnchecked(a, release) == TRUE

(***************************************************************************)
(* release_within_transaction: a second release of the same report does    *)
(* nothing; otherwise the reservation must still be this attempt's, else   *)
(* the whole transaction, the stored report included, is rolled back.      *)
(***************************************************************************)
ReleaseIsPossible(a, release) ==
    release /\ a \notin released => reservation[attempt[a].node].attempt = a

ReleaseReservation(a, release) ==
    IF release /\ a \notin released
    THEN /\ reservation' = [reservation EXCEPT ![attempt[a].node] =
                                                   NoReservation]
         /\ released' = released \cup {a}
    ELSE UNCHANGED <<reservation, released>>

\* Broken: pauses a job that is still being staged.
PreemptsWhileStaging(a, r) ==
    PoolMode /\ r.outcome = "INTERRUPTED" /\ IsCurrent(a)

(***************************************************************************)
(* pause_for_owner_preempt_within, for an INTERRUPTED report in a pool: a  *)
(* running job is paused and the lease revoked in the same transaction.    *)
(* An unreadable shared store counts as no new resume point.               *)
(***************************************************************************)
Preempts(a, r) ==
    /\ PoolMode
    /\ r.outcome = "INTERRUPTED"
    /\ IsLatest(a)
    /\ job[JobOf(a)].state = "RUNNING"

PausedJob(j, r) ==
    [job[j] EXCEPT !.state = "PAUSED", !.requeue_count = @ + 1,
                   !.resume = NewResume(j, r)]

StoreReport ==
    LET a == handler.attempt
        r == handler.report
        j == JobOf(a)
        first == report[a] = None
    IN  /\ handler.phase = "report"
        /\ first => ReportIsReachable(a, r)
        /\ ReleaseIsPossible(a, handler.release)
        /\ report' = [report EXCEPT ![a] = r]
        /\ attempt' = IF first THEN EndedAttempt(a, r) ELSE attempt
        /\ ReleaseReservation(a, handler.release)
        /\ IF Preempts(a, r)
           THEN /\ job[j].requeue_count < MaxRequeue
                /\ \E point \in ResumePoints(j) :
                       /\ point = None \/ IsResumePoint(j, point)
                       /\ job' = [job EXCEPT ![j] = PausedJob(j, point)]
                /\ RevokeWithin(a)
           ELSE /\ job' = IF first THEN FollowAttemptTerminal(a, r) ELSE job
                /\ UNCHANGED lease
        /\ handler' = Idle
        /\ UNCHANGED <<now, epoch, granted, checkpoint, skipped, plan>>

(***************************************************************************)
(* The session ends without writing more: the answer was a refusal, the    *)
(* transaction rolled back, the connection was lost, or the coordinator    *)
(* died.                                                                   *)
(***************************************************************************)
SessionEnds ==
    /\ handler # Idle
    /\ handler' = Idle
    /\ StoreUnchangedButHandler

(***************************************************************************)
(* mark_revoked, from the sessions configured to revoke a lease.           *)
(***************************************************************************)
MarkRevoked(a) ==
    /\ RevokeConfigured
    /\ handler = Idle
    /\ a \in granted
    /\ ~ lease[a].revoked
    /\ lease' = [lease EXCEPT ![a].revoked = TRUE]
    /\ UNCHANGED <<now, job, attempt, epoch, reservation, report, released,
                   granted, checkpoint, skipped, handler, plan>>

-----------------------------------------------------------------------------
(* Failover (failover.rs, requeue_after_node_lost): one transaction per    *)
(* job whose latest attempt has not been heard of for its grace.           *)

\* Broken: does not ask whether the job still runs.
LostWhateverTheJob(a) ==
    /\ IsLatest(a)
    /\ attempt[a].state \notin EndedAttemptStates
    /\ now > lease[a].expires + Larger(PolicyGrace, lease[a].grace)

Lost(a) ==
    /\ IsCurrent(a)
    /\ attempt[a].state \notin EndedAttemptStates
    /\ now > lease[a].expires + Larger(PolicyGrace, lease[a].grace)

\* Broken: keeps the time the job started to run.
RequeuedJobStillStamped(j, r) ==
    IF job[j].state = "RUNNING" /\ r = None
    THEN [job[j] EXCEPT !.state = "FAILED",
                        !.run_terminal = "NO_COMMITTED_CHECKPOINT"]
    ELSE [job[j] EXCEPT !.state = "QUEUED", !.staging_at = None,
                        !.requeue_count = @ + 1, !.resume = NewResume(j, r)]

RequeuedJob(j, r) ==
    IF job[j].state = "RUNNING" /\ r = None
    THEN [job[j] EXCEPT !.state = "FAILED",
                        !.run_terminal = "NO_COMMITTED_CHECKPOINT"]
    ELSE [job[j] EXCEPT !.state = "QUEUED", !.staging_at = None,
                        !.running = FALSE, !.requeue_count = @ + 1,
                        !.resume = NewResume(j, r)]

(***************************************************************************)
(* mark_reservation_expired: whatever reservation the node holds.          *)
(***************************************************************************)
MarkReservationExpired(n) ==
    reservation' = IF reservation[n].attempt = None
                   THEN reservation
                   ELSE [reservation EXCEPT ![n].expired = TRUE]

Failover(a) ==
    LET j == JobOf(a)
    IN  /\ Lost(a)
        /\ \E r \in ResumePoints(j) :
               /\ IF job[j].state = "RUNNING" THEN IsResumePoint(j, r)
                                              ELSE r = None
               /\ RequeuedJob(j, r).requeue_count <= MaxRequeue
               /\ job' = [job EXCEPT ![j] = RequeuedJob(j, r)]
        /\ RevokeWithin(a)
        /\ MarkReservationExpired(attempt[a].node)
        /\ UNCHANGED <<now, attempt, epoch, report, released, granted,
                       checkpoint, skipped, handler, plan>>

(***************************************************************************)
(* release_lost_node_by_operator: only a reservation whose attempt the job *)
(* has left behind.                                                        *)
(***************************************************************************)
NoLongerNeeded(a) ==
    \/ ~ IsLatest(a)
    \/ job[JobOf(a)].state \in {"QUEUED", "COMPLETED", "FAILED"}

ReleaseLostNodeByOperator(n) ==
    LET a == reservation[n].attempt
    IN  /\ a # None
        /\ NoLongerNeeded(a)
        /\ reservation' = [reservation EXCEPT ![n] = NoReservation]
        /\ UNCHANGED <<now, job, attempt, lease, epoch, report, released,
                       granted, checkpoint, skipped, handler, plan>>

-----------------------------------------------------------------------------
(* The environment: a node publishes a checkpoint (also a node whose lease *)
(* was taken over), the shared store reads badly and well, the clock       *)
(* moves.                                                                  *)

PublishCheckpoint(a) ==
    /\ SharedRoot
    /\ MayRun(a)
    /\ checkpoint[a] < MaxStep
    /\ checkpoint' = [checkpoint EXCEPT ![a] = @ + 1]
    /\ UNCHANGED <<now, job, attempt, lease, epoch, reservation, report,
                   released, granted, skipped, handler, plan>>

(***************************************************************************)
(* A checkpoint of the shared store cannot be used for a while: its files  *)
(* cannot be read or do not match, or its signature does not verify with   *)
(* the keys and the clock of the search.                                   *)
(***************************************************************************)
CheckpointUnusable(c) ==
    /\ Cardinality(skipped) < MaxSkipped
    /\ skipped' = skipped \cup {c}
    /\ UNCHANGED <<now, job, attempt, lease, epoch, reservation, report,
                   released, granted, checkpoint, handler, plan>>

CheckpointUsable(c) ==
    /\ skipped' = skipped \ {c}
    /\ UNCHANGED <<now, job, attempt, lease, epoch, reservation, report,
                   released, granted, checkpoint, handler, plan>>

Tick ==
    /\ now < MaxTime
    /\ now' = now + 1
    /\ UNCHANGED <<job, attempt, lease, epoch, reservation, report, released,
                   granted, checkpoint, skipped, handler, plan>>

SetClockBack ==
    /\ ClockGoesBack
    /\ now > 0
    /\ now' = now - 1
    /\ UNCHANGED <<job, attempt, lease, epoch, reservation, report, released,
                   granted, checkpoint, skipped, handler, plan>>

-----------------------------------------------------------------------------
JobStep ==
    \E j \in Job :
        \/ SubmitAccepted(j)
        \/ StartPlanning(j)
        \/ Enqueue(j)
        \/ PlanAndEnqueue(j)
        \/ \E failure \in QueueFailures : FailQueued(j, failure)

SchedulerStep ==
    \/ \E s \in Scheduler :
           \/ \E j \in Job, n \in Node : TickPlan(s, j, n)
           \/ ReserveAndStage(s)
           \/ TickGivesUp(s)
    \/ \E a \in Attempt : Failover(a)

SessionStep ==
    \/ \E n \in Node : GrantRead(n)
    \/ GrantSign
    \/ RecordGrantAccepted
    \/ \E a \in Attempt, ahead \in Announcements \cup {0} : RenewRead(a, ahead)
    \/ \E a \in Attempt : FreshRenewRead(a)
    \/ RenewExisting
    \/ RenewSign
    \/ RecordProcessStarted
    \/ \E a \in Attempt, r \in Reports : ReportRead(a, r)
    \/ StoreReport
    \/ SessionEnds
    \/ \E a \in Attempt : MarkRevoked(a)

OperatorStep == \E n \in Node : ReleaseLostNodeByOperator(n)

EnvironmentStep ==
    \/ \E a \in Attempt : PublishCheckpoint(a)
    \/ \E j \in Job : \E c \in Usable(j) : CheckpointUnusable(c)
    \/ \E c \in skipped : CheckpointUsable(c)
    \/ Tick
    \/ SetClockBack

Next ==
    \/ JobStep
    \/ SchedulerStep
    \/ SessionStep
    \/ OperatorStep
    \/ EnvironmentStep

Spec == Init /\ [][Next]_vars

-----------------------------------------------------------------------------
(* Every row has its type: the columns of the tables and what the session  *)
(* handler and the schedulers carry between two transactions.              *)

JobRow ==
    [state : StoredJobStates \cup {"ABSENT"},
     queued_at : Nat \cup {None},
     staging_at : Nat \cup {None},
     running : BOOLEAN,
     run_terminal : RunTerminals \cup {None},
     queue_failure : QueueFailures \cup {None},
     requeue_count : 0 .. MaxRequeue,
     resume : (Nat \X Nat) \cup {None}]

AttemptRow ==
    [state : AttemptStates \cup {"ABSENT"}, node : Node \cup {None},
     fence : Nat]

LeaseRow == [issued : Nat, expires : Nat, grace : Nat, revoked : BOOLEAN]

ReservationRow == [attempt : Attempt \cup {None}, expired : BOOLEAN]

PlanRow == [attempt : Attempt, node : Node, issued : Nat]

HandlerStates ==
    {Idle}
        \cup [phase : {"sign", "ack"}, attempt : Attempt]
        \cup [phase : {"renew"}, session : {"FRESH", "RENEW"},
              attempt : Attempt, at : Nat, extension : Nat]
        \cup [phase : {"grace"}, session : {"FRESH", "RENEW"},
              attempt : Attempt, at : Nat]
        \cup [phase : {"started"}, attempt : Attempt, at : Nat]
        \cup [phase : {"report"}, attempt : Attempt, report : Reports,
              release : BOOLEAN]

TypeOK ==
    /\ now \in Nat
    /\ job \in [Job -> JobRow]
    /\ attempt \in [Attempt -> AttemptRow]
    /\ lease \in [Attempt -> LeaseRow]
    /\ epoch \in Nat
    /\ reservation \in [Node -> ReservationRow]
    /\ report \in [Attempt -> Reports \cup {None}]
    /\ released \subseteq Attempt
    /\ granted \subseteq Attempt
    /\ checkpoint \in [Attempt -> Nat]
    /\ skipped \subseteq Nat \X Nat
    /\ handler \in HandlerStates
    /\ plan \in [Scheduler -> PlanRow \cup {None}]

-----------------------------------------------------------------------------
(***************************************************************************)
(* The row shapes into_stored accepts.  A row of any other shape is        *)
(* CorruptData to every later read, the job can then neither run nor end.  *)
(***************************************************************************)
ReadableRow(row) ==
    LET notRunYet == ~ row.running /\ row.run_terminal = None
        noFailure == row.queue_failure = None
    IN  /\ row.resume # None => row.requeue_count > 0
        /\ CASE row.state = "ABSENT" -> row = AbsentJob
             [] row.state \in {"SUBMITTED", "PLANNING"} ->
                    /\ notRunYet /\ noFailure
                    /\ row.queued_at = None /\ row.staging_at = None
             [] row.state = "QUEUED" ->
                    /\ notRunYet /\ noFailure
                    /\ row.queued_at # None /\ row.staging_at = None
             [] row.state = "STAGING" ->
                    /\ notRunYet /\ noFailure
                    /\ row.queued_at # None /\ row.staging_at # None
             [] row.state \in {"RUNNING", "PAUSED"} ->
                    /\ row.queued_at # None /\ row.staging_at # None
                    /\ row.running /\ row.run_terminal = None /\ noFailure
             [] row.state = "COMPLETED" ->
                    /\ row.queued_at # None /\ row.staging_at # None
                    /\ row.run_terminal = "ATTEMPT_COMPLETED" /\ noFailure
             [] row.state = "FAILED" ->
                    /\ row.queued_at # None
                    /\ \/ /\ notRunYet /\ ~ noFailure
                          /\ row.staging_at = None
                       \/ /\ row.staging_at # None /\ noFailure
                          /\ row.run_terminal \in
                                 RunTerminals \ {"ATTEMPT_COMPLETED"}

(***************************************************************************)
(* No sequence of transactions leaves a job row the store refuses to read  *)
(* (job_store.rs, into_stored): requeue, pause, resume, queue failure and  *)
(* the end of an attempt each clear and set exactly the columns the next   *)
(* state needs, also after a requeue.                                      *)
(***************************************************************************)
RowsReadable == \A j \in Job : ReadableRow(job[j])

(***************************************************************************)
(* Fencing: no two attempts share an epoch, the epochs of a job's attempts *)
(* grow with its generations, and none is above the stored counter, so     *)
(* that "the latest attempt" is well defined whichever scheduler staged it *)
(* (allocate_epoch, scheduler_tick's generations).                         *)
(***************************************************************************)
FencesIncrease ==
    \A a \in Attempt :
        Exists(a) =>
            /\ 0 < attempt[a].fence /\ attempt[a].fence <= epoch
            /\ \A b \in Attempt \ {a} :
                   Exists(b) =>
                       /\ attempt[a].fence # attempt[b].fence
                       /\ JobOf(a) = JobOf(b) =>
                              (attempt[a].fence < attempt[b].fence
                                  <=> GenerationOf(a) < GenerationOf(b))

(***************************************************************************)
(* The generation of a job is that of its attempt while it runs; while it  *)
(* waits, the next attempt id is still unused.  An id used up would make   *)
(* reserve_and_stage answer with the old operation for ever: a job that is *)
(* schedulable and can never be staged again.                              *)
(***************************************************************************)
GenerationsMatch ==
    \A a \in Attempt :
        LET row == job[JobOf(a)]
        IN  /\ Exists(a) => GenerationOf(a) <= row.requeue_count
            /\ GenerationOf(a) = row.requeue_count =>
                   /\ row.state \in RunStates => IsLatest(a)
                   /\ row.state \in SchedulableStates => ~ Exists(a)

(***************************************************************************)
(* An attempt that was overtaken, or whose job is back in the queue or     *)
(* paused, has a revoked lease: whatever renewal is still under way for it *)
(* is refused (failover.rs and pause_for_owner_preempt_within revoke in    *)
(* the transaction that moves the job). And it was not left too early:     *)
(* unless its own node reported that it stopped, the lease and the grace   *)
(* after it are over by the coordinator's clock, and no late session adds  *)
(* to either again. (A clock that is set back takes the second half away.) *)
(***************************************************************************)
LeftByJob(a) ==
    Exists(a) /\ (~ IsLatest(a) \/ job[JobOf(a)].state \in SchedulableStates)

NodeStopped(a) == report[a] # None /\ report[a].outcome = "INTERRUPTED"

LeaseOver(a) ==
    /\ now > lease[a].expires + PolicyGrace
    /\ now > lease[a].expires + lease[a].grace

Surrendered(a) ==
    /\ lease[a].revoked
    /\ ClockGoesBack \/ NodeStopped(a) \/ LeaseOver(a)

OldAttemptsRevoked == \A a \in Attempt : LeftByJob(a) => Surrendered(a)

(***************************************************************************)
(* A job in progress holds its node: the latest attempt of a STAGING or    *)
(* RUNNING job that has not reported owns the reservation of the node it   *)
(* was placed on, so no second job is placed there (reserve_and_stage,     *)
(* release_within_transaction, release_lost_node_by_operator).             *)
(***************************************************************************)
LiveAttemptHoldsNode ==
    \A a \in Attempt :
        IsCurrent(a) /\ report[a] = None
            => reservation[attempt[a].node].attempt = a

(***************************************************************************)
(* What a reservation names is consistent: an attempt that exists, was     *)
(* placed on this node, and whose reservation was not already released; no *)
(* attempt holds two nodes.                                                *)
(***************************************************************************)
ReservationsSound ==
    \A n \in Node :
        LET a == reservation[n].attempt
        IN  a # None => Exists(a) /\ attempt[a].node = n /\ a \notin released

(***************************************************************************)
(* A job is COMPLETED only by the report of its latest attempt: reports of *)
(* overtaken attempts, which may arrive at any time, never complete it     *)
(* (follow_attempt_terminal).                                              *)
(***************************************************************************)
CompletedByLatest ==
    \A j \in Job :
        job[j].state = "COMPLETED" =>
            \E a \in AttemptsOf(j) :
                /\ IsLatest(a)
                /\ attempt[a].state = "COMPLETED"
                /\ report[a] # None /\ IsCompletion(report[a])

(***************************************************************************)
(* In a pool no lease is ever stored, and so none signed, beyond the total *)
(* duration of its attempt, whatever the node announces and wherever the   *)
(* clock is set between the read and the renewal                           *)
(* (announced_renew_extension_ms, validate_request).                       *)
(***************************************************************************)
LeaseWithinDuration ==
    PoolMode => \A a \in Attempt :
                    lease[a].expires <= lease[a].issued + MaxTotalDuration

(***************************************************************************)
(* A revoked lease stays revoked and is never prolonged, not even by a     *)
(* renewal that had read it before it was revoked                          *)
(* (renew_existing_within_duration re-reads the row).                      *)
(***************************************************************************)
RevokedStaysRevoked ==
    [][\A a \in Attempt :
           lease[a].revoked => lease'[a].revoked
                               /\ lease'[a].expires = lease[a].expires]_vars

(***************************************************************************)
(* The resume point of a job, once there is one, is never lost, and moves  *)
(* back to an older checkpoint only past one the search had to skip: not   *)
(* when an overtaken node publishes late, when the list of the shared      *)
(* store cannot be read while a job is paused, nor when the store reads    *)
(* well again (find_resume_point, requeue_after_node_lost,                 *)
(* pause_for_owner_preempt).                                               *)
(***************************************************************************)
ResumeNeverRegresses ==
    [][\A j \in Job :
           job[j].resume # None =>
               /\ job'[j].resume # None
               /\ \/ NotAfter(job[j].resume, job'[j].resume)
                  \/ job[j].resume \in skipped]_vars

(***************************************************************************)
(* A stored job state changes only along the normative table, by one row   *)
(* or by one of the paths a single transaction walks (plan_and_enqueue,    *)
(* follow_attempt_terminal, requeue_after_node_lost): no late report, no   *)
(* preemption and no failover leaves the table, whatever state the job     *)
(* reached meanwhile.                                                      *)
(***************************************************************************)
WalkedPaths ==
    {<<"PLANNING", "QUEUED">>, <<"RUNNING", "COMPLETED">>,
     <<"RUNNING", "FAILED">>, <<"INTERRUPTED", "FAILED">>,
     <<"INTERRUPTED", "REPLANNING", "QUEUED">>}

JobFollowsTable ==
    [][\A j \in Job :
           \/ job'[j].state = job[j].state
           \/ job[j].state = "ABSENT" /\ job'[j].state = "SUBMITTED"
           \/ \E path \in WalkedPaths \cup {<<job'[j].state>>} :
                  /\ Walkable(job[j].state, path)
                  /\ path[Len(path)] = job'[j].state]_vars

-----------------------------------------------------------------------------
(* What the invariants above rest on.                                      *)

(***************************************************************************)
(* A job that was never in the queue has no attempts.                      *)
(***************************************************************************)
UnqueuedUnattempted ==
    \A a \in Attempt :
        job[JobOf(a)].state \in {"ABSENT", "SUBMITTED", "PLANNING"}
            => ~ Exists(a)

(***************************************************************************)
(* A plan that is out of date names an attempt that exists by now.         *)
(***************************************************************************)
PlansCurrent ==
    \A s \in Scheduler :
        plan[s] # None =>
            LET a == plan[s].attempt
                count == job[JobOf(a)].requeue_count
            IN  /\ GenerationOf(a) <= count
                /\ Exists(a) \/ GenerationOf(a) = count

(***************************************************************************)
(* Nothing refers to an attempt that was not staged.                       *)
(***************************************************************************)
OnlyStagedAttempts ==
    /\ \A a \in Attempt :
           ~ Exists(a) => /\ attempt[a] = AbsentAttempt
                          /\ lease[a] = NoLease
                          /\ report[a] = None
                          /\ a \notin granted \cup released
    /\ \A a \in Attempt : Exists(a) => attempt[a].node \in Node
    /\ handler # Idle => Exists(handler.attempt)

(***************************************************************************)
(* What a session read, it read of a lease whose total duration is fixed.  *)
(***************************************************************************)
RenewalsCapped ==
    PoolMode /\ handler.phase = "renew" =>
        /\ handler.session = "RENEW"
        /\ handler.extension <= AtLeastZero(lease[handler.attempt].issued
                                               + MaxTotalDuration - handler.at)

(***************************************************************************)
(* A report that is stored again is the one stored before.                 *)
(***************************************************************************)
ReportsRepeated ==
    handler.phase = "report" =>
        report[handler.attempt] \in {None, handler.report}

IInv ==
    /\ TypeOK
    /\ RowsReadable
    /\ FencesIncrease
    /\ GenerationsMatch
    /\ UnqueuedUnattempted
    /\ PlansCurrent
    /\ OnlyStagedAttempts
    /\ ReportsRepeated
    /\ OldAttemptsRevoked
    /\ ReservationsSound
    /\ LiveAttemptHoldsNode
    /\ CompletedByLatest
    /\ RenewalsCapped
    /\ LeaseWithinDuration
=============================================================================
