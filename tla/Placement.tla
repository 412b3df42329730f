----------------------------- MODULE Placement -----------------------------
(***************************************************************************)
(* From the queue to a node: cli/plan_job.rs, cli/scheduler_tick.rs,       *)
(* cli/scheduler_loop.rs and coordinator/orchestrate.rs over the decisions *)
(* of SchedulerKernels.  ControlStore has what staging writes; here it is  *)
(* about which job is looked at, which node is chosen and from how old a   *)
(* picture.                                                                *)
(*                                                                         *)
(* One scheduler loop, as the runbook has it.  Times are ages, up to a cap *)
(* beyond every limit they are compared with, so that time can go on for   *)
(* ever.  The order of the jobs is the order of (queued_at, id); a job     *)
(* that comes back keeps its place.  What a node declared and observed is  *)
(* the subject of Inventory; here an observation bears it out or not.      *)
(***************************************************************************)
EXTENDS SchedulerKernels, Sequences

CONSTANTS
    PoolNodes, PoolJobs,    \* numbers
    Manifest,               \* of each job, as it was submitted
    Submitter,              \* --submitter-member
    NodeFacts,              \* of each node: what its registration says
    Offers,                 \* sets of GPUs that a node may declare
    SilentAfter,            \* --silent-after-ms, or None
    MaxSnapshotAge,         \* --max-snapshot-age-ms
    AxisOrder,              \* --best-fit-axes
    MaxLife,                \* bound: how long a manifest is valid
    MaxOffers,              \* bound: revisions of a declaration
    MaxElapsed              \* bound: how long one tick takes

ASSUME PlacementAssumption == PoolJobs \subseteq Nat \ {0} /\ None \notin PoolJobs

VARIABLES
    offer,         \* of each node: revision, GPUs and age of its declaration
    contradicted,  \* the node's last observation contradicts the declaration
    seen,          \* how long ago the node asked for work, or None
    reclaimed,     \* coordinator_node_reclaims
    holder,        \* the job that reserves the node, Lost, or None
    jobs,          \* of each job: its state and what is left of its manifest
    tick,          \* what the running tick read
    withOwner      \* history: the owner took the node and has not given it back

plVars == <<offer, contradicted, seen, reclaimed, holder, jobs, tick, withOwner>>

Lost == 0          \* the reservation of a job that failover put back

AgeCap == Max({MaxSnapshotAge, IF SilentAfter = None THEN 0 ELSE SilentAfter})
              + MaxElapsed + 1

Idle == [phase |-> "idle", queue |-> <<>>, expired |-> {}, choice |-> None, elapsed |-> 0]

\* validate_inventory, with which every declaration is stored: the ids of its
\* GPUs are not blank and differ; white space around one is let in.
ValidateInventory(gpus) == NoneBlank(gpus) /\ IdsDiffer(gpus)

PlacementInit ==
    /\ offer = [n \in PoolNodes |->
                  [revision |-> 1, age |-> 0,
                   gpus |-> CHOOSE o \in Offers : o # {} /\ ValidateInventory(o)]]
    /\ contradicted = [n \in PoolNodes |-> FALSE]
    /\ seen = [n \in PoolNodes |-> None]
    /\ reclaimed = [n \in PoolNodes |-> FALSE]
    /\ holder = [n \in PoolNodes |-> None]
    /\ jobs = [j \in PoolJobs |->
                 [state |-> "SUBMITTED", life |-> 0, usable |-> FALSE, local |-> FALSE]]
    /\ tick = Idle
    /\ withOwner = [n \in PoolNodes |-> FALSE]

-----------------------------------------------------------------------------
(* What a job needs. *)

\* job_requirements_from_manifest: nothing that was left out (None, the wire's
\* UNSPECIFIED) is made up, except
\* that a count of zero asks for one GPU.
RequirementsFromManifest(m) ==
    IF /\ Submitter # ""
       /\ \A part \in {"class", "sideEffect", "sensitivity", "tier", "isolation",
                       "protection"} : Known(m[part])
       /\ m.cpu > 0 /\ m.ram > 0 /\ m.workspace > 0
    THEN [submitter |-> Submitter, class |-> m.class, sideEffect |-> m.sideEffect,
          sensitivity |-> m.sensitivity, tier |-> m.tier, isolation |-> m.isolation,
          protection |-> m.protection,
          count |-> IF m.count = 0 THEN 1 ELSE m.count,
          vram |-> m.vram, models |-> m.models,
          cpu |-> m.cpu, ram |-> m.ram, workspace |-> m.workspace]
    ELSE Refused

Need(j) == RequirementsFromManifest(Manifest[j])

-----------------------------------------------------------------------------
(* The pool as the kernels see it. *)

\* pool_snapshot and project_candidate, seen from a moment that was elapsed ago.
\* A node that its owner took back has no sign of life.
Candidate(n, elapsed) ==
    LET f == NodeFacts[n]
    IN  [silence     |-> IF reclaimed[n] \/ seen[n] = None THEN None ELSE seen[n] - elapsed,
         reservation |-> holder[n],
         state |-> f.state, risk |-> f.risk, owner |-> f.owner,
         tier |-> f.tier, isolation |-> f.isolation, protection |-> f.protection,
         age      |-> offer[n].age - elapsed,
         mismatch |-> contradicted[n] /\ offer[n].gpus # {},
         gpus     |-> offer[n].gpus,
         cpu |-> f.cpu, ram |-> f.ram, workspace |-> f.workspace,
         classes |-> f.classes, optIn |-> f.optIn]

PoolSnapshot(elapsed) == [n \in PoolNodes |-> Candidate(n, elapsed)]

Policy(silentAfter) ==
    [silentAfter |-> silentAfter, maxAge |-> MaxSnapshotAge, axes |-> AxisOrder]

-----------------------------------------------------------------------------
(* Submission and planning. *)

Waiting(j) == jobs[j].state \in {"QUEUED", "PAUSED"}

\* plan_job::run: the manifest is good now, it says what it needs, and some node
\* could do it (no look at signs of life here).
PlanJob(j, life, local) ==
    /\ jobs[j].state = "SUBMITTED"
    /\ Need(j) # Refused
    /\ EvaluateEligibility(PoolSnapshot(0), Need(j), Policy(None)) # {}
    /\ jobs' = [jobs EXCEPT ![j] =
                  [state |-> "QUEUED", life |-> life, usable |-> TRUE, local |-> local]]
    /\ UNCHANGED <<offer, contradicted, seen, reclaimed, holder, tick, withOwner>>

\* The submitter's key is revoked or quarantined: the signature no longer counts.
LoseKey(j) ==
    /\ Waiting(j) /\ jobs[j].usable
    /\ jobs' = [jobs EXCEPT ![j].usable = FALSE]
    /\ UNCHANGED <<offer, contradicted, seen, reclaimed, holder, tick, withOwner>>

-----------------------------------------------------------------------------
(* One tick, in the order of scheduler_tick::run. *)

Queue == SelectSeq([j \in PoolJobs |-> j], Waiting)

\* The clock is read once, at the beginning; expiry is judged by it.
TickBegins ==
    /\ tick.phase = "idle"
    /\ tick' = [Idle EXCEPT !.phase = "scan", !.queue = Queue,
                            !.expired = {j \in PoolJobs : jobs[j].life = 0}]
    /\ UNCHANGED <<offer, contradicted, seen, reclaimed, holder, jobs, withOwner>>

NextInQueue == tick' = [tick EXCEPT !.queue = Tail(@)]

\* fail_queued; a paused job has no transition here and is passed over.
Infeasible(j) ==
    jobs' = IF jobs[j].state = "QUEUED" THEN [jobs EXCEPT ![j].state = "FAILED"] ELSE jobs

\* Mutant of the next definition: a job whose manifest has expired ends the tick.
ExamineUpToExpired(j) ==
    \/ /\ ~jobs[j].usable
       /\ NextInQueue
       /\ UNCHANGED jobs
    \/ /\ jobs[j].usable /\ j \in tick.expired
       /\ tick' = Idle
       /\ UNCHANGED jobs
    \/ /\ jobs[j].usable /\ j \notin tick.expired /\ ~jobs[j].local
       /\ Infeasible(j)
       /\ NextInQueue
    \/ /\ jobs[j].usable /\ j \notin tick.expired /\ jobs[j].local
       /\ tick' = [tick EXCEPT !.phase = "place"]
       /\ UNCHANGED jobs

\* stored_manifest_check, then pool_unsupported_durability.  The signature is
\* checked before the expiry, so a job whose signature no longer counts stays.
Examine(j) ==
    \/ /\ ~jobs[j].usable
       /\ NextInQueue
       /\ UNCHANGED jobs
    \/ /\ jobs[j].usable
       /\ j \in tick.expired \/ ~jobs[j].local
       /\ Infeasible(j)
       /\ NextInQueue
    \/ /\ jobs[j].usable /\ j \notin tick.expired /\ jobs[j].local
       /\ tick' = [tick EXCEPT !.phase = "place"]
       /\ UNCHANGED jobs

TickScans ==
    /\ tick.phase = "scan"
    /\ IF tick.queue = <<>>
       THEN tick' = Idle /\ UNCHANGED jobs                \* TICK_IDLE
       ELSE Examine(Head(tick.queue))
    /\ UNCHANGED <<offer, contradicted, seen, reclaimed, holder, withOwner>>

\* orchestrate_placement_to_staging, first half: a snapshot and the choice.  Only
\* the first job that is left is tried; without a node the tick is refused.
TickChooses ==
    /\ tick.phase = "place"
    /\ \E choice \in Placements(PoolSnapshot(tick.elapsed), Need(Head(tick.queue)),
                                Policy(SilentAfter)) :
          tick' = IF choice \in {None, Refused}
                  THEN Idle
                  ELSE [tick EXCEPT !.phase = "stage",
                           !.choice = [node |-> choice.node, gpus |-> choice.gpus,
                                       revision |-> offer[choice.node].revision]]
    /\ UNCHANGED <<offer, contradicted, seen, reclaimed, holder, jobs, withOwner>>

\* Mutant of the next definition: the revision is not compared again.
StillFreeNode(j, choice) ==
    Waiting(j) /\ holder[choice.node] = None

\* The conditions of reserve_and_stage.
StillAsPlanned(j, choice) ==
    /\ Waiting(j)
    /\ holder[choice.node] = None
    /\ offer[choice.node].revision = choice.revision

\* The second half, in another transaction.
TickStages ==
    /\ tick.phase = "stage"
    /\ LET j == Head(tick.queue)
       IN  IF StillAsPlanned(j, tick.choice)
           THEN /\ jobs' = [jobs EXCEPT ![j].state = "STAGED"]
                /\ holder' = [holder EXCEPT ![tick.choice.node] = j]
           ELSE UNCHANGED <<jobs, holder>>                \* TICK_REFUSED
    /\ tick' = Idle
    /\ UNCHANGED <<offer, contradicted, seen, reclaimed, withOwner>>

\* scheduler_loop::run goes on after a refused tick as after any other.
TickStep == TickBegins \/ TickScans \/ TickChooses \/ TickStages

-----------------------------------------------------------------------------
(* The nodes. *)

\* record_session_seen: only a node that comes for work shows that it takes any.
SessionSeen(n, mode) ==
    IF mode = "FRESH"
    THEN /\ seen' = [seen EXCEPT ![n] = 0]
         /\ reclaimed' = [reclaimed EXCEPT ![n] = FALSE]
    ELSE UNCHANGED <<seen, reclaimed>>

\* The pool part of serve_one_connection; what follows it (grant, renewal,
\* report) is in ControlStore.
Hello(n, mode, observation) ==
    /\ mode # "FRESH" => observation = "none"
    /\ SessionSeen(n, mode)
    /\ withOwner' = [withOwner EXCEPT ![n] = @ /\ mode # "FRESH"]
    /\ contradicted' = [contradicted EXCEPT ![n] =
          CASE observation = "none" -> @
            [] observation = "mismatch" -> TRUE
            [] observation = "match" -> FALSE]
    /\ offer' = [offer EXCEPT ![n].age = IF observation = "match" THEN 0 ELSE @]
    /\ UNCHANGED <<holder, jobs, tick>>

\* import_bootstrap, for a node that is registered.
Redeclare(n, gpus) ==
    /\ offer[n].revision < MaxOffers
    /\ ValidateInventory(gpus)
    /\ offer' = [offer EXCEPT ![n] =
                   [revision |-> @.revision + 1, gpus |-> gpus, age |-> 0]]
    /\ contradicted' = [contradicted EXCEPT ![n] = @ /\ gpus # {}]
    /\ UNCHANGED <<seen, reclaimed, holder, jobs, tick, withOwner>>

\* The job on the node ends, and its report frees the node.
JobEnds(n) ==
    /\ holder[n] \in PoolJobs
    /\ jobs' = [jobs EXCEPT ![holder[n]].state = "ENDED"]
    /\ holder' = [holder EXCEPT ![n] = None]
    /\ UNCHANGED <<offer, contradicted, seen, reclaimed, tick, withOwner>>

\* pause_for_owner_preempt_within: with the report, in one transaction.
OwnerPreempts(n) ==
    /\ holder[n] \in PoolJobs
    /\ jobs' = [jobs EXCEPT ![holder[n]].state = "PAUSED"]
    /\ holder' = [holder EXCEPT ![n] = None]
    /\ seen' = [seen EXCEPT ![n] = None]
    /\ reclaimed' = [reclaimed EXCEPT ![n] = TRUE]
    /\ withOwner' = [withOwner EXCEPT ![n] = TRUE]
    /\ UNCHANGED <<offer, contradicted, tick>>

\* Failover puts the job back and leaves the reservation to the operator.
JobLost(n) ==
    /\ holder[n] \in PoolJobs
    /\ jobs' = [jobs EXCEPT ![holder[n]].state = "QUEUED"]
    /\ holder' = [holder EXCEPT ![n] = Lost]
    /\ UNCHANGED <<offer, contradicted, seen, reclaimed, tick, withOwner>>

OperatorReleases(n) ==
    /\ holder[n] = Lost
    /\ holder' = [holder EXCEPT ![n] = None]
    /\ UNCHANGED <<offer, contradicted, seen, reclaimed, jobs, tick, withOwner>>

Older1(age) == IF age = None THEN None ELSE Min({age + 1, AgeCap})

TimePasses ==
    /\ tick.phase # "idle" => tick.elapsed < MaxElapsed
    /\ tick' = IF tick.phase = "idle" THEN tick ELSE [tick EXCEPT !.elapsed = @ + 1]
    /\ offer' = [n \in PoolNodes |-> [offer[n] EXCEPT !.age = Older1(@)]]
    /\ seen' = [n \in PoolNodes |-> Older1(seen[n])]
    /\ jobs' = [j \in PoolJobs |-> [jobs[j] EXCEPT !.life = Max({0, @ - 1})]]
    /\ UNCHANGED <<contradicted, reclaimed, holder, withOwner>>

PlacementNext ==
    \/ TickStep
    \/ TimePasses
    \/ \E j \in PoolJobs :
          \/ \E life \in 1 .. MaxLife, local \in BOOLEAN : PlanJob(j, life, local)
          \/ LoseKey(j)
    \/ \E n \in PoolNodes :
          \/ \E mode \in {"FRESH", "RENEW", "REPORT"},
                observation \in {"none", "match", "mismatch"} : Hello(n, mode, observation)
          \/ \E gpus \in Offers : Redeclare(n, gpus)
          \/ JobEnds(n) \/ OwnerPreempts(n) \/ JobLost(n) \/ OperatorReleases(n)

\* The loop runs (--max-ticks 0) and time goes on.  Nothing is assumed of nodes,
\* owners and operators.
PlacementFairness == WF_plVars(TickStep) /\ WF_plVars(TimePasses)

-----------------------------------------------------------------------------

Staged(n) == holder'[n] # holder[n] /\ holder'[n] \in PoolJobs

\* A choice made from an older picture is carried out only if it still holds.  The
\* declaration that is in force when the job is put on a node has the GPUs it
\* needs; and with --silent-after-ms the loop gives no work to a machine whose owner
\* preempted the job on it until the node itself comes for work again, renewals and
\* reports under way notwithstanding (node_liveness_store.rs:243-246).
StagedOnFreshFacts ==
    [][\A n \in PoolNodes :
           Staged(n) =>
               /\ EvaluateGpus(offer[n].gpus, Need(holder'[n]))
               /\ SilentAfter # None => ~withOwner[n]]_plVars

\* No job hangs in the queue: it is placed or taken down, or its signature no
\* longer counts, even if the first in the queue never finds a node
\* (scheduler_loop.rs:1-40).
QueuedJobsSettle ==
    \A j \in PoolJobs :
        (jobs[j].state = "QUEUED") ~> (jobs[j].state # "QUEUED" \/ ~jobs[j].usable)

=============================================================================
