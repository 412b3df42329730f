# gPUteer: a verification project

gPUteer lets a few people who trust each other lend GPUs to each other's jobs.
A *coordinator* keeps a control database and talks to *agents* on the nodes; a
*scheduler* and some operator commands work on the same database; agents run
the work, publish *checkpoints* to a shared store and report the end. This
directory holds TLA+ modules for the parts of it that can be model-checked,
TLC configurations, and TLAPS proofs. `PROJECT.json` maps definitions to source
lines and lists runs, mutants, hazards, findings and theorems.

## 1. Inventory

| Part (crates/…) | State it keeps | Operations | What is hard | What makes it correct |
|---|---|---|---|---|
| `protocol` job and attempt state machines, report rules | none (tables) | `transition`, `walk`, `validate_attempt_report_semantics` | paths that one transaction walks | stored states move only along the tables |
| `coordinator/job_store` | `coordinator_jobs`: state, stamps, requeue count, resume point, reasons of an end; submission keys and manifests | submit (with or without manifest), plan, enqueue, fail in the queue, requeue, pause, complete staging, follow the end of an attempt | several columns per state, long histories, repeated submissions | every row readable; a finished job never moves; a key names one job |
| `coordinator/staging_store` | attempts, node reservations, epoch counter, operations | `reserve_and_stage`, ACK and start records, expired mark | several schedulers, stale plans | distinct growing epochs, one job per node |
| `coordinator/lease_store` | leases: issue, expiry, grace, revocation | issue, renew, raise grace, revoke | renewals that race a revocation; clocks | no renewal after a revocation or past the total duration |
| `coordinator/attempt_report_store`, `reservation_release` | reports, releases | store a report with all its consequences in one transaction; release separately with an authorization | late and repeated reports; a decision taken before the transaction | only the latest attempt ends a job; no node freed under another job |
| `coordinator/failover` | (writes the tables above) | requeue lost jobs, owner preemption, operator release | a slow node is not a dead node | overtaken attempts can do nothing more |
| `coordinator/lib`, `grant_from_stored` | one session at a time | FRESH, RENEW, REPORT, RESUME sessions | several transactions per session, crashes between them, broken connections | as above, at every interleaving; both processes end |
| `coordinator/multi_agent` | replay guard and lease table behind a lock | accept, a thread per connection, join | mute clients, a lock held while reading | every thread and the process end |
| `cli/scheduler_tick`, `scheduler_loop`, `orchestrate`; `scheduler` kernels | a snapshot | choose job and node, stage | the snapshot is stale when used; unknown facts | filter, ranking and scope agree; staging checks again; a job that can be placed is |
| `coordinator/inventory_store`, `gpu_attestation` | declared and observed GPUs per node, revisions | import, record a match or mismatch | observations out of order, ambiguous GPUs | a contradicted node gets no work, an honest one is not excluded |
| liveness, neighbour, replica and manifest inboxes | latest facts per node, bounded tables | record verified observations | out-of-order and repeated observations, limits | the newest fact wins, stored evidence does not change |
| `agent/lib`, `owner_panel` | lease as signed, outbox, watermark, owner's choice | renew over new connections, stop itself, keep, pause, announce, send reports until acknowledged | lost answers, threads, two clocks, order of start-up | never runs past what was signed; the report arrives |
| `agent/run_ledger` | SQLite file, its pair, two markers, start records | create, adopt, open; insert, settle, close, clear a row | crash between two files, lost and old copies | no start is forgotten, a lost ledger is never replaced in silence |
| `agent/container`, `exec`; `cli/agent_loop` | containers, incident marks, processes | create, start, wait, stop, remove; clear; next round | commands without an answer, carried out late | nothing runs twice, no work beside a stray container |
| `checkpoint`, `agent/checkpoint_publisher` | files of a checkpoint, manifest, signature, pointer, markers | write once, commit, sign, publish, recover, collect garbage | crash between two files, a workload that still writes | what is signed is whole; a resume restores one folder |
| `crypto` replay guards, `runtime-policy` fence watermark | nonces with retention, largest epoch | check and record, sweep | restart, garbage collection, clock back | no message accepted twice, no older epoch |
| `crypto` ingress and keyring | key versions per signer, a file | rotate, quarantine, revoke, look up, save, load | crash during a save, clock back | a revoked key stays revoked; no gap in a rotation |
| `cli/coordinator_agent_selftest` | – | the scenarios of a session | each is run in one order only | they hold in every order |
| `runtime-*`, canonical encoding, dashboards, doctor | – | I/O, pure functions | – | not modelled |

Interaction: everything that decides about jobs meets in one SQLite database.
Every write is a `BEGIN IMMEDIATE` transaction, so transactions are atomic and
serial; what can go wrong lies *between* the transactions of a session, between
a scheduler's snapshot and its staging, between two file operations, between two
clocks, and in messages that arrive late, twice or never.

## 2. Plan

Done:

1. control store: `JobState`, `AttemptState`, `ControlStore`, the contract
   `JobContract` it implements, the proofs;
2. agent run and run ledger: `RunLedgerFiles`, `AgentRun`, with their proofs;
3. lease renewal between agent and coordinator: `LeaseRenewal`;
4. checkpoint files: `CheckpointFiles`;
5. sessions frame by frame, replay guards, keyring, concurrent lane;
6. inventory, liveness, neighbour and evidence stores, submissions;
7. scheduler kernels, and the scheduler loop over them: `Placement`;
8. proofs of the newer parts: the contract (`ContractKept`), resume points and
   the job table, lease renewal, checkpoint files, replay guards, sessions,
   keyring;
9. proofs about the way to a placement: stores, inventory, kernels, the loop.

Left, in this order:

10. a composition of `LeaseRenewal` with the staging of `ControlStore`, where the
    successor is an attempt and not only the instant `taken` (`NoOldLease` proves
    the coordinator's side of it);
11. the neighbour and manifest lanes of a session.

## 3. Modules

Control store:

* `JobState`: the job table, the states the store reads back, walked paths.
* `AttemptState`: the attempt table, the reports the rules allow, the state a
  report proves (`TerminalStateFor`), and the path to it (`NormativePaths`).
* `ControlStore`: the tables as functions, one action per transaction. The
  attempt and its lease are inserted together, so they share the name
  `<<job, generation>>` (`scheduler_tick` derives their ids from job, plan and
  requeue count). What a session carries from one transaction to the next is
  `handler`; what a scheduler read is `plan`. The coordinator serves one
  session at a time, so there is one handler; any number of schedulers.
* `JobContract`: what the pool promises about a job, in four variables.
  `ControlStoreContract`: the refinement mapping and `KeepsContract`.
* `ControlStore_proofs`, `ControlStoreContract_proofs`. `MCControlStore`: reports and symmetry.

Agent:

* `RunLedgerFiles`: the ledger file, its pair, the two markers and the start
  records as variables; one action per file operation of `open_for_agent` and
  `adopt_legacy_files`, which share the creation sequence. The holder of the
  root lock is `process`; a crash forgets it and leaves the files.
  `RunLedgerFiles_proofs`; checked in `MCSession`.
* `AgentRun`: one node's agent over many rounds. On disk: rows, start records,
  incident marks, outbox, owner's mark; outside: the containers (`box`). The
  process has a program counter in the order of `run` and
  `run_one_connection_inner`; every transaction, file operation and runtime
  command is a step. It takes the ledger's files as sound, which is what
  `ServesWithCompleteLedger` shows of them. `AgentRun_proofs`, `MCAgentRun`.
* `LeaseRenewal`: one running attempt, the renewal thread (a new connection for
  each request), the watcher thread, the owner's panel with its lock sections,
  the container, and on the other side the stored lease, the sessions and the
  failover. Two clocks that differ by a constant `lag`. `LeaseRenewal_proofs`,
  `MCLeaseRenewal`.
* `CheckpointFiles`: the folders a workload writes, the shared root, the
  agent's own checkpoint root with the markers of a result, the publisher thread
  and the start-up collection, one step per file. `CheckpointFiles_proofs`,
  `MCCheckpointFiles`.

From what is known of the nodes to the choice of one:

* `SchedulerKernels`: eligibility, ranking, GPU scope, the class of a node by
  its silence, the reassignment gate, as operators on records. The GPUs of a node
  are a list in the code, so each has its slot here and two may have one id; an id
  may be blank (`BlankIds`) or have white space at an end (`PaddedIds`), and a sum
  over `MaxSum` is an overflow. Nothing in the product calls `gpu_scope_candidate`.
* `GpuAttestation` (what it means that a declared and an observed GPU fit) and
  `GpuMatching`, the augmenting-path search of `match_declaration`. Its `augment`
  is a recursive function in the code; here the stack of its calls is state
  (`calls`) and one turn of its loop is a step, so that the search can be proved
  about: a call goes on to the next observed GPU, asks the owner of the one it is
  at, takes a free one (all callers then take theirs), or returns without one.
* `HeartbeatStore`, `NeighborReportStore`, `EvidenceStores` (manifests, replica
  acknowledgements, report rows, the separate release), `JobSubmission`,
  `Inventory`: one store each, one action per method that writes.
* `Placement`: the scheduler loop in its steps (snapshot, scan of the queue,
  choice, staging) beside nodes that say hello, declare again and end work,
  owners that reclaim, failover and operators, over the kernels and the
  inventory's facts.
* `Pool`: these components share no state in the model, so a behaviour
  looks at one of them, the `focus` chosen at the start. For a pure kernel the
  behaviour is a question asked (`asked`) out of a given set. `Pool_proofs`;
  `MCPlacement` has the bounded questions.

Sessions:

* `Session`: the coordinator and agent processes of the configuration lane,
  frame by frame, with the lease database, the fence watermark and the clock
  that outlive them. A scene is a sequence of phases, each a pair of processes
  with their arguments.
* `SessionScenes`: the scenarios of the repository's self test as scenes, each
  with what it asserts, and some free scenes that assert nothing: there a
  connection breaks at any frame, and only `EpochNeverBack` and `SessionsEnd`
  are asked. A refusal of the argument parsers is the hook `badConfig`.
* `ReplayGuard`: the memory and durable guards for hello and other frames.
* `Keyring`: versions of keys and the file they are saved in.
* `ConcurrentLane`: the accepting thread, a thread per connection, the lock
  around the replay guard, clients of several kinds.
* `MCSession`: again one `focus` per behaviour, of these and of `RunLedgerFiles`:
  an agent opens its ledger before its session. `Session_proofs`.

How actions correspond to code:

| Action | Code |
|---|---|
| `SubmitAccepted`, `StartPlanning`, `Enqueue`, `PlanAndEnqueue`, `FailQueued` | the methods of `CoordinatorJobStore` |
| `TickPlan`, `ReserveAndStage`, `TickGivesUp` | `scheduler_tick::run`, `orchestrate_placement_to_staging`, `reserve_and_stage` |
| `GrantRead`, `GrantSign`, `RecordGrantAccepted` | `work_assigned_to_node` and the checks of `signed_grant_from_stored`; `raise_reassignment_grace`; `record_grant_accepted` |
| `RenewRead`, `FreshRenewRead`, `RenewExisting`, `RenewSign`, `RecordProcessStarted` | `serve_renew_session`, the renewals inside a FRESH connection, `renew_existing_within_duration`, `with_signed_reassignment_grace`, `record_process_started` |
| `ReportRead`, `StoreReport` | `store_terminal_report_with_policy` before and in `store_verified_terminal_report_inner`, with the release and `pause_for_owner_preempt_within` |
| `SessionEnds` | every refusal, rollback, lost connection and crash of the coordinator: nothing more is written |
| `MarkRevoked` | the configured revocations |
| `Failover`, `ReleaseLostNodeByOperator` | `failover_lost_attempts` (one transaction per job), `release_lost_node_by_operator` |
| `PublishCheckpoint`, `CheckpointUnusable`, `CheckpointUsable`, `Tick`, `SetClockBack` | a node that may be overtaken; files of the shared store that cannot be read or verified, for a while; the wall clock |

| Action (agent) | Code |
|---|---|
| `AgentOpens` … `RefuseLedger`, `AdoptOpens` | `open_for_agent`, `adopt_legacy_files`, one step per file operation |
| `StartAgent`, `Relaunch` | the next round of `agent_loop::run_rounds`; the operator starts the loop again |
| `ResolveRow`, `ResolveIncident`, `ResolveEnds` | `resolve_active_ledger_rows`, `open_run_ledger_at_startup` |
| `CheckReclaimed` … `FlushEnds` | the rest of `run` up to the session: owner's mark, incidents, `remove_leftovers`, `flush_report_outbox` |
| `ReceiveGrant` … `ConfirmStart` | `run_one_connection_inner` up to `execution_attempted`; `ConnectionLost` stands for every error there and for the retry of `run` |
| `Spawn` … `HostWaitFails`; `Create` … `ContainerExitSeen` | `exec::platform::execute`; `container::run_inner` |
| `RecordIncident`, `Settle`, `MarkReclaimed`, `PersistReport`, `CloseReported`, `DeliverReport` | the end of a run, in that order |
| `Clear`, `ClearRow`, `ClearIncidents`, `OwnerResume` | `clear_container_incidents`, `owner_resume` |
| `LateStart`, `LateCreate`, `InFlight`, `Dies` | a runtime that carries out later what it accepted; the end of the process |

| Action (renewal, checkpoints) | Code |
|---|---|
| `renew_once_over_new_connection`, `RenewSucceeds`, `RenewRefused`, `RenewFails`, `RenewRejected` | the renewal thread: one request, and the four ways it ends |
| `serve_renew_session`, `serve_late_request`, `failover_lost_attempts` | the coordinator, also for a request whose sender has given up |
| `near_finish_hold`, `LooksAway`, `self_stop_if_due`, `WatcherStops` | one look of the watcher thread; the stop is a step after the decision, the lock is free between |
| `keep_running`, `announce_disconnect`, `pause`, `ResumeBegins` … `ResumeStops`, `OwnerStops` | requests to the owner's panel; a resume thaws, asks again and freezes or stops |
| `begin`, `stage`, `commit`, `sign_folder`, `write_signed_manifest`, `publish_or_recover` | the publication of one folder; `PublishFails`, `PublisherPanics` and `Death` at every file |
| `write_checkpoint_inner`, `CheckOrMark`, `replace_with_retry`, `fail_after_materialization` | the result of a run |
| `claim_checkpoint_root`, `startup_gc`, `prepare_resume` | the next start |

| Action (placement, stores) | Code |
|---|---|
| `TickBegins`, `TickScans`, `TickChooses`, `TickStages` | one round of `scheduler_loop`: the snapshot, each job of the queue, the choice, `reserve_and_stage` with the inventory revision |
| `Hello`, `Redeclare`, `JobEnds`, `OwnerPreempts`, `JobLost`, `OperatorReleases` | what sessions and commands do to the facts under the loop |
| `Observe`, `RebindDevice`, `CancelRebind`; `RecordVerifiedReport`, `Open` | `node_liveness_store`; `neighbor_report_store` |
| `ImportBootstrap`, `HelloWithObservation` | documents and observed GPUs in `inventory_store` |
| `StoreVerifiedManifest`, `StoreVerifiedAck`, `StoreReportRow`, `ReleaseForVerifiedTerminalReport` | the inboxes and `reservation_release` |
| `SubmitWithoutManifest`, `SubmitVerifiedManifest` | `submit_accepted`, `submit_verified_manifest` |

| Action (sessions) | Code |
|---|---|
| `CoordinatorStarts` … `ReadsResume` | `coordinator::run`, `serve_one_connection_impl`: one step per frame, store call, sleep or deadline |
| `AgentStarts` … `AWriteFails` | `agent::run`, `run_one_connection_inner` without the workload |
| `Breaks`, `AgentKilled`, `CoordinatorKilled`, `TimeRuns` | faults, in the free scenes |
| `Take`, `Refuse`, `Sweep`, `Restart`, `SetClock` | `check_and_record`, `gc`, the process and the wall clock |
| `Insert`, `Rotate`, `RevokeSigner`, `SetQuarantine`, `SaveBegins` … `LoadRing` | the keyring and its file |
| `LaneAccepts`, `Locks`, `ThreadReadsHello` … `ThreadReadsAck` | `run_multi_agent` and `serve` |

A command of the runtime is one step with all its outcomes: done and answered,
done or not and not answered, accepted and done later. In `AgentRun`,
`stop_and_confirm`, saving logs and removing are one step of `StopConfirmed` and
`ContainerExitSeen`; a crash inside it leaves a state that a crash before or
after it also leaves. `AgentRun` is the configuration of the pool:
`--require-ack-receipt` and `--report-over-session` on, a container runtime
configured. A start record that is read twice for one grant is read once.

Abstractions: times are small numbers; a resume point is the pair (epoch, step)
by which `find_resume_point` orders checkpoints. The store keeps every one that
was published; those that a search would skip at this moment, because their
files or their signature fail, are `skipped`. A report is its schema,
outcome and whether the exit was observed. A signature is whether it verifies, a
digest whether the content is the same. `TickGivesUp` covers all refusals of
staging in `ControlStore` (inventory revision, GPU ids, missing manifest row,
operation replay); `Placement` tells them apart. The stamps of SUBMITTED and
PLANNING are not kept: they could only delay planning when the clock is set
back. A tick reads the clock once and uses it in later transactions; `Failover`
reads it in its transaction, which allows more behaviours as long as the clock
does not go back. In `LeaseRenewal` an instant is the time a round of the
agent's threads takes: the clock moves on only when the watcher has looked and
what is due was begun. Files are written by `write_once`, whose partial effects
are nothing, the temporary file, or the file without the directory's sync.

## 4. Runs

| Run | Instance | Shows |
|---|---|---|
| `pool_one_job` | 1 job, 2 nodes, 3 generations, checkpoints, 4 instants | `RowsReadable`, `OldAttemptsRevoked`, `CompletedByLatest`, `LeaseWithinDuration`, `JobFollowsTable`, `KeepsContract` |
| `pool_resume` | 1 job, 2 nodes, 3 generations of 2 checkpoints, of which any one cannot be used for a while, preemption, 3 instants | `ResumeNeverRegresses`: the stored resume point is not lost and falls back only past a checkpoint that the search had to skip |
| `pool_race` | 2 jobs, 1 node, 2 schedulers, 2 generations | `LiveAttemptHoldsNode`: no late report, failover or operator takes the node of the job that runs there; `FencesIncrease` |
| `legacy` | outside a pool: older reports, revocations, ACK moves the job, renewals in the FRESH connection, announcements, the clock set back at any time | `KeepsContract`, `RevokedStaysRevoked` |
| `agent_ledger` | 2 containers, ledger, 2 deaths, 1 reconnection | `RunsOnce`, `NoWorkBesideStray`, `EveryStartAccountedFor` |
| `agent_no_ledger` | container and host process, no ledger | `RunsOnce` without the ledger's help |
| `agent_reports` | container and host process, ledger, 1 death | `EndsToldTruly`, and `ReportsArrive` |
| `checkpoint` | 2 runs, 2 files, 2 folders, 1 fault, 1 death | `SignedIsWhole`, `ResumesFromOneFolder`, `CollectionKeepsResults`; `StepsArrive` |
| `renewal` | extension 5 of at most 8, margin and graces 1, clock lag 1 or 3, 2 lost connections, 1 failed command, 2 requests of the owner | `NoOverlap`, `StoppedForCause`, `RefusedIsStopped` |
| `announced_lease` | announcements, 3 lost connections, no lag | **violated**: `AnnouncedLeaseKept`, see Findings |
| `placement` | the kernels on bounded questions; each store with 1 or 2 nodes; the loop with 1 node, 2 jobs | `KernelsAgree`, `QuorumIsReal`, `ObservationsNeverGoBack`, `ContradictedNodeExcluded`; `PairingFound`, `StagedOnFreshFacts`; `QueuedJobsSettle` |
| `session` | all scenes; 3 envelopes, 1 restart; 1 signer with 3 key versions; lane with 2 connections; run ledger with 3 attempts, 2 generations, 3 crashes, 1 loss | `SelftestHolds`, `EpochNeverBack`, `AcceptedOnce`, `KeysHold`; `OneGeneration`, `ServesWithCompleteLedger`, `LedgerUseIsFinal`; `SessionsEnd`, `InterruptedIsFinished` |

Why the bounds are enough. In the control store the races are between two
generations of a job (an overtaken attempt and its successor), and a third
generation shows that the successor can itself be overtaken. Two jobs on one
node are enough for a reservation to change hands, two schedulers for a stale
plan. With a lease of one instant, a total duration of two and four instants
every order of expiry, renewal, failover and report occurs. The clock is set back
only in `legacy`; that it does no harm to the total duration in a pool is shown by
the theorem `DurationBounded` alone. In `pool_resume` two
checkpoints an attempt and one that is skipped let a search take an older one of
the same attempt or of an earlier one, or find none where a resume point is stored:
all three occur, and the resume point does move back there. For the agent, what
matters is one attempt whose end is not known and another that is granted next,
so two attempts are enough; two deaths let the recovery from a death be
interrupted itself. Three crashes interrupt a creation of the ledger, its
repetition and the opening after it. The bound of one loss is part of what is
claimed: if the ledger *and* its pair are gone nothing on disk can tell that
there was a ledger, and the theorem on its use assumes `MaxLoss <= 1`.

In `checkpoint` two files tell a whole folder from half of one, two folders a
first and a second step, and a death together with a fault reaches every partial
directory, its collection and its recovery. In `renewal` the times let a lease
be renewed in full once and once more up to the total duration; the lags are one
within the margin, for `NoOverlap`, and one beyond the grace: only then does the
node still run when the coordinator has revoked it, and a signed refusal reaches
a live workload. In `placement` two devices, two reporters about two targets with
room for two rows, and three observation times are enough for a newer
observation to be pushed out and an older one to arrive again; three declared and
observed GPUs make a search along a path of two exchanges necessary; among the
questions to the kernels are nodes with a blank, a padded and a repeated id, and
two GPUs whose sum is over `MaxSum` = 1. In `session`
time is in tenths of a second, as the
self test's arguments; the free scenes let a lease of two seconds expire.

Every property has a mutant, a plausible error in one definition, that violates
it within the same bounds.

Deadlock checking is off where bounds or the end of the processes stop every
behaviour (control store, `checkpoint`, `renewal`, `announced_lease`, `session`)
and for the ledger files, where a damaged ledger is refused for ever by design.
It is on for `AgentRun` and `placement`.

### Fairness

Safety runs assume nothing about scheduling. Otherwise:

* `session`, the run ledger: a process moves on (it does file operations only);
  agent-loop starts the agent again and again (strong, since the lock may be taken); an
  adoption that was begun is run again, which RUN_LEDGER_ADOPT_UNFINISHED tells
  the operator at every start.
* `agent_reports`: the process moves on, since every read and every runtime
  command has a timeout; workloads end (a workload that never ends keeps the
  next start, and with it the outbox, waiting); the loop starts the agent again,
  and the operator the loop after AGENT_LOOP_STOPPED; the operator clears
  incidents, as the messages of a blocked start ask; removal of a left-over
  container and delivery of a report succeed at some time if they are tried for
  ever. Without the operator's part `ReportsArrive` is false.
* `checkpoint`: the publisher thread and the thread that writes the result move
  on (file operations). Nothing is assumed of the workload, of a next start or
  of the faults.
* `placement`: the scheduler loop moves on and time passes. Nothing is assumed
  of nodes, owners, failover or operators.
* `session`, the rest: each process and thread takes a step it can take; every wait has a
  deadline, which is such a step. The harness starts the next pair of processes.

### Findings

`announced_lease`: a renewal stores the new expiry as now plus the extension of
this request, also when the stored lease ends later. If the owner announces an
absence, the lease is prolonged, and the next renewal goes out without the
announcement, the stored lease becomes shorter. If the answer is lost, the node
works on under the longer lease it holds, and failover gives the job away, where
the runbook (신뢰망_설치_운영.md:523) says it does not. Without announcements this
cannot happen, for any times and losses: theorem `HeldLeaseKept`.

Remarks met while modelling, on which no run stands:

* Failover marks a reservation as expired by node (`failover.rs:199`,
  `staging_store.rs:1261`): after an INTERRUPTED report freed the node, the mark
  can land on the live reservation of another job. The operator's release
  ignores the mark, so no node is freed by it.
* A paused job goes straight to RUNNING when it is staged again
  (`staging_store.rs:825`); if it is acknowledged and never started, failover
  treats it as a job that ran, where the runbook (:728) promises the queue.
* A search for the resume point skips a checkpoint that it cannot read or verify
  at that moment, and requeue and pause store what it finds (`failover.rs:308`,
  `job_store.rs:1264`, `:1302`): after a passing fault of the shared store a job goes
  on from an older checkpoint although the newer one is intact again. If none is left, requeue fails
  a RUNNING job even though the row names a resume point. The runbook (:735)
  says that such checkpoints are skipped.
* Ranking and scope check the ids of GPUs, the filter does not. The inventory lets
  no blank or repeated id in (`inventory_store.rs:985`), so a node that the filter
  lets through stops a ranking only by a sum over 2^64; but it lets white space
  around an id in, for which the scope refuses the node.
* A start that finds a LOCAL_BLOCKED row or an open incident ends before the
  outbox is looked at (`lib.rs:3933`), where the outbox manual says that the
  next start sends what could not be sent.
* In the concurrent lane a thread that waits for the required overlap looks
  again after it woke and can miss an overlap that was there
  (`multi_agent.rs:755-788`; off by default). A mute client holds the lock of
  the replay guard for up to ten seconds, in which the others' reads wait.
* A tick tries only the first usable job of the queue: while no node fits it, the
  jobs behind it wait until its deadline. Without `--silent-after-ms` a reclaimed node
  is a candidate at once. A hello without a usable observation still gets the
  grant of a reserved node. An observation recorded between a tick's reading of
  the clock and its snapshot counts as not fresh in that tick.
* The replay guards' `gc` has no caller in the product, and one wrong reading up
  to five minutes ahead shortens the retention (documented in `replay.rs:44-82`;
  `AcceptedOnce` is stated for readings within that limit).
* Two `submitter-add` commands at once overwrite each other: the key file has no
  lock. `Keyring` and `KeysHold` are about one process at a time. A rotation while
  the clock is before the last rotation leaves the middle version open-ended.
  Rotation, quarantine, revocation and the separate release have no caller in
  the product, and nothing reads the manifest and acknowledgement inboxes.
* `NoOverlap` needs clocks that differ by no more than the stop margin, which
  the runbook asks for (NTP) and the code cannot check.

## 5. Proofs

`ControlStore_proofs` proves for all sets and settings that satisfy the named
assumptions of `ControlStore` (a lease is not longer than the total duration,
`None` is no value; finiteness is not needed):

* `Invariance`: `Spec => []IInv`;
* from it `TypeCorrect`, `RowsStayReadable`, `Fencing`, `NoOldLease`,
  `NodesHeld`, `CompletionIsLatest`, `DurationBounded`;
* `RevocationFinal`: the action property `RevokedStaysRevoked`.

Why a strengthening is needed: `FencesIncrease` needs that a staged attempt is
of the newest generation, which needs that a plan that is out of date names an
attempt that exists by now (`PlansCurrent`), which needs that a running job has
an attempt of its present generation (`GenerationsMatch`). `OldAttemptsRevoked`
after a staging needs that the attempts of a waiting job are all surrendered
already; that they stay so rests on `LeasesKept`, by which no session that read
a lease before its revocation adds to its end or its grace afterwards, and on a
clock that is not set back (with `ClockGoesBack` only the revocation is left).
`NoOldLease` is the coordinator's half of what `NoOverlap` says of one node:
it shows for all interleavings of sessions and schedulers that a job is taken
away no earlier than `LeaseRenewal` lets its failover act.
`LiveAttemptHoldsNode` needs that a reservation names the latest attempt of its job (`ReservationsSound`). `CompletedByLatest` needs that a
stored report is never replaced (`ReportsRepeated`), `LeaseWithinDuration` that
the extension a session carries was cut by a duration that does not change
(`RenewalsCapped`), and all of them that nothing refers to an attempt that was
not staged (`OnlyStagedAttempts`). `IInv` is their conjunction.

The argument: `Next` is split into staging and the rest. For the rest
(`NoStaging`), one lemma per table says what a step may do to a row
(`AttemptsKept`, `JobMoves`, `LeasesKept`, `AllRecordsKept`,
`ReservationsKept`, `PlansKept`, `SessionKept`), and the `Quiet…` lemmas derive
each invariant from them without looking at actions again. Staging creates the
one attempt that changes which is the latest; `StagedRows` to `StagedLatest`
describe the new rows, and `StagedFences`, `StagedRecords` and
`StagedReservations` derive the invariants. Types and row shapes are proved
action by action (`TypeStep`, `RowsStep`).

`RunLedgerFiles_proofs` proves for any attempts, generations and number of
crashes:

* `LedgerInvariance`, and from it `GenerationUnique`, `NoStartForgotten`;
* `UseIsFinal`, the action property `LedgerUseIsFinal`, for at most one lost
  file; its two halves are the lemmas `LossReported` (a lost ledger is not
  replaced) and `SwitchIsFinal` (no way back to an agent without it).

`OneGeneration` is inductive only together with what each step may rely on from
the steps before it (`StepsFollow`: a process that writes has a generation, an
unpublished file carries that generation, a row was inserted before its start
record). The action property needs in addition when a marker or a process can
stand beside a ledger that was handed over (`MarkersFollow`, `Settled`).

`AgentRun_proofs` proves for any attempts, on the host or in containers, with
or without the ledger, and for any number of deaths and reconnections:

* `AgentInvariance`, and from it `AgentTypeCorrect`, `NothingRunsTwice`,
  `NoStrayBesideWork`, `StartsAccounted` and `EndsTrue`.

`RunsOnce` needs that nothing of an attempt exists before its start record
(`RecordedFirst`) and that a workload that may still begin has not begun
(`NotBegun`); `NoWorkBesideStray` that the containers listed at start-up are
all that can come to life (`NoStray`); `EveryStartAccountedFor` that the
attempt at hand has an open row (`RowKept`), that every other start has a row
that accounts for it (`RowAccounts`) and that a start which went past the open
rows left none (`NoneOpen`). `EndsToldTruly` has two halves: `ReportedIsOver`
needs that the result a process carries is true (`ResultTrue`), `ClosedHonestly`
that a container noted as removed is gone (`RemovedGone`) and that a row closed
because nothing began stays right (`IdleRows`). The parts are proved one after
the other, each with one step per action; `WayMoves` and `EndMoves` say where
the actions with several outcomes leave the process.

`ControlStoreContract_proofs` builds on `Invariance` of `ControlStore_proofs`:

* `TableFollowed` and `ResumeMonotone`, the action properties `JobFollowsTable`
  and `ResumeNeverRegresses`;
* `ContractKept`: `Spec => KeepsContract`, the refinement of `JobContract`.

`RowMoves` lists the moves a step can make with the state of a job; the table
and the contract are both read off it. A resume point is replaced by an older one
only if it is itself skipped, because the one stored is among the checkpoints that
were published (`ResumeRecorded`), which stay in the store: if it can be used, the
largest that can be used is not before it. Under the refinement mapping the
holder of a job is the largest epoch given out for it; `LatestHolds` says that
this is the epoch of its latest attempt, `HolderWins` that a completed job was
completed by it, and `ContractStep` maps each move to a step of the contract.

`LeaseRenewal_proofs` proves for every extension, total duration, margin,
interval, timeout, grace and set of lags that satisfy `TimesAssumption`:

* `RefusalStops`, without further hypotheses;
* `StopsForCause` where `RenewalsFit`: interval, two I/O timeouts and the margin
  together are less than an extension. Without it a lease runs out between two
  requests that were both answered, and the watcher is right to stop;
* `OneNodeExecutes` where `NoAnnouncements` and `GraceCoversLag`: no absence is
  announced (the run `announced_lease` shows what an announcement does), and
  the larger of the two graces is at least half of every lag within the margin.
  The margin's default of 10 000 ms and the 30 000 ms of the runbook satisfy it.
  It is needed because a short lease halves the agent's margin: a lag within
  the configured margin is then only half covered, and the grace has to cover
  the rest;
* `HeldLeaseKept` where `NoAnnouncements`: the job is not given away before the
  lease has ended that the node itself holds (`AnnouncedLeaseKept`), whatever
  answers are lost or late. The stored end only grows when no absence is
  announced, so the node never holds a later one (`TakenAfter` carries this over
  the failover).

`Tidy` says what the two threads and the panel leave for one another (a refusal
ends the renewal thread, so no later renewal moves the deadline again; a stop
that succeeded has ended the container; the owner's choice and the decision to
stop exclude each other unless there was a refusal). `Renewing` says that while
no connection breaks nothing is late (`OnTime`), an answer tells the row as it
stands (`AnswerFits`), and the thread is back before the deadline as long as
the lease can be renewed (`BackInTime`).
`LeasesGrow` orders the expiry in the coordinator's row, in an answer on its way
and in the watch (`RowGrows`, `AnswerGrows`, `HeldGrows`, `WatchCovered`), so
that when the failover takes the job (`TakenLate`) the watch is over on the
agent's clock, whatever was lost; `StoppedInTime` says the watcher stops by then.
The model's cap on time and counters is in the constants, so the theorems hold
for every cap.

`CheckpointFiles_proofs` proves for any runs, steps, files, versions, faults and
deaths:

* `SignedWhole`, `ResumedFromOneFolder` and `ResultsKept`.

`Tidy` holds the types and what the publisher and the agent have in hand at each
of their steps. `StoreWhole` is needed because a manifest is signed several
files after the commit: the files a commit lists are there (`FilesThere`), two
lists of one checkpoint are equal (`OneList`), and what is about to be signed
is committed (`CommittedFirst`). `FoldersWhole` follows a folder from the
workload through staging: one that has its final name is full (`NamedFull`),
what the store lists is the whole folder (`ListedFull`), and what is staged is
what was read of it so far (`StagedPart`). `DirsHold` describes the directory of a result between any two
writes (`WrittenSoFar`), what the start-up collection may find there
(`RunsKept`, `Collected`) and what `LATEST` can name (`LatestValid`,
`CurrentHolds`), since the process may die after each of them.

`Session_proofs` proves for the components composed in `MCSession`, each under
its own specification:

* `ReplayAcceptedOnce` for any messages and capacity. `ReplayInv` relates an
  entry to the messages taken: one that `gc` removed belongs to a message that
  is out of time at every reading the clock can still show, which is why the
  clock may go back only by the tolerated skew;
* `SessionEpochNeverBack` for any scenes. `EpochInv` says that the watermark is
  not below any acknowledged epoch and a lease in hand not below the
  watermark; `ConnectedInv` and `DatabaseInv` that the frames and rows a step
  reads are ones the other side can have written;
* `KeyringKeysHold` for any signers and grace. `KeyringInv` says of the keys in
  memory and of a file that can be loaded that no two versions of a signer have
  one key (which `rotate` checks), that all are active or none, that they cover
  every reading of the clock, and that a saved revocation is in both.

`Pool_proofs` proves for `Pool`, whose invariant `PoolInv` is the conjunction of
one for each part:

* `ContradictedExcluded`. `InventoryInv` keeps, beside the row, that no match
  under the present declaration is newer than the newest observation, so that
  none can clear a contradiction that came after it, and that nothing stored is
  of the future;
* `ObservationsKept`. `HeartbeatInv` says that a row outranks every beat its
  device ever sent. In `NeighborInv` the invariant that matters is
  `LostIsOldest`: a device that lost a row has all the rows it may have, and none
  is older than what it lost, hence the lost report finds no room when it comes
  again. `EvidenceInv` relates each table to the messages that were answered
  as stored (`ConfirmedStored`) and keeps the rows of every table readable;
  `SubmissionInv` does so for submissions;
* `KernelsAlwaysAgree` and `QuorumAlwaysReal`, about every finite list of GPUs and
  set of reports. Each count of the filter is of a subset of the one before, so
  that with the ids and the sum in order the three kernels have the same
  conditions (`RankableIs`, `FilterIs`, `ScopeIs`); no ids are assumed to be
  in order, the property says what happens if they are not.
  Reports whose nodes are not ambiguous have as many names as nodes;
* `StagedFresh`. `ChoiceStands` is about the gap between the choice and the
  staging: the chosen node stays free, since there is one loop, so its owner
  cannot take it back from a job; and the declaration is the one that fitted or
  has a later revision, which the staging refuses;
* `PairingAlwaysFound`, the correctness of the search for every number of GPUs and
  whatever fits what. Between turns each declared GPU that had its turn owns one
  observed GPU, and no other does (`OwnersRight`); within a turn each waiting call
  is about the owner of the GPU its caller is at (`CallsRight`), so that turning
  the whole path around leaves nobody out (`PathTurned`). A refusal rests on
  `NothingSkipped`: what fits a declared GPU that the turn has come to was looked
  at or is still before a call. When no call is left, all that fits those GPUs is
  owned, by all of them but one, and an injection of the larger set into the
  smaller one does not exist (`NothingLeft`). That each step uses up something
  finite (a turn, an unseen GPU, a call, the rest of its loop) is part of the
  property; that the search therefore ends is the well-founded argument outside
  it. The store calls the search with what the inventory holds; `Inventory` uses
  its answer `Pairable`, which this theorem justifies.

The assumptions are that the names for an absent value are no values, that job
and node ids are numbers (their order is the order of the ids), and, for
`KernelsAgree`, that the GPUs of a question meet the conditions only the scope
has (`QuestionsAssumption`). `Placements` has the nodes that rank before all
others, as a set: that it is one node rests on a sum over a set, which is defined
by recursion, and the theorem does not need it.

Only model-checked: `SelftestHolds`, which is about the concrete
scenes of the self test, the liveness properties `InterruptedIsFinished`,
`ReportsArrive`, `StepsArrive`,
`QueuedJobsSettle` and `SessionsEnd`, and what an announcement does to
`AnnouncedLeaseKept`. Liveness under fairness, ENABLED and induction
over data are out of the prover's reach and stay with TLC.

## 6. Not modelled

See the components of `PROJECT.json` for each. In short:

* bodies of reports and progress, runtime policies, the platform runtimes, the
  canonical encoding: no state that decides anything, or pure I/O; the models
  take the encoding to be injective and a signature to verify or not;
* the membership, participation, fenced-operation and watch kernels of the
  protocol, which nothing in the product calls yet;
* migrations of database schemas and `backfill_terminal_states`, corruption of
  stored bytes, test hooks that force an outcome;
* stage-job with ids chosen by the operator, the logs of operator releases and
  owner reclaims;
* the neighbour probes and the manifest lane inside a session; the scenarios 79
  to 84 of the self test, which run containers and are behaviours of `AgentRun`;
* in the agent: images, limits, outputs, the arithmetic of the near-finish
  estimate (any estimate within its bounds is allowed), the HTTP page of the
  owner's panel;
* doctor, dashboards, console.
