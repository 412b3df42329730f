-------------------------- MODULE SchedulerKernels --------------------------
(***************************************************************************)
(* The pure decision kernels of crates/scheduler: the hard filter, the     *)
(* best-fit ranking, the GPU scope of a grant, the classification of       *)
(* heartbeats and the gate of a reassignment during a partition.           *)
(*                                                                         *)
(* A fact that was not observed is None.  Times are ages: how long before  *)
(* the moment of the decision something happened.  Node and GPU ids are    *)
(* numbers, whose order is the order of the ids.  The GPUs of a candidate  *)
(* are a list in the code: a record has its slot in the list, so that two  *)
(* entries with one id are two GPUs.  The reasons that the code collects   *)
(* for its report are not kept: a candidate is eligible when there is      *)
(* none.                                                                   *)
(***************************************************************************)
EXTENDS Integers, FiniteSets, FiniteSetsExt

CONSTANTS
    None,          \* a fact nobody observed
    Refused,       \* the outcome of a kernel that returns an error
    BlankIds,      \* the GPU ids of nothing but white space
    PaddedIds,     \* the GPU ids with white space at an end
    MaxSum         \* the largest sum of bytes, u64::MAX

Known(fact) == fact # None

AtLeast(available, required) ==          \* compare_minimum, compare_resource
    /\ Known(available)
    /\ Known(required)
    /\ available >= required

-----------------------------------------------------------------------------
(* The GPUs of a candidate that a job can use. *)

Healthy(gpus) == {g \in gpus : g.healthy = TRUE}

OfModel(gpus, job) ==
    IF job.models = {} THEN gpus ELSE {g \in gpus : g.model \in job.models}

WithVram(gpus, job) == {g \in gpus : Known(g.vram) /\ g.vram >= job.vram}

Matching(gpus, job) == WithVram(OfModel(Healthy(gpus), job), job)

\* Every fact that the search for GPUs looks at, in the order it does, is there.
FactsKnown(gpus, job) ==
    /\ \A g \in gpus : Known(g.healthy)
    /\ job.models # {} => \A g \in Healthy(gpus) : Known(g.model)
    /\ \A g \in OfModel(Healthy(gpus), job) : Known(g.vram)

NoneBlank(gpus) == \A g \in gpus : g.id \notin BlankIds

IdsDiffer(gpus) == \A g, h \in gpus : g.id = h.id => g = h

\* Mutant of the next definition: the check of the memory forgets that it may be
\* unknown, so that the filter has no reason against such a GPU.
EvaluateGpusAssumingVram(gpus, job) ==
    /\ Known(job.count) /\ Known(job.vram)
    /\ Known(gpus)
    /\ \A g \in gpus : Known(g.healthy)
    /\ job.models # {} => \A g \in Healthy(gpus) : Known(g.model)
    /\ Cardinality({g \in OfModel(Healthy(gpus), job) :
                        Known(g.vram) => g.vram >= job.vram}) >= job.count

\* evaluate_gpus: the four counts are taken one after the other, and an unknown
\* fact of a GPU that is still in the running is a reason of its own.
EvaluateGpus(gpus, job) ==
    /\ Known(job.count) /\ Known(job.vram)
    /\ Known(gpus)
    /\ Cardinality(gpus) >= job.count
    /\ \A g \in gpus : Known(g.healthy)
    /\ Cardinality(Healthy(gpus)) >= job.count
    /\ \/ job.models = {}
       \/ /\ \A g \in Healthy(gpus) : Known(g.model)
          /\ Cardinality(OfModel(Healthy(gpus), job)) >= job.count
    /\ \A g \in OfModel(Healthy(gpus), job) : Known(g.vram)
    /\ Cardinality(Matching(gpus, job)) >= job.count

\* evaluate_owner_policy: what the owner of the machine lets in.
EvaluateOwnerPolicy(c, job) ==
    /\ Known(job.class) /\ Known(c.classes) /\ job.class \in c.classes
    /\ Known(c.owner) /\ Known(job.submitter)
    /\ c.owner # job.submitter =>
          /\ c.tier # 0
          /\ c.isolation = 0 =>          \* RESTRICTED
                /\ c.optIn = TRUE
                /\ job.sideEffect = "PURE"
                /\ Known(job.sensitivity) /\ job.sensitivity # "SENSITIVE"

\* The axis of liveness is looked at only when the policy sets it; a clock that
\* was behind the last sign of life saturates to no silence at all.
LiveEnough(c, policy) ==
    \/ policy.silentAfter = None
    \/ /\ Known(c.silence)
       /\ c.silence <= policy.silentAfter

FreshEnough(c, policy) ==
    /\ Known(c.age)
    /\ c.age >= 0
    /\ c.age <= policy.maxAge

\* evaluate_candidate: there is no reason against the candidate.
Eligible(c, job, policy) ==
    /\ LiveEnough(c, policy)
    /\ c.reservation = None
    /\ c.state = "ONLINE"
    /\ c.risk = "NORMAL"
    /\ FreshEnough(c, policy)
    /\ ~c.mismatch
    /\ AtLeast(c.tier, job.tier)
    /\ AtLeast(c.isolation, job.isolation)
    /\ AtLeast(c.protection, job.protection)
    /\ EvaluateGpus(c.gpus, job)
    /\ AtLeast(c.cpu, job.cpu)
    /\ AtLeast(c.ram, job.ram)
    /\ AtLeast(c.workspace, job.workspace)
    /\ EvaluateOwnerPolicy(c, job)

EvaluateEligibility(pool, job, policy) ==
    {n \in DOMAIN pool : Eligible(pool[n], job, policy)}

-----------------------------------------------------------------------------
(* Best fit. *)

SmallerGpu(g, h) == g.vram < h.vram \/ (g.vram = h.vram /\ g.id < h.id)

\* The count smallest of the GPUs that will do.
Smallest(gpus, count) ==
    CHOOSE s \in kSubset(count, gpus) :
        \A g \in s, h \in gpus \ s : SmallerGpu(g, h)

Selected(gpus, job) == {g.id : g \in Smallest(Matching(gpus, job), job.count)}

\* How much more memory than needed the GPUs have.
SpareVram(gpus, job) == MapThenSumSet(LAMBDA g : g.vram - job.vram, gpus)

SumFits(gpus, job) ==
    SpareVram(Smallest(Matching(gpus, job), job.count), job) <= MaxSum

\* The conditions of resource_fit: an id that is blank or there twice, an unknown
\* fact, too few GPUs, a sum that does not fit or too little of a resource is an
\* error.
Rankable(c, job) ==
    /\ Known(job.count) /\ Known(job.vram)
    /\ Known(c.gpus)
    /\ NoneBlank(c.gpus) /\ IdsDiffer(c.gpus)
    /\ FactsKnown(c.gpus, job)
    /\ Cardinality(Matching(c.gpus, job)) >= job.count
    /\ SumFits(c.gpus, job)
    /\ AtLeast(c.cpu, job.cpu)
    /\ AtLeast(c.ram, job.ram)
    /\ AtLeast(c.workspace, job.workspace)

\* resource_fit, of a candidate that can be ranked.
ResourceFit(c, job) ==
    [gpus |-> Selected(c.gpus, job),
     key  |->
       [vram      |-> SpareVram(Smallest(Matching(c.gpus, job), job.count), job),
        gpu_count |-> Cardinality(Matching(c.gpus, job)) - job.count,
        cpu       |-> c.cpu - job.cpu,
        ram       |-> c.ram - job.ram,
        workspace |-> c.workspace - job.workspace]]

\* compare_ranked: the axes in the order of the policy, then the node id.
RanksBefore(m, n, fit, axes) ==
    \/ \E i \in DOMAIN axes :
          /\ \A k \in 1 .. i - 1 : fit[m].key[axes[k]] = fit[n].key[axes[k]]
          /\ fit[m].key[axes[i]] < fit[n].key[axes[i]]
    \/ /\ \A i \in DOMAIN axes : fit[m].key[axes[i]] = fit[n].key[axes[i]]
       /\ m < n

\* What orchestrate_placement_to_staging selects: nothing, or the first of the
\* ranking, of which there is one, since node ids differ.  A candidate that cannot
\* be ranked stops the ranking of all others.
Placements(pool, job, policy) ==
    LET eligible == EvaluateEligibility(pool, job, policy)
        fit == [n \in eligible |-> ResourceFit(pool[n], job)]
        best == {m \in eligible :
                    \A n \in eligible \ {m} : RanksBefore(m, n, fit, policy.axes)}
    IN  CASE eligible = {} -> {None}
          [] \E n \in eligible : ~Rankable(pool[n], job) -> {Refused}
          [] OTHER -> {[node |-> m, gpus |-> fit[m].gpus] : m \in best}

-----------------------------------------------------------------------------
(* gpu_scope_candidate: which GPUs a grant would name. *)

\* The facts beyond those of the filter: driver, capability, allocation mode and
\* where the number of free bytes comes from.
NewDriver(g, scope) == scope.driver = None \/ (Known(g.driver) /\ g.driver >= scope.driver)

Capable(g, scope) == scope.capabilities = {} \/ g.capability \in scope.capabilities

Allocatable(g, scope) == Known(g.modes) /\ scope.mode \in g.modes

\* A GPU that a check sets aside is not looked at any further, so what is unknown
\* of it does not matter.
ScopeFactsKnown(gpus, job, scope) ==
    /\ \A g \in gpus : Known(g.healthy)
    /\ job.models # {} => \A g \in Healthy(gpus) : Known(g.model)
    /\ \A g \in OfModel(Healthy(gpus), job) :
          /\ scope.driver # None => Known(g.driver)
          /\ NewDriver(g, scope) =>
                /\ scope.capabilities # {} => Known(g.capability)
                /\ Capable(g, scope) =>
                      /\ Known(g.modes)
                      /\ Allocatable(g, scope) => Known(g.vram) /\ g.authoritative

ScopeMatching(gpus, job, scope) ==
    {g \in Matching(gpus, job) :
        NewDriver(g, scope) /\ Capable(g, scope) /\ Allocatable(g, scope)}

\* What the grant says beside the GPUs, none of it made up.
ScopeFields == {"observed", "revision", "mode", "cpu", "ram", "workspace"}

\* validate_gpu_ids
IdsCanonical(gpus) ==
    /\ NoneBlank(gpus)
    /\ \A g \in gpus : g.id \notin PaddedIds
    /\ IdsDiffer(gpus)

\* The conditions of gpu_scope_candidate.
InScope(gpus, job, scope) ==
    /\ scope.verified
    /\ \A field \in ScopeFields : Known(scope[field])
    /\ Known(job.vram) /\ Known(job.count) /\ job.count > 0
    /\ scope.runtime = None          \* no rule says which runtimes fit
    /\ scope.mode = "EXCLUSIVE"       \* shared and partitioned are unproven
    /\ scope.prefixesUsable           \* canonical_prefixes
    /\ Known(gpus)
    /\ IdsCanonical(gpus)
    /\ ScopeFactsKnown(gpus, job, scope)
    /\ Cardinality(ScopeMatching(gpus, job, scope)) >= job.count

GpuScopeCandidate(gpus, job, scope) ==
    IF InScope(gpus, job, scope)
    THEN {g.id : g \in Smallest(ScopeMatching(gpus, job, scope), job.count)}
    ELSE Refused

-----------------------------------------------------------------------------
(* classify_node_liveness. *)

\* rank: the later observation, then the higher epoch, then more attempts.
OutRanks(o, p) ==
    \/ o.issued > p.issued
    \/ o.issued = p.issued /\ o.epoch > p.epoch
    \/ o.issued = p.issued /\ o.epoch = p.epoch /\ o.attempts > p.attempts

\* The observation that counts for a node; two devices that both speak for it
\* are an error of the whole classification.
SelectObservation(observations) ==
    CASE observations = {} -> None
      [] Cardinality({o.device : o \in observations}) > 1 -> Refused
      [] OTHER -> CHOOSE o \in observations :
                      \A p \in observations \ {o} : OutRanks(o, p)

ClassifyNodeLiveness(silence, policy) ==
    CASE silence = None -> "NO_OBSERVATION"
      [] silence <= policy.liveWithin -> "LIVE"
      [] silence > policy.liveWithin /\ silence < policy.silentAfter -> "SUSPECT"
      [] OTHER -> "SILENT"

-----------------------------------------------------------------------------
(* evaluate_reassignment.  An identity is a name and its spelling: two     *)
(* spellings of one name are ambiguous, and the empty name is no           *)
(* identity.                                                               *)

Canonical(id) == id.name # ""

CompareIdentity(id, other) ==
    CASE id = other -> "SAME"
      [] id # other /\ id.name = other.name -> "AMBIGUOUS"
      [] OTHER -> "DIFFERENT"

PolicyUsable(policy) ==
    /\ policy.silence > 0
    /\ policy.privateReports > 0
    /\ policy.publicReports > policy.privateReports

RangeUsable(request) ==
    LET range == request.range
    IN  /\ CompareIdentity(request.attempt, range.attempt) = "SAME"
        /\ range.first <= range.last
        /\ range.last > request.originalEpoch
        /\ range.proven
        /\ range.used \subseteq range.first .. range.last

AuditUsable(request) ==
    request.audit # None =>
        /\ CompareIdentity(request.attempt, request.audit.attempt) = "SAME"
        /\ request.audit.epoch = request.proposedEpoch

\* One report is about the stranded node, from somebody who neither gains nor
\* speaks for himself.
ReportUsable(report, request) ==
    /\ Canonical(report.node) /\ Canonical(report.member)
    /\ report.resolved
    /\ CompareIdentity(report.target, request.stranded) = "SAME"
    /\ report.observed <= request.now
    /\ \A party \in {request.receivingMember, request.strandedMember} :
          CompareIdentity(report.member, party) = "DIFFERENT"
    /\ \A party \in {request.stranded, request.receiving} :
          CompareIdentity(report.node, party) = "DIFFERENT"

\* Mutant of the next definition: the reports are compared with those before them by the member alone.
ReportersDistinctByMember(reports) ==
    \A r, s \in reports : r.node = s.node => r.member = s.member

\* No two reports are from spellings of one node, or from one node under two
\* members.
ReportersDistinct(reports) ==
    \A r, s \in reports :
        /\ CompareIdentity(r.node, s.node) # "AMBIGUOUS"
        /\ r.node = s.node => r.member = s.member

InputUsable(request, policy) ==
    /\ PolicyUsable(policy)
    /\ \A id \in {request.attempt, request.stranded, request.strandedMember,
                  request.receiving, request.receivingMember} : Canonical(id)
    /\ CompareIdentity(request.receiving, request.stranded) = "DIFFERENT"
    /\ RangeUsable(request)
    /\ AuditUsable(request)
    /\ \A r \in request.reports : ReportUsable(r, request)
    /\ ReportersDistinct(request.reports)

RequiredReports(request, policy) ==
    IF request.public THEN policy.publicReports ELSE policy.privateReports

EpochUsable(request) ==
    /\ request.proposedEpoch \in request.range.first .. request.range.last
    /\ request.proposedEpoch \notin request.range.used
    /\ \A e \in request.range.used \cup {request.originalEpoch} :
          request.proposedEpoch > e

ConditionsMet(request, policy) ==
    /\ request.silentFor > policy.silence
    /\ request.leaseExpires <= request.now
    /\ request.pauseEnforced
    /\ Cardinality({r.node : r \in request.reports}) >= RequiredReports(request, policy)
    /\ request.consent
    /\ EpochUsable(request)
    /\ request.audit # None
    /\ request.public => policy.publicEnabled

EvaluateReassignment(request, policy) ==
    CASE ~InputUsable(request, policy) -> "invalid"
      [] InputUsable(request, policy) /\ ConditionsMet(request, policy) -> "allowed"
      [] OTHER -> "refused"

=============================================================================
