-------------------------------- MODULE Pool --------------------------------
(***************************************************************************)
(* The road from what is known of the nodes to the choice of one.  The     *)
(* components share no state in the program but what Placement has, so a   *)
(* behaviour looks at one of them: focus is chosen at the start, and the   *)
(* others stay as they begin.                                              *)
(*                                                                         *)
(* A pure kernel gets a question (Ask) from a given set, one after the     *)
(* other; the invariants are about its answers.                            *)
(***************************************************************************)
EXTENDS HeartbeatStore, NeighborReportStore, EvidenceStores, JobSubmission, Inventory,
        GpuMatching, Placement

CONSTANTS
    GpuQuestions,            \* pairs of the GPUs of a candidate and what a job needs
    ReassignmentQuestions,   \* requests to reassign an attempt
    ReassignmentPolicy

ASSUME QuestionsAssumption ==
    /\ None \notin Nat /\ None # "EXCLUSIVE"
    /\ \A q \in GpuQuestions :
          /\ q[1] # None =>
                /\ IsFiniteSet(q[1])
                /\ \A g \in q[1] : /\ g.modes # None /\ "EXCLUSIVE" \in g.modes
                                   /\ g.authoritative
          /\ q[2].count # None => q[2].count \in Nat \ {0}
    /\ \A q \in ReassignmentQuestions : IsFiniteSet(q.reports)

VARIABLES
    focus,
    asked      \* the question to a kernel, or None

poolVars == <<focus, asked, hbVars, nbVars, evVars, subVars, invVars, matchVars, plVars>>

-----------------------------------------------------------------------------
(* A candidate and a job that only the GPUs decide about. *)

\* A scope whose own conditions the GPUs of a question all meet.
OpenScope ==
    [verified |-> TRUE, observed |-> 1, revision |-> 1, cpu |-> 1, ram |-> 1,
     workspace |-> 1, runtime |-> None, mode |-> "EXCLUSIVE", prefixesUsable |-> TRUE,
     driver |-> None, capabilities |-> {}]

WithResources(gpus) == [gpus |-> gpus, cpu |-> 1, ram |-> 1, workspace |-> 1]

WithNeeds(job) ==
    [count |-> job.count, vram |-> job.vram, models |-> job.models,
     cpu |-> 1, ram |-> 1, workspace |-> 1]

-----------------------------------------------------------------------------

Questions(topic) ==
    CASE topic = "gpus" -> GpuQuestions
      [] topic = "reassignment" -> ReassignmentQuestions

Init ==
    /\ focus \in {"gpus", "reassignment", "heartbeats", "neighbors", "evidence",
                  "submissions", "inventory", "pairing", "placement"}
    /\ asked = None
    /\ HeartbeatInit
    /\ NeighborInit
    /\ focus # "neighbors" => ours = CHOOSE c \in Coordinators : TRUE
    /\ EvidenceInit
    /\ SubmissionInit
    /\ InventoryInit
    /\ MatchInit
    /\ PlacementInit

Ask ==
    /\ focus \in {"gpus", "reassignment"}
    /\ asked = None
    /\ asked' \in Questions(focus)
    /\ UNCHANGED <<focus, hbVars, nbVars, evVars, subVars, invVars, matchVars, plVars>>

Answer ==
    /\ asked # None
    /\ asked' = None
    /\ UNCHANGED <<focus, hbVars, nbVars, evVars, subVars, invVars, matchVars, plVars>>

OthersStay == UNCHANGED <<focus, asked, hbVars, nbVars, evVars, subVars, invVars, matchVars>>

Next ==
    \/ Ask
    \/ Answer
    \/ /\ focus = "heartbeats"
       /\ HeartbeatNext
       /\ UNCHANGED <<focus, asked, nbVars, evVars, subVars, invVars, matchVars, plVars>>
    \/ /\ focus = "neighbors"
       /\ NeighborNext
       /\ UNCHANGED <<focus, asked, hbVars, evVars, subVars, invVars, matchVars, plVars>>
    \/ /\ focus = "evidence"
       /\ EvidenceNext
       /\ UNCHANGED <<focus, asked, hbVars, nbVars, subVars, invVars, matchVars, plVars>>
    \/ /\ focus = "submissions"
       /\ SubmissionNext
       /\ UNCHANGED <<focus, asked, hbVars, nbVars, evVars, invVars, matchVars, plVars>>
    \/ /\ focus = "inventory"
       /\ InventoryNext
       /\ UNCHANGED <<focus, asked, hbVars, nbVars, evVars, subVars, matchVars, plVars>>
    \/ /\ focus = "pairing"
       /\ MatchNext
       /\ UNCHANGED <<focus, asked, hbVars, nbVars, evVars, subVars, invVars, plVars>>
    \/ /\ focus = "placement"
       /\ PlacementNext
       /\ OthersStay

\* Only the scheduler loop and the clock are relied on, and only where the focus
\* is on them.
Fairness ==
    /\ WF_poolVars(focus = "placement" /\ TickStep /\ OthersStay)
    /\ WF_poolVars(focus = "placement" /\ TimePasses /\ OthersStay)

Spec == Init /\ [][Next]_poolVars /\ Fairness

-----------------------------------------------------------------------------

\* The filter, the ranking and the scope of the grant repeat each other's checks by
\* hand (filter.rs:193-311, rank.rs:149-281, scope.rs:194-361) and agree, but for
\* the ids and the sums, at which the filter does not look.  What can be ranked was
\* let through; a node that was let through lacks no fact, and is the error that
\* stops the ranking of all others only with sums over u64::MAX, or with ids that
\* validate_inventory does not let into the store; the scope refuses one only for
\* such ids and for white space around an id, which is let in; and the GPUs that it
\* names are those that the ranking counted on.
KernelsAgree ==
    focus = "gpus" /\ asked # None =>
        LET gpus == asked[1]
            job == asked[2]
            node == WithResources(gpus)
            needs == WithNeeds(job)
            inScope == InScope(gpus, job, OpenScope)
            padded == \E g \in gpus : g.id \in PaddedIds
        IN  /\ Rankable(node, needs) \/ inScope => EvaluateGpus(gpus, job)
            /\ EvaluateGpus(gpus, job) =>
                  IF ValidateInventory(gpus)
                  THEN /\ FactsKnown(gpus, job)
                       /\ Rankable(node, needs) <=> SumFits(gpus, needs)
                       /\ inScope <=> ~padded
                  ELSE ~Rankable(node, needs) /\ ~inScope
            /\ Rankable(node, needs) /\ inScope =>
                  GpuScopeCandidate(gpus, job, OpenScope) = ResourceFit(node, needs).gpus

\* A reassignment that is allowed rests on as many machines as the policy asks
\* for, none of them a party and no machine counted twice under two spellings,
\* and on an epoch that is above every one that was ever used
\* (reassignment.rs:537-603).
QuorumIsReal ==
    focus = "reassignment" /\ asked # None =>
        (EvaluateReassignment(asked, ReassignmentPolicy) = "allowed" =>
            /\ Cardinality({r.node.name : r \in asked.reports})
                   >= RequiredReports(asked, ReassignmentPolicy)
            /\ \A r \in asked.reports :
                  /\ r.node.name \notin {"", asked.stranded.name, asked.receiving.name}
                  /\ r.member.name \notin {asked.strandedMember.name, asked.receivingMember.name}
                  /\ r.observed <= asked.now
            /\ \A e \in asked.range.used \cup {asked.originalEpoch} : asked.proposedEpoch > e)

\* What the stores of observations tell a reader does not depend on the order or
\* the number of arrivals: of a node the heartbeat that the classification would
\* select from all, from the device the operator named, and of a pair of
\* neighbours the newest report, pushed out and sent again or not; evidence that
\* was answered as stored is read back unchanged, only the release of its own report
\* takes a node from an attempt, and a submission that was answered as stored stays
\* the job of its key (node_liveness_store.rs:499-505, neighbor_report_store.rs:1-60,
\* checkpoint_manifest_store.rs:198-209, reservation_release.rs:383-444,
\* job_store.rs:679-721).
ObservationsNeverGoBack ==
    /\ focus = "heartbeats" => LatestHeartbeatKept /\ NamedDeviceSpeaks
    /\ focus = "neighbors" => ReportsNeverGoBack
    /\ focus = "evidence" => EvidenceKept /\ NodeFreedByOwnRelease
    /\ focus = "submissions" => SubmissionsKept

=============================================================================
