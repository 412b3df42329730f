---------------------------- MODULE MCPlacement ----------------------------
(***************************************************************************)
(* Pool for TLC: small sets of nodes, GPUs and messages, and the questions *)
(* that its kernels are asked.                                             *)
(***************************************************************************)
EXTENDS Pool

-----------------------------------------------------------------------------
(* Constants. *)

MCRegistrations ==
    {[device |-> 1, key |-> 1, state |-> "ONLINE"],
     [device |-> 2, key |-> 1, state |-> "ONLINE"],
     [device |-> 2, key |-> 2, state |-> "ONLINE"]}

MCDeclarations == {<<>>, <<[uuid |-> "u1", model |-> Unset, vram |-> 1]>>}

MCObservations ==
    {<<[uuid |-> u, model |-> "m1", vram |-> 1]>> : u \in {"u1", "u2"}}

\* The first job needs a GPU that only one of the offers has.
MCManifest ==
    [j \in PoolJobs |->
        [class |-> "TRAINING", sideEffect |-> "PURE", sensitivity |-> "PUBLIC",
         tier |-> 1, isolation |-> 0, protection |-> 0,
         count |-> j - 1, vram |-> 3 - j, models |-> {},
         cpu |-> 1, ram |-> 1, workspace |-> 1]]

MCNodeFacts ==
    [n \in PoolNodes |->
        [state |-> "ONLINE", risk |-> "NORMAL", owner |-> "bob", tier |-> 1,
         isolation |-> 0, protection |-> 1, cpu |-> 1, ram |-> 1, workspace |-> 1,
         classes |-> {"TRAINING"}, optIn |-> TRUE]]

MCOffers ==
    {{}} \cup {{[slot |-> 1, id |-> i, healthy |-> TRUE, model |-> "m1", vram |-> v]} :
                   i \in {0, 1}, v \in {1, 2}}

\* Two attempts of two jobs that are given the same node one after the other.
MCAttemptFacts ==
    [a \in {1, 2} |-> [job |-> a, node |-> 1, epoch |-> a]]

MCSaid ==
    {[schema |-> 2, outcome |-> "COMPLETED", observed |-> TRUE],
     [schema |-> 2, outcome |-> "INTERRUPTED", observed |-> FALSE]}

MCAxisOrder == <<"vram", "gpu_count", "cpu", "ram", "workspace">>

-----------------------------------------------------------------------------
(* Questions about the GPUs of a candidate. *)

GpuKinds ==
    [healthy : {TRUE, FALSE, None}, model : {"m1", "m2", None}, vram : {1, 2, None}]

Gpu(slot, i, kind) ==
    [slot |-> slot, id |-> i, healthy |-> kind.healthy, model |-> kind.model, vram |-> kind.vram,
     driver |-> 1, capability |-> "c1", modes |-> {"EXCLUSIVE"}, authoritative |-> TRUE]

GpuSets ==
    {None, {}} \cup {{Gpu(1, 1, k)} : k \in GpuKinds}
         \cup {{Gpu(1, 1, k), Gpu(2, 2, l)} : k \in GpuKinds, l \in GpuKinds}

\* Ids as no careful node writes them: a blank one, one with white space around it,
\* one that is there twice.
OddIds == {<<0, 1>>, <<1, 3>>, <<1, 1>>, <<0, 3>>, <<3, 3>>}

OddKinds == {k \in GpuKinds : k.model = "m1" /\ k.healthy # None}

OddGpuSets ==
    {{Gpu(1, i, k)} : i \in {0, 3}, k \in OddKinds}
        \cup {{Gpu(1, ids[1], k), Gpu(2, ids[2], l)} :
                 ids \in OddIds, k \in OddKinds, l \in OddKinds}

GpuNeeds == [count : {1, 2, None}, vram : {1, 2, None}, models : {{}, {"m1"}}]

-----------------------------------------------------------------------------
(* Questions about a reassignment. *)

Id(name, spelling) == [name |-> name, spelling |-> spelling]

ReporterIds == {Id("x", 1), Id("x", 2), Id("y", 1), Id("old", 2), Id("", 1)}

ReportKinds ==
    {[node |-> id, member |-> Id(m, 1), target |-> Id("old", 1), resolved |-> TRUE,
      observed |-> t] :
        id \in ReporterIds, m \in {"mx", "my", "mOld"}, t \in {1, 2}}

MCReassignmentQuestions ==
    {[attempt |-> Id("a", 1), stranded |-> Id("old", 1), strandedMember |-> Id("mOld", 1),
      receiving |-> Id("new", 1), receivingMember |-> Id("mNew", 1),
      range |-> [attempt |-> Id("a", 1), first |-> 1, last |-> 3, proven |-> TRUE,
                 used |-> used],
      audit |-> [attempt |-> Id("a", 1), epoch |-> proposed],
      reports |-> from, public |-> public, now |-> 1,
      originalEpoch |-> 1, proposedEpoch |-> proposed,
      silentFor |-> 2, leaseExpires |-> 1, pauseEnforced |-> TRUE, consent |-> TRUE] :
        used \in {{1}, {2}}, proposed \in 1 .. 3, public \in BOOLEAN,
        from \in {s \cup t : s \in {{r} : r \in ReportKinds},
                                t \in {{r} : r \in ReportKinds}}}

MCReassignmentPolicy ==
    [silence |-> 1, privateReports |-> 1, publicReports |-> 2, publicEnabled |-> TRUE]

-----------------------------------------------------------------------------
(* Questions about declared and observed GPUs. *)

DeclaredKinds ==
    {[uuid |-> Unset, model |-> m, vram |-> v] : m \in {"m1", Unset}, v \in {1, 2}}
        \cup {[uuid |-> "u1", model |-> Unset, vram |-> Unset]}

ObservedKinds == {[model |-> m, vram |-> v] : m \in {"m1", "m2"}, v \in {1, 2}}

ObservedGpus(n) ==
    {[i \in 1 .. n |-> [uuid |-> <<"u1", "u2", "u3">>[i], model |-> kinds[i].model,
                        vram |-> kinds[i].vram]] :
        kinds \in [1 .. n -> ObservedKinds]}

-----------------------------------------------------------------------------
(* The questions. *)

MCGpuQuestions == (GpuSets \cup OddGpuSets) \X GpuNeeds

MCPairingQuestions == [1 .. 3 -> DeclaredKinds] \X ObservedGpus(3)

=============================================================================
