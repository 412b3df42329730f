------------------------------ MODULE Inventory ------------------------------
(***************************************************************************)
(* coordinator/inventory_store.rs with cli/import_inventory.rs: who is in  *)
(* the pool, what each node was declared to have, and what its own         *)
(* observations say about that.                                            *)
(*                                                                         *)
(* A declaration is imported by the operator; an observation comes with    *)
(* the hello of a node that asks for work, signed at the node's clock.     *)
(* Hellos may be delayed, so observations arrive out of order.             *)
(***************************************************************************)
EXTENDS GpuAttestation, FiniteSets, FiniteSetsExt

CONSTANTS
    InvNodes,
    Registrations,         \* [device, key, state] that a document may give a node
    Declarations,          \* sequences of declared GPUs, the empty one included
    Observations,          \* sequences of observed GPUs
    ObservationMaxAge,     \* GPU_OBSERVATION_MAX_AGE_MS
    HelloSkew,             \* how far the clock of a hello may be off
    MaxNow, MaxRevision,   \* bounds
    Nil

VARIABLES
    clock,
    registry,       \* coordinator_agent_registry
    inventory,      \* coordinator_agent_inventory and its GPUs
    attestation,    \* coordinator_node_gpu_attestation: the last match
    mismatch,       \* coordinator_node_gpu_mismatch: when the last contradiction was
    newest          \* history: the newest observation judged under this declaration

invVars == <<clock, registry, inventory, attestation, mismatch, newest>>

InventoryInit ==
    /\ clock = 0
    /\ registry = [n \in InvNodes |-> Nil]
    /\ inventory = [n \in InvNodes |-> Nil]
    /\ attestation = [n \in InvNodes |-> Nil]
    /\ mismatch = [n \in InvNodes |-> Nil]
    /\ newest = [n \in InvNodes |-> Nil]

-----------------------------------------------------------------------------
(* Import of a document. *)

InventoryRows == [revision : 1 .. MaxRevision, observed : 0 .. MaxNow, gpus : Declarations]

Entry == [registration : Registrations, inventory : InventoryRows]

Matches == [revision : 1 .. MaxRevision, at : 0 .. MaxNow]

Judgements == [at : 0 .. MaxNow, contradicts : BOOLEAN]

ASSUME InventoryAssumption ==
    /\ MaxNow \in Nat /\ MaxRevision \in Nat
    /\ Nil \notin Nat \cup InventoryRows \cup Matches \cup Judgements

\* register_agent_in_tx: a node registers once; again only with the same values,
\* and no two nodes share a device or a key.
Registrable(doc) ==
    LET after == [n \in InvNodes |-> IF n \in DOMAIN doc THEN doc[n].registration
                                                         ELSE registry[n]]
    IN  /\ \A n \in DOMAIN doc : registry[n] \in {Nil, doc[n].registration}
        /\ \A m, n \in InvNodes :
              m # n /\ after[m] # Nil /\ after[n] # Nil =>
                  after[m].device # after[n].device /\ after[m].key # after[n].key

\* update_inventory_in_tx: the revision may only grow; the same revision must say
\* the same.
Newer(n, declared) == inventory[n] # Nil => declared.revision > inventory[n].revision

Updatable(doc) ==
    \A n \in DOMAIN doc : Newer(n, doc[n].inventory) \/ doc[n].inventory = inventory[n]

\* import_bootstrap: one document is taken whole or not at all.  A declaration
\* without GPUs leaves nothing to contradict; any other keeps the contradiction
\* until a newer observation clears it.
ImportBootstrap(doc) ==
    /\ DOMAIN doc # {}
    /\ \A n \in DOMAIN doc : doc[n].inventory.observed <= clock
    /\ Registrable(doc)
    /\ Updatable(doc)
    /\ LET updated == {n \in DOMAIN doc : Newer(n, doc[n].inventory)}
       IN  /\ inventory' = [n \in InvNodes |-> IF n \in updated THEN doc[n].inventory
                                                                ELSE inventory[n]]
           /\ mismatch' = [n \in InvNodes |->
                  IF n \in updated /\ doc[n].inventory.gpus = <<>> THEN Nil ELSE mismatch[n]]
           /\ newest' = [n \in InvNodes |-> IF n \in updated THEN Nil ELSE newest[n]]
    /\ registry' = [n \in InvNodes |-> IF n \in DOMAIN doc THEN doc[n].registration
                                                           ELSE registry[n]]
    /\ UNCHANGED <<clock, attestation>>

-----------------------------------------------------------------------------
(* The observation of a hello. *)

Contradicts(n, gpus) == ~Pairable(inventory[n].gpus, gpus)

\* The last match counts only for the declaration it was a match with.
LastMatch(n) ==
    IF attestation[n] # Nil /\ attestation[n].revision = inventory[n].revision
    THEN attestation[n].at
    ELSE Nil

Later(a, b) == IF a = Nil THEN b ELSE Max({a, b})

\* Mutant of the next definition: any match clears the contradiction.
RecordMatchAlways(n, at) ==
    /\ mismatch' = [mismatch EXCEPT ![n] = Nil]
    /\ attestation' = [attestation EXCEPT ![n] =
           [revision |-> inventory[n].revision, at |-> Later(LastMatch(n), at)]]

\* A match clears the contradiction only if it was observed later.
RecordMatch(n, at) ==
    IF mismatch[n] # Nil /\ at <= mismatch[n]
    THEN UNCHANGED <<mismatch, attestation>>            \* OlderThanMismatch
    ELSE /\ mismatch' = [mismatch EXCEPT ![n] = Nil]
         /\ attestation' = [attestation EXCEPT ![n] =
                [revision |-> inventory[n].revision, at |-> Later(LastMatch(n), at)]]

\* A contradiction is recorded unless a later observation matched.
RecordMismatch(n, at) ==
    /\ mismatch' = IF LastMatch(n) = Nil \/ at >= LastMatch(n)
                   THEN [mismatch EXCEPT ![n] = Later(mismatch[n], at)]
                   ELSE mismatch
    /\ UNCHANGED attestation

\* record_gpu_attestation.  A registered node has an inventory: they come in one
\* document.
RecordGpuAttestation(n, gpus, at) ==
    \/ /\ inventory[n].gpus = <<>>
       /\ mismatch' = [mismatch EXCEPT ![n] = Nil]
       /\ UNCHANGED <<attestation, newest>>
    \/ /\ inventory[n].gpus # <<>>
       /\ IF Contradicts(n, gpus) THEN RecordMismatch(n, at) ELSE RecordMatch(n, at)
       /\ newest' = [newest EXCEPT ![n] =
              IF \/ @ = Nil \/ at > @.at
                 \/ at = @.at /\ Contradicts(n, gpus)
              THEN [at |-> at, contradicts |-> Contradicts(n, gpus)]
              ELSE @]

\* observation_time_usable: not after the hello, and not long before it.
ObservationTimeUsable(issued, observed) ==
    /\ observed <= issued
    /\ issued - observed <= ObservationMaxAge

\* The pool part of serve_one_connection for a node that asks for work.  A hello
\* whose observation is out of date goes on without it.
HelloWithObservation(n, issued, observed, gpus) ==
    /\ registry[n] # Nil
    /\ issued - clock \in -HelloSkew .. HelloSkew
    /\ ObservationTimeUsable(issued, observed)
    /\ RecordGpuAttestation(n, gpus, Min({observed, clock}))
    /\ UNCHANGED <<clock, registry, inventory>>

ClockTicks ==
    /\ clock < MaxNow
    /\ clock' = clock + 1
    /\ UNCHANGED <<registry, inventory, attestation, mismatch, newest>>

InventoryNext ==
    \/ \E nodes \in SUBSET InvNodes : \E doc \in [nodes -> Entry] : ImportBootstrap(doc)
    \/ \E n \in InvNodes, issued \in 0 .. MaxNow + HelloSkew, gpus \in Observations :
          \E observed \in 0 .. issued : HelloWithObservation(n, issued, observed, gpus)
    \/ ClockTicks

-----------------------------------------------------------------------------
(* What a snapshot of the pool tells the filter about a node. *)

\* The declaration is as fresh as the last match with it.
ObservedAt(n) == Later(LastMatch(n), inventory[n].observed)

ExcludedByObservation(n) == inventory[n].gpus # <<>> /\ mismatch[n] # Nil

\* If the newest observation under the present declaration contradicts it, the
\* node is kept out of placement, however the hellos were delayed; a tie in time
\* counts against the node.  Freshness never comes from the future, although it
\* is taken from the clock of the node (inventory_store.rs:613-645).
ContradictedNodeExcluded ==
    \A n \in {m \in InvNodes : inventory[m] # Nil} :
        /\ newest[n] # Nil /\ newest[n].contradicts => ExcludedByObservation(n)
        /\ ObservedAt(n) <= clock

=============================================================================
