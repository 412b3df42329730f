--------------------------- MODULE EvidenceStores ---------------------------
(***************************************************************************)
(* The coordinator's stores of signed evidence about an attempt:           *)
(* checkpoint_manifest_store.rs, replica_ack_store.rs, the rows of         *)
(* attempt_report_store.rs, and the separate release of a reservation in   *)
(* reservation_release.rs that rests on them.                              *)
(*                                                                         *)
(* A message has been verified, so its signer is known; what it says of    *)
(* job, attempt, node and epoch may be anything.  Messages come in any     *)
(* order and again, also after the node has been given to another attempt. *)
(* A row keeps the columns and, in body, the message they were taken from. *)
(* What a report does to attempt and job is in ControlStore.               *)
(***************************************************************************)
EXTENDS AttemptState

CONSTANTS
    AttemptFacts,      \* what staging wrote of each attempt: job, node, epoch
    EvidenceNodes,     \* nodes and devices that sign messages
    Checkpoints, Digests, AckInstants,
    Contents,          \* the rest of a message, as far as two may differ in it
    Said,              \* what a report says: members of AllowedReports
    Absent

ASSUME ReportsAllowed == Said \subseteq AllowedReports

VARIABLES
    assigned,      \* the attempts that have been staged
    reservedFor,   \* coordinator_node_reservations: the attempt of each node, or Absent
    manifestRow,   \* coordinator_checkpoint_manifests
    ackRow,        \* coordinator_replica_acks
    reportRow,     \* coordinator_attempt_reports
    releaseRow,    \* coordinator_reservation_releases
    takenBack,     \* history: the attempts whose node an operator has freed
    confirmed      \* history: the messages that were answered as stored

evVars ==
    <<assigned, reservedFor, manifestRow, ackRow, reportRow, releaseRow, takenBack, confirmed>>

EvidenceAttempts == DOMAIN AttemptFacts

Claims ==
    [attempt : EvidenceAttempts, node : EvidenceNodes,
     job : {AttemptFacts[a].job : a \in EvidenceAttempts},
     epoch : {AttemptFacts[a].epoch : a \in EvidenceAttempts}]

Manifests == [checkpoint : Checkpoints, claim : Claims, digest : Digests, content : Contents]

AckKeys == Checkpoints \X EvidenceNodes \X AckInstants

Acks == [key : AckKeys, digest : Digests, content : Contents]

Reports == [claim : Claims, said : Said]

ManifestRows == [claim : Claims, signer : EvidenceNodes, digest : Digests, body : Manifests]

AckRows == [signer : EvidenceNodes, digest : Digests, body : Acks]

ReportRows ==
    [claim : Claims, signer : EvidenceNodes,
     via : {"current_reservation", "assignment_record"}, body : Reports]

ASSUME EvidenceAssumption ==
    /\ \A a \in EvidenceAttempts : AttemptFacts[a].node \in EvidenceNodes
    /\ Absent \notin EvidenceAttempts \cup Reports
    /\ Absent \notin ManifestRows \cup AckRows \cup ReportRows

EvidenceInit ==
    /\ assigned = {}
    /\ reservedFor = [n \in EvidenceNodes |-> Absent]
    /\ manifestRow = [c \in Checkpoints |-> Absent]
    /\ ackRow = [k \in AckKeys |-> Absent]
    /\ reportRow = [a \in EvidenceAttempts |-> Absent]
    /\ releaseRow = [a \in EvidenceAttempts |-> Absent]
    /\ takenBack = {}
    /\ confirmed = {}

-----------------------------------------------------------------------------
(* What a message says of the attempt it is about. *)

NamesAttempt(claim) == claim.job = AttemptFacts[claim.attempt].job

CurrentFence(claim) == claim.epoch = AttemptFacts[claim.attempt].epoch

SignedByNode(claim, signer) ==
    /\ claim.node = AttemptFacts[claim.attempt].node
    /\ signer = claim.node

\* bind_attempt_identity_and_fence.
BindAttemptIdentityAndFence(claim) ==
    /\ claim.attempt \in assigned
    /\ NamesAttempt(claim)
    /\ CurrentFence(claim)

\* bind_reservation_identity: the node is reserved for this attempt, now.
BindReservationIdentity(claim) ==
    reservedFor[AttemptFacts[claim.attempt].node] = claim.attempt

\* bind_producer_and_signer.
BindProducerAndSigner(claim, signer) == SignedByNode(claim, signer)

\* The columns repeat the body, and the attempt the body names (the second half of
\* fetch_manifest_binding and of fetch_report_binding).
ColumnsAgree(r) ==
    /\ r.claim = r.body.claim
    /\ r.claim.attempt \in assigned
    /\ NamesAttempt(r.claim)
    /\ CurrentFence(r.claim)
    /\ SignedByNode(r.claim, r.signer)

-----------------------------------------------------------------------------
(* Manifests of checkpoints. *)

\* fetch_manifest_binding: a row that does not agree with itself is an error.
ManifestReadable(c) ==
    /\ ColumnsAgree(manifestRow[c])
    /\ manifestRow[c].body.checkpoint = c
    /\ manifestRow[c].body.digest = manifestRow[c].digest

\* store_verified_manifest_inner: the first message of a checkpoint is bound to the
\* attempt that holds the node now; the same message again, whoever holds the node
\* by then, is answered with that row, and another one is a conflict.
StoreVerifiedManifest(m, signer) ==
    /\ IF manifestRow[m.checkpoint] # Absent
       THEN /\ ManifestReadable(m.checkpoint)
            /\ manifestRow[m.checkpoint].body = m
            /\ manifestRow[m.checkpoint].signer = signer
            /\ UNCHANGED manifestRow
       ELSE /\ BindAttemptIdentityAndFence(m.claim)
            /\ BindReservationIdentity(m.claim)
            /\ BindProducerAndSigner(m.claim, signer)
            /\ manifestRow' = [manifestRow EXCEPT ![m.checkpoint] =
                                   [claim |-> m.claim, signer |-> signer,
                                    digest |-> m.digest, body |-> m]]
    /\ confirmed' = confirmed \cup {[kind |-> "manifest", body |-> m, signer |-> signer]}
    /\ UNCHANGED <<assigned, reservedFor, ackRow, reportRow, releaseRow, takenBack>>

-----------------------------------------------------------------------------
(* Acknowledgements of replicas. *)

\* load_anchor_for_stored_ack: the manifest an acknowledgement is about.
Anchored(c) == manifestRow[c] # Absent /\ ManifestReadable(c)

\* validate_ack_row.
AckReadable(k) ==
    /\ Anchored(k[1])
    /\ ackRow[k].body.key = k
    /\ ackRow[k].signer = k[2]
    /\ ackRow[k].body.digest = ackRow[k].digest
    /\ ackRow[k].digest = manifestRow[k[1]].digest

\* store_verified_ack_inner: what a holder says it holds is the checkpoint whose
\* manifest is stored, by its digest.
StoreVerifiedAck(ack, signer) ==
    /\ signer = ack.key[2]
    /\ Anchored(ack.key[1])
    /\ ack.digest = manifestRow[ack.key[1]].digest
    /\ IF ackRow[ack.key] # Absent
       THEN /\ AckReadable(ack.key)
            /\ ackRow[ack.key].body = ack
            /\ ackRow[ack.key].signer = signer
            /\ UNCHANGED ackRow
       ELSE ackRow' = [ackRow EXCEPT ![ack.key] =
                           [signer |-> signer, digest |-> ack.digest, body |-> ack]]
    /\ confirmed' = confirmed \cup {[kind |-> "ack", body |-> ack, signer |-> signer]}
    /\ UNCHANGED <<assigned, reservedFor, manifestRow, reportRow, releaseRow, takenBack>>

\* list_ack_bindings: every row of the checkpoint, or an error.
ListAckBindings(c) ==
    {ackRow[k].body : k \in {l \in AckKeys : l[1] = c /\ ackRow[l] # Absent}}

-----------------------------------------------------------------------------
(* Reports. *)

\* fetch_report_binding.
ReportReadable(a) ==
    /\ ColumnsAgree(reportRow[a])
    /\ reportRow[a].claim.attempt = a
    /\ reportRow[a].body.said \in AllowedReports

\* bind_attempt.
BindAttempt(claim, signer) ==
    /\ claim.attempt \in assigned
    /\ NamesAttempt(claim)
    /\ SignedByNode(claim, signer)
    /\ CurrentFence(claim)

\* bind_reservation decides only how the report is bound: a report may come after
\* its node was given away.
BoundVia(claim) ==
    IF reservedFor[claim.node] = claim.attempt
    THEN "current_reservation" ELSE "assignment_record"

\* The row of store_verified_terminal_report_inner.
StoreReportRow(r, signer) ==
    LET a == r.claim.attempt
    IN  /\ IF reportRow[a] # Absent /\ r.claim.node = reportRow[a].claim.node
           THEN /\ ReportReadable(a)
                /\ reportRow[a].body = r
                /\ reportRow[a].signer = signer
                /\ UNCHANGED reportRow
           ELSE /\ BindAttempt(r.claim, signer)
                /\ reportRow' = [reportRow EXCEPT ![a] =
                                     [claim |-> r.claim, signer |-> signer,
                                      via |-> BoundVia(r.claim), body |-> r]]
        /\ confirmed' = confirmed \cup {[kind |-> "report", body |-> r, signer |-> signer]}
        /\ UNCHANGED <<assigned, reservedFor, manifestRow, ackRow, releaseRow, takenBack>>

-----------------------------------------------------------------------------
(* Reservations. *)

\* What the caller of a release states; nothing here can check it.
Authorizations ==
    [stop : {"ProvenByCaller", "ObservedExitInSignedReport", "NotProvenYet"},
     directoryVerified : BOOLEAN,
     artifact : {"SatisfiedByCaller", "NotSatisfiedYet", "NotApplicableNonCompleted"}]

\* check_authorization.
CheckAuthorization(auth) == auth.stop # "NotProvenYet" /\ auth.directoryVerified

\* check_observed_exit.
CheckObservedExit(r, auth) ==
    auth.stop = "ObservedExitInSignedReport" => r.said.observed

\* check_artifact_guard.
CheckArtifactGuard(r, auth) == IsCompletion(r.said) => auth.artifact = "SatisfiedByCaller"

\* check_reservation_owner: the node of another attempt is never freed.
CheckReservationOwner(claim) ==
    /\ reservedFor[claim.node] = claim.attempt
    /\ AttemptFacts[claim.attempt].job = claim.job

\* release_for_verified_terminal_report: the report must be the one that is stored;
\* a second call is answered with the first release.
ReleaseForVerifiedTerminalReport(r, signer, auth) ==
    LET a == r.claim.attempt
    IN  /\ CheckAuthorization(auth)
        /\ CheckArtifactGuard(r, auth)
        /\ CheckObservedExit(r, auth)
        /\ IF releaseRow[a] # Absent
           THEN /\ releaseRow[a] = r
                /\ UNCHANGED <<reservedFor, releaseRow>>
           ELSE /\ reportRow[a] # Absent
                /\ ReportReadable(a)
                /\ reportRow[a].body = r
                /\ reportRow[a].signer = signer
                /\ CheckReservationOwner(r.claim)
                /\ reservedFor' = [reservedFor EXCEPT ![r.claim.node] = Absent]
                /\ releaseRow' = [releaseRow EXCEPT ![a] = r]
        /\ UNCHANGED <<assigned, manifestRow, ackRow, reportRow, takenBack, confirmed>>

\* An attempt is staged on its node, which is free (ControlStore has the whole of
\* reserve_and_stage).
StageOnNode(a) ==
    /\ a \notin assigned
    /\ reservedFor[AttemptFacts[a].node] = Absent
    /\ assigned' = assigned \cup {a}
    /\ reservedFor' = [reservedFor EXCEPT ![AttemptFacts[a].node] = a]
    /\ UNCHANGED <<manifestRow, ackRow, reportRow, releaseRow, takenBack, confirmed>>

\* An operator frees the node of a lost attempt: the reservation goes and no release
\* is written (ControlStore has release_lost_node_by_operator).
FreedByOperator(a) ==
    /\ a \in assigned
    /\ reservedFor[AttemptFacts[a].node] = a
    /\ reservedFor' = [reservedFor EXCEPT ![AttemptFacts[a].node] = Absent]
    /\ takenBack' = takenBack \cup {a}
    /\ UNCHANGED <<assigned, manifestRow, ackRow, reportRow, releaseRow, confirmed>>

EvidenceNext ==
    \/ \E a \in EvidenceAttempts : StageOnNode(a) \/ FreedByOperator(a)
    \/ \E signer \in EvidenceNodes :
          \/ \E m \in Manifests : StoreVerifiedManifest(m, signer)
          \/ \E ack \in Acks : StoreVerifiedAck(ack, signer)
          \/ \E r \in Reports : StoreReportRow(r, signer)
          \/ \E r \in Reports, auth \in Authorizations :
                ReleaseForVerifiedTerminalReport(r, signer, auth)

-----------------------------------------------------------------------------

\* Evidence that was answered as stored is what every later reader gets, word for
\* word and without an error, whatever arrives after it and whoever holds the node
\* by then; all replicas that are listed for a checkpoint hold the bytes of its
\* first manifest (checkpoint_manifest_store.rs:198-209, replica_ack_store.rs:275-299).
EvidenceKept ==
    \A e \in confirmed :
        \/ /\ e.kind = "manifest"
           /\ ManifestReadable(e.body.checkpoint)
           /\ manifestRow[e.body.checkpoint].body = e.body
        \/ /\ e.kind = "ack"
           /\ AckReadable(e.body.key)
           /\ e.body \in ListAckBindings(e.body.key[1])
        \/ /\ e.kind = "report"
           /\ ReportReadable(e.body.claim.attempt)
           /\ reportRow[e.body.claim.attempt].body = e.body

\* An attempt loses its node by its own release or by the operator, never by the
\* release of another attempt that had the node before, and a release names the
\* report that is stored (reservation_release.rs:383-444).
NodeFreedByOwnRelease ==
    \A a \in assigned :
        /\ reservedFor[AttemptFacts[a].node] = a
              <=> releaseRow[a] = Absent /\ a \notin takenBack
        /\ releaseRow[a] # Absent => releaseRow[a] = reportRow[a].body

=============================================================================
