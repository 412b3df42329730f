--------------------------- MODULE JobSubmission ---------------------------
(***************************************************************************)
(* coordinator/job_store.rs: how a job enters the store, with the signed   *)
(* manifest or, in an older way, without it.  A submitter that got no      *)
(* answer sends the same submission again under the same key; another may  *)
(* come under a key or a job id that is taken.                             *)
(***************************************************************************)
EXTENDS Integers

CONSTANTS
    SubmittedJobs, Submitters, SubmissionKeys,
    ManifestContents,   \* what the signing input of a manifest depends on, besides ids
    Signatures,         \* bytes of the manifest that the signing input leaves out
    Terms,              \* deadline and longest time in the queue
    Untaken

VARIABLES
    keyJob,        \* job_submission_idempotency: the job of each key, or Untaken
    submitted,     \* coordinator_jobs, as far as the submission decides it
    bound,         \* coordinator_job_manifests
    promised       \* history: the submissions that were answered as stored

subVars == <<keyJob, submitted, bound, promised>>

JobManifests ==
    [job : SubmittedJobs, submitter : Submitters, content : ManifestContents,
     signature : Signatures]

\* derive_manifest_hash: of the signing input, which has no signature.
DeriveManifestHash(m) == <<m.job, m.submitter, m.content>>

Submissions ==
    [key : SubmissionKeys, job : SubmittedJobs, submitter : Submitters,
     hash : {DeriveManifestHash(m) : m \in JobManifests}, terms : Terms]

SubmittedRows ==
    [submitter : Submitters, hash : {DeriveManifestHash(m) : m \in JobManifests}, terms : Terms]

BoundRows == [signer : Submitters, body : JobManifests]

ASSUME SubmissionAssumption ==
    Untaken \notin SubmittedJobs \cup JobManifests \cup SubmittedRows \cup BoundRows

SubmissionInit ==
    /\ keyJob = [k \in SubmissionKeys |-> Untaken]
    /\ submitted = [j \in SubmittedJobs |-> Untaken]
    /\ bound = [j \in SubmittedJobs |-> Untaken]
    /\ promised = {}

SubmittedRow(s) == [submitter |-> s.submitter, hash |-> s.hash, terms |-> s.terms]

\* matches_submission: the job of the key was submitted in the same words.
MatchesSubmission(s) ==
    /\ keyJob[s.key] = s.job
    /\ submitted[s.job] = SubmittedRow(s)

\* validate_manifest_identity.
ManifestIdentity(s, m, signer) ==
    /\ m.job = s.job
    /\ m.submitter = s.submitter
    /\ signer = s.submitter

\* fetch_manifest_binding: a job without a manifest is an error here.
ManifestBound(j) ==
    /\ bound[j] # Untaken
    /\ bound[j].body.job = j
    /\ bound[j].body.submitter = submitted[j].submitter
    /\ bound[j].signer = submitted[j].submitter
    /\ DeriveManifestHash(bound[j].body) = submitted[j].hash

\* insert_job and the row of the key, in one transaction.
InsertJob(s) ==
    /\ submitted[s.job] = Untaken
    /\ submitted' = [submitted EXCEPT ![s.job] = SubmittedRow(s)]
    /\ keyJob' = [keyJob EXCEPT ![s.key] = s.job]

\* submit_accepted.
SubmitWithoutManifest(s) ==
    /\ IF keyJob[s.key] # Untaken
       THEN /\ MatchesSubmission(s)
            /\ UNCHANGED <<keyJob, submitted>>
       ELSE InsertJob(s)
    /\ promised' = promised \cup {[submission |-> s, manifest |-> Untaken]}
    /\ UNCHANGED bound

\* submit_verified_manifest_inner: a repeated submission must repeat the manifest too,
\* its signature included.
SubmitVerifiedManifest(s, m, signer) ==
    /\ ManifestIdentity(s, m, signer)
    /\ s.hash = DeriveManifestHash(m)
    /\ IF keyJob[s.key] # Untaken
       THEN /\ MatchesSubmission(s)
            /\ ManifestBound(s.job)
            /\ bound[s.job].body = m
            /\ bound[s.job].signer = signer
            /\ UNCHANGED <<keyJob, submitted, bound>>
       ELSE /\ InsertJob(s)
            /\ bound' = [bound EXCEPT ![s.job] = [signer |-> signer, body |-> m]]
    /\ promised' = promised \cup {[submission |-> s, manifest |-> m]}

SubmissionNext ==
    \E s \in Submissions :
        \/ SubmitWithoutManifest(s)
        \/ \E m \in JobManifests, signer \in Submitters : SubmitVerifiedManifest(s, m, signer)

-----------------------------------------------------------------------------

\* Every submission that was answered as stored is the job its submitter gets, in
\* his words and with his manifest if he gave one, however keys and job ids were
\* used before and after it (job_store.rs:554-586, 679-721).
SubmissionsKept ==
    \A p \in promised :
        /\ MatchesSubmission(p.submission)
        /\ p.manifest # Untaken =>
              /\ ManifestBound(p.submission.job)
              /\ bound[p.submission.job].body = p.manifest

=============================================================================
