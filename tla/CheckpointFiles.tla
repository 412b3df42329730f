--------------------------- MODULE CheckpointFiles ---------------------------
(***************************************************************************)
(* The checkpoint files of one agent.  A workload writes folders step-N;   *)
(* the publisher thread copies each to the shared root, commits it with    *)
(* manifest.json and signs it, so that a later attempt, perhaps on another *)
(* node, can restore it.  The result of the workload goes into a directory *)
(* of the agent's own checkpoint root (write_checkpoint), which the next   *)
(* start of the agent collects if it was left without a manifest.          *)
(*                                                                         *)
(* Every file is written by write_once (temporary file, fsync, rename,     *)
(* fsync of the directory).  A call can fail, or the process can die, with *)
(* nothing written, with the temporary file left, or with the file in      *)
(* place and the directory not synced.  Lock files are left out: a lock    *)
(* dies with its process and one process writes each directory.            *)
(***************************************************************************)
EXTENDS Naturals, Sequences, FiniteSets, FiniteSetsExt

CONSTANTS
    Run,         \* attempts of the job, in order: a set 1 .. n
    Step,        \* step numbers of the workload: a set of naturals
    File,        \* files of a step folder, numbered in the order of their names
    MaxVersion,  \* how often a workload that does not rename rewrites a file
    Artifacts,   \* the sequence of result files of a run
    FinalTries,  \* passes of the publisher after the workload is over
    MaxFolders,  \* bound: folders the workloads write
    MaxFaults,   \* bound: failed operations and files changed by others
    MaxDeaths,   \* bound: deaths of the agent process
    None

ASSUME BoundsAssumption ==
    /\ Run \subseteq Nat /\ Step \subseteq Nat /\ File \subseteq Nat
    /\ IsFiniteSet(Step) /\ None \notin Run
    /\ MaxVersion \in Nat \ {0} /\ FinalTries \in Nat \ {0}
    /\ MaxFolders \in Nat /\ MaxFaults \in Nat /\ MaxDeaths \in Nat

VARIABLES
    renames,   \* the workload fills a folder before it names it step-N
    source,    \* source[c]: what the folder of checkpoint c holds
    visible,   \* checkpoints whose folder has the name step-N
    store,     \* store[c]: the files of checkpoint c under the shared root
    rot,       \* data files of the shared root that no longer hash right
    local,     \* local[r]: directory of run r under the checkpoint root
    latest,    \* the pointer LATEST
    owned,     \* the marker of the checkpoint root
    agent,     \* where the main thread of the agent is
    pub,       \* the publisher
    outcome,   \* outcome[r]: what write_checkpoint returned for run r
    restored,  \* restored[r]: what run r found in its resume folder
    faults, deaths

vars == <<renames, source, visible, store, rot, local, latest, owned, agent,
          pub, outcome, restored, faults, deaths>>

diskVars == <<source, visible, store, rot, local, latest, owned>>
recordVars == <<renames, outcome, restored>>

(***************************************************************************)
(* The shared root.  A stored data file is named after its content, so a   *)
(* file of the name is the file of the content.  The state markers are     *)
(* left out: they are written beside the files and nothing reads them.     *)
(***************************************************************************)
Ckpt == Run \X Step
Content == SUBSET (File \X (1 .. MaxVersion))
Data(f, v) == [kind |-> "data", file |-> f, version |-> v]
Manifest(files) == [kind |-> "manifest", files |-> files]
Signed(files) == [kind |-> "signed", files |-> files]

StoreName ==
    {Data(f, v) : f \in File, v \in 1 .. MaxVersion}
        \cup {Manifest(files) : files \in Content}
        \cup {Signed(files) : files \in Content}

\* The manifests of a checkpoint, and the signed ones.
ManifestOf(c) == {n \in store[c] : n.kind = "manifest"}
manifest_present(c) == ManifestOf(c) # {}
list_signed_manifests == {c \in Ckpt : \E n \in store[c] : n.kind = "signed"}
SignedFiles(c) == (CHOOSE n \in store[c] : n.kind = "signed").files

\* Broken: a file of the right name is taken for the right content.
verify_by_name(c, files) ==
    /\ files # {}
    /\ \A e \in files : Data(e[1], e[2]) \in store[c]

\* Every file a manifest lists is there and hashes to its name.
verify_on_disk(c, files) ==
    /\ files # {}
    /\ \A e \in files :
        /\ Data(e[1], e[2]) \in store[c]
        /\ <<c, e[1], e[2]>> \notin rot

\* The directory after a call of write_once that put the file in place.
Written(c, n) == [store EXCEPT ![c] = @ \cup {n}]

(***************************************************************************)
(* A directory of the checkpoint root, and what find_resume_point_for      *)
(* makes of it.                                                            *)
(***************************************************************************)
ArtifactSet == {Artifacts[i] : i \in 1 .. Len(Artifacts)}
LocalName == ArtifactSet \cup {"Writing", "manifest", "failed"}

ASSUME ArtifactsAssumption ==
    /\ Artifacts \in Seq(STRING)
    /\ ArtifactSet \cap {"Writing", "manifest", "failed", "verify", "LATEST",
                         "Committed"} = {}

NoDir == [made |-> FALSE, done |-> {}, tmp |-> {}]

is_resume_candidate(r) == "failed" \notin local[r].done
load_valid_manifest(r) ==
    /\ local[r].made /\ "manifest" \in local[r].done
    /\ ArtifactSet \subseteq local[r].done
find_resume_point_for(r) == load_valid_manifest(r) /\ is_resume_candidate(r)

\* Broken: the manifest is written before the result.
ManifestFirst == <<"manifest">> \o Artifacts \o <<"verify", "LATEST", "Committed">>

\* What write_checkpoint_inner does, one after the other; of the state
\* markers, which nothing reads, only the last is a step of its own.
WriteOrder == Artifacts \o <<"manifest", "verify", "LATEST", "Committed">>
Position(what) == CHOOSE i \in 1 .. Len(WriteOrder) : WriteOrder[i] = what
phase_publish(i) == i > Position("verify")

(***************************************************************************)
(* Faults.                                                                 *)
(***************************************************************************)
\* What an unfinished call of write_once leaves of file n in directory d.
LeftBehind(d, n) ==
    {d, [d EXCEPT !.tmp = @ \cup {n}], [d EXCEPT !.done = @ \cup {n}]}
WriteDone(d, n) ==
    [d EXCEPT !.made = TRUE, !.done = @ \cup {n}, !.tmp = @ \ {n}]

Fault == faults < MaxFaults /\ faults' = faults + 1 /\ UNCHANGED deaths
NoFault == UNCHANGED <<faults, deaths>>

PubOff == [on |-> "off", pass |-> 0, todo |-> {}, at |-> "idle", cur |-> None,
           names |-> {}, staged |-> {}, published |-> {},
           seen |-> [c \in Ckpt |-> None]]
AgentDown == [at |-> "down", run |-> None, gc |-> {}, i |-> 0]

\* The process dies: memory is gone, the disk is what it is.
Dies ==
    /\ deaths < MaxDeaths /\ deaths' = deaths + 1 /\ UNCHANGED faults
    /\ agent' = AgentDown /\ pub' = PubOff

Init ==
    /\ renames \in BOOLEAN
    /\ source = [c \in Ckpt |-> {}] /\ visible = {}
    /\ store = [c \in Ckpt |-> {}] /\ rot = {}
    /\ local = [r \in Run |-> NoDir] /\ latest = None /\ owned = FALSE
    /\ agent = AgentDown /\ pub = PubOff
    /\ outcome = [r \in Run |-> "none"] /\ restored = [r \in Run |-> {}]
    /\ faults = 0 /\ deaths = 0

-----------------------------------------------------------------------------
(***************************************************************************)
(* Start-up of the agent: the root is locked and marked, then every        *)
(* directory without a manifest is emptied and removed, and of the others  *)
(* the temporary files.                                                    *)
(***************************************************************************)
claim_checkpoint_root ==
    /\ agent.at = "down"
    /\ owned \/ \A r \in Run : ~local[r].made
    /\ owned' = TRUE
    /\ agent' = [agent EXCEPT !.at = "collect",
                              !.gc = {r \in Run : local[r].made}]
    /\ NoFault
    /\ UNCHANGED <<source, visible, store, rot, local, latest, pub>>
    /\ UNCHANGED recordVars

gc_partial(d) ==
    IF "manifest" \in d.done THEN [d EXCEPT !.tmp = {}] ELSE NoDir

startup_gc(r) ==
    /\ agent.at = "collect" /\ r \in agent.gc
    /\ local' = [local EXCEPT ![r] = gc_partial(@)]
    /\ agent' = [agent EXCEPT !.gc = @ \ {r}]
    /\ NoFault
    /\ UNCHANGED <<source, visible, store, rot, latest, owned, pub>>
    /\ UNCHANGED recordVars

\* The agent dies, or gives up with an error, part-way through a directory.
StartupGcStops(r) ==
    /\ agent.at = "collect" /\ r \in agent.gc
    /\ LET d == local[r] IN
       \E kept \in SUBSET d.done, tmp \in SUBSET d.tmp :
        /\ gc_partial(d).done \subseteq kept
        /\ local' = [local EXCEPT ![r].done = kept, ![r].tmp = tmp]
    /\ Dies
    /\ UNCHANGED <<source, visible, store, rot, latest, owned>>
    /\ UNCHANGED recordVars

collect_startup_partials ==
    /\ agent.at = "collect" /\ agent.gc = {}
    /\ agent' = [agent EXCEPT !.at = "serving"]
    /\ NoFault
    /\ UNCHANGED <<diskVars, recordVars, pub>>

\* The agent is stopped between two grants.
AgentStops ==
    /\ agent.at = "serving"
    /\ agent' = AgentDown
    /\ UNCHANGED <<diskVars, recordVars, pub>> /\ NoFault

(***************************************************************************)
(* A grant: the start marker, then the resume point the coordinator chose  *)
(* (the highest signed step whose files verify) is verified again and      *)
(* restored before the grant is acknowledged.                              *)
(***************************************************************************)
Unused == {r \in Run : outcome[r] = "none"}

record_start_checkpoint(r) ==
    /\ agent.at = "serving" /\ Unused # {} /\ r = Min(Unused)
    /\ local' = [local EXCEPT ![r] = WriteDone(@, "Writing")]
    /\ outcome' = [outcome EXCEPT ![r] = "started"]
    /\ agent' = [agent EXCEPT !.at = "resume", !.run = r]
    /\ NoFault
    /\ UNCHANGED <<source, visible, store, rot, latest, owned, pub>>
    /\ UNCHANGED <<renames, restored>>

\* The start marker fails: the grant is refused.
StartFails(r) ==
    /\ agent.at = "serving" /\ Unused # {} /\ r = Min(Unused)
    /\ \E d \in LeftBehind([local[r] EXCEPT !.made = TRUE], "Writing") :
        local' = [local EXCEPT ![r] = d]
    /\ outcome' = [outcome EXCEPT ![r] = "refused"]
    /\ Fault
    /\ UNCHANGED <<source, visible, store, rot, latest, owned, agent, pub>>
    /\ UNCHANGED <<renames, restored>>

\* What restoring a listed file gives: a changed file has other bytes (0).
Restores(c, e) == <<c[1], c[2], e[1], IF <<c, e[1], e[2]>> \in rot THEN 0 ELSE e[2]>>

\* Checkpoints the coordinator may name in a grant.
ResumePoints ==
    {c \in list_signed_manifests : verify_on_disk(c, SignedFiles(c))}
ResumePoint == CHOOSE c \in ResumePoints : \A d \in ResumePoints : d[2] <= c[2]

Started(r) ==
    /\ agent' = [agent EXCEPT !.at = "running"]
    /\ pub' = [PubOff EXCEPT !.on = "live"]

StartAfresh ==
    /\ agent.at = "resume" /\ ResumePoints = {}
    /\ Started(agent.run)
    /\ NoFault
    /\ UNCHANGED <<diskVars, recordVars>>

prepare_resume ==
    /\ agent.at = "resume" /\ ResumePoints # {}
    /\ restored' = [restored EXCEPT ![agent.run] =
                        {Restores(ResumePoint, e) :
                            e \in SignedFiles(ResumePoint)}]
    /\ Started(agent.run)
    /\ NoFault
    /\ UNCHANGED <<diskVars, renames, outcome>>

\* The files changed between the coordinator's look and the agent's, or
\* cannot be read: the grant is refused, nothing runs.
ResumeRefused ==
    /\ agent.at = "resume" /\ list_signed_manifests # {}
    /\ Fault
    /\ agent' = [agent EXCEPT !.at = "serving", !.run = None]
    /\ outcome' = [outcome EXCEPT ![agent.run] = "refused"]
    /\ UNCHANGED <<diskVars, renames, restored, pub>>

(***************************************************************************)
(* The workload takes its checkpoints one after the other, each file in    *)
(* turn.  It is asked to rename a folder when it is complete; the          *)
(* publisher cannot know whether it does.                                  *)
(***************************************************************************)
Version(c, f) == Max({0} \cup {e[2] : e \in {x \in source[c] : x[1] = f}})
ResumedStep(r) == Max({0} \cup {e[2] : e \in restored[r]})

WorkloadWrites(s, f) ==
    LET c == <<agent.run, s>> IN
    /\ agent.at = "running" /\ s > ResumedStep(agent.run)
    /\ c \notin visible \/ ~renames
    /\ Cardinality({d \in Ckpt : source[d] # {}} \cup {c}) <= MaxFolders
    /\ \A t \in Step : t < s /\ t > ResumedStep(agent.run) =>
        <<agent.run, t>> \in visible /\ \A g \in File : Version(<<agent.run, t>>, g) > 0
    /\ \A g \in File : g < f => Version(c, g) > Version(c, f)
    /\ Version(c, f) < IF renames THEN 1 ELSE MaxVersion
    /\ source' = [source EXCEPT ![c] =
                    {e \in @ : e[1] # f} \cup {<<f, Version(c, f) + 1>>}]
    /\ visible' = IF renames THEN visible ELSE visible \cup {c}
    /\ UNCHANGED <<store, rot, local, latest, owned, agent, pub>>
    /\ UNCHANGED recordVars /\ NoFault

WorkloadRenames(s) ==
    LET c == <<agent.run, s>> IN
    /\ agent.at = "running" /\ renames
    /\ \A f \in File : Version(c, f) = 1
    /\ c \notin visible
    /\ visible' = visible \cup {c}
    /\ UNCHANGED <<source, store, rot, local, latest, owned, agent, pub>>
    /\ UNCHANGED recordVars /\ NoFault

WorkloadExits ==
    /\ agent.at = "running"
    /\ agent' = [agent EXCEPT !.at = "writing", !.i = 1]
    /\ UNCHANGED <<diskVars, recordVars, pub>> /\ NoFault

\* Someone else changes a file under the shared root.
Rot(c, f, v) ==
    /\ Data(f, v) \in store[c]
    /\ <<c, f, v>> \notin rot
    /\ rot' = rot \cup {<<c, f, v>>}
    /\ Fault
    /\ UNCHANGED <<source, visible, store, local, latest, owned, agent, pub>>
    /\ UNCHANGED recordVars
-----------------------------------------------------------------------------
(***************************************************************************)
(* The publisher thread.  A pass lists the folders; while the workload     *)
(* runs, a folder is published when two passes in a row saw it the same.   *)
(***************************************************************************)
OnlyPub == UNCHANGED <<source, visible, rot, local, latest, owned, agent>>
                /\ UNCHANGED recordVars

Scanning(left) == IF left = {} THEN "idle" ELSE "scan"

Pass ==
    /\ pub.on # "off" /\ pub.at = "idle"
    /\ pub.on = "final" => pub.pass < FinalTries

publish_ready_steps ==
    /\ Pass
    /\ LET left == {c \in visible : c[1] = agent.run} \ pub.published IN
       pub' = [pub EXCEPT !.todo = left, !.at = Scanning(left),
                          !.pass = IF pub.on = "final" THEN @ + 1 ELSE @]
    /\ OnlyPub /\ NoFault /\ UNCHANGED store

NextReady == CHOOSE c \in pub.todo : \A d \in pub.todo : c[2] <= d[2]
Done(p) == [p EXCEPT !.todo = @ \ {p.cur}, !.at = Scanning(p.todo \ {p.cur}),
                     !.cur = None, !.names = {}, !.staged = {}]

fingerprint_changed(c) == pub.on = "live" /\ pub.seen[c] # source[c]

Unstable ==
    /\ pub.at = "scan"
    /\ fingerprint_changed(NextReady)
    /\ pub' = Done([pub EXCEPT !.seen[NextReady] = source[NextReady],
                               !.cur = NextReady])
    /\ OnlyPub /\ NoFault /\ UNCHANGED store

\* publish_directory lists the folder, then begin looks for a manifest.
begin ==
    /\ pub.at = "scan"
    /\ ~fingerprint_changed(NextReady)
    /\ source[NextReady] # {}
    /\ ~manifest_present(NextReady)
    /\ pub' = [pub EXCEPT !.cur = NextReady, !.at = "stage", !.staged = {},
                          !.names = {e[1] : e \in source[NextReady]}]
    /\ OnlyPub /\ NoFault /\ UNCHANGED store

\* Broken: a step that is already committed is an error.
recover_refused ==
    /\ pub.at = "scan"
    /\ ~fingerprint_changed(NextReady)
    /\ source[NextReady] # {}
    /\ manifest_present(NextReady)
    /\ pub' = Done([pub EXCEPT !.cur = NextReady])
    /\ OnlyPub /\ NoFault /\ UNCHANGED store

\* AlreadyCommitted: only the signature is missing.  It is given if the
\* files are whole and still those of the folder.
publish_or_recover ==
    /\ pub.at = "scan"
    /\ ~fingerprint_changed(NextReady)
    /\ source[NextReady] # {}
    /\ manifest_present(NextReady)
    /\ \E m \in ManifestOf(NextReady) :
        LET good == /\ verify_on_disk(NextReady, m.files)
                    /\ m.files = source[NextReady]
        IN pub' = IF good
                  THEN [pub EXCEPT !.cur = NextReady, !.at = "sign",
                                   !.staged = m.files]
                  ELSE Done([pub EXCEPT !.cur = NextReady])
    /\ OnlyPub /\ NoFault /\ UNCHANGED store

\* The files are read one after the other; one that changed on the way is
\* stored as it is now.  A file of the name that hashes differently stops
\* the publication (ContentMismatch).
stage(f) ==
    LET c == pub.cur  v == Version(c, f) IN
    /\ pub.at = "stage" /\ pub.names # {} /\ f = Min(pub.names)
    /\ <<c, f, v>> \notin rot
    /\ store' = Written(c, Data(f, v))
    /\ pub' = [pub EXCEPT !.names = @ \ {f}, !.staged = @ \cup {<<f, v>>}]
    /\ OnlyPub /\ NoFault

StageMismatch(f) ==
    /\ pub.at = "stage" /\ pub.names # {} /\ f = Min(pub.names)
    /\ <<pub.cur, f, Version(pub.cur, f)>> \in rot
    /\ pub' = Done(pub)
    /\ OnlyPub /\ NoFault /\ UNCHANGED store

\* verify_staged_files, then the manifest, last of the files.
commit ==
    /\ pub.at = "stage" /\ pub.names = {}
    /\ verify_on_disk(pub.cur, pub.staged)
    /\ store' = Written(pub.cur, Manifest(pub.staged))
    /\ pub' = [pub EXCEPT !.at = "sign"]
    /\ OnlyPub /\ NoFault

StagedFileChanged ==
    /\ pub.at = "stage" /\ pub.names = {}
    /\ ~verify_on_disk(pub.cur, pub.staged)
    /\ pub' = Done(pub)
    /\ OnlyPub /\ NoFault /\ UNCHANGED store

\* Broken: the folder as it is now is signed, not the committed manifest.
sign_folder ==
    /\ pub.at = "sign"
    /\ store' = Written(pub.cur, Signed(source[pub.cur]))
    /\ pub' = [Done(pub) EXCEPT !.published = @ \cup {pub.cur},
                                !.seen[pub.cur] = None]
    /\ OnlyPub /\ NoFault

\* The manifest of the disk is signed, so that a second signature of the
\* same checkpoint has the same bytes.
write_signed_manifest ==
    /\ pub.at = "sign"
    /\ store' = Written(pub.cur, Signed(pub.staged))
    /\ pub' = [Done(pub) EXCEPT !.published = @ \cup {pub.cur},
                                !.seen[pub.cur] = None]
    /\ OnlyPub /\ NoFault

\* The file the current step of the publication writes.
Writes ==
    CASE pub.at = "stage" /\ pub.names # {} ->
            {Data(Min(pub.names), Version(pub.cur, Min(pub.names)))}
      [] pub.at = "stage" /\ pub.names = {} -> {Manifest(pub.staged)}
      [] pub.at = "sign" -> {Signed(pub.staged)}
      [] OTHER -> {}

MayWrite(n) ==
    n.kind = "manifest" => verify_on_disk(pub.cur, pub.staged)

LeftInStore ==
    \/ UNCHANGED store
    \/ \E n \in Writes : MayWrite(n) /\ store' = Written(pub.cur, n)

\* A file operation fails; the step is tried again in the next pass.
PublishFails ==
    /\ Writes # {}
    /\ LeftInStore
    /\ pub' = Done(pub)
    /\ Fault
    /\ OnlyPub

\* The thread panics: what it knew is lost, the last passes start afresh.
PublisherPanics ==
    /\ pub.on = "live" /\ agent.at = "publish" /\ pub.at = "idle"
    /\ pub' = [PubOff EXCEPT !.on = "final"]
    /\ Fault
    /\ OnlyPub /\ UNCHANGED store

\* finish: the thread ends its pass, then the last passes run.
finish ==
    /\ agent.at = "publish" /\ pub.on = "live" /\ pub.at = "idle"
    /\ pub' = [pub EXCEPT !.on = "final"]
    /\ OnlyPub /\ NoFault /\ UNCHANGED store

unpublished_steps == {c \in visible : c[1] = agent.run} \ pub.published

PublisherEnds ==
    /\ pub.on = "final" /\ pub.at = "idle" /\ pub.pass > 0
    /\ unpublished_steps = {} \/ pub.pass = FinalTries
    /\ pub' = PubOff
    /\ agent' = [agent EXCEPT !.at = "serving", !.run = None, !.i = 0]
    /\ UNCHANGED <<diskVars, recordVars>> /\ NoFault
-----------------------------------------------------------------------------
(***************************************************************************)
(* finalize_workload_checkpoint: the result of the run goes into the       *)
(* directory of the start marker.                                          *)
(***************************************************************************)
OnlyLocal == UNCHANGED <<source, visible, store, rot, owned, pub, renames,
                         restored>>
Item == WriteOrder[agent.i]
Result(r, what) ==
    /\ outcome' = [outcome EXCEPT ![r] = what]
    /\ agent' = [agent EXCEPT !.at = "publish"]
Advance ==
    IF agent.i = Len(WriteOrder) THEN Result(agent.run, "ok")
    ELSE agent' = [agent EXCEPT !.i = @ + 1] /\ UNCHANGED outcome

write_checkpoint_inner ==
    /\ agent.at = "writing" /\ Item \in LocalName
    /\ local' = [local EXCEPT ![agent.run] = WriteDone(@, Item)]
    /\ Advance
    /\ OnlyLocal /\ NoFault /\ UNCHANGED latest

\* verify_files before the pointer, the marker Committed after it.
CheckOrMark ==
    /\ agent.at = "writing" /\ Item \in {"verify", "Committed"}
    /\ Advance
    /\ OnlyLocal /\ NoFault /\ UNCHANGED <<local, latest>>

replace_with_retry ==
    /\ agent.at = "writing" /\ Item = "LATEST"
    /\ latest' = agent.run
    /\ Advance
    /\ OnlyLocal /\ NoFault /\ UNCHANGED local

\* Collecting the outputs fails: nothing is written.
FinalizationFails ==
    /\ agent.at = "writing" /\ agent.i = 1
    /\ Result(agent.run, "store_failed")
    /\ Fault
    /\ OnlyLocal /\ UNCHANGED <<local, latest>>

\* A call fails before the files are verified: the caller gets an error.
StoreFails ==
    /\ agent.at = "writing" /\ agent.i < Position("verify")
    /\ \E d \in LeftBehind(local[agent.run], Item) :
        local' = [local EXCEPT ![agent.run] = d]
    /\ Result(agent.run, "store_failed")
    /\ Fault
    /\ OnlyLocal /\ UNCHANGED latest

\* From the verification on an error also writes the failure marker.
fail_after_materialization ==
    /\ agent.at = "writing" /\ agent.i >= Position("verify")
    /\ local' = [local EXCEPT ![agent.run] = WriteDone(@, "failed")]
    /\ \/ Item = "LATEST" /\ latest' = agent.run
       \/ UNCHANGED latest
    /\ Result(agent.run, IF phase_publish(agent.i) THEN "publish_failed"
                         ELSE "store_failed")
    /\ Fault
    /\ OnlyLocal

\* The failure marker cannot be written either (a full disk).
MarkerFails ==
    /\ agent.at = "writing" /\ agent.i >= Position("verify")
    /\ Fault
    /\ \E d \in LeftBehind(local[agent.run], "failed") :
        local' = [local EXCEPT ![agent.run] = d]
    /\ Result(agent.run, "unmarked")
    /\ OnlyLocal /\ UNCHANGED latest

\* The agent dies in a call of write_once of either thread.
Death ==
    /\ agent.at # "down"
    /\ \/ /\ LeftInStore /\ UNCHANGED <<local, latest>>
       \/ /\ agent.at = "writing" /\ Item \in LocalName
          /\ \E d \in LeftBehind(local[agent.run], Item) :
                local' = [local EXCEPT ![agent.run] = d]
          /\ UNCHANGED <<store, latest>>
       \/ /\ agent.at = "writing" /\ Item = "LATEST"
          /\ latest' = agent.run
          /\ UNCHANGED <<store, local>>
    /\ Dies
    /\ UNCHANGED <<source, visible, rot, owned>> /\ UNCHANGED recordVars

PublisherStep ==
    \/ publish_ready_steps \/ Unstable
    \/ begin \/ publish_or_recover
    \/ \E f \in File : stage(f) \/ StageMismatch(f)
    \/ commit \/ StagedFileChanged \/ write_signed_manifest
    \/ finish \/ PublisherEnds

ResultStep ==
    write_checkpoint_inner \/ CheckOrMark \/ replace_with_retry

Next ==
    \/ claim_checkpoint_root \/ collect_startup_partials \/ AgentStops
    \/ \E r \in Run :
        \/ startup_gc(r) \/ StartupGcStops(r)
        \/ record_start_checkpoint(r) \/ StartFails(r)
    \/ StartAfresh \/ prepare_resume \/ ResumeRefused
    \/ \E s \in Step : WorkloadRenames(s) \/ \E f \in File : WorkloadWrites(s, f)
    \/ WorkloadExits
    \/ \E c \in Ckpt, f \in File, v \in 1 .. MaxVersion : Rot(c, f, v)
    \/ PublisherStep \/ PublishFails \/ PublisherPanics
    \/ ResultStep \/ FinalizationFails \/ StoreFails
    \/ fail_after_materialization \/ MarkerFails
    \/ Death

Spec == Init /\ [][Next]_vars

\* The threads of a live process run on; nothing is assumed of the workload,
\* of new grants or of a dead agent's restart.
FairSpec == Spec /\ WF_vars(PublisherStep) /\ WF_vars(ResultStep)
-----------------------------------------------------------------------------
(***************************************************************************)
(* Properties.                                                             *)
(***************************************************************************)
Dir == [made : BOOLEAN, done : SUBSET LocalName, tmp : SUBSET LocalName]

Agents ==
    [at : {"down", "collect", "serving", "resume", "running", "writing", "publish"},
     run : Run \cup {None}, gc : SUBSET Run, i : 0 .. Len(WriteOrder)]
Publishers ==
    [on : {"off", "live", "final"}, pass : 0 .. FinalTries,
     todo : SUBSET Ckpt, cur : Ckpt \cup {None},
     at : {"idle", "scan", "stage", "sign"},
     names : SUBSET File, staged : Content,
     published : SUBSET Ckpt, seen : [Ckpt -> Content \cup {None}]]
Outcomes ==
    {"none", "started", "refused", "ok", "store_failed", "publish_failed", "unmarked"}

\* The types of the variables.
TypeOK ==
    /\ renames \in BOOLEAN /\ owned \in BOOLEAN
    /\ source \in [Ckpt -> Content] /\ visible \subseteq Ckpt
    /\ store \in [Ckpt -> SUBSET StoreName]
    /\ rot \subseteq {<<c, f, v>> : c \in Ckpt, f \in File, v \in 1 .. MaxVersion}
    /\ local \in [Run -> Dir] /\ latest \in Run \cup {None}
    /\ agent \in Agents /\ pub \in Publishers /\ outcome \in [Run -> Outcomes]
    /\ restored \in [Run -> SUBSET (Run \X Step \X File \X (0 .. MaxVersion))]
    /\ faults \in 0 .. MaxFaults /\ deaths \in 0 .. MaxDeaths

\* Whatever fails or dies between two writes of a publication (commit.rs,
\* shared.rs), a signed manifest under the shared root is the only one of its
\* checkpoint, it is the committed manifest, and every file it lists is there.
SignedIsWhole ==
    \A c \in list_signed_manifests :
        \A n \in store[c] : n.kind \in {"signed", "manifest"} =>
            /\ n.files = SignedFiles(c) /\ n.files # {}
            /\ Manifest(n.files) \in store[c]
            /\ \A e \in n.files : Data(e[1], e[2]) \in store[c]

\* A workload that renames its folders is resumed, in a later attempt, from
\* exactly one folder as it left it: no half-written folder, no mixture of
\* two, no file somebody changed under the shared root.
ResumesFromOneFolder ==
    renames =>
        \A r \in Run : restored[r] # {} =>
            \E c \in visible :
                /\ restored[r] = {<<c[1], c[2], e[1], e[2]>> : e \in source[c]}
                /\ {e[1] : e \in source[c]} = File

\* A result whose write_checkpoint returned without an error is found again
\* after every death and every start-up collection, and one whose failure
\* was marked never is.  A manifest and the pointer LATEST stand for a whole
\* directory, and the collection leaves none without a manifest.
CollectionKeepsResults ==
    \A r \in Run :
        /\ outcome[r] = "ok" => find_resume_point_for(r)
        /\ outcome[r] = "publish_failed" => ~find_resume_point_for(r)
        /\ "manifest" \in local[r].done => load_valid_manifest(r)
        /\ (agent.at = "collect" /\ r \notin agent.gc /\ local[r].made) =>
                "manifest" \in local[r].done
        /\ latest = r => load_valid_manifest(latest)

\* Once the workload is over, every folder it has named step-N is signed
\* under the shared root, if the agent stays alive, nobody changes the shared
\* files and fewer calls fail than the publisher makes passes.
StepsArrive ==
    \A c \in Ckpt :
        (renames /\ c \in visible /\ agent.at = "publish" /\ agent.run = c[1])
            ~> \/ c \in list_signed_manifests
               \/ agent.at = "down" \/ rot # {}
=============================================================================
