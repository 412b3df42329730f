------------------------------- MODULE Session -------------------------------
(***************************************************************************)
(* The session of the single-agent lane: the coordinator process of        *)
(* coordinator-stub and the agent process of agent-stub, their connections *)
(* and the three things that outlive them: the lease database of the       *)
(* coordinator, the fence watermark of the agent, and the clock.           *)
(*                                                                         *)
(* A scene is a sequence of phases.  A phase starts one process of each    *)
(* kind with its arguments; when both have ended the next phase begins on  *)
(* the same databases.  The arguments include the hooks the self test of   *)
(* the repository uses to drop connections, to revoke and to forge.        *)
(*                                                                         *)
(* Steps of the two processes interleave freely.  A step that waits for    *)
(* time (a sleep, a read or accept deadline) happens in a timely scene     *)
(* only when the other process has nothing to do before it; in the other   *)
(* scenes it happens whenever it likes, connections break, processes are   *)
(* killed and the clock runs on its own.                                   *)
(***************************************************************************)
EXTENDS Integers, Sequences, SequencesExt

CONSTANTS
    Nothing,          \* no lease, no message, no expectation
    Scenes,           \* the scenes a run looks at
    Far,              \* a time no behaviour reaches
    SafetyMargin,     \* reconnect safety margin below the expiry of the lease
    TimeStep,         \* how far a clock that runs on its own jumps
    MaxTime,          \* the bound of such a clock
    MaxBreaks         \* the bound of broken connections

\* A scene has phases; their coordinators have epochs, and their databases are
\* the ones left behind or changed in one of three ways.
ASSUME SceneAssumption ==
    \A s \in Scenes :
        /\ Len(s.phases) \in Nat \ {0}
        /\ DOMAIN s.phases = 1 .. Len(s.phases)
        /\ \A i \in DOMAIN s.phases :
              /\ s.phases[i].c.epoch \in Int
              /\ s.phases[i].c.renewedEpoch \in Int
              /\ s.phases[i].db \in {"same", "new", "older", "revoked"}

VARIABLES
    scene, phase,
    co,               \* the coordinator process
    ag,               \* the agent process
    net,              \* connections in the order the agent opened them
    leaseDb,          \* the lease of the coordinator's database, or Nothing
    watermark,        \* the highest epoch in the agent's fence database
    time,
    breaks,           \* connections broken so far
    ackedEpoch        \* the highest epoch an agent has acknowledged

seVars == <<scene, phase, co, ag, net, leaseDb, watermark, time, breaks, ackedEpoch>>

Args == scene.phases[phase]
C == Args.c           \* arguments of the coordinator
A == Args.a           \* arguments of the agent

-----------------------------------------------------------------------------
(* Connections: two queues and who has closed its end. *)

Fresh == [toA |-> <<>>, toC |-> <<>>, aOpen |-> TRUE, cOpen |-> TRUE]
Closed == [toA |-> <<>>, toC |-> <<>>, aOpen |-> FALSE, cOpen |-> FALSE]

\* What a closed end has not read is gone.
ShutA(n, i) ==
    IF n[i].cOpen THEN [n EXCEPT ![i] = [@ EXCEPT !.aOpen = FALSE, !.toA = <<>>]]
                  ELSE [n EXCEPT ![i] = Closed]
ShutC(n, i) ==
    IF n[i].aOpen THEN [n EXCEPT ![i] = [@ EXCEPT !.cOpen = FALSE, !.toC = <<>>]]
                  ELSE [n EXCEPT ![i] = Closed]

SendToA(n, i, m) == IF n[i].aOpen THEN [n EXCEPT ![i].toA = Append(@, m)] ELSE n
SendToC(n, i, m) == IF n[i].cOpen THEN [n EXCEPT ![i].toC = Append(@, m)] ELSE n

\* The listener goes away with the process: connections nobody accepted, too.
ShutAll(n) == [i \in DOMAIN n |-> ShutC(n, i)[i]]

AConn == net[ag.conn]
CConn == net[co.count]

-----------------------------------------------------------------------------
(* Who may move.  A read has something to do when a message is there or the *)
(* other end is closed.                                                     *)

AReads == {"grant", "revoke", "extra", "result", "resume"}
CReads == {"hello", "ack", "twice", "beat", "report", "request", "resumeRequest"}

AReady ==
    CASE ag.pc \in AReads \cup {"peek"} -> AConn.toA # <<>> \/ ~AConn.cOpen
      [] ag.pc = "connect" -> co.pc # "start"
      [] ag.pc \in {"delay", "done"} -> FALSE
      [] OTHER -> TRUE

CReady ==
    CASE co.pc \in CReads -> CConn.toC # <<>> \/ ~CConn.aOpen
      [] co.pc = "accept" -> Len(net) > co.count
      [] co.pc \in {"pause", "renewSleep", "revokeSleep", "linger", "done"} -> FALSE
      [] OTHER -> TRUE

\* How long the step waits, in order: a peek of 50 ms, 100 ms before a session
\* closes, the sleeps of the hooks, reads of 2 s and 5 s, IO_TIMEOUT, the accept
\* deadline.
ARank ==
    CASE ag.pc = "peek" -> 1 [] ag.pc = "delay" -> 3 [] ag.pc = "extra" -> 5
      [] ag.pc \in AReads \ {"extra"} -> 6 [] OTHER -> 9
CRank ==
    CASE co.pc = "linger" -> 2
      [] co.pc \in {"pause", "renewSleep", "revokeSleep"} -> 3
      [] co.pc = "twice" -> 4
      [] co.pc \in CReads \ {"twice"} -> 6
      [] co.pc = "accept" -> 7 [] OTHER -> 9

AElapses == scene.timely => (~CReady /\ CRank >= ARank)
CElapses == scene.timely => (~AReady /\ ARank >= CRank)

-----------------------------------------------------------------------------
(* The coordinator: leases. *)

Live(l) == ~l.revoked /\ time < l.expires
DurationExceeded(l) == time < l.issued \/ time - l.issued >= l.duration

\* issue_lease: what get_or_issue finds or inserts, signed.
NewLease ==
    [holder |-> C.holder, epoch |-> C.epoch, issued |-> time, revoked |-> FALSE,
     expires |-> IF "expiredLease" \in C.hooks THEN time - 1 ELSE time + C.ttl,
     duration |-> C.duration]

LeaseRefused == C.store /\ leaseDb # Nothing /\ (leaseDb.holder # C.holder \/ ~Live(leaseDb))

ResolvedLease == IF C.store /\ leaseDb # Nothing THEN leaseDb ELSE NewLease

Signed(l, forged) == [epoch |-> l.epoch, expires |-> l.expires, holder |-> l.holder,
                      sig |-> ~forged]

\* build_renew_result: [outcome, stored lease afterwards].
RenewOutcome(l) ==
    CASE l = Nothing -> IF C.override # 0 THEN C.override ELSE 1
      [] l # Nothing /\ l.revoked -> 8
      [] l # Nothing /\ ~l.revoked /\ time >= l.expires -> 0
      [] l # Nothing /\ ~l.revoked /\ time < l.expires ->
            IF DurationExceeded(l) THEN 6
            ELSE IF C.override # 0 THEN C.override ELSE 1

Extended(l) == [l EXCEPT !.expires = time + C.extension]

\* Without a database the renewed lease is made from the arguments.
RenewedLease(l) ==
    IF l = Nothing
    THEN [NewLease EXCEPT !.epoch = C.renewedEpoch, !.expires = time + C.extension]
    ELSE Extended(l)

RenewResult(nonce, outcome) ==
    [kind |-> "result", outcome |-> outcome,
     nonce |-> IF "otherNonce" \in C.hooks THEN Nothing ELSE nonce,
     sig |-> "forgedResult" \notin C.hooks,
     lease |-> IF outcome = 1
               THEN Signed(RenewedLease(IF C.store THEN leaseDb ELSE Nothing),
                           "forgedRenewedLease" \in C.hooks)
               ELSE Nothing]

WithRevocation(l) == IF l = Nothing THEN l ELSE [l EXCEPT !.revoked = TRUE]

\* classify_resume, in its order.
ResumeOutcome(m) ==
    CASE leaseDb = Nothing \/ m.lease # "ours" -> 5
      [] leaseDb # Nothing /\ m.lease = "ours" ->
            IF m.node # leaseDb.holder \/ m.job # "ours" THEN 6
            ELSE IF leaseDb.revoked THEN 2
            ELSE IF time >= leaseDb.expires THEN 3
            ELSE IF m.epoch < leaseDb.epoch THEN 4
            ELSE IF m.epoch > leaseDb.epoch THEN 8
            ELSE 1

-----------------------------------------------------------------------------
(* The coordinator: its process. *)

CStart == [pc |-> "start", count |-> 0, last |-> -1, attempt |-> 0, round |-> 0,
           left |-> 0, grant |-> Nothing, seen |-> {}, resulted |-> 0, kept |-> 0,
           outcome |-> 0, end |-> "none"]

\* What start-up refuses before the listener is bound.
StartRefused ==
    \/ ~C.store /\ ~C.legacyOptIn
    \/ C.store /\ "storeUnopenable" \in C.hooks
    \/ "badConfig" \in C.hooks

CoordinatorStarts ==
    /\ co.pc = "start"
    /\ IF StartRefused
       THEN co' = [co EXCEPT !.pc = "done", !.end = "refused"]
       ELSE co' = [co EXCEPT !.pc = "accept"]
    /\ UNCHANGED <<scene, phase, ag, net, leaseDb, watermark, time, breaks, ackedEpoch>>

\* The end of one connection: a storage error ends the process, everything else
\* only when the budget of connections is used up.
ConnectionEnds(p, n, verdict) ==
    IF verdict = "storage" \/ p.count >= C.maxConn
    THEN /\ co' = [p EXCEPT !.pc = "done", !.end = verdict]
         /\ net' = ShutAll(n)
    ELSE /\ co' = [p EXCEPT !.pc = IF C.pause > 0 THEN "pause" ELSE "accept"]
         /\ net' = ShutC(n, p.count)

\* A connection handler fails: database and clock stay as they are.
CFails(p, verdict) ==
    /\ ConnectionEnds(p, net, verdict)
    /\ UNCHANGED <<scene, phase, ag, leaseDb, watermark, time, breaks, ackedEpoch>>

Pauses ==
    /\ co.pc = "pause" /\ CElapses
    /\ time' = time + C.pause
    /\ co' = [co EXCEPT !.pc = "accept"]
    /\ UNCHANGED <<scene, phase, ag, net, leaseDb, watermark, breaks, ackedEpoch>>

Accepts ==
    /\ co.pc = "accept"
    /\ Len(net) > co.count
    /\ co' = [co EXCEPT !.pc = "hello", !.count = @ + 1, !.round = 0]
    /\ UNCHANGED <<scene, phase, ag, net, leaseDb, watermark, time, breaks, ackedEpoch>>

\* An accept that waits as long as the budget of connections is not used up.
AcceptWithoutDeadline ==
    /\ co.pc = "accept"
    /\ Len(net) = co.count /\ co.count >= C.maxConn
    /\ CElapses
    /\ co' = [co EXCEPT !.pc = "done", !.end = "transport"]
    /\ net' = ShutAll(net)
    /\ UNCHANGED <<scene, phase, ag, leaseDb, watermark, time, breaks, ackedEpoch>>

AcceptDeadline ==
    /\ co.pc = "accept"
    /\ Len(net) = co.count
    /\ CElapses
    /\ co' = [co EXCEPT !.pc = "done", !.end = "transport"]
    /\ net' = ShutAll(net)
    /\ UNCHANGED <<scene, phase, ag, leaseDb, watermark, time, breaks, ackedEpoch>>

\* Every read of the coordinator that gets no message.
CReadEnds ==
    /\ co.pc \in CReads
    /\ CConn.toC = <<>>
    /\ (CConn.aOpen => CElapses)
    /\ CFails(co, "transport")

CMessage(kind) ==
    /\ CConn.toC # <<>>
    /\ Head(CConn.toC).kind = kind

CTaken == [net EXCEPT ![co.count].toC = Tail(@)]

\* A frame of another kind or with a signature that does not verify.
CReadsOther ==
    /\ co.pc \in CReads \ {"twice"}
    /\ CConn.toC # <<>>
    /\ \/ ~Head(CConn.toC).sig
       \/ Head(CConn.toC).kind #
            (CASE co.pc = "hello" -> "hello" [] co.pc = "ack" -> "ack"
               [] co.pc = "beat" -> "beat" [] co.pc = "report" -> "report"
               [] co.pc = "request" -> "request"
               [] co.pc = "resumeRequest" -> "resumeRequest")
    /\ CFails(co, "protocol")

\* The hello of a session: its mode, its node, and in the legacy lane a
\* connection attempt above the last one, recorded before the grant is made.
HelloFits(m) ==
    /\ m.node = C.node
    /\ IF "resume" \in C.hooks
       THEN m.mode = "RESUME" /\ m.attempt = co.count - 1
       ELSE m.mode = "FRESH" /\ m.attempt > co.last

ReadsHello ==
    /\ co.pc = "hello" /\ CMessage("hello") /\ Head(CConn.toC).sig
    /\ LET m == Head(CConn.toC)
       IN IF ~HelloFits(m) THEN CFails(co, "protocol")
          ELSE /\ co' = [co EXCEPT !.pc = IF "resume" \in C.hooks THEN "resumeRequest"
                                          ELSE "issue",
                                   !.attempt = m.attempt,
                                   !.last = IF "resume" \in C.hooks THEN @ ELSE m.attempt]
               /\ net' = CTaken
               /\ UNCHANGED <<scene, phase, ag, leaseDb, watermark, time, breaks,
                              ackedEpoch>>

\* issue_grant and the frame of the grant, twice with the hook.
GrantMessage(l) ==
    [kind |-> "grant", attempt |-> co.attempt, durable |-> C.store,
     sig |-> "forgedGrant" \notin C.hooks, manifest |-> C.manifest,
     lease |-> Signed(l, "forgedLease" \in C.hooks)]

IssuesGrant ==
    /\ co.pc = "issue"
    /\ IF "storeBroken" \in C.hooks /\ C.store THEN CFails(co, "storage")
       ELSE IF LeaseRefused THEN CFails(co, "protocol")
       ELSE LET g == GrantMessage(ResolvedLease)
            IN /\ net' = SendToA(IF "grantTwice" \in C.hooks
                                 THEN SendToA(net, co.count, g) ELSE net, co.count, g)
               /\ co' = [co EXCEPT !.pc = "ack", !.grant = g.lease]
               /\ leaseDb' = IF C.store THEN ResolvedLease ELSE leaseDb
               /\ UNCHANGED <<scene, phase, ag, watermark, time, breaks, ackedEpoch>>

\* The acknowledgement, then the hooks that drop the connection behind it; a
\* dropped connection is a good one.  Where a nested manifest came with the
\* grant, a lease that has run out since is refused.
Drops(p, l) ==
    /\ ConnectionEnds(p, CTaken, "ok")
    /\ leaseDb' = l
    /\ UNCHANGED <<scene, phase, ag, watermark, time, breaks, ackedEpoch>>

ReadsAck ==
    /\ co.pc = "ack" /\ CMessage("ack") /\ Head(CConn.toC).sig
    /\ CASE Head(CConn.toC).attempt # co.attempt -> CFails(co, "protocol")
         [] C.manifest # Nothing /\ time >= co.grant.expires -> CFails(co, "protocol")
         [] OTHER ->
               IF /\ "dropAfterAckOnce" \in C.hooks
                  /\ C.maxConn > 1 /\ co.attempt = 0
               THEN Drops(co, IF "revokeBeforeDrop" \in C.hooks /\ C.store
                              THEN WithRevocation(leaseDb) ELSE leaseDb)
               ELSE IF "disconnectAfterAck" \in C.hooks THEN Drops(co, leaseDb)
               ELSE /\ co' = [co EXCEPT
                          !.pc = IF "grantTwice" \in C.hooks THEN "twice"
                                 ELSE IF C.beats > 0 THEN "beat"
                                 ELSE IF C.reports > 0 THEN "report" ELSE "after",
                          !.left = IF C.beats > 0 THEN C.beats ELSE C.reports]
                    /\ net' = CTaken
                    /\ UNCHANGED <<scene, phase, ag, leaseDb, watermark, time, breaks,
                                   ackedEpoch>>

\* After a grant sent twice nothing else may come; the session fails either way.
ReadsExtra ==
    /\ co.pc = "twice" /\ CConn.toC # <<>>
    /\ CFails(co, "protocol")

\* A heartbeat names the device, the coordinator and the epoch of the grant; a
\* neighbour report the device and the coordinator.  The last one is followed by
\* what comes next.
ReadsBeat ==
    /\ co.pc = "beat" /\ CMessage("beat") /\ Head(CConn.toC).sig
    /\ IF Head(CConn.toC).wrong # Nothing THEN CFails(co, "protocol")
       ELSE /\ co' = [co EXCEPT
                  !.kept = @ + 1,
                  !.left = IF @ > 1 THEN @ - 1 ELSE C.reports,
                  !.pc = IF co.left > 1 THEN "beat"
                         ELSE IF C.reports > 0 THEN "report" ELSE "after"]
            /\ net' = CTaken
            /\ UNCHANGED <<scene, phase, ag, leaseDb, watermark, time, breaks, ackedEpoch>>

ReadsReport ==
    /\ co.pc = "report" /\ CMessage("report") /\ Head(CConn.toC).sig
    /\ IF Head(CConn.toC).wrong # Nothing THEN CFails(co, "protocol")
       ELSE /\ co' = [co EXCEPT !.kept = @ + 1, !.left = @ - 1,
                                !.pc = IF co.left > 1 THEN "report" ELSE "after"]
            /\ net' = CTaken
            /\ UNCHANGED <<scene, phase, ag, leaseDb, watermark, time, breaks, ackedEpoch>>

\* revoke_before_renew needs a database.  Then a notice at once, or the rounds.
AfterAck ==
    /\ co.pc = "after"
    /\ IF "revokeBeforeRenew" \in C.hooks /\ ~C.store THEN CFails(co, "protocol")
       ELSE /\ leaseDb' = IF "revokeBeforeRenew" \in C.hooks THEN WithRevocation(leaseDb)
                          ELSE leaseDb
            /\ co' = [co EXCEPT !.pc = IF C.revokeAfter = 0 THEN "mark"
                                       ELSE IF C.rounds = 0 THEN "finish"
                                       ELSE IF C.renewDelay > 0 THEN "renewSleep"
                                       ELSE "request"]
            /\ UNCHANGED <<scene, phase, ag, net, watermark, time, breaks, ackedEpoch>>

\* send_revoke_notice: the database first, then the delay, then the notice.
MarksRevoked ==
    /\ co.pc = "mark"
    /\ leaseDb' = IF C.store THEN WithRevocation(leaseDb) ELSE leaseDb
    /\ co' = [co EXCEPT !.pc = IF C.revokeDelay > 0 THEN "revokeSleep" ELSE "notice"]
    /\ UNCHANGED <<scene, phase, ag, net, watermark, time, breaks, ackedEpoch>>

CSleeps ==
    /\ co.pc \in {"renewSleep", "revokeSleep"} /\ CElapses
    /\ time' = time + (IF co.pc = "renewSleep" THEN C.renewDelay ELSE C.revokeDelay)
    /\ co' = [co EXCEPT !.pc = IF @ = "renewSleep" THEN "request" ELSE "notice"]
    /\ UNCHANGED <<scene, phase, ag, net, leaseDb, watermark, breaks, ackedEpoch>>

SendsNotice ==
    /\ co.pc = "notice"
    /\ net' = SendToA(net, co.count,
                [kind |-> "notice", sig |-> "forgedNotice" \notin C.hooks,
                 lease |-> IF "noticeOtherLease" \in C.hooks THEN "other" ELSE "ours",
                 epoch |-> IF "noticeOtherEpoch" \in C.hooks THEN co.grant.epoch + 1
                           ELSE co.grant.epoch])
    /\ co' = [co EXCEPT !.pc = "finish"]
    /\ UNCHANGED <<scene, phase, ag, leaseDb, watermark, time, breaks, ackedEpoch>>

\* One renewal round.  A request of a lower epoch gets a signed SUPERSEDED where
\* a database is the authority; any other epoch is an error.  The renewal is in
\* the database before the hook may drop the connection.
ExpectedEpoch == IF C.store THEN leaseDb.epoch ELSE C.epoch

\* A round that goes on after a refusal.
RoundAfterRefusal(outcome) ==
    IF C.revokeAfter = co.round + 1 THEN "mark"
    ELSE IF co.round + 1 < C.rounds THEN "request" ELSE "finish"

RoundAfter(outcome) ==
    IF outcome \in {2, 3, 6, 8} THEN "finish"
    ELSE IF C.revokeAfter = co.round + 1 THEN "mark"
    ELSE IF co.round + 1 < C.rounds THEN "request" ELSE "finish"

Renewal(p, nonce, outcome) ==
    LET stored == IF C.store /\ outcome = 1 THEN Extended(leaseDb) ELSE leaseDb
    IN IF "dropAfterCommit" \in C.hooks /\ co.attempt = 0
       THEN IF outcome = 1 /\ C.store
            THEN Drops(p, IF "revokeBeforeDrop" \in C.hooks THEN WithRevocation(stored)
                          ELSE stored)
            ELSE CFails(p, "protocol")
       ELSE /\ net' = SendToA(CTaken, co.count, RenewResult(nonce, outcome))
            /\ leaseDb' = stored
            /\ co' = [p EXCEPT !.pc = RoundAfter(outcome), !.round = @ + 1,
                               !.outcome = outcome]
            /\ UNCHANGED <<scene, phase, ag, watermark, time, breaks, ackedEpoch>>

\* The nonce of a request is used up when its frame is read, whatever follows.
ReadsRequest ==
    /\ co.pc = "request" /\ CMessage("request") /\ Head(CConn.toC).sig
    /\ \E m \in {Head(CConn.toC)} :
       \E p \in {[co EXCEPT !.seen = @ \cup {m.nonce}]} :
          CASE m.nonce \in co.seen -> CFails(co, "protocol")
            [] m.nonce \notin co.seen /\ m.epoch = ExpectedEpoch ->
                  \E outcome \in {RenewOutcome(IF C.store THEN leaseDb ELSE Nothing)} :
                     IF outcome = 0 THEN CFails(p, "protocol")
                     ELSE Renewal(p, m.nonce, outcome)
            [] m.nonce \notin co.seen /\ m.epoch # ExpectedEpoch ->
                  IF m.epoch < ExpectedEpoch /\ C.store
                  THEN /\ net' = SendToA(CTaken, co.count, RenewResult(m.nonce, 2))
                       /\ co' = [p EXCEPT !.pc = "finish", !.outcome = 2]
                       /\ UNCHANGED <<scene, phase, ag, leaseDb, watermark, time, breaks,
                                      ackedEpoch>>
                  ELSE CFails(p, "protocol")

\* RESULT, and 100 ms in which the agent can read what was sent.
Finishes ==
    /\ co.pc = "finish"
    /\ co' = [co EXCEPT !.pc = "linger", !.resulted = @ + 1]
    /\ UNCHANGED <<scene, phase, ag, net, leaseDb, watermark, time, breaks, ackedEpoch>>

Lingers ==
    /\ co.pc = "linger" /\ CElapses
    /\ ConnectionEnds(co, net, "ok")
    /\ UNCHANGED <<scene, phase, ag, leaseDb, watermark, time, breaks, ackedEpoch>>

\* The resume lane: a request of the same session, a decision, no extension.
ReadsResume ==
    /\ co.pc = "resumeRequest" /\ CMessage("resumeRequest") /\ Head(CConn.toC).sig
    /\ \E m \in {Head(CConn.toC)} :
          CASE m.attempt # co.attempt -> CFails(co, "protocol")
            [] m.attempt = co.attempt /\ (~C.store \/ "storeBroken" \in C.hooks) ->
                  CFails(co, "storage")
            [] OTHER ->
                  \E outcome \in {ResumeOutcome(m)} :
                    /\ ConnectionEnds(
                          [co EXCEPT !.outcome = outcome, !.resulted = @ + 1],
                          SendToA(CTaken, co.count,
                             [kind |-> "resumed", sig |-> TRUE, outcome |-> outcome,
                              lease |-> IF outcome = 1 THEN Signed(leaseDb, FALSE)
                                        ELSE Nothing]),
                          "ok")
                    /\ UNCHANGED <<scene, phase, ag, leaseDb, watermark, time, breaks,
                                   ackedEpoch>>

CoordinatorStep ==
    \/ CoordinatorStarts \/ Pauses \/ Accepts \/ AcceptDeadline
    \/ CReadEnds \/ CReadsOther \/ ReadsHello \/ IssuesGrant \/ ReadsAck \/ ReadsExtra
    \/ ReadsBeat \/ ReadsReport \/ AfterAck \/ MarksRevoked \/ CSleeps \/ SendsNotice
    \/ ReadsRequest \/ Finishes \/ Lingers \/ ReadsResume

-----------------------------------------------------------------------------
(* The agent. *)

AStart == [pc |-> "start", tries |-> 0, conn |-> 0, held |-> Nothing, round |-> 0,
           left |-> 0, revoked |-> FALSE, recovering |-> FALSE, deadline |-> Far,
           seen |-> {}, end |-> "none"]

ConnectionAttempt == ag.conn - 1

\* How an attempt to hold a session ends.  Only a lost connection is tried again,
\* and a renewal whose answer was lost only where the operator allowed to recover
\* from a durable lease.
SessionEnds(p, n, class, text) ==
    /\ net' = IF p.conn = 0 THEN n ELSE ShutA(n, p.conn)
    /\ ag' = CASE class \in {"ok", "fatal"} \/ ~A.reconnect ->
                     [p EXCEPT !.pc = "done", !.end = text]
               [] class = "ambiguous" /\ A.reconnect /\ "recover" \notin A.hooks ->
                     [p EXCEPT !.pc = "done", !.end = "AMBIGUOUS_RENEW_RECOVERY_DISABLED"]
               [] OTHER ->
                     IF p.tries + 1 >= A.attempts
                     THEN [p EXCEPT !.pc = "done", !.end = "ReconnectExhausted"]
                     ELSE [p EXCEPT !.pc = "connect", !.tries = @ + 1,
                                    !.recovering = @ \/ class = "ambiguous",
                                    !.held = Nothing, !.conn = 0]

AEnds(p, class, text) ==
    /\ SessionEnds(p, net, class, text)
    /\ UNCHANGED <<scene, phase, co, leaseDb, watermark, time, breaks, ackedEpoch>>

\* The harness starts the agent when the coordinator listens.  A fence database in
\* memory and a lane without its options are refused before a connection.
AgentStarts ==
    /\ ag.pc = "start" /\ co.pc # "start"
    /\ ag' = [ag EXCEPT !.pc = IF co.end = "refused" \/ {"memoryFence", "badConfig"}
                                     \cap A.hooks # {} THEN "done" ELSE "connect",
                        !.end = IF co.end = "refused" THEN "absent"
                                ELSE IF {"memoryFence", "badConfig"} \cap A.hooks # {}
                                THEN "refused" ELSE @]
    /\ UNCHANGED <<scene, phase, co, net, leaseDb, watermark, time, breaks, ackedEpoch>>

Hello == [kind |-> "hello", sig |-> TRUE, node |-> A.node, attempt |-> Len(net),
          mode |-> IF "resume" \in A.hooks THEN "RESUME" ELSE "FRESH"]

ResumeRequest ==
    [kind |-> "resumeRequest", sig |-> TRUE, node |-> A.node, attempt |-> Len(net),
     lease |-> A.resumeLease, job |-> A.resumeJob, epoch |-> A.resumeEpoch]

\* The retry budget: the deadline is the expiry of the last lease less the margin.
\* One scenario opens a connection first that it closes without a word.
Connects ==
    /\ ag.pc = "connect" /\ co.pc # "start"
    /\ IF ag.tries > 0 /\ time >= ag.deadline
       THEN AEnds(ag, "fatal", "ReconnectExhausted")
       ELSE IF co.pc = "done"
       THEN AEnds(ag, "retry", "RETRYABLE_CONNECTION")
       ELSE IF "truncated" \in A.hooks /\ net = <<>>
       THEN /\ net' = <<[Fresh EXCEPT !.aOpen = FALSE]>>
            /\ UNCHANGED <<scene, phase, co, ag, leaseDb, watermark, time, breaks,
                           ackedEpoch>>
       ELSE /\ net' = Append(net, [Fresh EXCEPT
                       !.toC = IF "resume" \in A.hooks THEN <<Hello, ResumeRequest>>
                               ELSE <<Hello>>])
            /\ ag' = [ag EXCEPT !.conn = Len(net) + 1, !.round = 0,
                                !.pc = IF "resume" \in A.hooks THEN "resume" ELSE "grant"]
            /\ UNCHANGED <<scene, phase, co, leaseDb, watermark, time, breaks, ackedEpoch>>

AMessage == Head(AConn.toA)
ATaken == [net EXCEPT ![ag.conn].toA = Tail(@)]

\* Every read of the agent that gets no message.  A read that times out is a lost
\* connection on one platform and an error on another; the resume lane tries
\* nothing again; in a renewal the answer may have been on its way.
AReadEnds ==
    /\ ag.pc \in AReads
    /\ AConn.toA = <<>>
    /\ (AConn.cOpen => AElapses)
    /\ CASE ag.pc = "extra" -> AEnds(ag, "fatal", "REPLAY_REJECTED")
         [] ag.pc = "resume" -> AEnds(ag, "fatal", "NO_RESUME_RESULT")
         [] ag.pc = "result" -> AEnds(ag, "ambiguous", "AMBIGUOUS_RENEW")
         [] ag.pc \in {"grant", "revoke"} ->
               \/ AEnds(ag, "retry", "RETRYABLE_CONNECTION")
               \/ AConn.cOpen /\ AEnds(ag, "fatal", "READ_TIMED_OUT")

\* check_and_advance; whoever gets past it stores the epoch as the watermark.
FenceAllows(l) == l.epoch >= watermark

\* Without the fence.
LeaseProblemWithoutWatermark(l) ==
    \/ ~l.sig
    \/ time >= l.expires
    \/ l.holder # A.node

\* verify_and_record_lease and the checks around it, in their order; the
\* watermark has moved when the manifest or the start marker fails.
LeaseProblem(l) ==
    \/ ~l.sig
    \/ time >= l.expires
    \/ l.holder # A.node
    \/ ~FenceAllows(l)

GrantProblem(m) ==
    CASE m.kind # "grant" \/ ~m.sig \/ m.attempt \in ag.seen -> "GRANT_REJECTED"
      [] OTHER ->
            IF ag.recovering /\ ~m.durable THEN "DURABLE_LEASE_RECOVERY_REFUSED"
            ELSE IF m.attempt # ConnectionAttempt THEN "GRANT_REJECTED"
            ELSE IF LeaseProblem(m.lease) THEN "LEASE_REJECTED" ELSE "none"

LaterProblem(m) ==
    CASE m.manifest # Nothing
         /\ (m.manifest # "good" \/ "noSubmitterKey" \in A.hooks) -> "MANIFEST_REJECTED"
      [] OTHER -> IF "markerFails" \in A.hooks THEN "START_MARKER_FAILED" ELSE "none"

AfterReports ==
    IF A.reconnect /\ A.rounds = 0 /\ "expectReplay" \notin A.hooks /\ A.expectRevoke < 0
    THEN "peek"
    ELSE IF A.expectRevoke = 0 THEN "revoke"
    ELSE IF "expectReplay" \in A.hooks THEN "extra" ELSE "round"

AfterGrant ==
    IF A.beats > 0 THEN "beats" ELSE IF A.reports > 0 THEN "reports" ELSE AfterReports

TakesGrant ==
    /\ ag.pc = "grant" /\ AConn.toA # <<>>
    /\ \E m \in {AMessage} :
          IF GrantProblem(m) # "none"
          THEN AEnds(ag, "fatal", GrantProblem(m))
          ELSE \E p \in {[ag EXCEPT !.held = m.lease, !.seen = @ \cup {m.attempt},
                                    !.deadline = m.lease.expires - SafetyMargin]} :
               /\ watermark' = m.lease.epoch
               /\ IF LaterProblem(m) # "none"
                  THEN /\ SessionEnds(p, net, "fatal", LaterProblem(m))
                       /\ UNCHANGED ackedEpoch
                  ELSE /\ net' = SendToC(ATaken, ag.conn,
                              [kind |-> "ack", attempt |-> ConnectionAttempt,
                               sig |-> "forgedAck" \notin A.hooks
                                       /\ ~("forgedAckOnce" \in A.hooks /\ ConnectionAttempt = 0)])
                       /\ ackedEpoch' = Max({ackedEpoch, m.lease.epoch})
                       /\ ag' = [p EXCEPT !.pc = AfterGrant,
                                  !.left = IF A.beats > 0 THEN A.beats ELSE A.reports]
               /\ UNCHANGED <<scene, phase, co, leaseDb, time, breaks>>

\* Heartbeats and neighbour reports; the hooks put one wrong name into them.
SendsBeat ==
    /\ ag.pc = "beats"
    /\ net' = SendToC(net, ag.conn, [kind |-> "beat", sig |-> TRUE, wrong |-> A.wrongBeat])
    /\ ag' = [ag EXCEPT !.left = IF @ > 1 THEN @ - 1 ELSE A.reports,
                        !.pc = IF ag.left > 1 THEN "beats"
                               ELSE IF A.reports > 0 THEN "reports" ELSE AfterReports]
    /\ UNCHANGED <<scene, phase, co, leaseDb, watermark, time, breaks, ackedEpoch>>

SendsReport ==
    /\ ag.pc = "reports"
    /\ net' = SendToC(net, ag.conn, [kind |-> "report", sig |-> TRUE,
                                     wrong |-> A.wrongReport])
    /\ ag' = [ag EXCEPT !.left = @ - 1,
                        !.pc = IF ag.left > 1 THEN "reports" ELSE AfterReports]
    /\ UNCHANGED <<scene, phase, co, leaseDb, watermark, time, breaks, ackedEpoch>>

\* peer_closed_after_ack: a look of 50 ms at a connection nothing more is asked of.
Peeks ==
    /\ ag.pc = "peek"
    /\ \/ AConn.toA = <<>> /\ ~AConn.cOpen
          /\ AEnds(ag, "retry", "RETRYABLE_CONNECTION")
       \/ /\ AConn.toA # <<>> \/ (AConn.cOpen /\ AElapses)
          /\ AEnds(ag, "ok", "ok")

\* A notice is about the lease held, of its epoch, and that lease is not over.
TakesNotice ==
    /\ ag.pc = "revoke" /\ AConn.toA # <<>>
    /\ \E m \in {AMessage} :
          IF m.kind # "notice" \/ ~m.sig \/ m.lease # "ours" \/ m.epoch # ag.held.epoch
             \/ time >= ag.held.expires
          THEN AEnds(ag, "fatal", "REVOKE_REJECTED")
          ELSE /\ net' = ATaken
               /\ ag' = [ag EXCEPT !.revoked = TRUE,
                            !.pc = IF "expectReplay" \in A.hooks /\ A.expectRevoke = 0
                                   THEN "extra" ELSE "round"]
               /\ UNCHANGED <<scene, phase, co, leaseDb, watermark, time, breaks,
                              ackedEpoch>>

TakesExtra ==
    /\ ag.pc = "extra" /\ AConn.toA # <<>>
    /\ AEnds(ag, "fatal", IF AMessage.sig /\ (AMessage.kind # "grant"
                                              \/ AMessage.attempt \notin ag.seen)
                          THEN "REPLAY_NOT_REJECTED" ELSE "REPLAY_REJECTED")

\* A round of renewal begins, or the session is complete.
BeginsRound ==
    /\ ag.pc = "round"
    /\ IF ag.revoked \/ ag.round >= A.rounds
       THEN AEnds(ag, "ok", "ok")
       ELSE /\ ag' = [ag EXCEPT !.pc = IF A.renewDelay > 0 THEN "delay" ELSE "ask"]
            /\ UNCHANGED <<scene, phase, co, net, leaseDb, watermark, time, breaks,
                           ackedEpoch>>

ADelays ==
    /\ ag.pc = "delay" /\ AElapses
    /\ time' = time + A.renewDelay
    /\ ag' = [ag EXCEPT !.pc = "ask"]
    /\ UNCHANGED <<scene, phase, co, net, leaseDb, watermark, breaks, ackedEpoch>>

RenewNonce ==
    <<IF "reuseNonce" \in A.hooks THEN 0 ELSE ConnectionAttempt, ag.round>>

Asks ==
    /\ ag.pc = "ask"
    /\ IF time >= ag.held.expires
       THEN AEnds(ag, "fatal", "LOCAL_EXPIRED")
       ELSE \E n \in {SendToC(net, ag.conn,
                   [kind |-> "request", sig |-> "forgedRequest" \notin A.hooks,
                    nonce |-> RenewNonce,
                    epoch |-> IF A.askEpoch >= 0 THEN A.askEpoch ELSE ag.held.epoch])} :
            IF "dropAfterRequest" \in A.hooks /\ ConnectionAttempt = 0 /\ ag.round = 0
            THEN /\ SessionEnds(ag, n, "ambiguous", "AMBIGUOUS_RENEW")
                 /\ UNCHANGED <<scene, phase, co, leaseDb, watermark, time, breaks,
                                ackedEpoch>>
            ELSE /\ net' = n
                 /\ ag' = [ag EXCEPT !.pc = "result"]
                 /\ UNCHANGED <<scene, phase, co, leaseDb, watermark, time, breaks,
                                ackedEpoch>>

\* verify_renew_result: the nonce, the outcome, and for a renewed lease its
\* signature, its expiry, no epoch above the one held and none below the watermark.
Refusal(outcome) ==
    CASE outcome = 2 -> "SUPERSEDED" [] outcome = 3 -> "QUARANTINED"
      [] outcome = 6 -> "MAX_DURATION_EXCEEDED" [] outcome = 8 -> "REVOKED"

TakesResult ==
    /\ ag.pc = "result" /\ AConn.toA # <<>>
    /\ \E m \in {AMessage} :
          CASE m.kind # "result" \/ ~m.sig -> AEnds(ag, "fatal", "RENEW_REJECTED")
            [] m.kind = "result" /\ m.sig ->
               IF m.nonce # RenewNonce THEN AEnds(ag, "fatal", "RENEW_REJECTED")
               ELSE IF m.outcome # 1 THEN AEnds(ag, "fatal", Refusal(m.outcome))
               ELSE IF LeaseProblem(m.lease) \/ m.lease.epoch > ag.held.epoch
               THEN AEnds(ag, "fatal", "RENEW_REJECTED")
               ELSE /\ net' = ATaken
                    /\ watermark' = m.lease.epoch
                    /\ ag' = [ag EXCEPT !.held = m.lease, !.round = @ + 1,
                               !.pc = IF A.expectRevoke = ag.round + 1 THEN "revoke"
                                      ELSE "round"]
                    /\ UNCHANGED <<scene, phase, co, leaseDb, time, breaks, ackedEpoch>>

\* run_resume_connection: a lease that is the one asked for, at the epoch asked
\* for, and not below the watermark.
ResumeRefusal(outcome) ==
    CASE outcome = 2 -> "REVOKED" [] outcome = 3 -> "EXPIRED" [] outcome = 4 -> "SUPERSEDED"
      [] outcome = 5 -> "UNKNOWN_LEASE" [] outcome = 6 -> "IDENTITY_CONFLICT"
      [] outcome = 8 -> "EPOCH_AHEAD"

TakesResumed ==
    /\ ag.pc = "resume" /\ AConn.toA # <<>>
    /\ \E m \in {AMessage} :
          CASE m.kind # "resumed" \/ ~m.sig -> AEnds(ag, "fatal", "RESUME_REJECTED")
            [] m.kind = "resumed" /\ m.sig ->
               IF m.outcome # 1 THEN AEnds(ag, "fatal", ResumeRefusal(m.outcome))
               ELSE IF LeaseProblem(m.lease) \/ m.lease.epoch # A.resumeEpoch
               THEN AEnds(ag, "fatal", "RESUME_REJECTED")
               ELSE /\ SessionEnds([ag EXCEPT !.held = m.lease], net, "ok", "ok")
                    /\ watermark' = m.lease.epoch
                    /\ ackedEpoch' = Max({ackedEpoch, m.lease.epoch})
                    /\ UNCHANGED <<scene, phase, co, leaseDb, time, breaks>>

\* A write to a connection the other end has closed may fail at once: an error,
\* and for a renewal request one whose fate is unknown.
AWriteFails ==
    /\ ~scene.timely
    /\ ag.pc \in {"beats", "reports", "ask"}
    /\ ~AConn.cOpen
    /\ IF ag.pc = "ask" THEN AEnds(ag, "ambiguous", "AMBIGUOUS_RENEW")
       ELSE AEnds(ag, "fatal", "WRITE_FAILED")

AgentStep ==
    \/ AWriteFails
    \/ AgentStarts \/ Connects \/ AReadEnds \/ TakesGrant \/ SendsBeat \/ SendsReport
    \/ Peeks \/ TakesNotice \/ TakesExtra \/ BeginsRound \/ ADelays \/ Asks
    \/ TakesResult \/ TakesResumed

-----------------------------------------------------------------------------
(* What the processes do not choose, in the scenes that are not timely. *)

Breaks(i) ==
    /\ ~scene.timely /\ breaks < MaxBreaks
    /\ net[i] # Closed
    /\ net' = [net EXCEPT ![i] = Closed]
    /\ breaks' = breaks + 1
    /\ UNCHANGED <<scene, phase, co, ag, leaseDb, watermark, time, ackedEpoch>>

AgentKilled ==
    /\ ~scene.timely /\ breaks < MaxBreaks
    /\ ag.pc \notin {"start", "done"}
    /\ ag' = [ag EXCEPT !.pc = "done", !.end = "killed"]
    /\ net' = IF ag.conn = 0 THEN net ELSE ShutA(net, ag.conn)
    /\ breaks' = breaks + 1
    /\ UNCHANGED <<scene, phase, co, leaseDb, watermark, time, ackedEpoch>>

CoordinatorKilled ==
    /\ ~scene.timely /\ breaks < MaxBreaks
    /\ co.pc \notin {"start", "done"}
    /\ co' = [co EXCEPT !.pc = "done", !.end = "killed"]
    /\ net' = ShutAll(net)
    /\ breaks' = breaks + 1
    /\ UNCHANGED <<scene, phase, ag, leaseDb, watermark, time, ackedEpoch>>

TimeRuns ==
    /\ ~scene.timely /\ time < MaxTime
    /\ time' = time + TimeStep
    /\ UNCHANGED <<scene, phase, co, ag, net, leaseDb, watermark, breaks, ackedEpoch>>

\* The next pair of processes, on the databases the last one left, or on a lease
\* database that was replaced or changed by hand in between.
WithLowerEpoch(l) == IF l = Nothing THEN l ELSE [l EXCEPT !.epoch = @ - 2]

PhaseOver == co.pc = "done" /\ ag.pc = "done"

NextPhase ==
    /\ PhaseOver /\ phase < Len(scene.phases)
    /\ phase' = phase + 1
    /\ co' = CStart
    /\ ag' = AStart
    /\ net' = <<>>
    /\ time' = time + scene.phases[phase + 1].wait
    /\ leaseDb' = CASE scene.phases[phase + 1].db = "same" -> leaseDb
                    [] scene.phases[phase + 1].db = "new" -> Nothing
                    [] scene.phases[phase + 1].db = "older" -> WithLowerEpoch(leaseDb)
                    [] scene.phases[phase + 1].db = "revoked" -> WithRevocation(leaseDb)
    /\ watermark' = IF scene.phases[phase + 1].newFence THEN 0 ELSE watermark
    /\ ackedEpoch' = IF scene.phases[phase + 1].newFence THEN 0 ELSE ackedEpoch
    /\ UNCHANGED <<scene, breaks>>

SessionInit ==
    /\ scene \in Scenes
    /\ phase = 1
    /\ co = CStart
    /\ ag = AStart
    /\ net = <<>>
    /\ leaseDb = Nothing
    /\ watermark = 0
    /\ time = 1
    /\ breaks = 0
    /\ ackedEpoch = 0

SessionNext ==
    \/ CoordinatorStep \/ AgentStep
    \/ \E i \in DOMAIN net : Breaks(i)
    \/ AgentKilled \/ CoordinatorKilled \/ TimeRuns
    \/ NextPhase

SessionSpec == SessionInit /\ [][SessionNext]_seVars

-----------------------------------------------------------------------------

\* What the self test can see of a phase when both processes have ended.
Seen(what) ==
    CASE what = "connections" -> co.count
      [] what = "outcome" -> co.outcome
      [] what = "results" -> co.resulted
      [] what = "kept" -> co.kept
      [] what = "watermark" -> watermark
      [] what = "expires" -> leaseDb.expires
      [] what = "epoch" -> leaseDb.epoch
      [] what = "round" -> ag.round

\* A scenario of the self test asserts how the two processes end, and with it how
\* many connections were served, the outcome of the last renewal or resume, what
\* the databases hold.  It runs each scenario once; here the assertion holds for
\* every order in which the two processes can take their steps.
\* (cli coordinator_agent_selftest.rs run; coordinator lib.rs
\* serve_one_connection_impl; agent lib.rs run_one_connection_inner)
SelftestHolds ==
    PhaseOver =>
        /\ co.end \in Args.expect.c
        /\ ag.end \in Args.expect.a
        /\ \A pair \in Args.expect.also : Seen(pair[1]) = pair[2]

\* Once an agent has acknowledged a lease of an epoch, no agent on the same fence
\* database holds a lease of a lower epoch: not after a restart, not over another
\* connection, not through a renewal or a resume, and not when the coordinator's
\* database was replaced by an older one.
\* (agent lib.rs verify_and_record_lease, verify_renew_result,
\* run_resume_connection; runtime-policy durable_lease_scope.rs check_and_advance)
EpochNeverBack == ag.held # Nothing => ag.held.epoch >= ackedEpoch

\* Every scene comes to its end: however connections break and processes are
\* killed, no pair of processes waits for one another for good.
\* (the deadlines of every read and accept, the budgets of connections and
\* attempts)
ScenesEnd == <>(phase = Len(scene.phases) /\ PhaseOver)
=============================================================================
