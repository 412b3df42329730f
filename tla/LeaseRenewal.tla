----------------------------- MODULE LeaseRenewal -----------------------------
(***************************************************************************)
(* One attempt that runs on a node, and the lease it runs under.  The      *)
(* renewal thread of the agent renews the lease over a connection of its   *)
(* own each time; the watcher thread stops the work shortly before the     *)
(* lease as signed ends, since the coordinator gives the job to another    *)
(* node some grace after the lease as stored has ended.  The owner of the  *)
(* machine may stop, freeze, thaw or keep the work, or announce that the   *)
(* machine will be out of reach, all through the owner's panel.            *)
(*                                                                         *)
(* An instant is the time the agent's threads need for a round (they look  *)
(* every 50 ms and a wait is at least half a second): the clock moves on   *)
(* only when the watcher has looked, after a refusal or the start of the   *)
(* workload once more, and what is due was begun.                          *)
(***************************************************************************)
EXTENDS Integers

CONSTANTS
    Extension,   \* renew_extension_ms
    Total,       \* max_total_duration_seconds of the lease
    Margin,      \* disconnect_stop_margin_ms, more than 0
    Interval,    \* renew_during_execution_ms
    IoTimeout,   \* how long the renewal thread waits for an answer
    PolicyGrace, \* grace of the failover
    SignedGrace, \* signed_reassignment_grace_ms, 0 when it is off
    PlannedMax,  \* planned_unreachable_max_ms, 0 when it is off
    Lags,        \* how far the node's clock may be behind the coordinator's
    Lengths,     \* lengths of an announced absence
    MaxTime,     \* bound: instants
    MaxLost,     \* bound: connections that break
    MaxFails,    \* bound: commands of the container runtime that fail
    MaxOwner,    \* bound: requests of the owner
    None

ASSUME TimesAssumption ==
    /\ Extension \in Nat \ {0} /\ Total \in Nat \ {0} /\ Margin \in Nat \ {0}
    /\ Interval \in Nat \ {0} /\ IoTimeout \in Nat
    /\ PolicyGrace \in Nat /\ SignedGrace \in Nat /\ PlannedMax \in Nat
    /\ Lags \subseteq Nat /\ Lengths \subseteq Nat \ {0}
    /\ MaxTime \in Nat /\ MaxLost \in Nat /\ MaxFails \in Nat /\ MaxOwner \in Nat

VARIABLES
    now,         \* the clock of the node
    lag,         \* how far it is behind the coordinator's
    row,         \* the stored lease
    taken,       \* when failover gave the job to another node, or None
    held,        \* the lease the renewal thread holds
    thread,      \* the renewal thread
    wire,        \* its request and the answer to it
    late,        \* a request it gave up, which the coordinator may yet serve
    watch,       \* ConnectionWatch of the attempt, None when unregistered
    looked,      \* the watcher has looked since something it must see happened
    registered,  \* the panel has the stopper of the workload
    work,        \* the container
    stopper,     \* what WorkloadStopper knows of it
    panel,       \* a request of the owner that has several steps
    notice,      \* the announcement of the panel
    stoppedBy,   \* owner_stopped and disconnect_stopped
    lost, fails, asks

coordinatorVars == <<lag, row, taken>>
threadVars == <<held, thread, wire, late>>
workVars == <<registered, work, stopper>>
panelVars == <<panel, notice, stoppedBy>>
countVars == <<lost, fails, asks>>
vars == <<now, coordinatorVars, threadVars, watch, looked, workVars, panelVars,
          countVars>>

Least(a, b) == IF a <= b THEN a ELSE b
Greatest(a, b) == IF a >= b THEN a ELSE b
Minus(a, b) == Greatest(a - b, 0)            \* saturating_sub

coordinator_now == now + lag

(***************************************************************************)
(* The deadlines the node derives from a signed lease.                     *)
(***************************************************************************)
\* The end of the lease, measured from when the request was sent.
SignedBase(lease, sent) ==
    Least(sent + Minus(lease.expires, lease.issued), lease.expires)

\* Broken: measured from the end of the lease alone, without the margin.
self_stop_at_expiry(lease, sent) == lease.expires + Margin

disconnect_self_stop_at(lease, sent) ==
    LET base == SignedBase(lease, sent) IN
    Minus(base, Least(Margin, Minus(base, sent) \div 2))

near_finish_stop_at(lease, sent) ==
    LET max_end == lease.issued + Total
        extra == Least(lease.grace, Minus(max_end, lease.expires))
    IN Greatest(Minus(SignedBase(lease, sent) + extra, Margin),
                disconnect_self_stop_at(lease, sent))

lease_is_expired(lease) == lease.expires <= now
lease_reached_max_total_duration(lease) == now >= lease.issued + Total

\* How long the renewal thread waits before its next request.
RenewWait(lease) ==
    Least(Interval, Greatest(Minus(lease.expires, now) \div 2, 1))

(***************************************************************************)
(* The coordinator.                                                        *)
(***************************************************************************)
announced_renew_extension_ms(until) ==
    LET to_max_end == Minus(row.issued + Total, coordinator_now)
        wanted == IF PlannedMax = 0 \/ until <= coordinator_now THEN Extension
                  ELSE Greatest(Least(until - coordinator_now, PlannedMax),
                                Extension)
    IN Least(wanted, to_max_end)

is_max_duration_exceeded == coordinator_now - row.issued >= Total

Answer(outcome, lease) == [outcome |-> outcome, lease |-> lease]
Signed(r) == [issued |-> r.issued, expires |-> r.expires, grace |-> r.grace]

\* The transactions of a renewal: the stored expiry is set, not only raised.
Renewed(until) ==
    [row EXCEPT !.expires = coordinator_now + announced_renew_extension_ms(until),
                !.grace = Greatest(@, SignedGrace)]

\* The row after a RENEW session and what the session answers; "closed" is a
\* session that ends with an error.
SessionResult(until) ==
    CASE row.revoked -> [row |-> row, answer |-> Answer("REVOKED", None)]
      [] ~row.revoked /\ row.expires <= coordinator_now ->
            [row |-> row, answer |-> Answer("closed", None)]
      [] ~row.revoked /\ row.expires > coordinator_now /\ is_max_duration_exceeded ->
            [row |-> row, answer |-> Answer("MAX_DURATION_EXCEEDED", None)]
      [] OTHER ->
            [row |-> Renewed(until),
             answer |-> Answer("RENEWED", Signed(Renewed(until)))]

serve_renew_session ==
    /\ wire.request # None
    /\ LET result == SessionResult(wire.request) IN
        /\ row' = result.row
        /\ wire' = [wire EXCEPT !.request = None, !.answer = result.answer]
    /\ UNCHANGED <<now, lag, taken, held, thread, late, watch, looked>>
    /\ UNCHANGED <<workVars, panelVars, countVars>>

\* A request whose sender is gone is served all the same.
serve_late_request ==
    /\ late # None
    /\ row' = SessionResult(late).row
    /\ late' = None
    /\ UNCHANGED <<now, lag, taken, held, thread, wire, watch, looked>>
    /\ UNCHANGED <<workVars, panelVars, countVars>>

failover_lost_attempts ==
    /\ taken = None
    /\ coordinator_now > row.expires + Greatest(PolicyGrace, row.grace)
    /\ row' = [row EXCEPT !.revoked = TRUE]
    /\ taken' = coordinator_now
    /\ UNCHANGED <<now, lag, threadVars, watch, looked>>
    /\ UNCHANGED <<workVars, panelVars, countVars>>
-----------------------------------------------------------------------------
(***************************************************************************)
(* The renewal thread.                                                     *)
(***************************************************************************)
ThreadOver == [at |-> "over", due |-> 0, sent |-> 0, announce |-> 0, plain |-> FALSE]

\* The owner has announced something since the thread last looked.
HasNews == notice.news

announcement_to_send == IF notice.until > now THEN notice.until ELSE 0

\* The lease has run out on the node's own clock: the thread ends.  At the
\* end of the total duration this counts as a refusal.
LocalExpired ==
    /\ thread.at = "wait" /\ (now >= thread.due \/ HasNews)
    /\ lease_is_expired(held)
    /\ thread' = ThreadOver
    /\ notice' = [notice EXCEPT !.news = FALSE,
                                !.failed = @ \/ (~thread.plain /\ announcement_to_send # 0)]
    /\ watch' = IF watch = None THEN None
                ELSE IF lease_reached_max_total_duration(held)
                THEN [watch EXCEPT !.refused = TRUE, !.stopAt = Least(@, now)]
                ELSE [watch EXCEPT !.disconnected = TRUE]
    /\ looked' = FALSE
    /\ UNCHANGED <<now, coordinatorVars, held, wire, late, workVars>>
    /\ UNCHANGED <<panel, stoppedBy, countVars>>

renew_once_over_new_connection ==
    /\ thread.at = "wait" /\ (now >= thread.due \/ HasNews)
    /\ ~lease_is_expired(held)
    /\ LET announce == IF thread.plain THEN 0 ELSE announcement_to_send IN
        /\ wire' = [request |-> announce, answer |-> None]
        /\ thread' = [thread EXCEPT !.at = "sent", !.sent = now, !.plain = FALSE,
                                    !.announce = announce]
    /\ notice' = [notice EXCEPT !.news = FALSE]
    /\ UNCHANGED <<now, coordinatorVars, held, late, watch, looked, workVars>>
    /\ UNCHANGED <<panel, stoppedBy, countVars>>

\* announcement_sent: only the announcement that was sent is marked.
Marked(granted) ==
    IF thread.announce = 0 \/ notice.until # thread.announce THEN notice
    ELSE [notice EXCEPT !.failed = granted = None,
                        !.granted = IF granted = None THEN @ ELSE granted]

NextRound(lease, plain) ==
    IF watch = None THEN ThreadOver
    ELSE [at |-> "wait", due |-> now + RenewWait(lease), sent |-> 0,
          announce |-> 0, plain |-> plain]
NoWire == [request |-> None, answer |-> None]

renew_succeeded(lease) ==
    IF watch = None THEN None
    ELSE [watch EXCEPT !.stopAt = disconnect_self_stop_at(lease, thread.sent),
                       !.holdAt = near_finish_stop_at(lease, thread.sent),
                       !.disconnected = FALSE]

RenewSucceeds ==
    /\ thread.at = "sent" /\ wire.answer # None
    /\ wire.answer.outcome = "RENEWED"
    /\ LET lease == wire.answer.lease IN
        /\ held' = lease
        /\ watch' = renew_succeeded(lease)
        /\ thread' = NextRound(lease, FALSE)
        /\ notice' = Marked(lease.expires)
    /\ wire' = NoWire
    /\ UNCHANGED <<now, coordinatorVars, late, looked, workVars>>
    /\ UNCHANGED <<panel, stoppedBy, countVars>>

renew_refused ==
    IF watch = None THEN None
    ELSE [watch EXCEPT !.refused = TRUE, !.stopAt = Least(@, now)]

\* A signed refusal ends the thread and the work.
RenewRefused ==
    /\ thread.at = "sent" /\ wire.answer # None
    /\ wire.answer.outcome \in {"REVOKED", "MAX_DURATION_EXCEEDED"}
    /\ watch' = renew_refused
    /\ thread' = ThreadOver
    /\ notice' = Marked(None)
    /\ wire' = NoWire /\ looked' = FALSE
    /\ UNCHANGED <<now, coordinatorVars, held, late, workVars>>
    /\ UNCHANGED <<panel, stoppedBy, countVars>>

renew_failed == IF watch = None THEN None ELSE [watch EXCEPT !.disconnected = TRUE]

\* The connection cannot be made or breaks, before or after the request was
\* served, or no answer comes in time; a request that was sent may be served
\* later.  The next request carries no announcement if this one did.
RenewFails ==
    /\ thread.at = "sent"
    /\ \/ /\ lost < MaxLost /\ lost' = lost + 1
          /\ late' \in {late, wire.request}
       \/ /\ wire.answer # None /\ wire.answer.outcome = "closed"
          /\ UNCHANGED <<lost, late>>
    /\ watch' = renew_failed
    /\ thread' = NextRound(held, thread.announce # 0)
    /\ notice' = Marked(None)
    /\ wire' = NoWire
    /\ UNCHANGED <<now, coordinatorVars, held, looked, workVars>>
    /\ UNCHANGED <<panel, stoppedBy, fails, asks>>

\* The answer cannot be verified: the thread ends, the work goes on until
\* the watcher stops it.
RenewRejected ==
    /\ thread.at = "sent" /\ wire.answer # None
    /\ lost < MaxLost /\ lost' = lost + 1
    /\ watch' = renew_failed
    /\ thread' = ThreadOver
    /\ notice' = Marked(None)
    /\ wire' = NoWire
    /\ UNCHANGED <<now, coordinatorVars, held, late, looked, workVars>>
    /\ UNCHANGED <<panel, stoppedBy, fails, asks>>
-----------------------------------------------------------------------------
(***************************************************************************)
(* The container and its stopper.  A command is one step with all its      *)
(* outcomes; commands exclude each other (pause_ops).                      *)
(***************************************************************************)
Alive == work.at = "running"
Executing == Alive /\ ~work.frozen
Failing == fails < MaxFails /\ fails' = fails + 1

\* The container is thawed, killed and has exited.
Killed(w) == [w EXCEPT !.at = "exited", !.killed = TRUE, !.frozen = FALSE]

\* The exit seen by a stop is the stop's doing: code 137, not out of memory.
judge(ok) == ok = work'.killed

\* stop: a frozen container is thawed first, which may fail, and then the
\* kill is refused.  A kill may fail, or be carried out without an answer.
StopCommand(ok) ==
    /\ stopper' = [stopper EXCEPT !.stopRequested = TRUE,
                     !.pause = IF ok /\ @ # "Running" THEN "Running" ELSE @]
    /\ \/ /\ Alive
          /\ work' = Killed(work) /\ judge(ok) /\ UNCHANGED fails
       \/ /\ work.at = "exited"
          /\ UNCHANGED <<work, fails>> /\ judge(ok)
       \/ /\ Alive /\ ok = FALSE /\ Failing
          /\ work' \in {work, Killed(work), [work EXCEPT !.frozen = FALSE]}

\* pause and resume of the stopper: confirmed, not sent, or not confirmed.
SetFrozen(frozen, ok) ==
    LET wanted == IF frozen THEN "Paused" ELSE "Running" IN
    \/ /\ stopper.stopRequested
       /\ ok = FALSE /\ UNCHANGED <<work, stopper, fails>>
    \/ /\ ~stopper.stopRequested /\ stopper.pause = wanted
       /\ ok = TRUE /\ UNCHANGED <<work, stopper, fails>>
    \/ /\ ~stopper.stopRequested /\ stopper.pause # wanted /\ Alive
       /\ work' = [work EXCEPT !.frozen = frozen]
       /\ stopper' = [stopper EXCEPT !.pause = wanted]
       /\ ok = TRUE /\ UNCHANGED fails
    \/ /\ ~stopper.stopRequested /\ stopper.pause # wanted
       /\ ok = FALSE /\ Failing
       /\ \/ UNCHANGED <<work, stopper>>
          \/ /\ stopper' = [stopper EXCEPT !.pause = "Unknown"]
             /\ work' \in {work, [work EXCEPT !.frozen = Alive /\ frozen]}
    \/ /\ ~stopper.stopRequested /\ stopper.pause # wanted /\ work.at = "exited"
       /\ stopper' = [stopper EXCEPT !.pause = "Unknown"]
       /\ ok = FALSE /\ UNCHANGED <<work, fails>>

\* The workload starts, perhaps long after the thread did, and is
\* registered; it may end by itself at any time when it is not frozen.
register ==
    /\ work.at = "starting"
    /\ work' = [work EXCEPT !.at = "running"]
    /\ registered' = TRUE /\ looked' = FALSE
    /\ UNCHANGED <<now, coordinatorVars, threadVars, watch, stopper>>
    /\ UNCHANGED <<panelVars, countVars>>

WorkloadEnds ==
    /\ Executing
    /\ work' = [work EXCEPT !.at = "exited"]
    /\ UNCHANGED <<now, coordinatorVars, threadVars, watch, looked, registered>>
    /\ UNCHANGED <<stopper, panelVars, countVars>>

\* The main thread sees the end: the panel forgets the workload, and both
\* threads are told to stop.
unregister ==
    /\ work.at = "exited" /\ registered
    /\ registered' = FALSE /\ watch' = None
    /\ thread' = IF thread.at = "wait" THEN ThreadOver ELSE thread
    /\ UNCHANGED <<now, coordinatorVars, held, wire, late, looked, work, stopper>>
    /\ UNCHANGED <<panelVars, countVars>>
-----------------------------------------------------------------------------
(***************************************************************************)
(* The watcher: it decides under the lock of the watch, stops the work     *)
(* without it, and notes the result.                                       *)
(***************************************************************************)
\* The work reports progress and will be over before the job can be taken;
\* a frozen workload does not count.
MayHold ==
    /\ watch.keepAllowed /\ ~watch.refused /\ watch.choice = "Auto"
    /\ now >= watch.stopAt /\ now < watch.holdAt
    /\ registered /\ stopper.pause = "Running"

\* Broken: the owner's choice also counts after a refusal.
DueUnlessKept ==
    /\ ~watch.selfStopped /\ ~watch.stopping
    /\ now >= watch.stopAt
    /\ watch.choice = "Auto"

Due ==
    /\ ~watch.selfStopped /\ ~watch.stopping
    /\ now >= watch.stopAt
    /\ watch.refused \/ watch.choice = "Auto"

OnlyWatch == UNCHANGED <<now, coordinatorVars, threadVars, registered>>
                /\ UNCHANGED <<panel, notice, lost, asks>>

\* The progress lets the work go on.
near_finish_hold ==
    /\ watch # None /\ ~looked /\ MayHold
    /\ looked' = TRUE
    /\ work' = [work EXCEPT !.seen = registered]
    /\ UNCHANGED <<watch, stopper, stoppedBy, fails>> /\ OnlyWatch

LooksAway ==
    /\ watch # None /\ ~looked /\ ~Due /\ ~watch.stopping
    /\ looked' = TRUE
    /\ work' = [work EXCEPT !.seen = registered]
    /\ UNCHANGED <<watch, stopper, stoppedBy, fails>> /\ OnlyWatch

self_stop_if_due ==
    /\ watch # None /\ ~looked /\ Due
    /\ watch' = [watch EXCEPT !.stopping = TRUE]
    /\ UNCHANGED <<looked, work, stopper, stoppedBy, fails>> /\ OnlyWatch

Noted(ok) ==
    IF watch = None THEN None
    ELSE [watch EXCEPT !.selfStopped = ok, !.stopping = ok]

\* The stop of the watcher; a workload that is not registered cannot be
\* stopped yet, or any more.
WatcherStops ==
    /\ watch # None /\ watch.stopping /\ ~watch.selfStopped
    /\ looked' = TRUE
    /\ \E ok \in BOOLEAN :
        /\ IF registered THEN StopCommand(ok)
           ELSE ok = FALSE /\ UNCHANGED <<work, stopper, fails>>
        /\ watch' = Noted(ok)
        /\ stoppedBy' = IF ok THEN stoppedBy \cup {"disconnect"} ELSE stoppedBy
    /\ OnlyWatch
-----------------------------------------------------------------------------
(***************************************************************************)
(* The owner, one request at a time, while the attempt lasts.              *)
(***************************************************************************)
Asks == watch # None /\ panel = "idle" /\ asks < MaxOwner /\ asks' = asks + 1
OnlyPanel == UNCHANGED <<now, coordinatorVars, threadVars, looked, registered, lost>>

OwnerStops ==
    /\ Asks /\ registered
    /\ \E ok \in BOOLEAN :
        /\ StopCommand(ok)
        /\ stoppedBy' = IF ok THEN stoppedBy \cup {"owner"} ELSE stoppedBy
    /\ UNCHANGED <<watch, panel, notice>> /\ OnlyPanel

\* Broken: a stop that has begun is not looked at.
keep_running_while_stopping ==
    /\ Asks /\ ~watch.refused
    /\ watch.keepAllowed /\ watch.choice = "Auto"
    /\ watch' = [watch EXCEPT !.choice = "KeepRunning"]
    /\ UNCHANGED <<work, stopper, panel, notice, stoppedBy, fails>> /\ OnlyPanel

keep_running ==
    /\ Asks
    /\ ~watch.refused /\ ~watch.stopping /\ ~watch.selfStopped
    /\ watch.keepAllowed /\ watch.choice = "Auto"
    /\ watch' = [watch EXCEPT !.choice = "KeepRunning"]
    /\ UNCHANGED <<work, stopper, panel, notice, stoppedBy, fails>> /\ OnlyPanel

announce_disconnect ==
    /\ Asks
    /\ \E length \in Lengths \cup {0} :
        notice' = [until |-> IF length = 0 THEN 0 ELSE now + length,
                   granted |-> None, failed |-> FALSE, news |-> TRUE]
    /\ UNCHANGED <<watch, work, stopper, panel, stoppedBy, fails>> /\ OnlyPanel

pause ==
    /\ Asks /\ registered
    /\ \E ok \in BOOLEAN : SetFrozen(TRUE, ok)
    /\ UNCHANGED <<watch, panel, notice, stoppedBy>> /\ OnlyPanel

resume_allowed ==
    /\ watch # None
    /\ ~watch.refused /\ ~watch.stopping /\ ~watch.selfStopped
    /\ ~watch.disconnected
    /\ now < watch.stopAt

\* resume: a check, the command, and the check again, after which the
\* container is frozen again or, if that fails, stopped.
ResumeBegins ==
    /\ Asks /\ registered /\ resume_allowed
    /\ panel' = "thaw"
    /\ UNCHANGED <<watch, work, stopper, notice, stoppedBy, fails>> /\ OnlyPanel

ResumeThaws ==
    /\ panel = "thaw"
    /\ \E ok \in BOOLEAN :
        /\ SetFrozen(FALSE, ok)
        /\ panel' = IF ok THEN "thawed" ELSE "thaw_failed"
    /\ UNCHANGED <<watch, notice, stoppedBy, asks>> /\ OnlyPanel

ResumeAllowedStill ==
    /\ panel \in {"thawed", "thaw_failed"}
    /\ resume_allowed
    /\ panel' = "idle"
    /\ UNCHANGED <<watch, work, stopper, notice, stoppedBy, fails, asks>> /\ OnlyPanel

\* The command failed and the container is known to be frozen.
ResumeLeftFrozen ==
    /\ panel = "thaw_failed" /\ ~resume_allowed /\ stopper.pause = "Paused"
    /\ panel' = "idle"
    /\ UNCHANGED <<watch, work, stopper, notice, stoppedBy, fails, asks>> /\ OnlyPanel

ResumeRefreezes ==
    /\ panel = "thawed" \/ (panel = "thaw_failed" /\ stopper.pause # "Paused")
    /\ ~resume_allowed
    /\ \E ok \in BOOLEAN :
        /\ SetFrozen(TRUE, ok)
        /\ panel' = IF ok THEN "idle" ELSE "refreeze_failed"
    /\ UNCHANGED <<watch, notice, stoppedBy, asks>> /\ OnlyPanel

ResumeStops ==
    /\ panel = "refreeze_failed"
    /\ \E ok \in BOOLEAN :
        /\ StopCommand(ok)
        /\ stoppedBy' = IF ok THEN stoppedBy \cup {"disconnect"} ELSE stoppedBy
    /\ panel' = "idle"
    /\ UNCHANGED <<watch, notice, asks>> /\ OnlyPanel
-----------------------------------------------------------------------------
\* What is due within an instant is done before the clock moves on.
Settled ==
    /\ watch # None => looked
    /\ registered => work.at # "exited"
    /\ thread.at = "wait" => now < thread.due /\ ~HasNews
    /\ thread.at = "sent" => now < thread.sent + IoTimeout

\* The clock stops at the bound, the rounds of the watcher go on.
Tick ==
    /\ watch # None /\ Settled
    /\ now' = Least(now + 1, MaxTime)
    /\ looked' = FALSE
    /\ UNCHANGED <<coordinatorVars, threadVars, watch, workVars, panelVars, countVars>>

\* The confirming renewal has just been answered; start_renew_during_execution
\* sets the watch and starts both threads.
FirstLease ==
    [issued |-> lag, expires |-> lag + Least(Extension, Total), grace |-> SignedGrace]

Init ==
    /\ now = 0 /\ lag \in Lags
    /\ row = [issued |-> FirstLease.issued, expires |-> FirstLease.expires,
              grace |-> FirstLease.grace, revoked |-> FALSE]
    /\ taken = None /\ held = FirstLease
    /\ thread = [at |-> "wait", due |-> RenewWait(FirstLease), sent |-> 0,
                 announce |-> 0, plain |-> FALSE]
    /\ wire = NoWire /\ late = None
    /\ \E keepAllowed \in BOOLEAN :
        watch = [stopAt |-> disconnect_self_stop_at(FirstLease, 0),
                 holdAt |-> near_finish_stop_at(FirstLease, 0),
                 disconnected |-> FALSE, refused |-> FALSE,
                 keepAllowed |-> keepAllowed, choice |-> "Auto",
                 selfStopped |-> FALSE, stopping |-> FALSE]
    /\ looked = FALSE /\ registered = FALSE
    /\ work = [at |-> "starting", frozen |-> FALSE, killed |-> FALSE, seen |-> FALSE]
    /\ stopper = [pause |-> "Running", stopRequested |-> FALSE]
    /\ panel = "idle" /\ stoppedBy = {}
    /\ notice = [until |-> 0, granted |-> None, failed |-> FALSE, news |-> FALSE]
    /\ lost = 0 /\ fails = 0 /\ asks = 0

ThreadStep ==
    \/ LocalExpired \/ renew_once_over_new_connection
    \/ RenewSucceeds \/ RenewRefused \/ RenewFails \/ RenewRejected

WatcherStep == near_finish_hold \/ LooksAway \/ self_stop_if_due \/ WatcherStops

PanelStep ==
    \/ OwnerStops \/ keep_running \/ announce_disconnect \/ pause
    \/ ResumeBegins \/ ResumeThaws \/ ResumeAllowedStill \/ ResumeLeftFrozen
    \/ ResumeRefreezes \/ ResumeStops

Next ==
    \/ serve_renew_session \/ serve_late_request \/ failover_lost_attempts
    \/ ThreadStep \/ WatcherStep \/ PanelStep
    \/ register \/ WorkloadEnds \/ unregister
    \/ Tick

Spec == Init /\ [][Next]_vars
-----------------------------------------------------------------------------
StoredLeases == [issued : Nat, expires : Nat, grace : Nat, revoked : BOOLEAN]
SignedLeases == [issued : Nat, expires : Nat, grace : Nat]
Answers ==
    [outcome : {"REVOKED", "MAX_DURATION_EXCEEDED", "closed"}, lease : {None}]
        \cup [outcome : {"RENEWED"}, lease : SignedLeases]
Watches ==
    [stopAt : Nat, holdAt : Nat, disconnected : BOOLEAN, refused : BOOLEAN,
     keepAllowed : BOOLEAN, choice : {"Auto", "KeepRunning"},
     selfStopped : BOOLEAN, stopping : BOOLEAN]

Threads ==
    [at : {"wait", "sent", "over"}, due : Nat, sent : Nat, announce : Nat,
     plain : BOOLEAN]
Wires == [request : Nat \cup {None}, answer : Answers \cup {None}]
Works ==
    [at : {"starting", "running", "exited"}, frozen : BOOLEAN, killed : BOOLEAN,
     seen : BOOLEAN]
Stoppers == [pause : {"Running", "Paused", "Unknown"}, stopRequested : BOOLEAN]
Notices ==
    [until : Nat, granted : Nat \cup {None}, failed : BOOLEAN, news : BOOLEAN]
Panels == {"idle", "thaw", "thawed", "thaw_failed", "refreeze_failed"}

ASSUME NoneAssumption == None \notin Nat \cup Answers \cup Watches

\* The watch's deadlines are ordered, and only a container that lives is frozen.
TypeOK ==
    /\ now \in 0 .. MaxTime /\ lag \in Lags
    /\ row \in StoredLeases /\ taken \in Nat \cup {None}
    /\ held \in SignedLeases /\ thread \in Threads
    /\ wire \in Wires /\ late \in Nat \cup {None}
    /\ watch \in Watches \cup {None}
    /\ watch # None => watch.stopAt <= watch.holdAt
    /\ looked \in BOOLEAN /\ registered \in BOOLEAN
    /\ work \in Works /\ (work.frozen => work.at = "running")
    /\ stopper \in Stoppers
    /\ panel \in Panels /\ notice \in Notices
    /\ stoppedBy \subseteq {"owner", "disconnect"}
    /\ lost \in Nat /\ fails \in Nat /\ asks \in Nat

\* Where the clocks differ by no more than the margin: once the failover
\* has given the job to another node, the workload does
\* not execute here any more, whatever was lost, delayed or frozen: unless
\* its owner chose to keep it, a command of the container runtime failed, or
\* it has only just come to life and the watcher has yet to look at it.
NoOverlap ==
    taken # None /\ Executing /\ lag <= Margin =>
        \/ watch # None /\ watch.choice = "KeepRunning"
        \/ fails > 0
        \/ ~work.seen

\* The watcher stops no work without a cause.  While every request is answered
\* in time it waits until the lease has been renewed up to the total duration;
\* and a workload whose owner was told that it goes on is stopped only after a
\* refusal: the choice and the decision to stop exclude each other.
StoppedForCause ==
    watch # None =>
        /\ lost = 0 /\ watch.stopping => row.expires >= row.issued + Total
        /\ watch.choice = "KeepRunning" /\ watch.selfStopped => watch.refused

\* A workload the coordinator has refused is over once the watcher has
\* looked, whatever the owner chose before, frozen or in the middle of a
\* thaw, unless a command of the container runtime failed.
RefusedIsStopped ==
    watch # None /\ watch.refused /\ registered /\ looked => ~Alive \/ fails > 0

\* As the runbook says of an announced absence: the job is not given to
\* another node before the lease has ended under which the workload still
\* executes.
AnnouncedLeaseKept ==
    taken # None /\ Executing => taken > held.expires
=============================================================================
