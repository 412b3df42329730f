------------------------- MODULE LeaseRenewal_proofs -------------------------
(***************************************************************************)
(* The invariants of LeaseRenewal for all times, lags, announcements and   *)
(* bounds.  What depends on how the operator chose the times is proved     *)
(* from a named condition on them.                                         *)
(***************************************************************************)
EXTENDS LeaseRenewal, TLAPS

-----------------------------------------------------------------------------
(* Operators.                                                              *)

LEMMA LeastInt ==
    ASSUME NEW a \in Int, NEW b \in Int
    PROVE  /\ Least(a, b) \in {a, b} /\ Least(a, b) \in Int
           /\ Least(a, b) <= a /\ Least(a, b) <= b
  BY DEF Least

LEMMA GreatestInt ==
    ASSUME NEW a \in Int, NEW b \in Int
    PROVE  /\ Greatest(a, b) \in {a, b} /\ Greatest(a, b) \in Int
           /\ a <= Greatest(a, b) /\ b <= Greatest(a, b)
  BY DEF Greatest

LEMMA MinusNat ==
    ASSUME NEW a \in Int, NEW b \in Int
    PROVE  /\ Minus(a, b) \in Nat /\ a - b <= Minus(a, b)
           /\ Minus(a, b) \in {a - b, 0}
  BY DEF Minus, Greatest

LEMMA HalfNat ==
    ASSUME NEW a \in Nat
    PROVE  /\ a \div 2 \in Nat
           /\ 2 * (a \div 2) <= a /\ a <= 2 * (a \div 2) + 1
  OBVIOUS

(***************************************************************************)
(* The deadlines of a lease are times, and the one that holds is not       *)
(* before the one that stops.                                              *)
(***************************************************************************)
LEMMA BaseNat ==
    ASSUME NEW lease \in SignedLeases, NEW sent \in Nat
    PROVE  /\ SignedBase(lease, sent) \in Nat
           /\ SignedBase(lease, sent) <= lease.expires
           /\ SignedBase(lease, sent) <= sent + Minus(lease.expires, lease.issued)
           /\ SignedBase(lease, sent)
                  \in {lease.expires, sent + Minus(lease.expires, lease.issued)}
<1>1. lease.expires \in Nat /\ Minus(lease.expires, lease.issued) \in Nat
  BY MinusNat DEF SignedLeases
<1> QED BY <1>1 DEF SignedBase, Least

LEMMA StopAtNat ==
    ASSUME NEW lease \in SignedLeases, NEW sent \in Nat
    PROVE  /\ disconnect_self_stop_at(lease, sent) \in Nat
           /\ disconnect_self_stop_at(lease, sent) <= SignedBase(lease, sent)
           /\ SignedBase(lease, sent)
                  <= disconnect_self_stop_at(lease, sent) + Margin
<1> DEFINE base == SignedBase(lease, sent)
           half == Minus(base, sent) \div 2
           cut == Least(Margin, half)
<1>1. base \in Nat
  BY BaseNat
<1>2. half \in Nat
  <2>1. Minus(base, sent) \in Nat
    BY <1>1, MinusNat
  <2> QED BY <2>1, HalfNat
<1>3. disconnect_self_stop_at(lease, sent) = Minus(base, cut)
  BY DEF disconnect_self_stop_at
<1> HIDE DEF base, half
<1>4. cut \in Nat /\ cut <= Margin
  BY <1>2, TimesAssumption DEF Least
<1> QED BY <1>1, <1>3, <1>4, TimesAssumption DEF Minus, Greatest, base

LEMMA HoldAtNat ==
    ASSUME NEW lease \in SignedLeases, NEW sent \in Nat
    PROVE  /\ near_finish_stop_at(lease, sent) \in Nat
           /\ disconnect_self_stop_at(lease, sent)
                  <= near_finish_stop_at(lease, sent)
<1> DEFINE extra == Least(lease.grace,
                          Minus(lease.issued + Total, lease.expires))
           early == Minus(SignedBase(lease, sent) + extra, Margin)
<1>1. near_finish_stop_at(lease, sent)
          = Greatest(early, disconnect_self_stop_at(lease, sent))
  BY DEF near_finish_stop_at
<1>2. extra \in Nat
  <2>1. /\ lease.grace \in Nat /\ lease.issued + Total \in Int
        /\ lease.expires \in Int
    BY TimesAssumption DEF SignedLeases
  <2>2. Minus(lease.issued + Total, lease.expires) \in Nat
    BY <2>1, MinusNat
  <2> QED BY <2>1, <2>2 DEF Least
<1> HIDE DEF extra
<1>3. early \in Nat
  <2>1. SignedBase(lease, sent) + extra \in Int /\ Margin \in Int
    BY <1>2, BaseNat, TimesAssumption
  <2> QED BY <2>1, MinusNat
<1> HIDE DEF early
<1> QED BY <1>1, <1>3, StopAtNat DEF Greatest

LEMMA WaitNat ==
    ASSUME TypeOK, NEW lease \in SignedLeases
    PROVE  RenewWait(lease) \in Nat /\ RenewWait(lease) <= Interval
<1>1. Minus(lease.expires, now) \in Nat
  BY MinusNat DEF TypeOK, SignedLeases
<1>2. Minus(lease.expires, now) \div 2 \in Nat
  BY <1>1, HalfNat
<1> QED BY <1>2, TimesAssumption DEF RenewWait, Least, Greatest

(***************************************************************************)
(* A renewal that is granted is granted for the extension at least, or to  *)
(* the end of the total duration, and never past that.                     *)
(***************************************************************************)
LEMMA ExtensionNat ==
    ASSUME TypeOK, NEW until \in Nat
    PROVE  LET ext == announced_renew_extension_ms(until)
               rest == row.issued + Total - coordinator_now
           IN  /\ ext \in Nat
               /\ rest > 0 => /\ ext <= rest
                              /\ ext = rest \/ ext >= Extension
                              /\ PlannedMax = 0 => ext = Least(Extension, rest)
<1>1. /\ row.issued \in Nat /\ coordinator_now \in Nat
      /\ Extension \in Nat /\ Total \in Nat /\ PlannedMax \in Nat
  BY TimesAssumption DEF TypeOK, StoredLeases, coordinator_now
<1> QED BY <1>1 DEF announced_renew_extension_ms, Least, Greatest, Minus

(***************************************************************************)
(* What a session does to the row and answers.                             *)
(***************************************************************************)
Refuses(result) ==
    /\ result.row = row
    /\ row.revoked \/ row.expires <= coordinator_now \/ is_max_duration_exceeded
    /\ result.answer
           \in [outcome : {"REVOKED", "MAX_DURATION_EXCEEDED", "closed"},
                lease : {None}]
    /\ result.answer.outcome = "closed" => row.expires <= coordinator_now

Grants(result, until) ==
    /\ ~ row.revoked /\ row.expires > coordinator_now
    /\ row.issued + Total > coordinator_now
    /\ result.row = Renewed(until)
    /\ result.answer = Answer("RENEWED", Signed(Renewed(until)))

LEMMA SessionOutcome ==
    ASSUME TypeOK, NEW until \in Nat
    PROVE  \/ Refuses(SessionResult(until))
           \/ Grants(SessionResult(until), until)
<1>1. /\ row.issued \in Nat /\ coordinator_now \in Nat /\ row.expires \in Nat
      /\ Total \in Nat /\ row.revoked \in BOOLEAN
  BY TimesAssumption DEF TypeOK, StoredLeases, coordinator_now
<1>2. CASE row.revoked
  BY <1>2 DEF SessionResult, Refuses, Answer
<1>3. CASE ~ row.revoked /\ row.expires <= coordinator_now
  BY <1>1, <1>3 DEF SessionResult, Refuses, Answer
<1>4. CASE /\ ~ row.revoked /\ row.expires > coordinator_now
           /\ is_max_duration_exceeded
  BY <1>1, <1>4 DEF SessionResult, Refuses, Answer
<1>5. CASE /\ ~ row.revoked /\ row.expires > coordinator_now
           /\ ~ is_max_duration_exceeded
  BY <1>1, <1>5 DEF SessionResult, Grants, is_max_duration_exceeded
<1> QED BY <1>1, <1>2, <1>3, <1>4, <1>5

LEMMA RenewedRow ==
    ASSUME TypeOK, NEW until \in Nat
    PROVE  /\ Renewed(until) \in StoredLeases
           /\ Renewed(until).issued = row.issued
           /\ Renewed(until).revoked = row.revoked
           /\ Renewed(until).grace = Greatest(row.grace, SignedGrace)
           /\ Renewed(until).expires
                  = coordinator_now + announced_renew_extension_ms(until)
           /\ Signed(Renewed(until)) \in SignedLeases
<1> DEFINE ext == announced_renew_extension_ms(until)
           grace == Greatest(row.grace, SignedGrace)
           end == coordinator_now + ext
<1>1. ext \in Nat /\ coordinator_now \in Nat /\ row \in StoredLeases
  BY ExtensionNat, TimesAssumption DEF TypeOK, coordinator_now
<1>2. grace \in Nat
  BY <1>1, TimesAssumption DEF Greatest, StoredLeases
<1>3. Renewed(until) = [row EXCEPT !.expires = end, !.grace = grace]
  BY DEF Renewed
<1>4. end \in Nat
  BY <1>1
<1> HIDE DEF ext, grace, end
<1>5. /\ Renewed(until) \in StoredLeases
      /\ Renewed(until).issued = row.issued
      /\ Renewed(until).revoked = row.revoked
      /\ Renewed(until).grace = grace /\ Renewed(until).expires = end
  BY <1>1, <1>2, <1>3, <1>4 DEF StoredLeases
<1> QED BY <1>5 DEF Signed, SignedLeases, StoredLeases, ext, grace, end

(***************************************************************************)
(* What the stopper's commands can do.                                     *)
(***************************************************************************)
CommandTyped ==
    /\ work' \in Works /\ (work'.frozen => work'.at = "running")
    /\ stopper' \in Stoppers
    /\ fails' \in Nat /\ fails <= fails'
    /\ work'.seen = work.seen

LEMMA StopEffect ==
    ASSUME TypeOK, NEW ok \in BOOLEAN, StopCommand(ok)
    PROVE  /\ CommandTyped
           /\ work'.at \in {work.at, "exited"} /\ work.at # "starting"
           /\ ok => work'.at = "exited"
           /\ work'.at # "running" \/ fails' > 0
<1>1. /\ work \in Works /\ stopper \in Stoppers /\ fails \in Nat
      /\ (work.frozen => work.at = "running")
  BY DEF TypeOK, Works, Stoppers, Alive
<1>2. stopper' \in Stoppers
  BY <1>1 DEF StopCommand, Stoppers
<1>3. Killed(work) \in Works /\ Killed(work).at = "exited"
      /\ ~ Killed(work).frozen /\ Killed(work).seen = work.seen
  BY <1>1 DEF Killed, Works
<1>4. CASE Alive /\ work' = Killed(work) /\ UNCHANGED fails
  BY <1>1, <1>2, <1>3, <1>4 DEF CommandTyped, Alive
<1>5. CASE work.at = "exited" /\ UNCHANGED <<work, fails>>
  BY <1>1, <1>2, <1>5 DEF CommandTyped
<1>6. CASE /\ Alive /\ ok = FALSE /\ Failing
           /\ work' \in {work, Killed(work), [work EXCEPT !.frozen = FALSE]}
  <2>1. fails' \in Nat /\ fails <= fails' /\ fails' > 0
    BY <1>1, <1>6 DEF Failing
  <2>2. /\ [work EXCEPT !.frozen = FALSE] \in Works
        /\ [work EXCEPT !.frozen = FALSE].at = work.at
        /\ [work EXCEPT !.frozen = FALSE].seen = work.seen
        /\ ~ [work EXCEPT !.frozen = FALSE].frozen
    BY <1>1 DEF Works
  <2> QED BY <1>1, <1>2, <1>3, <1>6, <2>1, <2>2 DEF CommandTyped, Alive
<1> QED BY <1>4, <1>5, <1>6 DEF StopCommand

LEMMA FreezeEffect ==
    ASSUME TypeOK, NEW frozen \in BOOLEAN, NEW ok \in BOOLEAN,
           SetFrozen(frozen, ok)
    PROVE  CommandTyped /\ work'.at = work.at
<1>1. /\ work \in Works /\ stopper \in Stoppers /\ fails \in Nat
      /\ (work.frozen => work.at = "running")
  BY DEF TypeOK, Works, Stoppers, Alive
<1>2. stopper' \in Stoppers
  BY <1>1 DEF SetFrozen, Stoppers
<1>3. fails' \in Nat /\ fails <= fails'
  BY <1>1 DEF SetFrozen, Failing
<1>4. \/ work' = work
      \/ Alive /\ work' = [work EXCEPT !.frozen = frozen]
      \/ work' = [work EXCEPT !.frozen = Alive /\ frozen]
  BY DEF SetFrozen
<1>5. ASSUME NEW f \in BOOLEAN, f => Alive, work' = [work EXCEPT !.frozen = f]
      PROVE  /\ work' \in Works /\ (work'.frozen => work'.at = "running")
             /\ work'.seen = work.seen /\ work'.at = work.at
  BY <1>1, <1>5 DEF Works, Alive
<1>6. (Alive /\ frozen) \in BOOLEAN
  BY DEF Alive
<1>7. /\ work' \in Works /\ (work'.frozen => work'.at = "running")
      /\ work'.seen = work.seen /\ work'.at = work.at
  BY <1>1, <1>4, <1>5, <1>6
<1> QED BY <1>2, <1>3, <1>7 DEF CommandTyped

-----------------------------------------------------------------------------
(* Types, and what a refusal does.                                         *)

(***************************************************************************)
(* A thread that does not wait for an answer has no request under way; a   *)
(* refusal ends it, so that no later renewal moves the deadline again.     *)
(***************************************************************************)
ThreadTidy ==
    /\ thread.at # "sent" => wire = NoWire
    /\ thread.at = "sent" => thread.sent <= now
    /\ watch # None =>
           (watch.refused => thread.at = "over" /\ watch.stopAt <= now)

(***************************************************************************)
(* The panel knows a container while it lives, and a stop that succeeded   *)
(* has ended it.                                                           *)
(***************************************************************************)
WorkTidy ==
    /\ watch # None => (watch.selfStopped => work.at = "exited")
    /\ watch = None => work.at = "exited"
    /\ Alive => registered
    /\ registered => work.at # "starting"

(***************************************************************************)
(* The owner's choice and the decision to stop exclude each other.         *)
(***************************************************************************)
ChoiceKept ==
    watch # None =>
        (watch.choice = "KeepRunning" /\ (watch.stopping \/ watch.selfStopped)
             => watch.refused)

(***************************************************************************)
(* Every step keeps the types.  The unchanged parts are named once.        *)
(***************************************************************************)
WatchTyped ==
    /\ watch' \in Watches \cup {None}
    /\ watch' # None => watch'.stopAt <= watch'.holdAt

LEMMA RefusedTyped ==
    ASSUME TypeOK, watch # None,
           watch' = [watch EXCEPT !.refused = TRUE, !.stopAt = Least(@, now)]
    PROVE  /\ WatchTyped /\ watch' \in Watches
           /\ watch'.refused /\ watch'.stopAt <= now
           /\ watch'.holdAt = watch.holdAt /\ watch'.choice = watch.choice
           /\ watch'.selfStopped = watch.selfStopped
           /\ watch'.stopping = watch.stopping
<1> DEFINE stop == Least(watch.stopAt, now)
<1>1. /\ watch \in Watches /\ watch.stopAt \in Nat /\ watch.holdAt \in Nat
      /\ watch.stopAt <= watch.holdAt /\ now \in Nat
  BY DEF TypeOK, Watches
<1>2. stop \in Nat /\ stop <= now /\ stop <= watch.holdAt
  BY <1>1 DEF Least
<1>3. watch' = [watch EXCEPT !.refused = TRUE, !.stopAt = stop]
  BY <1>1
<1> HIDE DEF stop
<1> QED BY <1>1, <1>2, <1>3 DEF WatchTyped, Watches

LEMMA DisconnectedTyped ==
    ASSUME TypeOK, watch # None, NEW b \in BOOLEAN,
           watch' = [watch EXCEPT !.disconnected = b]
    PROVE  /\ WatchTyped /\ watch' \in Watches
           /\ watch'.refused = watch.refused /\ watch'.stopAt = watch.stopAt
           /\ watch'.holdAt = watch.holdAt /\ watch'.choice = watch.choice
           /\ watch'.selfStopped = watch.selfStopped
           /\ watch'.stopping = watch.stopping
  BY DEF TypeOK, WatchTyped, Watches

LEMMA RenewedTyped ==
    ASSUME TypeOK, watch # None, NEW lease \in SignedLeases,
           watch' = renew_succeeded(lease)
    PROVE  /\ WatchTyped /\ watch' \in Watches
           /\ watch'.stopAt = disconnect_self_stop_at(lease, thread.sent)
           /\ watch'.holdAt = near_finish_stop_at(lease, thread.sent)
           /\ watch'.refused = watch.refused /\ watch'.choice = watch.choice
           /\ watch'.selfStopped = watch.selfStopped
           /\ watch'.stopping = watch.stopping
<1> DEFINE stop == disconnect_self_stop_at(lease, thread.sent)
           hold == near_finish_stop_at(lease, thread.sent)
<1>1. thread.sent \in Nat
  BY DEF TypeOK, Threads
<1>2. stop \in Nat /\ hold \in Nat /\ stop <= hold
  BY <1>1, StopAtNat, HoldAtNat
<1>3. watch' = [watch EXCEPT !.stopAt = stop, !.holdAt = hold,
                             !.disconnected = FALSE]
  BY DEF renew_succeeded
<1> HIDE DEF stop, hold
<1> QED BY <1>2, <1>3 DEF TypeOK, WatchTyped, Watches, stop, hold

LEMMA NotedTyped ==
    ASSUME TypeOK, watch # None, NEW ok \in BOOLEAN, watch' = Noted(ok)
    PROVE  /\ WatchTyped /\ watch' \in Watches
           /\ watch'.refused = watch.refused /\ watch'.stopAt = watch.stopAt
           /\ watch'.holdAt = watch.holdAt /\ watch'.choice = watch.choice
           /\ watch'.selfStopped = ok /\ watch'.stopping = ok
<1>1. watch' = [watch EXCEPT !.selfStopped = ok, !.stopping = ok]
  BY DEF Noted
<1> QED BY <1>1 DEF TypeOK, WatchTyped, Watches

LEMMA NextRoundTyped ==
    ASSUME TypeOK, NEW lease \in SignedLeases, NEW plain \in BOOLEAN
    PROVE  /\ NextRound(lease, plain) \in Threads
           /\ NextRound(lease, plain).at = IF watch = None THEN "over" ELSE "wait"
           /\ watch # None => /\ now <= NextRound(lease, plain).due
                              /\ NextRound(lease, plain).due <= now + Interval
<1>1. RenewWait(lease) \in Nat /\ RenewWait(lease) <= Interval /\ now \in Nat
      /\ Interval \in Nat
  BY WaitNat, TimesAssumption DEF TypeOK
<1> QED BY <1>1 DEF NextRound, ThreadOver, Threads

LEMMA MarkedTyped ==
    ASSUME TypeOK, NEW granted \in Nat \cup {None}
    PROVE  Marked(granted) \in Notices
<1> DEFINE f == (granted = None)
           g == IF granted = None THEN notice.granted ELSE granted
<1>1. f \in BOOLEAN /\ g \in Nat \cup {None}
  BY DEF TypeOK, Notices
<1>2. Marked(granted) \in {notice, [notice EXCEPT !.failed = f, !.granted = g]}
  BY DEF Marked, TypeOK, Notices
<1> HIDE DEF f, g
<1> QED BY <1>1, <1>2 DEF TypeOK, Notices

LEMMA TypeStep ==
    ASSUME TypeOK, Next
    PROVE  TypeOK'
<1>0. /\ now \in Nat /\ MaxTime \in Nat /\ lag \in Nat
      /\ None \notin Nat /\ Lengths \subseteq Nat
  BY TimesAssumption, NoneAssumption DEF TypeOK
<1>1. CASE serve_renew_session
  <2>1. wire.request \in Nat
    BY <1>1 DEF serve_renew_session, TypeOK, Wires
  <2> DEFINE result == SessionResult(wire.request)
  <2>2. result.row \in StoredLeases /\ result.answer \in Answers
    <3>1. CASE Refuses(result)
      BY <3>1 DEF Refuses, TypeOK, Answers
    <3>2. CASE Grants(result, wire.request)
      BY <2>1, <3>2, RenewedRow DEF Grants, Answer, Answers
    <3> QED BY <2>1, <3>1, <3>2, SessionOutcome
  <2>3. /\ row' = result.row
        /\ wire' = [wire EXCEPT !.request = None, !.answer = result.answer]
    BY <1>1 DEF serve_renew_session
  <2> HIDE DEF result
  <2>4. wire' \in Wires
    BY <2>2, <2>3 DEF TypeOK, Wires
  <2> QED BY <1>1, <2>2, <2>3, <2>4
          DEF serve_renew_session, TypeOK, workVars, panelVars, countVars
<1>2. CASE serve_late_request
  <2>1. late \in Nat
    BY <1>2 DEF serve_late_request, TypeOK
  <2> DEFINE result == SessionResult(late)
  <2>2. result.row \in StoredLeases
    <3>1. CASE Refuses(result)
      BY <3>1 DEF Refuses, TypeOK
    <3>2. CASE Grants(result, late)
      BY <2>1, <3>2, RenewedRow DEF Grants
    <3> QED BY <2>1, <3>1, <3>2, SessionOutcome
  <2>3. row' = result.row /\ late' = None
    BY <1>2 DEF serve_late_request
  <2> HIDE DEF result
  <2> QED BY <1>2, <2>2, <2>3
          DEF serve_late_request, TypeOK, workVars, panelVars, countVars
<1>3. CASE failover_lost_attempts
  <2>1. row' \in StoredLeases
    BY <1>3 DEF failover_lost_attempts, TypeOK, StoredLeases
  <2>2. taken' \in Nat
    BY <1>0, <1>3 DEF failover_lost_attempts, coordinator_now
  <2> QED BY <1>3, <2>1, <2>2 DEF failover_lost_attempts, TypeOK, threadVars,
             workVars, panelVars, countVars
<1>4. CASE LocalExpired
  <2>1. thread' \in Threads
    BY <1>4 DEF LocalExpired, ThreadOver, Threads
  <2>2. notice' \in Notices
    <3> DEFINE f == notice.failed \/ (~ thread.plain /\ announcement_to_send # 0)
    <3>1. f \in BOOLEAN
      OBVIOUS
    <3>2. notice' = [notice EXCEPT !.news = FALSE, !.failed = f]
      BY <1>4 DEF LocalExpired
    <3> HIDE DEF f
    <3> QED BY <3>1, <3>2 DEF TypeOK, Notices
  <2>3. WatchTyped
    <3>1. CASE watch = None
      BY <1>4, <3>1 DEF LocalExpired, WatchTyped
    <3>2. CASE watch # None
      BY <1>4, <3>2, RefusedTyped, DisconnectedTyped DEF LocalExpired
    <3> QED BY <3>1, <3>2
  <2> QED BY <1>4, <2>1, <2>2, <2>3 DEF LocalExpired, TypeOK, WatchTyped,
             coordinatorVars, workVars, countVars
<1>5. CASE renew_once_over_new_connection
  <2> DEFINE announce == IF thread.plain THEN 0 ELSE announcement_to_send
  <2>1. announce \in Nat
    BY <1>0 DEF announcement_to_send, TypeOK, Notices
  <2>2. /\ wire' = [request |-> announce, answer |-> None]
        /\ thread' = [thread EXCEPT !.at = "sent", !.sent = now, !.plain = FALSE,
                                    !.announce = announce]
        /\ notice' = [notice EXCEPT !.news = FALSE]
    BY <1>5 DEF renew_once_over_new_connection
  <2> HIDE DEF announce
  <2>3. /\ thread' \in Threads /\ wire' \in Wires /\ notice' \in Notices
    BY <1>0, <2>1, <2>2 DEF TypeOK, Threads, Wires, Notices
  <2> QED BY <1>5, <2>3 DEF renew_once_over_new_connection, TypeOK,
             coordinatorVars, workVars, countVars
<1>6. CASE RenewSucceeds
  <2>1. PICK lease \in SignedLeases :
            /\ held' = lease /\ watch' = renew_succeeded(lease)
            /\ thread' = NextRound(lease, FALSE)
            /\ notice' = Marked(lease.expires)
    BY <1>6 DEF RenewSucceeds, TypeOK, Wires, Answers
  <2>2. WatchTyped
    BY <2>1, RenewedTyped DEF WatchTyped, renew_succeeded
  <2>3. thread' \in Threads /\ notice' \in Notices
    BY <2>1, NextRoundTyped, MarkedTyped DEF SignedLeases
  <2>4. wire' \in Wires
    BY <1>6 DEF RenewSucceeds, NoWire, Wires
  <2> QED BY <1>6, <2>1, <2>2, <2>3, <2>4
          DEF RenewSucceeds, TypeOK, WatchTyped, coordinatorVars, workVars, countVars
<1>7. CASE RenewRefused \/ RenewFails \/ RenewRejected
  <2>1. WatchTyped
    <3>1. CASE watch = None
      BY <1>7, <3>1 DEF RenewRefused, RenewFails, RenewRejected, renew_refused,
         renew_failed, WatchTyped
    <3>2. CASE watch # None
      BY <1>7, <3>2, RefusedTyped, DisconnectedTyped
         DEF RenewRefused, RenewFails, RenewRejected, renew_refused, renew_failed
    <3> QED BY <3>1, <3>2
  <2>2. thread' \in Threads
    <3>1. ThreadOver \in Threads
      BY DEF ThreadOver, Threads
    <3>2. (thread.announce # 0) \in BOOLEAN /\ held \in SignedLeases
      BY DEF TypeOK
    <3>3. NextRound(held, thread.announce # 0) \in Threads
      BY <3>2, NextRoundTyped
    <3> QED BY <1>7, <3>1, <3>3 DEF RenewRefused, RenewFails, RenewRejected
  <2>3. notice' \in Notices
    BY <1>7, MarkedTyped DEF RenewRefused, RenewFails, RenewRejected
  <2>4. wire' \in Wires
    BY <1>7 DEF RenewRefused, RenewFails, RenewRejected, NoWire, Wires
  <2>5. lost' \in Nat /\ late' \in Nat \cup {None}
    BY <1>7 DEF RenewRefused, RenewFails, RenewRejected, TypeOK, Wires, countVars
  <2>6. looked' \in BOOLEAN
    BY <1>7 DEF RenewRefused, RenewFails, RenewRejected, TypeOK
  <2>7. UNCHANGED <<now, coordinatorVars, held, workVars, panel, stoppedBy, fails,
                    asks>>
    BY <1>7 DEF RenewRefused, RenewFails, RenewRejected, countVars
  <2> QED BY <2>1, <2>2, <2>3, <2>4, <2>5, <2>6, <2>7
          DEF TypeOK, WatchTyped, coordinatorVars, workVars
<1>8. CASE near_finish_hold \/ LooksAway
  <2>1. work' \in Works /\ (work'.frozen => work'.at = "running")
    BY <1>8 DEF near_finish_hold, LooksAway, TypeOK, Works
  <2> QED BY <1>8, <2>1 DEF near_finish_hold, LooksAway, OnlyWatch, TypeOK,
          coordinatorVars, threadVars
<1>9. CASE self_stop_if_due
  <2>1. WatchTyped
    BY <1>9 DEF self_stop_if_due, TypeOK, Watches, WatchTyped
  <2> QED BY <1>9, <2>1 DEF self_stop_if_due, OnlyWatch, TypeOK, WatchTyped,
          coordinatorVars, threadVars
<1>10. CASE WatcherStops
  <2>1. PICK ok \in BOOLEAN :
            /\ IF registered THEN StopCommand(ok)
               ELSE ok = FALSE /\ UNCHANGED <<work, stopper, fails>>
            /\ watch' = Noted(ok)
            /\ stoppedBy' = IF ok THEN stoppedBy \cup {"disconnect"} ELSE stoppedBy
    BY <1>10 DEF WatcherStops
  <2>2. CommandTyped
    <3>1. CASE registered
      BY <2>1, <3>1, StopEffect
    <3>2. CASE ~ registered
      BY <2>1, <3>2 DEF CommandTyped, TypeOK
    <3> QED BY <3>1, <3>2
  <2>3. WatchTyped
    BY <1>10, <2>1, NotedTyped DEF WatcherStops
  <2>4. stoppedBy' \subseteq {"owner", "disconnect"}
    BY <2>1 DEF TypeOK
  <2> QED BY <1>10, <2>2, <2>3, <2>4 DEF WatcherStops, OnlyWatch, TypeOK,
          WatchTyped, CommandTyped, coordinatorVars, threadVars
<1>11. CASE OwnerStops \/ ResumeStops
  <2>1. PICK ok \in BOOLEAN :
            StopCommand(ok) /\ \E who \in {"owner", "disconnect"} :
                stoppedBy' = IF ok THEN stoppedBy \cup {who} ELSE stoppedBy
    BY <1>11 DEF OwnerStops, ResumeStops
  <2>2. CommandTyped
    BY <2>1, StopEffect
  <2>3. stoppedBy' \subseteq {"owner", "disconnect"}
    BY <2>1 DEF TypeOK
  <2>4. panel' \in Panels /\ asks' \in Nat
    BY <1>11 DEF OwnerStops, ResumeStops, Asks, TypeOK, Panels
  <2> QED BY <1>11, <2>2, <2>3, <2>4 DEF OwnerStops, ResumeStops, OnlyPanel, TypeOK,
          CommandTyped, coordinatorVars, threadVars
<1>12. CASE pause \/ ResumeThaws \/ ResumeRefreezes
  <2>1. \E frozen \in BOOLEAN, ok \in BOOLEAN : SetFrozen(frozen, ok)
    BY <1>12 DEF pause, ResumeThaws, ResumeRefreezes
  <2>2. CommandTyped
    BY <2>1, FreezeEffect
  <2>3. panel' \in Panels
    BY <1>12 DEF pause, ResumeThaws, ResumeRefreezes, TypeOK, Panels
  <2>4. asks' \in Nat
    <3>1. asks' \in {asks, asks + 1}
      BY <1>12 DEF pause, ResumeThaws, ResumeRefreezes, Asks
    <3> QED BY <3>1 DEF TypeOK
  <2>5. /\ UNCHANGED <<watch, notice, stoppedBy>> /\ OnlyPanel
    BY <1>12 DEF pause, ResumeThaws, ResumeRefreezes
  <2> QED BY <2>2, <2>3, <2>4, <2>5
          DEF OnlyPanel, TypeOK, CommandTyped, coordinatorVars, threadVars
<1>13. CASE keep_running
  <2>1. WatchTyped /\ asks' \in Nat
    BY <1>13 DEF keep_running, Asks, TypeOK, WatchTyped, Watches
  <2> QED BY <1>13, <2>1 DEF keep_running, OnlyPanel, TypeOK, WatchTyped,
          coordinatorVars, threadVars
<1>14. CASE announce_disconnect
  <2>1. PICK length \in Lengths \cup {0} :
            notice' = [until |-> IF length = 0 THEN 0 ELSE now + length,
                       granted |-> None, failed |-> FALSE, news |-> TRUE]
    BY <1>14 DEF announce_disconnect
  <2>2. notice' \in Notices
    BY <1>0, <2>1 DEF Notices
  <2>3. asks' \in Nat
    BY <1>14 DEF announce_disconnect, Asks, TypeOK
  <2> QED BY <1>14, <2>2, <2>3 DEF announce_disconnect, OnlyPanel, TypeOK,
          coordinatorVars, threadVars
<1>15. CASE ResumeBegins \/ ResumeAllowedStill \/ ResumeLeftFrozen
  <2>1. panel' \in Panels /\ asks' \in Nat
    BY <1>15 DEF ResumeBegins, ResumeAllowedStill, ResumeLeftFrozen, Asks, TypeOK,
       Panels
  <2> QED BY <1>15, <2>1 DEF ResumeBegins, ResumeAllowedStill, ResumeLeftFrozen,
          OnlyPanel, TypeOK, coordinatorVars, threadVars
<1>16. CASE register \/ WorkloadEnds \/ unregister
  <2>1. work' \in Works /\ (work'.frozen => work'.at = "running")
    BY <1>16 DEF register, WorkloadEnds, unregister, Executing, Alive, TypeOK, Works
  <2>2. WatchTyped /\ registered' \in BOOLEAN /\ looked' \in BOOLEAN
    BY <1>16 DEF register, WorkloadEnds, unregister, TypeOK, WatchTyped
  <2>3. thread' \in Threads
    <3>1. ThreadOver \in Threads
      BY DEF ThreadOver, Threads
    <3> QED BY <1>16, <3>1
            DEF register, WorkloadEnds, unregister, threadVars, TypeOK
  <2> QED BY <1>16, <2>1, <2>2, <2>3
          DEF register, WorkloadEnds, unregister, TypeOK, WatchTyped,
          coordinatorVars, threadVars, panelVars, countVars
<1>17. CASE Tick
  <2>1. now' \in 0 .. MaxTime
    BY <1>0, <1>17 DEF Tick, TypeOK, Least
  <2>2. looked' \in BOOLEAN
    BY <1>17 DEF Tick
  <2> QED BY <1>17, <2>1, <2>2 DEF Tick, TypeOK, coordinatorVars, threadVars,
          workVars, panelVars, countVars
<1> QED
  BY <1>1, <1>2, <1>3, <1>4, <1>5, <1>6, <1>7, <1>8, <1>9, <1>10, <1>11, <1>12,
     <1>13, <1>14, <1>15, <1>16, <1>17 DEF Next, ThreadStep, WatcherStep, PanelStep

(***************************************************************************)
(* Every step keeps what the refusal rests on.                             *)
(***************************************************************************)
Tidy == ThreadTidy /\ WorkTidy /\ ChoiceKept /\ RefusedIsStopped

LEMMA TidyStep ==
    ASSUME TypeOK, Tidy, Next
    PROVE  Tidy'
<1>0. /\ now \in Nat /\ thread \in Threads /\ work \in Works
      /\ watch # None => watch \in Watches
      /\ registered \in BOOLEAN /\ fails \in Nat
  BY DEF TypeOK
<1> USE NoneAssumption DEF Tidy
<1>1. CASE serve_renew_session
  <2>1. thread.at = "sent"
    BY <1>0, <1>1 DEF serve_renew_session, ThreadTidy, NoWire
  <2> QED BY <1>1, <2>1 DEF serve_renew_session, ThreadTidy, WorkTidy, ChoiceKept,
          RefusedIsStopped, Alive, workVars, panelVars, countVars
<1>2. CASE serve_late_request \/ failover_lost_attempts
  BY <1>2 DEF serve_late_request, failover_lost_attempts, ThreadTidy, WorkTidy,
     ChoiceKept, RefusedIsStopped, Alive, threadVars, workVars, panelVars, countVars
<1>3. CASE LocalExpired
  <2>1. /\ thread'.at = "over" /\ wire' = NoWire /\ ~ looked'
        /\ UNCHANGED <<now, registered, work, fails>>
    BY <1>3 DEF LocalExpired, ThreadTidy, ThreadOver, workVars, countVars
  <2>2. CASE watch = None
    BY <1>3, <2>1, <2>2 DEF LocalExpired, ThreadTidy, WorkTidy, ChoiceKept,
       RefusedIsStopped, Alive
  <2>3. CASE watch # None
    <3>1. /\ watch' \in Watches /\ watch' # None
          /\ \/ watch'.refused /\ watch'.stopAt <= now
             \/ watch'.refused = watch.refused /\ watch'.stopAt = watch.stopAt
          /\ watch'.choice = watch.choice
          /\ watch'.selfStopped = watch.selfStopped
          /\ watch'.stopping = watch.stopping
      BY <1>3, <2>3, RefusedTyped, DisconnectedTyped DEF LocalExpired
    <3> QED BY <2>1, <2>3, <3>1 DEF ThreadTidy, WorkTidy, ChoiceKept,
            RefusedIsStopped, Alive
  <2> QED BY <2>2, <2>3
<1>4. CASE renew_once_over_new_connection
  <2>1. /\ thread.at = "wait" /\ thread'.at = "sent" /\ thread'.sent = now
        /\ UNCHANGED <<now, watch, looked, registered, work, fails>>
    BY <1>0, <1>4 DEF renew_once_over_new_connection, Threads, workVars, countVars
  <2> QED BY <1>0, <2>1 DEF ThreadTidy, WorkTidy, ChoiceKept, RefusedIsStopped, Alive
<1>5. CASE RenewSucceeds
  <2>1. PICK lease \in SignedLeases :
            watch' = renew_succeeded(lease) /\ thread' = NextRound(lease, FALSE)
    BY <1>5 DEF RenewSucceeds, TypeOK, Wires, Answers
  <2>2. /\ thread.at = "sent" /\ wire' = NoWire /\ thread'.at # "sent"
        /\ UNCHANGED <<now, looked, registered, work, fails>>
    BY <1>5, <2>1, NextRoundTyped DEF RenewSucceeds, workVars, countVars
  <2>3. CASE watch = None
    BY <2>1, <2>2, <2>3 DEF renew_succeeded, ThreadTidy, WorkTidy, ChoiceKept,
       RefusedIsStopped, Alive
  <2>4. CASE watch # None
    <3>1. /\ watch' \in Watches /\ watch' # None /\ ~ watch'.refused
          /\ watch'.choice = watch.choice
          /\ watch'.selfStopped = watch.selfStopped
          /\ watch'.stopping = watch.stopping
      BY <2>1, <2>2, <2>4, RenewedTyped DEF ThreadTidy
    <3> QED BY <2>2, <2>4, <3>1 DEF ThreadTidy, WorkTidy, ChoiceKept,
            RefusedIsStopped, Alive
  <2> QED BY <2>3, <2>4
<1>6. CASE RenewRefused
  <2>1. /\ thread'.at = "over" /\ wire' = NoWire /\ ~ looked'
        /\ UNCHANGED <<now, registered, work, fails>>
    BY <1>6 DEF RenewRefused, ThreadOver, workVars, countVars
  <2>2. CASE watch = None
    BY <1>6, <2>1, <2>2 DEF RenewRefused, renew_refused, ThreadTidy, WorkTidy,
       ChoiceKept, RefusedIsStopped, Alive
  <2>3. CASE watch # None
    <3>1. /\ watch' \in Watches /\ watch' # None
          /\ watch'.refused /\ watch'.stopAt <= now
          /\ watch'.selfStopped = watch.selfStopped
      BY <1>6, <2>3, RefusedTyped DEF RenewRefused, renew_refused
    <3> QED BY <2>1, <2>3, <3>1 DEF ThreadTidy, WorkTidy, ChoiceKept,
            RefusedIsStopped, Alive
  <2> QED BY <2>2, <2>3
<1>7. CASE RenewFails \/ RenewRejected
  <2>1. /\ thread.at = "sent" /\ wire' = NoWire /\ thread'.at # "sent"
        /\ UNCHANGED <<now, looked, registered, work, fails>>
        /\ watch' = renew_failed
    <3>1. (thread.announce # 0) \in BOOLEAN /\ held \in SignedLeases
      BY DEF TypeOK
    <3>2. NextRound(held, thread.announce # 0).at # "sent" /\ ThreadOver.at # "sent"
      BY <3>1, NextRoundTyped DEF ThreadOver
    <3> QED BY <1>7, <3>2 DEF RenewFails, RenewRejected, workVars
  <2>2. CASE watch = None
    BY <2>1, <2>2 DEF renew_failed, ThreadTidy, WorkTidy, ChoiceKept,
       RefusedIsStopped, Alive
  <2>3. CASE watch # None
    <3>1. /\ watch' \in Watches /\ watch' # None /\ ~ watch'.refused
          /\ watch'.choice = watch.choice
          /\ watch'.selfStopped = watch.selfStopped
          /\ watch'.stopping = watch.stopping
      BY <2>1, <2>3, DisconnectedTyped DEF ThreadTidy, renew_failed
    <3> QED BY <2>1, <2>3, <3>1 DEF ThreadTidy, WorkTidy, ChoiceKept,
            RefusedIsStopped, Alive
  <2> QED BY <2>2, <2>3
\* The watcher looks away from a refused workload only if it has stopped it.
<1>8. CASE near_finish_hold \/ LooksAway
  <2>1. /\ watch # None /\ work'.at = work.at
        /\ UNCHANGED <<now, thread, wire, watch, registered, fails>>
        /\ watch.refused => ~ Due /\ ~ watch.stopping
    BY <1>0, <1>8 DEF near_finish_hold, LooksAway, OnlyWatch, threadVars, MayHold,
       Works, Due
  <2>2. watch.refused => watch.selfStopped
    BY <1>0, <2>1 DEF Due, ThreadTidy, TypeOK, Watches
  <2> QED BY <1>0, <2>1, <2>2 DEF ThreadTidy, WorkTidy, ChoiceKept,
          RefusedIsStopped, Alive
<1>9. CASE self_stop_if_due
  <2>1. /\ UNCHANGED <<now, thread, wire, looked, registered, work, fails>>
        /\ watch # None /\ ~ looked /\ Due
        /\ watch' = [watch EXCEPT !.stopping = TRUE]
    BY <1>9 DEF self_stop_if_due, OnlyWatch, threadVars
  <2>2. /\ watch' \in Watches /\ watch' # None /\ watch'.refused = watch.refused
        /\ watch'.stopAt = watch.stopAt /\ watch'.choice = watch.choice
        /\ watch'.selfStopped = watch.selfStopped
    BY <1>0, <2>1 DEF Watches
  <2> QED BY <2>1, <2>2 DEF Due, ThreadTidy, WorkTidy, ChoiceKept,
          RefusedIsStopped, Alive
<1>10. CASE WatcherStops
  <2>1. PICK ok \in BOOLEAN :
            /\ IF registered THEN StopCommand(ok)
               ELSE ok = FALSE /\ UNCHANGED <<work, stopper, fails>>
            /\ watch' = Noted(ok)
    BY <1>10 DEF WatcherStops
  <2>2. /\ UNCHANGED <<now, thread, wire, registered>>
        /\ watch # None /\ watch.stopping
    BY <1>10 DEF WatcherStops, OnlyWatch, threadVars
  <2>3. /\ watch' \in Watches /\ watch' # None /\ watch'.refused = watch.refused
        /\ watch'.stopAt = watch.stopAt /\ watch'.choice = watch.choice
        /\ watch'.selfStopped = ok /\ watch'.stopping = ok
    BY <2>1, <2>2, NotedTyped
  <2>4. CASE registered
    <3>1. /\ work'.at \in {work.at, "exited"} /\ work.at # "starting"
          /\ ok => work'.at = "exited"
          /\ work'.at # "running" \/ fails' > 0
      BY <2>1, <2>4, StopEffect
    <3> QED BY <2>2, <2>3, <2>4, <3>1 DEF ThreadTidy, WorkTidy, ChoiceKept,
            RefusedIsStopped, Alive
  <2>5. CASE ~ registered
    BY <2>1, <2>2, <2>3, <2>5 DEF ThreadTidy, WorkTidy, ChoiceKept,
       RefusedIsStopped, Alive
  <2> QED BY <1>0, <2>4, <2>5
<1>11. CASE OwnerStops \/ ResumeStops
  <2>1. PICK ok \in BOOLEAN : StopCommand(ok)
    BY <1>11 DEF OwnerStops, ResumeStops
  <2>2. UNCHANGED <<now, thread, wire, watch, looked, registered>>
    BY <1>11 DEF OwnerStops, ResumeStops, OnlyPanel, threadVars
  <2>3. /\ work'.at \in {work.at, "exited"} /\ work.at # "starting"
        /\ work'.at # "running" \/ fails' > 0
    BY <2>1, StopEffect
  <2> QED BY <2>2, <2>3 DEF ThreadTidy, WorkTidy, ChoiceKept, RefusedIsStopped, Alive
<1>12. CASE pause \/ ResumeThaws \/ ResumeRefreezes
  <2>1. \E frozen \in BOOLEAN, ok \in BOOLEAN : SetFrozen(frozen, ok)
    BY <1>12 DEF pause, ResumeThaws, ResumeRefreezes
  <2>2. UNCHANGED <<now, thread, wire, watch, looked, registered>>
    BY <1>12 DEF pause, ResumeThaws, ResumeRefreezes, OnlyPanel, threadVars
  <2>3. work'.at = work.at /\ fails' \in Nat /\ fails <= fails'
    BY <2>1, FreezeEffect DEF CommandTyped
  <2> QED BY <1>0, <2>2, <2>3 DEF ThreadTidy, WorkTidy, ChoiceKept,
          RefusedIsStopped, Alive
<1>13. CASE keep_running
  <2>1. /\ UNCHANGED <<now, thread, wire, looked, registered, work, fails>>
        /\ watch # None /\ ~ watch.refused /\ ~ watch.stopping /\ ~ watch.selfStopped
        /\ watch' = [watch EXCEPT !.choice = "KeepRunning"]
    BY <1>13 DEF keep_running, Asks, OnlyPanel, threadVars
  <2>2. /\ watch' \in Watches /\ watch' # None /\ ~ watch'.refused
        /\ ~ watch'.stopping /\ ~ watch'.selfStopped
    BY <1>0, <2>1 DEF Watches
  <2> QED BY <2>1, <2>2 DEF ThreadTidy, WorkTidy, ChoiceKept, RefusedIsStopped, Alive
<1>14. CASE \/ announce_disconnect \/ ResumeBegins \/ ResumeAllowedStill
            \/ ResumeLeftFrozen
  <2>1. UNCHANGED <<now, thread, wire, watch, looked, registered, work, fails>>
    BY <1>14 DEF announce_disconnect, ResumeBegins, ResumeAllowedStill,
       ResumeLeftFrozen, OnlyPanel, threadVars
  <2> QED BY <2>1 DEF ThreadTidy, WorkTidy, ChoiceKept, RefusedIsStopped, Alive
<1>15. CASE register \/ WorkloadEnds
  <2>1. /\ UNCHANGED <<now, thread, wire, watch, fails>>
        /\ \/ work.at = "starting" /\ work'.at = "running" /\ registered' /\ ~ looked'
           \/ Alive /\ work'.at = "exited" /\ UNCHANGED <<registered, looked>>
    BY <1>0, <1>15 DEF register, WorkloadEnds, Executing, Alive, Works, threadVars,
       countVars
  <2> QED BY <2>1 DEF ThreadTidy, WorkTidy, ChoiceKept, RefusedIsStopped, Alive
<1>16. CASE unregister
  BY <1>0, <1>16 DEF unregister, ThreadOver, ThreadTidy, WorkTidy, ChoiceKept,
     RefusedIsStopped, Alive, countVars
<1>17. CASE Tick
  <2>1. now' \in Nat /\ now <= now'
    BY <1>0, <1>17, TimesAssumption DEF Tick, Least, TypeOK
  <2>2. /\ UNCHANGED <<thread, wire, watch, registered, work, fails>> /\ ~ looked'
    BY <1>17 DEF Tick, threadVars, workVars, countVars
  <2>3. ThreadTidy'
    BY <1>0, <2>1, <2>2 DEF ThreadTidy, Threads, Watches
  <2> QED BY <2>2, <2>3 DEF WorkTidy, ChoiceKept, RefusedIsStopped, Alive
<1> QED
  BY <1>1, <1>2, <1>3, <1>4, <1>5, <1>6, <1>7, <1>8, <1>9, <1>10, <1>11, <1>12,
     <1>13, <1>14, <1>15, <1>16, <1>17 DEF Next, ThreadStep, WatcherStep, PanelStep

LEMMA FirstLeaseTyped ==
    ASSUME lag \in Lags
    PROVE  /\ FirstLease \in SignedLeases
           /\ FirstLease.issued = lag /\ FirstLease.grace = SignedGrace
           /\ FirstLease.expires = lag + Least(Extension, Total)
<1>1. lag \in Nat /\ Least(Extension, Total) \in Nat /\ SignedGrace \in Nat
  BY TimesAssumption DEF Least
<1> QED BY <1>1 DEF FirstLease, SignedLeases

LEMMA InitTyped ==
    ASSUME Init
    PROVE  TypeOK /\ Tidy
<1>1. now = 0 /\ now \in 0 .. MaxTime /\ lag \in Lags
  BY TimesAssumption DEF Init
<1>2. FirstLease \in SignedLeases
  BY <1>1, FirstLeaseTyped
<1>3. row \in StoredLeases
  BY <1>2 DEF Init, StoredLeases, SignedLeases
<1>4. thread \in Threads /\ thread.at = "wait"
  <2>1. Minus(FirstLease.expires, now) \in Nat
    BY <1>1, <1>2, MinusNat DEF SignedLeases
  <2>2. Minus(FirstLease.expires, now) \div 2 \in Nat
    BY <2>1, HalfNat
  <2>3. RenewWait(FirstLease) \in Nat
    BY <2>2, TimesAssumption DEF RenewWait, Least, Greatest
  <2> QED BY <2>3 DEF Init, Threads
<1>5. /\ watch \in Watches /\ watch.stopAt <= watch.holdAt /\ watch # None
      /\ ~ watch.refused /\ ~ watch.selfStopped /\ ~ watch.stopping
      /\ watch.stopAt = disconnect_self_stop_at(FirstLease, 0)
      /\ watch.holdAt = near_finish_stop_at(FirstLease, 0)
  <2> DEFINE stop == disconnect_self_stop_at(FirstLease, 0)
             hold == near_finish_stop_at(FirstLease, 0)
  <2>1. stop \in Nat /\ hold \in Nat /\ stop <= hold
    BY <1>2, StopAtNat, HoldAtNat
  <2>2. PICK keep \in BOOLEAN :
            watch = [stopAt |-> stop, holdAt |-> hold,
                     disconnected |-> FALSE, refused |-> FALSE,
                     keepAllowed |-> keep, choice |-> "Auto",
                     selfStopped |-> FALSE, stopping |-> FALSE]
    BY DEF Init
  <2> HIDE DEF stop, hold
  <2>3. watch \in Watches
    BY <2>1, <2>2 DEF Watches
  <2> QED BY <2>1, <2>2, <2>3, NoneAssumption DEF stop, hold
<1>6. wire \in Wires /\ wire = NoWire
  BY DEF Init, Wires, NoWire
<1>7. work \in Works /\ ~ work.frozen /\ work.at = "starting" /\ ~ registered
  BY DEF Init, Works
<1>8. stopper \in Stoppers /\ notice \in Notices /\ panel \in Panels
  BY DEF Init, Stoppers, Notices, Panels
<1>9. TypeOK
  BY <1>1, <1>2, <1>3, <1>4, <1>5, <1>6, <1>7, <1>8 DEF Init, TypeOK
<1>10. Tidy
  BY <1>4, <1>5, <1>6, <1>7
     DEF Tidy, ThreadTidy, WorkTidy, ChoiceKept, RefusedIsStopped, Alive
<1> QED BY <1>9, <1>10

LEMMA StutterTyped ==
    ASSUME TypeOK, Tidy, UNCHANGED vars
    PROVE  TypeOK' /\ Tidy'
  BY DEF vars, coordinatorVars, threadVars, workVars, panelVars, countVars, TypeOK,
     Tidy, ThreadTidy, WorkTidy, ChoiceKept, RefusedIsStopped, Alive

LEMMA TypeInvariance == Spec => [](TypeOK /\ Tidy)
<1>1. Init => TypeOK /\ Tidy
  BY InitTyped
<1>2. TypeOK /\ Tidy /\ [Next]_vars => (TypeOK /\ Tidy)'
  BY TypeStep, TidyStep, StutterTyped
<1> QED BY <1>1, <1>2, PTL DEF Spec

(***************************************************************************)
(* A workload the coordinator has refused is over once the watcher has     *)
(* looked, whatever its owner chose, froze or thaws, unless a command of   *)
(* the container runtime failed: for every lag and every choice of times.  *)
(***************************************************************************)
THEOREM RefusalStops == Spec => []RefusedIsStopped
<1>1. TypeOK /\ Tidy => RefusedIsStopped
  BY DEF Tidy
<1> QED BY <1>1, TypeInvariance, PTL

-----------------------------------------------------------------------------
(* No stop without a cause.                                                *)

(***************************************************************************)
(* The condition on the times: a request that is sent an interval after a  *)
(* renewal, waits for its answer as long as the thread does, and was       *)
(* itself answered as late as that, is back before the margin of the       *)
(* extension begins.                                                       *)
(***************************************************************************)
RenewalsFit == Interval + 2 * IoTimeout + Margin < Extension

AtLimit == row.expires >= row.issued + Total
Dead == row.revoked \/ row.expires <= coordinator_now

\* When the thread sends its request at the latest, or has sent it.
SendsBy == IF thread.at = "sent" THEN thread.sent ELSE thread.due

(***************************************************************************)
(* While no connection breaks: nothing is late, an answer tells the row as *)
(* it stands, and the thread is back before the deadline of the watch as   *)
(* long as the lease can still be renewed.                                 *)
(***************************************************************************)
OnTime ==
    /\ late = None
    /\ wire.answer # None => wire.request = None
    /\ thread.at = "wait" => now <= thread.due
    /\ thread.at = "sent" => now <= thread.sent + IoTimeout

AnswerFits ==
    wire.answer # None =>
        /\ wire.answer.outcome = "RENEWED" =>
               /\ wire.answer.lease = Signed(row)
               /\ AtLimit \/ row.expires >= thread.sent + lag + Extension
        /\ wire.answer.outcome # "RENEWED" => AtLimit
        /\ wire.answer.outcome = "closed" => Dead

BackInTime ==
    /\ thread.at = "over" \/ row.revoked => AtLimit
    /\ thread.at # "over" /\ ~ AtLimit =>
           /\ SendsBy + IoTimeout < watch.stopAt
           /\ SendsBy + IoTimeout + lag < row.expires
           /\ thread.at = "wait" => held.expires = row.expires
    /\ thread.at # "over" /\ ~ Dead =>
           SendsBy + IoTimeout < watch.stopAt \/ Total <= watch.stopAt + Margin
    /\ watch.stopping =>
           AtLimit /\ (thread.at = "over" \/ Dead \/ Total <= now + Margin)

Renewing ==
    /\ row.issued = lag
    /\ lost = 0 /\ watch # None => OnTime /\ AnswerFits /\ BackInTime

(***************************************************************************)
(* The numbers of a state.                                                 *)
(***************************************************************************)
Numbers ==
    /\ now \in Nat /\ lag \in Nat /\ lost \in Nat /\ coordinator_now \in Nat
    /\ coordinator_now = now + lag
    /\ row.issued \in Nat /\ row.expires \in Nat /\ row.grace \in Nat
    /\ row.revoked \in BOOLEAN /\ held.expires \in Nat
    /\ thread.due \in Nat /\ thread.sent \in Nat
    /\ thread.at \in {"wait", "sent", "over"}
    /\ watch # None => /\ watch.stopAt \in Nat /\ watch.holdAt \in Nat
                       /\ watch.stopAt <= watch.holdAt
                       /\ watch.stopping \in BOOLEAN

LEMMA NumbersTyped == TypeOK => Numbers
<1>1. TypeOK => lag \in Nat /\ now \in Nat
  BY TimesAssumption DEF TypeOK
<1> QED BY <1>1 DEF TypeOK, Numbers, StoredLeases, SignedLeases, Threads, Watches,
        coordinator_now

(***************************************************************************)
(* The steps that leave the lease and the renewal thread alone.            *)
(***************************************************************************)
Bystander ==
    \/ near_finish_hold \/ LooksAway \/ WatcherStops \/ PanelStep
    \/ register \/ WorkloadEnds

LEMMA BystanderEffect ==
    ASSUME TypeOK, Bystander
    PROVE  /\ UNCHANGED <<now, lag, row, taken, held, thread, wire, late, lost>>
           /\ watch' # None => /\ watch # None
                               /\ watch'.stopAt = watch.stopAt
                               /\ watch'.holdAt = watch.holdAt
                               /\ watch'.stopping => watch.stopping
<1>1. CASE WatcherStops
  <2>1. PICK ok \in BOOLEAN : watch' = Noted(ok)
    BY <1>1 DEF WatcherStops
  <2>2. watch # None /\ watch.stopping /\ OnlyWatch
    BY <1>1 DEF WatcherStops
  <2> QED BY <2>1, <2>2, NotedTyped DEF OnlyWatch, coordinatorVars, threadVars
<1>2. CASE keep_running
  <2>1. /\ watch # None /\ watch' = [watch EXCEPT !.choice = "KeepRunning"]
        /\ OnlyPanel
    BY <1>2 DEF keep_running, Asks
  <2>2. watch'.stopAt = watch.stopAt /\ watch'.holdAt = watch.holdAt
        /\ watch'.stopping = watch.stopping
    BY <2>1 DEF TypeOK, Watches
  <2> QED BY <2>1, <2>2 DEF OnlyPanel, coordinatorVars, threadVars
<1>3. CASE near_finish_hold \/ LooksAway
  BY <1>3 DEF near_finish_hold, LooksAway, OnlyWatch, coordinatorVars, threadVars
<1>4. CASE register \/ WorkloadEnds
  BY <1>4 DEF register, WorkloadEnds, coordinatorVars, threadVars, countVars
<1>5. CASE PanelStep /\ ~ keep_running
  <2>1. UNCHANGED watch /\ OnlyPanel
    BY <1>5 DEF PanelStep, OwnerStops, announce_disconnect, pause, ResumeBegins,
       ResumeThaws, ResumeAllowedStill, ResumeLeftFrozen, ResumeRefreezes, ResumeStops
  <2> QED BY <2>1 DEF OnlyPanel, coordinatorVars, threadVars
<1> QED BY <1>1, <1>2, <1>3, <1>4, <1>5 DEF Bystander

(***************************************************************************)
(* The deadline of a renewal, measured from when it was sent.              *)
(***************************************************************************)
LEMMA DeadlineOf ==
    ASSUME NEW lease \in SignedLeases, NEW sent \in Nat, NEW length \in Nat,
           lease.issued + length <= lease.expires
    PROVE  \/ sent + length <= disconnect_self_stop_at(lease, sent) + Margin
           \/ lease.expires <= disconnect_self_stop_at(lease, sent) + Margin
<1> DEFINE base == SignedBase(lease, sent)
           stop == disconnect_self_stop_at(lease, sent)
           left == Minus(lease.expires, lease.issued)
<1>1. /\ lease.expires \in Nat /\ lease.issued \in Nat /\ Margin \in Nat
  BY TimesAssumption DEF SignedLeases
<1>2. left \in Nat /\ length <= left
  BY <1>1 DEF Minus, Greatest
<1>3. base \in {lease.expires, sent + left} /\ base \in Nat
  BY BaseNat
<1>4. stop \in Nat /\ base <= stop + Margin
  BY StopAtNat
<1> HIDE DEF base, stop, left
<1>5. sent + length <= stop + Margin \/ lease.expires <= stop + Margin
  BY <1>1, <1>2, <1>3, <1>4
<1> QED BY <1>5 DEF stop

LEMMA RenewingStep ==
    ASSUME TypeOK, Tidy, Renewing, TypeOK', Next, RenewalsFit
    PROVE  Renewing'
<1>0. Numbers /\ Numbers'
  BY NumbersTyped, PTL
<1> USE DEF Numbers
<1>1. /\ Extension \in Nat /\ Total \in Nat /\ Margin \in Nat /\ Interval \in Nat
      /\ IoTimeout \in Nat
  BY TimesAssumption
<1>2. CASE serve_renew_session
  <2> DEFINE until == wire.request
             result == SessionResult(until)
  <2>1. /\ until \in Nat /\ thread.at = "sent"
        /\ row' = result.row /\ wire'.request = None /\ wire'.answer = result.answer
        /\ UNCHANGED <<now, lag, held, thread, late, watch, lost>>
    BY <1>0, <1>2 DEF serve_renew_session, ThreadTidy, Tidy, NoWire, countVars,
       TypeOK, Wires
  <2>2. coordinator_now' = coordinator_now
    BY <2>1 DEF coordinator_now
  <2>3. CASE Refuses(result)
    <3> HIDE DEF result
    <3>1. row' = row
      BY <2>1, <2>3 DEF Refuses
    <3>2. /\ wire'.answer.outcome # "RENEWED"
          /\ wire'.answer.outcome = "closed" => Dead
          /\ row.revoked \/ row.expires <= coordinator_now \/ is_max_duration_exceeded
      BY <2>1, <2>3 DEF Refuses, Dead
    <3>3. ASSUME lost = 0, watch # None
          PROVE  AtLimit
      BY <1>0, <1>1, <2>1, <3>2, <3>3 DEF Renewing, OnTime, BackInTime, AtLimit,
         SendsBy, is_max_duration_exceeded
    <3> QED BY <2>1, <2>2, <3>1, <3>2, <3>3 DEF Renewing, OnTime, AnswerFits,
            BackInTime, AtLimit, Dead, SendsBy
  <2>4. CASE Grants(result, until)
    <3> DEFINE ext == announced_renew_extension_ms(until)
    <3>1. /\ ~ row.revoked /\ row.expires > coordinator_now
          /\ row.issued + Total > coordinator_now /\ row' = Renewed(until)
          /\ wire'.answer = Answer("RENEWED", Signed(row'))
      BY <2>1, <2>4 DEF Grants
    <3> HIDE DEF result
    <3>2. /\ row'.issued = row.issued /\ row'.expires = coordinator_now + ext
          /\ row'.revoked = row.revoked
      BY <2>1, <3>1, RenewedRow
    <3>3. /\ ext \in Nat
          /\ ext = row.issued + Total - coordinator_now \/ ext >= Extension
          /\ ext <= row.issued + Total - coordinator_now
      BY <1>0, <1>1, <2>1, <3>1, ExtensionNat
    <3>4. /\ wire'.answer.outcome = "RENEWED" /\ wire'.answer.lease = Signed(row')
      BY <3>1 DEF Answer
    <3> HIDE DEF ext, until
    <3>5. ~ Dead
      BY <1>0, <3>1 DEF Dead
    <3>6. ASSUME lost = 0, watch # None, Renewing
          PROVE  OnTime' /\ AnswerFits' /\ BackInTime'
      <4>1. /\ now <= thread.sent + IoTimeout /\ thread.sent <= now
            /\ \/ thread.sent + IoTimeout < watch.stopAt
               \/ Total <= watch.stopAt + Margin
            /\ watch.stopping => Total <= now + Margin
            /\ row.issued = lag /\ late = None
        BY <2>1, <3>5, <3>6 DEF Renewing, OnTime, BackInTime, SendsBy, Tidy,
           ThreadTidy
      <4>2. AtLimit' \/ row'.expires >= now + lag + Extension
        BY <1>0, <1>1, <3>2, <3>3 DEF AtLimit
      <4>3. OnTime'
        BY <2>1, <4>1 DEF OnTime
      <4>4. AnswerFits'
        BY <1>0, <1>1, <2>1, <3>4, <4>1, <4>2 DEF AnswerFits
      <4>5. watch.stopping => AtLimit'
        BY <1>0, <1>1, <3>2, <3>3, <4>1 DEF AtLimit, RenewalsFit
      <4>6. ~ AtLimit' => /\ thread.sent + IoTimeout < watch.stopAt
                          /\ thread.sent + IoTimeout + lag < row'.expires
        <5>1. row'.expires < lag + Total \/ AtLimit'
          BY <1>0, <1>1, <3>2, <4>1 DEF AtLimit
        <5> QED BY <1>0, <1>1, <2>1, <3>6, <4>1, <4>2, <5>1 DEF RenewalsFit
      <4> QED BY <2>1, <3>1, <3>2, <4>1, <4>3, <4>4, <4>5, <4>6
              DEF BackInTime, SendsBy
    <3> QED BY <2>1, <3>2, <3>6 DEF Renewing
  <2> QED BY <2>1, <2>3, <2>4, SessionOutcome
<1>3. CASE serve_late_request
  <2>1. /\ late # None /\ late \in Nat /\ row' = SessionResult(late).row
        /\ UNCHANGED <<lag, watch, lost>>
    BY <1>3 DEF serve_late_request, countVars, TypeOK
  <2>2. row'.issued = row.issued
    BY <2>1, SessionOutcome, RenewedRow DEF Refuses, Grants
  <2> QED BY <2>1, <2>2 DEF Renewing, OnTime
<1>4. CASE failover_lost_attempts
  <2>1. /\ row'.issued = row.issued /\ row'.expires = row.expires
        /\ row'.grace = row.grace /\ row'.revoked
        /\ coordinator_now > row.expires + Greatest(PolicyGrace, row.grace)
        /\ UNCHANGED <<now, lag, held, thread, wire, late, watch, lost>>
    BY <1>4 DEF failover_lost_attempts, threadVars, countVars, TypeOK, StoredLeases
  <2>2. /\ coordinator_now > row.expires
    BY <1>0, <2>1, TimesAssumption DEF Greatest
  <2>3. ASSUME lost = 0, watch # None
        PROVE  AtLimit
    BY <1>0, <1>1, <2>2, <2>3 DEF Renewing, OnTime, BackInTime, SendsBy
  <2>4. Signed(row') = Signed(row) /\ AtLimit' = AtLimit /\ Dead'
    BY <2>1 DEF Signed, AtLimit, Dead
  <2> QED BY <2>1, <2>3, <2>4 DEF Renewing, OnTime, AnswerFits, BackInTime, SendsBy
<1>5. CASE LocalExpired
  <2>1. /\ thread.at = "wait" /\ held.expires <= now /\ thread'.at = "over"
        /\ wire = NoWire /\ UNCHANGED <<now, lag, row, wire, late, lost>>
        /\ watch' # None => watch # None
    BY <1>5 DEF LocalExpired, lease_is_expired, ThreadOver, Tidy, ThreadTidy,
       coordinatorVars, countVars
  <2>2. ASSUME lost = 0, watch # None
        PROVE  AtLimit
    BY <1>0, <1>1, <2>1, <2>2 DEF Renewing, OnTime, BackInTime, SendsBy
  <2>3. AtLimit' = AtLimit
    BY <2>1 DEF AtLimit
  <2> QED BY <2>1, <2>2, <2>3 DEF Renewing, OnTime, AnswerFits, BackInTime, NoWire
<1>6. CASE renew_once_over_new_connection
  <2>1. /\ thread.at = "wait" /\ thread'.at = "sent" /\ thread'.sent = now
        /\ wire'.answer = None
        /\ UNCHANGED <<now, lag, row, held, late, watch, lost>>
    BY <1>6 DEF renew_once_over_new_connection, coordinatorVars, countVars, TypeOK,
       Threads
  <2>2. AtLimit' = AtLimit /\ Dead' = Dead
    BY <2>1 DEF AtLimit, Dead, coordinator_now
  <2> QED BY <1>0, <1>1, <2>1, <2>2 DEF Renewing, OnTime, AnswerFits, BackInTime,
          SendsBy
<1>7. CASE RenewSucceeds
  <2> DEFINE lease == wire.answer.lease
  <2>1. /\ thread.at = "sent" /\ wire.answer # None
        /\ wire.answer.outcome = "RENEWED" /\ wire' = NoWire
        /\ held' = lease /\ watch' = renew_succeeded(lease)
        /\ thread' = NextRound(lease, FALSE)
        /\ UNCHANGED <<now, lag, row, late, lost>>
    BY <1>7 DEF RenewSucceeds, coordinatorVars, countVars
  <2>2. lease \in SignedLeases
    BY <2>1 DEF TypeOK, Wires, Answers
  <2>3. AtLimit' = AtLimit /\ Dead' = Dead
    BY <2>1 DEF AtLimit, Dead, coordinator_now
  <2>4. ASSUME lost = 0, watch # None
        PROVE  OnTime' /\ AnswerFits' /\ BackInTime'
    <3>1. /\ watch'.stopAt = disconnect_self_stop_at(lease, thread.sent)
          /\ watch'.stopping = watch.stopping
      BY <2>1, <2>2, <2>4, RenewedTyped
    <3>2. /\ thread'.at = "wait" /\ now <= thread'.due
          /\ thread'.due <= now + Interval
      BY <2>1, <2>2, <2>4, NextRoundTyped
    <3>3. /\ now <= thread.sent + IoTimeout /\ row.issued = lag /\ late = None
          /\ lease = Signed(row)
          /\ AtLimit \/ row.expires >= thread.sent + lag + Extension
      BY <2>1, <2>4 DEF Renewing, OnTime, AnswerFits
    <3>4. lease.issued = lag /\ lease.expires = row.expires
      BY <3>3 DEF Signed
    <3> HIDE DEF lease
    <3>5. AtLimit => Total <= watch'.stopAt + Margin
      <4>1. AtLimit => lease.issued + Total <= lease.expires
        BY <1>0, <1>1, <3>3, <3>4 DEF AtLimit
      <4>2. watch' # None => watch'.stopAt \in Nat
        BY <1>0
      <4>3. watch' # None
        BY <2>1, <2>2, <2>4, RenewedTyped, NoneAssumption
      <4> QED BY <1>0, <1>1, <2>2, <3>1, <3>3, <3>4, <4>1, <4>2, <4>3, DeadlineOf
              DEF AtLimit
    <3>6. ~ AtLimit => /\ thread'.due + IoTimeout < watch'.stopAt
                       /\ thread'.due + IoTimeout + lag < row.expires
      <4>1. CASE ~ AtLimit
        <5>1. lease.issued + (thread.sent + Extension) <= lease.expires
          BY <1>0, <1>1, <3>3, <3>4, <4>1
        <5>2. thread.sent + Extension \in Nat /\ thread.sent \in Nat
          BY <1>0, <1>1
        <5>3. \/ thread.sent + (thread.sent + Extension) <= watch'.stopAt + Margin
              \/ lease.expires <= watch'.stopAt + Margin
          BY <2>2, <3>1, <5>1, <5>2, DeadlineOf
        <5>4. watch' # None
          BY <2>1, <2>2, <2>4, RenewedTyped, NoneAssumption
        <5> QED BY <1>0, <1>1, <3>2, <3>3, <3>4, <4>1, <5>3, <5>4 DEF RenewalsFit
      <4> QED BY <4>1
    <3>7. OnTime' /\ AnswerFits'
      BY <2>1, <3>2, <3>3 DEF OnTime, AnswerFits, NoWire
    <3> QED BY <1>0, <2>1, <2>3, <2>4, <3>1, <3>2, <3>4, <3>5, <3>6, <3>7
            DEF BackInTime, SendsBy, Renewing
  <2> QED BY <2>1, <2>4 DEF Renewing, renew_succeeded
<1>8. CASE RenewRefused
  <2>1. /\ thread.at = "sent" /\ wire.answer # None
        /\ wire.answer.outcome # "RENEWED" /\ wire' = NoWire
        /\ thread'.at = "over" /\ (watch' # None => watch # None)
        /\ UNCHANGED <<now, lag, row, late, lost>>
    BY <1>8 DEF RenewRefused, renew_refused, ThreadOver, coordinatorVars, countVars
  <2>2. AtLimit' = AtLimit
    BY <2>1 DEF AtLimit
  <2> QED BY <2>1, <2>2 DEF Renewing, OnTime, AnswerFits, BackInTime, NoWire
<1>9. CASE RenewFails
  <2>1. lost' = 0 /\ lost \in Nat =>
            /\ wire.answer # None /\ wire.answer.outcome = "closed"
            /\ UNCHANGED <<lost, late>>
    BY <1>9 DEF RenewFails
  <2>2. /\ thread.at = "sent" /\ wire' = NoWire /\ watch' = renew_failed
        /\ thread' = NextRound(held, thread.announce # 0)
        /\ UNCHANGED <<now, lag, row, held>>
    BY <1>9 DEF RenewFails, coordinatorVars
  <2>3. AtLimit' = AtLimit /\ Dead' = Dead
    BY <2>2 DEF AtLimit, Dead, coordinator_now
  <2>4. ASSUME lost' = 0, watch' # None
        PROVE  OnTime' /\ AnswerFits' /\ BackInTime'
    <3>1. watch # None /\ watch'.stopping = watch.stopping
      BY <2>2, <2>4, DisconnectedTyped DEF renew_failed
    <3>2. (thread.announce # 0) \in BOOLEAN /\ held \in SignedLeases
      BY DEF TypeOK
    <3>3. thread'.at = "wait" /\ now <= thread'.due
      BY <2>2, <3>1, <3>2, NextRoundTyped
    <3>4. AtLimit /\ Dead /\ late = None /\ UNCHANGED late
      BY <1>0, <2>1, <2>4, <3>1 DEF Renewing, OnTime, AnswerFits
    <3> QED BY <2>2, <2>3, <3>1, <3>3, <3>4 DEF OnTime, AnswerFits, BackInTime, NoWire
  <2> QED BY <2>2, <2>4 DEF Renewing
<1>10. CASE RenewRejected
  BY <1>0, <1>10 DEF RenewRejected, Renewing, coordinatorVars
<1>11. CASE self_stop_if_due
  <2>1. /\ watch # None /\ now >= watch.stopAt
        /\ watch' = [watch EXCEPT !.stopping = TRUE]
        /\ UNCHANGED <<now, lag, row, held, thread, wire, late, lost>>
    BY <1>11 DEF self_stop_if_due, Due, OnlyWatch, coordinatorVars, threadVars
  <2>2. watch'.stopAt = watch.stopAt
    BY <2>1 DEF TypeOK, Watches
  <2>3. AtLimit' = AtLimit /\ Dead' = Dead /\ SendsBy' = SendsBy
    BY <2>1 DEF AtLimit, Dead, coordinator_now, SendsBy
  <2>4. ASSUME lost = 0
        PROVE  AtLimit /\ (thread.at = "over" \/ Dead \/ Total <= now + Margin)
    BY <1>0, <1>1, <2>1, <2>4 DEF Renewing, OnTime, BackInTime, SendsBy
  <2> QED BY <2>1, <2>2, <2>3, <2>4 DEF Renewing, OnTime, AnswerFits, BackInTime
<1>12. CASE Bystander
  <2>1. /\ UNCHANGED <<now, lag, row, held, thread, wire, late, lost>>
        /\ watch' # None => /\ watch # None
                            /\ watch'.stopAt = watch.stopAt
                            /\ watch'.stopping => watch.stopping
    BY <1>12, BystanderEffect
  <2>2. AtLimit' = AtLimit /\ Dead' = Dead /\ SendsBy' = SendsBy
    BY <2>1 DEF AtLimit, Dead, coordinator_now, SendsBy
  <2> QED BY <2>1, <2>2 DEF Renewing, OnTime, AnswerFits, BackInTime
<1>13. CASE unregister
  BY <1>13 DEF unregister, Renewing, coordinatorVars
<1>14. CASE Tick
  <2>1. /\ watch # None /\ Settled /\ now' \in {now, now + 1}
        /\ UNCHANGED <<lag, row, held, thread, wire, late, watch, lost>>
    BY <1>0, <1>14, TimesAssumption DEF Tick, Least, TypeOK, coordinatorVars,
       threadVars, countVars
  <2>2. AtLimit' = AtLimit /\ SendsBy' = SendsBy /\ (Dead => Dead')
    BY <1>0, <2>1 DEF AtLimit, Dead, SendsBy
  <2>3. OnTime => OnTime'
    BY <1>0, <1>1, <2>1 DEF OnTime, Settled
  <2>4. AnswerFits => AnswerFits'
    BY <2>1, <2>2 DEF AnswerFits
  <2>5. Total <= now + Margin => Total <= now' + Margin
    <3>1. now' \in Nat /\ now \in Nat /\ now <= now'
      BY <1>0, <2>1
    <3>2. \A a, b \in Nat : a <= b /\ Total <= a + Margin => Total <= b + Margin
      BY <1>1
    <3> QED BY <3>1, <3>2
  <2>6. BackInTime => BackInTime'
    BY <2>1, <2>2, <2>5 DEF BackInTime
  <2> QED BY <2>1, <2>3, <2>4, <2>6 DEF Renewing
<1> QED
  BY <1>2, <1>3, <1>4, <1>5, <1>6, <1>7, <1>8, <1>9, <1>10, <1>11, <1>12, <1>13,
     <1>14 DEF Next, ThreadStep, WatcherStep, Bystander

LEMMA RenewingInit ==
    ASSUME Init, RenewalsFit
    PROVE  Renewing
<1>0. TypeOK /\ Numbers
  BY InitTyped, NumbersTyped
<1>1. /\ Extension \in Nat /\ Total \in Nat /\ Margin \in Nat /\ Interval \in Nat
      /\ IoTimeout \in Nat
  BY TimesAssumption
<1> DEFINE length == Least(Extension, Total)
<1>2. /\ FirstLease \in SignedLeases /\ FirstLease.issued = lag
      /\ FirstLease.expires = lag + length /\ length \in Nat
  BY <1>1, FirstLeaseTyped DEF Init, Least
<1>3. /\ row.issued = lag /\ row.expires = lag + length /\ held.expires = row.expires
      /\ ~ row.revoked
  BY <1>2 DEF Init
<1>4. thread.at = "wait" /\ thread.due = RenewWait(FirstLease) /\ now = 0
  BY DEF Init
<1>5. thread.due <= Interval
  BY <1>0, <1>2, <1>4, WaitNat
<1>6. /\ watch # None
      /\ watch.stopAt = disconnect_self_stop_at(FirstLease, 0) /\ ~ watch.stopping
  <2>1. watch # None
    BY InitTyped, NoneAssumption DEF Init, Tidy, WorkTidy
  <2> QED BY <2>1 DEF Init
<1>7. \/ 0 + length <= watch.stopAt + Margin
      \/ FirstLease.expires <= watch.stopAt + Margin
  <2>1. FirstLease.issued + length <= FirstLease.expires /\ 0 \in Nat
    BY <1>0, <1>2 DEF Numbers
  <2> HIDE DEF length
  <2> QED BY <1>2, <1>6, <2>1, DeadlineOf
<1>8. length <= watch.stopAt + Margin
  <2> HIDE DEF length
  <2> QED BY <1>0, <1>1, <1>2, <1>6, <1>7 DEF Numbers
<1>9. AtLimit \/ length = Extension
  BY <1>0, <1>1, <1>3 DEF AtLimit, Least, Numbers
<1>10. length = Total \/ length = Extension
  BY DEF Least
<1> HIDE DEF length
<1>11. OnTime /\ AnswerFits
  BY <1>0, <1>4 DEF Init, NoWire, OnTime, AnswerFits, Numbers
<1>12. length = Extension =>
           /\ thread.due + IoTimeout < watch.stopAt
           /\ thread.due + IoTimeout + lag < row.expires
  BY <1>0, <1>1, <1>3, <1>5, <1>6, <1>8 DEF Numbers, RenewalsFit
<1>13. BackInTime
  BY <1>3, <1>4, <1>6, <1>8, <1>9, <1>10, <1>12 DEF BackInTime, SendsBy
<1> QED BY <1>3, <1>11, <1>13 DEF Renewing

LEMMA RenewingStutter ==
    ASSUME Renewing, UNCHANGED vars
    PROVE  Renewing'
  BY DEF vars, coordinatorVars, threadVars, workVars, panelVars, countVars, Renewing,
     OnTime, AnswerFits, BackInTime, AtLimit, Dead, SendsBy, coordinator_now

(***************************************************************************)
(* Where the times fit: while every request is answered in time, the       *)
(* watcher decides to stop the work only after the lease was renewed up to *)
(* its total duration; and work that its owner keeps is stopped only after *)
(* a refusal.                                                              *)
(***************************************************************************)
THEOREM StopsForCause ==
    ASSUME RenewalsFit
    PROVE  Spec => []StoppedForCause
<1>1. Init => Renewing
  BY RenewingInit
<1>2. (TypeOK /\ Tidy) /\ (TypeOK /\ Tidy)' /\ Renewing /\ [Next]_vars => Renewing'
  BY RenewingStep, RenewingStutter
<1>3. TypeOK /\ Tidy /\ Renewing => StoppedForCause
  BY DEF Tidy, ChoiceKept, Renewing, BackInTime, AtLimit, StoppedForCause
<1> QED BY <1>1, <1>2, <1>3, TypeInvariance, PTL DEF Spec

-----------------------------------------------------------------------------
(* Never two nodes at once.                                                *)

(***************************************************************************)
(* The conditions: absences are not announced (with them two nodes may     *)
(* overlap, see AnnouncedLeaseKept), and the grace covers half of every    *)
(* lag that the margin covers, which is what the node does not know of     *)
(* when a short lease halves its margin.                                   *)
(***************************************************************************)
NoAnnouncements == PlannedMax = 0
Grace == Greatest(PolicyGrace, SignedGrace)
GraceCoversLag == \A l \in Lags : l <= Margin => l \div 2 <= Grace

(***************************************************************************)
(* A later renewal, sent later, moves the deadlines of the watch later.    *)
(***************************************************************************)
LEMMA BaseIs ==
    ASSUME NEW lease \in SignedLeases, NEW sent \in Nat,
           lease.issued <= lease.expires
    PROVE  LET base == SignedBase(lease, sent)
               full == sent + lease.expires - lease.issued
           IN  /\ base \in Nat /\ base \in {full, lease.expires}
               /\ base <= full /\ base <= lease.expires
<1>1. lease.expires \in Nat /\ lease.issued \in Nat
  BY DEF SignedLeases
<1>2. Minus(lease.expires, lease.issued) = lease.expires - lease.issued
  BY <1>1 DEF Minus, Greatest
<1> QED BY <1>1, <1>2 DEF SignedBase, Least

LEMMA StopMonotone ==
    ASSUME NEW a \in SignedLeases, NEW b \in SignedLeases,
           NEW s \in Nat, NEW t \in Nat, s <= t, a.issued = b.issued,
           a.issued <= a.expires, a.expires <= b.expires
    PROVE  /\ SignedBase(a, s) + (b.expires - a.expires) <= SignedBase(b, t)
           /\ disconnect_self_stop_at(a, s) <= disconnect_self_stop_at(b, t)
<1> DEFINE base1 == SignedBase(a, s)
           base2 == SignedBase(b, t)
           left1 == Minus(base1, s)
           left2 == Minus(base2, t)
           cut1 == Least(Margin, left1 \div 2)
           cut2 == Least(Margin, left2 \div 2)
           d == b.expires - a.expires
<1>1. /\ a.expires \in Nat /\ b.expires \in Nat /\ a.issued \in Nat /\ Margin \in Nat
      /\ b.issued <= b.expires
  BY TimesAssumption DEF SignedLeases
<1>2. /\ base1 \in Nat /\ base1 \in {s + a.expires - a.issued, a.expires}
      /\ base1 <= s + a.expires - a.issued /\ base1 <= a.expires
      /\ base2 \in Nat /\ base2 \in {t + b.expires - b.issued, b.expires}
      /\ base2 <= t + b.expires - b.issued /\ base2 <= b.expires
  BY <1>1, BaseIs
<1>3. /\ disconnect_self_stop_at(a, s) = Minus(base1, cut1)
      /\ disconnect_self_stop_at(b, t) = Minus(base2, cut2)
  BY DEF disconnect_self_stop_at
<1> HIDE DEF base1, base2
<1>4. d \in Nat /\ base1 + d <= base2
  BY <1>1, <1>2
<1>5. left1 \in Nat /\ left2 \in Nat /\ left2 <= left1 + d
  BY <1>1, <1>2 DEF Minus, Greatest
<1> HIDE DEF left1, left2, d
<1>6. /\ left1 \div 2 \in Nat /\ left2 \div 2 \in Nat
      /\ left2 \div 2 <= (left1 \div 2) + d
  <2>1. /\ left1 \div 2 \in Nat /\ left1 <= 2 * (left1 \div 2) + 1
        /\ left2 \div 2 \in Nat /\ 2 * (left2 \div 2) <= left2
    BY <1>5, HalfNat
  <2> QED BY <1>4, <1>5, <2>1
<1>7. cut1 \in Nat /\ cut2 \in Nat /\ cut2 <= cut1 + d
  BY <1>1, <1>4, <1>6 DEF Least
<1> HIDE DEF cut1, cut2
<1>8. Minus(base1, cut1) <= Minus(base2, cut2)
  BY <1>2, <1>4, <1>7 DEF Minus, Greatest
<1> QED BY <1>3, <1>4, <1>8 DEF base1, base2, d

LEMMA HoldMonotone ==
    ASSUME NEW a \in SignedLeases, NEW b \in SignedLeases,
           NEW s \in Nat, NEW t \in Nat, s <= t,
           a.issued = b.issued, a.grace = b.grace,
           a.issued <= a.expires, a.expires <= b.expires
    PROVE  near_finish_stop_at(a, s) <= near_finish_stop_at(b, t)
<1> DEFINE base1 == SignedBase(a, s)
           base2 == SignedBase(b, t)
           extra1 == Least(a.grace, Minus(a.issued + Total, a.expires))
           extra2 == Least(b.grace, Minus(b.issued + Total, b.expires))
           stop1 == disconnect_self_stop_at(a, s)
           stop2 == disconnect_self_stop_at(b, t)
<1>1. /\ a.expires \in Nat /\ b.expires \in Nat /\ a.issued \in Nat /\ a.grace \in Nat
      /\ Margin \in Nat /\ Total \in Nat
  BY TimesAssumption DEF SignedLeases
<1>2. base1 \in Nat /\ base2 \in Nat /\ stop1 \in Nat /\ stop2 \in Nat
  BY BaseNat, StopAtNat
<1>3. base1 + (b.expires - a.expires) <= base2 /\ stop1 <= stop2
  BY StopMonotone
<1>4. /\ near_finish_stop_at(a, s) = Greatest(Minus(base1 + extra1, Margin), stop1)
      /\ near_finish_stop_at(b, t) = Greatest(Minus(base2 + extra2, Margin), stop2)
  BY DEF near_finish_stop_at
<1>5. /\ extra1 \in Nat /\ extra2 \in Nat
      /\ extra1 <= extra2 + (b.expires - a.expires)
  BY <1>1 DEF Least, Minus, Greatest
<1> HIDE DEF base1, base2, extra1, extra2, stop1, stop2
<1>6. base1 + extra1 <= base2 + extra2
  BY <1>1, <1>2, <1>3, <1>5
<1>7. /\ Minus(base1 + extra1, Margin) \in Nat /\ Minus(base2 + extra2, Margin) \in Nat
      /\ Minus(base1 + extra1, Margin) <= Minus(base2 + extra2, Margin)
  BY <1>1, <1>2, <1>5, <1>6 DEF Minus, Greatest
<1>8. Greatest(Minus(base1 + extra1, Margin), stop1)
          <= Greatest(Minus(base2 + extra2, Margin), stop2)
  BY <1>2, <1>3, <1>7 DEF Greatest
<1> QED BY <1>4, <1>8

(***************************************************************************)
(* The last moment the watch lets work go on, on the coordinator's clock.  *)
(***************************************************************************)
LEMMA HoldBound ==
    ASSUME NEW lease \in SignedLeases, NEW sent \in Nat,
           sent + lease.issued < lease.expires, lease.issued <= Margin,
           NEW grace \in Nat, lease.grace <= grace, lease.issued \div 2 <= grace
    PROVE  near_finish_stop_at(lease, sent) + lease.issued <= lease.expires + grace
<1> DEFINE base == SignedBase(lease, sent)
           extra == Least(lease.grace, Minus(lease.issued + Total, lease.expires))
           left == Minus(base, sent)
           cut == Least(Margin, left \div 2)
<1>1. /\ lease.expires \in Nat /\ lease.issued \in Nat /\ lease.grace \in Nat
      /\ Margin \in Nat /\ Total \in Nat
  BY TimesAssumption DEF SignedLeases
<1>2. /\ base \in Nat
      /\ base \in {sent + lease.expires - lease.issued, lease.expires}
      /\ base <= sent + lease.expires - lease.issued /\ base <= lease.expires
  BY <1>1, BaseIs
<1>3. near_finish_stop_at(lease, sent)
          = Greatest(Minus(base + extra, Margin), Minus(base, cut))
  BY DEF near_finish_stop_at, disconnect_self_stop_at
<1>4. extra \in Nat /\ extra <= lease.grace
  BY <1>1 DEF Least, Minus, Greatest
<1> HIDE DEF base, extra
<1>5. /\ Minus(base + extra, Margin) \in Nat
      /\ Minus(base + extra, Margin) + lease.issued <= lease.expires + grace
  BY <1>1, <1>2, <1>4 DEF Minus, Greatest
<1>6. left \in Nat /\ (left = base - sent \/ (left = 0 /\ base <= sent))
  <2>1. base - sent \in Int
    BY <1>2
  <2> QED BY <1>2, <2>1 DEF Minus, Greatest
<1> HIDE DEF left
<1>7. /\ left \div 2 \in Nat /\ left <= 2 * (left \div 2) + 1
      /\ lease.issued \div 2 \in Nat
      /\ lease.issued <= 2 * (lease.issued \div 2) + 1
  BY <1>1, <1>6, HalfNat
<1> DEFINE half == left \div 2
           lagHalf == lease.issued \div 2
<1>8. /\ half \in Nat /\ left <= 2 * half + 1 /\ lagHalf \in Nat
      /\ lease.issued <= 2 * lagHalf + 1 /\ lagHalf <= grace
  BY <1>7
<1>9. cut \in {Margin, half}
  BY DEF Least
<1> HIDE DEF half, lagHalf, cut
<1>10. base + lease.issued <= lease.expires + grace + cut
  <2>1. CASE cut = Margin
    BY <1>1, <1>2, <2>1
  <2>2. CASE cut = half /\ base = lease.expires
    <3>1. left = lease.expires - sent /\ lease.issued + 1 <= left
      BY <1>1, <1>2, <1>6, <2>2
    <3> QED BY <1>1, <1>8, <2>2, <3>1
  <2>3. CASE cut = half /\ base = sent + lease.expires - lease.issued
    <3>1. left = lease.expires - lease.issued /\ sent + 1 <= left
      BY <1>1, <1>2, <1>6, <2>3
    <3>2. sent <= lease.issued
      BY <1>1, <1>2, <2>3
    <3> QED BY <1>1, <1>8, <2>3, <3>1, <3>2
  <2> QED BY <1>2, <1>9, <2>1, <2>2, <2>3
<1>11. cut \in Nat
  BY <1>1, <1>8, <1>9
<1>12. /\ Minus(base, cut) \in Nat
       /\ Minus(base, cut) + lease.issued <= lease.expires + grace
  BY <1>1, <1>2, <1>10, <1>11 DEF Minus, Greatest
<1>13. Greatest(Minus(base + extra, Margin), Minus(base, cut)) + lease.issued
           <= lease.expires + grace
  BY <1>5, <1>12 DEF Greatest
<1> QED BY <1>3, <1>13

(***************************************************************************)
(* Without announcements a lease only grows: the thread holds no more than *)
(* is stored, an answer lies between the two, and the deadline of the      *)
(* watch was derived from no more than the lease the thread holds, which   *)
(* had not ended when its renewal was sent.                                *)
(***************************************************************************)
RowGrows ==
    /\ row.issued = lag /\ row.grace = SignedGrace
    /\ row.expires <= coordinator_now + Extension /\ row.expires <= lag + Total

LeaseUnder(lease) ==
    /\ lease.issued = lag /\ lease.grace = SignedGrace
    /\ lease.expires <= row.expires

HeldGrows == LeaseUnder(held)

AnswerGrows ==
    wire.answer # None /\ wire.answer.outcome = "RENEWED" =>
        /\ LeaseUnder(wire.answer.lease)
        /\ held.expires <= wire.answer.lease.expires
        /\ thread.sent + lag < wire.answer.lease.expires

WatchCovered ==
    watch # None =>
        \E s \in 0 .. now :
            /\ thread.at = "sent" => s <= thread.sent
            /\ s + lag < held.expires
            /\ watch.holdAt <= near_finish_stop_at(held, s)

\* The failover waited for the grace, and nothing renews the lease since.
TakenLate == taken # None => row.revoked /\ coordinator_now > row.expires + Grace

LeasesGrow == RowGrows /\ HeldGrows /\ AnswerGrows /\ WatchCovered /\ TakenLate

(***************************************************************************)
(* The watcher lets no work that it has seen go on past the deadline.      *)
(***************************************************************************)
StoppedInTime ==
    /\ work.at = "starting" => ~ work.seen
    /\ watch # None /\ fails = 0 =>
          (Alive /\ work.seen /\ watch.choice = "Auto" =>
               /\ now <= watch.holdAt
               /\ looked => now < watch.holdAt)

LEMMA LeasesGrowStep ==
    ASSUME TypeOK, Tidy, LeasesGrow, TypeOK', Next, NoAnnouncements
    PROVE  LeasesGrow'
<1>0. Numbers /\ Numbers'
  BY NumbersTyped, PTL
<1> USE DEF Numbers, LeasesGrow
<1>1. /\ Extension \in Nat /\ Total \in Nat /\ SignedGrace \in Nat
      /\ PolicyGrace \in Nat /\ Grace \in Nat
  BY TimesAssumption DEF Grace, Greatest
\* A renewal that is granted sets the row no lower than it was.
<1>2. ASSUME NEW until \in Nat, Grants(SessionResult(until), until),
             row' = SessionResult(until).row, UNCHANGED <<now, lag>>
      PROVE  /\ RowGrows' /\ row.expires <= row'.expires /\ ~ row.revoked
             /\ row.expires > coordinator_now /\ row'.revoked = row.revoked
  <2> DEFINE ext == announced_renew_extension_ms(until)
  <2>1. /\ ~ row.revoked /\ row.expires > coordinator_now
        /\ row.issued + Total > coordinator_now /\ row' = Renewed(until)
    BY <1>2 DEF Grants
  <2>2. /\ row'.issued = row.issued /\ row'.expires = coordinator_now + ext
        /\ row'.revoked = row.revoked /\ row'.grace = Greatest(row.grace, SignedGrace)
    BY <1>2, <2>1, RenewedRow
  <2>3. ext = Least(Extension, row.issued + Total - coordinator_now)
    BY <1>0, <1>1, <1>2, <2>1, ExtensionNat DEF NoAnnouncements
  <2> HIDE DEF ext
  <2>4. coordinator_now' = coordinator_now
    BY <1>2 DEF coordinator_now
  <2>5. row'.grace = SignedGrace
    BY <1>1, <2>2 DEF RowGrows, Greatest
  <2>6. /\ row'.expires <= coordinator_now + Extension
        /\ row'.expires <= lag + Total /\ row.expires <= row'.expires
    BY <1>0, <1>1, <2>1, <2>2, <2>3 DEF RowGrows, Least
  <2> QED BY <1>2, <2>1, <2>2, <2>4, <2>5, <2>6 DEF RowGrows
<1>3. CASE serve_renew_session
  <2>1. /\ wire.request \in Nat /\ thread.at = "sent"
        /\ row' = SessionResult(wire.request).row
        /\ wire'.answer = SessionResult(wire.request).answer
        /\ UNCHANGED <<now, lag, taken, held, thread, watch>>
    BY <1>0, <1>3 DEF serve_renew_session, ThreadTidy, Tidy, NoWire, TypeOK, Wires
  <2>2. coordinator_now' = coordinator_now
    BY <2>1 DEF coordinator_now
  <2>3. CASE Refuses(SessionResult(wire.request))
    <3>1. row' = row /\ wire'.answer.outcome # "RENEWED"
      BY <2>1, <2>3 DEF Refuses
    <3> QED BY <2>1, <2>2, <3>1 DEF RowGrows, HeldGrows, AnswerGrows, LeaseUnder,
            WatchCovered, TakenLate
  <2>4. CASE Grants(SessionResult(wire.request), wire.request)
    <3>1. /\ RowGrows' /\ row.expires <= row'.expires /\ ~ row.revoked
          /\ row.expires > coordinator_now
      BY <1>2, <2>1, <2>4
    <3>2. wire'.answer = Answer("RENEWED", Signed(row'))
      BY <2>1, <2>4 DEF Grants
    <3>3. /\ wire'.answer.lease.issued = row'.issued
          /\ wire'.answer.lease.expires = row'.expires
          /\ wire'.answer.lease.grace = row'.grace
      BY <3>2 DEF Answer, Signed
    <3>4. held'.expires <= row'.expires
      BY <1>0, <2>1, <3>1 DEF HeldGrows, LeaseUnder
    <3>5. thread'.sent + lag' < row'.expires
      BY <1>0, <2>1, <3>1 DEF Tidy, ThreadTidy
    <3>6. HeldGrows' /\ AnswerGrows'
      BY <1>0, <2>1, <3>1, <3>3, <3>4, <3>5
         DEF RowGrows, HeldGrows, AnswerGrows, LeaseUnder
    <3> QED BY <2>1, <3>1, <3>6 DEF WatchCovered, TakenLate
  <2> QED BY <2>1, <2>3, <2>4, SessionOutcome
<1>4. CASE serve_late_request
  <2>1. /\ late \in Nat /\ row' = SessionResult(late).row
        /\ UNCHANGED <<now, lag, taken, held, thread, wire, watch>>
    BY <1>4 DEF serve_late_request, TypeOK
  <2>2. coordinator_now' = coordinator_now
    BY <2>1 DEF coordinator_now
  <2>3. CASE Refuses(SessionResult(late))
    <3>1. row' = row
      BY <2>1, <2>3 DEF Refuses
    <3> QED BY <2>1, <2>2, <3>1 DEF RowGrows, HeldGrows, AnswerGrows, LeaseUnder,
            WatchCovered, TakenLate
  <2>4. CASE Grants(SessionResult(late), late)
    <3>1. RowGrows' /\ row.expires <= row'.expires /\ ~ row.revoked
      BY <1>2, <2>1, <2>4
    <3>2. HeldGrows'
      BY <1>0, <2>1, <3>1 DEF HeldGrows, LeaseUnder
    <3>3. AnswerGrows'
      <4>1. CASE wire.answer # None /\ wire.answer.outcome = "RENEWED"
        <5>1. wire.answer.lease.expires \in Nat
          BY <4>1 DEF TypeOK, Wires, Answers, SignedLeases
        <5> QED BY <1>0, <2>1, <3>1, <4>1, <5>1 DEF AnswerGrows, LeaseUnder
      <4> QED BY <2>1, <4>1 DEF AnswerGrows
    <3> QED BY <2>1, <3>1, <3>2, <3>3 DEF WatchCovered, TakenLate
  <2> QED BY <2>1, <2>3, <2>4, SessionOutcome
<1>5. CASE failover_lost_attempts
  <2>1. /\ row'.issued = row.issued /\ row'.expires = row.expires
        /\ row'.grace = row.grace /\ row'.revoked
        /\ coordinator_now > row.expires + Greatest(PolicyGrace, row.grace)
        /\ UNCHANGED <<now, lag, held, thread, wire, watch>>
    BY <1>5 DEF failover_lost_attempts, threadVars, TypeOK, StoredLeases
  <2>2. coordinator_now' = coordinator_now
    BY <2>1 DEF coordinator_now
  <2> QED BY <2>1, <2>2 DEF RowGrows, HeldGrows, AnswerGrows, LeaseUnder,
          WatchCovered, TakenLate, Grace
<1>6. ASSUME UNCHANGED <<now, lag, row, taken, held>>,
             wire'.answer = None, watch' # None => watch # None,
             watch' # None => watch'.holdAt = watch.holdAt,
             thread'.at = "sent" => thread'.sent = now
      PROVE  LeasesGrow'
  <2>1. coordinator_now' = coordinator_now
    BY <1>6 DEF coordinator_now
  <2>2. WatchCovered'
    BY <1>0, <1>6 DEF WatchCovered
  <2> QED BY <1>6, <2>1, <2>2 DEF RowGrows, HeldGrows, AnswerGrows, LeaseUnder,
          TakenLate
<1>7. CASE LocalExpired
  <2>1. /\ UNCHANGED <<now, lag, row, taken, held>> /\ wire' = NoWire
        /\ thread'.at = "over"
    BY <1>7 DEF LocalExpired, ThreadOver, Tidy, ThreadTidy, coordinatorVars
  <2>2. watch' # None => watch # None /\ watch'.holdAt = watch.holdAt
    BY <1>7, RefusedTyped, DisconnectedTyped DEF LocalExpired
  <2> QED BY <1>6, <2>1, <2>2 DEF NoWire
<1>8. CASE renew_once_over_new_connection
  BY <1>6, <1>8 DEF renew_once_over_new_connection, coordinatorVars, TypeOK, Threads
<1>9. CASE RenewSucceeds
  <2> DEFINE lease == wire.answer.lease
  <2>1. /\ thread.at = "sent" /\ wire.answer # None
        /\ wire.answer.outcome = "RENEWED" /\ wire' = NoWire
        /\ held' = lease /\ watch' = renew_succeeded(lease)
        /\ thread' = NextRound(lease, FALSE)
        /\ UNCHANGED <<now, lag, row, taken>>
    BY <1>9 DEF RenewSucceeds, coordinatorVars
  <2>2. lease \in SignedLeases
    BY <2>1 DEF TypeOK, Wires, Answers
  <2>3. LeaseUnder(lease) /\ thread.sent + lag < lease.expires
    BY <2>1 DEF AnswerGrows
  <2>4. coordinator_now' = coordinator_now
    BY <2>1 DEF coordinator_now
  <2>5. thread'.at # "sent" /\ thread.sent <= now
    BY <2>1, <2>2, NextRoundTyped DEF Tidy, ThreadTidy
  <2> HIDE DEF lease
  <2>6. WatchCovered'
    <3>1. CASE watch = None
      BY <2>1, <3>1 DEF WatchCovered, renew_succeeded
    <3>2. CASE watch # None
      <4>1. watch'.holdAt = near_finish_stop_at(lease, thread.sent)
        BY <2>1, <2>2, <3>2, RenewedTyped
      <4>2. near_finish_stop_at(lease, thread.sent) \in Nat
        BY <1>0, <2>2, HoldAtNat
      <4>3. thread.sent \in 0 .. now'
        BY <1>0, <2>1, <2>5
      <4>4. near_finish_stop_at(held', thread.sent)
                = near_finish_stop_at(lease, thread.sent)
        BY <2>1
      <4> HIDE DEF lease
      <4>5. /\ thread.sent + lag' < held'.expires
            /\ watch'.holdAt <= near_finish_stop_at(held', thread.sent)
        BY <2>1, <2>3, <4>1, <4>2, <4>4
      <4> QED BY <2>5, <4>3, <4>5 DEF WatchCovered
    <3> QED BY <3>1, <3>2
  <2> QED BY <2>1, <2>3, <2>4, <2>6 DEF RowGrows, HeldGrows, AnswerGrows, LeaseUnder,
          TakenLate, NoWire
<1>10. CASE RenewRefused \/ RenewFails \/ RenewRejected
  <2>1. /\ UNCHANGED <<now, lag, row, taken, held>> /\ wire' = NoWire
    BY <1>10 DEF RenewRefused, RenewFails, RenewRejected, coordinatorVars
  <2>2. thread'.at # "sent"
    <3>1. (thread.announce # 0) \in BOOLEAN /\ held \in SignedLeases
      BY DEF TypeOK
    <3>2. NextRound(held, thread.announce # 0).at # "sent" /\ ThreadOver.at # "sent"
      BY <3>1, NextRoundTyped DEF ThreadOver
    <3> QED BY <1>10, <3>2 DEF RenewRefused, RenewFails, RenewRejected
  <2>3. watch' # None => watch # None /\ watch'.holdAt = watch.holdAt
    BY <1>10, RefusedTyped, DisconnectedTyped
       DEF RenewRefused, RenewFails, RenewRejected, renew_refused, renew_failed
  <2> QED BY <1>6, <2>1, <2>2, <2>3 DEF NoWire
<1>11. ASSUME UNCHANGED <<lag, row, taken, held, thread, wire>>,
              now' \in Nat, now <= now', watch' # None => watch # None,
              watch' # None => watch'.holdAt = watch.holdAt
       PROVE  LeasesGrow'
  <2>1. coordinator_now <= coordinator_now'
    <3>1. coordinator_now = now + lag /\ coordinator_now' = now' + lag
      BY <1>11 DEF coordinator_now
    <3>2. \A a, b \in Nat : a <= b => a + lag <= b + lag
      BY <1>0
    <3> QED BY <1>0, <1>11, <3>1, <3>2
  <2>2. WatchCovered'
    BY <1>0, <1>11 DEF WatchCovered
  <2>3. RowGrows' /\ TakenLate'
    BY <1>0, <1>1, <1>11, <2>1 DEF RowGrows, TakenLate
  <2> QED BY <1>11, <2>2, <2>3 DEF HeldGrows, AnswerGrows, LeaseUnder
<1>12. CASE Bystander \/ self_stop_if_due
  <2>1. /\ UNCHANGED <<now, lag, row, taken, held, thread, wire>>
        /\ watch' # None => watch # None /\ watch'.holdAt = watch.holdAt
    <3>1. CASE Bystander
      BY <3>1, BystanderEffect
    <3>2. CASE self_stop_if_due
      BY <3>2 DEF self_stop_if_due, OnlyWatch, coordinatorVars, threadVars, TypeOK,
         Watches
    <3> QED BY <1>12, <3>1, <3>2
  <2> QED BY <1>0, <1>11, <2>1
<1>13. CASE unregister
  <2>1. /\ UNCHANGED <<now, lag, row, taken, held, wire>> /\ watch' = None
        /\ wire.answer # None => thread' = thread
    BY <1>13 DEF unregister, coordinatorVars, Tidy, ThreadTidy, NoWire
  <2>2. coordinator_now' = coordinator_now
    BY <2>1 DEF coordinator_now
  <2> QED BY <2>1, <2>2 DEF RowGrows, HeldGrows, AnswerGrows, LeaseUnder,
          WatchCovered, TakenLate
<1>14. CASE Tick
  <2>1. now' \in Nat /\ now <= now'
    BY <1>0, <1>14, TimesAssumption DEF Tick, Least, TypeOK
  <2> QED BY <1>11, <1>14, <2>1 DEF Tick, coordinatorVars, threadVars
<1> QED
  BY <1>3, <1>4, <1>5, <1>7, <1>8, <1>9, <1>10, <1>12, <1>13, <1>14
     DEF Next, ThreadStep, WatcherStep, Bystander

LEMMA StoppedInTimeStep ==
    ASSUME TypeOK, Tidy, LeasesGrow, StoppedInTime, TypeOK', Next
    PROVE  StoppedInTime'
<1>0. /\ Numbers /\ Numbers' /\ work \in Works /\ fails \in Nat /\ fails' \in Nat
      /\ registered \in BOOLEAN /\ looked \in BOOLEAN
  <2>1. Numbers /\ Numbers'
    BY NumbersTyped, PTL
  <2> QED BY <2>1 DEF TypeOK
<1> USE DEF Numbers
<1>1. watch' # None => watch' \in Watches
  BY DEF TypeOK
\* A step that moves no deadline back and lets the watcher look again.
<1>2. ASSUME UNCHANGED now, work'.at = work.at, work'.seen = work.seen,
             fails <= fails', looked' => looked,
             watch' # None => /\ watch # None /\ watch.holdAt <= watch'.holdAt
                              /\ watch'.choice = watch.choice
      PROVE  StoppedInTime'
  BY <1>0, <1>2 DEF StoppedInTime, Alive
<1>3. CASE \/ serve_renew_session \/ serve_late_request \/ failover_lost_attempts
           \/ renew_once_over_new_connection
  <2>1. UNCHANGED <<now, work, fails, looked, watch>>
    BY <1>3 DEF serve_renew_session, serve_late_request, failover_lost_attempts,
       renew_once_over_new_connection, workVars, countVars
  <2> QED BY <1>0, <1>2, <2>1
<1>4. CASE LocalExpired
  <2>1. UNCHANGED <<now, work, fails>> /\ ~ looked'
    BY <1>4 DEF LocalExpired, workVars, countVars
  <2>2. watch' # None => /\ watch # None /\ watch'.holdAt = watch.holdAt
                         /\ watch'.choice = watch.choice
    BY <1>4, RefusedTyped, DisconnectedTyped DEF LocalExpired
  <2> QED BY <1>0, <1>2, <2>1, <2>2
<1>5. CASE RenewRefused \/ RenewFails \/ RenewRejected
  <2>1. UNCHANGED <<now, work, fails>> /\ (looked' => looked)
    BY <1>5 DEF RenewRefused, RenewFails, RenewRejected, workVars, countVars
  <2>2. watch' # None => /\ watch # None /\ watch'.holdAt = watch.holdAt
                         /\ watch'.choice = watch.choice
    BY <1>5, RefusedTyped, DisconnectedTyped
       DEF RenewRefused, RenewFails, RenewRejected, renew_refused, renew_failed
  <2> QED BY <1>0, <1>2, <2>1, <2>2
<1>6. CASE RenewSucceeds
  <2> DEFINE lease == wire.answer.lease
  <2>1. /\ thread.at = "sent" /\ wire.answer # None
        /\ wire.answer.outcome = "RENEWED" /\ watch' = renew_succeeded(lease)
        /\ UNCHANGED <<now, work, fails, looked>>
    BY <1>6 DEF RenewSucceeds, workVars, countVars
  <2>2. lease \in SignedLeases /\ held \in SignedLeases
    BY <2>1 DEF TypeOK, Wires, Answers
  <2>3. /\ lease.issued = lag /\ lease.grace = SignedGrace
        /\ held.issued = lag /\ held.grace = SignedGrace
        /\ held.expires <= lease.expires
    BY <2>1 DEF LeasesGrow, AnswerGrows, HeldGrows, LeaseUnder
  <2> HIDE DEF lease
  <2>4. ASSUME watch # None
        PROVE  watch'.choice = watch.choice /\ watch.holdAt <= watch'.holdAt
    <3>1. /\ watch'.holdAt = near_finish_stop_at(lease, thread.sent)
          /\ watch'.choice = watch.choice
      BY <2>1, <2>2, <2>4, RenewedTyped
    <3>2. PICK t \in 0 .. now :
              /\ t <= thread.sent /\ t + lag < held.expires
              /\ watch.holdAt <= near_finish_stop_at(held, t)
      BY <2>1, <2>4 DEF LeasesGrow, WatchCovered
    <3>3. t \in Nat /\ held.issued <= held.expires
      BY <1>0, <2>3, <3>2
    <3>4. near_finish_stop_at(held, t) <= near_finish_stop_at(lease, thread.sent)
      BY <1>0, <2>2, <2>3, <3>2, <3>3, HoldMonotone
    <3>5. /\ near_finish_stop_at(held, t) \in Nat
          /\ near_finish_stop_at(lease, thread.sent) \in Nat
      BY <1>0, <2>2, <3>3, HoldAtNat
    <3> QED BY <1>0, <2>4, <3>1, <3>2, <3>4, <3>5
  <2>5. watch' # None => watch # None
    BY <2>1 DEF renew_succeeded
  <2> QED BY <1>0, <1>2, <2>1, <2>4, <2>5
\* What the watcher lets go on has not reached its deadline.
<1>7. CASE near_finish_hold \/ LooksAway
  <2>1. /\ watch # None /\ UNCHANGED <<now, watch, fails>> /\ work'.at = work.at
        /\ work'.seen = registered
        /\ MayHold \/ (~ Due /\ ~ watch.stopping)
    BY <1>0, <1>7 DEF near_finish_hold, LooksAway, OnlyWatch, Works
  <2>2. Alive /\ watch.choice = "Auto" => now < watch.holdAt
    BY <1>0, <2>1 DEF MayHold, Due, Tidy, WorkTidy, Alive
  <2> QED BY <1>0, <2>1, <2>2 DEF StoppedInTime, Alive, Tidy, WorkTidy
<1>8. CASE self_stop_if_due
  <2>1. /\ watch # None /\ watch' = [watch EXCEPT !.stopping = TRUE]
        /\ UNCHANGED <<now, work, fails, looked>>
    BY <1>8 DEF self_stop_if_due, OnlyWatch
  <2>2. watch'.holdAt = watch.holdAt /\ watch'.choice = watch.choice
    BY <2>1 DEF TypeOK, Watches
  <2> QED BY <1>0, <1>2, <2>1, <2>2
<1>9. ASSUME NEW ok \in BOOLEAN, StopCommand(ok)
      PROVE  StoppedInTime'
  <2>1. /\ work'.at \in {work.at, "exited"} /\ work.at # "starting"
        /\ work'.at # "running" \/ fails' > 0
    BY <1>9, StopEffect
  <2> QED BY <1>0, <2>1 DEF StoppedInTime, Alive
<1>10. CASE WatcherStops
  <2>1. PICK ok \in BOOLEAN :
            /\ IF registered THEN StopCommand(ok)
               ELSE ok = FALSE /\ UNCHANGED <<work, stopper, fails>>
            /\ watch' = Noted(ok)
    BY <1>10 DEF WatcherStops
  <2>2. CASE registered
    BY <1>9, <2>1, <2>2
  <2>3. CASE ~ registered
    BY <2>1, <2>3 DEF StoppedInTime, Alive, Tidy, WorkTidy
  <2> QED BY <1>0, <2>2, <2>3
<1>11. CASE OwnerStops \/ ResumeStops
  BY <1>9, <1>11 DEF OwnerStops, ResumeStops
<1>12. CASE pause \/ ResumeThaws \/ ResumeRefreezes
  <2>1. \E frozen \in BOOLEAN, ok \in BOOLEAN : SetFrozen(frozen, ok)
    BY <1>12 DEF pause, ResumeThaws, ResumeRefreezes
  <2>2. UNCHANGED <<now, watch, looked>>
    BY <1>12 DEF pause, ResumeThaws, ResumeRefreezes, OnlyPanel
  <2>3. work'.at = work.at /\ work'.seen = work.seen /\ fails <= fails'
    BY <2>1, FreezeEffect DEF CommandTyped
  <2> QED BY <1>0, <1>2, <2>2, <2>3
<1>13. CASE keep_running
  <2>1. /\ watch # None /\ watch' = [watch EXCEPT !.choice = "KeepRunning"]
        /\ UNCHANGED <<now, work, fails, looked>>
    BY <1>13 DEF keep_running, Asks, OnlyPanel
  <2>2. watch'.choice = "KeepRunning"
    BY <2>1 DEF TypeOK, Watches
  <2> QED BY <2>1, <2>2 DEF StoppedInTime
<1>14. CASE \/ announce_disconnect \/ ResumeBegins \/ ResumeAllowedStill
            \/ ResumeLeftFrozen
  <2>1. UNCHANGED <<now, watch, looked, work, fails>>
    BY <1>14 DEF announce_disconnect, ResumeBegins, ResumeAllowedStill,
       ResumeLeftFrozen, OnlyPanel
  <2> QED BY <1>0, <1>2, <2>1
<1>15. CASE register \/ WorkloadEnds
  <2>1. /\ UNCHANGED <<now, watch, fails>> /\ work'.seen = work.seen
        /\ \/ work.at = "starting" /\ work'.at = "running"
           \/ work'.at = "exited"
    BY <1>0, <1>15 DEF register, WorkloadEnds, Works, countVars
  <2> QED BY <2>1 DEF StoppedInTime, Alive
<1>16. CASE unregister
  BY <1>16 DEF unregister, StoppedInTime, countVars
<1>17. CASE Tick
  <2>1. /\ watch # None /\ looked /\ ~ looked' /\ now' \in {now, now + 1}
        /\ UNCHANGED <<watch, work, fails>>
    BY <1>0, <1>17, TimesAssumption DEF Tick, Settled, Least, TypeOK, workVars,
       countVars
  <2> QED BY <1>0, <2>1 DEF StoppedInTime, Alive
<1> QED
  BY <1>3, <1>4, <1>5, <1>6, <1>7, <1>8, <1>10, <1>11, <1>12, <1>13, <1>14, <1>15,
     <1>16, <1>17 DEF Next, ThreadStep, WatcherStep, PanelStep

LEMMA LeasesGrowInit ==
    ASSUME Init
    PROVE  LeasesGrow /\ StoppedInTime
<1>0. TypeOK /\ Numbers /\ Tidy
  BY InitTyped, NumbersTyped
<1> USE DEF Numbers
<1>1. /\ Extension \in Nat \ {0} /\ Total \in Nat \ {0}
  BY TimesAssumption
<1>2. /\ FirstLease \in SignedLeases
      /\ FirstLease.issued = lag /\ FirstLease.grace = SignedGrace
      /\ FirstLease.expires = lag + Least(Extension, Total)
  BY FirstLeaseTyped DEF Init
<1>3. /\ held = FirstLease /\ now = 0 /\ taken = None /\ wire.answer = None
      /\ row.issued = lag /\ row.grace = SignedGrace
      /\ row.expires = FirstLease.expires
  BY <1>2 DEF Init, NoWire
<1>4. RowGrows /\ HeldGrows
  BY <1>0, <1>1, <1>2, <1>3 DEF RowGrows, HeldGrows, LeaseUnder, Least
<1>5. WatchCovered
  <2>1. thread.at = "wait" /\ watch.holdAt = near_finish_stop_at(held, 0)
    BY <1>3 DEF Init
  <2>2. 0 \in 0 .. now /\ 0 + lag < held.expires
    BY <1>0, <1>1, <1>2, <1>3 DEF Least
  <2>3. near_finish_stop_at(held, 0) \in Nat
    BY <1>2, <1>3, HoldAtNat
  <2>4. /\ 0 \in 0 .. now /\ (thread.at = "sent" => 0 <= thread.sent)
        /\ 0 + lag < held.expires /\ watch.holdAt <= near_finish_stop_at(held, 0)
    BY <2>1, <2>2, <2>3
  <2> QED BY <2>4 DEF WatchCovered
<1>6. StoppedInTime
  BY DEF Init, StoppedInTime, Alive
<1> QED BY <1>3, <1>4, <1>5, <1>6 DEF LeasesGrow, AnswerGrows, TakenLate

LEMMA LeasesGrowStutter ==
    ASSUME LeasesGrow, StoppedInTime, UNCHANGED vars
    PROVE  LeasesGrow' /\ StoppedInTime'
  BY DEF vars, coordinatorVars, threadVars, workVars, panelVars, countVars,
     LeasesGrow, RowGrows, HeldGrows, AnswerGrows, LeaseUnder, WatchCovered, TakenLate,
     StoppedInTime, Alive, coordinator_now

LEMMA OverlapRuledOut ==
    ASSUME TypeOK, Tidy, LeasesGrow, StoppedInTime, GraceCoversLag
    PROVE  NoOverlap
<1> SUFFICES ASSUME taken # None, Executing, lag <= Margin, fails = 0, work.seen,
                    ~ (watch # None /\ watch.choice = "KeepRunning")
             PROVE  FALSE
  BY DEF NoOverlap, TypeOK
<1>0. Numbers /\ Grace \in Nat /\ SignedGrace \in Nat
  BY NumbersTyped, TimesAssumption DEF Grace, Greatest
<1>1. Alive /\ watch # None
  BY DEF Executing, Alive, Tidy, WorkTidy
<1>2. watch.choice = "Auto"
  BY <1>1 DEF TypeOK, Watches
<1>3. now <= watch.holdAt
  BY <1>1, <1>2 DEF StoppedInTime
<1>4. PICK s \in 0 .. now : /\ s + lag < held.expires
                            /\ watch.holdAt <= near_finish_stop_at(held, s)
  BY <1>1 DEF LeasesGrow, WatchCovered
<1>5. /\ held \in SignedLeases /\ held.issued = lag /\ held.grace = SignedGrace
      /\ held.expires <= row.expires /\ coordinator_now > row.expires + Grace
  BY DEF TypeOK, LeasesGrow, HeldGrows, LeaseUnder, TakenLate
<1>6. held.issued \div 2 <= Grace /\ held.grace <= Grace
  <2>1. lag \div 2 <= Grace
    BY DEF GraceCoversLag, TypeOK
  <2>2. SignedGrace <= Grace
    BY TimesAssumption DEF Grace, Greatest
  <2> QED BY <1>5, <2>1, <2>2
<1>7. s \in Nat /\ near_finish_stop_at(held, s) \in Nat
  <2>1. s \in Nat
    BY <1>0 DEF Numbers
  <2> QED BY <1>5, <2>1, HoldAtNat
<1>8. near_finish_stop_at(held, s) + held.issued <= held.expires + Grace
  BY <1>0, <1>4, <1>5, <1>6, <1>7, HoldBound
<1> QED BY <1>0, <1>1, <1>3, <1>4, <1>5, <1>7, <1>8 DEF Numbers

(***************************************************************************)
(* Without announced absences, and where the grace covers half of the lag: *)
(* once the failover has given the job to another node, no workload that   *)
(* the watcher has seen executes here, unless its owner keeps it or a      *)
(* command of the container runtime failed.  Holds for every extension,    *)
(* total duration, margin, interval and timeout, and for any number of     *)
(* lost, late or unanswered requests.                                      *)
(***************************************************************************)
THEOREM OneNodeExecutes ==
    ASSUME NoAnnouncements, GraceCoversLag
    PROVE  Spec => []NoOverlap
<1>1. Init => LeasesGrow /\ StoppedInTime
  BY LeasesGrowInit
<1>2. /\ TypeOK /\ Tidy /\ (TypeOK /\ Tidy)' /\ LeasesGrow /\ StoppedInTime
      /\ [Next]_vars
      => (LeasesGrow /\ StoppedInTime)'
  BY LeasesGrowStep, StoppedInTimeStep, LeasesGrowStutter
<1>3. TypeOK /\ Tidy /\ LeasesGrow /\ StoppedInTime => NoOverlap
  BY OverlapRuledOut
<1> QED BY <1>1, <1>2, <1>3, TypeInvariance, PTL DEF Spec

-----------------------------------------------------------------------------
(* The lease that the node holds.                                          *)

(***************************************************************************)
(* The failover waited for the end of the lease as stored, and neither an  *)
(* answered nor a late request moves that end afterwards.                  *)
(***************************************************************************)
TakenAfter == taken # None => row.revoked /\ taken > row.expires

LEMMA TakenAfterStep ==
    ASSUME TypeOK, TakenAfter, [Next]_vars
    PROVE  TakenAfter'
<1>0. Numbers
  BY NumbersTyped
<1>1. ASSUME NEW until \in Nat, row' = SessionResult(until).row, UNCHANGED taken
      PROVE  TakenAfter'
  <2>1. CASE Refuses(SessionResult(until))
    BY <1>1, <2>1 DEF Refuses, TakenAfter
  <2>2. CASE Grants(SessionResult(until), until)
    BY <1>1, <2>2 DEF Grants, TakenAfter
  <2> QED BY <2>1, <2>2, SessionOutcome
<1>2. CASE serve_renew_session
  BY <1>1, <1>2 DEF serve_renew_session, TypeOK, Wires
<1>3. CASE serve_late_request
  BY <1>1, <1>3 DEF serve_late_request, TypeOK
<1>4. CASE failover_lost_attempts
  <2>1. /\ row'.expires = row.expires /\ row'.revoked /\ taken' = coordinator_now
        /\ coordinator_now > row.expires + Greatest(PolicyGrace, row.grace)
    BY <1>4 DEF failover_lost_attempts, TypeOK, StoredLeases
  <2>2. /\ row.expires \in Nat /\ coordinator_now \in Nat
        /\ Greatest(PolicyGrace, row.grace) \in Nat
    BY <1>0, TimesAssumption DEF Numbers, Greatest, TypeOK, StoredLeases
  <2> QED BY <2>1, <2>2 DEF TakenAfter
<1>5. CASE UNCHANGED <<row, taken>>
  BY <1>5 DEF TakenAfter
<1>6. CASE ThreadStep
  BY <1>5, <1>6 DEF ThreadStep, LocalExpired, renew_once_over_new_connection, RenewSucceeds,
     RenewRefused, RenewFails, RenewRejected, coordinatorVars
<1>7. CASE Bystander
  BY <1>5, <1>7, BystanderEffect
<1>8. CASE self_stop_if_due \/ unregister \/ Tick \/ UNCHANGED vars
  BY <1>5, <1>8 DEF self_stop_if_due, OnlyWatch, unregister, Tick, coordinatorVars, vars
<1> QED BY <1>2, <1>3, <1>4, <1>6, <1>7, <1>8 DEF Next, WatcherStep, Bystander

(***************************************************************************)
(* Where no absences are announced, the job is never given to another node *)
(* before the lease has ended that the node itself holds, whatever answer  *)
(* was lost or served late and however the clocks differ: renewals of one  *)
(* extension only move the end later.  The overlap that announced_lease    *)
(* shows is due to announcements alone.                                    *)
(***************************************************************************)
THEOREM HeldLeaseKept ==
    ASSUME NoAnnouncements
    PROVE  Spec => []AnnouncedLeaseKept
<1>1. Init => LeasesGrow /\ TakenAfter
  BY LeasesGrowInit DEF Init, TakenAfter
<1>2. /\ TypeOK /\ Tidy /\ (TypeOK /\ Tidy)' /\ LeasesGrow /\ TakenAfter
      /\ [Next]_vars
      => (LeasesGrow /\ TakenAfter)'
  <2>1. LeasesGrow /\ UNCHANGED vars => LeasesGrow'
    BY DEF vars, coordinatorVars, threadVars, workVars, panelVars, countVars,
       LeasesGrow, RowGrows, HeldGrows, AnswerGrows, LeaseUnder, WatchCovered, TakenLate,
       coordinator_now
  <2> QED BY <2>1, LeasesGrowStep, TakenAfterStep
<1>3. TypeOK /\ LeasesGrow /\ TakenAfter => AnnouncedLeaseKept
  <2> SUFFICES ASSUME TypeOK, LeasesGrow, TakenAfter, taken # None
               PROVE  taken > held.expires
    BY DEF AnnouncedLeaseKept
  <2>1. /\ held.expires \in Nat /\ row.expires \in Nat /\ taken \in Nat
        /\ held.expires <= row.expires /\ taken > row.expires
    BY DEF TypeOK, SignedLeases, StoredLeases, LeasesGrow, HeldGrows, LeaseUnder, TakenAfter
  <2> QED BY <2>1
<1> QED BY <1>1, <1>2, <1>3, TypeInvariance, PTL DEF Spec

=============================================================================
