----------------------------- MODULE ReplayGuard -----------------------------
(***************************************************************************)
(* How a process takes a short-lived signed message: the clock checks of   *)
(* signing::verify and the replay guards behind them.  The coordinator     *)
(* checks every frame with its session guard, which is a database          *)
(* (--replay-db) or lives in memory, and the hello of a session once more  *)
(* with a database of its own (--hello-replay-db).                         *)
(*                                                                         *)
(* The transport may deliver a message any number of times.  The wall      *)
(* clock is set forward or back; a guard sees only what it reads.          *)
(***************************************************************************)
EXTENDS Integers, FiniteSets, FiniteSetsExt

CONSTANTS
    Envelopes,        \* signed messages: [signer, domain, nonce, issued, expires]
    HelloDomain,      \* the domain of the session hello
    SkewTolerance,    \* CLOCK_SKEW_TOLERANCE_MS
    MaxMessageTtl,    \* MAX_SHORTLIVED_TTL_MS
    GcAdvance,        \* MAX_GC_ADVANCE_MS
    GuardCapacity,    \* entries of a guard
    SignerCapacity,   \* entries of one signer in a guard
    MaxReading,       \* the bound of the wall clock
    MaxRestarts       \* the bound of restarts

\* Times are milliseconds.
ASSUME ReplayAssumption ==
    /\ \A m \in Envelopes : m.expires \in Nat
    /\ SkewTolerance \in Nat
    /\ GcAdvance \in Nat

VARIABLES
    replayDb,         \* whether --replay-db is given
    helloDb,          \* whether --hello-replay-db is given
    session,          \* the guard of every frame: [entries, lastSeen]
    hellos,           \* the guard of --hello-replay-db
    reading,          \* the wall clock
    highest,          \* the highest value it had
    restarts,         \* processes ended so far
    takenEver,        \* how often a message was taken
    takenNow          \* how often this process took it

rgVars == <<replayDb, helloDb, session, hellos, reading, highest, restarts,
            takenEver, takenNow>>

EmptyGuard == [entries |-> {}, lastSeen |-> 0]

-----------------------------------------------------------------------------
(* One guard. *)

KeyOf(m) == <<m.signer, m.domain, m.nonce>>

Known(guard, m) == \E e \in guard.entries : e.key = KeyOf(m)

\* check_and_record refuses without a record: what is known first, then the
\* quota of the signer, then the capacity.
Decision(guard, m) ==
    CASE Known(guard, m) -> "duplicate"
      [] ~Known(guard, m)
         /\ Cardinality({e \in guard.entries : e.key[1] = m.signer}) >= SignerCapacity
         -> "quota"
      [] ~Known(guard, m)
         /\ Cardinality({e \in guard.entries : e.key[1] = m.signer}) < SignerCapacity
         -> IF Cardinality(guard.entries) >= GuardCapacity THEN "full" ELSE "fresh"

\* An entry that does not outlive its message.
RetainWithoutSkew(m) == m.expires

RetainUntil(m) == m.expires + SkewTolerance

Recorded(guard, m) ==
    [guard EXCEPT !.entries = @ \cup {[key |-> KeyOf(m), until |-> RetainUntil(m)]}]

\* gc: a reading before the last one changes nothing, one far ahead counts as
\* GcAdvance; the first reading is taken as it is.
EffectiveReading(guard, now) ==
    IF guard.lastSeen = 0 THEN now ELSE Min({now, guard.lastSeen + GcAdvance})

Swept(guard, now) ==
    IF now < guard.lastSeen
    THEN guard
    ELSE [entries |-> {e \in guard.entries : e.until > EffectiveReading(guard, now)},
          lastSeen |-> EffectiveReading(guard, now)]

-----------------------------------------------------------------------------
(* signing::verify for a ShortLived message. *)

Distance(x, y) == IF x > y THEN x - y ELSE y - x

InTime(m) ==
    /\ reading < m.expires
    /\ Distance(reading, m.issued) <= SkewTolerance
    /\ m.expires - m.issued <= MaxMessageTtl

-----------------------------------------------------------------------------

ReplayInit ==
    /\ replayDb \in BOOLEAN
    /\ helloDb \in BOOLEAN
    /\ session = EmptyGuard
    /\ hellos = EmptyGuard
    /\ reading = 1
    /\ highest = 1
    /\ restarts = 0
    /\ takenEver = [m \in Envelopes |-> 0]
    /\ takenNow = [m \in Envelopes |-> 0]

\* A frame arrives and is refused: late, early, too long a life, or by the
\* session guard.  Nothing is recorded.  A hello that the session guard takes
\* and the hello guard refuses stays recorded in the session guard.
Refuse(m) ==
    \/ /\ \/ ~InTime(m)
          \/ Decision(session, m) # "fresh"
       /\ UNCHANGED rgVars
    \/ /\ InTime(m)
       /\ Decision(session, m) = "fresh"
       /\ m.domain = HelloDomain /\ helloDb
       /\ Decision(hellos, m) # "fresh"
       /\ session' = Recorded(session, m)
       /\ UNCHANGED <<replayDb, helloDb, hellos, reading, highest, restarts,
                      takenEver, takenNow>>

Take(m) ==
    /\ InTime(m)
    /\ Decision(session, m) = "fresh"
    /\ session' = Recorded(session, m)
    /\ IF m.domain = HelloDomain /\ helloDb
       THEN /\ Decision(hellos, m) = "fresh"
            /\ hellos' = Recorded(hellos, m)
       ELSE UNCHANGED hellos
    /\ takenEver' = [takenEver EXCEPT ![m] = @ + 1]
    /\ takenNow' = [takenNow EXCEPT ![m] = @ + 1]
    /\ UNCHANGED <<replayDb, helloDb, reading, highest, restarts>>

\* gc of one of the guards; no process of the repository calls it yet.
Sweep ==
    /\ \/ /\ session' = Swept(session, reading)
          /\ UNCHANGED hellos
       \/ /\ helloDb
          /\ hellos' = Swept(hellos, reading)
          /\ UNCHANGED session
    /\ UNCHANGED <<replayDb, helloDb, reading, highest, restarts, takenEver, takenNow>>

\* The process ends and starts again: a guard in memory begins empty, a
\* database is opened as it was left.
Restart ==
    /\ restarts < MaxRestarts
    /\ restarts' = restarts + 1
    /\ session' = IF replayDb THEN session ELSE EmptyGuard
    /\ takenNow' = [m \in Envelopes |-> 0]
    /\ UNCHANGED <<replayDb, helloDb, hellos, reading, highest, takenEver>>

\* The wall clock is moved, back by no more than the tolerated skew below the
\* highest value it had.
SetClock ==
    /\ reading' \in (highest - SkewTolerance) .. MaxReading
    /\ reading' > 0
    /\ highest' = Max({highest, reading'})
    /\ UNCHANGED <<replayDb, helloDb, session, hellos, restarts, takenEver, takenNow>>

ReplayNext ==
    \/ \E m \in Envelopes : Refuse(m) \/ Take(m)
    \/ Sweep
    \/ Restart
    \/ SetClock

ReplaySpec == ReplayInit /\ [][ReplayNext]_rgVars

-----------------------------------------------------------------------------

\* A message is taken at most once: by one process whatever its guard, and over
\* restarts by a guard that is a database; for a hello the database of hellos is
\* enough.  It holds over any number of garbage collections and over a clock that
\* steps back by no more than the tolerated skew, since an entry outlives its
\* message by that skew.
\* (signing.rs verify, durable_replay.rs check_and_record and gc,
\* coordinator lib.rs check_hello_across_restart)
AcceptedOnce ==
    \A m \in Envelopes :
        /\ takenNow[m] <= 1
        /\ (replayDb \/ (helloDb /\ m.domain = HelloDomain)) => takenEver[m] <= 1
=============================================================================
