---------------------------- MODULE Session_proofs ----------------------------
(***************************************************************************)
(* What a session rests on holds for all messages, signers, scenes and     *)
(* bounds: a signed message is taken once, the keys of the keyring hold,   *)
(* and the epoch an agent holds never goes back.                           *)
(***************************************************************************)
EXTENDS Session, ReplayGuard, Keyring, TLAPS

-----------------------------------------------------------------------------
(* Operators.                                                              *)

LEMMA MaxOfTwo ==
    ASSUME NEW x \in Int, NEW y \in Int
    PROVE  Max({x, y}) \in {x, y} /\ Max({x, y}) >= x /\ Max({x, y}) >= y
<1>1. \E z \in {x, y} : \A w \in {x, y} : z >= w
  BY x >= y \/ y >= x
<1> QED
  BY <1>1 DEF Max

LEMMA MinOfTwo ==
    ASSUME NEW x \in Int, NEW y \in Int
    PROVE  Min({x, y}) \in {x, y} /\ Min({x, y}) <= x /\ Min({x, y}) <= y
<1>1. \E z \in {x, y} : \A w \in {x, y} : z <= w
  BY x <= y \/ y <= x
<1> QED
  BY <1>1 DEF Min

-----------------------------------------------------------------------------
(* The replay guards.                                                      *)

Guards == [entries : SUBSET [key : {KeyOf(m) : m \in Envelopes}, until : Int],
           lastSeen : Int]

\* The clock is never further back than the tolerated skew.
ReplayTypeOK ==
    /\ session \in Guards
    /\ hellos \in Guards
    /\ reading \in Int
    /\ highest \in Int
    /\ highest - SkewTolerance <= reading
    /\ reading <= highest
    /\ takenEver \in [Envelopes -> Nat]
    /\ takenNow \in [Envelopes -> Nat]

\* The entry of a message is there until no reading of the clock can be within
\* the life of the message any more.
Guarded(guard, m) ==
    \/ [key |-> KeyOf(m), until |-> RetainUntil(m)] \in guard.entries
    \/ m.expires <= highest - SkewTolerance

\* Whoever counts a message as taken once has it guarded.
ReplayInv ==
    \A m \in Envelopes :
        /\ takenNow[m] > 0 => Guarded(session, m)
        /\ (replayDb /\ takenEver[m] > 0) => Guarded(session, m)
        /\ (helloDb /\ m.domain = HelloDomain /\ takenEver[m] > 0) => Guarded(hellos, m)

LEMMA RecordedGuard ==
    ASSUME ReplayTypeOK, NEW guard \in Guards, NEW m \in Envelopes
    PROVE  /\ Recorded(guard, m) \in Guards
           /\ Guarded(Recorded(guard, m), m)
           /\ \A n \in Envelopes : Guarded(guard, n) => Guarded(Recorded(guard, m), n)
<1>1. RetainUntil(m) \in Int
  BY ReplayAssumption DEF RetainUntil
<1>2. /\ Recorded(guard, m).entries
             = guard.entries \cup {[key |-> KeyOf(m), until |-> RetainUntil(m)]}
      /\ Recorded(guard, m) = [entries |-> Recorded(guard, m).entries,
                               lastSeen |-> guard.lastSeen]
  BY DEF Recorded, Guards
<1> QED
  BY <1>1, <1>2 DEF Guards, Guarded

\* A garbage collection takes only entries whose message is over for good.
LEMMA SweptGuard ==
    ASSUME ReplayTypeOK, NEW guard \in Guards
    PROVE  /\ Swept(guard, reading) \in Guards
           /\ \A n \in Envelopes : Guarded(guard, n) => Guarded(Swept(guard, reading), n)
<1>1. EffectiveReading(guard, reading) \in Int /\ EffectiveReading(guard, reading) <= reading
  <2>1. reading \in Int /\ guard.lastSeen + GcAdvance \in Int
    BY ReplayAssumption DEF Guards, ReplayTypeOK
  <2>2. Min({reading, guard.lastSeen + GcAdvance}) \in Int
        /\ Min({reading, guard.lastSeen + GcAdvance}) <= reading
    BY <2>1, MinOfTwo
  <2> QED
    BY <2>1, <2>2 DEF EffectiveReading
<1>2. Swept(guard, reading) \in Guards
  BY <1>1 DEF Swept, Guards
<1>3. ASSUME NEW n \in Envelopes, Guarded(guard, n)
      PROVE  Guarded(Swept(guard, reading), n)
  BY <1>1, <1>3, ReplayAssumption DEF Guarded, Swept, RetainUntil, ReplayTypeOK
<1> QED
  BY <1>2, <1>3

\* A guard that calls a message in time fresh never guarded it.
LEMMA FreshIsNew ==
    ASSUME ReplayTypeOK, NEW guard \in Guards, NEW m \in Envelopes,
           InTime(m), Decision(guard, m) = "fresh"
    PROVE  ~Guarded(guard, m)
<1>1. ~Known(guard, m)
  BY DEF Decision
<1>2. ~(m.expires <= highest - SkewTolerance)
  BY ReplayAssumption DEF InTime, ReplayTypeOK
<1> QED
  BY <1>1, <1>2 DEF Known, Guarded

LEMMA ReplayInductive ==
    ReplayTypeOK /\ ReplayInv /\ AcceptedOnce /\ [ReplayNext]_rgVars
        => (ReplayTypeOK /\ ReplayInv /\ AcceptedOnce)'
<1> SUFFICES ASSUME ReplayTypeOK, ReplayInv, AcceptedOnce, [ReplayNext]_rgVars
             PROVE  (ReplayTypeOK /\ ReplayInv /\ AcceptedOnce)'
  OBVIOUS
<1>1. ASSUME NEW m \in Envelopes, Refuse(m)
      PROVE  (ReplayTypeOK /\ ReplayInv /\ AcceptedOnce)'
  <2>1. CASE UNCHANGED rgVars
    BY <2>1 DEF rgVars, ReplayTypeOK, ReplayInv, AcceptedOnce, Guarded
  <2>2. CASE /\ session' = Recorded(session, m)
             /\ UNCHANGED <<replayDb, helloDb, hellos, reading, highest, restarts,
                            takenEver, takenNow>>
    <3>1. session' \in Guards /\ \A n \in Envelopes : Guarded(session, n) => Guarded(session', n)
      BY <2>2, RecordedGuard DEF ReplayTypeOK
    <3>2. \A n \in Envelopes : Guarded(session', n) => Guarded(session, n)'
      BY <2>2 DEF Guarded
    <3> QED
      BY <2>2, <3>1, <3>2 DEF ReplayTypeOK, ReplayInv, AcceptedOnce, Guarded
  <2> QED
    BY <1>1, <2>1, <2>2 DEF Refuse
<1>2. ASSUME NEW m \in Envelopes, Take(m)
      PROVE  (ReplayTypeOK /\ ReplayInv /\ AcceptedOnce)'
  <2> DEFINE stored == m.domain = HelloDomain /\ helloDb
  <2>1. /\ session' \in Guards
        /\ Guarded(session, m)'
        /\ \A n \in Envelopes : Guarded(session, n) => Guarded(session, n)'
    BY <1>2, RecordedGuard DEF Take, ReplayTypeOK, Guarded
  <2>2. /\ hellos' \in Guards
        /\ stored => Guarded(hellos, m)'
        /\ \A n \in Envelopes : Guarded(hellos, n) => Guarded(hellos, n)'
    <3>1. CASE stored
      BY <1>2, <3>1, RecordedGuard DEF Take, ReplayTypeOK, Guarded
    <3>2. CASE ~stored
      BY <1>2, <3>2 DEF Take, ReplayTypeOK, Guarded
    <3> QED
      BY <3>1, <3>2
  <2>3. ~Guarded(session, m) /\ (stored => ~Guarded(hellos, m))
    BY <1>2, FreshIsNew DEF Take, ReplayTypeOK
  <2>4. takenNow[m] = 0 /\ ((replayDb \/ stored) => takenEver[m] = 0)
    BY <2>3 DEF ReplayInv, ReplayTypeOK
  <2>5. /\ takenEver' = [takenEver EXCEPT ![m] = takenEver[m] + 1]
        /\ takenNow' = [takenNow EXCEPT ![m] = takenNow[m] + 1]
        /\ UNCHANGED <<replayDb, helloDb, reading, highest>>
    BY <1>2 DEF Take
  <2>6. ReplayTypeOK'
    BY <2>1, <2>2, <2>5 DEF ReplayTypeOK
  <2>7. ReplayInv'
    BY <2>1, <2>2, <2>5 DEF ReplayInv, ReplayTypeOK
  <2>8. AcceptedOnce'
    BY <2>4, <2>5 DEF AcceptedOnce, ReplayTypeOK
  <2> QED
    BY <2>6, <2>7, <2>8
<1>3. CASE Sweep
  <2>1. /\ UNCHANGED <<replayDb, helloDb, reading, highest, takenEver, takenNow>>
        /\ session' \in Guards
        /\ hellos' \in Guards
        /\ \A n \in Envelopes : Guarded(session, n) => Guarded(session, n)'
        /\ \A n \in Envelopes : Guarded(hellos, n) => Guarded(hellos, n)'
    BY <1>3, SweptGuard DEF Sweep, ReplayTypeOK, Guarded
  <2> QED
    BY <2>1 DEF ReplayTypeOK, ReplayInv, AcceptedOnce
<1>4. CASE Restart
  <2>1. /\ UNCHANGED <<replayDb, helloDb, hellos, reading, highest, takenEver>>
        /\ takenNow' = [m \in Envelopes |-> 0]
        /\ session' = IF replayDb THEN session ELSE EmptyGuard
    BY <1>4 DEF Restart
  <2>2. EmptyGuard \in Guards
    BY DEF EmptyGuard, Guards
  <2>3. ReplayTypeOK'
    BY <2>1, <2>2 DEF ReplayTypeOK
  <2>4. ReplayInv'
    <3>1. \A m \in Envelopes : ~(takenNow'[m] > 0)
      BY <2>1
    <3>2. replayDb => session' = session
      BY <2>1
    <3> QED
      BY <2>1, <3>1, <3>2 DEF ReplayInv, Guarded
  <2>5. AcceptedOnce'
    <3>1. \A m \in Envelopes : takenNow'[m] = 0
      BY <2>1
    <3> QED
      BY <2>1, <3>1 DEF AcceptedOnce
  <2> QED
    BY <2>3, <2>4, <2>5
<1>5. CASE SetClock
  <2>1. /\ replayDb' = replayDb /\ helloDb' = helloDb
        /\ session' = session /\ hellos' = hellos
        /\ takenEver' = takenEver /\ takenNow' = takenNow
    BY <1>5 DEF SetClock
  <2>2. highest \in Int /\ highest - SkewTolerance \in Int /\ SkewTolerance \in Nat
    BY ReplayAssumption DEF ReplayTypeOK
  <2>3. reading' \in Int /\ highest - SkewTolerance <= reading'
    BY <1>5, <2>2 DEF SetClock
  <2>4. highest' \in {highest, reading'} /\ highest' >= highest /\ highest' >= reading'
    BY <1>5, <2>2, <2>3, MaxOfTwo DEF SetClock
  <2>5. highest' \in Int /\ highest' - SkewTolerance <= reading'
    <3>1. CASE highest' = highest
      BY <2>2, <2>3, <3>1
    <3>2. CASE highest' = reading'
      <4>1. \A r \in Int : r - SkewTolerance <= r
        BY <2>2
      <4>2. highest' \in Int
        BY <2>3, <3>2
      <4> QED
        BY <2>3, <3>2, <4>1, <4>2, Zenon
    <3> QED
      BY <2>4, <3>1, <3>2
  <2>6. ReplayTypeOK'
    BY <2>1, <2>3, <2>4, <2>5 DEF ReplayTypeOK
  <2>7. ASSUME NEW m \in Envelopes
        PROVE  /\ Guarded(session, m) => Guarded(session, m)'
               /\ Guarded(hellos, m) => Guarded(hellos, m)'
    <3>1. m.expires \in Int
      BY ReplayAssumption
    <3> QED
      BY <2>1, <2>2, <2>4, <2>5, <3>1 DEF Guarded, RetainUntil, KeyOf
  <2>8. ReplayInv'
    BY <2>1, <2>7 DEF ReplayInv
  <2>9. AcceptedOnce'
    BY <2>1 DEF AcceptedOnce
  <2> QED
    BY <2>6, <2>8, <2>9
<1>6. CASE UNCHANGED rgVars
  BY <1>6 DEF rgVars, ReplayTypeOK, ReplayInv, AcceptedOnce, Guarded
<1> QED
  BY <1>1, <1>2, <1>3, <1>4, <1>5, <1>6 DEF ReplayNext

(***************************************************************************)
(* A signed message is taken at most once, by one process and, with a      *)
(* database, over restarts, for every set of messages, every capacity and  *)
(* every tolerated skew: an entry that gc removes belongs to a message no  *)
(* later reading of the clock can be in time for.                          *)
(* (signing.rs verify, durable_replay.rs check_and_record and gc)          *)
(***************************************************************************)
THEOREM ReplayAcceptedOnce == ReplaySpec => []AcceptedOnce
<1>1. ReplayInit => ReplayTypeOK /\ ReplayInv /\ AcceptedOnce
  BY ReplayAssumption
     DEF ReplayInit, ReplayTypeOK, ReplayInv, AcceptedOnce, Guards, EmptyGuard
<1> QED
  BY <1>1, ReplayInductive, PTL DEF ReplaySpec

-----------------------------------------------------------------------------
(* The connections of a session.                                           *)

\* A message that hands a lease to the agent carries an epoch.
CarriesEpoch(m) ==
    (m.kind = "grant" \/ (m.kind \in {"result", "resumed"} /\ m.outcome = 1))
        => m.lease.epoch \in Int

QueueOK(q) == \E S : q \in Seq(S) /\ \A m \in S : CarriesEpoch(m)

ConnOK(c) == DOMAIN c = {"toA", "toC", "aOpen", "cOpen"} /\ QueueOK(c.toA)

NetOK(n) == \E S : n \in Seq(S) /\ \A c \in S : ConnOK(c)

LEMMA EmptyQueue == QueueOK(<<>>)
<1> DEFINE S == {m \in {1} : CarriesEpoch(m)}
<1>1. <<>> \in Seq(S)
  <2> HIDE DEF S
  <2> QED
    OBVIOUS
<1>2. \A m \in S : CarriesEpoch(m)
  OBVIOUS
<1> QED
  BY <1>1, <1>2, Zenon DEF QueueOK

LEMMA QueueAppend ==
    ASSUME NEW q, QueueOK(q), NEW m, CarriesEpoch(m)
    PROVE  QueueOK(Append(q, m))
<1>1. PICK S : q \in Seq(S) /\ \A x \in S : CarriesEpoch(x)
  BY DEF QueueOK
<1>2. Append(q, m) \in Seq(S \cup {m})
  BY <1>1
<1>3. \A x \in S \cup {m} : CarriesEpoch(x)
  BY <1>1
<1> QED
  BY <1>2, <1>3 DEF QueueOK

LEMMA QueueHead ==
    ASSUME NEW q, QueueOK(q), q # <<>>
    PROVE  CarriesEpoch(Head(q)) /\ QueueOK(Tail(q))
<1>1. PICK S : q \in Seq(S) /\ \A x \in S : CarriesEpoch(x)
  BY DEF QueueOK
<1>2. Head(q) \in S /\ Tail(q) \in Seq(S)
  BY <1>1
<1> QED
  BY <1>1, <1>2 DEF QueueOK

LEMMA NetFacts ==
    ASSUME NEW n, NetOK(n)
    PROVE  Len(n) \in Nat /\ DOMAIN n = 1 .. Len(n) /\ \A i \in DOMAIN n : ConnOK(n[i])
<1>1. PICK S : n \in Seq(S) /\ \A c \in S : ConnOK(c)
  BY DEF NetOK
<1> QED
  BY <1>1

LEMMA NetChange ==
    ASSUME NEW n, NetOK(n), NEW i, NEW c, i \in DOMAIN n => ConnOK(c)
    PROVE  NetOK([n EXCEPT ![i] = c]) /\ Len([n EXCEPT ![i] = c]) = Len(n)
<1>1. PICK S : n \in Seq(S) /\ \A x \in S : ConnOK(x)
  BY DEF NetOK
<1>2. CASE i \in DOMAIN n
  <2>1. [n EXCEPT ![i] = c] \in Seq(S \cup {c}) /\ Len([n EXCEPT ![i] = c]) = Len(n)
    BY <1>1, <1>2
  <2>2. \A x \in S \cup {c} : ConnOK(x)
    BY <1>1, <1>2
  <2> QED
    BY <2>1, <2>2 DEF NetOK
<1>3. CASE i \notin DOMAIN n
  <2>1. [n EXCEPT ![i] = c] = n
    BY <1>1, <1>3
  <2> QED
    BY <2>1
<1> QED
  BY <1>2, <1>3

LEMMA NetAppend ==
    ASSUME NEW n, NetOK(n), NEW c, ConnOK(c)
    PROVE  NetOK(Append(n, c)) /\ Len(Append(n, c)) = Len(n) + 1
<1>1. PICK S : n \in Seq(S) /\ \A x \in S : ConnOK(x)
  BY DEF NetOK
<1>2. Append(n, c) \in Seq(S \cup {c}) /\ Len(Append(n, c)) = Len(n) + 1
  BY <1>1
<1>3. \A x \in S \cup {c} : ConnOK(x)
  BY <1>1
<1> QED
  BY <1>2, <1>3 DEF NetOK

\* What the two ends do to a connection keeps it one.
LEMMA ShutKeeps ==
    ASSUME NEW n, NetOK(n), NEW i
    PROVE  /\ NetOK(ShutA(n, i)) /\ Len(ShutA(n, i)) = Len(n)
           /\ NetOK(ShutC(n, i)) /\ Len(ShutC(n, i)) = Len(n)
           /\ NetOK([n EXCEPT ![i] = Closed]) /\ Len([n EXCEPT ![i] = Closed]) = Len(n)
<1>1. ConnOK(Closed)
  BY EmptyQueue DEF ConnOK, Closed
<1>2. NetOK([n EXCEPT ![i] = Closed]) /\ Len([n EXCEPT ![i] = Closed]) = Len(n)
  BY <1>1, NetChange
<1>3. i \in DOMAIN n => ConnOK([n[i] EXCEPT !.aOpen = FALSE, !.toA = <<>>])
  BY NetFacts, EmptyQueue DEF ConnOK
<1>4. i \in DOMAIN n => ConnOK([n[i] EXCEPT !.cOpen = FALSE, !.toC = <<>>])
  BY NetFacts DEF ConnOK
<1>5. NetOK(ShutA(n, i)) /\ Len(ShutA(n, i)) = Len(n)
  BY <1>2, <1>3, NetChange DEF ShutA
<1>6. NetOK(ShutC(n, i)) /\ Len(ShutC(n, i)) = Len(n)
  BY <1>2, <1>4, NetChange DEF ShutC
<1> QED
  BY <1>2, <1>5, <1>6

LEMMA SendKeeps ==
    ASSUME NEW n, NetOK(n), NEW i, NEW m
    PROVE  /\ CarriesEpoch(m) => NetOK(SendToA(n, i, m)) /\ Len(SendToA(n, i, m)) = Len(n)
           /\ NetOK(SendToC(n, i, m)) /\ Len(SendToC(n, i, m)) = Len(n)
<1>1. ASSUME CarriesEpoch(m)
      PROVE  NetOK(SendToA(n, i, m)) /\ Len(SendToA(n, i, m)) = Len(n)
  <2>1. i \in DOMAIN n => ConnOK([n[i] EXCEPT !.toA = Append(n[i].toA, m)])
    BY <1>1, NetFacts, QueueAppend DEF ConnOK
  <2> QED
    BY <2>1, NetChange DEF SendToA
<1>2. NetOK(SendToC(n, i, m)) /\ Len(SendToC(n, i, m)) = Len(n)
  <2>1. i \in DOMAIN n => ConnOK([n[i] EXCEPT !.toC = Append(n[i].toC, m)])
    BY NetFacts DEF ConnOK
  <2> QED
    BY <2>1, NetChange DEF SendToC
<1> QED
  BY <1>1, <1>2

LEMMA ReadKeeps ==
    ASSUME NEW n, NetOK(n), NEW i
    PROVE  /\ NetOK([n EXCEPT ![i].toC = Tail(@)])
           /\ Len([n EXCEPT ![i].toC = Tail(@)]) = Len(n)
           /\ i \in DOMAIN n /\ n[i].toA # <<>>
              => /\ CarriesEpoch(Head(n[i].toA))
                 /\ NetOK([n EXCEPT ![i].toA = Tail(@)])
                 /\ Len([n EXCEPT ![i].toA = Tail(@)]) = Len(n)
<1>1. i \in DOMAIN n => ConnOK([n[i] EXCEPT !.toC = Tail(n[i].toC)])
  BY NetFacts DEF ConnOK
<1>2. ASSUME i \in DOMAIN n, n[i].toA # <<>>
      PROVE  /\ CarriesEpoch(Head(n[i].toA))
             /\ ConnOK([n[i] EXCEPT !.toA = Tail(n[i].toA)])
  BY <1>2, NetFacts, QueueHead DEF ConnOK
<1> QED
  BY <1>1, <1>2, NetChange

LEMMA ShutAllKeeps ==
    ASSUME NEW n, NetOK(n)
    PROVE  NetOK(ShutAll(n)) /\ Len(ShutAll(n)) = Len(n)
<1>1. Len(n) \in Nat /\ DOMAIN n = 1 .. Len(n)
  BY NetFacts
<1>2. ASSUME NEW i \in DOMAIN n PROVE ConnOK(ShutC(n, i)[i])
  <2>1. NetOK(ShutC(n, i)) /\ Len(ShutC(n, i)) = Len(n)
    BY ShutKeeps
  <2> QED
    BY <1>1, <2>1, NetFacts
<1> DEFINE T == {ShutC(n, i)[i] : i \in DOMAIN n}
<1>3. ShutAll(n) \in Seq(T) /\ Len(ShutAll(n)) = Len(n)
  <2>1. ShutAll(n) = [i \in 1 .. Len(n) |-> ShutC(n, i)[i]]
    BY <1>1 DEF ShutAll
  <2>2. \A i \in 1 .. Len(n) : ShutC(n, i)[i] \in T
    BY <1>1
  <2> HIDE DEF T
  <2>3. ShutAll(n) \in [1 .. Len(n) -> T]
    BY <2>1, <2>2
  <2> QED
    BY <1>1, <2>3
<1>4. \A c \in T : ConnOK(c)
  BY <1>2
<1> QED
  BY <1>3, <1>4 DEF NetOK

-----------------------------------------------------------------------------
(* The epochs of a session.                                                *)

LeaseOK(l) ==
    /\ DOMAIN l = {"holder", "epoch", "issued", "revoked", "expires", "duration"}
    /\ l.epoch \in Int

\* The coordinator has sent a grant on the connection it serves.
Granted == {"ack", "twice", "beat", "report", "after", "mark", "renewSleep",
            "revokeSleep", "notice", "request", "finish", "linger"}

Processes ==
    /\ scene \in Scenes
    /\ phase \in 1 .. Len(scene.phases)
    /\ DOMAIN co = DOMAIN CStart
    /\ DOMAIN ag = DOMAIN AStart
    /\ NetOK(net)

\* A database from which a lease was granted has that lease.
DatabaseInv ==
    /\ leaseDb = Nothing \/ LeaseOK(leaseDb)
    /\ co.pc \in Granted /\ C.store => LeaseOK(leaseDb)

\* An agent in a session has a connection.
ConnectedInv == ag.pc \notin {"start", "connect", "done"} => ag.conn \in DOMAIN net

\* The watermark is never below what was acknowledged.
EpochInv ==
    /\ watermark \in Int
    /\ ackedEpoch \in Int
    /\ ackedEpoch <= watermark
    /\ EpochNeverBack

SessionInv == Processes /\ DatabaseInv /\ ConnectedInv /\ EpochInv

LEMMA ArgsTyped ==
    ASSUME Processes
    PROVE  C.epoch \in Int /\ C.renewedEpoch \in Int
  BY SceneAssumption DEF Processes, C, Args

LEMMA NewLeaseOK ==
    ASSUME Processes
    PROVE  LeaseOK(NewLease)
  BY ArgsTyped DEF NewLease, LeaseOK

LEMMA ConnectionEndsKeeps ==
    ASSUME Processes, NEW p, DOMAIN p = DOMAIN CStart, NEW n, NetOK(n), Len(n) = Len(net),
           NEW verdict, ConnectionEnds(p, n, verdict)
    PROVE  /\ NetOK(net') /\ Len(net') = Len(net)
           /\ DOMAIN co' = DOMAIN CStart
           /\ co'.pc \notin Granted
<1>1. NetOK(ShutAll(n)) /\ Len(ShutAll(n)) = Len(net)
  BY ShutAllKeeps
<1>2. NetOK(ShutC(n, p.count)) /\ Len(ShutC(n, p.count)) = Len(net)
  BY ShutKeeps
<1>3. "pc" \in DOMAIN p
  BY DEF CStart
<1> QED
  BY <1>1, <1>2, <1>3 DEF ConnectionEnds, Granted

\* What every step of the coordinator does to the rest of the system.
CoordinatorKeeps ==
    /\ scene' = scene /\ phase' = phase /\ ag' = ag
    /\ watermark' = watermark /\ ackedEpoch' = ackedEpoch
    /\ NetOK(net') /\ Len(net') = Len(net)
    /\ DOMAIN co' = DOMAIN CStart
    /\ leaseDb' = Nothing \/ LeaseOK(leaseDb')
    /\ co'.pc \in Granted /\ C.store => LeaseOK(leaseDb')

LEMMA CFailsKeeps ==
    ASSUME SessionInv, NEW p, DOMAIN p = DOMAIN CStart, NEW verdict, CFails(p, verdict)
    PROVE  CoordinatorKeeps
<1>1. /\ NetOK(net') /\ Len(net') = Len(net)
      /\ DOMAIN co' = DOMAIN CStart
      /\ co'.pc \notin Granted
  BY ConnectionEndsKeeps DEF CFails, SessionInv, Processes
<1> QED
  BY <1>1 DEF CFails, CoordinatorKeeps, SessionInv, DatabaseInv

LEMMA CTakenKeeps ==
    ASSUME SessionInv
    PROVE  NetOK(CTaken) /\ Len(CTaken) = Len(net)
  BY ReadKeeps DEF CTaken, SessionInv, Processes

LEMMA DropsKeeps ==
    ASSUME SessionInv, NEW p, DOMAIN p = DOMAIN CStart,
           NEW l, l = Nothing \/ LeaseOK(l), Drops(p, l)
    PROVE  CoordinatorKeeps
<1>1. /\ NetOK(net') /\ Len(net') = Len(net)
      /\ DOMAIN co' = DOMAIN CStart
      /\ co'.pc \notin Granted
  BY CTakenKeeps, ConnectionEndsKeeps DEF Drops, SessionInv
<1> QED
  BY <1>1 DEF Drops, CoordinatorKeeps

LEMMA WithRevocationOK ==
    ASSUME NEW l
    PROVE  /\ LeaseOK(l) => LeaseOK(WithRevocation(l))
           /\ l = Nothing \/ LeaseOK(l) => WithRevocation(l) = Nothing \/ LeaseOK(WithRevocation(l))
  BY DEF WithRevocation, LeaseOK

LEMMA ExtendedOK ==
    ASSUME NEW l, LeaseOK(l)
    PROVE  LeaseOK(Extended(l))
  BY DEF Extended, LeaseOK

\* The result of a renewal carries an epoch when it carries a lease.
LEMMA RenewResultOK ==
    ASSUME SessionInv, NEW nonce, NEW outcome, C.store => LeaseOK(leaseDb)
    PROVE  CarriesEpoch(RenewResult(nonce, outcome))
<1>1. LeaseOK(RenewedLease(IF C.store THEN leaseDb ELSE Nothing))
  <2>1. LeaseOK([NewLease EXCEPT !.epoch = C.renewedEpoch, !.expires = time + C.extension])
    BY ArgsTyped, NewLeaseOK DEF SessionInv, LeaseOK
  <2>2. C.store => LeaseOK(Extended(leaseDb))
    BY ExtendedOK
  <2> QED
    BY <2>1, <2>2 DEF RenewedLease
<1> QED
  BY <1>1 DEF CarriesEpoch, RenewResult, Signed, LeaseOK

LEMMA IssuesGrantKeeps ==
    ASSUME SessionInv, IssuesGrant
    PROVE  CoordinatorKeeps
<1>1. LeaseOK(ResolvedLease)
  BY NewLeaseOK DEF ResolvedLease, SessionInv, DatabaseInv
<1>2. CarriesEpoch(GrantMessage(ResolvedLease))
  BY <1>1 DEF CarriesEpoch, GrantMessage, Signed, LeaseOK
<1>3. CASE \E verdict : CFails(co, verdict)
  BY <1>3, CFailsKeeps DEF SessionInv, Processes
<1>4. CASE /\ net' = SendToA(IF "grantTwice" \in C.hooks
                             THEN SendToA(net, co.count, GrantMessage(ResolvedLease))
                             ELSE net, co.count, GrantMessage(ResolvedLease))
           /\ co' = [co EXCEPT !.pc = "ack", !.grant = GrantMessage(ResolvedLease).lease]
           /\ leaseDb' = IF C.store THEN ResolvedLease ELSE leaseDb
           /\ UNCHANGED <<scene, phase, ag, watermark, time, breaks, ackedEpoch>>
  <2>1. NetOK(net') /\ Len(net') = Len(net)
    BY <1>2, <1>4, SendKeeps DEF SessionInv, Processes
  <2>2. DOMAIN co' = DOMAIN CStart
    BY <1>4 DEF SessionInv, Processes
  <2> QED
    BY <1>1, <1>4, <2>1, <2>2 DEF CoordinatorKeeps, SessionInv, DatabaseInv
<1> QED
  BY <1>3, <1>4 DEF IssuesGrant

\* A step that only reads a frame and moves on.
LEMMA CReadKeeps ==
    ASSUME SessionInv, DOMAIN co' = DOMAIN CStart, co.pc \in Granted \/ co'.pc \notin Granted,
           net' = CTaken,
           UNCHANGED <<scene, phase, ag, leaseDb, watermark, time, breaks, ackedEpoch>>
    PROVE  CoordinatorKeeps
  BY CTakenKeeps DEF CoordinatorKeeps, SessionInv, DatabaseInv

\* A step that leaves connections and the database alone.
LEMMA CMoveKeeps ==
    ASSUME SessionInv, DOMAIN co' = DOMAIN CStart, co.pc \in Granted \/ co'.pc \notin Granted,
           UNCHANGED <<scene, phase, ag, net, leaseDb, watermark, breaks, ackedEpoch>>
    PROVE  CoordinatorKeeps
  BY DEF CoordinatorKeeps, SessionInv, DatabaseInv, Processes

LEMMA RenewalKeeps ==
    ASSUME SessionInv, co.pc = "request", NEW p, DOMAIN p = DOMAIN CStart,
           NEW nonce, NEW outcome, Renewal(p, nonce, outcome)
    PROVE  CoordinatorKeeps
<1> DEFINE stored == IF C.store /\ outcome = 1 THEN Extended(leaseDb) ELSE leaseDb
<1>1. C.store => LeaseOK(leaseDb)
  BY DEF SessionInv, DatabaseInv, Granted
<1>2. /\ stored = Nothing \/ LeaseOK(stored)
      /\ C.store => LeaseOK(stored)
  BY <1>1, ExtendedOK DEF SessionInv, DatabaseInv
<1>3. /\ WithRevocation(stored) = Nothing \/ LeaseOK(WithRevocation(stored))
  BY <1>2, WithRevocationOK
<1> HIDE DEF stored
<1>4. CASE \E v : CFails(p, v)
  BY <1>4, CFailsKeeps
<1>5. CASE Drops(p, IF "revokeBeforeDrop" \in C.hooks THEN WithRevocation(stored) ELSE stored)
  BY <1>2, <1>3, <1>5, DropsKeeps
<1>6. CASE /\ net' = SendToA(CTaken, co.count, RenewResult(nonce, outcome))
           /\ leaseDb' = stored
           /\ co' = [p EXCEPT !.pc = RoundAfter(outcome), !.round = @ + 1,
                              !.outcome = outcome]
           /\ UNCHANGED <<scene, phase, ag, watermark, time, breaks, ackedEpoch>>
  <2>1. NetOK(net') /\ Len(net') = Len(net)
    BY <1>1, <1>6, CTakenKeeps, RenewResultOK, SendKeeps
  <2>2. DOMAIN co' = DOMAIN CStart
    BY <1>6
  <2> QED
    BY <1>2, <1>6, <2>1, <2>2 DEF CoordinatorKeeps
<1> QED
  BY <1>4, <1>5, <1>6 DEF Renewal, stored

LEMMA CoordinatorStepKeeps ==
    ASSUME SessionInv, CoordinatorStep
    PROVE  CoordinatorKeeps
<1>1. /\ DOMAIN co = DOMAIN CStart /\ "pc" \in DOMAIN co /\ NetOK(net)
      /\ leaseDb = Nothing \/ LeaseOK(leaseDb)
      /\ co.pc \in Granted /\ C.store => LeaseOK(leaseDb)
  BY DEF SessionInv, Processes, DatabaseInv, CStart
<1>2. ASSUME NEW v, CFails(co, v) PROVE CoordinatorKeeps
  BY <1>1, <1>2, CFailsKeeps
<1>3. CASE CoordinatorStarts
  BY <1>1, <1>3, CMoveKeeps DEF CoordinatorStarts, Granted
<1>4. CASE Pauses
  BY <1>1, <1>4, CMoveKeeps DEF Pauses, Granted
<1>5. CASE Accepts
  BY <1>1, <1>5, CMoveKeeps DEF Accepts, Granted
<1>6. CASE AcceptDeadline
  <2>1. NetOK(net') /\ Len(net') = Len(net)
    BY <1>1, <1>6, ShutAllKeeps DEF AcceptDeadline
  <2>2. DOMAIN co' = DOMAIN CStart /\ co'.pc \notin Granted
    BY <1>1, <1>6 DEF AcceptDeadline, Granted
  <2> QED
    BY <1>1, <1>6, <2>1, <2>2 DEF AcceptDeadline, CoordinatorKeeps
<1>7. CASE CReadEnds \/ CReadsOther \/ ReadsExtra
  BY <1>2, <1>7 DEF CReadEnds, CReadsOther, ReadsExtra
<1>8. CASE ReadsHello
  <2>1. CASE CFails(co, "protocol")
    BY <1>2, <2>1
  <2>2. CASE ~CFails(co, "protocol")
    BY <1>1, <1>8, <2>2, CReadKeeps DEF ReadsHello, Granted
  <2> QED
    BY <2>1, <2>2
<1>9. CASE IssuesGrant
  BY <1>9, IssuesGrantKeeps
<1>10. CASE ReadsAck
  <2>1. CASE \E v : CFails(co, v)
    BY <1>2, <2>1
  <2>2. CASE \E l : (l = Nothing \/ LeaseOK(l)) /\ Drops(co, l)
    BY <1>1, <2>2, DropsKeeps
  <2>3. CASE /\ DOMAIN co' = DOMAIN CStart /\ net' = CTaken
             /\ UNCHANGED <<scene, phase, ag, leaseDb, watermark, time, breaks, ackedEpoch>>
    BY <1>10, <2>3, CReadKeeps DEF ReadsAck, Granted
  <2>4. WithRevocation(leaseDb) = Nothing \/ LeaseOK(WithRevocation(leaseDb))
    BY <1>1, WithRevocationOK
  <2> QED
    BY <1>1, <1>10, <2>1, <2>2, <2>3, <2>4 DEF ReadsAck
<1>11. CASE ReadsBeat
  <2>1. CASE CFails(co, "protocol")
    BY <1>2, <2>1
  <2>2. CASE ~CFails(co, "protocol")
    BY <1>1, <1>11, <2>2, CReadKeeps DEF ReadsBeat, Granted
  <2> QED
    BY <2>1, <2>2
<1>12. CASE ReadsReport
  <2>1. CASE CFails(co, "protocol")
    BY <1>2, <2>1
  <2>2. CASE ~CFails(co, "protocol")
    BY <1>1, <1>12, <2>2, CReadKeeps DEF ReadsReport, Granted
  <2> QED
    BY <2>1, <2>2
<1>13. CASE AfterAck \/ MarksRevoked
  <2>1. CASE CFails(co, "protocol")
    BY <1>2, <2>1
  <2>2. CASE ~CFails(co, "protocol")
    <3>1. co.pc \in Granted /\ DOMAIN co' = DOMAIN CStart
          /\ UNCHANGED <<scene, phase, ag, net, watermark, ackedEpoch>>
      BY <1>1, <1>13, <2>2 DEF AfterAck, MarksRevoked, Granted
    <3>2. leaseDb' = leaseDb \/ leaseDb' = WithRevocation(leaseDb)
      BY <1>13, <2>2 DEF AfterAck, MarksRevoked
    <3>3. /\ leaseDb' = Nothing \/ LeaseOK(leaseDb')
          /\ C.store => LeaseOK(leaseDb')
      BY <1>1, <3>1, <3>2, WithRevocationOK
    <3> QED
      BY <1>1, <3>1, <3>3 DEF CoordinatorKeeps
  <2> QED
    BY <2>1, <2>2
<1>14. CASE CSleeps
  BY <1>1, <1>14, CMoveKeeps DEF CSleeps, Granted
<1>15. CASE SendsNotice
  <2>1. \A e, l, g : CarriesEpoch([kind |-> "notice", sig |-> g, lease |-> l, epoch |-> e])
    BY DEF CarriesEpoch
  <2>2. NetOK(net') /\ Len(net') = Len(net)
    BY <1>1, <1>15, <2>1, SendKeeps DEF SendsNotice
  <2>3. DOMAIN co' = DOMAIN CStart /\ co.pc \in Granted
    BY <1>1, <1>15 DEF SendsNotice, Granted
  <2> QED
    BY <1>1, <1>15, <2>2, <2>3 DEF SendsNotice, CoordinatorKeeps
<1>16. CASE ReadsRequest
  <2>1. co.pc = "request" /\ co.pc \in Granted
    BY <1>16 DEF ReadsRequest, Granted
  <2> DEFINE m == Head(CConn.toC)
             p == [co EXCEPT !.seen = @ \cup {m.nonce}]
  <2>2. DOMAIN p = DOMAIN CStart
    BY <1>1
  <2> HIDE DEF p
  <2>3. CASE \E v : CFails(p, v)
    BY <2>2, <2>3, CFailsKeeps
  <2>4. CASE \E v : CFails(co, v)
    BY <1>2, <2>4
  <2>5. CASE \E outcome : Renewal(p, m.nonce, outcome)
    BY <2>1, <2>2, <2>5, RenewalKeeps
  <2>6. CASE /\ net' = SendToA(CTaken, co.count, RenewResult(m.nonce, 2))
             /\ co' = [p EXCEPT !.pc = "finish", !.outcome = 2]
             /\ UNCHANGED <<scene, phase, ag, leaseDb, watermark, time, breaks, ackedEpoch>>
    <3>1. NetOK(net') /\ Len(net') = Len(net)
      BY <1>1, <2>1, <2>6, CTakenKeeps, RenewResultOK, SendKeeps
    <3> QED
      BY <1>1, <2>1, <2>2, <2>6, <3>1 DEF CoordinatorKeeps
  <2> QED
    BY <1>16, <2>3, <2>4, <2>5, <2>6 DEF ReadsRequest, p
<1>17. CASE Finishes
  BY <1>1, <1>17, CMoveKeeps DEF Finishes, Granted
<1>18. CASE Lingers
  <2>1. NetOK(net') /\ Len(net') = Len(net) /\ DOMAIN co' = DOMAIN CStart
        /\ co'.pc \notin Granted
    BY <1>1, <1>18, ConnectionEndsKeeps DEF Lingers, SessionInv
  <2> QED
    BY <1>1, <1>18, <2>1 DEF Lingers, CoordinatorKeeps
<1>19. CASE ReadsResume
  <2>1. CASE \E v : CFails(co, v)
    BY <1>2, <2>1
  <2>2. CASE ~\E v : CFails(co, v)
    <3> DEFINE m == Head(CConn.toC)
               answer(outcome) == [kind |-> "resumed", sig |-> TRUE, outcome |-> outcome,
                                   lease |-> IF outcome = 1 THEN Signed(leaseDb, FALSE)
                                             ELSE Nothing]
    <3>1. /\ ConnectionEnds([co EXCEPT !.outcome = ResumeOutcome(m), !.resulted = @ + 1],
                            SendToA(CTaken, co.count, answer(ResumeOutcome(m))), "ok")
          /\ UNCHANGED <<scene, phase, ag, leaseDb, watermark, time, breaks, ackedEpoch>>
      BY <1>19, <2>2 DEF ReadsResume
    <3>2. CarriesEpoch(answer(ResumeOutcome(m)))
      <4>1. ResumeOutcome(m) = 1 => leaseDb # Nothing
        BY DEF ResumeOutcome
      <4> QED
        BY <1>1, <4>1 DEF CarriesEpoch, Signed, LeaseOK
    <3> HIDE DEF answer
    <3>3. /\ NetOK(SendToA(CTaken, co.count, answer(ResumeOutcome(m))))
          /\ Len(SendToA(CTaken, co.count, answer(ResumeOutcome(m)))) = Len(net)
      BY <3>2, CTakenKeeps, SendKeeps
    <3>4. NetOK(net') /\ Len(net') = Len(net) /\ DOMAIN co' = DOMAIN CStart
          /\ co'.pc \notin Granted
      BY <1>1, <3>1, <3>3, ConnectionEndsKeeps DEF SessionInv
    <3> QED
      BY <1>1, <3>1, <3>4 DEF CoordinatorKeeps
  <2> QED
    BY <2>1, <2>2
<1> QED
  BY <1>3, <1>4, <1>5, <1>6, <1>7, <1>8, <1>9, <1>10, <1>11, <1>12, <1>13, <1>14,
     <1>15, <1>16, <1>17, <1>18, <1>19 DEF CoordinatorStep

\* What every step of the agent does to the rest of the system.
AgentKeeps ==
    /\ scene' = scene /\ phase' = phase /\ co' = co /\ leaseDb' = leaseDb
    /\ NetOK(net')
    /\ DOMAIN ag' = DOMAIN AStart
    /\ ConnectedInv'
    /\ EpochInv'

LEMMA SessionEndsKeeps ==
    ASSUME Processes, NEW p, DOMAIN p = DOMAIN AStart, NEW n, NetOK(n), Len(n) = Len(net),
           NEW class, NEW text, SessionEnds(p, n, class, text)
    PROVE  /\ NetOK(net')
           /\ DOMAIN ag' = DOMAIN AStart
           /\ ConnectedInv'
           /\ ag'.held = p.held \/ ag'.held = Nothing
<1>1. NetOK(net')
  BY ShutKeeps DEF SessionEnds
<1>2. "pc" \in DOMAIN p /\ "held" \in DOMAIN p /\ "conn" \in DOMAIN p
  BY DEF AStart
<1>3. DOMAIN ag' = DOMAIN AStart /\ ag'.pc \in {"done", "connect"}
      /\ (ag'.held = p.held \/ ag'.held = Nothing)
  BY <1>2 DEF SessionEnds
<1> QED
  BY <1>1, <1>3 DEF ConnectedInv

LEMMA AEndsKeeps ==
    ASSUME SessionInv, NEW class, NEW text, AEnds(ag, class, text)
    PROVE  AgentKeeps
<1>1. /\ NetOK(net') /\ DOMAIN ag' = DOMAIN AStart /\ ConnectedInv'
      /\ ag'.held = ag.held \/ ag'.held = Nothing
  BY SessionEndsKeeps DEF AEnds, SessionInv, Processes
<1> QED
  BY <1>1 DEF AEnds, AgentKeeps, SessionInv, EpochInv, EpochNeverBack

\* A step inside a session that leaves the lease held and the connection alone.
LEMMA AMoveKeeps ==
    ASSUME SessionInv, DOMAIN ag' = DOMAIN AStart, NetOK(net'), Len(net') = Len(net),
           ag'.held = ag.held, ag'.conn = ag.conn, ag.pc \notin {"start", "connect", "done"},
           UNCHANGED <<scene, phase, co, leaseDb, watermark, ackedEpoch>>
    PROVE  AgentKeeps
<1>1. DOMAIN net' = DOMAIN net
  BY NetFacts DEF SessionInv, Processes
<1>2. ConnectedInv'
  BY <1>1 DEF SessionInv, ConnectedInv
<1>3. EpochInv'
  BY DEF SessionInv, EpochInv, EpochNeverBack
<1> QED
  BY <1>2, <1>3 DEF AgentKeeps

\* Whatever lease gets past the checks is not below the watermark.
LEMMA FenceHolds ==
    ASSUME SessionInv, NEW l, l.epoch \in Int, ~LeaseProblem(l)
    PROVE  /\ ackedEpoch <= l.epoch
           /\ Max({ackedEpoch, l.epoch}) = l.epoch
<1>1. ackedEpoch <= l.epoch
  BY DEF LeaseProblem, FenceAllows, SessionInv, EpochInv
<1>2. Max({ackedEpoch, l.epoch}) \in {ackedEpoch, l.epoch}
      /\ Max({ackedEpoch, l.epoch}) >= l.epoch
  BY MaxOfTwo DEF SessionInv, EpochInv
<1> QED
  BY <1>1, <1>2 DEF SessionInv, EpochInv

\* The first message of the connection an agent reads.
LEMMA AMessageOK ==
    ASSUME SessionInv, ag.pc \notin {"start", "connect", "done"}, AConn.toA # <<>>
    PROVE  /\ CarriesEpoch(AMessage)
           /\ NetOK(ATaken) /\ Len(ATaken) = Len(net)
  BY ReadKeeps DEF SessionInv, Processes, ConnectedInv, AConn, AMessage, ATaken

LEMMA TakesGrantKeeps ==
    ASSUME SessionInv, TakesGrant
    PROVE  AgentKeeps
<1> DEFINE m == AMessage
           p == [ag EXCEPT !.held = m.lease, !.seen = @ \cup {m.attempt},
                           !.deadline = m.lease.expires - SafetyMargin]
<1>1. /\ CarriesEpoch(m) /\ NetOK(ATaken) /\ Len(ATaken) = Len(net) /\ NetOK(net)
      /\ ag.pc = "grant" /\ DOMAIN ag = DOMAIN AStart
  BY AMessageOK DEF TakesGrant, SessionInv, Processes
<1>2. CASE \E c, t : AEnds(ag, c, t)
  BY <1>2, AEndsKeeps
<1>3. CASE ~\E c, t : AEnds(ag, c, t)
  <2>1. /\ GrantProblem(m) = "none"
        /\ watermark' = m.lease.epoch
        /\ UNCHANGED <<scene, phase, co, leaseDb, time, breaks>>
    BY <1>3 DEF TakesGrant
  <2>2. m.kind = "grant" /\ ~LeaseProblem(m.lease)
    BY <2>1 DEF GrantProblem
  <2>3. m.lease.epoch \in Int
    BY <1>1, <2>2 DEF CarriesEpoch
  <2>4. ackedEpoch <= m.lease.epoch /\ Max({ackedEpoch, m.lease.epoch}) = m.lease.epoch
    BY <2>2, <2>3, FenceHolds
  <2>5. /\ DOMAIN p = DOMAIN AStart /\ p.held = m.lease /\ p.conn = ag.conn
        /\ {"pc", "held", "conn"} \subseteq DOMAIN p
    BY <1>1 DEF AStart
  <2>6. CASE LaterProblem(m) # "none"
    <3>1. SessionEnds(p, net, "fatal", LaterProblem(m)) /\ ackedEpoch' = ackedEpoch
      BY <1>3, <2>6 DEF TakesGrant
    <3> HIDE DEF p
    <3>2. /\ NetOK(net') /\ DOMAIN ag' = DOMAIN AStart /\ ConnectedInv'
          /\ ag'.held = m.lease \/ ag'.held = Nothing
      BY <1>1, <2>5, <3>1, SessionEndsKeeps DEF SessionInv
    <3>3. EpochInv'
      BY <2>1, <2>3, <2>4, <3>1, <3>2 DEF SessionInv, EpochInv, EpochNeverBack
    <3> QED
      BY <2>1, <3>2, <3>3 DEF AgentKeeps
  <2>7. CASE LaterProblem(m) = "none"
    <3>1. /\ \E x : net' = SendToC(ATaken, ag.conn, x)
          /\ ackedEpoch' = Max({ackedEpoch, m.lease.epoch})
          /\ ag' = [p EXCEPT !.pc = AfterGrant,
                             !.left = IF A.beats > 0 THEN A.beats ELSE A.reports]
      BY <1>3, <2>7 DEF TakesGrant
    <3> HIDE DEF p
    <3>2. NetOK(net') /\ Len(net') = Len(net)
      BY <1>1, <3>1, SendKeeps
    <3>3. DOMAIN ag' = DOMAIN AStart /\ ag'.held = m.lease /\ ag'.conn = ag.conn
      BY <2>5, <3>1
    <3>4. DOMAIN net' = DOMAIN net
      BY <1>1, <3>2, NetFacts
    <3>5. ConnectedInv'
      BY <1>1, <3>3, <3>4 DEF SessionInv, ConnectedInv
    <3>6. EpochInv'
      BY <2>1, <2>3, <2>4, <3>1, <3>3 DEF EpochInv, EpochNeverBack
    <3> QED
      BY <2>1, <3>2, <3>3, <3>5, <3>6 DEF AgentKeeps
  <2> QED
    BY <2>6, <2>7
<1> QED
  BY <1>2, <1>3

LEMMA TakesResultKeeps ==
    ASSUME SessionInv, TakesResult
    PROVE  AgentKeeps
<1> DEFINE m == AMessage
<1>1. /\ CarriesEpoch(m) /\ NetOK(ATaken) /\ Len(ATaken) = Len(net) /\ NetOK(net)
      /\ ag.pc = "result" /\ DOMAIN ag = DOMAIN AStart
      /\ {"pc", "held", "conn"} \subseteq DOMAIN ag
  BY AMessageOK DEF TakesResult, SessionInv, Processes, AStart
<1>2. CASE \E c, t : AEnds(ag, c, t)
  BY <1>2, AEndsKeeps
<1>3. CASE ~\E c, t : AEnds(ag, c, t)
  <2>1. /\ m.kind = "result" /\ m.outcome = 1 /\ ~LeaseProblem(m.lease)
        /\ net' = ATaken /\ watermark' = m.lease.epoch
        /\ ag' = [ag EXCEPT !.held = m.lease, !.round = @ + 1,
                            !.pc = IF A.expectRevoke = ag.round + 1 THEN "revoke"
                                   ELSE "round"]
        /\ UNCHANGED <<scene, phase, co, leaseDb, time, breaks, ackedEpoch>>
    BY <1>3 DEF TakesResult
  <2>2. m.lease.epoch \in Int
    BY <1>1, <2>1 DEF CarriesEpoch
  <2>3. ackedEpoch <= m.lease.epoch
    BY <2>1, <2>2, FenceHolds
  <2>4. DOMAIN ag' = DOMAIN AStart /\ ag'.held = m.lease /\ ag'.conn = ag.conn
    BY <1>1, <2>1
  <2>5. DOMAIN net' = DOMAIN net
    BY <1>1, <2>1, NetFacts
  <2>6. ConnectedInv'
    BY <1>1, <2>4, <2>5 DEF SessionInv, ConnectedInv
  <2>7. EpochInv'
    BY <2>1, <2>2, <2>3, <2>4 DEF SessionInv, EpochInv, EpochNeverBack
  <2> QED
    BY <1>1, <2>1, <2>4, <2>6, <2>7 DEF AgentKeeps
<1> QED
  BY <1>2, <1>3

LEMMA TakesResumedKeeps ==
    ASSUME SessionInv, TakesResumed
    PROVE  AgentKeeps
<1> DEFINE m == AMessage
           p == [ag EXCEPT !.held = m.lease]
<1>1. /\ CarriesEpoch(m) /\ NetOK(net) /\ DOMAIN ag = DOMAIN AStart
      /\ ag.pc = "resume" /\ "held" \in DOMAIN ag
  BY AMessageOK DEF TakesResumed, SessionInv, Processes, AStart
<1>2. CASE \E c, t : AEnds(ag, c, t)
  BY <1>2, AEndsKeeps
<1>3. CASE ~\E c, t : AEnds(ag, c, t)
  <2>1. /\ m.kind = "resumed" /\ m.outcome = 1 /\ ~LeaseProblem(m.lease)
        /\ SessionEnds(p, net, "ok", "ok")
        /\ watermark' = m.lease.epoch
        /\ ackedEpoch' = Max({ackedEpoch, m.lease.epoch})
        /\ UNCHANGED <<scene, phase, co, leaseDb, time, breaks>>
    BY <1>3 DEF TakesResumed
  <2>2. m.lease.epoch \in Int
    BY <1>1, <2>1 DEF CarriesEpoch
  <2>3. ackedEpoch <= m.lease.epoch /\ Max({ackedEpoch, m.lease.epoch}) = m.lease.epoch
    BY <2>1, <2>2, FenceHolds
  <2>4. DOMAIN p = DOMAIN AStart /\ p.held = m.lease
    BY <1>1
  <2> HIDE DEF p
  <2>5. /\ NetOK(net') /\ DOMAIN ag' = DOMAIN AStart /\ ConnectedInv'
        /\ ag'.held = m.lease \/ ag'.held = Nothing
    BY <1>1, <2>1, <2>4, SessionEndsKeeps DEF SessionInv
  <2>6. EpochInv'
    BY <2>1, <2>2, <2>3, <2>5 DEF EpochInv, EpochNeverBack
  <2> QED
    BY <2>1, <2>5, <2>6 DEF AgentKeeps
<1> QED
  BY <1>2, <1>3

LEMMA AgentStepKeeps ==
    ASSUME SessionInv, AgentStep
    PROVE  AgentKeeps
<1>1. /\ NetOK(net) /\ DOMAIN ag = DOMAIN AStart /\ {"pc", "held", "conn"} \subseteq DOMAIN ag
      /\ EpochInv /\ ConnectedInv
  BY DEF SessionInv, Processes, AStart
<1>2. ASSUME NEW c, NEW t, AEnds(ag, c, t) PROVE AgentKeeps
  BY <1>2, AEndsKeeps
<1>3. CASE AWriteFails \/ AReadEnds \/ Peeks \/ TakesExtra
  BY <1>2, <1>3 DEF AWriteFails, AReadEnds, AReads, Peeks, TakesExtra
<1>4. CASE AgentStarts
  <2>1. DOMAIN ag' = DOMAIN AStart /\ ag'.held = ag.held /\ ag'.pc \in {"done", "connect"}
    BY <1>1, <1>4 DEF AgentStarts
  <2> QED
    BY <1>1, <1>4, <2>1
       DEF AgentStarts, AgentKeeps, ConnectedInv, EpochInv, EpochNeverBack
<1>5. CASE Connects
  <2>1. CASE \E c, t : AEnds(ag, c, t)
    BY <1>2, <2>1
  <2>2. CASE /\ net' = <<[Fresh EXCEPT !.aOpen = FALSE]>>
             /\ UNCHANGED <<scene, phase, co, ag, leaseDb, watermark, time, breaks,
                            ackedEpoch>>
    <3> DEFINE c == [Fresh EXCEPT !.aOpen = FALSE]
    <3>1. ConnOK(c)
      BY EmptyQueue DEF ConnOK, Fresh
    <3> HIDE DEF c
    <3>2. NetOK(<<c>>)
      <4> DEFINE S == {x \in {c} : ConnOK(x)}
      <4>1. c \in S /\ \A x \in S : ConnOK(x)
        BY <3>1
      <4> HIDE DEF S
      <4>2. <<c>> \in Seq(S)
        BY <4>1
      <4> QED
        BY <4>1, <4>2 DEF NetOK
    <3>3. net' = <<c>>
      BY <2>2 DEF c
    <3>4. ag.pc = "connect"
      BY <1>5 DEF Connects
    <3> QED
      BY <1>1, <2>2, <3>2, <3>3, <3>4 DEF AgentKeeps, ConnectedInv, EpochInv, EpochNeverBack
  <2>3. CASE /\ \E q : net' = Append(net, [Fresh EXCEPT !.toC = q])
             /\ ag' = [ag EXCEPT !.conn = Len(net) + 1, !.round = 0,
                                 !.pc = IF "resume" \in A.hooks THEN "resume" ELSE "grant"]
             /\ UNCHANGED <<scene, phase, co, leaseDb, watermark, time, breaks, ackedEpoch>>
    <3>1. \A q : ConnOK([Fresh EXCEPT !.toC = q])
      BY EmptyQueue DEF ConnOK, Fresh
    <3>2. NetOK(net') /\ Len(net') = Len(net) + 1
      BY <1>1, <2>3, <3>1, NetAppend
    <3>3. Len(net) \in Nat /\ DOMAIN net' = 1 .. (Len(net) + 1)
      BY <1>1, <3>2, NetFacts
    <3>4. DOMAIN ag' = DOMAIN AStart /\ ag'.held = ag.held /\ ag'.conn = Len(net) + 1
      BY <1>1, <2>3
    <3> QED
      BY <1>1, <2>3, <3>2, <3>3, <3>4
         DEF AgentKeeps, ConnectedInv, EpochInv, EpochNeverBack
  <2> QED
    BY <1>5, <2>1, <2>2, <2>3 DEF Connects
<1>6. CASE TakesGrant
  BY <1>6, TakesGrantKeeps
<1>7. CASE SendsBeat \/ SendsReport
  <2>1. NetOK(net') /\ Len(net') = Len(net)
    BY <1>1, <1>7, SendKeeps DEF SendsBeat, SendsReport
  <2>2. /\ DOMAIN ag' = DOMAIN AStart /\ ag'.held = ag.held /\ ag'.conn = ag.conn
        /\ ag.pc \notin {"start", "connect", "done"}
        /\ UNCHANGED <<scene, phase, co, leaseDb, watermark, ackedEpoch>>
    BY <1>1, <1>7 DEF SendsBeat, SendsReport
  <2> QED
    BY <2>1, <2>2, AMoveKeeps
<1>8. CASE TakesNotice
  <2>1. CASE \E c, t : AEnds(ag, c, t)
    BY <1>2, <2>1
  <2>2. CASE ~\E c, t : AEnds(ag, c, t)
    <3>1. /\ net' = ATaken /\ ag.pc = "revoke" /\ AConn.toA # <<>>
          /\ UNCHANGED <<scene, phase, co, leaseDb, watermark, ackedEpoch>>
      BY <1>8, <2>2 DEF TakesNotice
    <3>2. DOMAIN ag' = DOMAIN AStart /\ ag'.held = ag.held /\ ag'.conn = ag.conn
      BY <1>1, <1>8, <2>2 DEF TakesNotice
    <3> QED
      BY <3>1, <3>2, AMessageOK, AMoveKeeps
  <2> QED
    BY <2>1, <2>2
<1>9. CASE BeginsRound
  <2>1. CASE \E c, t : AEnds(ag, c, t)
    BY <1>2, <2>1
  <2>2. CASE ~\E c, t : AEnds(ag, c, t)
    <3>1. /\ ag.pc = "round" /\ NetOK(net') /\ Len(net') = Len(net)
          /\ DOMAIN ag' = DOMAIN AStart /\ ag'.held = ag.held /\ ag'.conn = ag.conn
          /\ UNCHANGED <<scene, phase, co, leaseDb, watermark, ackedEpoch>>
      BY <1>1, <1>9, <2>2 DEF BeginsRound
    <3> QED
      BY <3>1, AMoveKeeps
  <2> QED
    BY <2>1, <2>2
<1>10. CASE ADelays
  <2>1. /\ ag.pc = "delay" /\ NetOK(net') /\ Len(net') = Len(net)
        /\ DOMAIN ag' = DOMAIN AStart /\ ag'.held = ag.held /\ ag'.conn = ag.conn
        /\ UNCHANGED <<scene, phase, co, leaseDb, watermark, ackedEpoch>>
    BY <1>1, <1>10 DEF ADelays
  <2> QED
    BY <2>1, AMoveKeeps
<1>11. CASE Asks
  <2>1. CASE \E c, t : AEnds(ag, c, t)
    BY <1>2, <2>1
  <2>2. CASE ~\E c, t : AEnds(ag, c, t)
    <3>1. PICK n : /\ \E x : n = SendToC(net, ag.conn, x)
                   /\ \/ /\ SessionEnds(ag, n, "ambiguous", "AMBIGUOUS_RENEW")
                         /\ UNCHANGED <<scene, phase, co, leaseDb, watermark, time, breaks,
                                        ackedEpoch>>
                      \/ /\ net' = n
                         /\ ag' = [ag EXCEPT !.pc = "result"]
                         /\ UNCHANGED <<scene, phase, co, leaseDb, watermark, time, breaks,
                                        ackedEpoch>>
      BY <1>11, <2>2 DEF Asks
    <3>2. NetOK(n) /\ Len(n) = Len(net)
      BY <1>1, <3>1, SendKeeps
    <3>3. CASE SessionEnds(ag, n, "ambiguous", "AMBIGUOUS_RENEW")
               /\ UNCHANGED <<scene, phase, co, leaseDb, watermark, time, breaks, ackedEpoch>>
      <4>1. /\ NetOK(net') /\ DOMAIN ag' = DOMAIN AStart /\ ConnectedInv'
            /\ ag'.held = ag.held \/ ag'.held = Nothing
        BY <1>1, <3>2, <3>3, SessionEndsKeeps DEF SessionInv
      <4> QED
        BY <1>1, <3>3, <4>1 DEF AgentKeeps, EpochInv, EpochNeverBack
    <3>4. CASE /\ net' = n
               /\ ag' = [ag EXCEPT !.pc = "result"]
               /\ UNCHANGED <<scene, phase, co, leaseDb, watermark, time, breaks, ackedEpoch>>
      <4>1. /\ ag.pc = "ask" /\ DOMAIN ag' = DOMAIN AStart
            /\ ag'.held = ag.held /\ ag'.conn = ag.conn
        BY <1>1, <1>11, <3>4 DEF Asks
      <4> QED
        BY <3>2, <3>4, <4>1, AMoveKeeps
    <3> QED
      BY <3>1, <3>3, <3>4
  <2> QED
    BY <2>1, <2>2
<1>12. CASE TakesResult
  BY <1>12, TakesResultKeeps
<1>13. CASE TakesResumed
  BY <1>13, TakesResumedKeeps
<1> QED
  BY <1>3, <1>4, <1>5, <1>6, <1>7, <1>8, <1>9, <1>10, <1>11, <1>12, <1>13 DEF AgentStep

LEMMA SessionInductive == SessionInv /\ [SessionNext]_seVars => SessionInv'
<1> SUFFICES ASSUME SessionInv, [SessionNext]_seVars PROVE SessionInv'
  OBVIOUS
<1>1. /\ Processes /\ DatabaseInv /\ ConnectedInv /\ EpochInv
      /\ NetOK(net) /\ DOMAIN ag = DOMAIN AStart /\ DOMAIN co = DOMAIN CStart
      /\ {"pc", "held", "conn"} \subseteq DOMAIN ag /\ "pc" \in DOMAIN co
  BY DEF SessionInv, Processes, AStart, CStart
<1>2. CASE CoordinatorStep
  <2>1. CoordinatorKeeps
    BY <1>2, CoordinatorStepKeeps
  <2>2. DOMAIN net' = DOMAIN net
    BY <1>1, <2>1, NetFacts DEF CoordinatorKeeps
  <2>3. Processes'
    BY <1>1, <2>1 DEF CoordinatorKeeps, Processes, CStart, AStart
  <2>4. DatabaseInv'
    BY <2>1 DEF CoordinatorKeeps, DatabaseInv, C, Args, LeaseOK
  <2>5. ConnectedInv' /\ EpochInv'
    BY <1>1, <2>1, <2>2 DEF CoordinatorKeeps, ConnectedInv, EpochInv, EpochNeverBack
  <2> QED
    BY <2>3, <2>4, <2>5 DEF SessionInv
<1>3. CASE AgentStep
  <2>1. AgentKeeps
    BY <1>3, AgentStepKeeps
  <2>2. Processes'
    BY <1>1, <2>1 DEF AgentKeeps, Processes, CStart, AStart
  <2>3. DatabaseInv'
    BY <1>1, <2>1 DEF AgentKeeps, DatabaseInv, C, Args, LeaseOK
  <2> QED
    BY <2>1, <2>2, <2>3 DEF AgentKeeps, SessionInv
<1>4. CASE TimeRuns \/ UNCHANGED seVars \/ (\E i \in DOMAIN net : Breaks(i))
  <2>1. NetOK(net') /\ Len(net') = Len(net)
    BY <1>1, <1>4, ShutKeeps DEF TimeRuns, seVars, Breaks
  <2>2. DOMAIN net' = DOMAIN net
    BY <1>1, <2>1, NetFacts
  <2>3. UNCHANGED <<scene, phase, co, ag, leaseDb, watermark, ackedEpoch>>
    BY <1>4 DEF TimeRuns, seVars, Breaks
  <2>4. Processes'
    BY <1>1, <2>1, <2>3 DEF Processes, CStart, AStart
  <2>5. DatabaseInv'
    BY <1>1, <2>3 DEF DatabaseInv, C, Args, LeaseOK
  <2>6. ConnectedInv' /\ EpochInv'
    BY <1>1, <2>2, <2>3 DEF ConnectedInv, EpochInv, EpochNeverBack
  <2> QED
    BY <2>4, <2>5, <2>6 DEF SessionInv
<1>5. CASE AgentKilled
  <2>1. NetOK(net')
    BY <1>1, <1>5, ShutKeeps DEF AgentKilled
  <2>2. DOMAIN ag' = DOMAIN AStart /\ ag'.held = ag.held /\ ag'.pc = "done"
    BY <1>1, <1>5 DEF AgentKilled
  <2>3. UNCHANGED <<scene, phase, co, leaseDb, watermark, ackedEpoch>>
    BY <1>5 DEF AgentKilled
  <2>4. Processes'
    BY <1>1, <2>1, <2>2, <2>3 DEF Processes, CStart, AStart
  <2>5. DatabaseInv'
    BY <1>1, <2>3 DEF DatabaseInv, C, Args, LeaseOK
  <2>6. ConnectedInv' /\ EpochInv'
    BY <1>1, <2>2, <2>3 DEF ConnectedInv, EpochInv, EpochNeverBack
  <2> QED
    BY <2>4, <2>5, <2>6 DEF SessionInv
<1>6. CASE CoordinatorKilled
  <2>1. NetOK(net') /\ Len(net') = Len(net)
    BY <1>1, <1>6, ShutAllKeeps DEF CoordinatorKilled
  <2>2. DOMAIN net' = DOMAIN net
    BY <1>1, <2>1, NetFacts
  <2>3. DOMAIN co' = DOMAIN CStart /\ co'.pc \notin Granted
    BY <1>1, <1>6 DEF CoordinatorKilled, Granted
  <2>4. UNCHANGED <<scene, phase, ag, leaseDb, watermark, ackedEpoch>>
    BY <1>6 DEF CoordinatorKilled
  <2>5. Processes'
    BY <1>1, <2>1, <2>3, <2>4 DEF Processes, CStart, AStart
  <2>6. DatabaseInv'
    BY <1>1, <2>3, <2>4 DEF DatabaseInv, LeaseOK
  <2>7. ConnectedInv' /\ EpochInv'
    BY <1>1, <2>2, <2>4 DEF ConnectedInv, EpochInv, EpochNeverBack
  <2> QED
    BY <2>5, <2>6, <2>7 DEF SessionInv
<1>7. CASE NextPhase
  <2>1. scene \in Scenes /\ Len(scene.phases) \in Nat /\ phase \in 1 .. Len(scene.phases)
        /\ phase < Len(scene.phases) /\ DOMAIN scene.phases = 1 .. Len(scene.phases)
    BY <1>1, <1>7, SceneAssumption DEF Processes, NextPhase
  <2>2. NetOK(<<>>)
    <3> DEFINE S == {c \in {1} : ConnOK(c)}
    <3>1. \A c \in S : ConnOK(c)
      OBVIOUS
    <3> HIDE DEF S
    <3>2. <<>> \in Seq(S)
      OBVIOUS
    <3> QED
      BY <3>1, <3>2 DEF NetOK
  <2>3. Processes'
    BY <1>7, <2>1, <2>2 DEF NextPhase, Processes, CStart, AStart
  <2>4. leaseDb' = Nothing \/ LeaseOK(leaseDb')
    <3>1. scene.phases[phase + 1].db \in {"same", "new", "older", "revoked"}
      BY <2>1, SceneAssumption
    <3>2. leaseDb' \in {leaseDb, Nothing, WithLowerEpoch(leaseDb), WithRevocation(leaseDb)}
      BY <1>7, <3>1 DEF NextPhase
    <3>3. WithLowerEpoch(leaseDb) = Nothing \/ LeaseOK(WithLowerEpoch(leaseDb))
      BY <1>1 DEF DatabaseInv, WithLowerEpoch, LeaseOK
    <3> QED
      BY <1>1, <3>2, <3>3, WithRevocationOK DEF DatabaseInv
  <2>5. DatabaseInv'
    BY <1>7, <2>4 DEF NextPhase, DatabaseInv, CStart, Granted, LeaseOK
  <2>6. ConnectedInv' /\ EpochInv'
    BY <1>1, <1>7 DEF NextPhase, AStart, ConnectedInv, EpochInv, EpochNeverBack
  <2> QED
    BY <2>3, <2>5, <2>6 DEF SessionInv
<1> QED
  BY <1>2, <1>3, <1>4, <1>5, <1>6, <1>7 DEF SessionNext

(***************************************************************************)
(* Once an agent has acknowledged an epoch, no agent on the same fence     *)
(* database holds a lease of a lower one, for every set of scenes: over    *)
(* every order of the two processes, broken connections, killed processes  *)
(* and databases replaced in between.  The watermark is never below what   *)
(* was acknowledged, and no lease below it gets past the checks.           *)
(* (agent lib.rs verify_and_record_lease, verify_renew_result,             *)
(* run_resume_connection; durable_lease_scope.rs check_and_advance)        *)
(***************************************************************************)
THEOREM SessionEpochNeverBack == SessionSpec => []EpochNeverBack
<1>1. SessionInit => SessionInv
  <2> SUFFICES ASSUME SessionInit PROVE SessionInv
    OBVIOUS
  <2>1. NetOK(<<>>)
    <3> DEFINE S == {c \in {1} : ConnOK(c)}
    <3>1. \A c \in S : ConnOK(c)
      OBVIOUS
    <3> HIDE DEF S
    <3>2. <<>> \in Seq(S)
      OBVIOUS
    <3> QED
      BY <3>1, <3>2 DEF NetOK
  <2> QED
    BY <2>1, SceneAssumption
       DEF SessionInit, SessionInv, Processes, DatabaseInv, ConnectedInv, EpochInv,
           EpochNeverBack, CStart, AStart, Granted
<1>2. SessionInv => EpochNeverBack
  BY DEF SessionInv, EpochInv
<1> QED
  BY <1>1, <1>2, SessionInductive, PTL DEF SessionSpec

-----------------------------------------------------------------------------
(* The keyring.                                                            *)

Version == [key : Nat, active : BOOLEAN, from : Nat, until : Nat]

\* The versions of one signer: no two with one key, all active or none, and at every
\* reading of the clock one of them within its time.
VersionsOK(V) ==
    /\ V \subseteq Version
    /\ \A v \in V : v.from < v.until
    /\ \A v \in V : \A w \in V : v.key = w.key => v = w
    /\ (\A v \in V : v.active) \/ (\A v \in V : ~v.active)
    /\ \A t \in 0 .. MaxKeyClock : \E v \in V : v.from <= t /\ t < v.until

RingOK(r) ==
    /\ DOMAIN r = {"protection", "quarantined", "keys"}
    /\ \A s \in DOMAIN r.keys : VersionsOK(r.keys[s])

\* A revocation that a save has written is in the file, and in every keyring.
KeyringInv ==
    /\ keyClock \in 0 .. MaxKeyClock
    /\ saving => ring # Absent
    /\ ring # Absent => RingOK(ring) /\ savedRevoked \subseteq Revoked(ring)
    /\ file \notin {Absent, Torn} => RingOK(file) /\ savedRevoked \subseteq Revoked(file)
    /\ file = Absent => savedRevoked = {}

LEMMA FirstVersionOK == VersionsOK({FirstVersion})
<1>1. FirstVersion \in Version
  BY KeyringAssumption DEF FirstVersion, Forever, Version
<1>3. /\ FirstVersion.key = 1 /\ FirstVersion.active
      /\ FirstVersion.from = 0 /\ FirstVersion.until = Forever
  BY DEF FirstVersion
<1>4. Forever \in Nat /\ \A t \in 0 .. MaxKeyClock : 0 <= t /\ t < Forever
  BY KeyringAssumption DEF Forever
<1>5. 0 < Forever
  BY KeyringAssumption DEF Forever
<1> QED
  BY <1>1, <1>3, <1>4, <1>5 DEF VersionsOK

LEMMA RevokedVersionsOK ==
    ASSUME NEW V, VersionsOK(V)
    PROVE  VersionsOK({[v EXCEPT !.active = FALSE] : v \in V})
<1> DEFINE f == [v \in V |-> [v EXCEPT !.active = FALSE]]
           W == {f[v] : v \in V}
<1>1. \A v \in V : /\ f[v] \in Version /\ ~f[v].active
                   /\ f[v].key = v.key /\ f[v].from = v.from /\ f[v].until = v.until
  <2> SUFFICES ASSUME NEW v \in V
               PROVE  /\ f[v] \in Version /\ ~f[v].active
                      /\ f[v].key = v.key /\ f[v].from = v.from /\ f[v].until = v.until
    OBVIOUS
  <2>1. v \in Version /\ f[v] = [v EXCEPT !.active = FALSE]
    BY DEF VersionsOK
  <2> QED
    BY <2>1 DEF Version
<1>2. W = {[v EXCEPT !.active = FALSE] : v \in V}
  OBVIOUS
<1> HIDE DEF f
<1>6. \A v \in V : v.from < v.until
  BY DEF VersionsOK
<1>7. \A v \in V : \A w \in V : v.key = w.key => v = w
  BY DEF VersionsOK
<1>8. \A t \in 0 .. MaxKeyClock : \E v \in V : v.from <= t /\ t < v.until
  BY DEF VersionsOK
<1>9. VersionsOK(W)
  <2>1. W \subseteq Version /\ \A w \in W : ~w.active
    BY <1>1
  <2>2. \A w \in W : w.from < w.until
    BY <1>1, <1>6
  <2>3. \A v \in W : \A w \in W : v.key = w.key => v = w
    BY <1>1, <1>7
  <2>4. \A t \in 0 .. MaxKeyClock : \E w \in W : w.from <= t /\ t < w.until
    BY <1>1, <1>8
  <2> HIDE DEF W
  <2> QED
    BY <2>1, <2>2, <2>3, <2>4 DEF VersionsOK
<1> QED
  BY <1>2, <1>9

\* A rotation leaves a key for every reading of the clock: the old one where it was
\* valid, for one grace period more, and the new one from now on.  That the new key
\* is none of the old ones is what rotate checks.
LEMMA RotatedVersionsOK ==
    ASSUME NEW V, VersionsOK(V), \A v \in V : v.active, NEW now \in 0 .. MaxKeyClock,
           NEW key \in Nat, \A v \in V : v.key # key
    PROVE  /\ VersionsOK(RotatedVersions(V, key, now))
           /\ \A v \in RotatedVersions(V, key, now) : v.active
<1> DEFINE f == [v \in V |-> IF VersionIsValid(v, now)
                             THEN [v EXCEPT !.until = now + Grace] ELSE v]
           W == {f[v] : v \in V}
           new == [key |-> key, active |-> TRUE, from |-> now, until |-> Forever]
<1>1. now \in Nat /\ Grace \in Nat /\ Grace > 0 /\ Forever \in Nat /\ now < Forever
      /\ MaxKeyClock \in Nat /\ \A t \in 0 .. MaxKeyClock : t < Forever
  BY KeyringAssumption DEF Forever
<1>3. ASSUME NEW v \in V
      PROVE  /\ f[v] \in Version /\ f[v].active
             /\ f[v].key = v.key /\ f[v].from = v.from
             /\ f[v].until = v.until \/ (f[v].until = now + Grace /\ v.from <= now)
  <2>1. v \in Version /\ v.active
    BY DEF VersionsOK
  <2>2. CASE VersionIsValid(v, now)
    <3>1. f[v] = [v EXCEPT !.until = now + Grace] /\ v.from <= now
      BY <2>2 DEF VersionIsValid
    <3> QED
      BY <1>1, <2>1, <3>1 DEF Version
  <2>3. CASE ~VersionIsValid(v, now)
    <3>1. f[v] = v
      BY <2>3
    <3> QED
      BY <2>1, <3>1
  <2> QED
    BY <2>2, <2>3
<1>4. RotatedVersions(V, key, now) = W \cup {new}
  BY DEF RotatedVersions
<1> HIDE DEF f
<1>6. /\ V \subseteq Version
      /\ \A v \in V : v.from < v.until
      /\ \A v \in V : \A w \in V : v.key = w.key => v = w
      /\ \A t \in 0 .. MaxKeyClock : \E v \in V : v.from <= t /\ t < v.until
  BY DEF VersionsOK
<1>9. \A w \in W : w \in Version /\ w.active /\ w.key # key /\ w.from < w.until
  <2> SUFFICES ASSUME NEW v \in V
               PROVE  /\ f[v] \in Version /\ f[v].active /\ f[v].key # key
                      /\ f[v].from < f[v].until
    OBVIOUS
  <2>1. v.from \in Nat /\ v.until \in Nat
    BY <1>6 DEF Version
  <2> QED
    BY <1>1, <1>3, <1>6, <2>1
<1>10. \A v \in W : \A w \in W : v.key = w.key => v = w
  BY <1>3, <1>6
<1>11. \A t \in 0 .. MaxKeyClock : t < now => \E w \in W : w.from <= t /\ t < w.until
  <2> SUFFICES ASSUME NEW t \in 0 .. MaxKeyClock, t < now
               PROVE  \E w \in W : w.from <= t /\ t < w.until
    OBVIOUS
  <2>1. PICK v \in V : v.from <= t /\ t < v.until
    BY <1>6
  <2>2. f[v] \in W /\ f[v].from <= t
    BY <1>3, <2>1
  <2>3. t < f[v].until
    BY <1>1, <1>3, <2>1
  <2> QED
    BY <2>2, <2>3
<1>12. new \in Version /\ new.active /\ new.from = now /\ new.until = Forever
       /\ new.key = key
  BY <1>1 DEF Version
<1> HIDE DEF W, new
<1>15. \A v \in W \cup {new} : v \in Version /\ v.active /\ v.from < v.until
  BY <1>1, <1>9, <1>12
<1>16. \A v \in W \cup {new} : \A w \in W \cup {new} : v.key = w.key => v = w
  <2>1. \A w \in W : w.key # new.key
    BY <1>9, <1>12
  <2> QED
    BY <1>10, <2>1
<1>17. \A t \in 0 .. MaxKeyClock : \E v \in W \cup {new} : v.from <= t /\ t < v.until
  <2> SUFFICES ASSUME NEW t \in 0 .. MaxKeyClock
               PROVE  \E v \in W \cup {new} : v.from <= t /\ t < v.until
    OBVIOUS
  <2>1. CASE t < now
    BY <1>11, <2>1
  <2>2. CASE now <= t
    BY <1>1, <1>12, <2>2
  <2> QED
    BY <1>1, <2>1, <2>2
<1> QED
  BY <1>4, <1>15, <1>16, <1>17 DEF VersionsOK

\* Putting versions of one signer into a keyring leaves the others alone.
LEMMA WithSignerOK ==
    ASSUME NEW r, RingOK(r), NEW s, NEW V, VersionsOK(V),
           s \in Revoked(r) => \A v \in V : ~v.active
    PROVE  RingOK(WithSigner(r, s, V)) /\ Revoked(r) \subseteq Revoked(WithSigner(r, s, V))
<1> DEFINE k == [t \in DOMAIN r.keys \cup {s} |-> IF t = s THEN V ELSE r.keys[t]]
<1>1. DOMAIN k = DOMAIN r.keys \cup {s} /\ \A t \in DOMAIN k : k[t] = IF t = s THEN V ELSE r.keys[t]
  OBVIOUS
<1>2. WithSigner(r, s, V) = [r EXCEPT !.keys = k]
  BY DEF WithSigner
<1> HIDE DEF k
<1>3. DOMAIN WithSigner(r, s, V) = DOMAIN r /\ WithSigner(r, s, V).keys = k
  BY <1>2 DEF RingOK
<1>4. RingOK(WithSigner(r, s, V))
  BY <1>1, <1>3 DEF RingOK
<1>5. Revoked(r) \subseteq Revoked(WithSigner(r, s, V))
  BY <1>1, <1>3 DEF Revoked
<1> QED
  BY <1>4, <1>5

\* An operation on a keyring in memory that takes back no revocation.
LEMMA RingStep ==
    ASSUME KeyringInv, ring # Absent, RingOK(ring'), Revoked(ring) \subseteq Revoked(ring'),
           UNCHANGED <<file, saving, keyClock, savedRevoked>>,
           ring' = Absent => ~saving
    PROVE  KeyringInv'
<1>1. savedRevoked' \subseteq Revoked(ring')
  BY DEF KeyringInv
<1>2. file' \notin {Absent, Torn} => RingOK(file') /\ savedRevoked' \subseteq Revoked(file')
  BY DEF KeyringInv
<1>3. keyClock' \in 0 .. MaxKeyClock /\ (saving' => ring' # Absent)
      /\ (file' = Absent => savedRevoked' = {})
  BY DEF KeyringInv
<1>4. RingOK(ring)' /\ Revoked(ring)' = Revoked(ring')
  BY DEF RingOK, VersionsOK, Version, Revoked
<1>5. file' \notin {Absent, Torn} => RingOK(file)' /\ savedRevoked' \subseteq Revoked(file)'
  BY <1>2 DEF RingOK, VersionsOK, Version, Revoked
<1> QED
  BY <1>1, <1>3, <1>4, <1>5 DEF KeyringInv

LEMMA KeyringInductive == KeyringInv /\ [KeyringNext]_krVars => KeyringInv'
<1> SUFFICES ASSUME KeyringInv, [KeyringNext]_krVars PROVE KeyringInv'
  OBVIOUS
<1>1. CASE NewRing
  <2>1. /\ savedRevoked = {} /\ file = Absent
        /\ UNCHANGED <<file, saving, keyClock, savedRevoked>>
    BY <1>1 DEF NewRing, KeyringInv
  <2>2. RingOK(ring') /\ ~saving
    BY <1>1 DEF NewRing, KeyringInv, RingOK
  <2> QED
    BY <2>1, <2>2 DEF KeyringInv
<1>2. CASE LoadRing
  BY <1>2 DEF LoadRing, KeyringInv
<1>3. ASSUME NEW s \in Signers, Insert(s) PROVE KeyringInv'
  <2>1. /\ ring # Absent /\ ~saving /\ ring' = WithSigner(ring, s, {FirstVersion})
        /\ UNCHANGED <<file, saving, keyClock, savedRevoked>>
    BY <1>3 DEF Insert, Idle
  <2>2. s \notin Revoked(ring)
    BY <1>3 DEF Insert, Revoked
  <2>3. RingOK(ring') /\ Revoked(ring) \subseteq Revoked(ring')
    BY <2>1, <2>2, FirstVersionOK, WithSignerOK DEF KeyringInv
  <2> QED
    BY <2>1, <2>3, RingStep
<1>4. ASSUME NEW s \in Signers, RevokeSigner(s) PROVE KeyringInv'
  <2> DEFINE V == {[v EXCEPT !.active = FALSE] : v \in ring.keys[s]}
  <2>1. /\ ring # Absent /\ ~saving /\ s \in DOMAIN ring.keys
        /\ ring' = WithSigner(ring, s, V)
        /\ UNCHANGED <<file, saving, keyClock, savedRevoked>>
    BY <1>4 DEF RevokeSigner, Idle
  <2>2. RingOK(ring) /\ VersionsOK(ring.keys[s])
    BY <2>1 DEF KeyringInv, RingOK
  <2>3. VersionsOK(V)
    BY <2>2, RevokedVersionsOK
  <2>4. \A v \in V : ~v.active
    <3> SUFFICES ASSUME NEW v \in ring.keys[s] PROVE ~[v EXCEPT !.active = FALSE].active
      OBVIOUS
    <3>1. v \in Version
      BY <2>2 DEF VersionsOK
    <3> QED
      BY <3>1 DEF Version
  <2> HIDE DEF V
  <2>5. RingOK(ring') /\ Revoked(ring) \subseteq Revoked(ring')
    BY <2>1, <2>2, <2>3, <2>4, WithSignerOK
  <2> QED
    BY <2>1, <2>5, RingStep
<1>5. ASSUME NEW s \in Signers, SetQuarantine(s) PROVE KeyringInv'
  <2>1. /\ ring # Absent /\ ~saving /\ ring' = [ring EXCEPT !.quarantined = ~ring.quarantined]
        /\ UNCHANGED <<file, saving, keyClock, savedRevoked>>
    BY <1>5 DEF SetQuarantine, Idle
  <2>2. RingOK(ring)
    BY <2>1 DEF KeyringInv
  <2>3. DOMAIN ring' = DOMAIN ring /\ ring'.keys = ring.keys
    BY <2>1, <2>2 DEF RingOK
  <2>4. RingOK(ring') /\ Revoked(ring) \subseteq Revoked(ring')
    BY <2>2, <2>3 DEF RingOK, Revoked
  <2> QED
    BY <2>1, <2>4, RingStep
<1>6. ASSUME NEW s \in Signers, NEW key \in 1 .. MaxVersions, Rotate(s, key)
      PROVE  KeyringInv'
  <2>1. /\ ring # Absent /\ ~saving /\ StatusAt(ring, s, keyClock) = "ACTIVE"
        /\ key \in Nat /\ \A v \in ring.keys[s] : v.key # key
        /\ ring' = WithSigner(ring, s, RotatedVersions(ring.keys[s], key, keyClock))
        /\ UNCHANGED <<file, saving, keyClock, savedRevoked>>
    BY <1>6, KeyringAssumption DEF Rotate, Idle
  <2>2. s \in DOMAIN ring.keys /\ \E v \in ring.keys[s] : v.active
    BY <2>1 DEF StatusAt, VersionIsValid
  <2>3. RingOK(ring) /\ VersionsOK(ring.keys[s])
    BY <2>1, <2>2 DEF KeyringInv, RingOK
  <2>4. \A v \in ring.keys[s] : v.active
    BY <2>2, <2>3 DEF VersionsOK
  <2>5. VersionsOK(RotatedVersions(ring.keys[s], key, keyClock))
    BY <2>1, <2>3, <2>4, RotatedVersionsOK DEF KeyringInv
  <2>6. s \notin Revoked(ring)
    BY <2>2 DEF Revoked
  <2>7. RingOK(ring') /\ Revoked(ring) \subseteq Revoked(ring')
    BY <2>1, <2>3, <2>5, <2>6, WithSignerOK
  <2> QED
    BY <2>1, <2>7, RingStep
<1>7. CASE SaveBegins
  BY <1>7, KeyringAssumption DEF SaveBegins, Idle, KeyringInv
<1>8. CASE SaveEnds
  BY <1>8 DEF SaveEnds, KeyringInv
<1>9. CASE SaveFails
  BY <1>9 DEF SaveFails, KeyringInv
<1>10. CASE RingProcessEnds
  BY <1>10 DEF RingProcessEnds, KeyringInv
<1>11. CASE SetKeyClock
  BY <1>11 DEF SetKeyClock, KeyringInv
<1>12. CASE UNCHANGED krVars
  BY <1>12 DEF krVars, KeyringInv
<1> QED
  BY <1>1, <1>2, <1>3, <1>4, <1>5, <1>6, <1>7, <1>8, <1>9, <1>10, <1>11, <1>12
     DEF KeyringNext

(***************************************************************************)
(* A written revocation is final, every signer that is neither revoked nor *)
(* quarantined has a valid key at every reading of the clock, no key is    *)
(* both a candidate and retired, and a finished save can be loaded: for    *)
(* every set of signers, any number of rotations and every grace period.   *)
(* (keyring.rs rotate, revoke, version_is_valid, lookup_candidates, save,  *)
(* load)                                                                   *)
(***************************************************************************)
THEOREM KeyringKeysHold == KeyringSpec => []KeysHold
<1>1. KeyringInit => KeyringInv
  BY KeyringAssumption DEF KeyringInit, KeyringInv
<1>2. KeyringInv => KeysHold
  <2> SUFFICES ASSUME KeyringInv PROVE KeysHold
    OBVIOUS
  <2>1. file \notin {Absent, Torn} => Readable(file)
    BY DEF KeyringInv, RingOK, VersionsOK, Readable
  <2>2. ASSUME ring # Absent, NEW s \in savedRevoked
        PROVE  LookupCandidates(ring, s, keyClock) = {}
    <3>1. s \in DOMAIN ring.keys /\ \A v \in ring.keys[s] : ~v.active
      BY <2>2 DEF KeyringInv, Revoked
    <3> QED
      BY <3>1 DEF LookupCandidates, VersionIsValid
  <2>3. ASSUME ring # Absent, NEW s \in DOMAIN ring.keys
        PROVE  /\ (~ring.quarantined /\ s \notin Revoked(ring))
                     => LookupCandidates(ring, s, keyClock) # {}
               /\ LookupCandidates(ring, s, keyClock)
                     \cap LookupRetired(ring, s, keyClock) = {}
    <3>1. VersionsOK(ring.keys[s]) /\ keyClock \in 0 .. MaxKeyClock
      BY <2>3 DEF KeyringInv, RingOK
    <3>2. ASSUME ~ring.quarantined, s \notin Revoked(ring)
          PROVE  LookupCandidates(ring, s, keyClock) # {}
      <4>1. \A v \in ring.keys[s] : v.active
        BY <2>3, <3>1, <3>2 DEF VersionsOK, Revoked
      <4>2. PICK v \in ring.keys[s] : v.from <= keyClock /\ keyClock < v.until
        BY <3>1 DEF VersionsOK
      <4>3. VersionIsValid(v, keyClock)
        BY <4>1, <4>2 DEF VersionIsValid
      <4>4. v.key \in LookupCandidates(ring, s, keyClock)
        BY <2>3, <3>2, <4>3 DEF LookupCandidates
      <4> QED
        BY <4>4
    <3>3. ASSUME NEW k \in LookupCandidates(ring, s, keyClock),
                 k \in LookupRetired(ring, s, keyClock)
          PROVE  FALSE
      <4>1. PICK v \in ring.keys[s] : VersionIsValid(v, keyClock) /\ k = v.key
        BY <3>3 DEF LookupCandidates
      <4>2. PICK w \in ring.keys[s] : ~VersionIsValid(w, keyClock) /\ k = w.key
        BY <3>3 DEF LookupRetired
      <4> QED
        BY <3>1, <4>1, <4>2 DEF VersionsOK
    <3> QED
      BY <3>2, <3>3
  <2> QED
    BY <2>1, <2>2, <2>3 DEF KeysHold
<1> QED
  BY <1>1, <1>2, KeyringInductive, PTL DEF KeyringSpec
=============================================================================
