---------------------------- MODULE ConcurrentLane ----------------------------
(***************************************************************************)
(* The concurrent grant lane of the coordinator: one thread for each       *)
(* connection, a replay guard behind one lock that a thread holds while it *)
(* reads from its connection, and a count of open sessions that a thread   *)
(* may have to wait for.  A session is one hello, one grant and one        *)
(* acknowledgement; the nonces of an agent do not change from session to   *)
(* session.  Leases are scoped by the name of the agent, so that threads   *)
(* share no lease, and are left out.                                       *)
(***************************************************************************)
EXTENDS Integers, FiniteSets

CONSTANTS
    Casts             \* who connects: sequences of [agent, kind], and the
                      \* number of sessions that must overlap

VARIABLES
    cast,
    laneMain,         \* the main thread: start, accept, join, ok, failed
    taken,            \* connections accepted
    thread,           \* what the thread of a connection does, and how it ended
    client,           \* what the agent of a connection does
    replayHeld,       \* the thread that holds the replay guard, or 0
    nonces,           \* what the replay guard has seen
    open,             \* sessions open now
    peak              \* and the most that were open at a time

laneVars == <<cast, laneMain, taken, thread, client, replayHeld, nonces, open, peak>>

Conns == DOMAIN cast.clients
AgentOf(i) == cast.clients[i].agent
Kind(i) == cast.clients[i].kind

-----------------------------------------------------------------------------
(* The agents: run_multi_agent_session. *)

\* A mute client connects and says nothing more; an absent one never connects.
\* A connection is made while the process listens, accepted or not yet.
LaneConnects(i) ==
    /\ client[i] = "start"
    /\ client' = [client EXCEPT ![i] =
                    IF Kind(i) = "absent" \/ laneMain \in {"ok", "failed"} THEN "gone"
                    ELSE IF Kind(i) = "mute" THEN "mute" ELSE "hello"]
    /\ UNCHANGED <<cast, laneMain, taken, thread, replayHeld, nonces, open, peak>>

\* The grant is there: acknowledged, by most clients for the grant they got.
LaneAcknowledges(i) ==
    /\ client[i] = "granted"
    /\ client' = [client EXCEPT ![i] = "acked"]
    /\ UNCHANGED <<cast, laneMain, taken, thread, replayHeld, nonces, open, peak>>

\* The agent's own ten seconds for the grant, a closed connection, a grant it
\* refuses, or a client that goes away.
LaneGivesUp(i) ==
    /\ client[i] \in {"hello", "mute", "granted"}
    /\ client' = [client EXCEPT ![i] = "gone"]
    /\ UNCHANGED <<cast, laneMain, taken, thread, replayHeld, nonces, open, peak>>

LaneClientStep(i) == LaneConnects(i) \/ LaneAcknowledges(i) \/ LaneGivesUp(i)

-----------------------------------------------------------------------------
(* The main thread: run_multi_agent. *)

\* One identity is no lane.
LaneStarts ==
    /\ laneMain = "start"
    /\ laneMain' = IF cast.identities < 2 THEN "failed" ELSE "accept"
    /\ UNCHANGED <<cast, taken, thread, client, replayHeld, nonces, open, peak>>

\* Connections are accepted in the order they were made; the model lets any be next.
LaneAccepts(i) ==
    /\ laneMain = "accept"
    /\ thread[i].pc = "none"
    /\ client[i] \notin {"start"} /\ Kind(i) # "absent"
    /\ thread' = [thread EXCEPT ![i].pc = "lockHello"]
    /\ taken' = taken + 1
    /\ laneMain' = IF taken + 1 = cast.expected THEN "join" ELSE "accept"
    /\ UNCHANGED <<cast, client, replayHeld, nonces, open, peak>>

\* No connection in time: the process ends, and its threads with it.
LaneAcceptTimeout ==
    /\ laneMain = "accept"
    /\ laneMain' = "failed"
    /\ thread' = [i \in Conns |->
                    IF thread[i].pc \in {"none", "done"} THEN thread[i]
                    ELSE [pc |-> "done", end |-> "cut"]]
    /\ UNCHANGED <<cast, taken, client, replayHeld, nonces, open, peak>>

LaneJoins ==
    /\ laneMain = "join"
    /\ Cardinality({i \in Conns : thread[i].pc = "done"}) = cast.expected
    /\ laneMain' = IF \A i \in Conns : thread[i].end \in {"none", "ok"} THEN "ok"
                   ELSE "failed"
    /\ UNCHANGED <<cast, taken, thread, client, replayHeld, nonces, open, peak>>

LaneMainStep ==
    \/ LaneStarts \/ LaneAcceptTimeout \/ LaneJoins
    \/ \E i \in Conns : LaneAccepts(i)

-----------------------------------------------------------------------------
(* The thread of a connection: serve. *)

\* The guard of OpenSession is dropped on every way out behind it.
ThreadEnds(i, end, opened) ==
    /\ thread' = [thread EXCEPT ![i] = [pc |-> "done", end |-> end]]
    /\ open' = IF opened THEN open - 1 ELSE open

Locks(i) ==
    /\ thread[i].pc \in {"lockHello", "lockAck"}
    /\ replayHeld = 0
    /\ replayHeld' = i
    /\ thread' = [thread EXCEPT ![i].pc = IF @ = "lockHello" THEN "readHello" ELSE "readAck"]
    /\ UNCHANGED <<cast, laneMain, taken, client, nonces, open, peak>>

\* read_hello: the frame, its replay check, its mode; the lock is free afterwards.
ThreadReadsHello(i) ==
    /\ thread[i].pc = "readHello"
    /\ client[i] = "hello"
    /\ replayHeld' = 0
    /\ IF <<"hello", AgentOf(i)>> \in nonces
       THEN ThreadEnds(i, "replay", FALSE) /\ UNCHANGED nonces
       ELSE /\ nonces' = nonces \cup {<<"hello", AgentOf(i)>>}
            /\ IF Kind(i) = "otherMode" THEN ThreadEnds(i, "mode", FALSE)
               ELSE thread' = [thread EXCEPT ![i].pc = "enter"] /\ UNCHANGED open
    /\ UNCHANGED <<cast, laneMain, taken, client, peak>>

\* Nothing came within ten seconds, or the other end is closed: while the thread
\* waited, nobody else could read.
ThreadReadFails(i) ==
    /\ \/ thread[i].pc = "readHello" /\ client[i] # "hello"
       \/ thread[i].pc = "readAck" /\ client[i] # "acked"
    /\ replayHeld' = 0
    /\ ThreadEnds(i, "read", thread[i].pc = "readAck")
    /\ UNCHANGED <<cast, laneMain, taken, client, nonces, peak>>

\* OpenSession::enter, and the first look of await_required_overlap.
ThreadEnters(i) ==
    /\ thread[i].pc = "enter"
    /\ open' = open + 1
    /\ peak' = IF open + 1 > peak THEN open + 1 ELSE peak
    /\ thread' = [thread EXCEPT ![i].pc = "wait"]
    /\ UNCHANGED <<cast, laneMain, taken, client, replayHeld, nonces>>

OverlapReached == open >= cast.required

ThreadPasses(i) ==
    /\ thread[i].pc = "wait"
    /\ OverlapReached
    /\ thread' = [thread EXCEPT ![i].pc = "issue"]
    /\ UNCHANGED <<cast, laneMain, taken, client, replayHeld, nonces, open, peak>>

ThreadOverlapTimeout(i) ==
    /\ thread[i].pc = "wait"
    /\ ~OverlapReached
    /\ ThreadEnds(i, "CONCURRENCY_NOT_OBSERVED", TRUE)
    /\ UNCHANGED <<cast, laneMain, taken, client, replayHeld, nonces, peak>>

\* issue_grant or signed_grant_from_stored, and the frame that carries the grant.  A
\* store, a key file or the connection may fail, and with a control database there
\* may be no work for the node.  A client that has given up may not be noticed yet.
ThreadIssues(i) ==
    /\ thread[i].pc = "issue"
    /\ \/ /\ thread' = [thread EXCEPT ![i].pc = "lockAck"]
          /\ client' = [client EXCEPT ![i] = IF @ = "hello" THEN "granted" ELSE @]
          /\ UNCHANGED open
       \/ /\ ThreadEnds(i, "GRANT_FAILED", TRUE)
          /\ UNCHANGED client
       \/ /\ cast.stored
          /\ ThreadEnds(i, "NO_WORK_FOR_NODE", TRUE)
          /\ UNCHANGED client
    /\ UNCHANGED <<cast, laneMain, taken, replayHeld, nonces, peak>>

\* read_ack and what the acknowledgement must name.
ThreadReadsAck(i) ==
    /\ thread[i].pc = "readAck"
    /\ client[i] = "acked"
    /\ replayHeld' = 0
    /\ nonces' = nonces \cup {<<"ack", AgentOf(i)>>}
    /\ ThreadEnds(i, IF <<"ack", AgentOf(i)>> \in nonces THEN "replay"
                     ELSE IF Kind(i) = "otherAck" THEN "ACK_REJECTED" ELSE "ok", TRUE)
    /\ UNCHANGED <<cast, laneMain, taken, client, peak>>

ThreadStep(i) ==
    \/ Locks(i) \/ ThreadReadsHello(i) \/ ThreadReadFails(i) \/ ThreadEnters(i)
    \/ ThreadPasses(i) \/ ThreadOverlapTimeout(i) \/ ThreadIssues(i) \/ ThreadReadsAck(i)

LaneInit ==
    /\ cast \in Casts
    /\ laneMain = "start"
    /\ taken = 0
    /\ thread = [i \in Conns |-> [pc |-> "none", end |-> "none"]]
    /\ client = [i \in Conns |-> "start"]
    /\ replayHeld = 0
    /\ nonces = {}
    /\ open = 0
    /\ peak = 0

LaneNext ==
    \/ LaneMainStep
    \/ \E i \in Conns : LaneClientStep(i) \/ ThreadStep(i)

-----------------------------------------------------------------------------

\* The process of the lane has ended.
LaneOver == laneMain \in {"ok", "failed"}
=============================================================================
