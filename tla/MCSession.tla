------------------------------ MODULE MCSession ------------------------------
(***************************************************************************)
(* Sessions and what they rest on, for TLC: the self test's scenes and     *)
(* scenes in which anything may break, the replay guards, the keyring      *)
(* file, the concurrent lane, and the files of the run ledger that an      *)
(* agent opens before its session.  They share no state here, so a         *)
(* behaviour looks at one of them: focus is chosen at the start, and the   *)
(* others stay as they begin.                                              *)
(***************************************************************************)
EXTENDS SessionScenes, ReplayGuard, Keyring, ConcurrentLane, RunLedgerFiles

CONSTANTS a1, a2, a3, g1, g2

VARIABLES focus

msVars == <<focus, seVars, rgVars, krVars, laneVars, ledgerVars>>

-----------------------------------------------------------------------------
(* Constants. *)

MCScenes == SelftestScenes \cup FreeScenes

\* A hello and a renewal of one agent, and a long-lived renewal of another.
MCEnvelopes ==
    {[signer |-> 1, domain |-> "hello", nonce |-> 1, issued |-> 2, expires |-> 4],
     [signer |-> 1, domain |-> "renew", nonce |-> 1, issued |-> 3, expires |-> 4],
     [signer |-> 2, domain |-> "renew", nonce |-> 1, issued |-> 2, expires |-> 6]}

\* Two connections: a client of every kind beside a good one, another agent or the
\* same again, with and without an overlap that is asked for.
CastOf(first, second, required, stored) ==
    [clients |-> <<[agent |-> "a", kind |-> first], [agent |-> second, kind |-> "good"]>>,
     identities |-> 2, expected |-> 2, required |-> required, stored |-> stored]

MCCasts ==
    {CastOf(first, second, required, stored) :
        first \in {"good", "mute", "otherMode", "otherAck", "absent"},
        second \in {"a", "b"}, required \in {0, 2}, stored \in BOOLEAN}
    \cup {[CastOf("good", "b", 0, FALSE) EXCEPT !.identities = 1]}

MCAttempt == {a1, a2, a3}
MCGeneration == {g1, g2}

-----------------------------------------------------------------------------

Init ==
    /\ focus \in {"session", "replay", "keyring", "lane", "ledger"}
    /\ SessionInit /\ ReplayInit /\ KeyringInit /\ LaneInit /\ LedgerInit
    /\ focus # "session" => scene \in SameEpochScene
    /\ focus # "replay" => replayDb /\ helloDb
    /\ focus # "lane" => cast = CastOf("good", "b", 0, FALSE)

Next ==
    /\ UNCHANGED focus
    /\ \/ /\ focus = "session" /\ SessionNext
          /\ UNCHANGED <<rgVars, krVars, laneVars, ledgerVars>>
       \/ /\ focus = "replay" /\ ReplayNext
          /\ UNCHANGED <<seVars, krVars, laneVars, ledgerVars>>
       \/ /\ focus = "keyring" /\ KeyringNext
          /\ UNCHANGED <<seVars, rgVars, laneVars, ledgerVars>>
       \/ /\ focus = "lane" /\ LaneNext
          /\ UNCHANGED <<seVars, rgVars, krVars, ledgerVars>>
       \/ /\ focus = "ledger" /\ LedgerNext
          /\ UNCHANGED <<seVars, rgVars, krVars, laneVars>>

Unfocused(others) == UNCHANGED <<focus, others>>

\* Processes and threads that can take a step take one: every wait of theirs has a
\* deadline, and the operating system schedules them.  The harness starts the next
\* pair of processes.  For the ledger see LedgerFairness.
Fairness ==
    LET others == <<rgVars, krVars, laneVars, ledgerVars>>
        notLane == <<seVars, rgVars, krVars, ledgerVars>>
        notLedger == <<seVars, rgVars, krVars, laneVars>>
    IN  /\ WF_msVars(focus = "session" /\ CoordinatorStep /\ Unfocused(others))
        /\ WF_msVars(focus = "session" /\ AgentStep /\ Unfocused(others))
        /\ WF_msVars(focus = "session" /\ NextPhase /\ Unfocused(others))
        /\ WF_msVars(focus = "lane" /\ LaneMainStep /\ Unfocused(notLane))
        /\ \A i \in 1 .. 2 :
              /\ WF_msVars(focus = "lane" /\ ThreadStep(i) /\ Unfocused(notLane))
              /\ WF_msVars(focus = "lane" /\ LaneClientStep(i) /\ Unfocused(notLane))
        /\ WF_msVars(focus = "ledger" /\ ProcessMoves /\ Unfocused(notLedger))
        /\ SF_msVars(focus = "ledger" /\ AgentOpens /\ Unfocused(notLedger))
        /\ WF_msVars(focus = "ledger" /\ adopting # Void /\ AdoptOpens
                         /\ Unfocused(notLedger))

Spec == Init /\ [][Next]_msVars /\ Fairness

\* Every pair of processes, and every process of the concurrent lane with its
\* threads, comes to its end: however connections break, processes are killed and
\* clients stay mute, nobody waits for somebody else for good.
\* (the deadlines of every read and accept in coordinator lib.rs run,
\* serve_one_connection_impl, multi_agent.rs run_multi_agent and serve; agent
\* lib.rs run and its budget of attempts)
SessionsEnd ==
    /\ focus = "session" => ScenesEnd
    /\ focus = "lane" => <>LaneOver
=============================================================================
