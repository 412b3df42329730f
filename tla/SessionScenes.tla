---------------------------- MODULE SessionScenes ----------------------------
(***************************************************************************)
(* The scenarios of the coordinator-agent self test as scenes of Session:  *)
(* the arguments each pair of processes is started with, the databases it  *)
(* finds, and what the scenario asserts about it.  Time is in tenths of a  *)
(* second.  Scenarios 79 to 84 execute workloads and belong to AgentRun.   *)
(* The last definitions are scenes of no scenario, in which time runs,     *)
(* connections break and processes are killed.                             *)
(***************************************************************************)
EXTENDS Session, TLC

\* The arguments coordinator-stub and agent-stub take when a flag is not given.
Coordinator ==
    [store |-> FALSE, legacyOptIn |-> TRUE, holder |-> "node", node |-> "node",
     epoch |-> 0, ttl |-> 600, extension |-> 600, duration |-> 864000,
     renewedEpoch |-> 0, override |-> 0, maxConn |-> 1, pause |-> 0, rounds |-> 0,
     revokeAfter |-> -1, renewDelay |-> 0, revokeDelay |-> 0, beats |-> 0,
     reports |-> 0, manifest |-> Nothing, hooks |-> {}]

Agent ==
    [node |-> "node", reconnect |-> TRUE, attempts |-> 8, rounds |-> 0,
     expectRevoke |-> -1, renewDelay |-> 0, askEpoch |-> -1, beats |-> 0, reports |-> 0,
     wrongBeat |-> Nothing, wrongReport |-> Nothing, resumeLease |-> "ours",
     resumeJob |-> "ours", resumeEpoch |-> 0, hooks |-> {}]

\* run_handshake gives --disable-reconnect to the agent, run_reconnect_case does
\* not; a coordinator without --lease-db gets the opt-in to the legacy lane.
LC(args) == args @@ Coordinator
SC(args) == args @@ [store |-> TRUE, legacyOptIn |-> FALSE] @@ Coordinator
HA(args) == args @@ [reconnect |-> FALSE] @@ Agent
RA(args) == args @@ Agent

NoArgs == [hooks |-> {}]
Hook(h) == [hooks |-> {h}]
Renewing(n) == [rounds |-> n]

\* What a scenario asserts.
Good == {"ok"}
CFailed == {"transport", "protocol", "storage"}
AFailed == {"GRANT_REJECTED", "LEASE_REJECTED", "RENEW_REJECTED", "RETRYABLE_CONNECTION",
            "READ_TIMED_OUT", "AMBIGUOUS_RENEW", "MANIFEST_REJECTED", "REVOKE_REJECTED",
            "ReconnectExhausted", "NO_RESUME_RESULT", "absent"}
CAny == Good \cup CFailed \cup {"refused", "killed"}
AAny == Good \cup AFailed
        \cup {"SUPERSEDED", "QUARANTINED", "MAX_DURATION_EXCEEDED", "REVOKED", "refused",
              "LOCAL_EXPIRED", "REPLAY_REJECTED", "RESUME_REJECTED", "EXPIRED", "killed",
              "UNKNOWN_LEASE", "IDENTITY_CONFLICT", "EPOCH_AHEAD", "START_MARKER_FAILED",
              "AMBIGUOUS_RENEW_RECOVERY_DISABLED", "DURABLE_LEASE_RECOVERY_REFUSED",
              "WRITE_FAILED", "REPLAY_NOT_REJECTED"}

\* run_handshake_internal_with_ready_hook: one pair of processes, both awaited.
Pair(c, a, ends) ==
    [c |-> c, a |-> a, wait |-> 0, db |-> "same", newFence |-> FALSE,
     expect |-> [c |-> ends[1], a |-> ends[2], also |-> {}]]
Checked(p, also) == [p EXCEPT !.expect.also = also]
After(wait, p) == [p EXCEPT !.wait = wait]
OtherFence(p) == [p EXCEPT !.newFence = TRUE]

Scene(name, phases) == [name |-> name, timely |-> TRUE, phases |-> phases]

-----------------------------------------------------------------------------

\* 1 to 6: the handshake, forged, replayed, with a lease of no use.
HandshakeScenes ==
    {Scene("1", <<Pair(LC(NoArgs), HA(NoArgs), <<Good, Good>>)>>),
     Scene("2", <<Pair(LC(Hook("forgedGrant")), HA(NoArgs), <<CFailed, AFailed>>)>>),
     Scene("3", <<Pair(LC(NoArgs), HA(Hook("forgedAck")), <<CFailed, AAny>>)>>),
     Scene("4", <<Pair(LC(Hook("grantTwice")), HA(Hook("expectReplay")),
                       <<CFailed, {"REPLAY_REJECTED"}>>)>>),
     Scene("5", <<Pair(LC(Hook("forgedLease")), HA(NoArgs),
                       <<CAny, {"LEASE_REJECTED"}>>)>>),
     Scene("6", <<Pair(LC(Hook("expiredLease")), HA(NoArgs),
                       <<CAny, {"LEASE_REJECTED"}>>)>>)}

\* 7 to 10: a renewal, with forged signatures at each of its three places.
RenewalScenes ==
    {Scene("7", <<Checked(Pair(LC(Renewing(1)), HA(Renewing(1)), <<Good, Good>>),
                          {<<"round", 1>>})>>),
     Scene("8", <<Pair(LC(Renewing(1)), HA(Renewing(1) @@ Hook("forgedRequest")),
                       <<CFailed, AAny>>)>>),
     Scene("9", <<Pair(LC(Renewing(1) @@ Hook("forgedResult")), HA(Renewing(1)),
                       <<CAny, AFailed>>)>>),
     Scene("10", <<Pair(LC(Renewing(1) @@ Hook("forgedRenewedLease")), HA(Renewing(1)),
                        <<CAny, {"RENEW_REJECTED"}>>)>>)}

\* 11 to 15: a renewed lease of a lower or a higher epoch, signed refusals, a
\* result for another request.
RenewalRefusedScenes ==
    {Scene("11", <<Checked(Pair(LC(Renewing(1) @@ [epoch |-> 5, renewedEpoch |-> 3]),
                                HA(Renewing(1)), <<CAny, {"RENEW_REJECTED"}>>),
                           {<<"watermark", 5>>})>>),
     Scene("12", <<Pair(LC(Renewing(1) @@ [override |-> 2]), HA(Renewing(1)),
                        <<CAny, {"SUPERSEDED"}>>)>>),
     Scene("13", <<Pair(LC(Renewing(1) @@ [override |-> 3]), HA(Renewing(1)),
                        <<CAny, {"QUARANTINED"}>>)>>),
     Scene("14", <<Pair(LC(Renewing(1) @@ Hook("otherNonce")), HA(Renewing(1)),
                        <<CAny, {"RENEW_REJECTED"}>>)>>),
     Scene("15", <<Checked(Pair(LC(Renewing(1) @@ [renewedEpoch |-> 5]), HA(Renewing(1)),
                                <<CAny, {"RENEW_REJECTED"}>>), {<<"watermark", 0>>})>>)}

\* 16: a request of an epoch the coordinator did not grant.
ForeignEpochScene ==
    {Scene("16", <<Checked(Pair(LC(Renewing(1)), HA(Renewing(1) @@ [askEpoch |-> 99]),
                                <<CFailed, AAny>>), {<<"results", 0>>})>>)}

\* 17: the agent restarts on its fence database; 18: one in memory is refused.
FenceRestartScenes ==
    {Scene("17", <<Pair(LC([epoch |-> 5]), HA(NoArgs), <<Good, Good>>),
                   Checked(Pair(LC([epoch |-> 3]), HA(NoArgs),
                                <<CFailed, {"LEASE_REJECTED"}>>), {<<"watermark", 5>>})>>),
     Scene("18", <<Checked(Pair(LC(NoArgs), HA(Hook("memoryFence")),
                                <<CAny, {"refused"}>>), {<<"connections", 0>>})>>)}

\* 19: three renewals over one connection.
RepeatedRenewalScene ==
    {Scene("19", <<Checked(Pair(LC(Renewing(3) @@ [epoch |-> 5, renewedEpoch |-> 5]),
                                HA(Renewing(3)), <<Good, Good>>),
                           {<<"round", 3>>, <<"results", 1>>})>>)}

\* 20: a lease in the database wins over the epoch of the command line.
StoredEpochScene ==
    {Scene("20", <<Pair(SC(Renewing(1) @@ [epoch |-> 5]), HA(Renewing(1)), <<Good, Good>>),
                   Checked(Pair(SC([epoch |-> 3]), HA(NoArgs), <<Good, Good>>),
                           {<<"epoch", 5>>})>>)}

\* 21: also when it is higher and the second pair renews.
StoredEpochRenewedScene ==
    {Scene("21", <<Pair(SC([epoch |-> 5]), HA(NoArgs), <<Good, Good>>),
                   Checked(Pair(SC(Renewing(1) @@ [epoch |-> 6, renewedEpoch |-> 6]),
                                HA(Renewing(1)), <<Good, Good>>),
                           {<<"epoch", 5>>, <<"watermark", 5>>})>>)}

\* 22: the total duration is over: the stored expiry stays.
MaxDurationScene ==
    {Scene("22", <<Pair(SC([duration |-> 20]), HA(NoArgs), <<Good, Good>>),
                   Checked(After(22, Pair(SC(Renewing(1) @@ [duration |-> 20]),
                                          HA(Renewing(1)),
                                          <<CAny, {"MAX_DURATION_EXCEEDED"}>>)),
                           {<<"expires", 601>>})>>)}

\* 23: the same with an hour.
LongDurationScene ==
    {Scene("23", <<Pair(SC([duration |-> 36000]), HA(NoArgs), <<Good, Good>>),
                   Checked(After(22, Pair(SC(Renewing(1) @@ [duration |-> 36000]),
                                          HA(Renewing(1)), <<Good, Good>>)),
                           {<<"expires", 623>>})>>)}

\* 24: a refusal by hand leaves the stored lease alone.
OverrideKeepsLeaseScene ==
    {Scene("24", <<Pair(SC(NoArgs), HA(NoArgs), <<Good, Good>>),
                   Checked(After(5, Pair(SC(Renewing(1) @@ [override |-> 2]),
                                         HA(Renewing(1)), <<CAny, {"SUPERSEDED"}>>)),
                           {<<"expires", 601>>})>>)}

\* 25: a request of a lower epoch than the stored one gets a signed refusal.
SupersededScene ==
    {Scene("25", <<Pair(SC([epoch |-> 5]), HA(NoArgs), <<Good, Good>>),
                   Checked(Pair(SC(Renewing(1) @@ [epoch |-> 5]),
                                HA(Renewing(1) @@ [askEpoch |-> 4]),
                                <<Good, {"SUPERSEDED"}>>),
                           {<<"outcome", 2>>, <<"results", 1>>})>>)}

\* 26: a request of the stored epoch is renewed.
SameEpochScene ==
    {Scene("26", <<Pair(SC([epoch |-> 7]), HA(NoArgs), <<Good, Good>>),
                   Checked(Pair(SC(Renewing(1)), HA(Renewing(1)), <<Good, Good>>),
                           {<<"outcome", 1>>, <<"round", 1>>})>>)}

\* 27: a notice of revocation behind the acknowledgement: nobody renews.
NoticeScene ==
    {Scene("27", <<Checked(Pair(LC(Renewing(2) @@ [revokeAfter |-> 0]),
                                HA(Renewing(2) @@ [expectRevoke |-> 0]), <<Good, Good>>),
                           {<<"round", 0>>, <<"outcome", 0>>})>>)}

\* 28 to 31: a forged notice, of another lease, of another epoch, too late.
BadNoticeScenes ==
    {Scene("28", <<Pair(LC([revokeAfter |-> 0] @@ Hook("forgedNotice")),
                        HA([expectRevoke |-> 0]), <<CAny, {"REVOKE_REJECTED"}>>)>>),
     Scene("29", <<Pair(LC([revokeAfter |-> 0] @@ Hook("noticeOtherLease")),
                        HA([expectRevoke |-> 0]), <<CAny, {"REVOKE_REJECTED"}>>)>>),
     Scene("30", <<Pair(LC([revokeAfter |-> 0] @@ Hook("noticeOtherEpoch")),
                        HA([expectRevoke |-> 0]), <<CAny, {"REVOKE_REJECTED"}>>)>>),
     Scene("31", <<Pair(LC([revokeAfter |-> 0, ttl |-> 20, revokeDelay |-> 22]),
                        HA([expectRevoke |-> 0]), <<CAny, {"REVOKE_REJECTED"}>>)>>)}

\* 32: a refusal in the first of two rounds ends both processes.
SupersededRoundsScene ==
    {Scene("32", <<Pair(SC([epoch |-> 5]), HA(NoArgs), <<Good, Good>>),
                   Checked(Pair(SC(Renewing(2) @@ [epoch |-> 5]),
                                HA(Renewing(2) @@ [askEpoch |-> 4]),
                                <<Good, {"SUPERSEDED"}>>),
                           {<<"outcome", 2>>, <<"results", 1>>, <<"round", 0>>})>>)}

-----------------------------------------------------------------------------

\* 33: the connection is dropped behind the acknowledgement; a new pair restores
\* the lease.  34: another holder does not get it.
DisconnectScene ==
    {Scene("33", <<Pair(SC(Renewing(1) @@ [epoch |-> 5] @@ Hook("disconnectAfterAck")),
                        HA(Renewing(1)), <<Good, AFailed>>),
                   Checked(Pair(SC([epoch |-> 3]), HA(NoArgs), <<Good, Good>>),
                           {<<"epoch", 5>>})>>)}

OtherHolderScene ==
    {Scene("34", <<Pair(SC([epoch |-> 5]), HA(NoArgs), <<Good, Good>>),
                   Checked(Pair(SC([epoch |-> 5, holder |-> "other", node |-> "other"]),
                                HA([node |-> "other"]), <<CFailed, AFailed>>),
                           {<<"results", 0>>})>>)}

\* 35: a revocation is in the database before the notice goes out.
RevokedStaysScene ==
    {Scene("35", <<Pair(SC([epoch |-> 5, revokeAfter |-> 0]), HA([expectRevoke |-> 0]),
                        <<Good, Good>>),
                   Checked(Pair(SC([epoch |-> 5]), HA(NoArgs), <<CFailed, AFailed>>),
                           {<<"results", 0>>})>>)}

\* 36: the lease has run out when the new pair asks for it.
ExpiredReconnectScene ==
    {Scene("36", <<Pair(SC([epoch |-> 5, ttl |-> 2] @@ Hook("disconnectAfterAck")),
                        HA(NoArgs), <<Good, Good>>),
                   Checked(After(4, Pair(SC([epoch |-> 3]), HA(NoArgs),
                                         <<CFailed, AFailed>>)),
                           {<<"results", 0>>})>>)}

\* 37: revoked between the acknowledgement and the renewal.
RevokedBeforeRenewScene ==
    {Scene("37", <<Checked(Pair(SC(Renewing(2) @@ [epoch |-> 5] @@ Hook("revokeBeforeRenew")),
                                HA(Renewing(2)), <<Good, {"REVOKED"}>>),
                           {<<"outcome", 8>>, <<"round", 0>>})>>)}

\* 38: neither a database nor the opt-in: run_coordinator_without_legacy_opt_in.
NoOptInScene ==
    {Scene("38", <<Checked(Pair(LC([legacyOptIn |-> FALSE]), HA(NoArgs),
                                <<{"refused"}, AFailed>>), {<<"connections", 0>>})>>)}

\* 39 to 44: the start marker comes after the checks of the lease and before the
\* acknowledgement; a marker that fails ends the agent without one.
MarkerRefusedScenes ==
    {Scene("39", <<Pair(LC(NoArgs), HA(NoArgs), <<Good, Good>>)>>),
     Scene("40", <<Checked(Pair(LC(Hook("forgedLease")), HA(NoArgs),
                                <<CFailed, {"LEASE_REJECTED"}>>), {<<"results", 0>>})>>),
     Scene("41", <<Checked(Pair(LC(Hook("expiredLease")), HA(NoArgs),
                                <<CFailed, {"LEASE_REJECTED"}>>), {<<"results", 0>>})>>)}

MarkerScenes ==
    {Scene("42", <<Pair(SC([revokeAfter |-> 0]), HA([expectRevoke |-> 0]), <<Good, Good>>),
                   Checked(OtherFence(Pair(SC(NoArgs), HA(NoArgs), <<CFailed, AFailed>>)),
                           {<<"results", 0>>})>>),
     Scene("43", <<Pair(LC(NoArgs), HA(NoArgs), <<Good, Good>>),
                   OtherFence(Pair(LC(NoArgs), HA(NoArgs), <<Good, Good>>))>>),
     Scene("44", <<Checked(Pair(LC(NoArgs), HA(Hook("markerFails")),
                                <<CFailed, {"START_MARKER_FAILED"}>>), {<<"results", 0>>})>>)}

\* 45, 46: the other two refusals in the first of two rounds.
RefusedRoundsScenes ==
    {Scene("45", <<Checked(Pair(SC(Renewing(2) @@ [epoch |-> 5, override |-> 3]),
                                HA(Renewing(2)), <<Good, {"QUARANTINED"}>>),
                           {<<"outcome", 3>>, <<"results", 1>>, <<"round", 0>>})>>),
     Scene("46", <<Pair(SC([epoch |-> 5, duration |-> 20]), HA(NoArgs), <<Good, Good>>),
                   Checked(OtherFence(After(22,
                              Pair(SC(Renewing(2) @@ [epoch |-> 5, duration |-> 20]),
                                   HA(Renewing(2)), <<Good, {"MAX_DURATION_EXCEEDED"}>>))),
                           {<<"outcome", 6>>, <<"results", 1>>, <<"round", 0>>})>>)}

\* 47, 48: the lease runs out while the coordinator, or the agent, waits.
LateRenewalScenes ==
    {Scene("47", <<Checked(Pair(SC(Renewing(1) @@ [ttl |-> 5, renewDelay |-> 10]),
                                HA(Renewing(1)), <<CFailed, AFailed>>),
                           {<<"outcome", 0>>, <<"round", 0>>})>>),
     Scene("48", <<Checked(Pair(SC(Renewing(1) @@ [ttl |-> 5]),
                                HA(Renewing(1) @@ [renewDelay |-> 10]),
                                <<CFailed, {"LOCAL_EXPIRED"}>>),
                           {<<"outcome", 0>>})>>)}

-----------------------------------------------------------------------------

\* 49 to 52: the agent of run_reconnect_case tries again.
ReconnectScenes ==
    {Scene("49", <<Checked(Pair(SC([maxConn |-> 2] @@ Hook("dropAfterAckOnce")),
                                RA(NoArgs), <<Good, Good>>),
                           {<<"connections", 2>>, <<"results", 1>>})>>),
     Scene("50", <<Checked(Pair(LC(Hook("disconnectAfterAck")), RA([attempts |-> 2]),
                                <<Good, {"ReconnectExhausted"}>>), {<<"results", 0>>})>>),
     Scene("51", <<Checked(Pair(SC([maxConn |-> 2,
                                    hooks |-> {"dropAfterAckOnce", "revokeBeforeDrop"}]),
                                RA([attempts |-> 2]), <<CFailed, AFailed>>),
                           {<<"results", 0>>})>>)}

ReconnectExpiredScene ==
    {Scene("52", <<Checked(Pair(SC([maxConn |-> 2, ttl |-> 20, pause |-> 25]
                                   @@ Hook("dropAfterAckOnce")),
                                RA([attempts |-> 2]), <<CFailed, AFailed>>),
                           {<<"connections", 2>>, <<"results", 0>>})>>)}

\* seed_resume_lease and run_resume_case.
Seed(epoch, ttl) == Pair(SC([epoch |-> epoch, ttl |-> ttl]), HA(NoArgs), <<Good, Good>>)

ResumePair(args, c, a) ==
    Pair(SC(Hook("resume")), RA(args @@ [attempts |-> 2] @@ Hook("resume")), <<c, a>>)

\* assert_resume_outcome: one connection, the outcome, and no second try.
Resumed(outcome, end, args) ==
    Checked(ResumePair(args, Good, {end}),
            {<<"outcome", outcome>>, <<"connections", 1>>})

\* 53 to 60: every outcome of a resume, and one without a database.
ResumeScenes ==
    {Scene("53", <<Seed(7, 600), Checked(ResumePair([resumeEpoch |-> 7], Good, Good),
                          {<<"outcome", 1>>, <<"connections", 1>>, <<"expires", 601>>})>>),
     Scene("54", <<Seed(7, 600), Resumed(5, "UNKNOWN_LEASE",
                                     [resumeEpoch |-> 7, resumeLease |-> "other"])>>),
     Scene("55", <<Seed(7, 600), Resumed(6, "IDENTITY_CONFLICT",
                                     [resumeEpoch |-> 7, resumeJob |-> "other"])>>),
     Scene("56", <<Seed(7, 600), [Resumed(2, "REVOKED", [resumeEpoch |-> 7])
                                  EXCEPT !.db = "revoked"]>>),
     Scene("57", <<Seed(7, 20), After(22, Resumed(3, "EXPIRED", [resumeEpoch |-> 7]))>>),
     Scene("58", <<Seed(7, 600), Resumed(4, "SUPERSEDED", [resumeEpoch |-> 6])>>),
     Scene("59", <<Seed(7, 600), Resumed(8, "EPOCH_AHEAD", [resumeEpoch |-> 8])>>)}

NoStoreResumeScene ==
    {Scene("60", <<Checked(Pair(LC(Hook("resume")),
                                HA([resumeEpoch |-> 7] @@ Hook("resume")),
                                <<{"storage"}, AFailed>>), {<<"results", 0>>})>>)}

\* 61, 62: run_two_connection_case: the first connection fails, the second is served.
SecondConnectionScenes ==
    {Scene("61", <<Checked(Pair(SC([maxConn |-> 2]), RA(Hook("truncated")), <<Good, Good>>),
                           {<<"connections", 2>>, <<"results", 1>>})>>),
     Scene("62", <<Checked(Pair(SC([maxConn |-> 2]), RA(Hook("forgedAckOnce")),
                                <<Good, Good>>),
                           {<<"connections", 2>>, <<"results", 1>>})>>)}

\* 63, 64: a database that cannot be opened, and one that breaks later: no further
\* connection is served.
StorageFailureScenes ==
    {Scene("63", <<Checked(Pair(SC([maxConn |-> 2] @@ Hook("storeUnopenable")), HA(NoArgs),
                                <<{"refused"}, AAny>>), {<<"connections", 0>>})>>),
     Scene("64", <<Seed(7, 600),
                   Checked(Pair(SC([maxConn |-> 2, hooks |-> {"resume", "storeBroken"}]),
                                HA([resumeEpoch |-> 7] @@ Hook("resume")),
                                <<{"storage"}, AFailed>>),
                           {<<"connections", 1>>, <<"results", 0>>})>>)}

\* 65 to 69: a renewal is stored and its answer lost; the agent recovers from the
\* stored lease, unless it was revoked, has run out, is over its duration, or the
\* nonce is used again.
DropCommit(c, a, ends) ==
    Pair(SC(c @@ Renewing(1) @@ [maxConn |-> 2] @@ Hook("dropAfterCommit")),
         RA(a @@ Renewing(1) @@ [attempts |-> 3] @@ Hook("recover")), ends)

RecoveredScene ==
    {Scene("65", <<Checked(DropCommit([rounds |-> 1],
                                      [rounds |-> 1], <<Good, Good>>),
                           {<<"connections", 2>>, <<"round", 1>>, <<"outcome", 1>>})>>)}

RecoveryRevokedScene ==
    {Scene("66", <<Checked(DropCommit([hooks |-> {"dropAfterCommit", "revokeBeforeDrop"}],
                                      [attempts |-> 2],
                                      <<CFailed, {"ReconnectExhausted"}>>),
                           {<<"outcome", 0>>})>>)}

RecoveryExpiredScene ==
    {Scene("67", <<Checked(DropCommit([extension |-> 3, pause |-> 6, ttl |-> 50],
                                      [attempts |-> 2],
                                      <<CFailed, {"ReconnectExhausted"}>>),
                           {<<"connections", 2>>, <<"outcome", 0>>})>>)}

RecoveryOverScene ==
    {Scene("68", <<Checked(DropCommit([duration |-> 10, pause |-> 12], [rounds |-> 1],
                                      <<Good, {"MAX_DURATION_EXCEEDED"}>>),
                           {<<"connections", 2>>, <<"outcome", 6>>})>>)}

ReusedNonceScene ==
    {Scene("69", <<Checked(DropCommit([rounds |-> 1],
                                      [attempts |-> 2, hooks |-> {"recover", "reuseNonce"}],
                                      <<CFailed, {"ReconnectExhausted"}>>),
                           {<<"outcome", 0>>})>>)}

\* 70 to 72: no recovery without the option, without a further connection, or
\* against a coordinator without a database.
NoRecoveryScenes ==
    {Scene("70", <<Checked(Pair(LC(Renewing(1)),
                                RA(Renewing(1) @@ [attempts |-> 3] @@ Hook("dropAfterRequest")),
                                <<CAny, {"AMBIGUOUS_RENEW_RECOVERY_DISABLED"}>>),
                           {<<"connections", 1>>})>>),
     Scene("71", <<Checked(DropCommit([maxConn |-> 1], [attempts |-> 3],
                                      <<CAny, {"ReconnectExhausted"}>>),
                           {<<"connections", 1>>})>>)}

LegacyRecoveryScene ==
    {Scene("72", <<Checked(Pair(LC(Renewing(1) @@ [maxConn |-> 2]),
                                RA(Renewing(1) @@ [attempts |-> 2,
                                   hooks |-> {"dropAfterRequest", "recover"}]),
                                <<CAny, {"DURABLE_LEASE_RECOVERY_REFUSED"}>>),
                           {<<"connections", 2>>, <<"round", 0>>})>>)}

\* 73: the database is an older one than the watermark of the agent.
StaleResumeScene ==
    {Scene("73", <<Seed(9, 600),
                   [Checked(Pair(SC(Hook("resume")),
                                 HA([resumeEpoch |-> 7] @@ Hook("resume")),
                                 <<Good, {"RESUME_REJECTED"}>>),
                            {<<"outcome", 1>>, <<"watermark", 9>>})
                    EXCEPT !.db = "older"]>>)}

-----------------------------------------------------------------------------

\* 74 to 78: the manifest of the submitter inside the grant.
ManifestScenes ==
    {Scene("74", <<Pair(LC([manifest |-> "good"]), HA(NoArgs), <<Good, Good>>)>>),
     Scene("75", <<Pair(LC([manifest |-> "forged"]), HA(NoArgs),
                        <<CAny, {"MANIFEST_REJECTED"}>>)>>)}

ManifestRefusedScenes ==
    {Scene("76", <<Pair(LC([manifest |-> "good"] @@ Hook("forgedGrant")), HA(NoArgs),
                        <<CAny, {"GRANT_REJECTED"}>>)>>),
     Scene("77", <<Pair(LC([manifest |-> "good"]), HA(Hook("noSubmitterKey")),
                        <<CAny, {"MANIFEST_REJECTED"}>>)>>),
     Scene("78", <<Pair(LC([manifest |-> "otherJob"]), HA(NoArgs),
                        <<CAny, {"MANIFEST_REJECTED"}>>)>>)}

\* 85 to 92: heartbeats behind the acknowledgement.
HeartbeatScenes ==
    {Scene("85", <<Checked(Pair(LC([beats |-> 2]), HA([beats |-> 2]), <<Good, Good>>),
                           {<<"kept", 2>>})>>),
     Scene("86", <<Pair(LC([beats |-> 2]), HA([beats |-> 1]), <<CFailed, AAny>>)>>),
     Scene("87", <<Checked(Pair(LC([beats |-> 1]), HA([beats |-> 1, wrongBeat |-> "fence"]),
                                <<CFailed, AAny>>), {<<"kept", 0>>})>>)}

WrongHeartbeatScenes ==
    {Scene("89", <<Checked(Pair(LC([beats |-> 1]),
                                HA([beats |-> 1, wrongBeat |-> "coordinator"]),
                                <<CFailed, AAny>>), {<<"kept", 0>>})>>),
     Scene("90", <<Checked(Pair(LC([beats |-> 1]), HA([beats |-> 1, wrongBeat |-> "device"]),
                                <<CFailed, AAny>>), {<<"kept", 0>>})>>)}

StoredHeartbeatScene ==
    {Scene("92", <<Checked(Pair(LC([beats |-> 2]), HA([beats |-> 2]), <<Good, Good>>),
                           {<<"kept", 2>>})>>)}

\* 93, 94: neighbour reports, and one meant for another coordinator.
ReportScene ==
    {Scene("93", <<Checked(Pair(LC([reports |-> 2]), HA([reports |-> 2]), <<Good, Good>>),
                           {<<"kept", 2>>})>>)}

WrongReportScene ==
    {Scene("94", <<Checked(Pair(LC([reports |-> 1]),
                                HA([reports |-> 1, wrongReport |-> "coordinator"]),
                                <<CFailed, AAny>>), {<<"kept", 0>>})>>)}

\* 95 to 97: a configuration one of the two refuses before there is a connection.
BadConfigScenes ==
    {Scene("95", <<Checked(Pair(LC([reports |-> 1] @@ Hook("badConfig")), HA(NoArgs),
                                <<{"refused"}, AAny>>), {<<"connections", 0>>})>>)}

AgentBadConfigScenes ==
    {Scene("96", <<Checked(Pair(LC(NoArgs), HA([reports |-> 1] @@ Hook("badConfig")),
                                <<CAny, {"refused"}>>), {<<"connections", 0>>})>>),
     Scene("97", <<Checked(Pair(LC([reports |-> 1] @@ Hook("badConfig")), HA(NoArgs),
                                <<{"refused"}, AAny>>), {<<"connections", 0>>})>>)}

SelftestScenes ==
    HandshakeScenes \cup RenewalScenes \cup RenewalRefusedScenes \cup ForeignEpochScene
    \cup FenceRestartScenes \cup RepeatedRenewalScene \cup StoredEpochScene
    \cup StoredEpochRenewedScene \cup MaxDurationScene \cup LongDurationScene
    \cup OverrideKeepsLeaseScene \cup SupersededScene \cup SameEpochScene
    \cup NoticeScene \cup BadNoticeScenes \cup SupersededRoundsScene
    \cup DisconnectScene \cup OtherHolderScene \cup RevokedStaysScene
    \cup ExpiredReconnectScene \cup RevokedBeforeRenewScene \cup NoOptInScene
    \cup MarkerRefusedScenes \cup MarkerScenes \cup RefusedRoundsScenes
    \cup LateRenewalScenes \cup ReconnectScenes \cup ReconnectExpiredScene
    \cup ResumeScenes \cup NoStoreResumeScene \cup SecondConnectionScenes
    \cup StorageFailureScenes \cup RecoveredScene \cup RecoveryRevokedScene
    \cup RecoveryExpiredScene \cup RecoveryOverScene \cup ReusedNonceScene
    \cup NoRecoveryScenes \cup LegacyRecoveryScene \cup StaleResumeScene
    \cup ManifestScenes \cup ManifestRefusedScenes \cup HeartbeatScenes
    \cup WrongHeartbeatScenes \cup StoredHeartbeatScene \cup ReportScene
    \cup WrongReportScene \cup BadConfigScenes \cup AgentBadConfigScenes

-----------------------------------------------------------------------------
(* Scenes in which anything may go wrong at any time. *)

FreePair(c, a, db) == [Pair(c, a, <<CAny, AAny>>) EXCEPT !.db = db]

\* Two pairs of processes on one fence database.  The first renews, loses the
\* answer to a renewal, or reports; the second finds the database of the first, or
\* a new one at a lower epoch, or resumes.
FreeFirst ==
    {FreePair(SC([epoch |-> 3, ttl |-> 20, extension |-> 20, maxConn |-> 2, rounds |-> 1,
                  hooks |-> h]),
              RA([attempts |-> 2, rounds |-> 1, hooks |-> {"recover"}]), "same") :
        h \in {{}, {"dropAfterCommit"}}}
    \cup
    {FreePair(SC([epoch |-> 3, ttl |-> 20, beats |-> 1, reports |-> 1, revokeAfter |-> 0]),
              RA([attempts |-> 2, beats |-> 1, reports |-> 1, expectRevoke |-> 0]), "same")}

FreeSecond ==
    {FreePair(SC([epoch |-> 1, ttl |-> 20, rounds |-> 1]), HA([rounds |-> 1]), db) :
        db \in {"same", "new"}}
    \cup
    {FreePair(SC(Hook("resume")), HA([resumeEpoch |-> 3] @@ Hook("resume")), "same")}

FreeScenes ==
    {[name |-> "free", timely |-> FALSE, phases |-> <<p, q>>] :
        p \in FreeFirst, q \in FreeSecond}
=============================================================================
