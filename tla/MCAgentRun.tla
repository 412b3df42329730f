----------------------------- MODULE MCAgentRun -----------------------------
(***************************************************************************)
(* Instances of AgentRun for TLC.                                          *)
(***************************************************************************)
EXTENDS AgentRun, TLC

CONSTANTS c1, c2, h1

MCContainers == {c1, c2}
MCContainerAndHost == {c1, h1}
MCHost == {h1}
MCNone == {}

\* The containers are interchangeable.
Symmetry == Permutations({c1, c2})
=============================================================================
