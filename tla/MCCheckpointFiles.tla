-------------------------- MODULE MCCheckpointFiles --------------------------
(***************************************************************************)
(* Instance of CheckpointFiles for TLC.                                    *)
(***************************************************************************)
EXTENDS CheckpointFiles

MCRun == 1 .. 2
MCStep == 1 .. 2
MCArtifacts == <<"result">>
=============================================================================
