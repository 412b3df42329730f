--------------------------- MODULE MCLeaseRenewal ---------------------------
(***************************************************************************)
(* Instance of LeaseRenewal for TLC.                                       *)
(***************************************************************************)
EXTENDS LeaseRenewal

NoLengths == {}
OneLength == {6}
NoLag == {0}
SmallAndLargeLag == {1, 3}
=============================================================================
