------------------------------ MODULE MCHistory ------------------------------
(***************************************************************************)
(* An instance of History for TLC: two channels, and limits below, within  *)
(* and above what the query grants.                                        *)
(***************************************************************************)
EXTENDS History

CONSTANTS dm, group

MCLimits == {-1, 0, 1, 3}
=============================================================================
