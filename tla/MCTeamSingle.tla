---------------------------- MODULE MCTeamSingle ----------------------------
(* TeamSingle on a small instance. *)
EXTENDS TeamSingle
=============================================================================
