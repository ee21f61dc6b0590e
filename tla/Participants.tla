---------------------------- MODULE Participants ----------------------------
(***************************************************************************)
(* Who takes part: shared by the trading core and the sessions, which know *)
(* a user by the same id.                                                  *)
(***************************************************************************)
CONSTANT Users  \* user names; also the ids of the rows of table data
=============================================================================
