----------------------------- MODULE MCAccounts -----------------------------
(***************************************************************************)
(* Two users and two traditions for TLC.                                   *)
(***************************************************************************)
EXTENDS AccountsProps

=============================================================================
