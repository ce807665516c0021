------------------------------ MODULE MCAccounts ------------------------------
(***************************************************************************)
(* Accounts with two names, two roles and two requests: enough for two     *)
(* administrators to demote each other, for two first accounts and for a   *)
(* provider's account that a later deployment configures.                  *)
(***************************************************************************)
EXTENDS Accounts

MCNames == {"ada", "bob"}
MCRoles == {"viewer", "admin"}
MCConfigurations == {"ada", NoName}
=============================================================================
