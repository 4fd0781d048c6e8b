---------------------------- MODULE MCSecretStore ----------------------------
(***************************************************************************)
(* Instances of SecretStore for TLC.                                       *)
(***************************************************************************)
EXTENDS SecretStore

CONSTANT text
=============================================================================
