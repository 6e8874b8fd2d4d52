--------------------------- MODULE MCSecretStore ---------------------------
(* Bounded instance of SecretStore: see the configuration for its calls. *)
EXTENDS SecretStore
===========================================================================
