--------------------------- MODULE MCVaultSession ----------------------------
(* VaultSession on small instances: its constants are model values. *)
EXTENDS VaultSession
=============================================================================
