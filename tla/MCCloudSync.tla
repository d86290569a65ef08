----------------------------- MODULE MCCloudSync ------------------------------
(* CloudSync on small instances: its constants are model values. *)
EXTENDS CloudSync
=============================================================================
