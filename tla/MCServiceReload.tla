--------------------------- MODULE MCServiceReload ---------------------------
(* ServiceReload on small instances: its constants are model values. *)
EXTENDS ServiceReload
=============================================================================
