---------------------------- MODULE MCProxyTokens -----------------------------
(* ProxyTokens on small instances: its constants are model values. *)
EXTENDS ProxyTokens
=============================================================================
