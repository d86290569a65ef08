-------------------------- MODULE MCBrowserRotation ---------------------------
(* BrowserRotation on small instances: its constants are model values.     *)
EXTENDS BrowserRotation

\* One workflow on any kind of site, or several that overlap on the simplest.
First == CHOOSE w \in Workflow : TRUE
Alone == \A w \in Workflow : at[w] = "idle" <=> w = First
Together == \A w \in Workflow : at[w] = "idle"
Simplest == [profile |-> TRUE, code |-> "none", stays |-> FALSE]

MCInit == Init /\ (Alone \/ (Together /\ kind = Simplest))
MCSpec == MCInit /\ [][Next]_vars /\ Fairness
=============================================================================
