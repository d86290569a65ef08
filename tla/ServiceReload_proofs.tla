-------------------------- MODULE ServiceReload_proofs --------------------------
(***************************************************************************)
(* Proofs about ServiceReload, for any number of callers, edits, reloads   *)
(* and signals and any contents of the file, as long as reloads are asked  *)
(* for over HTTP or by SIGHUP, but not both (the run reload_mixed shows    *)
(* what happens then).                                                     *)
(***************************************************************************)
EXTENDS ServiceReload, TLAPS

\* The actions of Next, one by one.
LEMMA NextCases ==
  ASSUME Next
  PROVE  \/ \E c \in Caller : Ask(c) \/ Acquire(c) \/ TimeOut(c) \/ Drop(c)
         \/ \E r \in Reloader :
              \/ ReadFile(r) \/ Count(r) \/ SwapRegistry(r) \/ SwapClients(r)
              \/ ClearFolder(r)
         \/ Receive \/ Rebuild \/ SwapLookup \/ SwapPlaceholders
         \/ Edit \/ Signal
  BY Zenon DEF Next, Serve, Reload, Reloader

\* What every step below may look at: the assumptions on the constants and the
\* helpers that the actions share.
USE SighupAssumption, NobodyAssumption, TriggersAssumption, BoundsAssumption
    DEF Reloader, Version, Goto, End, fileVars, stateVars, listenVars, countVars

\* The invariant of which the rest of ReloadInv is a consequence.
Inv == TypeOK /\ OneReload /\ UnderWay /\ SwapsAgree /\ ListenerInStep

\* Whoever is in the middle of a reload is alone there.
LEMMA Alone ==
  ASSUME TypeOK, OneReload, "both" \notin Triggers,
         NEW r \in Reloader, pc[r] \notin {"idle", "lock"},
         NEW s \in Reloader, s # r
  PROVE  pc[s] \in {"idle", "lock"}
  BY DEF TypeOK, OneReload, Place

\* A reload that ends leaves what it works with within the types.
LEMMA EndTypes ==
  ASSUME TypeOK, NEW r \in Reloader, End(r)
  PROVE  /\ pc' \in [Reloader -> Place] /\ new' \in [Reloader -> 1..file]
         /\ holder' \in Caller \union {Nobody}
<1>1. 1 \in 1..file
  BY DEF TypeOK
<1>2. QED
  BY <1>1 DEF TypeOK, Place

\* Every step keeps the types.
LEMMA TypeStep == Inv /\ [Next]_vars => TypeOK'
<1> SUFFICES ASSUME Inv, [Next]_vars PROVE TypeOK'
  OBVIOUS
<1>. USE DEF Inv, TypeOK, Place, Contents
<1>1. ASSUME NEW c \in Caller, Ask(c) PROVE TypeOK'
  BY <1>1 DEF Ask
<1>2. ASSUME NEW c \in Caller, Acquire(c) PROVE TypeOK'
  BY <1>2 DEF Acquire
<1>3. ASSUME NEW c \in Caller, TimeOut(c) PROVE TypeOK'
  BY <1>3 DEF TimeOut
<1>4. ASSUME NEW c \in Caller, Drop(c) PROVE TypeOK'
  BY <1>4 DEF Drop
<1>5. ASSUME Receive PROVE TypeOK'
  BY <1>5 DEF Receive
<1>6. ASSUME NEW r \in Reloader, ReadFile(r) PROVE TypeOK'
  <2>1. CASE content[file] = "gone" /\ r # Sighup
    BY <1>6, <2>1, EndTypes DEF ReadFile
  <2>2. CASE ~(content[file] = "gone" /\ r # Sighup)
    <3>1. /\ pc' = [pc EXCEPT ![r] = "count"] /\ new' = [new EXCEPT ![r] = file]
          /\ UNCHANGED <<holder, fileVars, stateVars, listenVars, pending, countVars, torn>>
      BY <1>6, <2>2 DEF ReadFile
    <3>2. file \in 1..file /\ "count" \in Place
      BY DEF Version, Place
    <3>3. pc' \in [Reloader -> Place] /\ new' \in [Reloader -> 1..file]
      BY <3>1, <3>2
    <3>. QED
      BY <3>1, <3>3
  <2>3. QED
    BY <2>1, <2>2
<1>7. ASSUME NEW r \in Reloader, Count(r) PROVE TypeOK'
  <2>1. CASE Empties(r)
    BY <1>7, <2>1, EndTypes DEF Count
  <2>2. CASE ~Empties(r)
    BY <1>7, <2>2 DEF Count
  <2>3. QED
    BY <2>1, <2>2
<1>8. ASSUME NEW r \in Reloader, SwapRegistry(r) PROVE TypeOK'
  BY <1>8 DEF SwapRegistry
<1>9. ASSUME NEW r \in Reloader, SwapClients(r) PROVE TypeOK'
  BY <1>9 DEF SwapClients
<1>10. ASSUME NEW r \in Reloader, ClearFolder(r) PROVE TypeOK'
  <2>1. CASE r = Sighup
    BY <1>10, <2>1 DEF ClearFolder
  <2>2. CASE r # Sighup
    BY <1>10, <2>2, EndTypes DEF ClearFolder
  <2>3. QED
    BY <2>1, <2>2
<1>11. ASSUME Rebuild PROVE TypeOK'
  BY <1>11 DEF Rebuild
<1>12. ASSUME SwapLookup PROVE TypeOK'
  BY <1>12 DEF SwapLookup
<1>13. ASSUME SwapPlaceholders PROVE TypeOK'
  BY <1>13 DEF SwapPlaceholders
<1>14. ASSUME Edit PROVE TypeOK'
  BY <1>14 DEF Edit
<1>15. ASSUME Signal PROVE TypeOK'
  BY <1>15 DEF Signal
<1>16. CASE UNCHANGED vars
  BY <1>16 DEF vars
<1>17. QED
  BY <1>1, <1>2, <1>3, <1>4, <1>5, <1>6, <1>7, <1>8, <1>9, <1>10, <1>11,
     <1>12, <1>13, <1>14, <1>15, <1>16, NextCases, Zenon

\* Every step leaves one reload under way.
LEMMA OneReloadStep == Inv /\ [Next]_vars => OneReload'
<1> SUFFICES ASSUME Inv, [Next]_vars PROVE OneReload'
  OBVIOUS
<1>. USE DEF Inv, TypeOK, OneReload, Place
<1>1. ASSUME NEW c \in Caller, Ask(c) PROVE OneReload'
  BY <1>1 DEF Ask
<1>2. ASSUME NEW c \in Caller, Acquire(c) PROVE OneReload'
  BY <1>2 DEF Acquire
<1>3. ASSUME NEW c \in Caller, TimeOut(c) PROVE OneReload'
  BY <1>3 DEF TimeOut
<1>4. ASSUME NEW c \in Caller, Drop(c) PROVE OneReload'
  BY <1>4 DEF Drop
<1>5. ASSUME Receive PROVE OneReload'
  BY <1>5 DEF Receive
<1>6. ASSUME NEW r \in Reloader, ReadFile(r) PROVE OneReload'
  BY <1>6 DEF ReadFile
<1>7. ASSUME NEW r \in Reloader, Count(r) PROVE OneReload'
  BY <1>7 DEF Count
<1>8. ASSUME NEW r \in Reloader, SwapRegistry(r) PROVE OneReload'
  BY <1>8 DEF SwapRegistry
<1>9. ASSUME NEW r \in Reloader, SwapClients(r) PROVE OneReload'
  BY <1>9 DEF SwapClients
<1>10. ASSUME NEW r \in Reloader, ClearFolder(r) PROVE OneReload'
  BY <1>10 DEF ClearFolder
<1>11. ASSUME Rebuild PROVE OneReload'
  BY <1>11 DEF Rebuild
<1>12. ASSUME SwapLookup PROVE OneReload'
  BY <1>12 DEF SwapLookup
<1>13. ASSUME SwapPlaceholders PROVE OneReload'
  BY <1>13 DEF SwapPlaceholders
<1>14. ASSUME Edit PROVE OneReload'
  BY <1>14 DEF Edit
<1>15. ASSUME Signal PROVE OneReload'
  BY <1>15 DEF Signal
<1>16. CASE UNCHANGED vars
  BY <1>16 DEF vars
<1>17. QED
  BY <1>1, <1>2, <1>3, <1>4, <1>5, <1>6, <1>7, <1>8, <1>9, <1>10, <1>11,
     <1>12, <1>13, <1>14, <1>15, <1>16, NextCases, Zenon

\* What a reload has read stays good until it swaps, as it is alone.
LEMMA UnderWayStep ==
  ASSUME "both" \notin Triggers
  PROVE  Inv /\ [Next]_vars => UnderWay'
<1> SUFFICES ASSUME Inv, [Next]_vars PROVE UnderWay'
  OBVIOUS
<1>. USE Alone DEF Inv, TypeOK, UnderWay, Place, Empties, NoServices
<1>1. ASSUME NEW c \in Caller, Ask(c) PROVE UnderWay'
  BY <1>1 DEF Ask
<1>2. ASSUME NEW c \in Caller, Acquire(c) PROVE UnderWay'
  BY <1>2 DEF Acquire
<1>3. ASSUME NEW c \in Caller, TimeOut(c) PROVE UnderWay'
  BY <1>3 DEF TimeOut
<1>4. ASSUME NEW c \in Caller, Drop(c) PROVE UnderWay'
  BY <1>4 DEF Drop
<1>5. ASSUME Receive PROVE UnderWay'
  BY <1>5 DEF Receive
<1>6. ASSUME NEW r \in Reloader, ReadFile(r) PROVE UnderWay'
  <2>1. CASE content[file] = "gone" /\ r # Sighup
    BY <1>6, <2>1 DEF ReadFile
  <2>2. CASE ~(content[file] = "gone" /\ r # Sighup)
    BY <1>6, <2>2 DEF ReadFile
  <2>3. QED
    BY <2>1, <2>2
<1>7. ASSUME NEW r \in Reloader, Count(r) PROVE UnderWay'
  <2>1. CASE Empties(r)
    BY <1>7, <2>1 DEF Count, Empties, NoServices
  <2>2. CASE ~Empties(r)
    BY <1>7, <2>2 DEF Count
  <2>3. QED
    BY <2>1, <2>2
<1>8. ASSUME NEW r \in Reloader, SwapRegistry(r) PROVE UnderWay'
  BY <1>8 DEF SwapRegistry
<1>9. ASSUME NEW r \in Reloader, SwapClients(r) PROVE UnderWay'
  BY <1>9 DEF SwapClients
<1>10. ASSUME NEW r \in Reloader, ClearFolder(r) PROVE UnderWay'
  <2>1. CASE r = Sighup
    BY <1>10, <2>1 DEF ClearFolder
  <2>2. CASE r # Sighup
    BY SMTT(30), <1>10, <2>2 DEF ClearFolder
  <2>3. QED
    BY <2>1, <2>2
<1>11. ASSUME Rebuild PROVE UnderWay'
  BY <1>11 DEF Rebuild
<1>12. ASSUME SwapLookup PROVE UnderWay'
  BY <1>12 DEF SwapLookup
<1>13. ASSUME SwapPlaceholders PROVE UnderWay'
  BY <1>13 DEF SwapPlaceholders
<1>14. ASSUME Edit PROVE UnderWay'
  BY <1>14 DEF Edit
<1>15. ASSUME Signal PROVE UnderWay'
  BY <1>15 DEF Signal
<1>16. CASE UNCHANGED vars
  BY <1>16 DEF vars
<1>17. QED
  BY <1>1, <1>2, <1>3, <1>4, <1>5, <1>6, <1>7, <1>8, <1>9, <1>10, <1>11,
     <1>12, <1>13, <1>14, <1>15, <1>16, NextCases, Zenon

\* Registry and clients are apart only between the two swaps.
LEMMA SwapsAgreeStep ==
  ASSUME "both" \notin Triggers
  PROVE  Inv /\ [Next]_vars => SwapsAgree'
<1> SUFFICES ASSUME Inv, [Next]_vars PROVE SwapsAgree'
  OBVIOUS
<1>. USE Alone DEF Inv, TypeOK, UnderWay, SwapsAgree, Place
<1>1. ASSUME NEW c \in Caller, Ask(c) PROVE SwapsAgree'
  BY <1>1 DEF Ask
<1>2. ASSUME NEW c \in Caller, Acquire(c) PROVE SwapsAgree'
  BY <1>2 DEF Acquire
<1>3. ASSUME NEW c \in Caller, TimeOut(c) PROVE SwapsAgree'
  BY <1>3 DEF TimeOut
<1>4. ASSUME NEW c \in Caller, Drop(c) PROVE SwapsAgree'
  BY <1>4 DEF Drop
<1>5. ASSUME Receive PROVE SwapsAgree'
  BY <1>5 DEF Receive
<1>6. ASSUME NEW r \in Reloader, ReadFile(r) PROVE SwapsAgree'
  BY <1>6 DEF ReadFile
<1>7. ASSUME NEW r \in Reloader, Count(r) PROVE SwapsAgree'
  BY <1>7 DEF Count
<1>8. ASSUME NEW r \in Reloader, SwapRegistry(r) PROVE SwapsAgree'
  BY <1>8 DEF SwapRegistry
<1>9. ASSUME NEW r \in Reloader, SwapClients(r) PROVE SwapsAgree'
  BY <1>9 DEF SwapClients
<1>10. ASSUME NEW r \in Reloader, ClearFolder(r) PROVE SwapsAgree'
  BY <1>10 DEF ClearFolder
<1>11. ASSUME Rebuild PROVE SwapsAgree'
  BY <1>11 DEF Rebuild
<1>12. ASSUME SwapLookup PROVE SwapsAgree'
  BY <1>12 DEF SwapLookup
<1>13. ASSUME SwapPlaceholders PROVE SwapsAgree'
  BY <1>13 DEF SwapPlaceholders
<1>14. ASSUME Edit PROVE SwapsAgree'
  BY <1>14 DEF Edit
<1>15. ASSUME Signal PROVE SwapsAgree'
  BY <1>15 DEF Signal
<1>16. CASE UNCHANGED vars
  BY <1>16 DEF vars
<1>17. QED
  BY <1>1, <1>2, <1>3, <1>4, <1>5, <1>6, <1>7, <1>8, <1>9, <1>10, <1>11,
     <1>12, <1>13, <1>14, <1>15, <1>16, NextCases, Zenon

\* The listener follows the registry, which nobody else swaps.
LEMMA ListenerStep ==
  ASSUME "both" \notin Triggers
  PROVE  Inv /\ [Next]_vars => ListenerInStep'
<1> SUFFICES ASSUME Inv, [Next]_vars PROVE ListenerInStep'
  OBVIOUS
<1>. USE DEF Inv, TypeOK, OneReload, ListenerInStep, Place, Clashes
<1>1. ASSUME NEW c \in Caller, Ask(c) PROVE ListenerInStep'
  BY <1>1 DEF Ask
<1>2. ASSUME NEW c \in Caller, Acquire(c) PROVE ListenerInStep'
  BY <1>2 DEF Acquire
<1>3. ASSUME NEW c \in Caller, TimeOut(c) PROVE ListenerInStep'
  BY <1>3 DEF TimeOut
<1>4. ASSUME NEW c \in Caller, Drop(c) PROVE ListenerInStep'
  BY <1>4 DEF Drop
<1>5. ASSUME Receive PROVE ListenerInStep'
  BY <1>5 DEF Receive
<1>6. ASSUME NEW r \in Reloader, ReadFile(r) PROVE ListenerInStep'
  BY <1>6 DEF ReadFile
<1>7. ASSUME NEW r \in Reloader, Count(r) PROVE ListenerInStep'
  BY <1>7 DEF Count
<1>8. ASSUME NEW r \in Reloader, SwapRegistry(r) PROVE ListenerInStep'
  BY <1>8 DEF SwapRegistry
<1>9. ASSUME NEW r \in Reloader, SwapClients(r) PROVE ListenerInStep'
  BY <1>9 DEF SwapClients
<1>10. ASSUME NEW r \in Reloader, ClearFolder(r) PROVE ListenerInStep'
  BY <1>10 DEF ClearFolder
<1>11. ASSUME Rebuild PROVE ListenerInStep'
  BY <1>11 DEF Rebuild
<1>12. ASSUME SwapLookup PROVE ListenerInStep'
  BY <1>12 DEF SwapLookup
<1>13. ASSUME SwapPlaceholders PROVE ListenerInStep'
  BY <1>13 DEF SwapPlaceholders
<1>14. ASSUME Edit PROVE ListenerInStep'
  BY <1>14 DEF Edit
<1>15. ASSUME Signal PROVE ListenerInStep'
  BY <1>15 DEF Signal
<1>16. CASE UNCHANGED vars
  BY <1>16 DEF vars
<1>17. QED
  BY <1>1, <1>2, <1>3, <1>4, <1>5, <1>6, <1>7, <1>8, <1>9, <1>10, <1>11,
     <1>12, <1>13, <1>14, <1>15, <1>16, NextCases, Zenon

\* A step of the system swaps the registry for one that is as new, and that has
\* services if the old one had.
LEMMA ForwardStep ==
  ASSUME Inv, [Next]_vars
  PROVE  registry' >= registry /\ (~NoServices(registry) => ~NoServices(registry'))
<1>1. ASSUME NEW r \in Reloader, SwapRegistry(r)
      PROVE  registry' >= registry /\ (~NoServices(registry) => ~NoServices(registry'))
  BY <1>1 DEF SwapRegistry, Inv, TypeOK, UnderWay, Empties, NoServices
<1>2. ASSUME UNCHANGED <<registry, content>>
      PROVE  registry' >= registry /\ (~NoServices(registry) => ~NoServices(registry'))
  BY <1>2 DEF Inv, TypeOK, NoServices
<1>3. (\E r \in Reloader : SwapRegistry(r)) \/ UNCHANGED <<registry, content>>
  BY NextCases DEF vars, Ask, Acquire, TimeOut, Drop, Receive, ReadFile,
     Count, SwapClients,
     ClearFolder, Rebuild, SwapLookup, SwapPlaceholders, Edit, Signal
<1>4. QED
  BY <1>1, <1>2, <1>3

LEMMA InitInv == Init => Inv
<1> SUFFICES ASSUME Init PROVE Inv
  OBVIOUS
<1>. USE DEF Init
<1>1. TypeOK
  <2>1. 1 \in Version /\ file = 1 /\ 0 \in 0..MaxReloads /\ 0 \in 0..MaxSignals
    OBVIOUS
  <2>2. pc \in [Reloader -> Place] /\ new \in [Reloader -> 1..file]
    BY <2>1 DEF Place
  <2>3. reloads \in [Caller -> 0..MaxReloads]
    BY <2>1
  <2>4. QED
    BY <2>1, <2>2, <2>3 DEF TypeOK
<1>2. OneReload
  BY DEF OneReload
<1>3. UnderWay
  BY DEF UnderWay
<1>4. SwapsAgree /\ ListenerInStep
  BY DEF SwapsAgree, ListenerInStep
<1>5. QED
  BY <1>1, <1>2, <1>3, <1>4 DEF Inv

\* At rest nobody is between the swaps, and the SIGHUP task is idle.
LEMMA InvImplies == Inv => ReloadInv
  BY DEF Inv, ReloadInv, RegistryMatchesClients, ListenerFollows, Quiet,
     SwapsAgree,
     ListenerInStep, OneReload

LEMMA InvAlways ==
  ASSUME "both" \notin Triggers
  PROVE  Spec => []Inv
<1>1. Inv /\ [Next]_vars => Inv'
  BY TypeStep, OneReloadStep, UnderWayStep, SwapsAgreeStep, ListenerStep DEF Inv
<1>2. QED
  BY <1>1, InitInv, PTL DEF Spec

\* However many reload, edit and signal: between reloads registry and clients are
\* of one version of the file, unless the last handler was dropped between its
\* swaps, and the listener has what a SIGHUP has brought (reload_services and the
\* SIGHUP task of main).
THEOREM ReloadInvariant ==
  ASSUME "both" \notin Triggers
  PROVE  Spec => []ReloadInv
  BY InvAlways, InvImplies, PTL

\* A reload never puts an older file in the place of a newer one, nor no services
\* in the place of some: the rollback guard holds although it is checked before
\* the locks of the swap are taken (Count and SwapRegistry).
THEOREM Forward ==
  ASSUME "both" \notin Triggers
  PROVE  Spec => GoesForward
<1>1. Inv /\ [Next]_vars => [registry' >= registry]_vars
  BY ForwardStep
<1>2. Inv /\ [Next]_vars => [~NoServices(registry) => ~NoServices(registry')]_vars
  BY ForwardStep
<1>3. QED
  BY <1>1, <1>2, InvAlways, PTL DEF GoesForward, NeverOlder, NeverEmptied, Spec
=============================================================================
