--------------------------- MODULE ProxyTokens_proofs ---------------------------
(***************************************************************************)
(* Proofs about ProxyTokens, for any number of tasks, requests and syncs,  *)
(* any auth patterns, and any failures.                                    *)
(***************************************************************************)
EXTENDS ProxyTokens, TLAPS

\* The actions of Next, one by one.
LEMMA NextCases ==
  ASSUME Next
  PROVE  \/ \E t \in Task :
              \/ \E p \in Paths : Begin(t, p)
              \/ Acquire(t) \/ Hit(t) \/ Miss(t) \/ FetchFails(t) \/ Refused(t)
              \/ Receive(t) \/ WriteBack(t) \/ WriteBackFails(t) \/ Store(t)
              \/ Unauthorized(t) \/ Answer(t) \/ SendFails(t) \/ Cancel(t)
              \/ \E rotated \in Rotations : Grant(t, rotated)
         \/ Ripen \/ Expire \/ SyncFetch \/ SyncStore
  BY Zenon DEF Next, Run

\* What every step below may look at: the assumptions on the constants and the
\* helpers that the actions share.
USE KindsAssumption, PathsAssumption, FlagsAssumption, LimitsAssumption,
    NoneAssumption, NobodyAssumption
    DEF KindsAssumption, PathsAssumption, FlagsAssumption, LimitsAssumption,
        NoneAssumption, NobodyAssumption, Maybe, Critical, Place, Goto, Set,
        stateVars, requestVars, attemptVars, vaultVars, endpointVars

\* The invariant of which the rest of TokensInv is a consequence.
Inv == TypeOK /\ OneExchangeAtATime /\ LockFree /\ InHand /\ RefreshTokenKept

\* Every step keeps the types.
LEMMA TypeStep == Inv /\ [Next]_vars => TypeOK'
<1> SUFFICES ASSUME Inv, [Next]_vars PROVE TypeOK'
  OBVIOUS
<1>. USE DEF Inv, TypeOK, InHand
<1>1. ASSUME NEW t \in Task, NEW p \in Paths, Begin(t, p) PROVE TypeOK'
  BY <1>1 DEF Begin, Entry
<1>2. ASSUME NEW t \in Task, Acquire(t) PROVE TypeOK'
  BY <1>2 DEF Acquire
<1>3. ASSUME NEW t \in Task, Hit(t) PROVE TypeOK'
  BY <1>3 DEF Hit, Release, Return, Usable
<1>4. ASSUME NEW t \in Task, Miss(t) PROVE TypeOK'
  BY <1>4 DEF Miss, Usable
<1>5. ASSUME NEW t \in Task, FetchFails(t) PROVE TypeOK'
  BY <1>5 DEF FetchFails, End, Release
<1>6. ASSUME NEW t \in Task, Refused(t) PROVE TypeOK'
  BY <1>6 DEF Refused, End, Release
<1>7. ASSUME NEW t \in Task, Receive(t) PROVE TypeOK'
  BY <1>7 DEF Receive, Rotated
<1>8. ASSUME NEW t \in Task, WriteBack(t) PROVE TypeOK'
  BY <1>8 DEF WriteBack
<1>9. ASSUME NEW t \in Task, WriteBackFails(t) PROVE TypeOK'
  BY <1>9 DEF WriteBackFails
<1>10. ASSUME NEW t \in Task, Store(t) PROVE TypeOK'
  BY <1>10 DEF Store, Release, Return
<1>11. ASSUME NEW t \in Task, Unauthorized(t) PROVE TypeOK'
  BY <1>11 DEF Unauthorized, Entry
<1>12. ASSUME NEW t \in Task, Answer(t) PROVE TypeOK'
  BY <1>12 DEF Answer, End, Release
<1>13. ASSUME NEW t \in Task, SendFails(t) PROVE TypeOK'
  BY <1>13 DEF SendFails, End, Release
<1>14. ASSUME NEW t \in Task, Cancel(t) PROVE TypeOK'
  BY <1>14 DEF Cancel, End, Release, Rotated
<1>15. ASSUME NEW t \in Task, NEW rotated \in Rotations, Grant(t, rotated) PROVE TypeOK'
  BY <1>15 DEF Grant
<1>16. ASSUME Ripen PROVE TypeOK'
  BY <1>16 DEF Ripen
<1>17. ASSUME Expire PROVE TypeOK'
  BY <1>17 DEF Expire
<1>18. ASSUME SyncFetch PROVE TypeOK'
  BY <1>18 DEF SyncFetch
<1>19. ASSUME SyncStore PROVE TypeOK'
  BY <1>19 DEF SyncStore
<1>20. CASE UNCHANGED vars
  BY <1>20 DEF vars
<1>21. QED
  BY <1>1, <1>2, <1>3, <1>4, <1>5, <1>6, <1>7, <1>8, <1>9, <1>10, <1>11,
     <1>12, <1>13, <1>14, <1>15, <1>16, <1>17, <1>18, <1>19, <1>20, NextCases,
     Zenon

\* The lock is held by the task that is between the look and the store, and by
\* nobody else.
LEMMA LockStep == Inv /\ [Next]_vars => (OneExchangeAtATime /\ LockFree)'
<1> SUFFICES ASSUME Inv, [Next]_vars PROVE (OneExchangeAtATime /\ LockFree)'
  OBVIOUS
<1>. USE DEF Inv, TypeOK, OneExchangeAtATime, LockFree
<1>1. ASSUME NEW t \in Task, NEW p \in Paths, Begin(t, p) PROVE (OneExchangeAtATime /\ LockFree)'
  BY <1>1 DEF Begin, Entry
<1>2. ASSUME NEW t \in Task, Acquire(t) PROVE (OneExchangeAtATime /\ LockFree)'
  BY <1>2 DEF Acquire
<1>3. ASSUME NEW t \in Task, Hit(t) PROVE (OneExchangeAtATime /\ LockFree)'
  BY <1>3 DEF Hit, Release, Return, Usable
<1>4. ASSUME NEW t \in Task, Miss(t) PROVE (OneExchangeAtATime /\ LockFree)'
  BY <1>4 DEF Miss, Usable
<1>5. ASSUME NEW t \in Task, FetchFails(t) PROVE (OneExchangeAtATime /\ LockFree)'
  BY <1>5 DEF FetchFails, End, Release
<1>6. ASSUME NEW t \in Task, Refused(t) PROVE (OneExchangeAtATime /\ LockFree)'
  BY <1>6 DEF Refused, End, Release
<1>7. ASSUME NEW t \in Task, Receive(t) PROVE (OneExchangeAtATime /\ LockFree)'
  BY <1>7 DEF Receive, Rotated
<1>8. ASSUME NEW t \in Task, WriteBack(t) PROVE (OneExchangeAtATime /\ LockFree)'
  BY <1>8 DEF WriteBack
<1>9. ASSUME NEW t \in Task, WriteBackFails(t) PROVE (OneExchangeAtATime /\ LockFree)'
  BY <1>9 DEF WriteBackFails
<1>10. ASSUME NEW t \in Task, Store(t) PROVE (OneExchangeAtATime /\ LockFree)'
  BY <1>10 DEF Store, Release, Return
<1>11. ASSUME NEW t \in Task, Unauthorized(t) PROVE (OneExchangeAtATime /\ LockFree)'
  BY <1>11 DEF Unauthorized, Entry
<1>12. ASSUME NEW t \in Task, Answer(t) PROVE (OneExchangeAtATime /\ LockFree)'
  BY <1>12 DEF Answer, End, Release
<1>13. ASSUME NEW t \in Task, SendFails(t) PROVE (OneExchangeAtATime /\ LockFree)'
  BY <1>13 DEF SendFails, End, Release
<1>14. ASSUME NEW t \in Task, Cancel(t) PROVE (OneExchangeAtATime /\ LockFree)'
  BY <1>14 DEF Cancel, End, Release, Rotated
<1>15. ASSUME NEW t \in Task, NEW rotated \in Rotations, Grant(t, rotated) PROVE (OneExchangeAtATime /\ LockFree)'
  BY <1>15 DEF Grant
<1>16. ASSUME Ripen PROVE (OneExchangeAtATime /\ LockFree)'
  BY <1>16 DEF Ripen
<1>17. ASSUME Expire PROVE (OneExchangeAtATime /\ LockFree)'
  BY <1>17 DEF Expire
<1>18. ASSUME SyncFetch PROVE (OneExchangeAtATime /\ LockFree)'
  BY <1>18 DEF SyncFetch
<1>19. ASSUME SyncStore PROVE (OneExchangeAtATime /\ LockFree)'
  BY <1>19 DEF SyncStore
<1>20. CASE UNCHANGED vars
  BY <1>20 DEF vars
<1>21. QED
  BY <1>1, <1>2, <1>3, <1>4, <1>5, <1>6, <1>7, <1>8, <1>9, <1>10, <1>11,
     <1>12, <1>13, <1>14, <1>15, <1>16, <1>17, <1>18, <1>19, <1>20, NextCases,
     Zenon

\* What a task has in hand follows it from step to step.
LEMMA InHandStep == Inv /\ [Next]_vars => InHand'
<1> SUFFICES ASSUME Inv, [Next]_vars PROVE InHand'
  OBVIOUS
<1>. USE DEF Inv, TypeOK, OneExchangeAtATime, InHand
<1>1. ASSUME NEW t \in Task, NEW p \in Paths, Begin(t, p) PROVE InHand'
  BY <1>1 DEF Begin, Entry
<1>2. ASSUME NEW t \in Task, Acquire(t) PROVE InHand'
  BY <1>2 DEF Acquire
<1>3. ASSUME NEW t \in Task, Hit(t) PROVE InHand'
  BY <1>3 DEF Hit, Release, Return, Usable
<1>4. ASSUME NEW t \in Task, Miss(t) PROVE InHand'
  BY <1>4 DEF Miss, Usable
<1>5. ASSUME NEW t \in Task, FetchFails(t) PROVE InHand'
  BY <1>5 DEF FetchFails, End, Release
<1>6. ASSUME NEW t \in Task, Refused(t) PROVE InHand'
  BY <1>6 DEF Refused, End, Release
<1>7. ASSUME NEW t \in Task, Receive(t) PROVE InHand'
  BY <1>7 DEF Receive, Rotated
<1>8. ASSUME NEW t \in Task, WriteBack(t) PROVE InHand'
  BY <1>8 DEF WriteBack
<1>9. ASSUME NEW t \in Task, WriteBackFails(t) PROVE InHand'
  BY <1>9 DEF WriteBackFails
<1>10. ASSUME NEW t \in Task, Store(t) PROVE InHand'
  BY <1>10 DEF Store, Release, Return
<1>11. ASSUME NEW t \in Task, Unauthorized(t) PROVE InHand'
  BY <1>11 DEF Unauthorized, Entry
<1>12. ASSUME NEW t \in Task, Answer(t) PROVE InHand'
  BY <1>12 DEF Answer, End, Release
<1>13. ASSUME NEW t \in Task, SendFails(t) PROVE InHand'
  BY <1>13 DEF SendFails, End, Release
<1>14. ASSUME NEW t \in Task, Cancel(t) PROVE InHand'
  BY <1>14 DEF Cancel, End, Release, Rotated
<1>15. ASSUME NEW t \in Task, NEW rotated \in Rotations, Grant(t, rotated) PROVE InHand'
  BY <1>15 DEF Grant
<1>16. ASSUME Ripen PROVE InHand'
  BY <1>16 DEF Ripen
<1>17. ASSUME Expire PROVE InHand'
  BY <1>17 DEF Expire
<1>18. ASSUME SyncFetch PROVE InHand'
  BY <1>18 DEF SyncFetch
<1>19. ASSUME SyncStore PROVE InHand'
  BY <1>19 DEF SyncStore
<1>20. CASE UNCHANGED vars
  BY <1>20 DEF vars
<1>21. QED
  BY <1>1, <1>2, <1>3, <1>4, <1>5, <1>6, <1>7, <1>8, <1>9, <1>10, <1>11,
     <1>12, <1>13, <1>14, <1>15, <1>16, <1>17, <1>18, <1>19, <1>20, NextCases,
     Zenon

\* The refresh token that the endpoint accepts is in the vault or under way.
LEMMA KeptStep == Inv /\ [Next]_vars => RefreshTokenKept'
<1> SUFFICES ASSUME Inv, [Next]_vars PROVE RefreshTokenKept'
  OBVIOUS
<1>. USE DEF Inv, TypeOK, OneExchangeAtATime, InHand, RefreshTokenKept
<1>1. ASSUME NEW t \in Task, NEW p \in Paths, Begin(t, p) PROVE RefreshTokenKept'
  BY <1>1 DEF Begin, Entry
<1>2. ASSUME NEW t \in Task, Acquire(t) PROVE RefreshTokenKept'
  BY <1>2 DEF Acquire
<1>3. ASSUME NEW t \in Task, Hit(t) PROVE RefreshTokenKept'
  BY <1>3 DEF Hit, Release, Return, Usable
<1>4. ASSUME NEW t \in Task, Miss(t) PROVE RefreshTokenKept'
  BY <1>4 DEF Miss, Usable
<1>5. ASSUME NEW t \in Task, FetchFails(t) PROVE RefreshTokenKept'
  BY <1>5 DEF FetchFails, End, Release
<1>6. ASSUME NEW t \in Task, Refused(t) PROVE RefreshTokenKept'
  BY <1>6 DEF Refused, End, Release
<1>7. ASSUME NEW t \in Task, Receive(t) PROVE RefreshTokenKept'
  BY <1>7 DEF Receive, Rotated
<1>8. ASSUME NEW t \in Task, WriteBack(t) PROVE RefreshTokenKept'
  BY <1>8 DEF WriteBack
<1>9. ASSUME NEW t \in Task, WriteBackFails(t) PROVE RefreshTokenKept'
  BY <1>9 DEF WriteBackFails
<1>10. ASSUME NEW t \in Task, Store(t) PROVE RefreshTokenKept'
  BY <1>10 DEF Store, Release, Return
<1>11. ASSUME NEW t \in Task, Unauthorized(t) PROVE RefreshTokenKept'
  BY <1>11 DEF Unauthorized, Entry
<1>12. ASSUME NEW t \in Task, Answer(t) PROVE RefreshTokenKept'
  BY <1>12 DEF Answer, End, Release
<1>13. ASSUME NEW t \in Task, SendFails(t) PROVE RefreshTokenKept'
  BY <1>13 DEF SendFails, End, Release
<1>14. ASSUME NEW t \in Task, Cancel(t) PROVE RefreshTokenKept'
  BY <1>14 DEF Cancel, End, Release, Rotated
<1>15. ASSUME NEW t \in Task, NEW rotated \in Rotations, Grant(t, rotated) PROVE RefreshTokenKept'
  BY <1>15 DEF Grant
<1>16. ASSUME Ripen PROVE RefreshTokenKept'
  BY <1>16 DEF Ripen
<1>17. ASSUME Expire PROVE RefreshTokenKept'
  BY <1>17 DEF Expire
<1>18. ASSUME SyncFetch PROVE RefreshTokenKept'
  BY <1>18 DEF SyncFetch
<1>19. ASSUME SyncStore PROVE RefreshTokenKept'
  BY <1>19 DEF SyncStore
<1>20. CASE UNCHANGED vars
  BY <1>20 DEF vars
<1>21. QED
  BY <1>1, <1>2, <1>3, <1>4, <1>5, <1>6, <1>7, <1>8, <1>9, <1>10, <1>11,
     <1>12, <1>13, <1>14, <1>15, <1>16, <1>17, <1>18, <1>19, <1>20, NextCases,
     Zenon

LEMMA InitInv == Init => Inv
<1> SUFFICES ASSUME Init PROVE Inv
  OBVIOUS
<1>. USE DEF Init
<1>1. TypeOK
  <2>1. issued = 0 /\ 0 \in 0..issued /\ 0 \in 0..issued + 1
    OBVIOUS
  <2>2. 0 \in 0..MaxRequests /\ 0 \in 0..MaxSyncs
    OBVIOUS
  <2>3. /\ kind \in Kinds /\ cached \in Maybe(1..issued) /\ fresh \in BOOLEAN
        /\ holder \in Task \union {Nobody} /\ itemRT \in Nat
    BY DEF Maybe
  <2>4. /\ pc \in [Task -> Place] /\ requests \in [Task -> 0..MaxRequests]
        /\ path \in [Task -> Maybe(Paths)] /\ forced \in [Task -> BOOLEAN]
        /\ token \in [Task -> Maybe(Nat)] /\ rt \in [Task -> Maybe(Nat)]
        /\ reply \in [Task -> Maybe([token : Nat, rt : Nat])]
    BY <2>2 DEF Maybe, Place
  <2>5. /\ vaultRT \in Nat /\ snap \in Maybe(Nat) /\ syncs \in 0..MaxSyncs
        /\ issued \in Nat /\ endpointRT \in 0..issued /\ dead \in 0..issued + 1
        /\ lost \in BOOLEAN
    <3>1. issued = 0 /\ endpointRT \in 0..issued /\ dead \in 0..issued + 1
      BY <2>1
    <3>2. syncs \in 0..MaxSyncs
      BY <2>2
    <3>3. vaultRT \in Nat /\ snap \in Maybe(Nat) /\ lost \in BOOLEAN
      OBVIOUS
    <3>4. QED
      BY <3>1, <3>2, <3>3, Zenon DEF Init
  <2>6. QED
    BY <2>3, <2>4, <2>5 DEF TypeOK
<1>2. OneExchangeAtATime /\ LockFree
  BY DEF OneExchangeAtATime, LockFree
<1>3. InHand
  BY DEF InHand
<1>4. RefreshTokenKept
  BY DEF RefreshTokenKept
<1>5. QED
  BY <1>1, <1>2, <1>3, <1>4 DEF Inv

LEMMA InvAlways == Spec => []Inv
<1>1. Inv /\ [Next]_vars => Inv'
  BY TypeStep, LockStep, InHandStep, KeptStep DEF Inv
<1>2. QED
  BY <1>1, InitInv, PTL DEF Spec

\* Whoever is between the exchange and the write-back is alone there, so that
\* the vault has the refresh token, or that task is about to write it.
LEMMA InvImplies == Inv => TokensInv /\ RefusedOnlyWhenStale
<1> SUFFICES ASSUME Inv PROVE TokensInv /\ RefusedOnlyWhenStale
  OBVIOUS
<1>. USE DEF Inv
<1>1. VaultHasRefreshToken
  BY DEF VaultHasRefreshToken, RefreshTokenKept
<1>2. RefusedOnlyWhenStale
  <2> SUFFICES ASSUME NEW t \in Task, Writeback, ~lost, kind = "refresh", pc[t] = "posted"
               PROVE  vaultRT = endpointRT
    BY DEF RefusedOnlyWhenStale
  <2>1. \A u \in Task : pc[u] \notin {"granted", "writeback"}
    BY DEF OneExchangeAtATime
  <2>2. QED
    BY <2>1 DEF RefreshTokenKept
<1>3. QED
  BY <1>1, <1>2 DEF TokensInv

\* A step that stores a token stores the latest one.
LEMMA ForwardStep ==
  Inv /\ [Next]_vars => [kind = "refresh" /\ cached # None => cached' >= cached]_vars
<1> SUFFICES ASSUME Inv, [Next]_vars, kind = "refresh", cached # None
             PROVE  cached' >= cached
  OBVIOUS
<1>1. ASSUME NEW t \in Task, Store(t) PROVE cached' >= cached
  BY <1>1 DEF Store, Inv, TypeOK, InHand
<1>2. (\E t \in Task : Store(t)) \/ UNCHANGED cached
  BY NextCases, Zenon
     DEF vars, Begin, Acquire, Hit, Miss, FetchFails, Refused, Receive, WriteBack,
         WriteBackFails, Unauthorized, Answer, SendFails, Cancel, Grant, Ripen,
         Expire, SyncFetch, SyncStore
<1>3. UNCHANGED cached => cached' >= cached
  BY DEF Inv, TypeOK
<1>4. QED
  BY <1>1, <1>2, <1>3

\* However many requests share the service: with the refresh-token grant one
\* exchange at a time is under way, and unless a grant is lost the refresh token
\* that the endpoint accepts is in the vault, or its task is about to write it
\* (get_or_refresh_oauth_refresh_token and its lock).
THEOREM TokensInvariant == Spec => []TokensInv
  BY InvAlways, InvImplies, PTL

\* Unless a grant is lost, the endpoint refuses only an exchange whose refresh
\* token came from a cached item that is behind the vault.
THEOREM RefusedStale == Spec => []RefusedOnlyWhenStale
  BY InvAlways, InvImplies, PTL

\* The cache of tokens does not go back to an older one, as the lock is held
\* until the token is stored.
THEOREM CacheForward == Spec => CacheGoesForward
  BY InvAlways, ForwardStep, PTL DEF Spec, CacheGoesForward

\* A call that ends is the end of its request, if that was under way.
LEMMA EndStep ==
  ASSUME Inv, NEW t \in Task, pc[t] # "idle", End(t)
  PROVE  Request!Finish(t) \/ UNCHANGED Request!vars
<1>. USE DEF Inv, TypeOK, InHand
<1>1. \A u \in Task : Phase(u)' = IF u = t THEN "idle" ELSE Phase(u)
  BY DEF End, Phase
<1>2. token' = [token EXCEPT ![t] = None]
  BY DEF End
<1>3. CASE Phase(t) = "idle"
  <2>1. token[t] = None
    BY <1>3 DEF Phase
  <2>2. token' = token
    BY <1>2, <2>1
  <2>3. \A u \in Task : Phase(u)' = Phase(u)
    BY <1>1, <1>3
  <2> HIDE DEF Phase
  <2>4. QED
    BY <2>2, <2>3 DEF Request!vars
<1>4. CASE Phase(t) # "idle"
  <2> HIDE DEF Phase
  <2>1. QED
    BY <1>1, <1>2, <1>4 DEF Request!Finish
<1>5. QED
  BY <1>3, <1>4

\* A call that returns a token begins an attempt, the first or, when it was
\* forced, the second.
LEMMA ReturnStep ==
  ASSUME Inv, NEW t \in Task, NEW tok \in Nat, pc[t] \in {"look", "store"},
         Return(t, tok), forced' = forced, forced[t] => token[t] # tok
  PROVE  Request!Next
<1>. USE DEF Inv, TypeOK, InHand
<1>1. token' = [token EXCEPT ![t] = tok] /\ token'[t] = tok
  BY DEF Return
<1>2. CASE forced[t]
  <2>1. Phase(t) = "rejected"
    BY <1>2 DEF Phase
  <2>2. \A u \in Task : Phase(u)' = IF u = t THEN "second" ELSE Phase(u)
    <3>1. pc' = [pc EXCEPT ![t] = "resend"]
      BY <1>2 DEF Return
    <3>2. Phase(t)' = "second"
      BY <3>1 DEF Phase
    <3>3. ASSUME NEW u \in Task, u # t PROVE Phase(u)' = Phase(u)
      <4>1. pc'[u] = pc[u] /\ forced'[u] = forced[u]
        BY <3>1, <3>3
      <4>2. QED
        BY <4>1 DEF Phase
    <3> HIDE DEF Phase
    <3>4. QED
      BY <3>2, <3>3
  <2>3. token'[t] \in Nat \ {token[t]}
    BY <1>1, <1>2
  <2> HIDE DEF Phase
  <2>4. Request!Retry(t)
    BY <1>1, <2>1, <2>2, <2>3 DEF Request!Retry, Request!Send
  <2>5. QED
    BY <2>4 DEF Request!Next
<1>3. CASE ~forced[t]
  <2>1. Phase(t) = "idle"
    BY <1>3 DEF Phase
  <2>2. \A u \in Task : Phase(u)' = IF u = t THEN "first" ELSE Phase(u)
    <3>1. pc' = [pc EXCEPT ![t] = "send"]
      BY <1>3 DEF Return
    <3>2. Phase(t)' = "first"
      BY <3>1 DEF Phase
    <3>3. ASSUME NEW u \in Task, u # t PROVE Phase(u)' = Phase(u)
      <4>1. pc'[u] = pc[u] /\ forced'[u] = forced[u]
        BY <3>1, <3>3
      <4>2. QED
        BY <4>1 DEF Phase
    <3> HIDE DEF Phase
    <3>4. QED
      BY <3>2, <3>3
  <2> HIDE DEF Phase
  <2>3. Request!Attempt(t)
    BY <1>1, <2>1, <2>2 DEF Request!Attempt, Request!Send
  <2>4. QED
    BY <2>3 DEF Request!Next
<1>4. QED
  BY <1>2, <1>3

\* Every step is, for the caller of the request, a step of the retry contract or
\* invisible.
LEMMA ContractStep == Inv /\ [Next]_vars => [Request!Next]_(Request!vars)
<1> SUFFICES ASSUME Inv, [Next]_vars
             PROVE  Request!Next \/ UNCHANGED Request!vars
  BY Zenon
<1>. USE DEF Inv, TypeOK, InHand
<1>1. ASSUME NEW t \in Task, NEW p \in Paths, Begin(t, p)
     PROVE Request!Next \/ UNCHANGED Request!vars
  <2>1. token' = token /\ \A u \in Task : Phase(u)' = Phase(u)
    BY <1>1 DEF Begin, Phase, Entry
  <2> HIDE DEF Phase
  <2>2. QED
    BY <2>1 DEF Request!vars
<1>2. ASSUME NEW t \in Task, Acquire(t)
     PROVE Request!Next \/ UNCHANGED Request!vars
  <2>1. token' = token /\ \A u \in Task : Phase(u)' = Phase(u)
    BY <1>2 DEF Acquire, Phase
  <2> HIDE DEF Phase
  <2>2. QED
    BY <2>1 DEF Request!vars
<1>3. ASSUME NEW t \in Task, Hit(t)
     PROVE Request!Next \/ UNCHANGED Request!vars
  <2>1. cached \in Nat /\ ~forced[t] /\ pc[t] = "look"
    BY <1>3 DEF Hit, Usable
  <2>2. Return(t, cached) /\ forced' = forced
    BY <1>3 DEF Hit
  <2>3. QED
    BY <2>1, <2>2, ReturnStep
<1>4. ASSUME NEW t \in Task, Miss(t)
     PROVE Request!Next \/ UNCHANGED Request!vars
  <2>1. token' = token /\ \A u \in Task : Phase(u)' = Phase(u)
    BY <1>4 DEF Miss, Phase, Usable
  <2> HIDE DEF Phase
  <2>2. QED
    BY <2>1 DEF Request!vars
<1>5. ASSUME NEW t \in Task, FetchFails(t)
     PROVE Request!Next \/ UNCHANGED Request!vars
  <2>1. pc[t] # "idle" /\ End(t)
    BY <1>5 DEF FetchFails
  <2>2. Request!Finish(t) \/ UNCHANGED Request!vars
    BY <2>1, EndStep
  <2>3. QED
    BY <2>2 DEF Request!Next
<1>6. ASSUME NEW t \in Task, Refused(t)
     PROVE Request!Next \/ UNCHANGED Request!vars
  <2>1. pc[t] # "idle" /\ End(t)
    BY <1>6 DEF Refused
  <2>2. Request!Finish(t) \/ UNCHANGED Request!vars
    BY <2>1, EndStep
  <2>3. QED
    BY <2>2 DEF Request!Next
<1>7. ASSUME NEW t \in Task, Receive(t)
     PROVE Request!Next \/ UNCHANGED Request!vars
  <2>1. token' = token /\ \A u \in Task : Phase(u)' = Phase(u)
    BY <1>7 DEF Receive, Phase, Rotated
  <2> HIDE DEF Phase
  <2>2. QED
    BY <2>1 DEF Request!vars
<1>8. ASSUME NEW t \in Task, WriteBack(t)
     PROVE Request!Next \/ UNCHANGED Request!vars
  <2>1. token' = token /\ \A u \in Task : Phase(u)' = Phase(u)
    BY <1>8 DEF WriteBack, Phase
  <2> HIDE DEF Phase
  <2>2. QED
    BY <2>1 DEF Request!vars
<1>9. ASSUME NEW t \in Task, WriteBackFails(t)
     PROVE Request!Next \/ UNCHANGED Request!vars
  <2>1. token' = token /\ \A u \in Task : Phase(u)' = Phase(u)
    BY <1>9 DEF WriteBackFails, Phase
  <2> HIDE DEF Phase
  <2>2. QED
    BY <2>1 DEF Request!vars
<1>10. ASSUME NEW t \in Task, Store(t)
     PROVE Request!Next \/ UNCHANGED Request!vars
  <2>1. reply[t].token \in Nat /\ pc[t] = "store" /\ (forced[t] => token[t] # reply[t].token)
    BY <1>10 DEF Store
  <2>2. Return(t, reply[t].token) /\ forced' = forced
    BY <1>10 DEF Store
  <2>3. QED
    BY <2>1, <2>2, ReturnStep
<1>11. ASSUME NEW t \in Task, Unauthorized(t)
     PROVE Request!Next \/ UNCHANGED Request!vars
  <2>1. Phase(t) = "first" /\ UNCHANGED token
    BY <1>11 DEF Unauthorized, Phase
  <2>2. \A u \in Task : Phase(u)' = IF u = t THEN "rejected" ELSE Phase(u)
    BY <1>11 DEF Unauthorized, Entry, Phase
  <2> HIDE DEF Phase
  <2>3. Request!Refused(t)
    BY <2>1, <2>2 DEF Request!Refused
  <2>4. QED
    BY <2>3 DEF Request!Next
<1>12. ASSUME NEW t \in Task, Answer(t)
     PROVE Request!Next \/ UNCHANGED Request!vars
  <2>1. pc[t] # "idle" /\ End(t)
    BY <1>12 DEF Answer
  <2>2. Request!Finish(t) \/ UNCHANGED Request!vars
    BY <2>1, EndStep
  <2>3. QED
    BY <2>2 DEF Request!Next
<1>13. ASSUME NEW t \in Task, SendFails(t)
     PROVE Request!Next \/ UNCHANGED Request!vars
  <2>1. pc[t] # "idle" /\ End(t)
    BY <1>13 DEF SendFails
  <2>2. Request!Finish(t) \/ UNCHANGED Request!vars
    BY <2>1, EndStep
  <2>3. QED
    BY <2>2 DEF Request!Next
<1>14. ASSUME NEW t \in Task, Cancel(t)
     PROVE Request!Next \/ UNCHANGED Request!vars
  <2>1. pc[t] # "idle" /\ End(t)
    BY <1>14 DEF Cancel
  <2>2. Request!Finish(t) \/ UNCHANGED Request!vars
    BY <2>1, EndStep
  <2>3. QED
    BY <2>2 DEF Request!Next
<1>15. ASSUME NEW t \in Task, NEW rotated \in Rotations, Grant(t, rotated)
     PROVE Request!Next \/ UNCHANGED Request!vars
  <2>1. token' = token /\ \A u \in Task : Phase(u)' = Phase(u)
    BY <1>15 DEF Grant, Phase
  <2> HIDE DEF Phase
  <2>2. QED
    BY <2>1 DEF Request!vars
<1>16. ASSUME Ripen
     PROVE Request!Next \/ UNCHANGED Request!vars
  <2>1. token' = token /\ \A u \in Task : Phase(u)' = Phase(u)
    BY <1>16 DEF Ripen, Phase
  <2> HIDE DEF Phase
  <2>2. QED
    BY <2>1 DEF Request!vars
<1>17. ASSUME Expire
     PROVE Request!Next \/ UNCHANGED Request!vars
  <2>1. token' = token /\ \A u \in Task : Phase(u)' = Phase(u)
    BY <1>17 DEF Expire, Phase
  <2> HIDE DEF Phase
  <2>2. QED
    BY <2>1 DEF Request!vars
<1>18. ASSUME SyncFetch
     PROVE Request!Next \/ UNCHANGED Request!vars
  <2>1. token' = token /\ \A u \in Task : Phase(u)' = Phase(u)
    BY <1>18 DEF SyncFetch, Phase
  <2> HIDE DEF Phase
  <2>2. QED
    BY <2>1 DEF Request!vars
<1>19. ASSUME SyncStore
     PROVE Request!Next \/ UNCHANGED Request!vars
  <2>1. token' = token /\ \A u \in Task : Phase(u)' = Phase(u)
    BY <1>19 DEF SyncStore, Phase
  <2> HIDE DEF Phase
  <2>2. QED
    BY <2>1 DEF Request!vars
<1>20. CASE UNCHANGED vars
  BY <1>20 DEF vars, Request!vars, Phase
<1>21. QED
  BY <1>1, <1>2, <1>3, <1>4, <1>5, <1>6, <1>7, <1>8, <1>9, <1>10, <1>11,
     <1>12, <1>13, <1>14, <1>15, <1>16, <1>17, <1>18, <1>19, <1>20, NextCases,
     Zenon

\* A request is sent at most twice, and never with the token that was rejected,
\* whatever the other tasks do to the cached token meanwhile.
THEOREM Contract == Spec => RetriesOnce
<1>1. Init => Request!Init
  BY DEF Init, Request!Init, Phase
<1>2. QED
  BY <1>1, ContractStep, InvAlways, PTL DEF Spec, RetriesOnce, Request!Spec
=============================================================================
