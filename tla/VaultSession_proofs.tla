------------------------- MODULE VaultSession_proofs -------------------------
(***************************************************************************)
(* Proofs about VaultSession, for any set of tasks, any number of requests *)
(* and any mix of replies.                                                 *)
(***************************************************************************)
EXTENDS VaultSession, TLAPS

\* The actions of Next, one by one: every step of the system is one of them.
LEMMA NextCases ==
  ASSUME Next
  PROVE  \/ \E t \in Task :
              \/ Begin(t) \/ CheckExpiry(t) \/ Snapshot(t) \/ Acquire(t)
              \/ SkipRefresh(t) \/ NoRefreshToken(t) \/ Post(t)
              \/ RefreshRefused(t) \/ ExchangeFails(t) \/ StoreAccess(t)
              \/ StoreRefresh(t) \/ StoreExpiry(t) \/ ReadToken(t)
              \/ Unauthorized(t) \/ Return(t) \/ Cancel(t)
              \/ RefuseExchange(t)
              \/ \E rotated \in Rotations, timed \in Lifetimes :
                   GrantExchange(t, rotated, timed)
         \/ \E rt \in stray, rotated \in Rotations : StrayExchange(rt, rotated)
         \/ Age
         \/ Expire
  BY Zenon DEF Next, Run, Exchange

\* What every step below may look at: the assumptions on the constants and
\* the helpers that the actions share.
USE NoneAssumption, NobodyAssumption, RequestsAssumption, RepliesAssumption
    DEF NoneAssumption, NobodyAssumption, RequestsAssumption,
        RepliesAssumption, Maybe, Place, InReauth, Critical, Goto, End,
        LeaveReauth, ReturnOk, ReturnErr, managerVars, localVars, issueVars,
        clockVars, wireVars

\* Every step of a task, of Vaultwarden and of the clock keeps the types of
\* the token pair and of the locals of authed_request and reauth.
LEMMA TypeStep == SessionInv /\ [Next]_vars => TypeOK'
<1> SUFFICES ASSUME SessionInv, [Next]_vars PROVE TypeOK'
  OBVIOUS
<1>. USE DEF SessionInv, TypeOK, TokensOrdered, TaskOrdered, RefreshTokenKept, Phase
<1>1. ASSUME NEW t \in Task, Begin(t) PROVE TypeOK'
  BY <1>1 DEF Begin
<1>2. ASSUME NEW t \in Task, CheckExpiry(t) PROVE TypeOK'
  BY <1>2 DEF CheckExpiry
<1>3. ASSUME NEW t \in Task, Snapshot(t) PROVE TypeOK'
  BY <1>3 DEF Snapshot
<1>4. ASSUME NEW t \in Task, Acquire(t) PROVE TypeOK'
  BY <1>4 DEF Acquire
<1>5. ASSUME NEW t \in Task, SkipRefresh(t) PROVE TypeOK'
  BY <1>5 DEF SkipRefresh
<1>6. ASSUME NEW t \in Task, NoRefreshToken(t) PROVE TypeOK'
  BY <1>6 DEF NoRefreshToken
<1>7. ASSUME NEW t \in Task, Post(t) PROVE TypeOK'
  BY <1>7 DEF Post
<1>8. ASSUME NEW t \in Task, RefreshRefused(t) PROVE TypeOK'
  BY <1>8 DEF RefreshRefused
<1>9. ASSUME NEW t \in Task, ExchangeFails(t) PROVE TypeOK'
  BY <1>9 DEF ExchangeFails, Abandon
<1>10. ASSUME NEW t \in Task, StoreAccess(t) PROVE TypeOK'
  BY <1>10 DEF StoreAccess
<1>11. ASSUME NEW t \in Task, StoreRefresh(t) PROVE TypeOK'
  BY <1>11 DEF StoreRefresh
<1>12. ASSUME NEW t \in Task, StoreExpiry(t) PROVE TypeOK'
  BY <1>12 DEF StoreExpiry
<1>13. ASSUME NEW t \in Task, ReadToken(t) PROVE TypeOK'
  BY <1>13 DEF ReadToken
<1>14. ASSUME NEW t \in Task, Unauthorized(t) PROVE TypeOK'
  BY <1>14 DEF Unauthorized
<1>15. ASSUME NEW t \in Task, Return(t) PROVE TypeOK'
  BY <1>15 DEF Return
<1>16. ASSUME NEW t \in Task, Cancel(t) PROVE TypeOK'
  BY <1>16 DEF Cancel, Abandon
<1>17. ASSUME NEW t \in Task, RefuseExchange(t) PROVE TypeOK'
  BY <1>17 DEF RefuseExchange
<1>18. ASSUME NEW t \in Task, NEW rotated \in Rotations,
            NEW timed \in Lifetimes, GrantExchange(t, rotated, timed)
     PROVE TypeOK'
  BY <1>18 DEF GrantExchange, Issue
<1>19. ASSUME NEW rt \in stray, NEW rotated \in Rotations,
            StrayExchange(rt, rotated)
     PROVE TypeOK'
  BY <1>19 DEF StrayExchange, Issue
<1>20. CASE Age
  BY <1>20 DEF Age
<1>21. CASE Expire
  BY <1>21 DEF Expire
<1>22. CASE UNCHANGED vars
  BY <1>22 DEF vars
<1>. QED
  BY <1>1, <1>2, <1>3, <1>4, <1>5, <1>6, <1>7, <1>8, <1>9, <1>10, <1>11,
     <1>12, <1>13, <1>14, <1>15, <1>16, <1>17, <1>18, <1>19, <1>20, <1>21,
     <1>22, NextCases, Zenon

\* Every step keeps reauth_mutex with the one task inside its critical
\* section.
LEMMA FlightStep == SessionInv /\ [Next]_vars => SingleFlight'
<1> SUFFICES ASSUME SessionInv, [Next]_vars PROVE SingleFlight'
  OBVIOUS
<1>. USE DEF SessionInv, TypeOK, SingleFlight
<1>1. ASSUME NEW t \in Task, Begin(t) PROVE SingleFlight'
  BY <1>1 DEF Begin
<1>2. ASSUME NEW t \in Task, CheckExpiry(t) PROVE SingleFlight'
  BY <1>2 DEF CheckExpiry
<1>3. ASSUME NEW t \in Task, Snapshot(t) PROVE SingleFlight'
  BY <1>3 DEF Snapshot
<1>4. ASSUME NEW t \in Task, Acquire(t) PROVE SingleFlight'
  BY <1>4 DEF Acquire
<1>5. ASSUME NEW t \in Task, SkipRefresh(t) PROVE SingleFlight'
  BY <1>5 DEF SkipRefresh
<1>6. ASSUME NEW t \in Task, NoRefreshToken(t) PROVE SingleFlight'
  BY <1>6 DEF NoRefreshToken
<1>7. ASSUME NEW t \in Task, Post(t) PROVE SingleFlight'
  BY <1>7 DEF Post
<1>8. ASSUME NEW t \in Task, RefreshRefused(t) PROVE SingleFlight'
  BY <1>8 DEF RefreshRefused
<1>9. ASSUME NEW t \in Task, ExchangeFails(t) PROVE SingleFlight'
  BY <1>9 DEF ExchangeFails, Abandon
<1>10. ASSUME NEW t \in Task, StoreAccess(t) PROVE SingleFlight'
  BY <1>10 DEF StoreAccess
<1>11. ASSUME NEW t \in Task, StoreRefresh(t) PROVE SingleFlight'
  BY <1>11 DEF StoreRefresh
<1>12. ASSUME NEW t \in Task, StoreExpiry(t) PROVE SingleFlight'
  BY <1>12 DEF StoreExpiry
<1>13. ASSUME NEW t \in Task, ReadToken(t) PROVE SingleFlight'
  BY <1>13 DEF ReadToken
<1>14. ASSUME NEW t \in Task, Unauthorized(t) PROVE SingleFlight'
  BY <1>14 DEF Unauthorized
<1>15. ASSUME NEW t \in Task, Return(t) PROVE SingleFlight'
  BY <1>15 DEF Return
<1>16. ASSUME NEW t \in Task, Cancel(t) PROVE SingleFlight'
  BY <1>16 DEF Cancel, Abandon
<1>17. ASSUME NEW t \in Task, RefuseExchange(t) PROVE SingleFlight'
  BY <1>17 DEF RefuseExchange
<1>18. ASSUME NEW t \in Task, NEW rotated \in Rotations,
            NEW timed \in Lifetimes, GrantExchange(t, rotated, timed)
     PROVE SingleFlight'
  BY <1>18 DEF GrantExchange, Issue
<1>19. ASSUME NEW rt \in stray, NEW rotated \in Rotations,
            StrayExchange(rt, rotated)
     PROVE SingleFlight'
  BY <1>19 DEF StrayExchange, Issue
<1>20. CASE Age
  BY <1>20 DEF Age
<1>21. CASE Expire
  BY <1>21 DEF Expire
<1>22. CASE UNCHANGED vars
  BY <1>22 DEF vars
<1>. QED
  BY <1>1, <1>2, <1>3, <1>4, <1>5, <1>6, <1>7, <1>8, <1>9, <1>10, <1>11,
     <1>12, <1>13, <1>14, <1>15, <1>16, <1>17, <1>18, <1>19, <1>20, <1>21,
     <1>22, NextCases, Zenon
\* Every step keeps the order between the tokens a request has seen, the
\* stored one and the one being granted.
LEMMA OrderStep == SessionInv /\ [Next]_vars => TokensOrdered'
<1> SUFFICES ASSUME SessionInv, [Next]_vars PROVE TokensOrdered'
  OBVIOUS
<1>. USE DEF SessionInv, TypeOK, SingleFlight, TokensOrdered, TaskOrdered, Phase
<1>1. ASSUME NEW t \in Task, Begin(t) PROVE TokensOrdered'
  BY <1>1 DEF Begin
<1>2. ASSUME NEW t \in Task, CheckExpiry(t) PROVE TokensOrdered'
  BY <1>2 DEF CheckExpiry
<1>3. ASSUME NEW t \in Task, Snapshot(t) PROVE TokensOrdered'
  BY <1>3 DEF Snapshot
<1>4. ASSUME NEW t \in Task, Acquire(t) PROVE TokensOrdered'
  BY <1>4 DEF Acquire
<1>5. ASSUME NEW t \in Task, SkipRefresh(t) PROVE TokensOrdered'
  BY <1>5 DEF SkipRefresh
<1>6. ASSUME NEW t \in Task, NoRefreshToken(t) PROVE TokensOrdered'
  BY <1>6 DEF NoRefreshToken
<1>7. ASSUME NEW t \in Task, Post(t) PROVE TokensOrdered'
  BY <1>7 DEF Post
<1>8. ASSUME NEW t \in Task, RefreshRefused(t) PROVE TokensOrdered'
  BY <1>8 DEF RefreshRefused
<1>9. ASSUME NEW t \in Task, ExchangeFails(t) PROVE TokensOrdered'
  BY <1>9 DEF ExchangeFails, Abandon
<1>10. ASSUME NEW t \in Task, StoreAccess(t) PROVE TokensOrdered'
  BY <1>10 DEF StoreAccess
<1>11. ASSUME NEW t \in Task, StoreRefresh(t) PROVE TokensOrdered'
  BY <1>11 DEF StoreRefresh
<1>12. ASSUME NEW t \in Task, StoreExpiry(t) PROVE TokensOrdered'
  BY <1>12 DEF StoreExpiry
<1>13. ASSUME NEW t \in Task, ReadToken(t) PROVE TokensOrdered'
  BY <1>13 DEF ReadToken
<1>14. ASSUME NEW t \in Task, Unauthorized(t) PROVE TokensOrdered'
  BY <1>14 DEF Unauthorized
<1>15. ASSUME NEW t \in Task, Return(t) PROVE TokensOrdered'
  BY <1>15 DEF Return
<1>16. ASSUME NEW t \in Task, Cancel(t) PROVE TokensOrdered'
  BY <1>16 DEF Cancel, Abandon
<1>17. ASSUME NEW t \in Task, RefuseExchange(t) PROVE TokensOrdered'
  BY <1>17 DEF RefuseExchange
<1>18. ASSUME NEW t \in Task, NEW rotated \in Rotations,
            NEW timed \in Lifetimes, GrantExchange(t, rotated, timed)
     PROVE TokensOrdered'
  BY <1>18 DEF GrantExchange, Issue
<1>19. ASSUME NEW rt \in stray, NEW rotated \in Rotations,
            StrayExchange(rt, rotated)
     PROVE TokensOrdered'
  BY <1>19 DEF StrayExchange, Issue
<1>20. CASE Age
  BY <1>20 DEF Age
<1>21. CASE Expire
  BY <1>21 DEF Expire
<1>22. CASE UNCHANGED vars
  BY <1>22 DEF vars
<1>. QED
  BY <1>1, <1>2, <1>3, <1>4, <1>5, <1>6, <1>7, <1>8, <1>9, <1>10, <1>11,
     <1>12, <1>13, <1>14, <1>15, <1>16, <1>17, <1>18, <1>19, <1>20, <1>21,
     <1>22, NextCases, Zenon

\* Every step keeps the refresh token that Vaultwarden accepts either stored
\* or in the hands of the task that is about to store it, unless a task is
\* cut off between the two.
LEMMA KeptStep == SessionInv /\ [Next]_vars => RefreshTokenKept'
<1> SUFFICES ASSUME SessionInv, [Next]_vars PROVE RefreshTokenKept'
  OBVIOUS
<1>. USE DEF SessionInv, TypeOK, SingleFlight, TokensOrdered, TaskOrdered, Phase, RefreshTokenKept
<1>1. ASSUME NEW t \in Task, Begin(t) PROVE RefreshTokenKept'
  BY <1>1 DEF Begin
<1>2. ASSUME NEW t \in Task, CheckExpiry(t) PROVE RefreshTokenKept'
  BY <1>2 DEF CheckExpiry
<1>3. ASSUME NEW t \in Task, Snapshot(t) PROVE RefreshTokenKept'
  BY <1>3 DEF Snapshot
<1>4. ASSUME NEW t \in Task, Acquire(t) PROVE RefreshTokenKept'
  BY <1>4 DEF Acquire
<1>5. ASSUME NEW t \in Task, SkipRefresh(t) PROVE RefreshTokenKept'
  BY <1>5 DEF SkipRefresh
<1>6. ASSUME NEW t \in Task, NoRefreshToken(t) PROVE RefreshTokenKept'
  BY <1>6 DEF NoRefreshToken
<1>7. ASSUME NEW t \in Task, Post(t) PROVE RefreshTokenKept'
  BY <1>7 DEF Post
<1>8. ASSUME NEW t \in Task, RefreshRefused(t) PROVE RefreshTokenKept'
  BY <1>8 DEF RefreshRefused
<1>9. ASSUME NEW t \in Task, ExchangeFails(t) PROVE RefreshTokenKept'
  <2>1. /\ pc' = [pc EXCEPT ![t] = pc'[t]] /\ pc'[t] \in {"read", "idle"}
        /\ UNCHANGED <<refresh, serverRT>>
        /\ \A u \in Task \ {t} : pc[u] \notin Critical
    BY <1>9 DEF ExchangeFails
  <2>2. ~lost' => ~lost /\ stray' = stray /\ pc[t] = "posted"
    BY <1>9 DEF ExchangeFails, Abandon
  <2>. QED
    BY <2>1, <2>2
<1>10. ASSUME NEW t \in Task, StoreAccess(t) PROVE RefreshTokenKept'
  BY <1>10 DEF StoreAccess
<1>11. ASSUME NEW t \in Task, StoreRefresh(t) PROVE RefreshTokenKept'
  BY <1>11 DEF StoreRefresh
<1>12. ASSUME NEW t \in Task, StoreExpiry(t) PROVE RefreshTokenKept'
  BY <1>12 DEF StoreExpiry
<1>13. ASSUME NEW t \in Task, ReadToken(t) PROVE RefreshTokenKept'
  BY <1>13 DEF ReadToken
<1>14. ASSUME NEW t \in Task, Unauthorized(t) PROVE RefreshTokenKept'
  BY <1>14 DEF Unauthorized
<1>15. ASSUME NEW t \in Task, Return(t) PROVE RefreshTokenKept'
  BY <1>15 DEF Return
<1>16. ASSUME NEW t \in Task, Cancel(t) PROVE RefreshTokenKept'
  BY ZenonT(40), <1>16 DEF Cancel, Abandon
<1>17. ASSUME NEW t \in Task, RefuseExchange(t) PROVE RefreshTokenKept'
  BY <1>17 DEF RefuseExchange
<1>18. ASSUME NEW t \in Task, NEW rotated \in Rotations,
            NEW timed \in Lifetimes, GrantExchange(t, rotated, timed)
     PROVE RefreshTokenKept'
  BY <1>18 DEF GrantExchange, Issue
<1>19. ASSUME NEW rt \in stray, NEW rotated \in Rotations,
            StrayExchange(rt, rotated)
     PROVE RefreshTokenKept'
  BY <1>19 DEF StrayExchange, Issue
<1>20. CASE Age
  BY <1>20 DEF Age
<1>21. CASE Expire
  BY <1>21 DEF Expire
<1>22. CASE UNCHANGED vars
  BY <1>22 DEF vars
<1>. QED
  BY <1>1, <1>2, <1>3, <1>4, <1>5, <1>6, <1>7, <1>8, <1>9, <1>10, <1>11,
     <1>12, <1>13, <1>14, <1>15, <1>16, <1>17, <1>18, <1>19, <1>20, <1>21,
     <1>22, NextCases, Zenon
\* The state login leaves behind satisfies the invariant.
LEMMA InvInit == Init => SessionInv
<1> SUFFICES ASSUME Init PROVE SessionInv
  OBVIOUS
<1>1. TypeOK
  <2>1. /\ access \in Nat /\ refresh \in Maybe(Nat) /\ expires \in Maybe(Nat)
        /\ holder \in Task \union {Nobody}
    BY DEF Init
  <2>2. /\ pc \in [Task -> Place]
        /\ requests \in [Task -> 0..MaxRequests]
        /\ token \in [Task -> Maybe(Nat)]
        /\ why \in [Task -> Maybe({"proactive", "reactive"})]
        /\ before \in [Task -> Maybe(Nat)]
    BY DEF Init
  <2>3. /\ gen \in Nat /\ serverRT \in 0..gen
        /\ near \in 0..gen + 1 /\ expired \in 0..near
    BY DEF Init
  <2>4. stray \subseteq Nat /\ lost \in BOOLEAN
    BY DEF Init
  <2>. QED
    BY <2>1, <2>2, <2>3, <2>4 DEF Init, TypeOK
<1>2. SingleFlight
  BY DEF Init, SingleFlight
<1>3. TokensOrdered
  BY DEF Init, TokensOrdered, TaskOrdered, Phase
<1>4. RefreshTokenKept
  BY DEF Init, RefreshTokenKept
<1>. QED
  BY <1>1, <1>2, <1>3, <1>4 DEF SessionInv

\* The inductive invariant holds in every state the token pair can reach.
THEOREM SessionInvariant == Spec => []SessionInv
<1>1. SessionInv /\ [Next]_vars => SessionInv'
  BY TypeStep, FlightStep, OrderStep, KeptStep DEF SessionInv
<1>. QED
  BY InvInit, <1>1, PTL DEF Spec

\* The token pair and the locals of reauth always have their types.
THEOREM TypeCorrect == Spec => []TypeOK
<1>1. SessionInv => TypeOK
  BY DEF SessionInv
<1>. QED
  BY SessionInvariant, <1>1, PTL

\* reauth is single-flight: whoever is between the check of the token and the
\* last write of reauth holds reauth_mutex, and nobody else is there.
THEOREM OneExchange == Spec => []SingleFlight
<1>1. SessionInv => SingleFlight
  BY DEF SessionInv
<1>. QED
  BY SessionInvariant, <1>1, PTL

\* However many tasks race for an expired token, reauth never presents a
\* spent refresh token and never leaves one behind, as long as no task is
\* cut off between the exchange and storing its refresh token.
THEOREM RefreshTokenSafe == Spec => []RefreshTokenUsable
<1>1. SessionInv => RefreshTokenUsable
  BY DEF SessionInv, SingleFlight, RefreshTokenKept, RefreshTokenUsable
<1>. QED
  BY SessionInvariant, <1>1, PTL

\* Every step of authed_request is, for the caller of its request, a step of
\* the retry contract or invisible.
LEMMA ContractStep ==
  SessionInv /\ [Next]_vars => [Request!Next]_(Request!vars)
<1> SUFFICES ASSUME SessionInv, [Next]_vars
             PROVE Request!Next \/ UNCHANGED Request!vars
  BY Zenon
<1>. USE DEF SessionInv, TypeOK, TokensOrdered, TaskOrdered, Phase
<1>1. ASSUME NEW t \in Task, Begin(t)
     PROVE UNCHANGED Request!vars
  BY <1>1 DEF Begin, Request!vars
<1>2. ASSUME NEW t \in Task, CheckExpiry(t)
     PROVE UNCHANGED Request!vars
  BY <1>2 DEF CheckExpiry, Request!vars
<1>3. ASSUME NEW t \in Task, Snapshot(t)
     PROVE UNCHANGED Request!vars
  BY <1>3 DEF Snapshot, Request!vars
<1>4. ASSUME NEW t \in Task, Acquire(t)
     PROVE UNCHANGED Request!vars
  BY <1>4 DEF Acquire, Request!vars
<1>5. ASSUME NEW t \in Task, SkipRefresh(t)
     PROVE UNCHANGED Request!vars
  BY <1>5 DEF SkipRefresh, Request!vars
<1>6. ASSUME NEW t \in Task, Post(t)
     PROVE UNCHANGED Request!vars
  BY <1>6 DEF Post, Request!vars
<1>7. ASSUME NEW t \in Task, StoreAccess(t)
     PROVE UNCHANGED Request!vars
  BY <1>7 DEF StoreAccess, Request!vars
<1>8. ASSUME NEW t \in Task, StoreRefresh(t)
     PROVE UNCHANGED Request!vars
  BY <1>8 DEF StoreRefresh, Request!vars
<1>9. ASSUME NEW t \in Task, StoreExpiry(t)
     PROVE UNCHANGED Request!vars
  BY <1>9 DEF StoreExpiry, Request!vars
<1>10. ASSUME NEW t \in Task, RefuseExchange(t)
     PROVE UNCHANGED Request!vars
  BY <1>10 DEF RefuseExchange, Request!vars
<1>11. ASSUME NEW t \in Task, NEW rotated \in Rotations,
            NEW timed \in Lifetimes, GrantExchange(t, rotated, timed)
     PROVE UNCHANGED Request!vars
  BY <1>11 DEF GrantExchange, Request!vars
<1>12. ASSUME NEW rt \in stray, NEW rotated \in Rotations,
            StrayExchange(rt, rotated)
     PROVE UNCHANGED Request!vars
  BY <1>12 DEF StrayExchange, Request!vars
<1>13. ASSUME NEW t \in Task, NoRefreshToken(t)
     PROVE Request!Finish(t) \/ UNCHANGED Request!vars
  <2>1. CASE why[t] = "proactive"
    BY <1>13, <2>1 DEF NoRefreshToken, Request!vars
  <2>2. CASE why[t] # "proactive"
    <3>1. Phase(t) = "rejected"
      BY <1>13, <2>2 DEF NoRefreshToken
    <3>2. \A u \in Task : Phase(u)' = IF u = t THEN "idle" ELSE Phase(u)
      BY <1>13, <2>2 DEF NoRefreshToken
    <3>3. token' = [token EXCEPT ![t] = None]
      BY <1>13, <2>2 DEF NoRefreshToken
    <3>. HIDE DEF Phase
    <3>. QED
      BY <3>1, <3>2, <3>3 DEF Request!Finish
  <2>. QED
    BY <2>1, <2>2
<1>14. ASSUME NEW t \in Task, RefreshRefused(t)
     PROVE Request!Finish(t) \/ UNCHANGED Request!vars
  <2>1. CASE why[t] = "proactive"
    BY <1>14, <2>1 DEF RefreshRefused, Request!vars
  <2>2. CASE why[t] # "proactive"
    <3>1. Phase(t) = "rejected"
      BY <1>14, <2>2 DEF RefreshRefused
    <3>2. \A u \in Task : Phase(u)' = IF u = t THEN "idle" ELSE Phase(u)
      BY <1>14, <2>2 DEF RefreshRefused
    <3>3. token' = [token EXCEPT ![t] = None]
      BY <1>14, <2>2 DEF RefreshRefused
    <3>. HIDE DEF Phase
    <3>. QED
      BY <3>1, <3>2, <3>3 DEF Request!Finish
  <2>. QED
    BY <2>1, <2>2
<1>15. ASSUME NEW t \in Task, ExchangeFails(t)
     PROVE Request!Finish(t) \/ UNCHANGED Request!vars
  <2>1. CASE why[t] = "proactive"
    BY <1>15, <2>1 DEF ExchangeFails, Request!vars
  <2>2. CASE why[t] # "proactive"
    <3>1. Phase(t) = "rejected"
      BY <1>15, <2>2 DEF ExchangeFails
    <3>2. \A u \in Task : Phase(u)' = IF u = t THEN "idle" ELSE Phase(u)
      BY <1>15, <2>2 DEF ExchangeFails
    <3>3. token' = [token EXCEPT ![t] = None]
      BY <1>15, <2>2 DEF ExchangeFails
    <3>. HIDE DEF Phase
    <3>. QED
      BY <3>1, <3>2, <3>3 DEF Request!Finish
  <2>. QED
    BY <2>1, <2>2
<1>16. ASSUME NEW t \in Task, Cancel(t)
     PROVE Request!Finish(t) \/ UNCHANGED Request!vars
  <2>1. \A u \in Task : Phase(u)' = IF u = t THEN "idle" ELSE Phase(u)
    BY <1>16 DEF Cancel
  <2>2. token' = [token EXCEPT ![t] = None]
    BY <1>16 DEF Cancel
  <2>3. CASE Phase(t) = "idle"
    <3>1. token[t] = None
      BY <2>3
    <3>. HIDE DEF Phase
    <3>. QED
      BY <2>1, <2>2, <2>3, <3>1 DEF Request!vars
  <2>4. CASE Phase(t) # "idle"
    <3>. HIDE DEF Phase
    <3>. QED
      BY <2>1, <2>2, <2>4 DEF Request!Finish
  <2>. QED
    BY <2>3, <2>4
<1>17. ASSUME NEW t \in Task, Return(t)
     PROVE Request!Finish(t)
  <2>1. \A u \in Task : Phase(u)' = IF u = t THEN "idle" ELSE Phase(u)
    BY <1>17 DEF Return
  <2>2. token' = [token EXCEPT ![t] = None] /\ Phase(t) # "idle"
    BY <1>17 DEF Return
  <2>. HIDE DEF Phase
  <2>. QED
    BY <2>1, <2>2 DEF Request!Finish
<1>18. ASSUME NEW t \in Task, Unauthorized(t)
     PROVE Request!Refused(t)
  BY <1>18 DEF Unauthorized, Request!Refused
<1>19. ASSUME NEW t \in Task, ReadToken(t)
     PROVE Request!Attempt(t) \/ Request!Retry(t)
  <2>1. CASE pc[t] = "read"
    BY ZenonT(40), <1>19, <2>1 DEF ReadToken, Request!Attempt, Request!Send
  <2>2. CASE pc[t] = "reread"
    <3>1. Phase(t) = "rejected" /\ Phase(t)' = "second"
      BY <1>19, <2>2 DEF ReadToken
    <3>2. \A u \in Task \ {t} : Phase(u)' = Phase(u)
      BY <1>19, <2>2 DEF ReadToken
    <3>3. token' = [token EXCEPT ![t] = access] /\ access # token[t]
      BY <1>19, <2>2 DEF ReadToken
    <3>. HIDE DEF Phase
    <3>. QED
      BY <3>1, <3>2, <3>3 DEF Request!Retry, Request!Send
  <2>. QED
    BY <1>19, <2>1, <2>2 DEF ReadToken
<1>20. CASE Age
  BY <1>20 DEF Age, Request!vars
<1>21. CASE Expire
  BY <1>21 DEF Expire, Request!vars
<1>22. CASE UNCHANGED vars
  BY <1>22 DEF vars, Request!vars
<1>. QED
  BY <1>1, <1>2, <1>3, <1>4, <1>5, <1>6, <1>7, <1>8, <1>9, <1>10, <1>11,
     <1>12, <1>13, <1>14, <1>15, <1>16, <1>17, <1>18, <1>19, <1>20, <1>21,
     <1>22, NextCases, Zenon DEF Request!Next

\* authed_request implements the retry contract: it sends a request at most
\* twice, and never twice with the same access token.
THEOREM Contract == Spec => RetriesOnce
<1>1. Init => Request!Init
  BY DEF Init, Request!Init, Phase
<1>. QED
  BY <1>1, ContractStep, SessionInvariant, PTL DEF Spec, RetriesOnce, Request!Spec
=============================================================================
