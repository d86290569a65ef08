---------------------------- MODULE VaultSession -----------------------------
(***************************************************************************)
(* The token pair of VaultManager and the requests that use it             *)
(* (src/src/vault/mod.rs: authed_request, maybe_proactive_refresh, reauth).*)
(*                                                                         *)
(* Every task of the program that talks to Vaultwarden goes through        *)
(* authed_request: renew the access token when it is about to expire, send *)
(* the request, and on a 401 renew it and send once more.  Renewing spends *)
(* a single-use refresh token, so reauth is serialised by a mutex, and a   *)
(* task that waited for it first looks whether another task has already    *)
(* renewed the token.                                                      *)
(*                                                                         *)
(* A token is named by the number of the exchange that issued it: 0 is the *)
(* login, and the n-th exchange Vaultwarden grants issues access token n   *)
(* and, when it rotates it, refresh token n.  All access tokens have the   *)
(* same lifetime, so time is two thresholds: the tokens below near are in  *)
(* their last five minutes and those below expired get a 401.              *)
(*                                                                         *)
(* A task may be dropped at any await (its HTTP client went away, or the   *)
(* caller wrapped it in a timeout), which releases the mutex; its exchange *)
(* may still reach Vaultwarden.                                            *)
(***************************************************************************)
EXTENDS Naturals

CONSTANTS
  Task,          \* the tasks that send requests
  MaxRequests,   \* bound: the requests each task sends
  Rotations,     \* may a granted exchange carry a new refresh token?
  Lifetimes,     \* may a granted exchange carry a token lifetime?
  None,          \* Option::None, and a local variable that is out of scope
  Nobody         \* no task holds the mutex

ASSUME RequestsAssumption == MaxRequests \in Nat
ASSUME RepliesAssumption == Rotations \subseteq BOOLEAN /\ Lifetimes \subseteq BOOLEAN
ASSUME NoneAssumption == None \notin Nat \union {"proactive", "reactive"}
ASSUME NobodyAssumption == Nobody \notin Task

VARIABLES
  \* VaultManager
  access,        \* access_token
  refresh,       \* refresh_token, or None
  expires,       \* token_expires_at, as the token it belongs to, or None
  holder,        \* the task that holds reauth_mutex, or Nobody
  \* the tasks
  pc,            \* where each task stands
  requests,      \* requests each has begun
  token,         \* the access token of its latest attempt
  why,           \* what called its reauth: "proactive" or "reactive"
  before,        \* its token_before_wait
  reply,         \* the grant on its way to the holder of the mutex
  \* Vaultwarden and the network
  gen,           \* the number of exchanges granted
  serverRT,      \* the refresh token Vaultwarden accepts
  near, expired, \* the ages of the access tokens
  stray,         \* refresh tokens on the wire whose task has gone
  lost           \* was a task cut off between an exchange and storing it?

managerVars == <<access, refresh, expires>>
localVars   == <<token, why, before, reply>>
issueVars   == <<gen, serverRT>>
clockVars   == <<near, expired>>
wireVars    == <<stray, lost>>
vars == <<managerVars, holder, pc, requests, localVars, issueVars, clockVars,
          wireVars>>

\* The places a task holds reauth_mutex at, those inside reauth, and all.
Critical == {"check", "posted", "granted", "refused", "storeRefresh",
             "storeExpiry"}
InReauth == {"snapshot", "lock"} \union Critical
Place == {"idle", "expiry", "read", "send", "reread", "resend"} \union InReauth

Maybe(S) == S \union {None}

TypeOK ==
  /\ access \in Nat /\ refresh \in Maybe(Nat) /\ expires \in Maybe(Nat)
  /\ holder \in Task \union {Nobody}
  /\ pc \in [Task -> Place]
  /\ requests \in [Task -> 0..MaxRequests]
  /\ token \in [Task -> Maybe(Nat)]
  /\ why \in [Task -> Maybe({"proactive", "reactive"})]
  /\ before \in [Task -> Maybe(Nat)]
  /\ reply \in Maybe([token : Nat, rotated : Rotations, timed : Lifetimes])
  /\ gen \in Nat /\ serverRT \in 0..gen
  /\ near \in 0..gen + 1 /\ expired \in 0..near
  /\ stray \subseteq Nat
  /\ lost \in BOOLEAN
-----------------------------------------------------------------------------
NearExpiry(n) == n < near
Expired(n)    == n < expired

\* login has stored the first pair; Vaultwarden may have sent no refresh
\* token and no lifetime.
Init ==
  /\ access = 0 /\ refresh \in {0, None} /\ expires \in {0, None}
  /\ holder = Nobody
  /\ pc = [t \in Task |-> "idle"]
  /\ requests = [t \in Task |-> 0]
  /\ token = [t \in Task |-> None]
  /\ why = [t \in Task |-> None]
  /\ before = [t \in Task |-> None]
  /\ reply = None
  /\ gen = 0 /\ serverRT = 0 /\ near = 0 /\ expired = 0
  /\ stray = {} /\ lost = FALSE

Goto(t, place) == pc' = [pc EXCEPT ![t] = place]

\* The request is over, one way or another.
End(t) == Goto(t, "idle") /\ token' = [token EXCEPT ![t] = None]

\* Mutant: the guard is forgotten instead of dropped.
LeaveReauthLocked(t) ==
  /\ why' = [why EXCEPT ![t] = None]
  /\ before' = [before EXCEPT ![t] = None]
  /\ UNCHANGED <<holder, reply>>

\* reauth returns: its locals go and its guard releases the mutex.
LeaveReauth(t) ==
  /\ holder' = IF holder = t THEN Nobody ELSE holder
  /\ reply' = IF holder = t THEN None ELSE reply
  /\ why' = [why EXCEPT ![t] = None]
  /\ before' = [before EXCEPT ![t] = None]

ReturnOk(t) ==
  /\ LeaveReauth(t)
  /\ Goto(t, IF why[t] = "proactive" THEN "read" ELSE "reread")
  /\ UNCHANGED token

\* Mutant: a reactive call ignores an error too.
ReturnErrIgnored(t) ==
  /\ LeaveReauth(t)
  /\ Goto(t, IF why[t] = "proactive" THEN "read" ELSE "reread")
  /\ UNCHANGED token

\* A proactive call ignores an error; a reactive one hands it to the caller.
ReturnErr(t) ==
  /\ LeaveReauth(t)
  /\ IF why[t] = "proactive" THEN Goto(t, "read") /\ UNCHANGED token ELSE End(t)

\* The task stops waiting for its exchange.  A request on the wire may never
\* arrive or arrive later; a grant not yet stored is gone.
Abandon(t) ==
  /\ stray' \in {stray} \union
                IF pc[t] = "posted" THEN {stray \union {refresh}} ELSE {}
  /\ lost' = (lost \/ stray' # stray \/ pc[t] \in {"granted", "storeRefresh"})
-----------------------------------------------------------------------------
(* maybe_proactive_refresh *)

Begin(t) ==
  /\ pc[t] = "idle" /\ requests[t] < MaxRequests
  /\ requests' = [requests EXCEPT ![t] = @ + 1]
  /\ Goto(t, "expiry")
  /\ UNCHANGED <<managerVars, holder, localVars, issueVars, clockVars, wireVars>>

\* token_expires_at is read, and released, before reauth is called.
CheckExpiry(t) ==
  /\ pc[t] = "expiry"
  /\ IF expires = None \/ ~NearExpiry(expires)
     THEN Goto(t, "read") /\ UNCHANGED why
     ELSE Goto(t, "snapshot") /\ why' = [why EXCEPT ![t] = "proactive"]
  /\ UNCHANGED <<managerVars, holder, requests, token, before, reply,
                 issueVars, clockVars, wireVars>>
-----------------------------------------------------------------------------
(* reauth *)

\* The access token is read before the mutex is awaited.
Snapshot(t) ==
  /\ pc[t] = "snapshot"
  /\ before' = [before EXCEPT ![t] = access]
  /\ Goto(t, "lock")
  /\ UNCHANGED <<managerVars, holder, requests, token, why, reply,
                 issueVars, clockVars, wireVars>>

\* Mutant: the mutex is not awaited.
AcquireAtOnce(t) ==
  /\ pc[t] = "lock"
  /\ holder' = t
  /\ Goto(t, "check")
  /\ UNCHANGED <<managerVars, requests, localVars, issueVars, clockVars, wireVars>>

Acquire(t) ==
  /\ pc[t] = "lock" /\ holder = Nobody
  /\ holder' = t
  /\ Goto(t, "check")
  /\ UNCHANGED <<managerVars, requests, localVars, issueVars, clockVars, wireVars>>

\* Another task renewed the token while this one waited.
SkipRefresh(t) ==
  /\ pc[t] = "check" /\ access # before[t]
  /\ ReturnOk(t)
  /\ UNCHANGED <<managerVars, requests, issueVars, clockVars, wireVars>>

NoRefreshToken(t) ==
  /\ pc[t] = "check" /\ access = before[t] /\ refresh = None
  /\ ReturnErr(t)
  /\ UNCHANGED <<managerVars, requests, issueVars, clockVars, wireVars>>

\* The exchange is sent with the stored refresh token, which stays as it is
\* until StoreRefresh: the mutex is held.
Post(t) ==
  /\ pc[t] = "check" /\ access = before[t] /\ refresh # None
  /\ Goto(t, "posted")
  /\ UNCHANGED <<managerVars, holder, requests, localVars, issueVars,
                 clockVars, wireVars>>

\* A reply other than 2xx ends the call with an error.
RefreshRefused(t) ==
  /\ pc[t] = "refused"
  /\ ReturnErr(t)
  /\ UNCHANGED <<managerVars, requests, issueVars, clockVars, wireVars>>

\* The 30 s client timeout, a connection error or a body that does not parse.
ExchangeFails(t) ==
  /\ pc[t] \in {"posted", "granted"}
  /\ Abandon(t)
  /\ ReturnErr(t)
  /\ UNCHANGED <<managerVars, requests, issueVars, clockVars>>

\* The pair is stored in three writes, with an await before each.
StoreAccess(t) ==
  /\ pc[t] = "granted"
  /\ access' = reply.token
  /\ Goto(t, "storeRefresh")
  /\ UNCHANGED <<refresh, expires, holder, requests, localVars, issueVars,
                 clockVars, wireVars>>

\* Mutant: the rotated refresh token of the reply is ignored.
StoreRefreshIgnored(t) ==
  /\ pc[t] = "storeRefresh"
  /\ Goto(t, "storeExpiry")
  /\ UNCHANGED <<managerVars, holder, requests, localVars, issueVars,
                 clockVars, wireVars>>

StoreRefresh(t) ==
  /\ pc[t] = "storeRefresh"
  /\ refresh' = IF reply.rotated THEN reply.token ELSE refresh
  /\ Goto(t, "storeExpiry")
  /\ UNCHANGED <<access, expires, holder, requests, localVars, issueVars,
                 clockVars, wireVars>>

StoreExpiry(t) ==
  /\ pc[t] = "storeExpiry"
  /\ expires' = IF reply.timed THEN reply.token ELSE expires
  /\ ReturnOk(t)
  /\ UNCHANGED <<access, refresh, requests, issueVars, clockVars, wireVars>>
-----------------------------------------------------------------------------
(* authed_request *)

ReadToken(t) ==
  /\ pc[t] \in {"read", "reread"}
  /\ token' = [token EXCEPT ![t] = access]
  /\ Goto(t, IF pc[t] = "read" THEN "send" ELSE "resend")
  /\ UNCHANGED <<managerVars, holder, requests, why, before, reply,
                 issueVars, clockVars, wireVars>>

\* Vaultwarden answers 401 to the first attempt.
Unauthorized(t) ==
  /\ pc[t] = "send" /\ Expired(token[t])
  /\ why' = [why EXCEPT ![t] = "reactive"]
  /\ Goto(t, "snapshot")
  /\ UNCHANGED <<managerVars, holder, requests, token, before, reply,
                 issueVars, clockVars, wireVars>>

\* The first attempt gets another answer or fails on the way; the second
\* one's answer, a 401 included, is returned to the caller.
Return(t) ==
  /\ pc[t] \in {"send", "resend"}
  /\ End(t)
  /\ UNCHANGED <<managerVars, holder, requests, why, before, reply,
                 issueVars, clockVars, wireVars>>

\* The future is dropped at an await.
Cancel(t) ==
  /\ pc[t] # "idle"
  /\ Abandon(t)
  /\ LeaveReauth(t)
  /\ End(t)
  /\ UNCHANGED <<managerVars, requests, issueVars, clockVars>>
-----------------------------------------------------------------------------
(* Vaultwarden *)

\* A refresh token is accepted once: the exchange that spends it issues the
\* next access token and, when it rotates, the next refresh token.
Issue(rotated) ==
  /\ gen' = gen + 1
  /\ serverRT' = IF rotated THEN gen + 1 ELSE serverRT

GrantExchange(t, rotated, timed) ==
  /\ pc[t] = "posted" /\ refresh = serverRT
  /\ Issue(rotated)
  /\ reply' = [token |-> gen + 1, rotated |-> rotated, timed |-> timed]
  /\ Goto(t, "granted")
  /\ UNCHANGED <<managerVars, holder, requests, token, why, before,
                 clockVars, wireVars>>

RefuseExchange(t) ==
  /\ pc[t] = "posted" /\ refresh # serverRT
  /\ Goto(t, "refused")
  /\ UNCHANGED <<managerVars, holder, requests, localVars, issueVars,
                 clockVars, wireVars>>

\* An exchange whose task has gone still spends its refresh token.
StrayExchange(rt, rotated) ==
  /\ rt \in stray
  /\ stray' = stray \ {rt}
  /\ IF rt = serverRT THEN Issue(rotated) ELSE UNCHANGED issueVars
  /\ UNCHANGED <<managerVars, holder, pc, requests, localVars, clockVars, lost>>

\* Time passes for the oldest token first.
Age ==
  /\ near <= gen
  /\ near' = near + 1
  /\ UNCHANGED <<managerVars, holder, pc, requests, localVars, issueVars,
                 expired, wireVars>>

Expire ==
  /\ expired < near
  /\ expired' = expired + 1
  /\ UNCHANGED <<managerVars, holder, pc, requests, localVars, issueVars,
                 near, wireVars>>
-----------------------------------------------------------------------------
\* The steps a task takes by itself as long as it is not dropped.
Run(t) ==
  \/ CheckExpiry(t) \/ Snapshot(t) \/ SkipRefresh(t) \/ NoRefreshToken(t)
  \/ Post(t) \/ RefreshRefused(t) \/ StoreAccess(t) \/ StoreRefresh(t)
  \/ StoreExpiry(t) \/ ReadToken(t) \/ Unauthorized(t) \/ Return(t)

\* How an exchange on the wire ends.
Exchange(t) ==
  \/ \E rotated \in Rotations, timed \in Lifetimes :
       GrantExchange(t, rotated, timed)
  \/ RefuseExchange(t)
  \/ ExchangeFails(t)

Next ==
  \/ \E t \in Task :
       Begin(t) \/ Run(t) \/ Acquire(t) \/ Exchange(t) \/ Cancel(t)
  \/ \E rt \in stray, rotated \in Rotations : StrayExchange(rt, rotated)
  \/ Age
  \/ Expire

Spec == Init /\ [][Next]_vars

\* Tasks run, an exchange ends because requests have a 30 s timeout, and
\* tokio's Mutex serves its waiters in order.  Nothing makes a client send
\* a request, a token expire, or a task be dropped.
Fairness ==
  \A t \in Task : WF_vars(Run(t)) /\ WF_vars(Exchange(t)) /\ SF_vars(Acquire(t))

FairSpec == Spec /\ Fairness
-----------------------------------------------------------------------------
(* Properties *)

\* reauth_mutex covers the whole exchange: whoever is between the check of
\* the token and the last of the three writes holds it, so at most one
\* exchange is under way.
SingleFlight ==
  \A t \in Task : pc[t] \in Critical <=> holder = t

\* As long as no task is cut off between sending an exchange and storing
\* its refresh token, Vaultwarden never refuses one: reauth presents no
\* spent refresh token, and the one it leaves behind is good.
RefreshTokenUsable ==
  ~lost => /\ holder = Nobody => refresh \in Maybe({serverRT})
           /\ \A t \in Task : pc[t] # "refused"

\* A request ends: no task waits for reauth_mutex or an exchange for ever.
RequestsEnd ==
  \A t \in Task : pc[t] # "idle" ~> pc[t] = "idle"

\* The request of a task as its caller sees it.
Phase(t) ==
  CASE pc[t] = "send"   -> "first"
    [] pc[t] = "resend" -> "second"
    [] pc[t] = "reread" \/ why[t] = "reactive" -> "rejected"
    [] OTHER -> "idle"

\* authed_request retries at most once, and never with the token that was
\* just rejected, whichever task renewed it.
Request == INSTANCE RetryOnce WITH phase <- [t \in Task |-> Phase(t)],
                                   used <- token
RetriesOnce == Request!Spec

\* Why the properties hold, as an inductive invariant.  The tokens of a task
\* are ordered: the rejected one is no newer than the one reauth saw on
\* entry, which is no newer than the stored one, and a grant is newer still.
TaskOrdered(t) ==
  /\ why[t] # None <=> pc[t] \in InReauth
  /\ token[t] = None <=> Phase(t) = "idle"
  /\ token[t] # None => token[t] <= access
  /\ pc[t] = "reread" => token[t] < access
  /\ before[t] # None <=> pc[t] \in {"lock"} \union Critical
  /\ before[t] # None =>
       /\ before[t] <= access
       /\ why[t] = "reactive" => token[t] <= before[t]
  /\ pc[t] \in {"posted", "granted", "refused"} => before[t] = access
  /\ pc[t] = "granted" => reply.token \in access + 1..gen
  /\ pc[t] \in {"storeRefresh", "storeExpiry"} =>
       reply.token = access /\ before[t] < access

TokensOrdered == access <= gen /\ \A t \in Task : TaskOrdered(t)

\* The refresh token Vaultwarden accepts is stored, or in the grant the
\* holder of the mutex is about to store.
RefreshTokenKept ==
  /\ \A t \in Task : pc[t] = "posted" => refresh # None
  /\ ~lost =>
       /\ stray = {}
       /\ \A t \in Task :
            /\ pc[t] # "refused"
            /\ pc[t] \in {"granted", "storeRefresh"} =>
                 serverRT = IF reply.rotated THEN reply.token ELSE refresh
       /\ (\A t \in Task : pc[t] \notin {"granted", "storeRefresh"}) =>
            refresh \in Maybe({serverRT})

SessionInv == TypeOK /\ SingleFlight /\ TokensOrdered /\ RefreshTokenKept
=============================================================================
