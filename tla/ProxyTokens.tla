----------------------------- MODULE ProxyTokens ------------------------------
(***************************************************************************)
(* The tokens the proxy fetches for its services                           *)
(* (src/src/proxy/mod.rs: apply_auth_and_send, get_or_refresh_oauth_token, *)
(* get_or_refresh_oauth_refresh_token, get_or_refresh_session_token; the   *)
(* transparent listener's inject_host.rs).                                 *)
(*                                                                         *)
(* One service and its vault item.  A request takes the cached token, or   *)
(* fetches one from the token or login endpoint and caches it.  A request  *)
(* of POST /proxy that is answered 401 fetches once more and is sent once  *)
(* more; the transparent listener forwards the 401.  Session and           *)
(* client-credentials tokens are fetched with the credential of the vault. *)
(* The refresh-token grant spends a refresh token instead, which it reads  *)
(* from the cached copy of the vault and writes back to the vault itself   *)
(* when the endpoint rotates it; a lock per vault item covers it all.      *)
(*                                                                         *)
(* Tokens are numbered in the order they are issued, and a rotated refresh *)
(* token has the number of the access token it came with.                  *)
(***************************************************************************)
EXTENDS Naturals

CONSTANTS
  Task,          \* the tasks that proxy requests
  Kinds,         \* the auth patterns of the service
  Paths,         \* the ways requests come: "proxy", "transparent"
  Writeback,     \* oauth_writeback of the service
  Rotations,     \* may a grant rotate the refresh token?
  MaxRequests,   \* bound: the requests of each task
  MaxSyncs,      \* bound: the syncs of the vault cache
  Faults,        \* may calls fail and tasks be dropped?
  None, Nobody

ASSUME KindsAssumption == Kinds \subseteq {"client", "refresh", "session"}
ASSUME PathsAssumption == Paths \subseteq {"proxy", "transparent"}
ASSUME FlagsAssumption ==
  Writeback \in BOOLEAN /\ Rotations \subseteq BOOLEAN /\ Faults \in BOOLEAN
ASSUME LimitsAssumption == MaxRequests \in Nat /\ MaxSyncs \in Nat
ASSUME NoneAssumption == None \notin Nat \union {"proxy", "transparent"}
ASSUME NobodyAssumption == Nobody \notin Task

VARIABLES
  kind,          \* the auth pattern of the service
  \* AppState
  cached, fresh, \* the entry of the token cache, and is it before its expiry?
  holder,        \* the task that holds the lock of the vault item
  itemRT,        \* the refresh token in VaultManager.items
  \* the tasks
  pc, requests,
  path,          \* how the request came
  forced,        \* has it been answered 401, so that it fetches by force?
  token,         \* the token of its latest attempt
  rt,            \* the refresh token of its exchange
  reply,         \* the grant it has received
  \* Vaultwarden and the cache sync
  vaultRT,       \* the refresh token in the vault
  snap, syncs,   \* the reply of /api/sync being applied; syncs begun
  \* the endpoint and the service
  issued,        \* the number of tokens issued
  endpointRT,    \* the refresh token the endpoint accepts
  dead,          \* tokens below it are answered 401
  lost           \* was a rotated refresh token not written back?

stateVars    == <<cached, fresh, holder, itemRT>>
requestVars  == <<requests, path, forced>>
attemptVars  == <<token, rt, reply>>
vaultVars    == <<vaultRT, snap, syncs>>
endpointVars == <<issued, endpointRT, dead>>
vars == <<kind, stateVars, pc, requestVars, attemptVars, vaultVars, endpointVars, lost>>

\* Where a task of the refresh-token grant holds the lock.
Critical == {"look", "posted", "granted", "writeback", "store"}
Place == {"idle", "lock", "send", "resend"} \union Critical

Maybe(S) == S \union {None}

TypeOK ==
  /\ kind \in Kinds
  /\ cached \in Maybe(1..issued) /\ fresh \in BOOLEAN
  /\ holder \in Task \union {Nobody} /\ itemRT \in Nat
  /\ pc \in [Task -> Place] /\ requests \in [Task -> 0..MaxRequests]
  /\ path \in [Task -> Maybe(Paths)] /\ forced \in [Task -> BOOLEAN]
  /\ token \in [Task -> Maybe(Nat)] /\ rt \in [Task -> Maybe(Nat)]
  /\ reply \in [Task -> Maybe([token : Nat, rt : Nat])]
  /\ vaultRT \in Nat /\ snap \in Maybe(Nat) /\ syncs \in 0..MaxSyncs
  /\ issued \in Nat /\ endpointRT \in 0..issued /\ dead \in 0..issued + 1
  /\ lost \in BOOLEAN
-----------------------------------------------------------------------------
Init ==
  /\ kind \in Kinds
  /\ cached = None /\ fresh = FALSE /\ holder = Nobody /\ itemRT = 0
  /\ pc = [t \in Task |-> "idle"] /\ requests = [t \in Task |-> 0]
  /\ path = [t \in Task |-> None] /\ forced = [t \in Task |-> FALSE]
  /\ token = [t \in Task |-> None] /\ rt = [t \in Task |-> None]
  /\ reply = [t \in Task |-> None]
  /\ vaultRT = 0 /\ snap = None /\ syncs = 0
  /\ issued = 0 /\ endpointRT = 0 /\ dead = 0 /\ lost = FALSE

Goto(t, place) == pc' = [pc EXCEPT ![t] = place]
Set(var, t, value) == [var EXCEPT ![t] = value]

\* Only the refresh-token grant takes the lock.
Entry == IF kind = "refresh" THEN "lock" ELSE "look"

\* The guard of the lock is dropped with its task's call.
Release(t) == holder' = IF holder = t THEN Nobody ELSE holder

\* The request ends, and with it whatever call it is in.
End(t) ==
  /\ Goto(t, "idle") /\ Release(t)
  /\ token' = Set(token, t, None) /\ rt' = Set(rt, t, None)
  /\ reply' = Set(reply, t, None)
  /\ UNCHANGED <<requests, path, forced>>

\* Session services have no transparent mode.
Begin(t, p) ==
  /\ pc[t] = "idle" /\ requests[t] < MaxRequests
  /\ kind = "session" => p = "proxy"
  /\ requests' = Set(requests, t, requests[t] + 1)
  /\ path' = Set(path, t, p) /\ forced' = Set(forced, t, FALSE)
  /\ Goto(t, Entry)
  /\ UNCHANGED <<kind, stateVars, attemptVars, vaultVars, endpointVars, lost>>
-----------------------------------------------------------------------------
(* get_or_refresh *)

\* Mutant: the lock is not awaited.
AcquireAtOnce(t) ==
  /\ pc[t] = "lock"
  /\ holder' = t /\ Goto(t, "look")
  /\ UNCHANGED <<kind, cached, fresh, itemRT, requestVars, attemptVars, vaultVars,
                 endpointVars, lost>>

Acquire(t) ==
  /\ pc[t] = "lock" /\ holder = Nobody
  /\ holder' = t /\ Goto(t, "look")
  /\ UNCHANGED <<kind, cached, fresh, itemRT, requestVars, attemptVars, vaultVars,
                 endpointVars, lost>>

\* The call returns a token, and the request is sent with it.
Return(t, tok) ==
  /\ token' = Set(token, t, tok)
  /\ rt' = Set(rt, t, None) /\ reply' = Set(reply, t, None)
  /\ Goto(t, IF forced[t] THEN "resend" ELSE "send")
  /\ Release(t)

\* A forced call does not look in the cache.
Usable(t) == ~forced[t] /\ cached # None /\ fresh

Hit(t) ==
  /\ pc[t] = "look" /\ Usable(t)
  /\ Return(t, cached)
  /\ UNCHANGED <<kind, cached, fresh, itemRT, requestVars, vaultVars, endpointVars, lost>>

\* The credential is read from the cached vault item, and the exchange sent.
Miss(t) ==
  /\ pc[t] = "look" /\ ~Usable(t)
  /\ rt' = Set(rt, t, itemRT)
  /\ Goto(t, "posted")
  /\ UNCHANGED <<kind, stateVars, requestVars, token, reply, vaultVars, endpointVars, lost>>

\* The item cannot be read or the exchange fails: it did not arrive, or its
\* grant, and a rotated refresh token with it, is never read.
FetchFails(t) ==
  /\ Faults /\ pc[t] \in {"look", "posted", "granted"}
  /\ lost' = (lost \/ (pc[t] = "granted" /\ reply[t].rt # rt[t]))
  /\ End(t)
  /\ UNCHANGED <<kind, cached, fresh, itemRT, vaultVars, endpointVars>>

Refused(t) ==
  /\ pc[t] = "posted" /\ kind = "refresh" /\ rt[t] # endpointRT
  /\ End(t)
  /\ UNCHANGED <<kind, cached, fresh, itemRT, vaultVars, endpointVars, lost>>

\* Mutant: every refresh token of a reply is taken for the one that was sent.
RotatedNever(t) == FALSE

Rotated(t) == reply[t].rt # rt[t]

\* Without oauth_writeback a rotated refresh token is logged and discarded.
Receive(t) ==
  /\ pc[t] = "granted"
  /\ Goto(t, IF Rotated(t) /\ Writeback THEN "writeback" ELSE "store")
  /\ lost' = (lost \/ (reply[t].rt # rt[t] /\ ~Writeback))
  /\ UNCHANGED <<kind, stateVars, requestVars, attemptVars, vaultVars, endpointVars>>

\* Mutant: the refresh token that was spent is written.
WriteBackSpent(t) ==
  /\ pc[t] = "writeback"
  /\ vaultRT' = rt[t]
  /\ Goto(t, "store")
  /\ UNCHANGED <<kind, stateVars, requestVars, attemptVars, snap, syncs, endpointVars, lost>>

\* update_password_for_item and update_field_for_item write Vaultwarden and
\* leave the cached item as it is.
WriteBack(t) ==
  /\ pc[t] = "writeback"
  /\ vaultRT' = reply[t].rt
  /\ Goto(t, "store")
  /\ UNCHANGED <<kind, stateVars, requestVars, attemptVars, snap, syncs, endpointVars, lost>>

\* A failure is logged, and the call goes on.
WriteBackFails(t) ==
  /\ Faults /\ pc[t] = "writeback"
  /\ lost' = TRUE
  /\ vaultRT' \in {vaultRT, reply[t].rt}
  /\ Goto(t, "store")
  /\ UNCHANGED <<kind, stateVars, requestVars, attemptVars, snap, syncs, endpointVars>>

\* A lifetime of no more than the margin leaves an entry that has expired.
Store(t) ==
  /\ pc[t] = "store"
  /\ cached' = reply[t].token
  /\ fresh' \in BOOLEAN
  /\ Return(t, reply[t].token)
  /\ UNCHANGED <<kind, itemRT, requestVars, vaultVars, endpointVars, lost>>
-----------------------------------------------------------------------------
(* apply_auth_and_send, and the transparent listener *)

Dead(tok) == tok < dead

Unauthorized(t) ==
  /\ pc[t] = "send" /\ Dead(token[t]) /\ path[t] = "proxy"
  /\ forced' = Set(forced, t, TRUE)
  /\ Goto(t, Entry)
  /\ UNCHANGED <<kind, stateVars, requests, path, attemptVars, vaultVars,
                 endpointVars, lost>>

\* The client gets the answer: a 401 of the second attempt, or of the only
\* one of a transparent request, included.
Answer(t) ==
  /\ pc[t] \in {"send", "resend"}
  /\ Dead(token[t]) => pc[t] = "resend" \/ path[t] = "transparent"
  /\ End(t)
  /\ UNCHANGED <<kind, cached, fresh, itemRT, vaultVars, endpointVars, lost>>

SendFails(t) ==
  /\ Faults /\ pc[t] \in {"send", "resend"}
  /\ End(t)
  /\ UNCHANGED <<kind, cached, fresh, itemRT, vaultVars, endpointVars, lost>>

\* The client goes away.  What is on the wire has arrived or never does.
Cancel(t) ==
  /\ Faults /\ pc[t] # "idle"
  /\ lost' = (lost \/ (pc[t] = "granted" /\ Rotated(t)) \/ pc[t] = "writeback")
  /\ vaultRT' \in IF pc[t] = "writeback" THEN {vaultRT, reply[t].rt} ELSE {vaultRT}
  /\ End(t)
  /\ UNCHANGED <<kind, cached, fresh, itemRT, snap, syncs, endpointVars>>
-----------------------------------------------------------------------------
(* The rest of the world *)

\* The endpoint grants an exchange.
Grant(t, rotated) ==
  /\ pc[t] = "posted"
  /\ IF kind = "refresh" THEN rt[t] = endpointRT ELSE ~rotated
  /\ issued' = issued + 1
  /\ endpointRT' = IF rotated THEN issued + 1 ELSE endpointRT
  /\ reply' = Set(reply, t, [token |-> issued + 1,
                             rt |-> IF rotated THEN issued + 1 ELSE rt[t]])
  /\ Goto(t, "granted")
  /\ UNCHANGED <<kind, stateVars, requestVars, token, rt, vaultVars, dead, lost>>

\* The cached entry reaches its expiry.
Ripen ==
  /\ cached # None /\ fresh
  /\ fresh' = FALSE
  /\ UNCHANGED <<kind, cached, holder, itemRT, pc, requestVars, attemptVars, vaultVars,
                 endpointVars, lost>>

\* The service stops accepting a token, whatever its lifetime was to be.
Expire ==
  /\ dead <= issued
  /\ dead' = dead + 1
  /\ UNCHANGED <<kind, stateVars, pc, requestVars, attemptVars, vaultVars, issued,
                 endpointRT, lost>>

\* A sync of the vault cache, by whatever task: its reply is applied later.
SyncFetch ==
  /\ snap = None /\ syncs < MaxSyncs
  /\ snap' = vaultRT /\ syncs' = syncs + 1
  /\ UNCHANGED <<kind, stateVars, pc, requestVars, attemptVars, vaultRT, endpointVars, lost>>

SyncStore ==
  /\ snap # None
  /\ itemRT' = snap /\ snap' = None
  /\ UNCHANGED <<kind, cached, fresh, holder, pc, requestVars, attemptVars, vaultRT,
                 syncs, endpointVars, lost>>
-----------------------------------------------------------------------------
\* What a task does by itself, and how its calls end.
Run(t) ==
  \/ Hit(t) \/ Miss(t) \/ FetchFails(t) \/ Refused(t) \/ Receive(t)
  \/ WriteBack(t) \/ WriteBackFails(t) \/ Store(t)
  \/ Unauthorized(t) \/ Answer(t) \/ SendFails(t)
  \/ \E rotated \in Rotations : Grant(t, rotated)

Next ==
  \/ \E t \in Task :
       (\E p \in Paths : Begin(t, p)) \/ Acquire(t) \/ Run(t) \/ Cancel(t)
  \/ Ripen \/ Expire \/ SyncFetch \/ SyncStore

Spec == Init /\ [][Next]_vars

\* Tasks run, every call has a client timeout, and tokio's Mutex serves its
\* waiters in order.
Fairness == \A t \in Task : WF_vars(Run(t)) /\ SF_vars(Acquire(t))

FairSpec == Spec /\ Fairness
-----------------------------------------------------------------------------
(* Properties *)

\* The lock of the vault item covers the look into the cache, the exchange
\* and the write-back: one exchange at a time spends the refresh token.
OneExchangeAtATime ==
  \A t \in Task : kind = "refresh" => (pc[t] \in Critical <=> holder = t)

\* With write-back the vault has the refresh token the endpoint accepts, or a
\* task is about to write it, unless a call was cut off or failed in between.
\* In particular an exchange that is refused has spent nothing.
VaultHasRefreshToken ==
  Writeback /\ ~lost =>
    \/ vaultRT = endpointRT
    \/ \E t \in Task : pc[t] \in {"granted", "writeback"} /\ reply[t].rt = endpointRT

\* An exchange that is refused is refused because the cached item is behind
\* the vault: the sync that brings it up to date repairs the service.
RefusedOnlyWhenStale ==
  \A t \in Task :
    Writeback /\ ~lost /\ kind = "refresh" /\ pc[t] = "posted" /\ rt[t] # endpointRT
      => rt[t] # vaultRT

\* Under the lock the cache never goes back to an older token.
CacheGoesForward ==
  [][kind = "refresh" /\ cached # None => cached' >= cached]_vars

\* Every request ends: nobody waits for the lock for ever.
RequestsEnd == \A t \in Task : pc[t] # "idle" ~> pc[t] = "idle"

\* The request of a task as its client's caller sees it.
Phase(t) ==
  CASE pc[t] = "send" -> "first"
    [] pc[t] = "resend" -> "second"
    [] pc[t] \notin {"idle", "send", "resend"} /\ forced[t] -> "rejected"
    [] OTHER -> "idle"

\* A request is sent at most twice, and not with the rejected token again.
Request == INSTANCE RetryOnce WITH phase <- [t \in Task |-> Phase(t)],
                                   used <- token
RetriesOnce == Request!Spec

\* What a request may count on: the cache does not go back, a rejected token is
\* not sent again, and it ends.
RequestsSound == CacheGoesForward /\ RetriesOnce /\ RequestsEnd

\* Without the refresh-token grant nobody takes the lock.
LockFree == kind # "refresh" => holder = Nobody /\ \A t \in Task : pc[t] # "lock"

\* What a task has in hand, by where it is: a request that is not being sent has
\* a token only after a 401, and the grant it then gets is a newer one.  Under
\* the lock the latest grant is that of its holder.
InHand ==
  \A t \in Task :
    /\ pc[t] = "send" => ~forced[t]
    /\ pc[t] = "resend" => forced[t]
    /\ token[t] # None <=> pc[t] = "send" \/ (pc[t] # "idle" /\ forced[t])
    /\ token[t] # None => token[t] <= issued
    /\ pc[t] \in {"posted", "granted", "writeback", "store"} => rt[t] \in Nat
    /\ pc[t] \in {"granted", "writeback", "store"} =>
         /\ reply[t] \in [token : 1..issued, rt : Nat]
         /\ forced[t] => token[t] < reply[t].token
         /\ IF kind = "refresh" THEN reply[t].token = issued
            ELSE pc[t] # "writeback" /\ reply[t].rt = rt[t]

\* Where the refresh token is that the endpoint accepts, as long as none is lost.
RefreshTokenKept ==
  Writeback /\ ~lost =>
    /\ kind # "refresh" => vaultRT = endpointRT
    /\ (\A t \in Task : pc[t] \notin {"granted", "writeback"}) => vaultRT = endpointRT
    /\ \A t \in Task :
         /\ pc[t] = "granted" =>
              IF reply[t].rt # rt[t] THEN reply[t].rt = endpointRT ELSE vaultRT = endpointRT
         /\ pc[t] = "writeback" => reply[t].rt = endpointRT

\* The lock and what it keeps, at every step.
TokensInv ==
  /\ TypeOK /\ OneExchangeAtATime /\ LockFree /\ InHand /\ RefreshTokenKept
  /\ VaultHasRefreshToken

\* "so a rotating IdP doesn't deal two grants the second of which uses an
\* already-invalidated RT".
NoSpentRefreshToken ==
  Writeback /\ ~lost /\ kind = "refresh" =>
    \A t \in Task : pc[t] = "posted" => rt[t] = endpointRT

=============================================================================
