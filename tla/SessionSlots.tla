---------------------------- MODULE SessionSlots ----------------------------
(***************************************************************************)
(* The sessions kept for UniFi controllers (src/src/proxy/unifi_session.rs *)
(* and the UnifiDual case of apply_auth_and_send in proxy/mod.rs).         *)
(*                                                                         *)
(* A request first tries the API key alone.  If that is refused it locks   *)
(* the session slot of its service, drops a session that was made with     *)
(* another credential than its own, logs in if there is none, sends, and   *)
(* logs in once more if the session is refused.  It holds the slot to its  *)
(* end.  Its credential is read before it waits for the slot, so two       *)
(* requests around a rotation come with different ones.  A cache that is   *)
(* full gives out slots nobody else can find.                              *)
(***************************************************************************)
EXTENDS Naturals, FiniteSets

CONSTANTS
  Request,       \* the requests
  Service,       \* the services, each with a controller and a vault item
  Cap,           \* UNIFI_SESSION_CACHE_MAX
  MaxChanges,    \* bound: changes of a controller's password
  MaxFaults,     \* bound: sessions that end, refusals without reason, failures
  None

VARIABLES
  pc, service,
  cred,          \* the credential the request read; fingerprint_creds
  at,            \* the slot it was given
  slots,         \* the slots in the map: UnifiSessionCache.inner
  session, holder,   \* of each slot: its SessionState, and who has locked it
  site, item,    \* the controllers' passwords; what VaultManager.items has
  faults

reqVars == <<pc, service, cred, at>>
envVars == <<site, item>>
vars == <<reqVars, slots, session, holder, envVars, faults>>

Slot == Service \union Request     \* a request names the slot only it knows
Session == [cred : Nat, live : BOOLEAN]
Holding == {"check", "login", "send", "relogin", "resend"}

TypeOK ==
  /\ pc \in [Request -> {"idle", "bare", "lock", "over", "refused"} \union Holding]
  /\ service \in [Request -> Service]
  /\ cred \in [Request -> 0..MaxChanges + 1] /\ at \in [Request -> Slot]
  /\ slots \subseteq Service /\ Cardinality(slots) <= Cap
  /\ session \in [Slot -> Session \union {None}] /\ holder \in [Slot -> Request \union {None}]
  /\ site \in [Service -> 1..MaxChanges + 1] /\ item \in [Service -> 1..MaxChanges + 1]
  /\ faults \in 0..MaxFaults
  /\ \A r \in Request : pc[r] \in Holding <=> \E s \in Slot : holder[s] = r /\ s = at[r]
-----------------------------------------------------------------------------
Init ==
  /\ pc = [r \in Request |-> "idle"]
  /\ service \in [Request -> Service]
  /\ cred = [r \in Request |-> 0] /\ at = service
  /\ slots = {} /\ session = [s \in Slot |-> None] /\ holder = [s \in Slot |-> None]
  /\ site = [s \in Service |-> 1] /\ item = site
  /\ faults = 0

Fault == faults < MaxFaults /\ faults' = faults + 1
Goto(r, place) == pc' = [pc EXCEPT ![r] = place]
Release(r) == holder' = [holder EXCEPT ![at[r]] = None]
Keep(r, s) == session' = [session EXCEPT ![at[r]] = s]

\* The item's username and password are read from the cached vault.
Begin(r) ==
  /\ pc[r] = "idle" /\ Goto(r, "bare")
  /\ cred' = [cred EXCEPT ![r] = item[service[r]]]
  /\ UNCHANGED <<service, at, slots, session, holder, envVars, faults>>

\* The API key alone is enough, or the request fails.
Served(r) ==
  /\ pc[r] = "bare" /\ Goto(r, "over")
  /\ UNCHANGED <<service, cred, at, slots, session, holder, envVars, faults>>

\* slot(): the service's slot, which is made unless the cache is full.
Fallback(r) ==
  LET s == service[r] IN
  /\ pc[r] = "bare" /\ Goto(r, "lock")
  /\ IF s \in slots \/ Cardinality(slots) < Cap
     THEN at' = [at EXCEPT ![r] = s] /\ slots' = slots \union {s}
     ELSE at' = [at EXCEPT ![r] = r] /\ UNCHANGED slots
  /\ UNCHANGED <<service, cred, session, holder, envVars, faults>>

Lock(r) ==
  /\ pc[r] = "lock" /\ holder[at[r]] = None /\ Goto(r, "check")
  /\ holder' = [holder EXCEPT ![at[r]] = r]
  /\ UNCHANGED <<service, cred, at, slots, session, envVars, faults>>

Found(r) == session[at[r]]

\* Mutant: a session in the slot is used whoever made it.
Fits(r) == Found(r) # None

\* Only a session that was made with the request's own credential is kept.
Usable(r) == Found(r) # None /\ Found(r).cred = cred[r]

Check(r) ==
  /\ pc[r] = "check"
  /\ IF Usable(r) THEN Goto(r, "send") /\ UNCHANGED session
     ELSE Goto(r, "login") /\ Keep(r, None)
  /\ UNCHANGED <<service, cred, at, slots, holder, envVars, faults>>

\* login(), before the first attempt and, once, after it.
Login(r) ==
  /\ pc[r] \in {"login", "relogin"} /\ cred[r] = site[service[r]]
  /\ Keep(r, [cred |-> cred[r], live |-> TRUE])
  /\ Goto(r, IF pc[r] = "login" THEN "send" ELSE "resend")
  /\ UNCHANGED <<service, cred, at, slots, holder, envVars, faults>>

\* The error leaves the slot as it was.
LoginFails(r) ==
  /\ pc[r] \in {"login", "relogin"} /\ Goto(r, "over") /\ Release(r)
  /\ \/ cred[r] # site[service[r]] /\ UNCHANGED faults
     \/ Fault
  /\ UNCHANGED <<service, cred, at, slots, session, envVars>>

Answered(r) ==
  /\ pc[r] \in {"send", "resend"} /\ Found(r).live
  /\ Goto(r, "over") /\ Release(r)
  /\ UNCHANGED <<service, cred, at, slots, session, envVars, faults>>

\* is_auth_failure: the session has ended, or a 403 that logging in does not cure.
Unauthorized(r) == IF Found(r).live THEN Fault ELSE UNCHANGED faults

SendRefused(r) ==
  /\ pc[r] = "send" /\ Unauthorized(r) /\ Goto(r, "relogin")
  /\ UNCHANGED <<service, cred, at, slots, session, holder, envVars>>

\* The caller is answered 401, and the next request logs in afresh.
ResendRefused(r) ==
  /\ pc[r] = "resend" /\ Unauthorized(r) /\ Goto(r, "refused")
  /\ Keep(r, None) /\ Release(r)
  /\ UNCHANGED <<service, cred, at, slots, envVars>>

\* A network error or a client that goes away, wherever the request waits.
Drop(r) ==
  /\ pc[r] \in {"lock", "login", "send", "relogin", "resend"} /\ Fault /\ Goto(r, "over")
  /\ IF pc[r] = "lock" THEN UNCHANGED holder ELSE Release(r)
  /\ UNCHANGED <<service, cred, at, slots, session, envVars>>
-----------------------------------------------------------------------------
\* The password is changed on the controller, and a sync learns of it.
Change(s) ==
  /\ site[s] <= MaxChanges /\ site' = [site EXCEPT ![s] = @ + 1]
  /\ UNCHANGED <<reqVars, slots, session, holder, item, faults>>

Learn(s) ==
  /\ item' = [item EXCEPT ![s] = site[s]]
  /\ UNCHANGED <<reqVars, slots, session, holder, site, faults>>

\* A workflow that has changed the password empties the slot, if it is free.
Invalidate(s) ==
  /\ s \in slots /\ holder[s] = None
  /\ session' = [session EXCEPT ![s] = None]
  /\ UNCHANGED <<reqVars, slots, holder, envVars, faults>>

End(s) ==
  /\ session[s] # None /\ session[s].live /\ Fault
  /\ session' = [session EXCEPT ![s] = [cred |-> @.cred, live |-> FALSE]]
  /\ UNCHANGED <<reqVars, slots, holder, envVars>>
-----------------------------------------------------------------------------
Handle(r) ==
  \/ Begin(r) \/ Served(r) \/ Fallback(r) \/ Lock(r) \/ Check(r) \/ Login(r) \/ LoginFails(r)
  \/ Answered(r) \/ SendRefused(r) \/ ResendRefused(r)

Next ==
  \/ \E r \in Request : Handle(r) \/ Drop(r)
  \/ \E s \in Service : Change(s) \/ Learn(s) \/ Invalidate(s)
  \/ \E s \in Slot : End(s)

Spec == Init /\ [][Next]_vars
-----------------------------------------------------------------------------
(* properties *)

\* What a request sends over a session is sent in the name of the credential the
\* request itself has read, though requests from before and after a rotation
\* share the slot and each may find the session of the other in it.
OwnCredential ==
  \A r \in Request : pc[r] \in {"send", "resend"} => Found(r) # None /\ Found(r).cred = cred[r]
=============================================================================
