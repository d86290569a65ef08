----------------------------- MODULE BridgeToken -----------------------------
(***************************************************************************)
(* mcp-rpc-bridge (src/src/mcp_rpc_bridge/) in front of an upstream that   *)
(* wants a bearer token: it serves the lines of its stdin one after the    *)
(* other, takes the token from the local socket of vault-proxy when the    *)
(* one it has is old, and once more when the upstream answers 401.         *)
(*                                                                         *)
(* The token goes through three copies before it is used: the vault items  *)
(* and the CredCache of the daemon, and the state of the injector.  Tokens *)
(* are numbers in the order in which the upstream has issued them; it      *)
(* accepts the newest.                                                     *)
(***************************************************************************)
EXTENDS Naturals

CONSTANTS
  MaxRotations,  \* bound: the tokens the upstream issues after the first
  MaxFaults,     \* bound: requests and fetches that fail
  None

VARIABLES
  upstream,      \* the token that is accepted
  vault, items,  \* the token in the vault and in VaultManager.items
  timer,         \* is --vault-refresh-interval-secs set? By default it is not
  cred,          \* CredCache: the token, or None
  token, fresh,  \* State.token; is fetched_at within the interval?
  pc,            \* where the bridge is
  bearer, second,\* the token it sends; is it the retry after a 401?
  resent,        \* has send_once met a connection error?
  reply,         \* what became of the last line
  stale,         \* has this request met an old token, a rotation or a failure?
  faults

world == <<upstream, vault, timer>>
daemon == <<items, cred>>
vars == <<world, daemon, token, fresh, pc, bearer, second, resent, reply, stale, faults>>

Token == 1..(MaxRotations + 1)

TypeOK ==
  /\ upstream \in Token /\ vault \in 1..upstream /\ items \in 1..vault
  /\ timer \in BOOLEAN
  /\ cred \in Token \union {None}
  /\ token \in Token \union {None} /\ fresh \in BOOLEAN
  /\ pc \in {"start", "read", "token", "send", "forced", "end"}
  /\ bearer \in Token \union {None} /\ second \in BOOLEAN /\ resent \in BOOLEAN
  /\ reply \in {"none", "ok", "refused", "failed"} /\ stale \in BOOLEAN
  /\ faults \in 0..MaxFaults

Init ==
  /\ upstream = 1 /\ vault = 1 /\ items = 1 /\ cred = None
  /\ timer \in BOOLEAN
  /\ token = None /\ fresh = FALSE /\ pc = "start" /\ bearer = None
  /\ second = FALSE /\ resent = FALSE /\ reply = "none" /\ stale = FALSE /\ faults = 0

Fault == faults < MaxFaults /\ faults' = faults + 1
-----------------------------------------------------------------------------
(* The daemon: handle_conn and CredCache *)

\* What the socket serves: the cached value, until it expires.
Served == IF cred # None THEN cred ELSE items

Fetched == cred' = Served /\ token' = Served /\ fresh' = TRUE
                          /\ stale' = (stale \/ Served # upstream)

Expire ==
  /\ cred # None /\ cred' = None
  /\ UNCHANGED <<items, token, fresh, pc, bearer, second, resent, reply, stale, faults>>
  /\ UNCHANGED world

\* A sync of the vault: the timer's, or one that is asked for.
Sync ==
  /\ items # vault /\ items' = vault
  /\ UNCHANGED <<cred, token, fresh, pc, bearer, second, resent, reply, stale, faults>>
  /\ UNCHANGED world

\* The upstream issues a token, and its owner puts it into the vault.
Rotate ==
  /\ upstream <= MaxRotations /\ upstream = vault /\ upstream' = upstream + 1
  /\ stale' = TRUE
  /\ UNCHANGED <<vault, timer, token, fresh, pc, bearer, second, resent, reply, faults>>
  /\ UNCHANGED daemon

Store ==
  /\ vault # upstream /\ vault' = upstream
  /\ UNCHANGED <<upstream, timer, token, fresh, pc, bearer, second, resent, reply, stale>>
  /\ UNCHANGED faults
  /\ UNCHANGED daemon
-----------------------------------------------------------------------------
(* The bridge *)

\* run and HeaderInjector::new: without a first token it does not serve.
Start ==
  /\ pc = "start"
  /\ \/ Fetched /\ pc' = "read" /\ UNCHANGED faults
     \/ Fault /\ pc' = "end" /\ UNCHANGED <<cred, token, fresh, stale>>
  /\ UNCHANGED <<items, bearer, second, resent, reply>> /\ UNCHANGED world

\* serve_streams: the next line, when the one before has been answered.
Line ==
  /\ pc = "read" /\ pc' = "token" /\ second' = FALSE /\ resent' = FALSE
  /\ reply' = "none" /\ stale' = FALSE
  /\ UNCHANGED <<token, fresh, bearer, faults>> /\ UNCHANGED daemon /\ UNCHANGED world

\* The end of the interval.
Tick ==
  /\ fresh /\ fresh' = FALSE
  /\ UNCHANGED <<token, pc, bearer, second, resent, reply, stale, faults>>
  /\ UNCHANGED daemon /\ UNCHANGED world

\* current_token: an old token is fetched anew, and kept when that fails.
CurrentToken ==
  /\ pc = "token" /\ pc' = "send"
  /\ \/ fresh /\ UNCHANGED <<cred, token, fresh, stale, faults>>
     \/ ~ fresh /\ Fetched /\ UNCHANGED faults
     \/ ~ fresh /\ Fault /\ UNCHANGED <<cred, token, fresh, stale>>
  /\ bearer' = token'
  /\ UNCHANGED <<items, second, resent, reply>> /\ UNCHANGED world

Answer(r) == reply' = r /\ pc' = "read"

\* forward: a 401 is followed by one more try.
Sent ==
  /\ pc = "send"
  /\ IF bearer = upstream THEN Answer("ok")
     ELSE IF second THEN Answer("refused")
     ELSE pc' = "forced" /\ UNCHANGED reply
  /\ UNCHANGED <<token, fresh, bearer, second, resent, stale, faults>>
  /\ UNCHANGED daemon /\ UNCHANGED world

\* send_once: a connection that fails is tried again with the same token; any
\* other error ends the request.
SendFails ==
  /\ pc = "send" /\ Fault
  /\ \/ ~ resent /\ resent' = TRUE /\ UNCHANGED <<pc, reply>>
     \/ Answer("failed") /\ UNCHANGED resent
  /\ UNCHANGED <<token, fresh, bearer, second, stale>> /\ UNCHANGED daemon
  /\ UNCHANGED world

\* Mutant: the token is fetched anew only when it is old.
IfOld == (fresh /\ UNCHANGED <<cred, token, fresh, stale>>) \/ (~ fresh /\ Fetched)
\* force_refresh: the token is fetched whatever its age.
Refetched == Fetched
Force ==
  /\ pc = "forced"
  /\ \/ Refetched /\ pc' = "token" /\ second' = TRUE /\ resent' = FALSE
        /\ UNCHANGED <<reply, faults>>
     \/ Fault /\ Answer("failed") /\ UNCHANGED <<cred, token, fresh, stale, second, resent>>
  /\ UNCHANGED <<items, bearer>> /\ UNCHANGED world

\* The end of stdin.
Eof ==
  /\ pc = "read" /\ pc' = "end"
  /\ UNCHANGED <<token, fresh, bearer, second, resent, reply, stale, faults>>
  /\ UNCHANGED daemon /\ UNCHANGED world
-----------------------------------------------------------------------------
Bridge == CurrentToken \/ Sent \/ SendFails \/ Force
Next == \/ Start \/ Line \/ Tick \/ Bridge \/ Eof
        \/ Expire \/ Sync \/ Rotate \/ Store

Spec == Init /\ [][Next]_vars

\* The bridge and time go on, and the owner stores the token in the end; the vault is
\* refreshed only by a timer that is set.
FairSpec == Spec /\ WF_vars(CurrentToken) /\ WF_vars(Sent) /\ WF_vars(Force)
                 /\ WF_vars(Expire) /\ WF_vars(timer /\ Sync) /\ WF_vars(Store)
-----------------------------------------------------------------------------
(* A request is refused only when the socket has served an old token or the *)
(* upstream has rotated while it was on its way: a token that is merely old *)
(* in the bridge never costs a request.                                     *)
RefusedOnlyWhenStale == reply = "refused" => stale

(* A bridge that goes on serving is not refused for ever: when the upstream *)
(* no longer rotates, every copy of the old token goes in the end.  The one *)
(* in VaultManager.items goes by a sync; without the timer that may be one  *)
(* nobody asks for (main.rs:397), and then it alone is what refusals are    *)
(* owed to.                                                                 *)
ServesAgain ==
  <>[][pc = "send" /\ reply' = "refused" => ~timer /\ items # upstream]_vars

\* Both: what the bridge's client gets.
BridgeServes == [][RefusedOnlyWhenStale']_vars /\ ServesAgain
=============================================================================
