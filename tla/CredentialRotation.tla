-------------------------- MODULE CredentialRotation --------------------------
(***************************************************************************)
(* POST /rotate (src/src/rotate/mod.rs, strategies.rs, wi_mcp_adapter.rs), *)
(* the hook after it (hooks.rs), and the cache behind the local socket     *)
(* from which services take their credentials (cred_cache.rs,              *)
(* local_socket.rs).                                                       *)
(*                                                                         *)
(* Two credentials of WI MCP can be rotated: the admin's password, which a *)
(* script on the remote host changes if it is given the current one, and   *)
(* the bearer token, which is minted with that password.  A rotation reads *)
(* the password from the cached vault, runs the script over ssh for at     *)
(* most 30 seconds, and writes what is new to the vault, or else to a      *)
(* recovery file named after the second.  Nothing keeps two calls apart,   *)
(* and one whose client goes away is dropped where it waits.               *)
(*                                                                         *)
(* Passwords and tokens are numbers in the order of their making.          *)
(***************************************************************************)
EXTENDS Naturals

CONSTANTS
  Call,          \* the calls of POST /rotate
  Served,        \* the items somebody asks for at the local socket
  MaxSeconds,    \* bound: the seconds told apart by the names of recovery files
  MaxFaults,     \* bound: failures, calls cut off, timeouts
  None

Item == {"admin", "bearer"}   \* "WI MCP - Admin" and "WI MCP - Bearer"

VARIABLES
  \* the calls
  pc,
  job,           \* what the call rotates
  current, new,  \* the password it has read; what it puts in its place
  wire,          \* its script on the remote host
  got,           \* what the service restarted by the hook was served
  \* WI MCP
  site, made,    \* the admin's password; the number of credentials made
  \* the vault, and VaultManager.items
  vault, items,
  timer,         \* is --vault-refresh-interval-secs set? By default it is not
  files, now,    \* the recovery files; the second
  \* CredCache, and a connection of the local socket
  cred, asked, read,
  faults,
  unheard        \* has a password been changed by a script nobody listened to,
                 \* or could its recovery file not be made?

callVars == <<pc, job, current, new, wire, got>>
siteVars == <<site, made>>
fileVars == <<files, now>>
sockVars == <<cred, asked, read>>
vars == <<callVars, siteVars, vault, items, timer, fileVars, sockVars, faults, unheard>>

Waiting == {"remote", "put", "evict", "sync"}
Entry == [value : Nat, live : BOOLEAN]
File == [item : Item, at : 0..MaxSeconds, value : Nat]

TypeOK ==
  /\ pc \in [Call -> {"idle", "hook", "over"} \union Waiting]
  /\ job \in [Call -> Item] /\ current \in [Call -> 0..made] /\ new \in [Call -> 0..made]
  /\ wire \in [Call -> {"none", "sent", "ok", "refused"}] /\ got \in [Call -> 0..made]
  /\ site \in 1..made /\ made \in Nat
  /\ vault \in [Item -> 1..made] /\ items \in [Item -> 1..made]
  /\ timer \in BOOLEAN /\ files \subseteq File /\ now \in 0..MaxSeconds
  /\ cred \in [Served -> Entry \union {None}]
  /\ asked \in Served \union {None} /\ read \in 0..made
  /\ faults \in 0..MaxFaults /\ unheard \in BOOLEAN
-----------------------------------------------------------------------------
Init ==
  /\ pc = [c \in Call |-> "idle"] /\ job = [c \in Call |-> "admin"]
  /\ current = [c \in Call |-> 0] /\ new = [c \in Call |-> 0]
  /\ wire = [c \in Call |-> "none"] /\ got = [c \in Call |-> 0]
  /\ site = 1 /\ made = 2
  /\ vault = [i \in Item |-> IF i = "admin" THEN 1 ELSE 2] /\ items = vault
  /\ timer \in BOOLEAN /\ files = {} /\ now = 0
  /\ cred = [i \in Served |-> None] /\ asked = None /\ read = 0
  /\ faults = 0 /\ unheard = FALSE

Set(var, c, v) == [var EXCEPT ![c] = v]
Goto(c, place) == pc' = Set(pc, c, place)
Fault == faults < MaxFaults /\ faults' = faults + 1
-----------------------------------------------------------------------------
(* the strategies rotate_wi_mcp_admin and rotate_wi_mcp *)

\* The new password is made here, the new token is made by the script.
Begin(c, item) ==
  /\ pc[c] = "idle" /\ Goto(c, "remote") /\ job' = Set(job, c, item)
  /\ current' = Set(current, c, items["admin"])
  /\ IF item = "admin" THEN made' = made + 1 /\ new' = Set(new, c, made + 1)
     ELSE UNCHANGED <<made, new>>
  /\ wire' = Set(wire, c, "sent")
  /\ UNCHANGED <<got, site, vault, items, fileVars, timer, sockVars, faults, unheard>>

\* A service without a strategy, or a vault that is locked by a sync.
Reject(c) ==
  /\ pc[c] = "idle" /\ Goto(c, "over")
  /\ UNCHANGED <<job, current, new, wire, got, siteVars, vault, items, fileVars, timer,
                 sockVars, faults, unheard>>

\* ADMIN_PW_CHANGE_PY and auth-mint-token compare the password.
Allows(c, password) == password = current[c]

\* What the script does on the remote host.
Effect(c) ==
  \/ job[c] = "admin" /\ site' = new[c] /\ UNCHANGED <<made, new>>
  \/ job[c] = "bearer" /\ made' = made + 1 /\ new' = Set(new, c, made + 1)
     /\ UNCHANGED site

Execute(c) ==
  /\ wire[c] = "sent"
  /\ \/ Allows(c, site) /\ Effect(c) /\ wire' = Set(wire, c, "ok")
     \/ ~Allows(c, site) /\ wire' = Set(wire, c, "refused") /\ UNCHANGED <<siteVars, new>>
  /\ unheard' = (unheard \/ (pc[c] = "over" /\ Allows(c, site)))
  /\ UNCHANGED <<pc, job, current, got, vault, items, fileVars, timer, sockVars, faults>>

\* The connection breaks, before the script has run or after it.
Break(c) ==
  /\ wire[c] = "sent" /\ Fault /\ wire' = Set(wire, c, "refused")
  /\ \/ Allows(c, site) /\ Effect(c) /\ unheard' = TRUE
     \/ UNCHANGED <<siteVars, new, unheard>>
  /\ UNCHANGED <<pc, job, current, got, vault, items, fileVars, timer, sockVars>>

Changed(c) ==
  /\ pc[c] = "remote" /\ wire[c] = "ok" /\ Goto(c, "put")
  /\ UNCHANGED <<job, current, new, wire, got, siteVars, vault, items, fileVars, timer,
                 sockVars, faults, unheard>>

NotChanged(c) ==
  /\ pc[c] = "remote" /\ wire[c] = "refused" /\ Goto(c, "over")
  /\ UNCHANGED <<job, current, new, wire, got, siteVars, vault, items, fileVars, timer,
                 sockVars, faults, unheard>>

\* After 30 seconds; the script is left running.
RemoteTimeout(c) ==
  /\ pc[c] = "remote" /\ Fault /\ Goto(c, "over")
  /\ unheard' = (unheard \/ wire[c] = "ok")
  /\ UNCHANGED <<job, current, new, wire, got, siteVars, vault, items, fileVars, timer, sockVars>>

Written(c) == Set(vault, job[c], new[c])

Put(c) ==
  /\ pc[c] = "put" /\ vault' = Written(c) /\ Goto(c, "evict")
  /\ UNCHANGED <<job, current, new, wire, got, siteVars, items, fileVars, timer, sockVars,
                 faults, unheard>>

\* A file that exists is not opened.
Taken(c) == \E f \in files : f.item = job[c] /\ f.at = now

\* The recovery file is made; or it exists, or the directory takes no file.
Recover(c) ==
  \/ ~Taken(c) /\ files' = files \union {[item |-> job[c], at |-> now, value |-> new[c]]}
     /\ UNCHANGED unheard
  \/ UNCHANGED files /\ unheard' = TRUE

\* Mutant: the new credential is not kept.
PutFailsOnly(c) ==
  /\ pc[c] = "put" /\ Fault /\ vault' \in {vault, Written(c)} /\ Goto(c, "over")
  /\ UNCHANGED <<job, current, new, wire, got, siteVars, items, fileVars, timer, sockVars, unheard>>

\* The vault may have taken what it answers with an error.
PutFails(c) ==
  /\ pc[c] = "put" /\ Fault /\ vault' \in {vault, Written(c)} /\ Recover(c)
  /\ Goto(c, "over")
  /\ UNCHANGED <<job, current, new, wire, got, siteVars, items, now, timer, sockVars>>
-----------------------------------------------------------------------------
(* handle_rotate after a success, and a call that is dropped *)

\* The session token of the service is removed: ProxyTokens keeps it by item.
Evict(c) ==
  /\ pc[c] = "evict" /\ Goto(c, "sync")
  /\ UNCHANGED <<job, current, new, wire, got, siteVars, vault, items, fileVars, timer,
                 sockVars, faults, unheard>>

\* A failed sync is logged; the hook is started either way.
Sync(c) ==
  /\ pc[c] = "sync" /\ Goto(c, "hook")
  /\ \/ items' = vault /\ UNCHANGED faults
     \/ UNCHANGED items /\ Fault
  /\ UNCHANGED <<job, current, new, wire, got, siteVars, vault, fileVars, timer, sockVars, unheard>>

Cancel(c) ==
  /\ pc[c] \in Waiting /\ Fault /\ Goto(c, "over")
  /\ vault' \in IF pc[c] = "put" THEN {vault, Written(c)} ELSE {vault}
  /\ unheard' = (unheard \/ pc[c] = "put" \/ (pc[c] = "remote" /\ wire[c] = "ok"))
  /\ UNCHANGED <<job, current, new, wire, got, siteVars, items, fileVars, timer, sockVars>>
-----------------------------------------------------------------------------
(* the local socket *)

\* CredCache::get finds an entry that has not expired.
Hit(i) == cred[i] # None /\ cred[i].live

Cached(i, v) == Set(cred, i, [value |-> v, live |-> TRUE])

\* RotationHook::fire: the script restarts a service, which asks for its
\* credential; or it fails.
Fire(c) ==
  LET i == job[c] IN
  /\ pc[c] = "hook" /\ Goto(c, "over")
  /\ \/ i \in Served /\ Hit(i) /\ got' = Set(got, c, cred[i].value) /\ UNCHANGED cred
     \/ i \in Served /\ ~Hit(i) /\ got' = Set(got, c, items[i]) /\ cred' = Cached(i, items[i])
     \/ UNCHANGED <<got, cred>>
  /\ UNCHANGED <<job, current, new, wire, siteVars, vault, items, fileVars, timer, asked,
                 read, faults, unheard>>

\* get_item_fields misses and reads, and fills the cache.
Read(i) ==
  /\ asked = None /\ ~Hit(i)
  /\ asked' = i /\ read' = items[i]
  /\ UNCHANGED <<callVars, siteVars, vault, items, fileVars, timer, cred, faults, unheard>>

Fill ==
  /\ asked # None /\ cred' = Cached(asked, read)
  /\ asked' = None /\ read' = 0
  /\ UNCHANGED <<callVars, siteVars, vault, items, fileVars, timer, faults, unheard>>

\* Mutant: what is served stays fresh.
ExpireNever(i) == Hit(i) /\ UNCHANGED vars

\* The time to live of an entry ends; a read or the sweeper removes it.
Expire(i) ==
  /\ Hit(i) /\ cred' = Set(cred, i, [value |-> cred[i].value, live |-> FALSE])
  /\ UNCHANGED <<callVars, siteVars, vault, items, fileVars, timer, asked, read, faults, unheard>>

Purge ==
  /\ cred' = [i \in Served |-> IF Hit(i) THEN cred[i] ELSE None]
  /\ UNCHANGED <<callVars, siteVars, vault, items, fileVars, timer, asked, read, faults, unheard>>

\* A sync of somebody else: of the timer, or one that is asked for.
Refresh ==
  /\ items' = vault
  /\ UNCHANGED <<callVars, siteVars, vault, fileVars, timer, sockVars, faults, unheard>>

Tick ==
  /\ now < MaxSeconds /\ now' = now + 1
  /\ UNCHANGED <<callVars, siteVars, vault, items, files, timer, sockVars, faults, unheard>>
-----------------------------------------------------------------------------
Rotate(c) ==
  \/ Changed(c) \/ NotChanged(c) \/ Put(c) \/ PutFails(c) \/ Evict(c) \/ Sync(c) \/ Fire(c)

Next ==
  \/ \E c \in Call :
       \/ \E item \in Item : Begin(c, item)
       \/ Reject(c) \/ Rotate(c) \/ Execute(c) \/ Break(c) \/ RemoteTimeout(c) \/ Cancel(c)
  \/ \E i \in Served : Read(i) \/ Expire(i)
  \/ Fill \/ Purge \/ Refresh \/ Tick

Spec == Init /\ [][Next]_vars

\* Tasks run and time passes; a timer that is set refreshes the vault's cache. Without
\* it nobody need ask for a sync.
Fairness ==
  /\ \A c \in Call : WF_vars(Rotate(c))
  /\ \A i \in Served : WF_vars(Expire(i))
  /\ WF_vars(Fill) /\ WF_vars(Purge) /\ WF_vars(timer /\ Refresh)

FairSpec == Spec /\ Fairness
-----------------------------------------------------------------------------
(* properties *)

\* Where the password of the admin is: in the vault, in a recovery file, or with
\* the call that is changing it; unless its script ran and nobody heard of it, or its
\* recovery file could not be made.  Whatever two calls and the vault do,
\* it does not get lost otherwise.
AdminPasswordKept ==
  \/ site = vault["admin"] \/ unheard
  \/ \E f \in files : f.item = "admin" /\ f.value = site
  \/ \E c \in Call : pc[c] \in {"remote", "put"} /\ job[c] = "admin" /\ new[c] = site

\* A call writes to the vault the password that the admin has, not one that
\* another call has replaced since.
WritesTheLatest ==
  \A c \in Call : pc[c] = "put" /\ job[c] = "admin" => site = new[c]

\* Once the rotations are over, the socket comes to serve what the daemon has in its
\* cache; and that is what the vault has if the timer is set or nothing has failed.
SocketFollows ==
  <>[](\A i \in Served : cred[i] # None =>
         /\ cred[i].value = items[i]
         /\ timer \/ faults = 0 => cred[i].value = vault[i])

\* Fails: after a sync that failed "the next scheduled sync will catch up"
\* (rotate/mod.rs:122 and 126). Without the timer none is scheduled.
SyncCatchesUp == <>[](items = vault)

\* The hook is there "to bounce downstream services that cache the rotated
\* credential" (main.rs:449): a service it restarts is served the new one.
RestartedWithNew ==
  \A c \in Call : got[c] # 0 => got[c] >= new[c]
=============================================================================
