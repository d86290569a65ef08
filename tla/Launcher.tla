-------------------------------- MODULE Launcher --------------------------------
(***************************************************************************)
(* vaultproxy --launch (src/src/launcher.rs, the branches of               *)
(* src/src/main.rs that call it): a process that starts an MCP server with *)
(* credentials in its environment, and makes the API key it needs when the *)
(* vault has none.                                                         *)
(*                                                                         *)
(* A launch first tries with the fields that a running daemon hands out on *)
(* its socket, and on any failure again in full, with a vault session of   *)
(* its own.  Only the latter can make a key: it logs in at the UniFi       *)
(* controller, stores the key in the vault and reads the vault anew.  The  *)
(* items of that name are the key they hold, 0 for an empty password.      *)
(***************************************************************************)
EXTENDS Naturals, Sequences

CONSTANTS
  Launch,        \* the processes
  MaxChanges,    \* bound: edits of mcp-servers.toml, keys replaced, daemons restarted
  MaxFaults,     \* bound: requests that fail and processes that are killed
  None

Flaw == {"file", "admin", "env", "program", "url", "command"}

VARIABLES
  flaw,          \* what is wrong with mcp-servers.toml and the environment, or None
  items,         \* the vault's items of the name key_item, in the order made
  keys, accepted,\* how many keys the controller has made; those it accepts
  daemon,        \* the items the running daemon has cached, or None
  pc,
  source,        \* CredSource: "socket" or "vault"
  copy,          \* the items of the launch's own session
  key,           \* the key a launch has made or resolved
  child,         \* the key each server was started with, or None
  changes, faults,
  overlap,       \* have two launches made a key side by side?
  lost           \* has a launch failed between making a key and storing it?

launchVars == <<pc, source, copy, key, child>>
vars == <<flaw, items, keys, accepted, daemon, launchVars, changes, faults,
          overlap, lost>>

MaxKeys == Len(items) + MaxChanges + MaxFaults + 3
Items == Seq(0..MaxKeys)

TypeOK ==
  /\ flaw \in Flaw \union {None} /\ items \in Items /\ keys \in 0..MaxKeys
  /\ accepted \subseteq 1..keys /\ (daemon # None => daemon \in Items)
  /\ pc \in [Launch -> {"begin", "read", "check", "unlock", "admin", "make", "store", "sync",
                        "resolve", "vet", "address", "spawn", "ended"}]
  /\ source \in [Launch -> {"socket", "vault"}]
  /\ \A l \in Launch : copy[l] \in Items /\ key[l] \in 0..keys
  /\ child \in [Launch -> 0..keys \union {None}]
  /\ changes \in 0..MaxChanges /\ faults \in 0..MaxFaults /\ {overlap, lost} \subseteq BOOLEAN
-----------------------------------------------------------------------------
Init ==
  /\ flaw \in Flaw \union {None} /\ items \in {<< >>, <<0>>} /\ keys = 0 /\ accepted = {}
  /\ daemon \in {None, items}
  /\ pc = [l \in Launch |-> "begin"] /\ source = [l \in Launch |-> "vault"]
  /\ copy = [l \in Launch |-> << >>] /\ key = [l \in Launch |-> 0]
  /\ child = [l \in Launch |-> None]
  /\ changes = 0 /\ faults = 0 /\ overlap = FALSE /\ lost = FALSE

Set(var, l, v) == [var EXCEPT ![l] = v]
Goto(l, place) == pc' = Set(pc, l, place)
Change == changes < MaxChanges /\ changes' = changes + 1
Fault == faults < MaxFaults /\ faults' = faults + 1
world == <<flaw, items, keys, accepted, daemon, changes>>

\* After any failure the socket gives way to a session, which needs the TPM or a
\* password; a second one ends the process.
GiveUp(l) == Goto(l, IF source[l] = "socket" THEN "unlock" ELSE "ended")

\* main: with a socket there the launch tries that first.
Begin(l) ==
  /\ pc[l] = "begin"
  /\ IF daemon # None
     THEN source' = Set(source, l, "socket") /\ Goto(l, "read")
     ELSE Goto(l, "unlock") /\ UNCHANGED source
  /\ UNCHANGED <<world, copy, key, child, faults, overlap, lost>>

Others(l, places) ==
  \E m \in Launch \ {l} : pc[m] \in places /\ source[m] = "vault"

\* VaultManager::new reads the vault.
Unlock(l) ==
  /\ pc[l] = "unlock" /\ Goto(l, "read")
  /\ overlap' = (overlap \/ Others(l, {"store"}))
  /\ source' = Set(source, l, "vault") /\ copy' = Set(copy, l, items)
  /\ UNCHANGED <<world, key, child, faults, lost>>

\* mcp-servers.toml, and the first server of that name.
Read(l) ==
  /\ pc[l] = "read" /\ IF flaw = "file" THEN GiveUp(l) ELSE Goto(l, "check")
  /\ UNCHANGED <<world, source, copy, key, child, faults, overlap, lost>>
-----------------------------------------------------------------------------
(* The key *)

Seen(l) == IF source[l] = "vault" THEN copy[l] ELSE IF daemon = None THEN << >> ELSE daemon

\* The keys that a lookup by name may find: any item of the name.
Found(l) == {Seen(l)[i] : i \in DOMAIN Seen(l)}

\* The daemon answers with an error while it reads the vault anew.
NeedsKey(l) == {n \in {TRUE, FALSE} : IF n THEN \/ Found(l) = {} \/ 0 \in Found(l)
                                               \/ source[l] = "socket"
                                      ELSE Found(l) \ {0} # {}}

\* Mutant: what the daemon says decides.
MakesAnyway(l) ==
  \/ source[l] = "socket" /\ Goto(l, "admin") /\ source' = Set(source, l, "vault")
     /\ copy' = Set(copy, l, Seen(l))
  \/ source[l] = "vault" /\ Goto(l, "admin") /\ UNCHANGED <<source, copy>>

\* as_vault: a launch with the socket cannot make one.
Makes(l) ==
  /\ IF source[l] = "vault" THEN Goto(l, "admin") ELSE GiveUp(l)
  /\ UNCHANGED <<source, copy>>

CheckKey(l) ==
  /\ pc[l] = "check"
  /\ \E needs \in NeedsKey(l) :
       IF needs THEN Makes(l) ELSE Goto(l, "resolve") /\ UNCHANGED <<source, copy>>
  /\ UNCHANGED <<world, key, child, faults, overlap, lost>>

\* The address, name and password of auth_item.
ReadAdmin(l) ==
  /\ pc[l] = "admin" /\ IF flaw = "admin" THEN GiveUp(l) ELSE Goto(l, "make")
  /\ UNCHANGED <<world, source, copy, key, child, faults, overlap, lost>>

\* bootstrap_unifi_api_key: login, a new key, logout.
Make(l) ==
  /\ pc[l] = "make" /\ Goto(l, "store")
  /\ keys' = keys + 1 /\ accepted' = accepted \union {keys'} /\ key' = Set(key, l, keys')
  /\ overlap' = (overlap \/ Others(l, {"read", "check", "admin", "make", "store"}))
  /\ UNCHANGED <<flaw, items, daemon, source, copy, child, changes, faults, lost>>

\* A new item, or the password of the one there is.
Store(l) ==
  /\ pc[l] = "store" /\ Goto(l, "sync")
  /\ IF copy[l] = << >> THEN items' = Append(items, key[l])
     ELSE \E i \in DOMAIN copy[l] : items' = [items EXCEPT ![i] = key[l]]
  /\ UNCHANGED <<flaw, keys, accepted, daemon, source, copy, key, child, changes, faults,
                 overlap, lost>>

Sync(l) ==
  /\ pc[l] = "sync" /\ Goto(l, "resolve") /\ copy' = Set(copy, l, items)
  /\ UNCHANGED <<world, source, key, child, faults, overlap, lost>>
-----------------------------------------------------------------------------
(* The server *)

\* The variables of the environment, fetched one by one.
Resolve(l) ==
  /\ pc[l] = "resolve"
  /\ IF flaw = "env" \/ Found(l) = {} THEN GiveUp(l) /\ UNCHANGED key
     ELSE \E k \in Found(l) : key' = Set(key, l, k) /\ Goto(l, "vet")
  /\ UNCHANGED <<world, source, copy, child, faults, overlap, lost>>

\* The program may be no shell, the name no path.
Vet(l) ==
  /\ pc[l] = "vet" /\ IF flaw = "program" THEN GiveUp(l) ELSE Goto(l, "address")
  /\ UNCHANGED <<world, source, copy, key, child, faults, overlap, lost>>

\* validate_public_url: no scheme, no host or a slash at the end.
BadUrl == flaw = "url"

\* VAULT_PROXY_PUBLIC_URL, or the address the proxy listens on.
Address(l) ==
  /\ pc[l] = "address" /\ IF BadUrl THEN GiveUp(l) ELSE Goto(l, "spawn")
  /\ UNCHANGED <<world, source, copy, key, child, faults, overlap, lost>>

\* The process ends with its child.
Spawn(l) ==
  /\ pc[l] = "spawn"
  /\ IF flaw = "command" THEN GiveUp(l) /\ UNCHANGED child
     ELSE Goto(l, "ended") /\ child' = Set(child, l, key[l])
  /\ UNCHANGED <<world, source, copy, key, faults, overlap, lost>>

\* A request that fails, and what follows from any error.
Fails(l) ==
  /\ pc[l] \in {"unlock", "make", "store", "sync", "resolve"} /\ Fault /\ GiveUp(l)
  /\ lost' = (lost \/ pc[l] = "store")
  /\ UNCHANGED <<world, source, copy, key, child, overlap>>

\* The operator starts it again.
Again(l) ==
  /\ pc[l] = "ended" /\ child[l] = None /\ Change /\ Goto(l, "begin")
  /\ UNCHANGED <<flaw, items, keys, accepted, daemon, source, copy, key, child, faults,
                 overlap, lost>>
-----------------------------------------------------------------------------
(* What goes on meanwhile *)

Refresh ==
  /\ daemon # None /\ daemon' = items
  /\ UNCHANGED <<flaw, items, keys, accepted, launchVars, changes, faults, overlap, lost>>

Daemon ==
  /\ Change /\ daemon' = IF daemon = None THEN items ELSE None
  /\ UNCHANGED <<flaw, items, keys, accepted, launchVars, faults, overlap, lost>>

Fix ==
  /\ flaw # None /\ flaw' = None
  /\ UNCHANGED <<items, keys, accepted, daemon, launchVars, changes, faults, overlap, lost>>
-----------------------------------------------------------------------------
Run(l) ==
  \/ Begin(l) \/ Unlock(l) \/ Read(l) \/ CheckKey(l) \/ ReadAdmin(l) \/ Make(l) \/ Store(l) \/ Sync(l)
  \/ Resolve(l) \/ Vet(l) \/ Address(l) \/ Spawn(l) \/ Fails(l) \/ Again(l)

Next == (\E l \in Launch : Run(l)) \/ Refresh \/ Daemon \/ Fix

Spec == Init /\ [][Next]_vars
-----------------------------------------------------------------------------
(* However often a launch fails or is repeated, and whatever the daemon has  *)
(* cached, one key is made and one item holds it; unless two launches make   *)
(* one side by side or a key is lost before it is stored.                    *)
OneKeyMade == ~overlap /\ ~lost => keys <= 1 /\ Len(items) <= 1

(* Fails: of two launches that make a key side by side the second "will fail  *)
(* loudly at the Vaultwarden layer" (launcher.rs:257). The item each of them *)
(* makes is accepted, so that a lookup by name finds either.                 *)
SecondFails == Len(items) <= 1

(* A server is started with a key that the controller accepts, although the  *)
(* item may have been there without one.                                     *)
ChildHasKey == \A l \in Launch : child[l] # None => child[l] \in accepted
=============================================================================
