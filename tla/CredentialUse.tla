---------------------------- MODULE CredentialUse -----------------------------
(***************************************************************************)
(* The handlers of src/src/vault/handlers.rs that use the secrets of an    *)
(* item: write_env writes one to a file of variables (EnvFile),            *)
(* test_credential and inject_creds send them to a service, generate_totp  *)
(* and decrypt_notes answer with them.                                     *)
(*                                                                         *)
(* Each looks first whether the item is in the proxy's folder, and then    *)
(* for its secrets, all in the caches and each under a lock of its own;    *)
(* the caches may be replaced between any two.                             *)
(*   - The first two know the item by its id: they read the cipher, then   *)
(*     resolve the folder's id and compare it with the folder of the       *)
(*     cipher they hold, then read the cipher again for its secrets.       *)
(*   - The others know it by its name: they resolve the id, then search    *)
(*     the items for one of that name in that folder, then search them by  *)
(*     the name alone.  inject_creds does so for two names, of the item    *)
(*     that it sends and of the one that has Home Assistant's token.       *)
(***************************************************************************)
EXTENDS Naturals, FiniteSets

CONSTANTS
  Call,
  Item,          \* the items
  MaxChanges,    \* bound: the changes other clients make in Vaultwarden
  MaxFaults,     \* bound: restarts and secrets that cannot be had
  None

Name == {"n", "m"}
Folder == {"home", "other"}               \* the ids of folders; "home" is the proxy's

VARIABLES
  server, home,  \* the items in Vaultwarden, and the id of the proxy's folder
  items, index,  \* VaultManager.items; what VaultManager.folders has for it
  first,         \* the item that comes first when VaultManager.items is searched
  folder,        \* AppState.cached_folder_id
  pc, job,
  hand,          \* the folder of the cipher it has looked at; the id it has resolved
  scope,         \* the folder's id with which the check of each of its items passed
  user, got,     \* the username and the secret it has read: an item's version
  token,         \* and the token, from the notes of the second item
  moved,         \* has an item changed since the call looked whether it is in scope?
  changes, faults

serverVars == <<server, home, changes>>
cacheVars == <<items, index, first, folder>>
callVars == <<pc, job, hand, scope, user, got, token, moved>>
vars == <<serverVars, cacheVars, callVars, faults>>

Op == {"env", "test", "inject", "totp", "notes"}
ById(op) == op \in {"env", "test"}
Target == {"item", "token"}
Cipher == [name : Name, folder : Folder, version : 0..MaxChanges]
Secret == [item : Item, version : 0..MaxChanges]

TypeOK ==
  /\ server \in [Item -> Cipher] /\ items \in [Item -> Cipher]
  /\ {home, index, folder} \subseteq Folder \union {None} /\ first \in Item
  /\ pc \in [Call -> {"idle", "resolve", "check", "name", "secret", "notes", "use"}]
  /\ \A c \in Call : job[c] # None => job[c].op \in Op
  /\ hand \in [Call -> Folder \union {None}]
  /\ scope \in [Call -> [Target -> Folder \union {None}]]
  /\ \A c \in Call : {user[c], got[c], token[c]} \subseteq Secret \union {None}
  /\ moved \in [Call -> BOOLEAN]
  /\ changes \in 0..MaxChanges /\ faults \in 0..MaxFaults
-----------------------------------------------------------------------------
Unchecked == [t \in Target |-> None]

\* No call is under way.
AllIdle(p, j, h, s, u, g, t, m) ==
  /\ p = [c \in Call |-> "idle"] /\ j = [c \in Call |-> None] /\ h = j
  /\ s = [c \in Call |-> Unchecked] /\ u = j /\ g = j /\ t = j
  /\ m = [c \in Call |-> FALSE]

\* One item in the proxy's folder and the others elsewhere, under other names.
Init ==
  /\ \E i \in Item :
       server = [j \in Item |-> [name |-> IF j = i THEN "n" ELSE "m", version |-> 0,
                                 folder |-> IF j = i THEN "home" ELSE "other"]]
  /\ items = server /\ first \in Item
  /\ home = "home" /\ index = "home" /\ folder = None
  /\ AllIdle(pc, job, hand, scope, user, got, token, moved)
  /\ changes = 0 /\ faults = 0

Set(var, c, v) == [var EXCEPT ![c] = v]
Goto(c, place) == pc' = Set(pc, c, place)
Fault == faults < MaxFaults /\ faults' = faults + 1

\* The call has answered: what it has read is gone.
Ended(c) ==
  /\ Goto(c, "idle") /\ job' = Set(job, c, None) /\ hand' = Set(hand, c, None)
  /\ scope' = Set(scope, c, Unchecked) /\ moved' = Set(moved, c, FALSE)
  /\ user' = Set(user, c, None) /\ got' = Set(got, c, None) /\ token' = Set(token, c, None)
-----------------------------------------------------------------------------
(* Vaultwarden and the caches *)

\* Somebody renames, moves or edits an item, deletes the folder or gives its name
\* to another.
Change ==
  /\ changes < MaxChanges /\ changes' = changes + 1
  /\ \/ \E i \in Item, f \in Folder, n \in Name :
          /\ server' = [server EXCEPT ![i] = [name |-> n, folder |-> f, version |-> changes']]
          /\ UNCHANGED home
     \/ home' \in (Folder \union {None}) \ {home} /\ UNCHANGED server
  /\ UNCHANGED <<cacheVars, callVars, faults>>

\* The names of the items whose check has passed.
NameOf(c, t) == IF t = "item" THEN job[c].name ELSE job[c].token
Passed(c) == {NameOf(c, t) : t \in {r \in Target : scope[c][r] # None}}

\* The item that a call has looked at by its id has changed, or one with, before or
\* after, a name that it has checked.
Changed(c) ==
  IF ById(job[c].op) THEN items'[job[c].item] # items[job[c].item]
  ELSE \E i \in Item : items'[i] # items[i] /\ {items[i].name, items'[i].name} \intersect Passed(c) # {}

Disturbed == moved' = [c \in Call |-> moved[c] \/ (pc[c] # "idle" /\ Changed(c))]

\* VaultManager::sync: the items, and later the folders; a map that is filled
\* anew may be searched in another order.
StoreItems ==
  /\ items # server /\ items' = server /\ first' \in Item /\ Disturbed
  /\ UNCHANGED <<serverVars, index, folder, pc, job, hand, scope, user, got, token, faults>>

StoreIndex ==
  /\ index # home /\ index' = home
  /\ UNCHANGED <<serverVars, items, first, folder, callVars, faults>>

\* A reload or a resync clears the id.
Clear ==
  /\ folder # None /\ folder' = None
  /\ UNCHANGED <<serverVars, items, index, first, callVars, faults>>
-----------------------------------------------------------------------------
(* The calls *)

\* The item a name stands for: the first one the search meets.
Bearers(n) == {i \in Item : items[i].name = n}
Found(n) == IF items[first].name = n THEN first ELSE CHOOSE i \in Bearers(n) : TRUE

\* Arguments that are not refused before the vault is asked. Those that give the id
\* of an item first look at its cipher.
LookedUp(c, op, i) ==
  job' = Set(job, c, [op |-> op, item |-> i]) /\ hand' = Set(hand, c, items[i].folder)
WriteEnv(c, i) == LookedUp(c, "env", i)
TestCredential(c, i) == LookedUp(c, "test", i)

InjectCreds(c, n, t) ==
  job' = Set(job, c, [op |-> "inject", name |-> n, token |-> t]) /\ UNCHANGED hand
GenerateTotp(c, n) == job' = Set(job, c, [op |-> "totp", name |-> n]) /\ UNCHANGED hand
DecryptNotes(c, n) == job' = Set(job, c, [op |-> "notes", name |-> n]) /\ UNCHANGED hand

Begin(c) ==
  /\ pc[c] = "idle" /\ Goto(c, "resolve")
  /\ \/ \E i \in Item : WriteEnv(c, i) \/ TestCredential(c, i)
     \/ \E n \in Name : GenerateTotp(c, n) \/ DecryptNotes(c, n)
     \/ \E n, t \in Name : InjectCreds(c, n, t)
  /\ UNCHANGED <<serverVars, cacheVars, scope, user, got, token, moved, faults>>

\* resolve_vault_folder_id: found once, the id is kept.
Resolved == IF folder # None THEN folder ELSE index

\* Without the folder only test_credential goes on, with a warning.
Allowed(op) == op = "test"

\* By its id the folder of the cipher read before must be the one resolved now; by its
\* name the id is at hand for the search that follows.
Refused(c) ==
  IF Resolved = None THEN ~Allowed(job[c].op)
  ELSE ById(job[c].op) /\ hand[c] # Resolved

Resolve(c) ==
  /\ pc[c] = "resolve" /\ folder' = Resolved
  /\ \/ Refused(c) /\ Ended(c)
     \/ /\ ~Refused(c) /\ ById(job[c].op) /\ Goto(c, "secret")
        /\ scope' = [scope EXCEPT ![c].item = Resolved] /\ hand' = Set(hand, c, None)
        /\ UNCHANGED <<job, user, got, token, moved>>
     \/ /\ ~Refused(c) /\ ~ById(job[c].op) /\ Goto(c, "check")
        /\ hand' = Set(hand, c, Resolved)
        /\ UNCHANGED <<job, scope, user, got, token, moved>>
  /\ UNCHANGED <<serverVars, items, index, first, faults>>

\* The item whose check comes next: the first one first.
Turn(c) == IF scope[c].item = None THEN "item" ELSE "token"

\* item_name_is_in_folder_id: is there such an item in the folder?
NameInFolder(n, id) == \E i \in Bearers(n) : items[i].folder = id

\* Mutant: inject_creds checks the item that it sends, but not the one with the token.
TokenUnchecked(op, t) == IF op = "inject" THEN "name" ELSE "secret"

\* Where a call goes when a check has passed: inject_creds to its second item, and then
\* to the username; the others to the secret.
AfterCheck(op, t) ==
  IF op # "inject" THEN "secret" ELSE IF t = "item" THEN "resolve" ELSE "name"

Check(c) ==
  /\ pc[c] = "check"
  /\ IF NameInFolder(NameOf(c, Turn(c)), hand[c])
     THEN /\ Goto(c, AfterCheck(job[c].op, Turn(c)))
          /\ scope' = [scope EXCEPT ![c][Turn(c)] = hand[c]]
          /\ hand' = Set(hand, c, None)
          /\ UNCHANGED <<job, user, got, token, moved>>
     ELSE Ended(c)
  /\ UNCHANGED <<serverVars, cacheVars, faults>>

Version(i) == [item |-> i, version |-> items[i].version]

\* inject_creds: the username first; it may be missing.
ReadUser(c) ==
  /\ pc[c] = "name" /\ Goto(c, "secret")
  /\ \/ UNCHANGED user
     \/ Bearers(job[c].name) # {} /\ user' = Set(user, c, Version(Found(job[c].name)))
  /\ UNCHANGED <<serverVars, cacheVars, job, hand, scope, got, token, moved, faults>>

\* decrypt_credentials_by_id reads both from one copy of the cipher.
ReadById(c, i) ==
  got' = Set(got, c, Version(i)) /\ user' = Set(user, c, Version(i))

\* The others find the item by its name once more.
ReadByName(c, n) ==
  Bearers(n) # {} /\ got' = Set(got, c, Version(Found(n))) /\ UNCHANGED user

ReadSecret(c) ==
  /\ pc[c] = "secret" /\ Goto(c, IF job[c].op = "inject" THEN "notes" ELSE "use")
  /\ IF ById(job[c].op) THEN ReadById(c, job[c].item) ELSE ReadByName(c, job[c].name)
  /\ UNCHANGED <<serverVars, cacheVars, job, hand, scope, token, moved, faults>>

\* inject_creds: at last the token, from the notes of its second item.
ReadToken(c) ==
  /\ pc[c] = "notes" /\ Goto(c, "use") /\ Bearers(job[c].token) # {}
  /\ token' = Set(token, c, Version(Found(job[c].token)))
  /\ UNCHANGED <<serverVars, cacheVars, job, hand, scope, user, got, moved, faults>>

\* No item of the name, no such secret, or a lock that somebody else has; an item
\* that has been deleted answers like one without the secret.
NoSecret(c) ==
  /\ pc[c] \in {"secret", "notes"} /\ Ended(c)
  /\ \/ /\ ~ById(job[c].op) /\ UNCHANGED faults
        /\ Bearers(NameOf(c, IF pc[c] = "notes" THEN "token" ELSE "item")) = {}
     \/ Fault
  /\ UNCHANGED <<serverVars, cacheVars>>

\* The secret is sent or written, or is the answer.
Use(c) ==
  /\ pc[c] = "use" /\ Ended(c)
  /\ UNCHANGED <<serverVars, cacheVars, faults>>

\* The process ends and starts again with a sync.
Crash ==
  /\ Fault
  /\ items' = server /\ index' = home /\ first' \in Item /\ folder' = None
  /\ AllIdle(pc', job', hand', scope', user', got', token', moved')
  /\ UNCHANGED serverVars
-----------------------------------------------------------------------------
Handle(c) ==
  \/ Begin(c) \/ Resolve(c) \/ Check(c) \/ ReadUser(c) \/ ReadSecret(c)
  \/ ReadToken(c) \/ NoSecret(c) \/ Use(c)

Next == (\E c \in Call : Handle(c)) \/ Change \/ StoreItems \/ StoreIndex \/ Clear \/ Crash

Spec == Init /\ [][Next]_vars
-----------------------------------------------------------------------------
\* Does the call know which item a version is of? An id says it, a name only as long
\* as no other item bears it.
Known(c, v) == ById(job[c].op) \/ Bearers(items[v.item].name) = {v.item}

\* The item is in the folder with which its check has passed; test_credential, which
\* a missing folder does not stop, is let through.
Within(c, v, t) ==
  items[v.item].folder = scope[c][t] \/ (job[c].op = "test" /\ scope[c][t] = None)

(* What is used is a secret of an item of the proxy's folder, and so is the  *)
(* token; a username goes with the password of the same version of the same  *)
(* item. Only two things excuse a call: an item that a sync has changed      *)
(* after the call looked at its folder, and a name that two items bear. A    *)
(* call by id never uses a username and a password of different versions.    *)
UsedInScope ==
  \A c \in Call : pc[c] = "use" =>
    /\ ById(job[c].op) => user[c] = got[c]
    /\ ~moved[c] /\ Known(c, got[c]) =>
         Within(c, got[c], "item") /\ (user[c] # None => user[c] = got[c])
    /\ ~moved[c] /\ token[c] # None /\ Known(c, token[c]) => Within(c, token[c], "token")
=============================================================================
