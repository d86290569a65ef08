------------------------------ MODULE VaultCache ------------------------------
(***************************************************************************)
(* The cached copy of the vault and the operations that write the vault    *)
(* (VaultManager in src/src/vault/mod.rs, the item and folder handlers of  *)
(* src/src/vault/handlers.rs, the tools of src/src/mcp_server.rs).         *)
(*                                                                         *)
(* Vaultwarden holds the ciphers and the folders.  VaultManager caches the *)
(* ciphers (items) and a folder index, and AppState the id of the folder   *)
(* the proxy owns (cached_folder_id).  An operation reads what it needs    *)
(* from the caches, sends one whole cipher to Vaultwarden, and most then   *)
(* refresh the caches with a full sync.  Nothing serialises operations or  *)
(* syncs, and a PUT carries no revision.                                   *)
(*                                                                         *)
(* Operations that come over HTTP check that their item is in the proxy's  *)
(* folder and sync when they are done; the tools of the MCP server, the    *)
(* write-back of a rotated secret and the notes of the credential audit    *)
(* use the same functions without the check, and some without a sync.      *)
(*                                                                         *)
(* A secret is named by the number of the write that made it.  Ciphers and *)
(* folders have the ids 1, 2, ..., in the order of their creation.         *)
(***************************************************************************)
EXTENDS Naturals

CONSTANTS
  Task,         \* the tasks that run operations
  Jobs,         \* the operations they run: records with op, http, arguments
  MaxJobs,      \* bound: the operations begun, refreshes apart
  Name,         \* names of ciphers
  FolderName,   \* names of folders
  Vault,        \* vault_folder, the name of the proxy's folder
  Part,         \* the secrets of a cipher: its password, notes, fields
  MaxItems,     \* bound: the ciphers that ever exist
  MaxFolders,   \* bound: the folders that ever exist
  MaxOutside,   \* bound: the changes other clients make in Vaultwarden
  Faults,       \* may requests fail and tasks be dropped?
  None

Item   == 1..MaxItems
Folder == 1..MaxFolders
Maybe(S) == S \union {None}
Cipher == [name : Name, folder : Maybe(Folder), secret : [Part -> Nat]]
\* What /api/sync replies.
Reply  == [ciphers : [Item -> Maybe(Cipher)], folders : [Folder -> Maybe(FolderName)]]

Ops == {"update", "delete", "upsert", "create", "clone", "move", "file",
        "ensure", "rmdir", "sync"}

ASSUME VaultAssumption == Vault \in FolderName
\* A job has the arguments of its operation.
ASSUME JobsAssumption ==
  \A j \in Jobs :
    /\ j.op \in Ops /\ j.http \in BOOLEAN
    /\ j.op \in {"upsert", "ensure"} => ~j.http
    /\ j.op = "rmdir" => j.http /\ j.folder \in Folder
    /\ j.op \in {"update", "delete", "clone", "move", "file"} => j.item \in Item
    /\ j.op \in {"clone", "move", "create"} => j.folder \in Maybe(Folder)
    /\ j.op \in {"update", "upsert"} => j.part \in Part
    /\ j.op \in {"upsert", "create", "clone"} => j.name \in Name
    /\ j.op \in {"file", "ensure"} => j.fname \in FolderName
ASSUME NoneAssumption ==
  None \notin Item \union Folder \union FolderName \union Cipher \union Reply \union Jobs
ASSUME BoundsAssumption ==
  /\ MaxJobs \in Nat /\ MaxOutside \in Nat /\ MaxItems \in Nat /\ MaxFolders \in Nat
  /\ MaxItems >= 2 /\ MaxFolders >= 2 /\ Faults \in BOOLEAN

VARIABLES
  \* Vaultwarden
  ciphers, folders,      \* by id: a cipher or None, a name or None
  made,                  \* the last ids it gave out
  writes,                \* how many secrets have been written
  \* the caches
  items,                 \* VaultManager.items
  index,                 \* VaultManager.folders, by name
  cachedFolder,          \* AppState.cached_folder_id
  recent,                \* is last_resync_unix less than 30 seconds old?
  \* the tasks
  pc, job,
  copy, id,              \* the cipher read from the cache, and its id
  dest,                  \* the folder id found
  snap,                  \* the reply of /api/sync being applied
  \* bounds and history
  jobs, outside,
  renamed,               \* has another client renamed a folder of the name Vault?
  intended,              \* the ciphers if every write changed only its part
  behind                 \* have the caches missed a change by another client, or
                         \* a sync that failed or was cut off, and has no operation
                         \* ended with a sync since?

serverVars == <<ciphers, folders, made, writes, intended>>
cacheVars  == <<items, index, cachedFolder, recent>>
localVars  == <<job, copy, id, dest, snap>>
boundVars  == <<jobs, outside, behind, renamed>>
vars == <<serverVars, cacheVars, pc, localVars, boundVars>>

Place == {"idle", "guard", "scope", "find", "mkdir", "read", "write", "load",
          "stamp", "fetch", "items", "index", "clear"}

LocalsOK ==
  /\ pc \in [Task -> Place] /\ job \in [Task -> Maybe(Jobs)]
  /\ copy \in [Task -> Maybe(Cipher)] /\ id \in [Task -> Maybe(Item)]
  /\ dest \in [Task -> Maybe(Folder)] /\ snap \in [Task -> Maybe(Reply)]

TypeOK ==
  /\ ciphers \in [Item -> Maybe(Cipher)]
  /\ folders \in [Folder -> Maybe(FolderName)]
  /\ made \in [items : Item, folders : Folder] /\ writes \in Nat
  /\ items \in [Item -> Maybe(Cipher)]
  /\ index \in [FolderName -> Maybe(Folder)]
  /\ cachedFolder \in Maybe(Folder) /\ recent \in BOOLEAN
  /\ LocalsOK
  /\ jobs \in 0..MaxJobs /\ outside \in 0..MaxOutside
  /\ intended \in [Item -> Maybe(Cipher)] /\ behind \in BOOLEAN /\ renamed \in BOOLEAN
-----------------------------------------------------------------------------
Named(fs, name) == {f \in Folder : fs[f] = name}

\* The folder indexes a list of folders gives: of the folders with one name
\* the last one listed wins, and the order of the list is not known.
Indexes(fs) ==
  {x \in [FolderName -> Maybe(Folder)] :
     \A n \in FolderName :
       x[n] \in IF Named(fs, n) = {} THEN {None} ELSE Named(fs, n)}

\* The proxy's folder with cipher 1 and another one with cipher 2, all in the
\* caches: VaultManager::new ends with a sync.
Init ==
  /\ \E name \in Name, other \in FolderName \ {Vault} :
       /\ ciphers = [i \in Item |->
            IF i > 2 THEN None
            ELSE [name |-> name, folder |-> i, secret |-> [p \in Part |-> 0]]]
       /\ folders = [f \in Folder |->
            IF f > 2 THEN None ELSE IF f = 1 THEN Vault ELSE other]
  /\ made = [items |-> 2, folders |-> 2] /\ writes = 0
  /\ items = ciphers /\ index \in Indexes(folders)
  /\ cachedFolder = None /\ recent = FALSE
  /\ pc = [t \in Task |-> "idle"] /\ job = [t \in Task |-> None]
  /\ copy = [t \in Task |-> None] /\ id = [t \in Task |-> None]
  /\ dest = [t \in Task |-> None] /\ snap = [t \in Task |-> None]
  /\ jobs = 0 /\ outside = 0
  /\ intended = ciphers /\ behind = FALSE /\ renamed = FALSE

Goto(t, place) == pc' = [pc EXCEPT ![t] = place]

Set(var, t, value) == [var EXCEPT ![t] = value]

\* The operation returns, with a result or an error.
End(t) ==
  /\ Goto(t, "idle")
  /\ job' = Set(job, t, None) /\ copy' = Set(copy, t, None)
  /\ id' = Set(id, t, None) /\ dest' = Set(dest, t, None)
  /\ snap' = Set(snap, t, None)

\* Mutant: an update is not followed by a sync.
SyncsNewItems(j) == j.op \notin {"update", "delete", "move"}

\* Does the operation sync after its write?  update and delete leave it to
\* their HTTP handlers, like create; the others do it themselves.
Syncs(j) == j.http \/ j.op \notin {"update", "delete", "create"}

\* The timer's refresh and the tool of the MCP server: a sync and no more.
IsRefresh(j) == j.op = "sync" /\ ~j.http

\* Where an operation starts behind the checks of its handler.
Core(j) ==
  CASE j.op \in {"file", "ensure", "upsert"} -> "find"
    [] j.op \in {"delete", "rmdir", "create"} -> "write"
    [] j.op = "sync" -> "fetch"
    [] OTHER -> "read"

Begin(t, j) ==
  /\ pc[t] = "idle"
  /\ IF IsRefresh(j) THEN UNCHANGED jobs ELSE jobs < MaxJobs /\ jobs' = jobs + 1
  /\ job' = Set(job, t, j)
  /\ Goto(t, IF ~j.http THEN Core(j)
             ELSE CASE j.op = "sync" -> "load"
                    [] j.op \in {"create", "rmdir"} -> "scope"
                    [] OTHER -> "guard")
  /\ UNCHANGED <<serverVars, cacheVars, copy, id, dest, snap, outside, behind,
                 renamed>>
-----------------------------------------------------------------------------
(* The checks of the HTTP handlers *)

\* get_cipher_by_id, before the folder is resolved.
Guard(t) ==
  /\ pc[t] = "guard"
  /\ LET i == job[t].item IN
       IF items[i] = None THEN End(t)
       ELSE /\ copy' = Set(copy, t, items[i]) /\ id' = Set(id, t, i)
            /\ Goto(t, "scope") /\ UNCHANGED <<job, dest, snap>>
  /\ UNCHANGED <<serverVars, cacheVars, boundVars>>

\* resolve_vault_folder_id: the cached id, or the one the index has now.  The
\* index is read under the write lock of the cached id.
Resolved == IF cachedFolder # None THEN cachedFolder ELSE index[Vault]

\* What the handler refuses: an item of another folder, or of none, and the
\* deletion of the proxy's own folder.  When the proxy's folder is not found
\* nothing is refused.
Refused(t) ==
  /\ Resolved # None
  /\ CASE job[t].op = "rmdir"  -> job[t].folder = Resolved
       [] job[t].op = "create" -> FALSE
       [] OTHER                -> copy[t].folder # Resolved

\* An update goes on with the cipher read by Guard, the others read again;
\* a new item goes to the folder resolved here.
Scope(t) ==
  /\ pc[t] = "scope"
  /\ cachedFolder' = Resolved
  /\ IF Refused(t) THEN End(t)
     ELSE /\ IF job[t].op = "update"
             THEN Goto(t, "write") /\ UNCHANGED <<copy, id, dest>>
             ELSE /\ Goto(t, Core(job[t]))
                  /\ copy' = Set(copy, t, None) /\ id' = Set(id, t, None)
                  /\ dest' = Set(dest, t, IF job[t].op = "create" THEN Resolved
                                                                 ELSE None)
          /\ UNCHANGED <<job, snap>>
  /\ UNCHANGED <<serverVars, items, index, recent, boundVars>>
-----------------------------------------------------------------------------
(* VaultManager *)

FolderSought(j) == IF j.op = "upsert" THEN Vault ELSE j.fname

\* ensure_folder_by_name creates a missing folder, upsert fails.
Find(t) ==
  /\ pc[t] = "find"
  /\ LET f == index[FolderSought(job[t])] IN
       IF (f = None /\ job[t].op = "upsert") \/ (f # None /\ job[t].op = "ensure")
       THEN End(t)
       ELSE /\ dest' = Set(dest, t, f)
            /\ Goto(t, IF f = None THEN "mkdir" ELSE "read")
            /\ UNCHANGED <<job, copy, id, snap>>
  /\ UNCHANGED <<serverVars, cacheVars, boundVars>>

\* The cached ciphers an operation may find: by id, or for an upsert by name
\* within the folder, in the order of a hash map.
Candidates(t) ==
  {i \in Item : /\ items[i] # None
                /\ IF job[t].op = "upsert"
                   THEN items[i].name = job[t].name /\ items[i].folder = dest[t]
                   ELSE i = job[t].item}

\* The folder a move, a clone or a new item goes to.
Target(t) ==
  IF job[t].op \in {"move", "clone"} \/ (job[t].op = "create" /\ ~job[t].http)
  THEN job[t].folder ELSE dest[t]

\* The cached cipher the operation works on.  Moving to where the item is
\* already is done at once; an upsert that finds nothing creates.
Read(t) ==
  /\ pc[t] = "read"
  /\ \/ \E i \in Candidates(t) :
          IF job[t].op \in {"move", "file"} /\ items[i].folder = Target(t)
          THEN End(t)
          ELSE /\ copy' = Set(copy, t, items[i])
               /\ id' = Set(id, t, i)
               /\ Goto(t, "write") /\ UNCHANGED <<job, dest, snap>>
     \/ /\ Candidates(t) = {}
        /\ IF job[t].op = "upsert"
           THEN Goto(t, "write") /\ UNCHANGED localVars
           ELSE End(t)
  /\ UNCHANGED <<serverVars, cacheVars, boundVars>>

\* A write has succeeded.
Written(t) ==
  IF Syncs(job[t]) THEN Goto(t, "fetch") /\ UNCHANGED localVars ELSE End(t)

\* What the operation makes of a cipher.
Edited(t, c) ==
  IF job[t].op \in {"move", "file"} THEN [c EXCEPT !.folder = Target(t)]
  ELSE [c EXCEPT !.secret[job[t].part] = writes + 1]

IsPut(t)  == id[t] # None /\ job[t].op \in {"update", "upsert", "move", "file"}
IsPost(t) == job[t].op \in {"create", "clone"} \/ (job[t].op = "upsert" /\ id[t] = None)

FolderThere(f) == f \in Maybe({g \in Folder : folders[g] # None})

\* Vaultwarden refuses to change what it no longer has, to put a cipher into
\* a folder it does not have, and to delete a folder that has ciphers.
Accepts(t) ==
  IF pc[t] = "mkdir" THEN made.folders < MaxFolders
  ELSE /\ IsPut(t) => ciphers[id[t]] # None /\ FolderThere(Edited(t, copy[t]).folder)
       /\ IsPost(t) => made.items < MaxItems /\ FolderThere(Target(t))
       /\ job[t].op = "delete" => ciphers[job[t].item] # None
       /\ job[t].op = "rmdir" =>
            /\ folders[job[t].folder] # None
            /\ \A i \in Item : ciphers[i] # None => ciphers[i].folder # job[t].folder

\* create_folder, and then a sync.
MakeFolder(t) ==
  /\ pc[t] = "mkdir" /\ Accepts(t)
  /\ LET f == made.folders + 1 IN
       /\ made' = [made EXCEPT !.folders = f]
       /\ folders' = Set(folders, f, job[t].fname)
       /\ dest' = Set(dest, t, f)
  /\ Goto(t, "fetch")
  /\ UNCHANGED <<ciphers, writes, intended, cacheVars, job, copy, id, snap,
                 boundVars>>

\* update_cipher sends the whole cipher, as it was in the cache when it was
\* read, with the operation's change.
Put(t) ==
  /\ pc[t] = "write" /\ IsPut(t) /\ Accepts(t)
  /\ ciphers' = Set(ciphers, id[t], Edited(t, copy[t]))
  /\ intended' = Set(intended, id[t], Edited(t, intended[id[t]]))
  /\ writes' = writes + 1
  /\ Written(t)
  /\ UNCHANGED <<folders, made, cacheVars, boundVars>>

\* create_cipher: a clone has the secrets of the cached original.
Post(t) ==
  /\ pc[t] = "write" /\ IsPost(t) /\ Accepts(t)
  /\ LET i == made.items + 1
         new == [name   |-> job[t].name,
                 folder |-> Target(t),
                 secret |-> IF job[t].op = "clone" THEN copy[t].secret
                            ELSE [p \in Part |-> writes + 1]]
     IN /\ made' = [made EXCEPT !.items = i]
        /\ ciphers' = Set(ciphers, i, new)
        /\ intended' = Set(intended, i, new)
        /\ writes' = writes + 1
  /\ Written(t)
  /\ UNCHANGED <<folders, cacheVars, boundVars>>

Delete(t) ==
  /\ pc[t] = "write" /\ job[t].op = "delete" /\ Accepts(t)
  /\ ciphers' = Set(ciphers, job[t].item, None)
  /\ intended' = Set(intended, job[t].item, None)
  /\ Written(t)
  /\ UNCHANGED <<folders, made, writes, cacheVars, boundVars>>

RemoveFolder(t) ==
  /\ pc[t] = "write" /\ job[t].op = "rmdir" /\ Accepts(t)
  /\ folders' = Set(folders, job[t].folder, None)
  /\ Written(t)
  /\ UNCHANGED <<ciphers, made, writes, intended, cacheVars, boundVars>>

\* Vaultwarden refuses the write, or the request or its reply is lost.
WriteFails(t) ==
  /\ pc[t] \in {"mkdir", "write"}
  /\ Faults \/ ~Accepts(t)
  /\ End(t)
  /\ UNCHANGED <<serverVars, cacheVars, boundVars>>
-----------------------------------------------------------------------------
(* sync *)

\* POST /vault/resync looks when it last ran, and notes that it runs now.
Load(t) ==
  /\ pc[t] = "load"
  /\ IF recent THEN End(t) ELSE Goto(t, "stamp") /\ UNCHANGED localVars
  /\ UNCHANGED <<serverVars, cacheVars, boundVars>>

Stamp(t) ==
  /\ pc[t] = "stamp"
  /\ recent' = TRUE
  /\ Goto(t, "fetch")
  /\ UNCHANGED <<serverVars, items, index, cachedFolder, localVars, boundVars>>

\* Filing an item goes on after the folder is made.
LastSync(t) == job[t].op # "file" \/ copy[t] # None

\* GET /api/sync; the reply is applied later.
Fetch(t) ==
  /\ pc[t] = "fetch"
  /\ snap' = Set(snap, t, [ciphers |-> ciphers, folders |-> folders])
  /\ Goto(t, "items") /\ behind' = (behind /\ ~LastSync(t))
  /\ UNCHANGED <<serverVars, cacheVars, job, copy, id, dest, jobs, outside, renamed>>

\* Mutant: the map is refilled but not cleared first.
StoreItemsUncleared(t) ==
  /\ pc[t] = "items"
  /\ items' = [i \in Item |-> IF snap[t].ciphers[i] = None THEN items[i]
                                                         ELSE snap[t].ciphers[i]]
  /\ Goto(t, "index")
  /\ UNCHANGED <<serverVars, index, cachedFolder, recent, localVars, boundVars>>

StoreItems(t) ==
  /\ pc[t] = "items"
  /\ items' = snap[t].ciphers
  /\ Goto(t, "index")
  /\ UNCHANGED <<serverVars, index, cachedFolder, recent, localVars, boundVars>>

\* It does so whether or not the sync has worked; every other operation is over,
\* with a warning if it has not.
AfterSync(t) ==
  IF LastSync(t) THEN End(t)
  ELSE Goto(t, "read") /\ snap' = Set(snap, t, None) /\ UNCHANGED <<job, copy, id, dest>>

\* Mutant: the folders of the reply are not indexed.
StoreIndexSkipped(t) ==
  /\ pc[t] = "index"
  /\ IF job[t].op = "sync" /\ job[t].http
     THEN Goto(t, "clear") /\ UNCHANGED localVars
     ELSE AfterSync(t)
  /\ UNCHANGED <<serverVars, items, index, cachedFolder, recent, boundVars>>

StoreIndex(t) ==
  /\ pc[t] = "index"
  /\ index' \in Indexes(snap[t].folders)
  /\ IF job[t].op = "sync" /\ job[t].http
     THEN Goto(t, "clear") /\ UNCHANGED localVars
     ELSE AfterSync(t)
  /\ UNCHANGED <<serverVars, items, cachedFolder, recent, boundVars>>

\* A failed resync may be tried again at once.
FetchFails(t) ==
  /\ pc[t] = "fetch" /\ Faults
  /\ recent' = (recent /\ ~(job[t].op = "sync" /\ job[t].http))
  /\ AfterSync(t) /\ behind' = TRUE
  /\ UNCHANGED <<serverVars, items, index, cachedFolder, jobs, outside, renamed>>

\* After a resync the proxy's folder is resolved again.
Clear(t) ==
  /\ pc[t] = "clear"
  /\ cachedFolder' = None
  /\ End(t)
  /\ UNCHANGED <<serverVars, items, index, recent, boundVars>>
-----------------------------------------------------------------------------
(* The rest of the world *)

\* A handler whose client has gone is dropped at an await; the background
\* refresh is a task of its own.
Cancel(t) ==
  /\ Faults /\ pc[t] # "idle" /\ ~IsRefresh(job[t])
  /\ End(t) /\ behind' = (behind \/ pc[t] \in {"fetch", "items", "index"})
  /\ UNCHANGED <<serverVars, cacheVars, jobs, outside, renamed>>

Cooldown ==
  /\ recent /\ recent' = FALSE
  /\ UNCHANGED <<serverVars, items, index, cachedFolder, pc, localVars,
                 boundVars>>

\* A reload of services.toml has the proxy's folder resolved again too.
Reload ==
  /\ cachedFolder # None /\ cachedFolder' = None
  /\ UNCHANGED <<serverVars, items, index, recent, pc, localVars, boundVars>>

\* Another client of Vaultwarden changes a secret, or renames a folder.
OutsideEdit(i, p) ==
  /\ outside < MaxOutside /\ outside' = outside + 1 /\ behind' = TRUE
  /\ ciphers[i] # None
  /\ ciphers' = [ciphers EXCEPT ![i].secret[p] = writes + 1]
  /\ intended' = [intended EXCEPT ![i].secret[p] = writes + 1]
  /\ writes' = writes + 1
  /\ UNCHANGED <<folders, made, cacheVars, pc, localVars, jobs, renamed>>

OutsideRename(f, n) ==
  /\ outside < MaxOutside /\ outside' = outside + 1 /\ behind' = TRUE
  /\ folders[f] \notin {None, n}
  /\ folders' = Set(folders, f, n) /\ renamed' = (renamed \/ folders[f] = Vault)
  /\ UNCHANGED <<ciphers, made, writes, intended, cacheVars, pc, localVars, jobs>>

Step(t) ==
  \/ Guard(t) \/ Scope(t) \/ Find(t) \/ Read(t) \/ WriteFails(t)
  \/ MakeFolder(t) \/ Put(t) \/ Post(t) \/ Delete(t) \/ RemoveFolder(t)
  \/ Load(t) \/ Stamp(t) \/ Fetch(t) \/ FetchFails(t)
  \/ StoreItems(t) \/ StoreIndex(t) \/ Clear(t)

Next ==
  \/ \E t \in Task : (\E j \in Jobs : Begin(t, j)) \/ Step(t) \/ Cancel(t)
  \/ Cooldown \/ Reload
  \/ \E i \in Item, p \in Part : OutsideEdit(i, p)
  \/ \E f \in Folder, n \in FolderName : OutsideRename(f, n)

Spec == Init /\ [][Next]_vars

\* With --vault-refresh-interval-secs a timer starts syncs for ever; tasks run,
\* and Vaultwarden does not fail to answer a sync every time it is asked.
Fairness ==
  \A t \in Task :
    /\ WF_vars(\E j \in Jobs : IsRefresh(j) /\ Begin(t, j))
    /\ WF_vars(Step(t))
    /\ SF_vars(Fetch(t))

FairSpec == Spec /\ Fairness
-----------------------------------------------------------------------------
(* Properties *)

Quiet == \A t \in Task : pc[t] = "idle"

\* Every write changes the part of the cipher it is about and brings back no
\* older state of the rest: what Vaultwarden has is what the operations meant.
\* One operation at a time keeps this because each one syncs after its write,
\* and after a failure the next sync makes up for it.
NothingReverted ==
  [][\A i \in Item : ~behind /\ ciphers[i] = intended[i] => ciphers'[i] = intended'[i]]_vars

\* Between operations the caches show what Vaultwarden has, unless a failure or
\* another client has left them behind and nothing has been fetched since.
CacheCurrent == Quiet /\ ~behind => items = ciphers /\ index \in Indexes(folders)

\* ensure_folder_by_name makes no second folder with a name that exists.
NoDuplicateFolder ==
  [][~behind /\ made'.folders > made.folders =>
       \A f \in Folder : folders[f] # folders'[made'.folders]]_vars

\* The proxy has the folder it started with.
VaultKept == ~renamed /\ folders[1] = Vault

\* An operation that came over HTTP writes and deletes only ciphers that
\* Vaultwarden has in the proxy's folder, although it checks the cached copy,
\* as long as nobody renames that folder, whose id is kept, or deletes it.
ScopedWrites ==
  [][\A t \in Task, i \in Item :
       /\ pc[t] = "write" /\ pc'[t] # "write" /\ job[t].http
       /\ ~behind /\ VaultKept
       /\ ciphers[i] # None /\ ciphers'[i] # ciphers[i]
       => ciphers[i].folder \in Named(folders, Vault)]_vars

\* A write is about what it was asked for: it brings nothing back, makes no
\* folder twice, and stays in the proxy's folder if it came over HTTP.
WritesSound == NothingReverted /\ NoDuplicateFolder /\ ScopedWrites

\* What an operation has at the places it comes to.
UnderWay ==
  \A t \in Task :
    /\ pc[t] # "idle" => job[t] \in Jobs
    /\ pc[t] \in {"items", "index", "clear"} => snap[t] # None
    /\ id[t] # None => copy[t] # None
    /\ pc[t] \in {"idle", "find", "read"} => id[t] = None
    /\ pc[t] \in {"load", "stamp"} => job[t].op = "sync"
    /\ pc[t] \in {"guard", "scope"} => job[t].http
    /\ pc[t] = "guard" => job[t].op \notin {"create", "rmdir", "sync", "upsert", "ensure"}
    /\ pc[t] = "scope" =>
         /\ job[t].op \notin {"sync", "upsert", "ensure"}
         /\ job[t].op \in {"create", "rmdir"} \/ id[t] = job[t].item
    /\ pc[t] = "find" => job[t].op \in {"file", "ensure", "upsert"}
    /\ pc[t] = "mkdir" => job[t].op \in {"file", "ensure"}
    /\ pc[t] = "read" => job[t].op \in {"update", "upsert", "clone", "move", "file"}
    /\ pc[t] = "write" =>
         /\ job[t].op \notin {"sync", "ensure"}
         /\ job[t].op \in {"update", "clone", "move", "file"} => id[t] = job[t].item

\* A cipher has an id that was given out and is in a folder that is there.
CiphersGiven ==
  \A i \in Item : /\ ciphers[i] = None <=> intended[i] = None
                  /\ i > made.items => ciphers[i] = None
                  /\ ciphers[i] # None => FolderThere(ciphers[i].folder)

\* So has a folder, and an id kept for one.
FoldersGiven ==
  /\ \A f \in Folder : f > made.folders => folders[f] = None
  /\ \A n \in FolderName : index[n] # None => index[n] <= made.folders
  /\ cachedFolder # None => cachedFolder <= made.folders
  /\ \A t \in Task : snap[t] # None =>
       \A f \in Folder : f > made.folders => snap[t].folders[f] = None

IdsGiven == CiphersGiven /\ FoldersGiven

\* As long as nobody renames the proxy's folder, the ids kept for it lead to a
\* folder of its name, or to one that is gone.
VaultFound ==
  /\ ~renamed => folders[1] \in {Vault, None}
  /\ VaultKept =>
       /\ index[Vault] # None /\ folders[index[Vault]] \in {Vault, None}
       /\ cachedFolder # None => folders[cachedFolder] \in {Vault, None}
       /\ \A t \in Task : snap[t] # None =>
            /\ snap[t].folders[1] = Vault
            /\ \A f \in Folder : snap[t].folders[f] = Vault => folders[f] \in {Vault, None}

\* Has its folder been checked and its write not been sent?
Checked(t) ==
  \/ pc[t] \in {"find", "mkdir", "read", "write"}
  \/ pc[t] \in {"fetch", "items", "index"} /\ ~LastSync(t)

\* What one operation at a time knows of Vaultwarden.
ReadCurrent ==
  \A t \in Task : ~behind =>
    /\ pc[t] \in {"items", "index"} => snap[t].ciphers = ciphers /\ snap[t].folders = folders
    /\ pc[t] \notin {"fetch", "items"} => items = ciphers
    /\ pc[t] \notin {"fetch", "items", "index"} => index \in Indexes(folders)
    /\ pc[t] \in {"scope", "write"} /\ id[t] # None => copy[t] = ciphers[id[t]]
    /\ pc[t] = "mkdir" => index[job[t].fname] = None
    /\ VaultKept /\ Checked(t) /\ job[t].http
         /\ job[t].op \in {"update", "delete", "move", "file"}
         /\ ciphers[job[t].item] # None
       => ciphers[job[t].item].folder \in Named(folders, Vault)

\* The caches between operations, and during one.
CacheInv ==
  TypeOK /\ CacheCurrent /\ UnderWay /\ IdsGiven /\ VaultFound /\ ReadCurrent

\* move_cipher_to_folder "preserves all encrypted fields byte-for-byte; only
\* folder_id changes".
MoveKeepsSecrets ==
  [][\A t \in Task :
       pc[t] = "write" /\ pc'[t] # "write" /\ job[t].op \in {"move", "file"}
         => \A i \in Item : ciphers'[i] # None => ciphers'[i].secret = ciphers[i].secret]_vars

\* The background refresh closes the staleness window: when nobody writes any
\* more, the caches show what Vaultwarden has for ever.
Converges == <>[](items = ciphers /\ index \in Indexes(folders))
=============================================================================
