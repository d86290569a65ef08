# VaultProxy in TLA+

VaultProxy (`src/`, a Rust program) stands between agents and the services they
use: it keeps the credentials in a Vaultwarden vault, injects them into the
requests it forwards, rotates them, and copies items from a Bitwarden cloud
account into the vault. This directory models the parts of it whose correctness
depends on the order in which things happen, checks them with TLC, and proves
what matters most with TLAPS.

Almost everything in the program is an async task: one per HTTP request, plus
timers, a WebSocket listener and signal handlers. State is shared through
`RwLock`s and `Mutex`es that are held for a few lines, so a task that awaits
anything between two accesses sees the other tasks' changes, and a task whose
client goes away is dropped at the await it stands at. There is no database:
Vaultwarden is the store, everything else is a cache or a small file.

Contents: [Components](#components) ·
[Hard behaviours](#hard-behaviours) ·
[Plan](#plan) ·
[Modules](#modules) ·
[Runs](#runs) ·
[Proofs](#proofs) ·
[Disagreements](#where-the-code-and-its-comments-disagree) ·
[Not modelled](#what-is-not-modelled)

## Components

Paths are below `src/src/`. "Correct when" says what a property of the component
is about; the modules that exist are named in bold.

| Component | State it keeps | Operations | Correct when |
| --- | --- | --- | --- |
| Vault session, `vault/mod.rs` (**VaultSession**, **RetryOnce**) | access token, refresh token, expiry, `reauth_mutex` | `authed_request`, `maybe_proactive_refresh`, `reauth` | one exchange at a time; the stored refresh token is the one the server accepts; a request is retried at most once and not with the rejected token |
| Vault cache, `vault/mod.rs`, `vault/handlers.rs` (**VaultCache**) | `items`, `folders`, `cached_folder_id`, `last_resync_unix` | create, update, delete, upsert, clone, move, ensure/delete folder, sync, resync | a write reverts nothing; the caches follow the vault; handlers touch only the proxy's folder |
| Injecting proxy, `proxy/mod.rs` (**ProxyTokens**, **RetryOnce**) | token cache per item, lock per item, session token cache | `handle_proxy`, `apply_auth_and_send`, client-credentials and refresh-token grants, session login | a rotated refresh token is never lost; one exchange per item at a time; at most one retry |
| Service registry, `proxy/registry.rs`, `vault/handlers.rs`, `main.rs` (**ServiceReload**) | registry, CA clients, transparent lookup tables | reload over HTTP, SIGHUP | registry and CA clients are of one file; overlapping reloads do not mix |
| Service file, `proxy/registry.rs`, `proxy/transparent/registry.rs`, `main.rs` (**ServiceFile**) | `services.toml`, the registry by name, the listener's exact and wildcard hosts | reload, SIGHUP, start, `--check`, lookup | a request goes to the service the file names for its host, whatever duplicates, refused entries and the cap; `--check` says what a start would accept |
| Cloud sync, `sync/`, `main.rs` (**CloudSync**) | cloud cache, id map and its backups, sync permit | full sync, WebSocket notifications, polling | each cloud item has one copy in the vault; deletions arrive; nothing older overwrites |
| Browser rotation, `browser/`, `dashboard/api.rs`, `playwright/agent.py` (**BrowserRotation**) | approval queue; per workflow its step, attempts, new password, agent and pipes | run a workflow step by step, 2FA, approve, deny, list | the password of the site stays known; after a success the vault has it; a workflow ends and finds the request it made |
| Credential rotation, `rotate/`, `hooks.rs`, `cred_cache.rs`, `local_socket.rs` (**CredentialRotation**) | recovery files, the cache behind the local socket, the restarted service | `POST /rotate`, script on the remote host, hook, fetch over the socket | the new password is always somewhere; an older one is never written over it; the socket comes to serve it |
| Session services, `proxy/unifi_session.rs` (**SessionSlots**) | a session slot per service, in a map of bounded size | login, request, re-login, invalidate | a request goes out over a session of the credential it has read |
| Rate limiter, `security/rate_limit.rs` (**RateLimiter**) | a window and a count per route and caller | check, sweep | no window's time lets twice the limit through; nobody else is refused |
| Audit log and its sinks, `security/audit_log.rs`, `audit_sinks*.rs`, `secure.rs` (**AuditTrail**) | list of entries, its file and archive; bounded queue and batch | log, archive, save, load; emit, collect, flush | no entry is lost but to a crash, and then less than one save's worth |
| Access log, `access_log.rs` (**AccessLog**) | key file; file of chained HMACs | open, record, verify | the chain verifies whatever crashes between two writes |
| Credential audit, `credential_audit/` (**CredentialAudit**) | runs and findings in SQLite, active set; markers in the vault | start scan, store verdicts, apply, clean up at start | only a completed run has verdicts; what counts as applied is marked |
| Keystore, `keystore.rs`, `tpm.rs`, `main.rs` (**Keystore**) | five key files, sealed or encrypted | setup, unlock, seal, update, reset, boot | a crash between two files leaves a keystore that unlocks |
| Transparent proxy, `proxy/transparent/` (**TransparentProxy**) | tables per listener, shared HTTP/2 connection | CONNECT, look-up, injection, resend, reload | a request is sent again only as often as an attempt at it has failed |
| MCP bridge, `mcp_rpc_bridge/` (**BridgeToken**) | current token and its age | line, fetch, 401 and retry | it is refused only for a reason upstream of it |
| Mount helper, `bin/mount_helper.rs`, `vault/smb.rs` (**MountHelper**) | credential files, fstab, mounts | mount, unmount | fstab has the administrator's lines and what was asked for |
| Credential use, `vault/handlers.rs` (**CredentialUse**, **EnvFile**) | folder id cache; a file of variables | `test_credential`, `inject_creds`, `write_env`, `generate_totp`, `decrypt_notes` | only items of the proxy's folder are used; no line of the file is lost |
| Dashboard, `dashboard/`, `main.rs` (**DashboardLogin**, **DashboardSettings**) | password on disk and in memory, sessions, attempts; permissions, credentials | setup, configure, login, unlock, reset; save permissions and credentials; the phases of a start | guesses are bounded; the passwords agree; what is saved is kept |
| Cloud session, `sync/cloud.rs`, `main.rs`, `vault/handlers.rs` (**CloudSession**) | cloud client with its token and keys; notification socket | connect, call with one retry, re-authenticate, `/sync/init`, `/sync/totp` | the keys are those of the account that was synced; notifications come back |
| Launcher, `launcher.rs` (**Launcher**) | none of its own: the vault's item, the controller's keys, the child | launch over the socket, or in full with a new key | one key is made; a child has a key that is accepted |
| Others | | | notifications, HIBP audit, setup on the terminal and templates, internal tokens and bearer checks, policy predicates, crypto, MCP dispatcher, pages (see [Not modelled](#what-is-not-modelled)) |

How they interact. `proxy`, `rotate`, `sync`, `browser`, `credential_audit`,
`launcher` and the HTTP handlers all call `VaultManager`: their requests share one
token pair (VaultSession) and their reads and writes share one cache (VaultCache).
The proxy reads the registry and the CA clients, which a reload swaps; it writes
rotated refresh tokens back into the vault. Rotation and the browser workflow write
the vault and then a service, or the other way round. Cloud sync writes the vault as
one more client. The refresh repairs the cache, where its timer is set. Two
processes stand outside: the bridge and the launcher take credentials from the daemon's local socket, whose
own cache follows the vault with a delay; the mount helper runs as root and outlives
the request that has started it. The audit log, the access log and the rate limiter
are called by everything and call nothing.

## Hard behaviours

The list with source lines is `hazards` in `PROJECT.json`. In short:

- *read, await, write*: the token that was compared is not the one that was rejected;
  a whole cipher that was cached is sent back; a check of a folder or a cooldown is
  used after it was true;
- *single-use tokens*: an exchange that succeeded and whose reply, or whose
  write-back, is lost;
- *replies out of order*: two syncs, two reloads, two saves of the same file;
- *dropped futures*: a handler's task ends at any await, with locks released and
  half of its writes done;
- *partial failure*: the write succeeded and the sync, the hook, the map file or the
  second store did not;
- *timeouts*: a polling loop inside a shorter timeout; a late approval;
- *tables at their limit*: the approval queue, the session token cache, the UniFi
  slots, the rate limiter's callers, the dashboard's sessions;
- *files replaced one by one*: five files of a keystore, credentials and fstab, a log
  and its archive; a crash between two of them, or two writers of one temporary file;
- *caches of caches*: a token goes from Vaultwarden to the items, to the socket's
  cache, to the bridge, each with its own timer, the first of which is off by default;
- *processes that started differently*: a dashboard that was there before the server,
  listeners with tables of their own, a client of the cloud made by a handler.

## Plan

Most important first: what every other part stands on, then what can lose a
credential, then the rest.

1. **VaultSession** with the abstract contract **RetryOnce**: every access to
   Vaultwarden goes through it. Done, proved.
2. **VaultCache**: every reader and writer of credentials goes through it. Done,
   proved.
3. **ProxyTokens**: the second user of RetryOnce; reads and writes the cache. Done,
   proved.
4. **ServiceReload**: what the proxy is configured with. Done, proved.
5. **CloudSync**: the one client of VaultManager that runs by itself. Done, proved.
6. **BrowserRotation**: a workflow with its steps, retries and timeouts, the agent
   behind its pipes, the approval queue and the dashboard's answers. Done, proved.
7. **SessionSlots** and **CredentialRotation**: credentials that change while
   requests and services hold the old ones. Done, proved.
8. **AuditTrail** and **AccessLog**: what must survive a crash. Done, proved.
9. **CredentialAudit**, **TransparentProxy**, **Keystore**, **MountHelper**,
   **RateLimiter**. Done, proved. **BridgeToken**. Done, model-checked: what it
   promises is liveness.
10. **CredentialUse** and **EnvFile**, **DashboardLogin** and **DashboardSettings**,
    **CloudSession**, **Launcher**. Done, proved.
11. **ServiceFile**: what an entry of `services.toml` comes to. Done, model-checked.
12. Left: the checks of `handle_proxy` in front of a request (permission, path,
    method) as pure operators; unlocking with an AppRole; the second copy of the
    folder list; the temporary SyncManagers of `/sync/init` beside the one that runs.

Composition. VaultSession and ProxyTokens both implement RetryOnce, which is the
interface the other modules assume of "a request": it takes place once, or fails.
VaultCache therefore has one action per request. CloudSync uses Vaultwarden's
answers only, like VaultCache's operations `update`, `create` and `delete`.

The later components share no state with one another, so nothing is gained by
exploring their interleavings: `Components` and `MCLiveness` put them side by side
(see [Runs](#runs)), and the theorems about them are stated of `Components`.

No theorem is planned any more about the components modelled so far: what is left
unproved needs fairness or induction (see the end of [Proofs](#proofs)). Those that
come with item 12 should be proved as the present ones are.

## Modules

Every module says in its head which source it models; `map` in `PROJECT.json`
gives the lines of each definition. A definition called *Mutant* in its comment
is a plausible bug, which a run must detect when it takes the place of the
definition after it; nothing else uses it. An `MC...` module instantiates a
module for TLC, one `.cfg` per run.

Four conventions are common to all. `pc` holds the await or the lock at which
a task stands; code between two awaits is one action, unless it takes several locks
that another task may take in between. A lock is a variable that
holds its owner. A dropped future (`Cancel`, `Drop`) releases what it holds and
leaves what it wrote. Payloads are numbers in the order of their making, so that
"older", "stale" and "lost" can be said.

**RetryOnce** is what a request with a cached token promises: an attempt, at
most one more after a rejection and with another token, and an end.

**VaultSession** is the token pair of `VaultManager` (`vault/mod.rs`). `access`,
`refresh` and `expires` are the three locked fields, `holder` is `reauth_mutex`.
A request goes `Begin`, `CheckExpiry` (maybe_proactive_refresh), `ReadToken`,
`Unauthorized`/`Return`; `reauth` goes `Snapshot`, `Acquire`,
`SkipRefresh`/`NoRefreshToken`/`Post`, and after the exchange `StoreAccess`,
`StoreRefresh`, `StoreExpiry`, one await each. Vaultwarden is `gen` and
`serverRT`; an exchange whose task was dropped stays on the wire in `stray`. `lost`
remembers that a grant could not be stored: from then on a password login is
needed, which the code does only when it starts.

**VaultCache** is `items`, `folders` and `cached_folder_id` and the operations of
`vault/mod.rs`, `vault/handlers.rs` and `mcp_server.rs` that write the vault. They
differ in a few points which the fields of a job name (`op`, `http`, the
arguments), so one chain of actions serves all: the handler's checks (`Guard`,
`Scope`), the look-up (`Find`, `Read`), one request (`MakeFolder`, `Put`, `Post`,
`Delete`, `RemoveFolder`), and a sync in four steps (`Fetch`, `StoreItems`,
`StoreIndex`, `Clear`). `intended` is what the vault would hold if each write
changed only the part it is about, `behind` whether a failure or another client has
left the caches behind and no sync has ended since, `renamed` whether somebody has
renamed the folder the proxy started with (folder 1, `VaultKept`), whose id the code
keeps. `UnderWay`, `IdsGiven`, `VaultFound` and `ReadCurrent` say what an operation
has at each of its places; they are what the proof of `CacheCurrent` rests on.

**ProxyTokens** is one service and its vault item in `proxy/mod.rs`: the cached
token, the lock per item, the exchange, the write-back, the 401 and its one
retry; `kind` is the auth pattern. `vaultRT` and `itemRT` are the refresh token in
Vaultwarden and in `VaultManager.items`: `SyncFetch`/`SyncStore` copy the first to
the second.

**ServiceReload** is `reload_services`, the SIGHUP task and the rebuild of the
transparent listener, over the versions of `services.toml`.

**ServiceFile** gives the file its contents and makes each reload one step. An entry
is a record of what the checks of `from_toml_file` tell apart (a host is the sequence
of its labels, a key is there or not, empty or climbing), and `Valid` has one conjunct
per check. `Register` and `Capped` make the registry, `Build` the listener's table in
any order of the HashMap, `Lookup` answers a host. The properties compare these with
`InForce`, which says without any of them which entries of a file count.

**CloudSync** is `SyncManager`, the notification and polling tasks of `main.rs`,
and the map file with its backups. `cloudHolder`, `mapHolder` and `permit` are the
two locks and the semaphore. (The cloud lock is a read-write lock that full syncs
take for reading when they write copies; as the permit allows one full sync at a
time and all else takes it for writing, it is modelled as exclusive.) The
Bitwarden cloud is `cloud` and the notifications `wire`; Vaultwarden is `copies`.
`orphaned` and `missed` remember the failures, crashes and races after which the
code promises less, so that the properties can say exactly when they hold. A
deleted cipher counts as gone, in the cloud and in Vaultwarden, although both
services keep it in a trash for a while: the code never reads `deletedDate`, and
`delete_item` in `vault/handlers.rs` relies on a deleted cipher being absent.
At first the mirror is empty or complete. `UnderWay`, `MapLeads` and `Repaired` say
how the copies, the map, what is being written and what waits on the wire fit
together; from them follow `OneCopy` and `MirrorFollows`.

**BrowserRotation** is `RotationWorkflow`, `PlaywrightProcess`, the agent in
`playwright/agent.py`, the approval queue with the two handlers of `dashboard/api.rs`,
and as much of the vault as a workflow touches. All workflows rotate one item, as
nothing in the code keeps two of them apart. `step` and `attempts` are the fields of
`WorkflowState`; `at` is the await at which `execute_step` stands, `goal` the part of
`step_handle_2fa` it is in. Each step is the same few actions: `BeginStep`,
`ReadScreenshot`, `Look` (the vision model), `ReadReply`, `ReadTyped`, `Wake`, ending
in `StepDone` or `StepFails`; `CommandFor`, `FieldOf` and `ButtonOf` say what differs.
`inbox` and `outbox` are the pipes: when a step is cut off its command stays in
them, as `send` has no number by which a reply could be told. `tab` is the page of
the site and what is typed into it. `fresh` is `new_password`, `cached`
and `vault` the password in `VaultManager.items` and in Vaultwarden, `site` the one of
the site. `crowded` and `trouble` remember what excuses a lost request and a lost
password, so that the properties can say when they hold. The vision model is
truthful, sees nothing, or fails; a site has a full profile or none; its page is
external, and its form may stay on the screen after it has saved. The 2FA code that a
human types is chosen when it is read. Two invariants describe it: `QueueInv` where a
workflow stands, what is in its pipes (`Surplus`) and in the queue, `RotationInv` who
knows which password (`Secret`, `NewOnesOwn`), what is typed and sent (`NewTyped`,
`InStep`, `SaveTried`) and what the page and the vault say of it (`SavedRight`,
`Saver`), of which `PasswordKept` is the last part.

**CredentialRotation** is `POST /rotate` for the two credentials of WI MCP. A call
reads the admin's password (`current`), runs the script on the remote host (`wire`:
it may take effect after its 30 seconds, and after the call was dropped), writes the
vault or else a recovery file named after the second (`Recover`), and fires the hook.
`site` is the password that WI MCP takes. `Fill`, `Expire` and `Purge` are the cache
behind the local socket (`cred`) and the connection that fills it (`asked`, `read`);
`Refresh` is a sync by somebody else, and `timer` whether the daemon makes one by itself,
which it does not unless `--vault-refresh-interval-secs` is set. `unheard` excuses a
password whose script nobody heard of and one whose recovery file could not be made,
because its name is taken or the directory takes no file.

**SessionSlots** is `unifi_session.rs`: the API key alone, then the slot of the
service (`holder`), a session of the request's own credential, one more login. The
credential is read before the slot is waited for; `Cap` is the size of the map, past
which slots are handed out that nobody else can find.

**RateLimiter** is `RateLimiter::check`. Time is kept as ages, so it needs no bound;
`passed` remembers how long ago each request was let through, the oldest first, for a
window's time, whenever the window begins.

**AuditTrail** is `AuditLog::log` by several threads, with `safe_write_config` step by
step: `fd` says which file an open descriptor belongs to after a rename. `lost` is
what crashes have cost; `disturbed` is set by a save that fails or that begins while
another one is pending, after which the file may lack more than it should. The HTTP
sink is `queue` and `batch`.

**AccessLog** is a record as its writes: the line, the newline, the sync, any of
which may be the last before a crash. `LoadKey` and `OpenLog` are the start
afterwards, which reads the last HMAC from the last line that parses.

**CredentialAudit** is scans, `apply` and the clean-up at a start over the tables
`audit_runs` and `audit_run_items`. An item is whether it is in the review folder and
whether it has the marker; each write sends the whole cached item.

**Keystore** is the five files as the key each was made with. A worker's job is the
list of files it has still to write, and the program may end between any two;
`Boot`, `BootSetup`, `PollTpm` and `PollPassword` are the ways to open it. `Opens` and
`Decrypts` are pure: which key is found, and whether it fits `credentials.enc`.

**TransparentProxy** is a connection from CONNECT to the answer; `ReadConnect`,
`Lookup`, `Tls`, `Inject`, then `Shared`, `Fresh` or `Plain`. `table` is what each of
the three listeners has of the registry. An attempt that fails takes the connection with
it; in the code an answer that is too long, or a stream that is reset, fails the attempt
alone, and the request is sent again just the same.

**BridgeToken** is the bridge as one sequential process and the three copies a token
goes through. `stale` says whether something upstream of the bridge excuses a
refusal of the present request. `timer` is the daemon's refresh timer, set or not.

**MountHelper** is one process per request: the credentials, the directory, fstab by
way of a temporary file, `mount`. It may be killed anywhere, and nothing is undone.

**CredentialUse** is the look at the folder and the reads that follow it, each under a
lock of its own, with the steps of a sync between any two. A call by id (`write_env`,
`test_credential`) has the folder of the cipher at `hand` before it awaits the folder's
id (`Resolve`, which compares the two); a call by name has the id at `hand` before it
searches for an item of that name in that folder (`Check`). `inject_creds` does both
twice, for the item it sends and for the one with Home Assistant's token, and then reads
the username, the secret and the token (`ReadUser`, `ReadSecret`, `ReadToken`), finding
each item by its name again. `scope` is the folder with which each check has passed.
`moved` is set by a sync that changes an item a call has looked at, and stays set until
the call ends. **EnvFile** is what `write_env` then does to the file.

**DashboardLogin** is password, sessions and attempts; hashing takes place between
the look at a counter and its increase. `Unlock` tries the key in the TPM (`tpm`) before
the password: with it any password unlocks, clears the failures and is what the loop of
`start_dashboard_only` is given (`unlock`, `Poll`). **DashboardSettings** is what is
saved, by the handlers of whichever dashboard is served: the one that waits for a
password stays after the server has started.

**CloudSession** is the authentication of a cloud client by each kind of credential,
its calls with one retry, its keys, and the notification socket with its backoff.
`aside` is the client that a handler makes for itself.

**Launcher** is a launch over the socket and, on any failure, again in full. It runs
as any number of processes beside a daemon with its own cached items.

## Runs

Distinct states and times are those of two workers on a small machine.

| Run | Instance | Shows |
| --- | --- | --- |
| `session` | 2 tasks, 1 request each; the server may or may not rotate; 123,000 states, 1 min | `RefreshTokenUsable`, the inductive `SessionInv`, the contract `RetriesOnce`, and `RequestsEnd`: every request ends |
| `cache_serial` | 1 task, 3 operations, all that sync, failures anywhere, 1 change by another client; 1,460,000 states, 1 min | the inductive `CacheInv` (with `CacheCurrent`, `ReadCurrent`, `VaultFound`) and `WritesSound` (`NothingReverted`, `NoDuplicateFolder`, `ScopedWrites`): one operation after the other is right, and what a failure leaves behind the next sync makes up for |
| `cache_move` | 1 task, 2 operations | **violation** of `MoveKeepsSecrets` |
| `tokens` | 2 tasks, every auth pattern, faults, one late sync; 97,000 states | the inductive `TokensInv` (with `OneExchangeAtATime`, `VaultHasRefreshToken`), `RefusedOnlyWhenStale`, `RequestsSound` (`CacheGoesForward`, `RetriesOnce`, `RequestsEnd`) |
| `tokens_spent` | 1 task, 2 requests, no fault | **violation** of `NoSpentRefreshToken` |
| `reload` | 2 callers or SIGHUP, 2 edits, 2 reloads each, 3 signals; 70,000 states | the inductive `ReloadInv` (with `RegistryMatchesClients`, `ListenerFollows`), `GoesForward` (`NeverOlder`, `NeverEmptied`), `SignalServed` |
| `reload_mixed` | 1 caller and SIGHUP, 1 edit | **violation** of `RegistryMatchesClients` |
| `sync` | 1 item, 1 collection, 2 changes, 2 failures; 1,740,000 states, 1 min | the inductive `CopiesInv` (with `OneCopy`, `MapLeads`, `AllRepaired`), `MirrorFollows` |
| `browser` | 1 workflow on any of 16 kinds of site, or 2 overlapping ones on the simplest; 1 failure or cut-off step, a queue of 2; 155,000 states, 1 to 2 min | the inductive `QueueInv` (with `AskerFound`, `Surplus`) and `RotationInv` (with `PasswordKept`, `SavedRight`), `SuccessIsTrue`, `WorkflowsEnd` |
| `components` | the 16 parts below; 1,340,000 states, 1 to 2 min | one invariant or two of each part, and the types of all |
| `liveness` | 5 parts under fairness, below; 48,000 states, 1 min | `SocketFollows`, `BridgeServes`, `CacheConverges`, `MirrorConverges`, `SocketReturns` |
| `permissions_locked` | 1 client, 2 calls, the configuration in `/config`, no fault | **violation** of `SavedPermissionsApply` |

Deadlock is not checked: requests, edits and faults are bounded, so every instance
comes to a state where nothing more need happen. That nobody is stuck in the
middle is what `RequestsEnd`, `SignalServed`, `MirrorConverges` and `WorkflowsEnd`
say.

### Several components in one run

`components` and `liveness` each hold several instances. `part` says which one a
behaviour is about; it is chosen at the start and never changes. In `liveness` each
part has variables of its own and the others rest in one initial state. `components`
checks the module **Components**, in which parts that have a variable of one name
share it (`pc`, `faults`, ...), each an INSTANCE of its module; `Unused` and `Resting`
fix the variables that the part of the behaviour does not have. Its constants, with
the assumptions the theorems need, are declared there and given by `MCComponents` and
its configuration; one whose name means something else in another part has a name of its
own (`Task`, `Viewer`, `Quota`, ...). So
the behaviours of a run are those of its parts, one after the other, and a property of
one part says nothing of, and costs nothing in, the behaviours of the rest. That is
sound because these components have no variable in common in the code: where one
appears in another (the vault behind a rotation, Vaultwarden behind the launcher) each
has its own external model of it.

| Part of `components` | Instance | Invariants |
| --- | --- | --- |
| CredentialRotation | 2 calls, the admin's credential served, 1 fault | `AdminPasswordSafe` = `AdminPasswordKept`, `WritesTheLatest` |
| SessionSlots | 2 requests, 2 services, a map of 1, 1 change, 2 faults | `OwnCredential` |
| AuditTrail | 2 threads, 4 entries, a list of 2, saves every 2, 1 fault | `TrailKept` = `HistoryKept`, `Durable` |
| AccessLog | 2 connections, 3 events, 3 faults | `ChainVerifies` |
| RateLimiter | 2 callers, 2 routes, limits 2 and 1, window 2, map of 2 | `LimitsFair` = `BudgetKept`, `RefusedFairly` |
| CredentialAudit | 2 scans, 2 applies, 1 item, 1 fault | `AuditSound` = `VerdictsOfCompletedRuns`, `RefusedOnlyWhenBusy`, `AppliedIsMarked` |
| Keystore | 2 workers, 2 key pairs, 2 seals, 1 fault | `KeystoreOpens` |
| CredentialUse | 1 call, 2 items, 1 change, 1 fault | `UsedInScope` |
| EnvFile | 2 calls, 1 secret, 2 variables, 1 fault | `EnvKept` |
| TransparentProxy | 2 agents, 3 listeners, 1 edit, 1 fault | `SentOncePerFailure` |
| MountHelper | 2 helpers, 2 shares, 1 mount point, 1 fault | `FstabSound` |
| DashboardLogin | 2 clients, 2 passwords, limit 1, window 2, 1 session, 3 calls, 1 fault | `LoginSound` = `GuessesBounded`, `PasswordsAgree` |
| DashboardSettings | 2 clients, 2 calls, 1 fault | `SettingsKept` |
| CloudSession | 1 organization, 3 changes, 1 fault | `OrgKeysFollow` |
| Launcher | 2 launches, 1 change, 1 fault | `LaunchSound` = `OneKeyMade`, `ChildHasKey` |
| ServiceFile | 10 entries of 3 names, 3 edits, at most 2 services, 6 requests | `FileServed` = `RegisteredAsWritten`, `ServedAsWritten`, `CheckTells` |

| Part of `liveness` | Instance | Fairness | Property |
| --- | --- | --- | --- |
| CredentialRotation | 1 call, 1 fault, the refresh timer set or not | weak: calls, the socket's connection, the expiry and the sweep of its cache; the refresh if its timer is set | `SocketFollows` |
| BridgeToken | 2 rotations, 1 fault, the refresh timer set or not | weak: the bridge, its interval, the expiry of the socket's cache; the daemon's sync if its timer is set | `BridgeServes` = `RefusedOnlyWhenStale`, `ServesAgain` |
| VaultCache | a writer and the refresh timer, faults, another client | weak: tasks, the timer; strong: `Fetch` | `CacheConverges` = `Converges` |
| CloudSync | 1 item, 1 change, 1 failure, 3 tasks | weak: tasks, the polling timer; strong: `Handle` | `MirrorConverges` = `SyncsEnd`, `Converges` |
| CloudSession | 1 organization, 1 change, 1 fault | weak: tasks, a restart; strong: `Open`, `Poll` | `SocketReturns` |

A part of `liveness` that is not looked at rests in one of its initial states, picked
so that there is one only; the part that is looked at starts in any of them.

*Why the bounds are enough.* What goes wrong in these parts goes wrong between
two tasks: one holds, or has read, what the other changes. A third task only
queues. One request per task has both kinds of renewal, before it is sent and
after a 401. In `cache_serial` three operations are, say, a write that
fails half way, one that runs on what it left, and one after the sync. In `sync` two changes are a creation and a
deletion of one item, or a change while an older reply is applied; two failures
are a crash after a failed save, or a lost reply and a backup restored. Items do
not influence each other there (each has its own entry of the map, and the locks
are held for all of them), so one is enough; the collection is there for the
order of things and for what is never updated. `MaxCopies` is above the number of
copies that can come into being: were it reached, `Create` would be stuck and
`MirrorConverges` violated. In `browser` one failure may strike at any await of any
step; the attempts of polling are cut off without spending it, so three requests of
one workflow meet a queue of two. Two workflows share the vault, the site and the
queue, and are compared on a site where neither waits for a human. In `components`
two of everything that runs side by side, every table at a size of one or two, so
that it is full in most states, and at least one fault, which may be a crash at any
step; three for the access log, where a crash in a write, one at the start after it
and one in the next write is the case to fear. The clock of the rate limiter and of
the dashboard is made of ages, so that their windows go on for ever.

*Fairness.* Tasks run: tokio polls what is ready (weak fairness of `Run`, `Step`,
`Serve`). An exchange ends since the HTTP clients have a timeout. Waiting for a
lock is strongly fair because tokio's `Mutex` and `RwLock` serve their waiters in
order. Timers start again and again because they loop over a sleep: the purge of the
socket's cache, the polling of the cloud, the backoff of the socket. The refresh of the
vault's cache is another matter: `--vault-refresh-interval-secs` is 0 by default, and
then the timer is not started at all (`main.rs` 394-411, 2826-2866). So
CredentialRotation and BridgeToken have a variable `timer`, TRUE or FALSE from the start,
and are fair to the refresh only where it is TRUE. Where it is FALSE `SocketFollows` says
only that the socket comes to serve what the daemon has in its items, which is what the
vault has unless something failed; and `ServesAgain` that the bridge is refused only while
those items are older than the token that upstream takes. `CacheConverges` is about a
program whose timer is set. Strong fairness of `Fetch`, of `Open` and of `Poll` says
that Vaultwarden and Bitwarden do not fail every attempt for ever. In `browser` the
agent answers and the 30 seconds of a step that polls pass; the five minutes of the workflow are not
needed, and nothing is assumed of the human. Nothing else is assumed: no client
sends, no token expires in a request's favour, no operator edits.

## Proofs

Twenty-one components are proved about, in eight modules, for every set of tasks, any
number of requests, reloads, syncs and workflows, and every reply. The assumptions are
those on the constants only, named in the modules (`NoneAssumption`,
`NobodyAssumption`, ... and, in `Components`, `LimiterAssumption`, `KeysAssumption`,
...: sizes are numbers, limits and windows at least 1, `None` is not a value), and one
more each for ServiceReload and for two lemmas about VaultCache. Where a model has a
bound (`MaxFaults`, `MaxEdits`, `MaxCopies`, ...) the theorems hold for every value of
it.

`VaultSession_proofs`:

- `SessionInvariant`: `Spec => []SessionInv`, the inductive invariant;
- `TypeCorrect`, `OneExchange`, `RefreshTokenSafe`: what it implies, `TypeOK`,
  `SingleFlight` and `RefreshTokenUsable`;
- `Contract`: `Spec => RetriesOnce`, that VaultSession implements RetryOnce.

`RefreshTokenUsable` is not inductive: a step of the holder keeps it only if what
is in flight is known. `SessionInv` adds three things. `SingleFlight` ties the
mutex to where tasks are, so that a single grant is under way. `TokensOrdered`
orders the tokens a task has seen (the rejected one is not newer than the one
`reauth` compares, which is not newer than the stored one, and a grant is newer
than all), from which it follows that "the token has changed" means "another task
has renewed it", and that the retry's token is a new one. `RefreshTokenKept` says
where the refresh token that the server accepts is: stored, or in the grant that
the holder is about to store. The proof has one lemma per conjunct and one step
per action; `Contract` maps each action to an attempt, a rejection or a stutter.

`ProxyTokens_proofs`:

- `TokensInvariant`: `Spec => []TokensInv`, the lock and what it keeps;
- `RefusedStale`: `Spec => []RefusedOnlyWhenStale`;
- `CacheForward`: `Spec => CacheGoesForward`;
- `Contract`: `Spec => RetriesOnce`, that ProxyTokens implements RetryOnce too.

Here the vault may be behind the endpoint while a task writes a rotated refresh token
back. `RefreshTokenKept` says in which hands it is then, and that it is in the vault
when it is in nobody's; `OneExchangeAtATime` (with `LockFree` for the other grants)
says that the hands are those of the lock's holder; `InHand` follows the tokens of a
task from the look into the cache to the second attempt: under the lock the grant in
hand is the latest there is, and a forced one is newer than the token that was
rejected. The first makes `VaultHasRefreshToken` and `RefusedOnlyWhenStale` follow,
the last `CacheGoesForward` and, with the phases of RetryOnce, the contract.

`ServiceReload_proofs`:

- `ReloadInvariant`: `Spec => []ReloadInv`;
- `Forward`: `Spec => GoesForward`: no reload puts an older file in the place of a newer
  one, nor an empty registry in the place of one with services.

Both assume that reloads come one way only, over HTTP or by signal, but not both in one
life of the process: without that they are false, as `reload_mixed` shows. The
invariant says that then one reload at a time is under way (`OneReload`, `UnderWay`: by
the mutex, or since the signal task serves one signal after the other), how far its
two swaps have got (`SwapsAgree`), and that the listener's table is that of the last
signal (`ListenerInStep`).

`CloudSync_proofs`:

- `CopiesInvariant`: `Spec => []CopiesInv`;
- `NoDuplicate`: `Spec => []OneCopy`;
- `MirrorFollowsCloud`: `Spec => []MirrorFollows`.

`OneCopy` alone is not inductive: a creation keeps it only if the entries of the map are
ids that were given out (`TypeOK`), and if who writes has the locks (`UnderWay`).
`MirrorFollows` speaks of the quiet states only. What carries it
through the others is `Repaired`: an item whose copy differs from the cloud has a
notification that waits (`Renewed`, `Doomed`) or is being mirrored; and a deletion that
waits is the last word on an item that is gone. `MapLeads` is needed beside it, since a
repair is worth something only if the map leads to a copy that is there, and if a full
sync writes what the cloud still has. `NotifyWire` and `TailWire` say what a
notification that is queued or taken does to this, `WriteRepaired` what a copy does.

`VaultCache_proofs`:

- `AnyTasks`: `Spec => []AnyTasksInv`, the part that holds for any number of
  operations at once: where an operation stands and what it has (`UnderWay`), ids
  (`IdsGiven`), and that the proxy's folder is found by the ids kept for it
  (`VaultFound`);
- two lemmas on a condition, `CacheInvariant` and `WritesAreSound`: `OneAtATime`
  implies `Spec => []CacheInv` and `Spec => WritesSound`.

`OneAtATime` says that there is one task, and that its jobs are those that end with a
sync. The code does not see to that, so the lemmas are no promise of the program, whose
handlers run side by side: with two operations at once a sync of one stores a reply
that is older than the write of the other, and with an operation that does not sync the
next one sends back what was read before, which is what `cache_move` shows. What the
lemmas say is what `cache_serial` checks, for any number of operations: that the order
of steps inside each operation is right. While nothing runs
beside it, and no failure or other client has left the caches `behind` since the last
sync, no write goes wrong. That a cache which is behind catches up is `CacheConverges`,
model-checked for a writer beside the timer.
`ReadCurrent` says, place by place, which of the caches is up to date: the items
after `StoreItems`, the index after `StoreIndex`, the copy that will be sent after
`Read`. For `ScopedWrites` it says that a cipher whose cached folder was checked is in
that folder in Vaultwarden too, for which `VaultFound` is needed: the id the code keeps
leads to the folder of that name.

`BrowserRotation_proofs`:

- `QueueSound`: `Spec => []QueueInv`, the pipes and the queue;
- `RotationSound`: `Spec => []RotationInv`, who knows which password;
- `PasswordIsKept`: `Spec => []PasswordKept`;
- `SuccessHolds`: `Spec => SuccessIsTrue`.

The password of the site changes when the agent clicks on Save, at a time the workflow
does not see, and the reply may be read by another command. The argument has four
parts. A reply that nobody waits for is left by a fault, and without one the only
command in the pipe is the one the workflow waits for (`Surplus`, `InStep`). Until
the vault may have it, a new password is known to its workflow only: it is not in the
vault, in the cache, or with any other workflow (`Secret`, `NewOnesOwn`).
So the field for the new password is empty or holds the workflow's own (`NewTyped`),
saving is tried in ClickSave (`SaveTried`), and what the site has
after it is what the workflow holds. At last a page that says so is right
(`SavedRight`), so that UpdateVault puts the site's password into the vault (`Saver`).
`trouble` ends the argument: from ClickSave on a failed attempt may take the password
with it, and the code does lose it then.

As the module has some thirty actions and thirteen conjuncts to keep, most are not proved
action by action. `StepShapes` first gives each action a *shape* for the workflow that
takes it (`Rests`, `Ends`, `Advances`, `Fails`, `Sends`, `Loads`, ...), which says how
the few variables that matter change, and shows that the other workflows stand still;
then a conjunct has one lemma with one step per shape.

`Calls_proofs` and `Files_proofs` are about fifteen of the sixteen parts of
`Components`: the first about those that serve calls, the second about those whose
promise is on a disk or in a table. Each theorem is `Spec => []P` for one invariant `P`
of the run, and rests on an inductive invariant of its own. As `part` never changes
(`PartStays`), a behaviour is either about that part and then takes its steps only, or
about another one, of which `P` says nothing.

| Theorem | Invariant | What makes it inductive |
| --- | --- | --- |
| `SafetyOfRotation` | `AdminPasswordSafe` | a password that a call is about to set is in no other place, not with another call either (`RotationFresh`); and how what a call has heard of its script, what the host will still do and the password of the site fit together (`RotationHeard`) |
| `SafetyOfSlots` | `OwnCredential` | the lock of a slot is held by exactly the request that is past it, so nobody puts another session there in the meantime |
| `SafetyOfUse` | `UsedInScope` | until a sync has changed it, what a call has looked at is still so (`UseSeen`): the folder at hand is that of the cipher, an item of the name is in the folder of each check that has passed, and the versions it has read are those of items of the name. A name that one item bears makes all of these the same item; `UsePlace` says which of them there are at each place |
| `SafetyOfTls` | `SentOncePerFailure` | place by place, how often a request can have been sent when so many attempts at it have failed (`TlsHas`), which are never more than the faults |
| `SafetyOfCloud` | `OrgKeysFollow` | a client has the keys of the profile it has seen last, and who has none has seen none |
| `SafetyOfLimiter` | `LimitsFair` | the requests a window has counted are the last of those let through, the first of them began it (`LimiterKey`), and those before it were fewer than the limit; so two windows make fewer than twice the limit. This needs that ages are sorted, so that a tick takes them from the front (`OldestAtFront`) |
| `SafetyOfLogin` | `LoginSound` | each guess within the window has a failure that is no older, but for the guesses of calls that have still to count theirs (`Matched`); the failures within the window and the calls that were let through are at most the limit and the number of clients less one (`GuessBudget`); a success, by the password or by the TPM, ends all of an unlock's. For the second half, who writes the file has nobody before it (`LoginOrder`) |
| `SafetyOfAccess` | `ChainVerifies` | every line but one under way ends the one before, and `last` is the HMAC of the last line (`AccessChained`), also after the start, which reads it from the file |
| `SafetyOfTrail` | `TrailKept` | where each entry is: in the list, the archive, the hands of a thread, or lost; and of the copies that wait to be written the one that will be written last lacks at most `count` entries of the list (`TrailLatest`, `TrailOrder`) |
| `SafetyOfEnv` | `EnvKept` | while no two calls have been at the file, whoever is there has read it as it is and has the temporary file for itself (`EnvOrder`) |
| `SafetyOfMount` | `FstabSound` | the same for fstab, with the credentials of every entry there before the entry is (`MountOrder`) |
| `SafetyOfSettings` | `SettingsKept` | the same for the credentials in the keystore, and for permissions between the write and the hot reload (`SettingsOrder`). That what is in force is what is on the disk is said only of the dashboard that the full server has started, with the configuration in `/config`; of any other `permissions_locked` shows the contrary |
| `SafetyOfKeys` | `KeystoreOpens` | a job with nobody beside it has written the files up to its step with its own key (`KeysAlone`), and a keystore that was built has one key in all of them, sealed or not, also while an update or the seal after a boot goes on (`KeysBuilt`) |
| `SafetyOfAudit` | `AuditSound` | a scan that is running has a task or was left behind by a stop; an apply that is past the move finds the item in the folder, in the cache as on the server, so the marker's write does not take it out again (`AuditItem`) |
| `SafetyOfLaunch` | `LaunchSound` | what a launch has read of the vault is what is there while it is alone (`LaunchOrder`); any key in the vault, in the daemon's copy or in a launch's hands is one that the server accepts (`LaunchGood`), which holds for any number of launches at once |

Once an excuse is given (`clash`, `hurt`, `disturbed`, `mixed`, `replaced`, `overlap`,
`moved`), an invariant says no more than types and where tasks are, since the code
promises no more. In `SafetyOfLimiter` and `SafetyOfLogin` the windows, limits and the
number of clients are any numbers, which a run with a window of 2 cannot say.

What stays with TLC: the liveness properties (`RequestsEnd`, `SignalServed`,
`WorkflowsEnd`, and those of `liveness`), as the prover knows no fairness and no
ENABLED, so BridgeToken, whose promises are all of this kind, has no theorem; and
`FileServed`, as the registry and the listener's table are built by folds over the file,
of which only induction tells the result. `TypeOK` of `components` is the conjunction of
sixteen type invariants and is not stated as one theorem: nine of them are parts of the
invariants above, the others are proved as far as the argument needs them, that is to say
without the values of variables that play no part in it.

## Where the code and its comments disagree

Four runs have a counterexample to what the repository says of itself;
`findings` in `PROJECT.json` quotes the lines.

- `cache_move`: moving an item "preserves all encrypted fields byte-for-byte", but
  what is sent is the cached cipher. After an update that does not sync (the MCP
  tool, the rotation's write-back) a move puts the old secret back.
- `tokens_spent`: the lock around exchange and write-back is said to keep a
  rotating provider from seeing a spent refresh token. It does exclude tasks, but
  the next exchange reads the token from the cached items, which the write-back
  does not change, so it sends the spent one until some sync has run.
- `reload_mixed`: `reload_mutex` is said to keep all other reloads away from the
  swaps, and SIGHUP not to be affected. SIGHUP does not take it, and a SIGHUP
  between the two swaps leaves registry and CA clients of different versions.
- `permissions_locked`: saving permissions is said to make subsequent calls see the
  new policy at once. After a start with a locked keystore the dashboard that asked
  for the password stays, as it holds the port, and knows of no server: what it saves
  is in force only after the next start. In the trace the configuration is in `/config`,
  the TPM does not open the keystore, a password does, the server starts with the
  permissions on the disk, and the permissions saved after that are on the disk and not
  in force.

Twelve more properties are written down and fail, without a run of their own. Each can
be seen by checking the definition with the constants given (`None`, `Torn`,
`Nobody` as model values).

| Definition | Constants | What happens |
| --- | --- | --- |
| `BrowserRotation.SiteHasNewPassword` | `Workflow` {w1}, `Profiles` {FALSE}, `Codes` {"none"}, `QueueMax` 1, `MaxFaults` 3 | `send` is said to return the response to its command (`browser/playwright.rs`). A step that runs out of its 30 seconds leaves its command in the pipe, and later commands read the replies of earlier ones; with two more failures the password is typed twice into each field, the site takes it doubled, and the vault stores it once. `SuccessIsTrue` says what is left |
| `Keystore.SetupReplacesAll` | `Worker` {w1}, `MaxKeys` 2, `MaxSeals` 1, `MaxFaults` 0 | a second setup leaves the files sealed for the first key; with a TPM the next start finds the old key and credentials it does not open (`main.rs` 936-937 prefers the TPM) |
| `TransparentProxy.EveryListenerFollows` | `Agent` {a1}, 3 listeners, `MaxEdits` 1, `MaxFaults` 0 | `docs/operator/TRANSPARENT.md` 171 says that SIGHUP rebuilds the registry in place, and `mtls_listener.rs` 41 that `main.rs` registers its cells for that; `main.rs` (1958-1972, 2029) keeps the cells of the TCP listener only |
| `CloudSession.SyncsWhenTold` | `Org` {o1}, `MaxChanges` 1, `MaxFaults` 0 | `/sync/init` and `/sync/totp` answer that the cloud is being synced (`vault/handlers.rs` 3706, 3909-3911), with a client of their own that is dropped afterwards; the process goes on without one |
| `CredentialRotation.RestartedWithNew` | `Call` {c1}, `Served` {"admin"}, `MaxSeconds` 1, `MaxFaults` 0 | the hook is there to restart services that cache the credential (`main.rs` 449-450); a connection of the socket that read before the sync fills the cache again before the hook fires, and the restarted service is served the old one |
| `CredentialRotation.SyncCatchesUp` | `Call` {c1}, `Served` {}, `MaxSeconds` 0, `MaxFaults` 1, specification `FairSpec` | when the sync after a rotation fails "the next scheduled sync will catch up" (`rotate/mod.rs` 122, 126); with the refresh timer off, as it is by default, none is scheduled, and the daemon serves the old credential until somebody asks for a sync |
| `DashboardLogin.BlockedAfterLimit` | `Client` {c1, c2}, `Password` {p1, p2}, `Limit` 1, `Window` 2, `Cap` 1, `MaxCalls` 3, `MaxFaults` 0 | "after 5 failed attempts within 5 minutes, login is blocked" (`dashboard/auth.rs` 145-146); the failures are counted before the password is hashed and recorded after, so each further client may try one more. `GuessesBounded` says how many there are |
| `DashboardLogin.UnlockedByPassword` | the same | the unlock form asks for the password and limits the wrong ones; with a key in the TPM `unlock_keystore` does not look at it (`keystore.rs` 404-416), and any password unlocks, clears the failures and is kept for the loop that waits for one (`dashboard/api.rs` 1400-1406) |
| `Launcher.SecondFails` | `Launch` {l1, l2}, `MaxChanges` 0, `MaxFaults` 0 | of two launches that make a key for one service the second is said to "fail loudly at the Vaultwarden layer" (`launcher.rs` 257); nothing there is unique by name, so both items are accepted, each with a key |
| `AuditTrail.WholeFile` | `Thread` {t1, t2}, `SaveEvery` 1, `MaxEntries`, `Capacity`, `MaxBatch`, `MaxLogged` 2, `MaxFaults` 0 | the safe write of `secure.rs` (133) is there so that the file is always whole; two savers share the temporary file, named after the process, and one renames it while the other has just truncated it |
| `ServiceFile.CollisionsRejected` | the constants of `components` | `build` is said to reject collisions across services (`transparent/registry.rs` 59-61); it compares exact hosts only. Of two wildcards that cover one host the first in the order of a HashMap answers, and another one may after the next reload of the same file |
| `ServiceFile.CheckedFileStarts` | the constants of `components` | `--check` is there for CI and pre-deploy hooks (`main.rs` 613-615), but does not build the listener's table: a file with two services on one host passes, and a program with the transparent listener does not start with it |

Some weaknesses show in the models without contradicting a comment. The id of the
proxy's folder is kept when another client renames the folder, until a resync or a
reload. A 401 that
arrives after another task has renewed the token renews it again, because `reauth`
compares with the token at its entry. A full sync that fetched before a
notification writes after it, and nothing deletes a copy it brings back. The four minutes in which
a workflow polls for a code lie inside the 30 seconds of its step: a denial or a slow
answer makes it ask again, a code that comes later goes to nobody, and the total of
three attempts is 90 seconds. A full queue evicts an answer that is not read
yet before it evicts anything else. A click on Save that takes effect and is answered
too late is repeated, refused by the site, and the new password is forgotten: that is
what `PasswordKept` (in `RotationInv`) excuses with `trouble`. Two workflows of one item may run at once,
and one that repeats its update of the vault overwrites the newer password of the
other. A POST may reach its upstream three times when two attempts fail, which is
what `SentOncePerFailure` bounds. A mount that fails half way leaves its credentials
and its entry in fstab, and a second one beside it may drop that entry. Calls that
save settings, set variables or make API keys side by side overwrite each other, which
`clash` and `overlap` excuse. Two threads may save the audit log at once, and an older
copy of the list may then be renamed over a newer one, which `disturbed` excuses. The cloud's rotated refresh token is kept in memory only
(`main.rs` 1327, `vault/handlers.rs` 3778), so the next start needs another credential.

Seen while reading, outside the models:

- the placeholder mode of the transparent proxy never finds its item
  (`transparent/inject_placeholder.rs` 56, `vault/mod.rs` 2289-2293);
- `dashboard/api.rs` 362 gives the answers as "approve" and "deny" where the workflow
  waits for "approved" and "denied";
- `dashboard/api.rs` 1411 says that setup sets the password in memory and on disk,
  which the setup over the web does not;
- saving the cloud's credentials during setup answers ok when nothing was saved
  (`dashboard/api.rs` 943-963);
- a full sync re-authenticates after a 401 only with an API key (`sync/cloud.rs` 481-485,
  536);
- the unlock password is cleared after a failed connection, also when it is a newer
  one than that tried (`main.rs` 1207-1213);
- permissions are written to `/config/tool-permissions.json` (`dashboard/api.rs` 1035)
  and loaded from the configuration directory (`main.rs` 1721), which may be another;
- after a rotation the session cache is emptied by service name (`rotate/mod.rs` 120),
  but its entries are kept by vault item;
- `--check` is said to exit with 0 when a file has no services (`main.rs` 617-620), and
  exits with 1 (670-682); an entry that a later one of its name replaces counts as
  rejected;
- a reload over HTTP is said to do exactly what SIGHUP does (`vault/handlers.rs`
  3394-3396), and leaves the transparent listener's table as it was (`HttpReload`);
- the handlers of `/sync/init` build a `SyncManager` of their own, with its own permit
  and map, beside the one that runs.

## What is not modelled

The components marked `not_modelled` in `PROJECT.json`: notifications and the HIBP
audit (a counter, one mutex around a report), the setup on the terminal, sockets and
bearer checks (sequential or stateless), policy predicates (pure functions of strings
with unit tests of their own), cryptography and TLS (library calls), the MCP
dispatcher (its tools are the handlers, modelled as such), pages and scripts.

Inside the modelled components: the progress report of a sync; re-encryption (a
copy has the content of its item); `sync_cipher_to_cloud`, which nothing calls;
`all_folders`, a second copy of the folder list for one page; decryption, which
may fail with "contended" when a sync holds the map (a caller tries again); the
checks of `handle_proxy` before a request is sent; auth patterns without state;
`hard_delete_cipher`, which nothing calls; of the browser workflow the checks before
it starts, its progress report (which is all that `browser_abort` clears), the
notifications, the UniFi session it ends, and profiles with some of the selectors;
the services whose rotation answers that it is not implemented; sinks without a
queue, and the rotation of the access log by size; the second pass of the credential
audit, which no route reaches; AppRole unlocking and the migration of old key files;
what requests and certificates contain; listings, searches and status pages.

A component whose state is behind several others is modelled with them external:
the vault behind a rotation, Vaultwarden behind the launcher, WI MCP, UniFi
controllers, Bitwarden, mail and web sites are what the code in `src/` uses them for.
