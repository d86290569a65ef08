----------------------------- MODULE MCLiveness ------------------------------
(****************************************************************************)
(* Components that share no state with one another, each on an instance     *)
(* small enough for its liveness: a behaviour is about one of them, and the *)
(* others rest in an initial state.                                         *)
(****************************************************************************)
EXTENDS Naturals

CONSTANTS c1, t1, t2, i1, p1, n1, h1, o1, home, review, Poller, Ws, Nobody,
          None

VARIABLES
  part,          \* the component that this behaviour is about
  rotation_pc, rotation_job, rotation_current, rotation_new, rotation_wire,
  rotation_got, rotation_site, rotation_made, rotation_vault, rotation_items,
  rotation_files, rotation_now, rotation_cred, rotation_asked, rotation_read,
  rotation_faults, rotation_unheard, rotation_timer,
  bridge_upstream, bridge_vault, bridge_items, bridge_cred, bridge_token,
  bridge_fresh, bridge_pc, bridge_bearer, bridge_second, bridge_resent,
  bridge_reply, bridge_stale, bridge_faults, bridge_timer,
  cache_ciphers, cache_folders, cache_made, cache_writes, cache_items,
  cache_index, cache_cachedFolder, cache_recent, cache_pc, cache_job,
  cache_copy, cache_id, cache_dest, cache_snap, cache_jobs, cache_outside,
  cache_renamed, cache_intended, cache_behind,
  sync_cloud, sync_copies, sync_made, sync_map, sync_disk, sync_backup,
  sync_cloudHolder, sync_mapHolder, sync_permit, sync_pc, sync_reply,
  sync_todo, sync_note, sync_wire, sync_link, sync_edits, sync_faults,
  sync_orphaned, sync_missed,
  cloud_creds, cloud_granted, cloud_account, cloud_clients, cloud_jobs,
  cloud_link, cloud_backoff, cloud_changes, cloud_faults, cloud_seen,
  cloud_told

Rotation == INSTANCE CredentialRotation WITH Call <- {c1},
  Served <- {"admin"}, MaxSeconds <- 1, MaxFaults <- 1, pc <- rotation_pc,
  job <- rotation_job, current <- rotation_current, new <- rotation_new,
  wire <- rotation_wire, got <- rotation_got, site <- rotation_site,
  made <- rotation_made, vault <- rotation_vault, items <- rotation_items,
  files <- rotation_files, now <- rotation_now, cred <- rotation_cred,
  asked <- rotation_asked, read <- rotation_read, faults <- rotation_faults,
  unheard <- rotation_unheard, timer <- rotation_timer
rotationVars == <<rotation_pc, rotation_job, rotation_current, rotation_new,
  rotation_wire, rotation_got, rotation_site, rotation_made, rotation_vault,
  rotation_items, rotation_files, rotation_now, rotation_cred, rotation_asked,
  rotation_read, rotation_faults, rotation_unheard,
  rotation_timer>>

Bridge == INSTANCE BridgeToken WITH MaxRotations <- 2, MaxFaults <- 1,
  upstream <- bridge_upstream, vault <- bridge_vault, items <- bridge_items,
  cred <- bridge_cred, token <- bridge_token, fresh <- bridge_fresh,
  pc <- bridge_pc, bearer <- bridge_bearer, second <- bridge_second,
  resent <- bridge_resent, reply <- bridge_reply, stale <- bridge_stale,
  faults <- bridge_faults, timer <- bridge_timer
bridgeVars == <<bridge_upstream, bridge_vault, bridge_items, bridge_cred,
  bridge_token, bridge_fresh, bridge_pc, bridge_bearer, bridge_second,
  bridge_resent, bridge_reply, bridge_stale, bridge_faults,
  bridge_timer>>

\* A task that writes, each write with its sync, beside the refresh timer.
Jobs ==
  {[op |-> "update", http |-> TRUE, item |-> 1, part |-> p1],
   [op |-> "delete", http |-> TRUE, item |-> 1],
   [op |-> "ensure", http |-> FALSE, fname |-> review],
   [op |-> "sync", http |-> FALSE]}

Cache == INSTANCE VaultCache WITH Task <- {t1, t2}, MaxJobs <- 1,
  Name <- {n1}, FolderName <- {home, review}, Vault <- home, Part <- {p1},
  MaxItems <- 2, MaxFolders <- 2, MaxOutside <- 1, Faults <- TRUE,
  ciphers <- cache_ciphers, folders <- cache_folders, made <- cache_made,
  writes <- cache_writes, items <- cache_items, index <- cache_index,
  cachedFolder <- cache_cachedFolder, recent <- cache_recent, pc <- cache_pc,
  job <- cache_job, copy <- cache_copy, id <- cache_id, dest <- cache_dest,
  snap <- cache_snap, jobs <- cache_jobs, outside <- cache_outside,
  renamed <- cache_renamed, intended <- cache_intended, behind <- cache_behind
cacheVars == <<cache_ciphers, cache_folders, cache_made, cache_writes,
  cache_items, cache_index, cache_cachedFolder, cache_recent, cache_pc,
  cache_job, cache_copy, cache_id, cache_dest, cache_snap, cache_jobs,
  cache_outside, cache_renamed, cache_intended, cache_behind>>

Sync == INSTANCE CloudSync WITH Item <- {i1}, Collection <- {},
  Poll <- Poller, Caller <- {h1}, MaxEdits <- 1, MaxFaults <- 1,
  MaxCopies <- 6, MaxWire <- 2, cloud <- sync_cloud, copies <- sync_copies,
  made <- sync_made, map <- sync_map, disk <- sync_disk,
  backup <- sync_backup, cloudHolder <- sync_cloudHolder,
  mapHolder <- sync_mapHolder, permit <- sync_permit, pc <- sync_pc,
  reply <- sync_reply, todo <- sync_todo, note <- sync_note,
  wire <- sync_wire, link <- sync_link, edits <- sync_edits,
  faults <- sync_faults, orphaned <- sync_orphaned, missed <- sync_missed
syncVars == <<sync_cloud, sync_copies, sync_made, sync_map, sync_disk,
  sync_backup, sync_cloudHolder, sync_mapHolder, sync_permit, sync_pc,
  sync_reply, sync_todo, sync_note, sync_wire, sync_link, sync_edits,
  sync_faults, sync_orphaned, sync_missed>>

Cloud == INSTANCE CloudSession WITH Org <- {o1}, MaxChanges <- 1,
  MaxFaults <- 1, creds <- cloud_creds, granted <- cloud_granted,
  account <- cloud_account, clients <- cloud_clients, jobs <- cloud_jobs,
  link <- cloud_link, backoff <- cloud_backoff, changes <- cloud_changes,
  faults <- cloud_faults, seen <- cloud_seen, told <- cloud_told
cloudVars == <<cloud_creds, cloud_granted, cloud_account, cloud_clients,
  cloud_jobs, cloud_link, cloud_backoff, cloud_changes, cloud_faults,
  cloud_seen, cloud_told>>

vars == <<part, rotationVars, bridgeVars, cacheVars, syncVars, cloudVars>>

Part == {"rotation", "bridge", "cache", "sync", "cloud"}

\* Only the component the behaviour is about moves: no two share any state.
Rest(p) ==
  /\ UNCHANGED part
  /\ IF p # "rotation" THEN UNCHANGED rotationVars ELSE TRUE
  /\ IF p # "bridge" THEN UNCHANGED bridgeVars ELSE TRUE
  /\ IF p # "cache" THEN UNCHANGED cacheVars ELSE TRUE
  /\ IF p # "sync" THEN UNCHANGED syncVars ELSE TRUE
  /\ IF p # "cloud" THEN UNCHANGED cloudVars ELSE TRUE

Init ==
  /\ part \in Part
  /\ Rotation!Init
  /\ Bridge!Init
  /\ Cache!Init
  /\ Sync!Init
  /\ Cloud!Init
  /\ part # "rotation" => rotation_timer
  /\ part # "bridge" => bridge_timer
  /\ part # "cache" => cache_index[home] = 1
  /\ part # "sync" => sync_missed /\ \A x \in Sync!Thing : sync_cloud[x] = None
  /\ part # "cloud" => cloud_creds.apikey /\ cloud_creds.refresh /\ cloud_granted.refresh /\ cloud_granted.password

Next ==
  \/ part = "rotation" /\ Rotation!Next /\ Rest(part)
  \/ part = "bridge" /\ Bridge!Next /\ Rest(part)
  \/ part = "cache" /\ Cache!Next /\ Rest(part)
  \/ part = "sync" /\ Sync!Next /\ Rest(part)
  \/ part = "cloud" /\ Cloud!Next /\ Rest(part)

Spec == Init /\ [][Next]_vars

\* Each part under the fairness its own specification assumes.
Fairness ==
  /\ \A c \in {c1} : WF_rotationVars(part = "rotation" /\ Rotation!Rotate(c))
  /\ \A i \in {"admin"} : WF_rotationVars(part = "rotation" /\ Rotation!Expire(i))
  /\ WF_rotationVars(part = "rotation" /\ Rotation!Fill)
  /\ WF_rotationVars(part = "rotation" /\ Rotation!Purge)
  /\ WF_rotationVars(part = "rotation" /\ rotation_timer /\ Rotation!Refresh)
  /\ WF_bridgeVars(part = "bridge" /\ Bridge!CurrentToken)
  /\ WF_bridgeVars(part = "bridge" /\ Bridge!Sent)
  /\ WF_bridgeVars(part = "bridge" /\ Bridge!Force)
  /\ WF_bridgeVars(part = "bridge" /\ Bridge!Expire)
  /\ WF_bridgeVars(part = "bridge" /\ bridge_timer /\ Bridge!Sync)
  /\ WF_bridgeVars(part = "bridge" /\ Bridge!Store)
  /\ \A t \in {t1, t2} : WF_cacheVars(part = "cache" /\ (\E j \in Jobs : Cache!IsRefresh(j) /\ Cache!Begin(t, j)))
  /\ \A t \in {t1, t2} : WF_cacheVars(part = "cache" /\ Cache!Step(t))
  /\ \A t \in {t1, t2} : SF_cacheVars(part = "cache" /\ Cache!Fetch(t))
  /\ \A t \in Sync!Task : WF_syncVars(part = "sync" /\ Sync!Run(t))
  /\ SF_syncVars(part = "sync" /\ Sync!Handle)
  /\ WF_syncVars(part = "sync" /\ Sync!Start(Poller))
  /\ WF_cloudVars(part = "cloud" /\ Cloud!Start)
  /\ SF_cloudVars(part = "cloud" /\ Cloud!Open)
  /\ SF_cloudVars(part = "cloud" /\ Cloud!Poll)
  /\ \A s \in Cloud!Slot : WF_cloudVars(part = "cloud" /\ Cloud!Run(s))

FairSpec == Spec /\ Fairness
------------------------------------------------------------------------------
\* Once the rotations are over, the local socket comes to serve what the daemon has
\* in its cache: what the vault has, if the timer is set or nothing failed.
SocketFollows == Rotation!SocketFollows

\* A request of the bridge is refused only for a reason upstream of it, and a
\* bridge that goes on serving is not refused for ever, unless the timer is off
\* and nobody asks for a sync.
BridgeServes == Bridge!BridgeServes

\* When nobody writes any more, the caches come to show what Vaultwarden has.
CacheConverges == Cache!Converges

\* Every sync ends, although it takes two locks in sequence, and polling
\* brings every change of the cloud to the vault.
MirrorConverges ==
  /\ Sync!SyncsEnd
  /\ Sync!Converges

\* With an API key, notifications come back whatever expires or fails.
SocketReturns == Cloud!SocketReturns

==============================================================================
