-------------------------- MODULE DashboardSettings ---------------------------
(***************************************************************************)
(* How the process starts (src/src/main.rs) and what its dashboard saves   *)
(* (src/src/dashboard/api.rs): permissions of tools, which the server has  *)
(* in memory too, and credentials in the keystore.                         *)
(*                                                                         *)
(* With a key in the TPM the server starts at once, and its dashboard with *)
(* it.  Without one a dashboard alone is started, which waits for a        *)
(* password; the server that starts then finds the dashboard's port taken  *)
(* and leaves the one there is, which knows of no server.  The handlers    *)
(* that save credentials read all of them, change their own and write all. *)
(*                                                                         *)
(* The files of a keystore are in Keystore, passwords in DashboardLogin.   *)
(***************************************************************************)
EXTENDS Naturals, FiniteSets

CONSTANTS
  Client,
  MaxCalls,      \* bound: calls that save something
  MaxFaults,     \* bound: restarts, failing disks and a Vaultwarden that is down
  None

VARIABLES
  home,          \* is the configuration in /config?
  tpm,           \* does the TPM open the keystore?
  phase,         \* of the process: "off", "waiting", "connecting" or "full"
  tried,         \* has the TPM been tried while waiting?
  dash,          \* the dashboard that is served: "locked" or "full"
  unlock,        \* DashboardState.unlock_password: was one given that opens it?
  disk,          \* tool-permissions.json, and both parts of the credentials
  live,          \* AppState.permissions
  pc, job,       \* where each client's call is; what it saves
  read,          \* the credentials it has read
  calls, faults,
  saved,         \* what the calls have saved
  clash          \* have two calls saved at once?

process == <<home, tpm, phase, tried, dash, unlock>>
callVars == <<pc, job, read>>
vars == <<process, disk, live, callVars, calls, faults, saved, clash>>

Op == {"permissions", "vaultwarden", "cloud", "remove", "apikey", "bitwarden"}
Version == 0..MaxCalls
Credentials == [vaultwarden : Version, cloud : Version \union {None}]
Settings == [permissions : Version, creds : Credentials]

TypeOK ==
  /\ {home, tpm, tried, unlock, clash} \subseteq BOOLEAN
  /\ phase \in {"off", "waiting", "connecting", "full"} /\ dash \in {None, "locked", "full"}
  /\ disk \in Settings /\ saved \in Settings /\ live \in Version \union {None}
  /\ pc \in [Client -> {"idle", "ask", "read", "validate", "write", "apply"}]
  /\ \A c \in Client : job[c] # None => job[c].op \in Op /\ job[c].new \in Version
  /\ read \in [Client -> Credentials \union {None}]
  /\ calls \in 0..MaxCalls /\ faults \in 0..MaxFaults
-----------------------------------------------------------------------------
Init ==
  /\ home \in BOOLEAN /\ tpm \in BOOLEAN
  /\ phase = "off" /\ tried = FALSE /\ dash = None /\ unlock = FALSE
  /\ disk = [permissions |-> 0, creds |-> [vaultwarden |-> 0, cloud |-> None]]
  /\ live = None /\ saved = disk
  /\ pc = [c \in Client |-> "idle"] /\ job = [c \in Client |-> None]
  /\ read = [c \in Client |-> None]
  /\ calls = 0 /\ faults = 0 /\ clash = FALSE

Set(var, c, v) == [var EXCEPT ![c] = v]
Goto(c, place) == pc' = Set(pc, c, place)
Fault == faults < MaxFaults /\ faults' = faults + 1
-----------------------------------------------------------------------------
(* The process *)

\* ToolPermissions::load, from the directory of the configuration; where there is
\* no file, the defaults.
Loaded == IF home THEN disk.permissions ELSE 0

\* start_server probes the dashboard's port first.
DashboardOf(served) == IF served = None THEN "full" ELSE served

StartServer == phase' = "full" /\ live' = Loaded /\ dash' = DashboardOf(dash)

\* main: the TPM, and otherwise the dashboard alone.
Start ==
  /\ phase = "off"
  /\ \/ tpm /\ StartServer
     \/ ~tpm /\ phase' = "waiting" /\ dash' = "locked" /\ UNCHANGED live
  /\ tried' = FALSE
  /\ UNCHANGED <<home, tpm, unlock, disk, callVars, calls, faults, saved, clash>>

\* A TPM that does not open the keystore, or not now.
TpmFails ==
  /\ phase = "off" /\ tpm /\ Fault
  /\ phase' = "waiting" /\ dash' = "locked" /\ tried' = FALSE
  /\ UNCHANGED <<home, tpm, unlock, disk, live, callVars, calls, saved, clash>>

\* The loop of start_dashboard_only: the TPM once, and then each password.
PollTpm ==
  /\ phase = "waiting" /\ ~tried /\ tried' = TRUE
  /\ \/ tpm /\ StartServer /\ UNCHANGED faults
     \/ (tpm => Fault) /\ (~tpm => UNCHANGED faults) /\ UNCHANGED <<phase, dash, live>>
  /\ UNCHANGED <<home, tpm, unlock, disk, callVars, calls, saved, clash>>

PollPassword ==
  /\ phase = "waiting" /\ tried /\ unlock /\ phase' = "connecting"
  /\ UNCHANGED <<home, tpm, tried, dash, unlock, disk, live, callVars, calls, faults,
                 saved, clash>>

Connected ==
  /\ phase = "connecting" /\ StartServer /\ unlock' = FALSE
  /\ tpm' \in {tpm, TRUE}
  /\ UNCHANGED <<home, tried, disk, callVars, calls, faults, saved, clash>>

\* The password is forgotten, the one that has come meanwhile too.
NotConnected ==
  /\ phase = "connecting" /\ Fault /\ phase' = "waiting" /\ unlock' = FALSE
  /\ UNCHANGED <<home, tpm, tried, dash, disk, live, callVars, calls, saved, clash>>

\* handle_configure, handle_unlock: a password that opens the keystore, with a key in
\* the TPM any; one that does not is not kept.
Unlock ==
  /\ dash # None /\ ~unlock /\ unlock' = TRUE
  /\ UNCHANGED <<home, tpm, phase, tried, dash, disk, live, callVars, calls, faults,
                 saved, clash>>

Crash ==
  /\ Fault /\ phase # "off" /\ phase' = "off" /\ dash' = None /\ unlock' = FALSE
  /\ live' = None
  /\ pc' = [c \in Client |-> "idle"] /\ job' = [c \in Client |-> None]
  /\ read' = [c \in Client |-> None]
  /\ UNCHANGED <<home, tpm, tried, disk, calls, saved, clash>>
-----------------------------------------------------------------------------
(* What the dashboard saves *)

\* Those that ask Bitwarden or Vaultwarden first: connect_cloud_apikey and
\* setup_cloud_credentials.
Asks(op) == op \in {"apikey", "bitwarden"}

Begin(c) ==
  /\ pc[c] = "idle" /\ dash # None /\ calls < MaxCalls /\ calls' = calls + 1
  /\ \E op \in Op :
       /\ job' = Set(job, c, [op |-> op, new |-> calls'])
       /\ Goto(c, IF op = "permissions" THEN "write" ELSE IF Asks(op) THEN "ask" ELSE "read")
  /\ UNCHANGED <<process, disk, live, read, faults, saved, clash>>

Ended(c) == Goto(c, "idle") /\ job' = Set(job, c, None) /\ read' = Set(read, c, None)

\* Refused upstream, or by the limit on writes.
Refused(c) ==
  /\ pc[c] \in {"ask", "validate", "write"} /\ Ended(c)
  /\ UNCHANGED <<process, disk, live, calls, faults, saved, clash>>

Ask(c) ==
  /\ pc[c] = "ask" /\ Goto(c, "read")
  /\ UNCHANGED <<process, disk, live, job, read, calls, faults, saved, clash>>

\* setup_cloud_credentials has the TPM only; the others are given a password too.
CanUnlock(op) == op = "bitwarden" => tpm

Validates(op) == op = "vaultwarden"

ReadCredentials(c) ==
  /\ pc[c] = "read"
  /\ IF CanUnlock(job[c].op)
     THEN /\ read' = Set(read, c, disk.creds) /\ UNCHANGED job
          /\ Goto(c, IF Validates(job[c].op) THEN "validate" ELSE "write")
     ELSE Ended(c)
  /\ UNCHANGED <<process, disk, live, calls, faults, saved, clash>>

\* A wrong password.
NotUnlocked(c) ==
  /\ pc[c] = "read" /\ Ended(c)
  /\ UNCHANGED <<process, disk, live, calls, faults, saved, clash>>

\* validate_vaultwarden_creds: logs in to Vaultwarden.
Validate(c) ==
  /\ pc[c] = "validate" /\ Goto(c, "write")
  /\ UNCHANGED <<process, disk, live, job, read, calls, faults, saved, clash>>

\* What a call saves: either part of the credentials, or nothing in its place.
Part(j) == IF j.op = "vaultwarden" THEN "vaultwarden" ELSE "cloud"

NewOf(j) == IF j.op = "remove" THEN None ELSE j.new

\* Mutant: the Vaultwarden password is written without the cloud's.
ChangedAlone(old, j) == [old EXCEPT !.cloud = None, ![Part(j)] = NewOf(j)]

\* The credentials with the call's own part replaced.
Changed(old, j) == [old EXCEPT ![Part(j)] = NewOf(j)]

\* The password that opened the keystore is kept, where one was given.
Kept(op) ==
  \/ op \in {"vaultwarden", "cloud", "apikey"} /\ unlock' = TRUE
  \/ op \notin {"vaultwarden", "cloud"} /\ UNCHANGED unlock

Others(c) == \E d \in Client \ {c} : pc[d] \in {"validate", "write", "apply"}

WriteCredentials(c) ==
  /\ pc[c] = "write" /\ job[c].op # "permissions" /\ Ended(c) /\ Kept(job[c].op)
  /\ disk' = [disk EXCEPT !.creds = Changed(read[c], job[c])]
  /\ saved' = [saved EXCEPT !.creds[Part(job[c])] = NewOf(job[c])]
  /\ clash' = (clash \/ Others(c))
  /\ UNCHANGED <<home, tpm, phase, tried, dash, live, calls, faults>>

WritePermissions(c) ==
  /\ pc[c] = "write" /\ job[c].op = "permissions" /\ Goto(c, "apply")
  /\ disk' = [disk EXCEPT !.permissions = job[c].new] /\ clash' = (clash \/ Others(c))
  /\ UNCHANGED <<process, live, job, read, calls, faults, saved>>

\* A dashboard that knows of no server has nothing to change.
Applied(v) == live' = IF dash = "full" THEN v ELSE live

ApplyPermissions(c) ==
  /\ pc[c] = "apply" /\ Applied(job[c].new) /\ Ended(c)
  /\ saved' = [saved EXCEPT !.permissions = job[c].new]
  /\ UNCHANGED <<process, disk, calls, faults, clash>>

DiskFails(c) ==
  /\ pc[c] = "write" /\ Fault /\ Ended(c)
  /\ UNCHANGED <<process, disk, live, calls, saved, clash>>
-----------------------------------------------------------------------------
Save(c) ==
  \/ Begin(c) \/ Refused(c) \/ Ask(c) \/ ReadCredentials(c) \/ NotUnlocked(c) \/ Validate(c)
  \/ WriteCredentials(c) \/ WritePermissions(c) \/ ApplyPermissions(c) \/ DiskFails(c)

Next ==
  \/ \E c \in Client : Save(c)
  \/ Start \/ TpmFails \/ PollTpm \/ PollPassword \/ Connected \/ NotConnected
  \/ Unlock \/ Crash

Spec == Init /\ [][Next]_vars

\* The configuration is where save_permissions writes to: what is loaded is what was
\* saved.
InitInConfig == Init /\ home = TRUE
SpecInConfig == InitInConfig /\ [][Next]_vars
-----------------------------------------------------------------------------
Quiet == \A c \in Client : pc[c] \notin {"write", "apply"}

(* What a call has saved stays, whatever other part the next one saves and   *)
(* whatever restarts: unless two saved at once, which lets one undo the      *)
(* other, or the process ended between the file and the answer.              *)
SettingsKept ==
  ~clash /\ Quiet =>
    /\ disk.creds = saved.creds
    /\ dash = "full" /\ home => live = disk.permissions

(* "Saves permission overrides and hot-reloads the in-memory copy so         *)
(* subsequent proxy calls see the new policy immediately" (api.rs:1010).     *)
SavedPermissionsApply == Quiet /\ phase = "full" => live = saved.permissions
=============================================================================
