------------------------------ MODULE CloudSession -----------------------------
(***************************************************************************)
(* The clients of the Bitwarden cloud: how one authenticates when the      *)
(* process starts (src/src/main.rs), its calls and the keys it keeps       *)
(* (src/src/sync/cloud.rs), the notification socket that uses its token,   *)
(* and the clients that /sync/init and /sync/totp make                     *)
(* (src/src/vault/handlers.rs).                                            *)
(*                                                                         *)
(* The process has the client "session", or none; a handler's client is    *)
(* "aside".  A client's calls hold its lock from the first request to the  *)
(* last, so each client has one job at a time.  What a sync copies is in   *)
(* CloudSync.                                                              *)
(***************************************************************************)
EXTENDS Naturals

CONSTANTS
  Org,
  MaxChanges,    \* bound: expiries and changes of the account
  MaxFaults,     \* bound: failing requests and restarts
  None

Slot == {"session", "aside"}

VARIABLES
  creds,         \* Credentials.cloud: has it an API key, and a refresh token?
  granted,       \* does Bitwarden take the refresh token?  A password without a code?
  account,       \* the profile: is there a private key, and each organization's key
  clients,       \* CloudClient of either slot, or None
  jobs,          \* the call each one is in, or None
  link, backoff, \* the notification socket; ws_backoff_secs, in doublings
  changes, faults,
  seen,          \* the profile in the last answer of /sync to each client
  told           \* has a handler answered that the cloud is being synced?

outside == <<creds, granted, account>>
socket == <<link, backoff>>
vars == <<outside, clients, jobs, socket, changes, faults, seen, told>>

Key == 0..MaxChanges     \* of an organization; 0 where the account is no member
Profile == [private : BOOLEAN, orgs : [Org -> Key]]
Client == [apikey : BOOLEAN, valid : BOOLEAN, private : BOOLEAN, orgs : [Org -> Key]]
Job == [op : {"sync", "get", "push"}, at : {"send", "reauth", "again", "write"}]

TypeOK ==
  /\ creds \in [apikey : BOOLEAN, refresh : BOOLEAN]
  /\ granted \in [refresh : BOOLEAN, password : BOOLEAN]
  /\ account \in Profile
  /\ \A s \in Slot : /\ clients[s] \in Client \union {None} /\ jobs[s] \in Job \union {None}
                     /\ seen[s] \in Profile \union {None}
  /\ link \in {"off", "closed", "open"} /\ backoff \in 0..2
  /\ changes \in 0..MaxChanges /\ faults \in 0..MaxFaults /\ told \in BOOLEAN
-----------------------------------------------------------------------------
NoKeys == [o \in Org |-> 0]

Init ==
  /\ creds \in [apikey : BOOLEAN, refresh : BOOLEAN]
  /\ granted \in [refresh : BOOLEAN, password : BOOLEAN]
  /\ account = [private |-> FALSE, orgs |-> NoKeys]
  /\ clients = [s \in Slot |-> None] /\ jobs = [s \in Slot |-> None]
  /\ link = "off" /\ backoff = 0
  /\ changes = 0 /\ faults = 0 /\ seen = [s \in Slot |-> None] /\ told = FALSE

Fault == faults < MaxFaults /\ faults' = faults + 1
Change == changes < MaxChanges /\ changes' = changes + 1
Set(var, s, v) == [var EXCEPT ![s] = v]
NewJob(op) == [op |-> op, at |-> "send"]
-----------------------------------------------------------------------------
(* Authentication *)

\* from_api_key and from_refresh_token take the private key from the first sync.
NewClient(apikey) ==
  [apikey |-> apikey, valid |-> TRUE, private |-> account.private, orgs |-> NoKeys]

\* CloudClient::new leaves it to full_sync.
NewWithCode == [NewClient(FALSE) EXCEPT !.private = FALSE]

\* The API key if there is one, otherwise the refresh token that was saved.
Preferred == IF creds.apikey THEN "apikey" ELSE IF creds.refresh THEN "refresh" ELSE "password"

Takes(way) ==
  CASE way = "apikey" -> TRUE [] way = "refresh" -> granted.refresh
    [] OTHER -> granted.password

\* The client is synced before anything is served.
Connect(way) ==
  /\ clients' = Set(clients, "session", NewClient(way = "apikey"))
  /\ jobs' = Set(jobs, "session", NewJob("sync"))
  /\ link' = "closed" /\ backoff' = 0

Start ==
  /\ clients["session"] = None /\ link = "off"
  /\ IF Takes(Preferred)
     THEN Connect(Preferred)
     ELSE IF granted.password THEN Connect("password")
     ELSE link' = "closed" /\ UNCHANGED <<clients, jobs, backoff>>
  /\ UNCHANGED <<outside, changes, faults, seen, told>>

\* A failure of the first way leaves the password, of that one no client.
StartFails ==
  /\ clients["session"] = None /\ link = "off" /\ Fault
  /\ IF granted.password /\ Preferred # "password" THEN Connect("password")
     ELSE link' = "closed" /\ UNCHANGED <<clients, jobs, backoff>>
  /\ UNCHANGED <<outside, changes, seen, told>>

Crash ==
  /\ link # "off" /\ Fault /\ link' = "off"
  /\ clients' = [s \in Slot |-> None] /\ jobs' = [s \in Slot |-> None]
  /\ seen' = [s \in Slot |-> None] /\ told' = FALSE
  /\ UNCHANGED <<outside, backoff, changes>>
-----------------------------------------------------------------------------
(* /sync/init, unless there is a session, and /sync/totp: a client of the    *)
(* handler's own, which is synced and dropped with it.                       *)
Aside(client) ==
  /\ link # "off" /\ clients["aside"] = None
  /\ clients' = Set(clients, "aside", client)
  /\ jobs' = Set(jobs, "aside", NewJob("sync"))
  /\ UNCHANGED <<outside, socket, changes, faults, seen, told>>

SyncInit == clients["session"] = None /\ Aside(NewClient(FALSE))
ProvideTotp == Aside(NewWithCode)
-----------------------------------------------------------------------------
(* A call of a client *)

\* The polling task and /sync/trigger; a notification; a password that is pushed.
Call(op) ==
  /\ clients["session"] # None /\ jobs["session"] = None
  /\ op = "get" => link = "open"
  /\ jobs' = Set(jobs, "session", NewJob(op))
  /\ backoff' = IF op = "get" THEN 0 ELSE backoff
  /\ UNCHANGED <<outside, clients, link, changes, faults, seen, told>>

At(s, place) == jobs[s] # None /\ jobs[s].at = place
Goto(s, place) == jobs' = [jobs EXCEPT ![s].at = place]

\* The handler's client goes with its call.
Ended(s, changed, ok) ==
  /\ jobs' = Set(jobs, s, None)
  /\ clients' = Set(clients, s, IF s = "aside" THEN None ELSE changed)
  /\ told' = (told \/ (s = "aside" /\ ok))

Failed(s) == Ended(s, clients[s], FALSE) /\ UNCHANGED seen

\* The private key, from the profile unless the client has it.
WithPrivate(client) == [client EXCEPT !.private = @ \/ account.private]

\* An organization's key is kept where the private key opens it.
WithOrgs(client) ==
  [client EXCEPT !.orgs = [o \in Org |-> IF account.orgs[o] # 0 /\ client.private
                                         THEN account.orgs[o] ELSE @[o]]]

\* Mutant: the organizations' keys are looked at first.
SyncedReversed(client) == WithPrivate(WithOrgs(client))

Synced(client) == WithOrgs(WithPrivate(client))

Answered(s) ==
  CASE jobs[s].op = "sync" -> /\ Ended(s, Synced(clients[s]), TRUE)
                              /\ seen' = IF s = "aside" THEN Set(seen, s, None)
                                         ELSE Set(seen, s, account)
    [] jobs[s].op = "push" -> Goto(s, "write") /\ UNCHANGED <<clients, seen, told>>
    [] OTHER -> Ended(s, clients[s], TRUE) /\ UNCHANGED seen

\* A 401 is answered with the API key, once.
Send(s) ==
  /\ At(s, "send")
  /\ IF clients[s].valid THEN Answered(s)
     ELSE IF clients[s].apikey
          THEN Goto(s, "reauth") /\ UNCHANGED <<clients, seen, told>>
          ELSE Failed(s)
  /\ UNCHANGED <<outside, socket, changes, faults>>

\* Mutant: the new token is not kept.
ReauthForgotten(s) ==
  /\ At(s, "reauth") /\ Goto(s, "again")
  /\ UNCHANGED <<outside, clients, socket, changes, faults, seen, told>>

Reauth(s) ==
  /\ At(s, "reauth") /\ Goto(s, "again") /\ clients' = [clients EXCEPT ![s].valid = TRUE]
  /\ UNCHANGED <<outside, socket, changes, faults, seen, told>>

Again(s) ==
  /\ At(s, "again")
  /\ IF clients[s].valid THEN Answered(s) ELSE Failed(s)
  /\ UNCHANGED <<outside, socket, changes, faults>>

\* update_cipher has no second try.
Write(s) ==
  /\ At(s, "write") /\ Ended(s, clients[s], clients[s].valid)
  /\ UNCHANGED <<outside, socket, changes, faults, seen>>

CallFails(s) ==
  /\ jobs[s] # None /\ Fault /\ Failed(s)
  /\ UNCHANGED <<outside, socket, changes>>
-----------------------------------------------------------------------------
(* The notification socket *)

Doubled == IF backoff < 2 THEN backoff + 1 ELSE backoff

\* The task that listens has no way to renew the token it is given.
Open ==
  /\ link = "closed" /\ clients["session"] # None /\ jobs["session"] = None
  /\ IF clients["session"].valid THEN link' = "open" /\ UNCHANGED backoff
     ELSE backoff' = Doubled /\ UNCHANGED link
  /\ UNCHANGED <<outside, clients, jobs, changes, faults, seen, told>>

\* The hub closes a connection, when its token has expired at the latest.
Close ==
  /\ link = "open" /\ link' = "closed" /\ backoff' = Doubled /\ Fault
  /\ UNCHANGED <<outside, clients, jobs, changes, seen, told>>
-----------------------------------------------------------------------------
(* Bitwarden *)

Expire(s) ==
  /\ clients[s] # None /\ clients[s].valid /\ Change
  /\ clients' = [clients EXCEPT ![s].valid = FALSE]
  /\ IF s = "session" /\ link = "open" THEN link' = "closed" /\ backoff' = Doubled
     ELSE UNCHANGED socket
  /\ UNCHANGED <<outside, jobs, faults, seen, told>>

\* The account comes to have a private key, joins or leaves an organization, or
\* one has new keys.
Edit ==
  /\ Change
  /\ \/ ~account.private /\ account' = [account EXCEPT !.private = TRUE]
     \/ \E o \in Org : account.private /\ account' = [account EXCEPT !.orgs[o] = changes']
     \/ \E o \in Org : account.orgs[o] # 0 /\ account' = [account EXCEPT !.orgs[o] = 0]
  /\ UNCHANGED <<creds, granted, clients, jobs, socket, faults, seen, told>>

Revoke ==
  /\ granted.refresh /\ Change /\ granted' = [granted EXCEPT !.refresh = FALSE]
  /\ UNCHANGED <<creds, account, clients, jobs, socket, faults, seen, told>>
-----------------------------------------------------------------------------
Run(s) == Send(s) \/ Reauth(s) \/ Again(s) \/ Write(s)

Poll == Call("sync")

Next ==
  \/ Start \/ StartFails \/ Crash \/ SyncInit \/ ProvideTotp \/ Poll
  \/ \E op \in {"get", "push"} : Call(op)
  \/ \E s \in Slot : Run(s) \/ CallFails(s) \/ Expire(s)
  \/ Open \/ Close \/ Edit \/ Revoke

Spec == Init /\ [][Next]_vars

FairSpec ==
  /\ Spec /\ WF_vars(Start) /\ SF_vars(Open) /\ SF_vars(Poll)
  /\ \A s \in Slot : WF_vars(Run(s))
-----------------------------------------------------------------------------
(* After a sync a client has the key of each organization in its answer that *)
(* it can open: a cipher of that organization resolves with it.              *)
OrgKeysFollow ==
  seen["session"] # None /\ clients["session"] # None =>
    \A o \in Org : seen["session"].private /\ seen["session"].orgs[o] # 0 =>
                     clients["session"].orgs[o] = seen["session"].orgs[o]

(* The socket of a session with an API key is opened again although the task *)
(* that opens it cannot renew the token.                                     *)
SocketReturns == [](clients["session"] # None => clients["session"].apikey) =>
                   [](link = "closed" /\ clients["session"] # None => <>(link # "closed"))

(* "authenticate, get a device token for future 2FA-free logins, and start   *)
(* syncing" (handlers.rs:3910), "initialize cloud sync at runtime" (3706).   *)
SyncsWhenTold == told => clients["session"] # None
=============================================================================
