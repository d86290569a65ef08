---------------------------- MODULE ServiceReload -----------------------------
(***************************************************************************)
(* Reloading services.toml (reload_services in src/src/vault/handlers.rs,  *)
(* the SIGHUP task of src/src/main.rs, rebuild_from_state in               *)
(* src/src/proxy/transparent/mod.rs).                                      *)
(*                                                                         *)
(* What the file says is kept in four places, each under a lock of its     *)
(* own: the registry, the HTTP clients of the services with a custom CA,   *)
(* and the lookup table and the placeholders of the transparent listener.  *)
(* A reload reads the file, refuses it if it would empty a registry that   *)
(* has services, and then replaces them one after the other.  Reloads that *)
(* come over HTTP exclude each other with reload_mutex; the SIGHUP task    *)
(* does not take it, and alone rebuilds the transparent listener's two.    *)
(*                                                                         *)
(* The file is known by the number of its version, and everything made     *)
(* from it by the version it was made from.                                *)
(***************************************************************************)
EXTENDS Naturals

CONSTANTS
  Caller,        \* the tasks of POST /vault/reload-services
  Sighup,        \* the task that serves SIGHUP
  Triggers,      \* what asks for reloads: "http", "signal" or "both"
  MaxEdits,      \* bound: the edits of the file
  MaxReloads,    \* bound: the reloads each caller asks for
  MaxSignals,    \* bound: the signals sent
  Nobody         \* no task holds reload_mutex

Contents == {"gone", "empty", "good", "clash"}
Version  == 1..MaxEdits + 1
Reloader == Caller \union {Sighup}

ASSUME SighupAssumption == Sighup \notin Caller
ASSUME NobodyAssumption == Nobody \notin Reloader
ASSUME TriggersAssumption == Triggers \subseteq {"http", "signal", "both"}
ASSUME BoundsAssumption == MaxEdits \in Nat /\ MaxReloads \in Nat /\ MaxSignals \in Nat

VARIABLES
  by,                   \* what asks for reloads
  content, file,        \* what each version says; the version on disk
  registry,             \* AppState.registry
  clients,              \* AppState.ca_cert_clients
  lookup, placeholders, \* the cells of the transparent listener
  holder,               \* the task that holds reload_mutex
  pending,              \* has a SIGHUP arrived that is not served yet?
  pc,
  new,                  \* the version each reload works with
  reloads, signals,     \* counts, for the bounds
  torn                  \* was the last swap dropped half way?

fileVars   == <<by, content, file>>
stateVars  == <<registry, clients>>
listenVars == <<lookup, placeholders>>
countVars  == <<reloads, signals>>
vars == <<fileVars, stateVars, listenVars, holder, pending, pc, new, countVars, torn>>

Place == {"idle", "lock", "file", "count", "registry", "clients", "folder",
          "rebuild", "lookup", "placeholders"}

TypeOK ==
  /\ by \in Triggers /\ content \in [Version -> Contents] /\ file \in Version
  /\ registry \in 1..file /\ clients \in 1..file
  /\ lookup \in 1..file /\ placeholders \in 1..file
  /\ holder \in Caller \union {Nobody} /\ pending \in BOOLEAN
  /\ pc \in [Reloader -> Place] /\ new \in [Reloader -> 1..file]
  /\ reloads \in [Caller -> 0..MaxReloads] /\ signals \in 0..MaxSignals
  /\ torn \in BOOLEAN
-----------------------------------------------------------------------------
\* from_toml_file: a file that is not there or does not parse has no services.
NoServices(v) == content[v] \in {"gone", "empty"}

\* Two services on one host and port: TransparentRegistry::build fails, which
\* at start ends the program.
Clashes(v) == content[v] = "clash"

Init ==
  /\ by \in Triggers /\ content \in [Version -> Contents] /\ ~Clashes(1)
  /\ file = 1 /\ registry = 1 /\ clients = 1 /\ lookup = 1 /\ placeholders = 1
  /\ holder = Nobody /\ pending = FALSE
  /\ pc = [r \in Reloader |-> "idle"] /\ new = [r \in Reloader |-> 1]
  /\ reloads = [c \in Caller |-> 0] /\ signals = 0 /\ torn = FALSE

Goto(r, place) == pc' = [pc EXCEPT ![r] = place]

\* The reload is over, and its guard released.
End(r) ==
  /\ Goto(r, "idle")
  /\ new' = [new EXCEPT ![r] = 1]
  /\ holder' = IF holder = r THEN Nobody ELSE holder
-----------------------------------------------------------------------------
(* reload_services: the mutex is awaited for at most five seconds *)

Ask(c) ==
  /\ by # "signal" /\ pc[c] = "idle" /\ reloads[c] < MaxReloads
  /\ reloads' = [reloads EXCEPT ![c] = @ + 1]
  /\ Goto(c, "lock")
  /\ UNCHANGED <<fileVars, stateVars, listenVars, holder, pending, new, signals, torn>>

\* Mutant: a caller does not wait for the mutex.
AcquireAtOnce(c) ==
  /\ pc[c] = "lock"
  /\ holder' = c /\ Goto(c, "file")
  /\ UNCHANGED <<fileVars, stateVars, listenVars, pending, new, countVars, torn>>

Acquire(c) ==
  /\ pc[c] = "lock" /\ holder = Nobody
  /\ holder' = c /\ Goto(c, "file")
  /\ UNCHANGED <<fileVars, stateVars, listenVars, pending, new, countVars, torn>>

\* 503: another reload has the mutex.
TimeOut(c) ==
  /\ pc[c] = "lock" /\ holder # Nobody
  /\ End(c)
  /\ UNCHANGED <<fileVars, stateVars, listenVars, pending, countVars, torn>>

\* The client goes away; the handler stops at the await it stands at.
Drop(c) ==
  /\ pc[c] # "idle"
  /\ torn' = (torn \/ pc[c] = "clients")
  /\ End(c)
  /\ UNCHANGED <<fileVars, stateVars, listenVars, pending, countVars>>

\* The SIGHUP task serves one signal after the other; those that arrive
\* meanwhile are one.
Receive ==
  /\ pc[Sighup] = "idle" /\ pending
  /\ pending' = FALSE
  /\ Goto(Sighup, "file")
  /\ UNCHANGED <<fileVars, stateVars, listenVars, holder, new, countVars, torn>>
-----------------------------------------------------------------------------
(* A reload, of either kind *)

\* 404 over HTTP; the SIGHUP task goes on with an empty registry.
ReadFile(r) ==
  /\ pc[r] = "file"
  /\ IF content[file] = "gone" /\ r # Sighup
     THEN End(r)
     ELSE /\ new' = [new EXCEPT ![r] = file]
          /\ Goto(r, "count") /\ UNCHANGED holder
  /\ UNCHANGED <<fileVars, stateVars, listenVars, pending, countVars, torn>>

\* Mutant: the guard keeps an empty registry empty for good.
EmptiesEver(r) == NoServices(new[r]) \/ NoServices(registry)

Empties(r) == NoServices(new[r]) /\ ~NoServices(registry)

\* The rollback guard: no services now, and some before.
Count(r) ==
  /\ pc[r] = "count"
  /\ IF Empties(r) THEN End(r)
     ELSE Goto(r, "registry") /\ UNCHANGED <<holder, new>>
  /\ UNCHANGED <<fileVars, stateVars, listenVars, pending, countVars, torn>>

SwapRegistry(r) ==
  /\ pc[r] = "registry"
  /\ registry' = new[r]
  /\ Goto(r, "clients")
  /\ UNCHANGED <<fileVars, clients, listenVars, holder, pending, new, countVars, torn>>

\* Mutant: the clients of the running registry are kept.
SwapClientsNot(r) ==
  /\ pc[r] = "clients"
  /\ Goto(r, "folder")
  /\ UNCHANGED <<fileVars, stateVars, listenVars, holder, pending, new, countVars, torn>>

SwapClients(r) ==
  /\ pc[r] = "clients"
  /\ clients' = new[r] /\ torn' = FALSE
  /\ Goto(r, "folder")
  /\ UNCHANGED <<fileVars, registry, listenVars, holder, pending, new, countVars>>

\* cached_folder_id is cleared (see VaultCache), and the HTTP handler is done.
ClearFolder(r) ==
  /\ pc[r] = "folder"
  /\ IF r = Sighup THEN Goto(r, "rebuild") /\ UNCHANGED <<holder, new>> ELSE End(r)
  /\ UNCHANGED <<fileVars, stateVars, listenVars, pending, countVars, torn>>
-----------------------------------------------------------------------------
(* rebuild_from_state: from the registry as it is by now *)

\* Services that clash leave the listener as it was.
Rebuild ==
  /\ pc[Sighup] = "rebuild"
  /\ IF Clashes(registry) THEN End(Sighup)
     ELSE /\ new' = [new EXCEPT ![Sighup] = registry]
          /\ Goto(Sighup, "lookup") /\ UNCHANGED holder
  /\ UNCHANGED <<fileVars, stateVars, listenVars, pending, countVars, torn>>

SwapLookup ==
  /\ pc[Sighup] = "lookup"
  /\ lookup' = new[Sighup]
  /\ Goto(Sighup, "placeholders")
  /\ UNCHANGED <<fileVars, stateVars, placeholders, holder, pending, new, countVars, torn>>

SwapPlaceholders ==
  /\ pc[Sighup] = "placeholders"
  /\ placeholders' = new[Sighup]
  /\ End(Sighup)
  /\ UNCHANGED <<fileVars, stateVars, lookup, pending, countVars, torn>>
-----------------------------------------------------------------------------
(* The operator *)

Edit ==
  /\ file <= MaxEdits
  /\ file' = file + 1
  /\ UNCHANGED <<by, content, stateVars, listenVars, holder, pending, pc, new, countVars, torn>>

Signal ==
  /\ by # "http" /\ signals < MaxSignals
  /\ signals' = signals + 1 /\ pending' = TRUE
  /\ UNCHANGED <<fileVars, stateVars, listenVars, holder, pc, new, reloads, torn>>
-----------------------------------------------------------------------------
Reload(r) ==
  \/ ReadFile(r) \/ Count(r) \/ SwapRegistry(r) \/ SwapClients(r) \/ ClearFolder(r)

Serve == Receive \/ Reload(Sighup) \/ Rebuild \/ SwapLookup \/ SwapPlaceholders

Next ==
  \/ \E c \in Caller : Ask(c) \/ Acquire(c) \/ TimeOut(c) \/ Drop(c) \/ Reload(c)
  \/ Serve
  \/ Edit \/ Signal

Spec == Init /\ [][Next]_vars

\* Tasks run: the locks of a reload are held for an assignment each.
Fairness == WF_vars(Serve)

FairSpec == Spec /\ Fairness
-----------------------------------------------------------------------------
(* Properties *)

Quiet == \A r \in Reloader : pc[r] \in {"idle", "lock"}

\* Between reloads, registry and clients are of one version of the file: a
\* service with a custom CA is not sent to with the default client.  Only a
\* handler dropped between the two swaps leaves them apart, until the next
\* reload.
RegistryMatchesClients == Quiet /\ ~torn => registry = clients

\* No reload replaces services by none, not even one that looked at the
\* registry when it had none yet.
NeverEmptied == [][~NoServices(registry) => ~NoServices(registry')]_vars

\* A reload never puts back an older version of the file.
NeverOlder == [][registry' >= registry]_vars

\* A reload moves the registry forward, and not into having no services.
GoesForward == NeverOlder /\ NeverEmptied

\* A SIGHUP takes the transparent listener along: where nothing else reloads,
\* it follows the registry, unless it cannot be built from it.  (A reload
\* over HTTP leaves it behind until the next SIGHUP.)
ListenerFollows ==
  by = "signal" /\ Quiet /\ ~Clashes(registry) =>
    lookup = registry /\ placeholders = registry

\* As long as reloads come over HTTP, or by SIGHUP, but not both, one is under
\* way at a time: the callers have the mutex, the SIGHUP task is alone.
OneReload ==
  /\ by = "signal" => \A c \in Caller : pc[c] = "idle"
  /\ by = "http" => pc[Sighup] = "idle" /\ ~pending
  /\ pc[Sighup] # "lock"
  /\ \A c \in Caller : /\ pc[c] \notin {"idle", "lock"} => holder = c
                       /\ pc[c] \notin {"rebuild", "lookup", "placeholders"}

\* Until it swaps, what it has read is as new as the registry, and its look at
\* the registry holds; between the swaps the registry is its own.
UnderWay ==
  \A r \in Reloader :
    /\ pc[r] \in {"count", "registry"} => registry <= new[r]
    /\ pc[r] = "registry" => ~Empties(r)
    /\ pc[r] = "clients" => registry = new[r]

SwapsAgree ==
  ~torn /\ (\A r \in Reloader : pc[r] # "clients") => registry = clients

\* The listener has the registry up to the swap of the registry, and from the
\* swap of its own tables on.
ListenerInStep ==
  by = "signal" =>
    /\ pc[Sighup] \in {"idle", "file", "count", "registry"} /\ ~Clashes(registry) =>
         lookup = registry /\ placeholders = registry
    /\ pc[Sighup] \in {"lookup", "placeholders"} => new[Sighup] = registry
    /\ pc[Sighup] = "placeholders" => lookup = registry

\* The three tables that a reload replaces, in the middle of one and between two.
ReloadInv ==
  /\ TypeOK /\ OneReload /\ UnderWay /\ SwapsAgree /\ ListenerInStep
  /\ RegistryMatchesClients /\ ListenerFollows

\* A signal is served with the file as it is then or later, also when it
\* arrives while another one is served, unless the file has lost its services.
SignalServed ==
  \A v \in Version :
    pending /\ file = v ~> registry >= v \/ NoServices(file)
=============================================================================
