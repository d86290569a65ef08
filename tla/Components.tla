----------------------------- MODULE Components ------------------------------
(****************************************************************************)
(* Components that share no state with one another, for any constants: a    *)
(* behaviour is about one of them. Every variable has the name that it has  *)
(* in the module of its component; components with a name in common share   *)
(* the variable, which no behaviour needs for both.                         *)
(****************************************************************************)
EXTENDS Naturals, Sequences, FiniteSets

CONSTANTS
  \* CredentialRotation: its calls (Task, also those of EnvFile), the items that the
  \* socket serves (Hosted)
  Task, Hosted, MaxSeconds, MaxFaults,
  \* SessionSlots
  Request, Service, Cap, MaxChanges, SlotFaults,
  \* AuditTrail
  Thread, MaxEntries, SaveEvery, Capacity, MaxBatch, MaxLogged,
  \* AccessLog
  Conn, MaxEvents, LogFaults,
  \* RateLimiter
  Caller, Route, PerRoute, MaxRequests, Window,
  \* CredentialAudit: with the items it looks at (Cred)
  Scan, Apply, Cred, BulkLimit,
  \* Keystore: with the number of key pairs ever made
  Worker, NumKeys, MaxSeals,
  \* CredentialUse
  User, Credential,
  \* EnvFile: the secrets
  Phrase,
  \* TransparentProxy
  Agent, Listener, MaxEdits,
  \* MountHelper
  Helper, Slug, MountPoint,
  \* DashboardLogin: its clients (Viewer, also those of DashboardSettings), the limit
  \* of failures (Quota)
  Viewer, Password, Quota, MaxLogins,
  \* DashboardSettings
  MaxCalls,
  \* CloudSession
  Org, AccountChanges,
  \* Launcher
  Launch,
  \* ServiceFile
  ServiceEntry, Asked, MaxServices, FileEdits,
  \* no value, and what is cut off
  None, Torn

VARIABLES
  part,          \* the component that this behaviour is about
  \* of several components
  pc, job, got, site, items, cred, asked, read, faults, holder, fd, count,
  tmp, lost, up, key, keys, copy, server, mode, tried, built, home, changes,
  file, meant, clash, registry, table, edits, creds, calls, disk, tpm, unlock,
  \* of CredentialRotation
  current, new, wire, made, vault, timer, files, now, unheard,
  \* of SessionSlots
  service, at, slots, session, item,
  \* of AuditTrail
  entry, evicted, snapshot, list, main, archive, queue, batch, logged,
  disturbed,
  \* of AccessLog
  lines, ended, last, events, hurt,
  \* of RateLimiter
  age, swept, passed, refused,
  \* of CredentialAudit
  status, found, spc, apc, target, cur, cache, applied, spoilt, left, wronged,
  \* of Keystore
  pub, enc, sealed, tpmenc, poll, pollkey, password, seals, mixed, leftover,
  \* of CredentialUse
  index, first, folder, hand, scope, user, token, moved,
  \* of EnvFile
  base,
  \* of TransparentProxy
  blocks, speaks, pool, via, alpn, held, sent, broken,
  \* of MountHelper
  next, fstab, mounted,
  \* of DashboardLogin
  memory, keystore, sessions, attempts, guesses, replaced,
  \* of DashboardSettings
  phase, dash, live, saved,
  \* of CloudSession
  granted, account, clients, jobs, link, backoff, seen, told,
  \* of Launcher
  flaw, accepted, daemon, source, child, overlap,
  \* of ServiceFile
  loaded

Rotation == INSTANCE CredentialRotation WITH Call <- Task, Served <- Hosted
Slots == INSTANCE SessionSlots WITH MaxFaults <- SlotFaults
Trail == INSTANCE AuditTrail
Accesses == INSTANCE AccessLog WITH MaxFaults <- LogFaults
Limiter == INSTANCE RateLimiter
Audit == INSTANCE CredentialAudit WITH Item <- Cred
Keys == INSTANCE Keystore WITH MaxKeys <- NumKeys
Use == INSTANCE CredentialUse WITH Call <- User, Item <- Credential
Env == INSTANCE EnvFile WITH Call <- Task, Secret <- Phrase
Tls == INSTANCE TransparentProxy
Mount == INSTANCE MountHelper
Login == INSTANCE DashboardLogin WITH
  Client <- Viewer, Limit <- Quota, MaxCalls <- MaxLogins
Settings == INSTANCE DashboardSettings WITH Client <- Viewer
Cloud == INSTANCE CloudSession WITH MaxChanges <- AccountChanges
Launches == INSTANCE Launcher
Services == INSTANCE ServiceFile WITH Entry <- ServiceEntry, MaxEdits <- FileEdits

\* A call can tell a value from none, and a file's contents from none and from
\* what is left of a write cut short; bounds are numbers.
ASSUME RotationAssumption ==
  /\ MaxSeconds \in Nat /\ MaxFaults \in Nat
  /\ Hosted \subseteq Rotation!Item
  /\ None \notin Hosted /\ None \notin Rotation!Entry

ASSUME SlotsAssumption ==
  /\ MaxChanges \in Nat /\ SlotFaults \in Nat /\ Cap \in Nat
  /\ None \notin Request /\ None \notin Slots!Session

ASSUME TrailAssumption ==
  /\ MaxEntries \in Nat \ {0} /\ SaveEvery \in Nat \ {0}
  /\ Capacity \in Nat /\ MaxBatch \in Nat /\ MaxLogged \in Nat /\ MaxFaults \in Nat
  /\ None # Torn /\ None \notin Seq(Trail!Entry) /\ Torn \notin Seq(Trail!Entry)

ASSUME AccessAssumption ==
  MaxEvents \in Nat /\ LogFaults \in Nat /\ None \notin Conn

ASSUME UseAssumption == MaxChanges \in Nat

ASSUME EnvAssumption ==
  MaxFaults \in Nat /\ None # Torn /\ {None, Torn} \intersect Env!Content = {}

\* There is a listener that takes connections from the container.
ASSUME TlsAssumption ==
  MaxFaults \in Nat /\ MaxEdits \in Nat /\ "tcp" \in Listener /\ None \notin Tls!Protocol

ASSUME MountAssumption ==
  /\ MaxFaults \in Nat /\ None \notin MountPoint
  /\ None # Torn /\ {None, Torn} \intersect Mount!Content = {}

ASSUME LoginAssumption ==
  /\ IsFiniteSet(Viewer) /\ Viewer # {} /\ Quota \in Nat /\ Cap \in Nat \ {0}
  /\ Window \in Nat \ {0} /\ None \notin Password

ASSUME SettingsAssumption == MaxCalls \in Nat /\ None # "full"

\* A limit lets something through.
ASSUME LimiterAssumption ==
  /\ Window \in Nat \ {0} /\ MaxEntries \in Nat
  /\ \A k \in Limiter!Key : Limiter!Limit(k) \in Nat \ {0}

ASSUME AuditAssumption ==
  MaxFaults \in Nat /\ None \notin Cred /\ None # "running"

ASSUME KeysAssumption ==
  /\ NumKeys \in Nat /\ MaxSeals \in Nat /\ MaxFaults \in Nat
  /\ None \notin Nat /\ None \notin Keys!Job

ASSUME CloudAssumption ==
  AccountChanges \in Nat /\ None \notin Cloud!Client /\ None \notin Cloud!Profile

vars == <<part, pc, job, current, new, wire, got, site, made, vault, items,
  timer, files, now, cred, asked, read, faults, unheard, service, at, slots, session,
  holder, item, entry, evicted, snapshot, fd, list, count, tmp, main, archive,
  queue, batch, logged, lost, disturbed, up, key, lines, ended, last, events,
  hurt, keys, age, swept, passed, refused, status, found, spc, apc, target,
  cur, copy, server, cache, applied, spoilt, left, wronged, pub, enc, sealed,
  tpmenc, mode, poll, pollkey, password, tried, seals, built, mixed, leftover,
  home, index, first, folder, hand, scope, user, token, moved, changes, base,
  file, meant, clash,
  blocks, speaks, registry, table, pool, via, alpn, held, sent, broken, edits,
  next, fstab, creds, mounted, memory, keystore, sessions, attempts, calls,
  guesses, replaced, tpm, phase, dash, unlock, disk, live, saved, granted,
  account, clients, jobs, link, backoff, seen, told, flaw, accepted, daemon,
  source, child, overlap, loaded>>

Part == {"rotation", "slots", "trail", "accesses", "limiter", "audit", "keys",
  "use", "env", "tls", "mount", "login", "settings", "cloud", "launch",
  "services"}

\* The variables that the component does not have.
Unused ==
  /\ part \notin {"rotation", "slots", "trail", "accesses", "use", "env",
       "tls", "mount", "login", "settings", "launch"} =>
       pc = None
  /\ part \notin {"rotation", "keys", "use", "env", "mount", "login",
       "settings"} =>
       job = None
  /\ part # "rotation" =>
       current = None /\ new = None /\ wire = None /\ made = None
       /\ vault = None /\ timer = None /\ files = None /\ now = None
       /\ unheard = None
  /\ part \notin {"rotation", "use"} =>
       got = None
  /\ part \notin {"rotation", "slots"} =>
       site = None
  /\ part \notin {"rotation", "use", "launch"} =>
       items = None
  /\ part \notin {"rotation", "slots", "keys"} =>
       cred = None
  /\ part \notin {"rotation", "audit"} =>
       asked = None
  /\ part \notin {"rotation", "settings"} =>
       read = None
  /\ part \notin {"rotation", "slots", "trail", "accesses", "audit", "keys",
       "use", "env", "tls", "mount", "login", "settings", "cloud", "launch"} =>
       faults = None
  /\ part # "slots" =>
       service = None /\ at = None /\ slots = None /\ session = None
       /\ item = None
  /\ part \notin {"slots", "accesses"} =>
       holder = None
  /\ part # "trail" =>
       entry = None /\ evicted = None /\ snapshot = None /\ list = None
       /\ main = None /\ archive = None /\ queue = None /\ batch = None
       /\ logged = None /\ disturbed = None
  /\ part \notin {"trail", "env", "mount"} =>
       fd = None /\ tmp = None
  /\ part \notin {"trail", "limiter"} =>
       count = None
  /\ part \notin {"trail", "launch"} =>
       lost = None
  /\ part \notin {"accesses", "services"} =>
       up = None
  /\ part \notin {"accesses", "launch"} =>
       key = None
  /\ part # "accesses" =>
       lines = None /\ ended = None /\ last = None /\ events = None
       /\ hurt = None
  /\ part \notin {"limiter", "keys", "launch"} =>
       keys = None
  /\ part # "limiter" =>
       age = None /\ swept = None /\ passed = None /\ refused = None
  /\ part # "audit" =>
       status = None /\ found = None /\ spc = None /\ apc = None
       /\ target = None /\ cur = None /\ cache = None /\ applied = None
       /\ spoilt = None /\ left = None /\ wronged = None
  /\ part \notin {"audit", "launch"} =>
       copy = None
  /\ part \notin {"audit", "use"} =>
       server = None
  /\ part # "keys" =>
       pub = None /\ enc = None /\ sealed = None /\ tpmenc = None
       /\ poll = None /\ pollkey = None /\ password = None /\ seals = None
       /\ mixed = None /\ leftover = None
  /\ part \notin {"keys", "tls"} =>
       mode = None
  /\ part \notin {"keys", "settings"} =>
       tried = None
  /\ part \notin {"keys", "services"} =>
       built = None
  /\ part \notin {"use", "settings"} =>
       home = None
  /\ part # "use" =>
       index = None /\ first = None /\ folder = None /\ hand = None
       /\ scope = None /\ user = None /\ token = None /\ moved = None
  /\ part \notin {"use", "cloud", "launch"} =>
       changes = None
  /\ part # "env" =>
       base = None
  /\ part \notin {"env", "login", "services"} =>
       file = None
  /\ part \notin {"env", "mount"} =>
       meant = None
  /\ part \notin {"env", "mount", "settings"} =>
       clash = None
  /\ part # "tls" =>
       blocks = None /\ speaks = None /\ pool = None /\ via = None
       /\ alpn = None /\ held = None /\ sent = None /\ broken = None
  /\ part \notin {"tls", "services"} =>
       registry = None /\ table = None /\ edits = None
  /\ part # "mount" =>
       next = None /\ fstab = None /\ mounted = None
  /\ part \notin {"mount", "cloud"} =>
       creds = None
  /\ part # "login" =>
       memory = None /\ keystore = None /\ sessions = None /\ attempts = None
       /\ guesses = None /\ replaced = None
  /\ part \notin {"login", "settings"} =>
       calls = None /\ tpm = None /\ unlock = None
  /\ part # "settings" =>
       phase = None /\ dash = None /\ live = None /\ saved = None
  /\ part \notin {"settings", "services"} =>
       disk = None
  /\ part # "cloud" =>
       granted = None /\ account = None /\ clients = None /\ jobs = None
       /\ link = None /\ backoff = None /\ seen = None /\ told = None
  /\ part # "launch" =>
       flaw = None /\ accepted = None /\ daemon = None /\ source = None
       /\ child = None /\ overlap = None
  /\ part # "services" =>
       loaded = None

Resting ==
  /\ UNCHANGED part
  /\ IF part \notin {"rotation", "slots", "trail", "accesses", "use", "env",
       "tls", "mount", "login", "settings", "launch"}
     THEN UNCHANGED <<pc>> ELSE TRUE
  /\ IF part \notin {"rotation", "keys", "use", "env", "mount", "login",
       "settings"}
     THEN UNCHANGED <<job>> ELSE TRUE
  /\ IF part # "rotation"
     THEN UNCHANGED <<current, new, wire, made, vault, timer, files, now, unheard>>
     ELSE TRUE
  /\ IF part \notin {"rotation", "use"}
     THEN UNCHANGED <<got>> ELSE TRUE
  /\ IF part \notin {"rotation", "slots"}
     THEN UNCHANGED <<site>> ELSE TRUE
  /\ IF part \notin {"rotation", "use", "launch"}
     THEN UNCHANGED <<items>> ELSE TRUE
  /\ IF part \notin {"rotation", "slots", "keys"}
     THEN UNCHANGED <<cred>> ELSE TRUE
  /\ IF part \notin {"rotation", "audit"}
     THEN UNCHANGED <<asked>> ELSE TRUE
  /\ IF part \notin {"rotation", "settings"}
     THEN UNCHANGED <<read>> ELSE TRUE
  /\ IF part \notin {"rotation", "slots", "trail", "accesses", "audit",
       "keys", "use", "env", "tls", "mount", "login", "settings", "cloud",
       "launch"}
     THEN UNCHANGED <<faults>> ELSE TRUE
  /\ IF part # "slots"
     THEN UNCHANGED <<service, at, slots, session, item>> ELSE TRUE
  /\ IF part \notin {"slots", "accesses"}
     THEN UNCHANGED <<holder>> ELSE TRUE
  /\ IF part # "trail"
     THEN UNCHANGED <<entry, evicted, snapshot, list, main, archive, queue,
       batch, logged, disturbed>> ELSE TRUE
  /\ IF part \notin {"trail", "env", "mount"}
     THEN UNCHANGED <<fd, tmp>> ELSE TRUE
  /\ IF part \notin {"trail", "limiter"}
     THEN UNCHANGED <<count>> ELSE TRUE
  /\ IF part \notin {"trail", "launch"}
     THEN UNCHANGED <<lost>> ELSE TRUE
  /\ IF part \notin {"accesses", "services"}
     THEN UNCHANGED <<up>> ELSE TRUE
  /\ IF part \notin {"accesses", "launch"}
     THEN UNCHANGED <<key>> ELSE TRUE
  /\ IF part # "accesses"
     THEN UNCHANGED <<lines, ended, last, events, hurt>> ELSE TRUE
  /\ IF part \notin {"limiter", "keys", "launch"}
     THEN UNCHANGED <<keys>> ELSE TRUE
  /\ IF part # "limiter"
     THEN UNCHANGED <<age, swept, passed, refused>> ELSE TRUE
  /\ IF part # "audit"
     THEN UNCHANGED <<status, found, spc, apc, target, cur, cache, applied,
       spoilt, left, wronged>> ELSE TRUE
  /\ IF part \notin {"audit", "launch"}
     THEN UNCHANGED <<copy>> ELSE TRUE
  /\ IF part \notin {"audit", "use"}
     THEN UNCHANGED <<server>> ELSE TRUE
  /\ IF part # "keys"
     THEN UNCHANGED <<pub, enc, sealed, tpmenc, poll, pollkey, password,
       seals, mixed, leftover>> ELSE TRUE
  /\ IF part \notin {"keys", "tls"}
     THEN UNCHANGED <<mode>> ELSE TRUE
  /\ IF part \notin {"keys", "settings"}
     THEN UNCHANGED <<tried>> ELSE TRUE
  /\ IF part \notin {"keys", "services"}
     THEN UNCHANGED <<built>> ELSE TRUE
  /\ IF part \notin {"use", "settings"}
     THEN UNCHANGED <<home>> ELSE TRUE
  /\ IF part # "use"
     THEN UNCHANGED <<index, first, folder, hand, scope, user, token, moved>> ELSE TRUE
  /\ IF part \notin {"use", "cloud", "launch"}
     THEN UNCHANGED <<changes>> ELSE TRUE
  /\ IF part # "env"
     THEN UNCHANGED <<base>> ELSE TRUE
  /\ IF part \notin {"env", "login", "services"}
     THEN UNCHANGED <<file>> ELSE TRUE
  /\ IF part \notin {"env", "mount"}
     THEN UNCHANGED <<meant>> ELSE TRUE
  /\ IF part \notin {"env", "mount", "settings"}
     THEN UNCHANGED <<clash>> ELSE TRUE
  /\ IF part # "tls"
     THEN UNCHANGED <<blocks, speaks, pool, via, alpn, held, sent, broken>>
     ELSE TRUE
  /\ IF part \notin {"tls", "services"}
     THEN UNCHANGED <<registry, table, edits>> ELSE TRUE
  /\ IF part # "mount"
     THEN UNCHANGED <<next, fstab, mounted>> ELSE TRUE
  /\ IF part \notin {"mount", "cloud"}
     THEN UNCHANGED <<creds>> ELSE TRUE
  /\ IF part # "login"
     THEN UNCHANGED <<memory, keystore, sessions, attempts, guesses, replaced>>
     ELSE TRUE
  /\ IF part \notin {"login", "settings"}
     THEN UNCHANGED <<calls, tpm, unlock>> ELSE TRUE
  /\ IF part # "settings"
     THEN UNCHANGED <<phase, dash, live, saved>> ELSE TRUE
  /\ IF part \notin {"settings", "services"}
     THEN UNCHANGED <<disk>> ELSE TRUE
  /\ IF part # "cloud"
     THEN UNCHANGED <<granted, account, clients, jobs, link, backoff, seen,
       told>> ELSE TRUE
  /\ IF part # "launch"
     THEN UNCHANGED <<flaw, accepted, daemon, source, child, overlap>>
     ELSE TRUE
  /\ IF part # "services"
     THEN UNCHANGED <<loaded>> ELSE TRUE

Init ==
  \/ part = "rotation" /\ Rotation!Init /\ Unused
  \/ part = "slots" /\ Slots!Init /\ Unused
  \/ part = "trail" /\ Trail!Init /\ Unused
  \/ part = "accesses" /\ Accesses!Init /\ Unused
  \/ part = "limiter" /\ Limiter!Init /\ Unused
  \/ part = "audit" /\ Audit!Init /\ Unused
  \/ part = "keys" /\ Keys!Init /\ Unused
  \/ part = "use" /\ Use!Init /\ Unused
  \/ part = "env" /\ Env!Init /\ Unused
  \/ part = "tls" /\ Tls!Init /\ Unused
  \/ part = "mount" /\ Mount!Init /\ Unused
  \/ part = "login" /\ Login!Init /\ Unused
  \/ part = "settings" /\ Settings!Init /\ Unused
  \/ part = "cloud" /\ Cloud!Init /\ Unused
  \/ part = "launch" /\ Launches!Init /\ Unused
  \/ part = "services" /\ Services!Init /\ Unused

Next ==
  \/ part = "rotation" /\ Rotation!Next /\ Resting
  \/ part = "slots" /\ Slots!Next /\ Resting
  \/ part = "trail" /\ Trail!Next /\ Resting
  \/ part = "accesses" /\ Accesses!Next /\ Resting
  \/ part = "limiter" /\ Limiter!Next /\ Resting
  \/ part = "audit" /\ Audit!Next /\ Resting
  \/ part = "keys" /\ Keys!Next /\ Resting
  \/ part = "use" /\ Use!Next /\ Resting
  \/ part = "env" /\ Env!Next /\ Resting
  \/ part = "tls" /\ Tls!Next /\ Resting
  \/ part = "mount" /\ Mount!Next /\ Resting
  \/ part = "login" /\ Login!Next /\ Resting
  \/ part = "settings" /\ Settings!Next /\ Resting
  \/ part = "cloud" /\ Cloud!Next /\ Resting
  \/ part = "launch" /\ Launches!Next /\ Resting
  \/ part = "services" /\ Services!Next /\ Resting

Spec == Init /\ [][Next]_vars
------------------------------------------------------------------------------
\* The type invariant of each component.
TypeOK ==
  /\ part \in Part
  /\ part = "rotation" => Rotation!TypeOK
  /\ part = "slots" => Slots!TypeOK
  /\ part = "trail" => Trail!TypeOK
  /\ part = "accesses" => Accesses!TypeOK
  /\ part = "limiter" => Limiter!TypeOK
  /\ part = "audit" => Audit!TypeOK
  /\ part = "keys" => Keys!TypeOK
  /\ part = "use" => Use!TypeOK
  /\ part = "env" => Env!TypeOK
  /\ part = "tls" => Tls!TypeOK
  /\ part = "mount" => Mount!TypeOK
  /\ part = "login" => Login!TypeOK
  /\ part = "settings" => Settings!TypeOK
  /\ part = "cloud" => Cloud!TypeOK
  /\ part = "launch" => Launches!TypeOK
  /\ part = "services" => Services!TypeOK

\* The admin's new password is in the vault, in a recovery file or with its
\* call, and no call writes an older password over a newer one.
AdminPasswordSafe ==
  part = "rotation" =>
    /\ Rotation!AdminPasswordKept
    /\ Rotation!WritesTheLatest

\* A request is sent over a session of the credential it has read.
OwnCredential == part = "slots" => Slots!OwnCredential

\* No audit entry is lost but to a crash or a failing disk, and at rest a
\* crash would lose less than one save's worth.
TrailKept ==
  part = "trail" =>
    /\ Trail!HistoryKept
    /\ Trail!Durable

\* The access log verifies whatever crashes between its writes.
ChainVerifies == part = "accesses" => Accesses!ChainVerifies

\* No caller gets twice its limit through in a window's time, and only a
\* caller at its limit, or new to a full map, is refused.
LimitsFair ==
  part = "limiter" =>
    /\ Limiter!BudgetKept
    /\ Limiter!RefusedFairly

\* Only a completed run of the credential audit has verdicts, a scan is
\* refused only while another may be under way, and an item reported as
\* applied is marked in the vault.
AuditSound ==
  part = "audit" =>
    /\ Audit!VerdictsOfCompletedRuns
    /\ Audit!RefusedOnlyWhenBusy
    /\ Audit!AppliedIsMarked

\* A keystore made on its own opens with its password.
KeystoreOpens == part = "keys" => Keys!KeystoreOpens

\* A credential is used or written out only if its item was in the vault
\* folder when the call looked.
UsedInScope == part = "use" => Use!UsedInScope

\* Calls of write_env that do not overlap leave the file with every line they
\* meant, whatever crashes.
EnvKept == part = "env" => Env!EnvKept

\* A request reaches its upstream more often than once only as often as a
\* connection has failed it.
SentOncePerFailure == part = "tls" => Tls!SentOncePerFailure

\* Helpers that do not overlap leave an fstab with the administrator's lines
\* and theirs, whatever kills them.
FstabSound == part = "mount" => Mount!FstabSound

\* The guesses of a password in one window are bounded, and the password in
\* memory is that of the file.
LoginSound ==
  part = "login" =>
    /\ Login!GuessesBounded
    /\ Login!PasswordsAgree

\* What calls that did not overlap have saved is on disk.
SettingsKept == part = "settings" => Settings!SettingsKept

\* A cloud client that has synced has the keys of the account it has synced.
OrgKeysFollow == part = "cloud" => Cloud!OrgKeysFollow

\* Launches that do not overlap make one key, and a server that is started
\* has a key that is good.
LaunchSound ==
  part = "launch" =>
    /\ Launches!OneKeyMade
    /\ Launches!ChildHasKey

\* The registry and the listener's table have what the file they are of says,
\* and --check passes a file exactly if every entry of it counts.
FileServed == part = "services" => Services!FileServed

==============================================================================
