--------------------------- MODULE CredentialAudit ---------------------------
(***************************************************************************)
(* The credential audit (src/src/credential_audit/): a scan asks an engine *)
(* which items are not needed any more and keeps its verdicts in a         *)
(* database; apply moves the items of a run to a review folder and writes  *)
(* a marker into their notes.  Several callers may scan and apply at once, *)
(* a caller may go away, the program may be started again.                 *)
(*                                                                         *)
(* A run has the name of the call that made it.  An item of the vault is   *)
(* whether it is in the review folder and whether its notes hold the       *)
(* marker; the vault writes whole items from the cached copy, and a        *)
(* refresh is one step here (VaultCache has the details).                  *)
(***************************************************************************)
EXTENDS Naturals, FiniteSets

CONSTANTS
  Scan, Apply,   \* the calls of scan_start and of apply
  Item,          \* the items of the vault
  BulkLimit,     \* the items that need no confirm_bulk (50 in the code)
  MaxFaults,     \* bound: callers that go, restarts and requests that fail
  None

VARIABLES
  status, found, \* audit_runs.status and audit_run_items of each run
  spc,           \* where each scan is
  asked,         \* the items each scan asks the engine about
  apc,           \* where each apply is
  target, cur,   \* the items each apply still has to mark, the one it marks
  copy,          \* the cached item it has read
  server, cache, \* the items in the vault and in VaultManager.items
  applied,       \* the items some apply has counted as applied
  spoilt,        \* the items a failed or interrupted mark has touched
  left,          \* the runs whose scan ended without saying so, since start-up
  wronged,       \* was a scan refused although nothing could be under way?
  faults

vars == <<status, found, spc, asked, apc, target, cur, copy, server, cache, applied,
          spoilt, left, wronged, faults>>

Status == {None, "running", "completed", "aborted_engine_error",
           "aborted_orphaned_restart"}
Cipher == [folder : BOOLEAN, marked : BOOLEAN]
Fresh == [folder |-> FALSE, marked |-> FALSE]

TypeOK ==
  /\ status \in [Scan -> Status] /\ found \in [Scan -> SUBSET Item]
  /\ spc \in [Scan -> {"start", "insert", "health", "engine", "store", "end"}]
  /\ asked \in [Scan -> SUBSET Item]
  /\ apc \in [Apply -> {"start", "mark", "sync", "notes", "write", "end"}]
  /\ target \in [Apply -> SUBSET Item] /\ cur \in [Apply -> Item \union {None}]
  /\ copy \in [Apply -> Cipher] /\ server \in [Item -> Cipher] /\ cache \in [Item -> Cipher]
  /\ applied \in SUBSET Item /\ spoilt \in SUBSET Item
  /\ left \in SUBSET Scan /\ wronged \in BOOLEAN /\ faults \in 0..MaxFaults
-----------------------------------------------------------------------------
Init ==
  /\ status = [s \in Scan |-> None] /\ found = [s \in Scan |-> {}]
  /\ spc = [s \in Scan |-> "start"] /\ apc = [a \in Apply |-> "start"]
  /\ asked = [s \in Scan |-> {}]
  /\ target = [a \in Apply |-> {}] /\ cur = [a \in Apply |-> None]
  /\ copy = [a \in Apply |-> Fresh]
  /\ server = [i \in Item |-> Fresh] /\ cache = [i \in Item |-> Fresh]
  /\ applied = {} /\ spoilt = {} /\ left = {} /\ wronged = FALSE /\ faults = 0

Fault == faults < MaxFaults /\ faults' = faults + 1
-----------------------------------------------------------------------------
(* Orchestrator::start_scan *)

runs == <<status, found, left, wronged>>
scans == <<spc, asked>>
vault == <<server, cache, applied, spoilt>>
applies == <<apc, target, cur, copy>>

Active == {s \in Scan : status[s] = "running"}
Alive(s) == spc[s] \in {"health", "engine", "store"}

\* The count of active runs; the lock is let go before the insert.
Count(s) ==
  /\ spc[s] = "start"
  /\ IF Active = {}
       THEN spc' = [spc EXCEPT ![s] = "insert"] /\ UNCHANGED wronged
       ELSE /\ spc' = [spc EXCEPT ![s] = "end"]
            /\ wronged' = (wronged \/ (left = {} /\ \A t \in Scan : ~ Alive(t)))
  /\ UNCHANGED <<asked, status, found, left, faults>> /\ UNCHANGED vault /\ UNCHANGED applies

Insert(s) ==
  /\ spc[s] = "insert"
  /\ status' = [status EXCEPT ![s] = "running"] /\ spc' = [spc EXCEPT ![s] = "health"]
  /\ UNCHANGED <<asked, found, left, wronged, faults>> /\ UNCHANGED vault /\ UNCHANGED applies

\* fail_run
FailRun(s) == status' = [status EXCEPT ![s] = "aborted_engine_error"]

\* VwAdapter::list_items_metadata: the items of the folder the audit is for, of
\* which those in the review folder are none.
Listed == {i \in Item : ~ cache[i].folder}

\* The engine answers the health check and the request is prepared, or the run
\* fails.
Health(s) ==
  /\ spc[s] = "health"
  /\ \/ /\ spc' = [spc EXCEPT ![s] = "engine"] /\ asked' = [asked EXCEPT ![s] = Listed]
        /\ UNCHANGED <<status, faults>>
     \/ Fault /\ FailRun(s) /\ spc' = [spc EXCEPT ![s] = "end"] /\ UNCHANGED asked
  /\ UNCHANGED <<found, left, wronged>> /\ UNCHANGED vault /\ UNCHANGED applies

\* EngineClient::run, of at most five minutes.
Engine(s) ==
  /\ spc[s] = "engine"
  /\ \/ spc' = [spc EXCEPT ![s] = "store"] /\ UNCHANGED <<status, faults>>
     \/ Fault /\ FailRun(s) /\ spc' = [spc EXCEPT ![s] = "end"]
  /\ UNCHANGED <<asked, found, left, wronged>> /\ UNCHANGED vault /\ UNCHANGED applies

\* The verdicts and the end of the run are one transaction; when it fails the
\* run stays as it is.
Store(s) ==
  /\ spc[s] = "store" /\ spc' = [spc EXCEPT ![s] = "end"]
  /\ \/ /\ \E I \in SUBSET asked[s] : found' = [found EXCEPT ![s] = I]
        /\ status' = [status EXCEPT ![s] = "completed"] /\ UNCHANGED <<left, faults>>
     \/ Fault /\ left' = left \union {s} /\ UNCHANGED <<status, found>>
  /\ UNCHANGED <<asked, wronged>> /\ UNCHANGED vault /\ UNCHANGED applies

\* The caller goes away: the handler is dropped where it waits.
Abandon(s) ==
  /\ spc[s] \in {"health", "engine"} /\ Fault
  /\ spc' = [spc EXCEPT ![s] = "end"] /\ left' = left \union {s}
  /\ UNCHANGED <<asked, status, found, wronged>> /\ UNCHANGED vault /\ UNCHANGED applies

\* cleanup_orphaned_runs
CleanedUp(s) == IF status[s] = "running" THEN "aborted_orphaned_restart" ELSE status[s]

\* The program ends and is started again; the cache is read afresh.
Restart ==
  /\ Fault /\ status' = [s \in Scan |-> CleanedUp(s)] /\ left' = {}
  /\ spc' = [s \in Scan |-> IF spc[s] = "start" THEN "start" ELSE "end"]
  /\ apc' = [a \in Apply |-> IF apc[a] = "start" THEN "start" ELSE "end"]
  /\ spoilt' = spoilt \union {cur[a] : a \in {b \in Apply : cur[b] # None}}
  /\ cur' = [a \in Apply |-> None] /\ target' = [a \in Apply |-> {}]
  /\ cache' = server
  /\ UNCHANGED <<asked, found, wronged, copy, server, applied>>
-----------------------------------------------------------------------------
(* Orchestrator::apply and Marker::mark *)

Pending(r) == found[r]                   \* list_pending

\* The run must exist; the items are those asked for, or all of them, for
\* which a confirmation is needed when they are many.  A dry run ends here.
Begin(a) ==
  /\ apc[a] = "start"
  /\ \E r \in Scan, ids \in (SUBSET Item) \union {None}, confirm, dry \in BOOLEAN :
       LET T == IF ids = None THEN Pending(r) ELSE Pending(r) \intersect ids IN
       /\ status[r] # None
       /\ IF (ids = None /\ Cardinality(T) > BulkLimit /\ ~ confirm) \/ dry \/ T = {}
            THEN apc' = [apc EXCEPT ![a] = "end"] /\ UNCHANGED <<target, cur>>
            ELSE \E i \in T : /\ cur' = [cur EXCEPT ![a] = i]
                              /\ target' = [target EXCEPT ![a] = T \ {i}]
                              /\ apc' = [apc EXCEPT ![a] = "mark"]
  /\ UNCHANGED <<spc, asked, copy, faults>> /\ UNCHANGED runs /\ UNCHANGED vault

\* The next item of the loop, after one that is marked or has failed.
Onward(a) ==
  IF target[a] = {}
    THEN apc' = [apc EXCEPT ![a] = "end"] /\ cur' = [cur EXCEPT ![a] = None] /\ UNCHANGED target
    ELSE \E i \in target[a] : /\ cur' = [cur EXCEPT ![a] = i]
                              /\ target' = [target EXCEPT ![a] = @ \ {i}]
                              /\ apc' = [apc EXCEPT ![a] = "mark"]

\* The write a mark is at, which may have reached the vault when it is cut off.
Halfway(a) ==
  \/ UNCHANGED server
  \/ apc[a] = "sync" /\ server' = [server EXCEPT ![cur[a]] = [copy[a] EXCEPT !.folder = TRUE]]
  \/ apc[a] = "write" /\ server' = [server EXCEPT ![cur[a]] = [copy[a] EXCEPT !.marked = TRUE]]

\* A request of this mark fails: the item is counted as failed.
MarkFails(a) ==
  /\ apc[a] \in {"mark", "sync", "write"} /\ Fault /\ Halfway(a)
  /\ spoilt' = spoilt \union {cur[a]} /\ Onward(a)
  /\ UNCHANGED <<spc, asked, copy, cache, applied>> /\ UNCHANGED runs

\* The caller of apply goes away.
Leave(a) ==
  /\ apc[a] \in {"mark", "sync", "write"} /\ Fault /\ Halfway(a)
  /\ spoilt' = spoilt \union {cur[a]} /\ apc' = [apc EXCEPT ![a] = "end"]
  /\ cur' = [cur EXCEPT ![a] = None] /\ target' = [target EXCEPT ![a] = {}]
  /\ UNCHANGED <<spc, asked, copy, cache, applied>> /\ UNCHANGED runs

\* The cached item is read; when it is in the folder nothing is moved.
Read(a) ==
  /\ apc[a] = "mark" /\ copy' = [copy EXCEPT ![a] = cache[cur[a]]]
  /\ apc' = [apc EXCEPT ![a] = IF cache[cur[a]].folder THEN "notes" ELSE "sync"]
  /\ UNCHANGED <<spc, asked, target, cur, faults>> /\ UNCHANGED runs /\ UNCHANGED vault

\* Mutant: the cache is not read again after the move.
NotReadAgain(i) == UNCHANGED <<cache, spoilt, faults>>
\* The whole item goes back to the vault with the new folder, and the cache is
\* read again, which may fail without a word.
AfterMove(i) == \/ cache' = server' /\ UNCHANGED <<spoilt, faults>>
                \/ Fault /\ spoilt' = spoilt \union {i} /\ UNCHANGED cache
Move(a) ==
  /\ apc[a] = "sync" /\ apc' = [apc EXCEPT ![a] = "notes"]
  /\ server' = [server EXCEPT ![cur[a]] = [copy[a] EXCEPT !.folder = TRUE]]
  /\ AfterMove(cur[a])
  /\ UNCHANGED <<spc, asked, target, cur, copy, applied>> /\ UNCHANGED runs

NeedsMarker(c) == ~ c.marked              \* build_marker_note

\* decrypt_notes_by_id: the notes as they are cached now.
Notes(a) ==
  /\ apc[a] = "notes"
  /\ IF NeedsMarker(cache[cur[a]])
       THEN /\ apc' = [apc EXCEPT ![a] = "write"] /\ copy' = [copy EXCEPT ![a] = cache[cur[a]]]
            /\ UNCHANGED <<applied, target, cur>>
       ELSE applied' = applied \union {cur[a]} /\ Onward(a) /\ UNCHANGED copy
  /\ UNCHANGED <<spc, asked, server, cache, spoilt, faults>> /\ UNCHANGED runs

\* update_notes_by_id: the whole item as it was cached, with the marker.
Write(a) ==
  /\ apc[a] = "write"
  /\ server' = [server EXCEPT ![cur[a]] = [copy[a] EXCEPT !.marked = TRUE]]
  /\ applied' = applied \union {cur[a]} /\ Onward(a)
  /\ UNCHANGED <<spc, asked, copy, cache, spoilt, faults>> /\ UNCHANGED runs

\* A sync of somebody else.
Refresh ==
  /\ cache # server /\ cache' = server
  /\ UNCHANGED <<spc, asked, server, applied, spoilt, faults>> /\ UNCHANGED runs /\ UNCHANGED applies
-----------------------------------------------------------------------------
Next ==
  \/ \E s \in Scan : \/ Count(s) \/ Insert(s) \/ Health(s) \/ Engine(s) \/ Store(s)
                     \/ Abandon(s)
  \/ \E a \in Apply : \/ Begin(a) \/ Read(a) \/ Move(a) \/ Notes(a) \/ Write(a)
                      \/ MarkFails(a) \/ Leave(a)
  \/ Restart \/ Refresh

Spec == Init /\ [][Next]_vars
-----------------------------------------------------------------------------
(* The verdicts of a run can be reviewed and applied only when the run is   *)
(* complete, whatever fails and whenever the program ends.                  *)
VerdictsOfCompletedRuns == \A s \in Scan : found[s] # {} => status[s] = "completed"

(* A scan is refused only while another is under way, or after one was left *)
(* as running since the program was started: what an earlier process left   *)
(* never stands in the way.                                                 *)
RefusedOnlyWhenBusy == ~ wronged

(* An item that apply has counted is in the review folder and carries the   *)
(* marker, also when several applies work on it and on stale copies, unless *)
(* a mark of it failed or was cut off, or is still at work.                 *)
AppliedIsMarked ==
  \A i \in applied \ spoilt :
    (\A a \in Apply : cur[a] # i) => server[i].folder /\ server[i].marked
=============================================================================
