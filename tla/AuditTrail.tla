----------------------------- MODULE AuditTrail -----------------------------
(***************************************************************************)
(* The audit log (src/src/security/audit_log.rs), the safe write of its    *)
(* file (secure.rs) and its network sink (audit_sinks_http.rs).            *)
(*                                                                         *)
(* log() hands the entry to the sink, adds it to a bounded list under a    *)
(* mutex, and outside the mutex appends what fell out of the list to an    *)
(* archive and, every SaveEvery entries, writes the list it has copied.    *)
(* Several threads do this at once, and all of them write the same         *)
(* temporary file, which is named after the process.                       *)
(*                                                                         *)
(* An entry is its number in the order in which log() was called.          *)
(***************************************************************************)
EXTENDS Naturals, Sequences, FiniteSets, Functions

CONSTANTS
  Thread,        \* the threads that log
  MaxEntries,    \* MAX_ENTRIES, of the list
  SaveEvery,     \* the calls between two saves, 10 in the code
  Capacity,      \* CHANNEL_CAPACITY
  MaxBatch,      \* MAX_BATCH
  MaxLogged,     \* bound: the entries logged
  MaxFaults,     \* bound: crashes and failures
  Torn,          \* the content of a file that is not one whole list
  None           \* no file

VARIABLES
  pc,
  entry,             \* what the thread logs
  evicted,           \* what it has to archive
  snapshot,          \* what it has to save
  fd,                \* where the file it has opened is now
  list, count,       \* AuditState: the newest entry first, and write_count
  tmp, main, archive,    \* the files
  queue, batch,      \* the sink's channel, and what its task has collected
  logged,            \* the number of entries logged so far
  lost,              \* the entries that a crash or a failing disk has cost
  faults,
  disturbed         \* were two saves pending at once, or has a save failed?

threadVars == <<pc, entry, evicted, snapshot, fd>>
files == <<tmp, main, archive>>
sinkVars == <<queue, batch>>
vars == <<threadVars, list, count, files, sinkVars, logged, lost, faults, disturbed>>

Entry == 1..MaxLogged
Saving == {"open", "write", "rename"}
\* A file may be missing, or hold what no reader can parse.
Content(file) == file \in {Torn, None} \/ file \in Seq(Entry)

TypeOK ==
  /\ pc \in [Thread -> {"idle", "lock", "archive"} \union Saving]
  /\ entry \in [Thread -> 0..MaxLogged] /\ evicted \in [Thread -> SUBSET Entry]
  /\ \A t \in Thread : snapshot[t] \in Seq(Entry)
  /\ fd \in [Thread -> {"none", "tmp", "main", "gone"}]
  /\ list \in Seq(Entry) /\ Len(list) <= MaxEntries /\ count \in 0..(SaveEvery - 1)
  /\ Content(tmp) /\ Content(main) /\ archive \subseteq Entry
  /\ queue \in Seq(Entry) /\ Len(queue) <= Capacity
  /\ batch \in Seq(Entry) /\ Len(batch) <= MaxBatch
  /\ logged \in 0..MaxLogged /\ lost \subseteq Entry
  /\ faults \in 0..MaxFaults /\ disturbed \in BOOLEAN
-----------------------------------------------------------------------------
Init ==
  /\ pc = [t \in Thread |-> "idle"] /\ entry = [t \in Thread |-> 0]
  /\ evicted = [t \in Thread |-> {}] /\ snapshot = [t \in Thread |-> << >>]
  /\ fd = [t \in Thread |-> "none"]
  /\ list = << >> /\ count = 0
  /\ tmp = None /\ main = None /\ archive = {}
  /\ queue = << >> /\ batch = << >>
  /\ logged = 0 /\ lost = {} /\ faults = 0 /\ disturbed = FALSE

Set(var, t, v) == [var EXCEPT ![t] = v]
Goto(t, place) == pc' = Set(pc, t, place)
Fault == faults < MaxFaults /\ faults' = faults + 1
-----------------------------------------------------------------------------
(* AuditLog::log *)

\* The sinks first: an entry that finds the channel full is dropped.
Emit(t) ==
  /\ pc[t] = "idle" /\ logged < MaxLogged /\ Goto(t, "lock")
  /\ logged' = logged + 1 /\ entry' = Set(entry, t, logged + 1)
  /\ queue' = IF Len(queue) < Capacity THEN Append(queue, logged + 1) ELSE queue
  /\ UNCHANGED <<evicted, snapshot, fd, list, count, files, batch, lost, faults, disturbed>>

Pushed(t) == <<entry[t]>> \o list
Full(t) == Len(Pushed(t)) > MaxEntries

Due == count + 1 >= SaveEvery

\* The critical section.
Push(t) ==
  LET kept == IF Full(t) THEN SubSeq(Pushed(t), 1, Len(list)) ELSE Pushed(t) IN
  /\ pc[t] = "lock"
  /\ list' = kept /\ count' = IF Due THEN 0 ELSE count + 1
  /\ evicted' = Set(evicted, t, Range(Pushed(t)) \ Range(kept))
  /\ snapshot' = Set(snapshot, t, IF Due THEN kept ELSE << >>)
  /\ entry' = Set(entry, t, 0)
  /\ Goto(t, IF Full(t) THEN "archive" ELSE IF Due THEN "open" ELSE "idle")
  /\ UNCHANGED <<fd, files, sinkVars, logged, lost, faults, disturbed>>

\* Mutant: what falls out of the list is archived only with a save.
ArchiveWithSave(t) ==
  /\ pc[t] = "archive"
  /\ archive' = IF snapshot[t] # << >> THEN archive \union evicted[t] ELSE archive
  /\ evicted' = Set(evicted, t, {})
  /\ Goto(t, IF snapshot[t] # << >> THEN "open" ELSE "idle")
  /\ UNCHANGED <<entry, snapshot, fd, list, count, tmp, main, sinkVars, logged, lost, faults,
                 disturbed>>

Archive(t) ==
  /\ pc[t] = "archive"
  /\ \/ archive' = archive \union evicted[t] /\ UNCHANGED <<lost, faults>>
     \/ lost' = lost \union evicted[t] /\ Fault /\ UNCHANGED archive
  /\ evicted' = Set(evicted, t, {})
  /\ Goto(t, IF snapshot[t] # << >> THEN "open" ELSE "idle")
  /\ UNCHANGED <<entry, snapshot, fd, list, count, tmp, main, sinkVars, logged, disturbed>>
-----------------------------------------------------------------------------
(* save_impl: safe_write_config *)

\* The temporary file is made, or the one another thread is writing is emptied.
Open(t) ==
  /\ pc[t] = "open" /\ Goto(t, "write")
  /\ tmp' = Torn /\ fd' = Set(fd, t, "tmp")
  /\ disturbed' = (disturbed \/ \E u \in Thread \ {t} : snapshot[u] # << >>)
  /\ UNCHANGED <<entry, evicted, snapshot, list, count, main, archive, sinkVars, logged, lost,
                 faults>>

\* What a write leaves in a file that another thread may have written as well.
Leaves(t, old) == IF old = Torn THEN {snapshot[t]} ELSE {snapshot[t], Torn}

Write(t) ==
  /\ pc[t] = "write" /\ Goto(t, "rename")
  /\ \/ fd[t] = "tmp" /\ tmp' \in Leaves(t, tmp) /\ UNCHANGED main
     \/ fd[t] = "main" /\ main' \in Leaves(t, main) /\ UNCHANGED tmp
     \/ fd[t] = "gone" /\ UNCHANGED <<tmp, main>>
  /\ UNCHANGED <<entry, evicted, snapshot, fd, list, count, archive, sinkVars, logged, lost,
                 faults, disturbed>>

Saved(t) == Goto(t, "idle") /\ snapshot' = Set(snapshot, t, << >>)

\* The name is given to whatever file is there; there may be none any more.
Rename(t) ==
  /\ pc[t] = "rename" /\ Saved(t)
  /\ IF tmp = None THEN UNCHANGED <<tmp, main>> /\ fd' = Set(fd, t, "none")
     ELSE /\ main' = tmp /\ tmp' = None
          /\ fd' = [u \in Thread |-> CASE u = t -> "none" [] fd[u] = "tmp" -> "main"
                                       [] fd[u] = "main" -> "gone" [] OTHER -> fd[u]]
  /\ UNCHANGED <<entry, evicted, list, count, archive, sinkVars, logged, lost, faults, disturbed>>

\* A full disk: the temporary file is removed, and the error is logged.
SaveFails(t) ==
  /\ pc[t] \in Saving /\ Fault /\ Saved(t) /\ tmp' = None
  /\ fd' = [u \in Thread |-> CASE u = t -> "none" [] fd[u] = "tmp" -> "gone" [] OTHER -> fd[u]]
  /\ UNCHANGED <<entry, evicted, list, count, main, archive, sinkVars, logged, lost>>
  /\ disturbed' = TRUE
-----------------------------------------------------------------------------
(* the end of the process, and AuditLog::new *)

\* Drop for AuditLog saves once more.
DropSaved == list

Loaded(content) == IF content \in {None, Torn} THEN << >> ELSE content

\* The process starts again with what is in its file.
Restart(content) ==
  /\ main' = content /\ list' = Loaded(content) /\ count' = 0
  /\ pc' = [t \in Thread |-> "idle"] /\ entry' = [t \in Thread |-> 0]
  /\ evicted' = [t \in Thread |-> {}] /\ snapshot' = [t \in Thread |-> << >>]
  /\ fd' = [t \in Thread |-> "none"] /\ tmp' = None
  /\ queue' = << >> /\ batch' = << >>

InHand == UNION {evicted[t] \union ({entry[t]} \ {0}) : t \in Thread}

Crash ==
  /\ Fault /\ Restart(main)
  /\ lost' = lost \union ((InHand \union Range(list)) \ (Range(Loaded(main)) \union archive))
  /\ UNCHANGED <<archive, logged, disturbed>>

Stop ==
  /\ \A t \in Thread : pc[t] = "idle"
  /\ logged > 0 /\ Restart(DropSaved)
  /\ UNCHANGED <<archive, logged, lost, faults, disturbed>>
-----------------------------------------------------------------------------
(* HttpSink *)

Collect ==
  /\ queue # << >> /\ Len(batch) < MaxBatch
  /\ batch' = Append(batch, Head(queue)) /\ queue' = Tail(queue)
  /\ UNCHANGED <<threadVars, list, count, files, logged, lost, faults, disturbed>>

\* A full batch, or the deadline; whatever is answered, the batch is dropped.
Flush ==
  /\ batch # << >> /\ batch' = << >>
  /\ UNCHANGED <<threadVars, list, count, files, queue, logged, lost, faults, disturbed>>
-----------------------------------------------------------------------------
Log(t) == Push(t) \/ Archive(t) \/ Open(t) \/ Write(t) \/ Rename(t)

Next ==
  \/ \E t \in Thread : Emit(t) \/ Log(t) \/ SaveFails(t)
  \/ Crash \/ Stop \/ Collect \/ Flush

Spec == Init /\ [][Next]_vars
-----------------------------------------------------------------------------
(* properties *)

\* log() says that high-frequency traffic "does not lose audit history": each
\* entry is in the list, in the archive, or in the hands of the thread that logs
\* it or moves it; across restarts, nothing is gone but what a crash or a failing
\* disk has cost.
HistoryKept == 1..logged \subseteq Range(list) \union archive \union InHand \union lost

\* What a crash could cost at most: while no thread is saving, all entries but the
\* last SaveEvery - 1 are on the disk, across restarts, as long as no save has
\* failed and no two were pending at once: the list is copied under the mutex but
\* written outside it, and the older copy may be written last.
Durable ==
  (\A t \in Thread : pc[t] \in {"idle", "lock"}) /\ ~disturbed =>
    Cardinality(Range(list) \ (Range(Loaded(main)) \union archive)) <= SaveEvery - 1

\* "a mid-write crash, OOM kill, or container stop can never leave a truncated"
\* file (secure.rs:133): the file is always one somebody meant to write.
WholeFile == main # Torn
=============================================================================
