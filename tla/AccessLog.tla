------------------------------ MODULE AccessLog ------------------------------
(***************************************************************************)
(* The access log (src/src/access_log.rs): one line for each credential    *)
(* that is fetched, whose HMAC covers the event and the HMAC of the line   *)
(* before.  It is opened when the program starts, which makes its key on   *)
(* the first occasion, and written by many connections under one mutex.    *)
(*                                                                         *)
(* An event is its number; the HMAC of a line is the event and the chain   *)
(* of HMACs before it, that is, the sequence of the events it covers.      *)
(***************************************************************************)
EXTENDS Naturals, Sequences

CONSTANTS
  Conn,          \* the connections that record what they fetch
  MaxEvents,     \* bound: the events recorded
  MaxFaults,     \* bound: crashes and failing writes
  None

VARIABLES
  up,            \* the program: "down", "key", "log", "up" or "refused"
  key,           \* the key file: "none", "short" or "whole"
  lines,         \* the log file: a sequence of lines, each of the records in it
  ended,         \* does the file end with a newline?
  last,          \* Inner.last_hmac
  holder, pc,    \* who has locked Inner, and where that connection is
  events,        \* the number of events so far
  faults,
  hurt           \* has a crash or a failure come between two writes of one step?

vars == <<up, key, lines, ended, last, holder, pc, events, faults, hurt>>

Hmac == Seq(1..MaxEvents)
Stored == [prev : Hmac, hmac : Hmac]     \* StoredEvent

TypeOK ==
  /\ up \in {"down", "key", "log", "up", "refused"} /\ key \in {"none", "short", "whole"}
  /\ \A i \in DOMAIN lines : \A j \in DOMAIN lines[i] :
       lines[i][j].prev \in Hmac /\ lines[i][j].hmac \in Hmac
  /\ ended \in BOOLEAN /\ last \in Hmac
  /\ holder \in Conn \union {None} /\ pc \in {"line", "newline", "sync", "free"}
  /\ (holder = None) = (pc = "free") /\ (holder # None => up = "up")
  /\ events \in 0..MaxEvents /\ faults \in 0..MaxFaults /\ hurt \in BOOLEAN
-----------------------------------------------------------------------------
Init ==
  /\ up = "down" /\ key = "none" /\ lines = << >> /\ ended = TRUE /\ last = << >>
  /\ holder = None /\ pc = "free" /\ events = 0 /\ faults = 0 /\ hurt = FALSE

Fault == faults < MaxFaults /\ faults' = faults + 1
-----------------------------------------------------------------------------
(* AccessLog::open *)

\* load_or_generate_key, of which the file is created before it is written.
LoadKey ==
  /\ up = "down"
  /\ \/ key = "none" /\ key' = "short" /\ up' = "key"
     \/ key = "short" /\ up' = "refused" /\ UNCHANGED key
     \/ key = "whole" /\ up' = "log" /\ UNCHANGED key
  /\ UNCHANGED <<lines, ended, last, holder, pc, events, faults, hurt>>

WriteKey ==
  /\ up = "key" /\ key' = "whole" /\ up' = "log"
  /\ UNCHANGED <<lines, ended, last, holder, pc, events, faults, hurt>>

\* A line that holds two records, or a part of one, does not parse.
Part == [prev |-> << >>, hmac |-> << >>]
Parses(line) == Len(line) = 1 /\ line[1] # Part
Readable == \A i \in DOMAIN lines : Parses(lines[i])

\* The line that compute_last_hmac ends with.
LastLine == lines[Len(lines)]

\* Mutant: the chain starts anew with every start.
Afresh == << >>

\* compute_last_hmac
LastHmac == IF lines = << >> THEN << >> ELSE LastLine[1].hmac

OpenLog ==
  /\ up = "log"
  /\ IF Readable THEN up' = "up" /\ last' = LastHmac
     ELSE up' = "refused" /\ UNCHANGED last
  /\ UNCHANGED <<key, lines, ended, holder, pc, events, faults, hurt>>
-----------------------------------------------------------------------------
(* AccessLog::record *)

Begin(c) ==
  /\ up = "up" /\ holder = None /\ events < MaxEvents
  /\ holder' = c /\ pc' = "line" /\ events' = events + 1
  /\ UNCHANGED <<up, key, lines, ended, last, faults, hurt>>

Record == [prev |-> last, hmac |-> Append(last, events)]

\* The file is appended to, so a line without its newline is continued.
Appended ==
  IF ended THEN Append(lines, <<Record>>)
  ELSE [lines EXCEPT ![Len(lines)] = Append(@, Record)]

\* writeln! writes the line and its newline one after the other.
WriteLine ==
  /\ pc = "line" /\ pc' = "newline"
  /\ lines' = Appended /\ ended' = FALSE
  /\ UNCHANGED <<up, key, last, holder, events, faults, hurt>>

WriteNewline ==
  /\ pc = "newline" /\ pc' = "sync" /\ ended' = TRUE
  /\ UNCHANGED <<up, key, lines, last, holder, events, faults, hurt>>

Synced ==
  /\ pc = "sync" /\ pc' = "free" /\ holder' = None
  /\ last' = LastLine[Len(LastLine)].hmac
  /\ UNCHANGED <<up, key, lines, ended, events, faults, hurt>>

\* The error goes to the caller, who logs it and serves the credential.  What has
\* been written stays, a part of a line too, and so does last_hmac.
RecordFails ==
  /\ pc # "free" /\ Fault /\ pc' = "free" /\ holder' = None
  /\ \/ pc = "line" /\ ended /\ lines' = Append(lines, <<Part>>) /\ ended' = FALSE /\ hurt' = TRUE
     \/ UNCHANGED <<lines, ended>> /\ hurt' = (hurt \/ pc # "line")
  /\ UNCHANGED <<up, key, last, events>>

\* The process ends, and is started again until it refuses to start.
Crash ==
  /\ up \notin {"down", "refused"} /\ Fault /\ up' = "down"
  /\ holder' = None /\ pc' = "free" /\ last' = << >>
  /\ hurt' = (hurt \/ up = "key" \/ pc = "newline")
  /\ UNCHANGED <<key, lines, ended, events>>
-----------------------------------------------------------------------------
Next ==
  \/ LoadKey \/ WriteKey \/ OpenLog
  \/ \E c \in Conn : Begin(c)
  \/ WriteLine \/ WriteNewline \/ Synced \/ RecordFails \/ Crash

Spec == Init /\ [][Next]_vars
-----------------------------------------------------------------------------
(* properties *)

\* AccessLog::verify
Verified ==
  /\ Readable
  /\ \A i \in DOMAIN lines : lines[i][1].prev = IF i = 1 THEN << >> ELSE lines[i - 1][1].hmac

\* The log verifies, and the program starts with it, whatever connections write and
\* however often it stops; unless it stopped, or a write failed, in the middle of a
\* line or of the key.
ChainVerifies == ~hurt => Verified /\ up # "refused"
=============================================================================
