----------------------------- MODULE RateLimiter -----------------------------
(***************************************************************************)
(* The rate limiter (src/src/security/rate_limit.rs): a counter and the    *)
(* start of its window for each route and caller, in a map of bounded      *)
(* size.  A window starts with the first request after the last one has    *)
(* ended; a sweep, not more often than the clock ticks once, removes the   *)
(* windows that began four windows ago.                                    *)
(*                                                                         *)
(* Time is kept as ages, in ticks of GC_MIN_INTERVAL, so it needs no end.  *)
(***************************************************************************)
EXTENDS Naturals, Sequences, FiniteSets

CONSTANTS
  Caller,        \* the caller keys: X-Caller-Id or the client's address
  Route,         \* RATE_LIMITED_PATHS
  PerRoute,      \* per_route_limits: a function from some routes to limits
  MaxRequests,   \* the limit of the others
  Window,        \* the length of a window in ticks
  MaxEntries     \* MAX_CALLER_ENTRIES

Key == Route \X Caller
Limit(k) == IF k[1] \in DOMAIN PerRoute THEN PerRoute[k[1]] ELSE MaxRequests
MaxAge == 4 * Window

VARIABLES
  keys,          \* the keys of the map
  age, count,    \* of each key's window: the ticks since its start; its requests
  swept,         \* has the map been swept in this tick?
  passed,        \* how long ago each request of a window's time was let through, the
                 \* oldest first
  refused        \* whether the last request was refused, and whose it was

vars == <<keys, age, count, swept, passed, refused>>

Over(k) == Limit(k) + 1      \* bound: a count beyond this means the same

TypeOK ==
  /\ keys \subseteq Key /\ Cardinality(keys) <= MaxEntries
  /\ age \in [Key -> 0..MaxAge] /\ \A k \in Key : count[k] \in 0..Over(k)
  /\ swept \in BOOLEAN
  /\ passed \in [Key -> Seq(0..(Window - 1))]
  /\ refused \subseteq Key
-----------------------------------------------------------------------------
Init ==
  /\ keys = {} /\ age = [k \in Key |-> 0] /\ count = [k \in Key |-> 0]
  /\ swept = FALSE
  /\ passed = [k \in Key |-> << >>]
  /\ refused = {}

\* Mutant: the sweep removes a window while it still counts.
KeptShort == {k \in keys : age[k] < Window - 1}

Kept == {k \in keys : age[k] < MaxAge}
Swept == IF swept THEN keys ELSE Kept

\* Mutant: one caller too many.
FullLate(k) == k \notin Swept /\ Cardinality(Swept) > MaxEntries

Full(k) == k \notin Swept /\ Cardinality(Swept) >= MaxEntries

\* The window of k as the request finds it, and as it starts anew.
Expired(k) == k \notin Swept \/ age[k] >= Window
Counted(k) == IF Expired(k) THEN 1 ELSE IF count[k] < Over(k) THEN count[k] + 1 ELSE count[k]

\* The map after the sweep, with n for the count and a for the age of k.
Store(stored, k, a, n) ==
  /\ keys' = stored /\ swept' = TRUE
  /\ age' = [j \in Key |-> IF j \notin stored THEN 0 ELSE IF j = k THEN a ELSE age[j]]
  /\ count' = [j \in Key |-> IF j \notin stored THEN 0 ELSE IF j = k THEN n ELSE count[j]]

\* RateLimiter::check
Check(k) ==
  IF Full(k)
     THEN Store(Swept, k, 0, 0) /\ refused' = {k} /\ UNCHANGED passed
     ELSE LET allowed == Counted(k) <= Limit(k) IN
          /\ Store(Swept \union {k}, k, IF Expired(k) THEN 0 ELSE age[k], Counted(k))
          /\ passed' = IF allowed THEN [passed EXCEPT ![k] = Append(@, 0)] ELSE passed
          /\ refused' = IF allowed THEN {} ELSE {k}

\* A tick later: those that began the time of a window are out of it.
Later(ages) ==
  LET gone == Cardinality({i \in DOMAIN ages : ages[i] = Window - 1}) IN
  [i \in 1..(Len(ages) - gone) |-> ages[gone + i] + 1]

Tick ==
  /\ age' = [k \in Key |-> IF k \in keys /\ age[k] < MaxAge THEN age[k] + 1 ELSE age[k]]
  /\ passed' = [k \in Key |-> Later(passed[k])]
  /\ swept' = FALSE /\ refused' = {}
  /\ UNCHANGED <<keys, count>>

Next == Tick \/ \E k \in Key : Check(k)

Spec == Init /\ [][Next]_vars
-----------------------------------------------------------------------------
(* properties *)

Recent(k) == Len(passed[k])

\* In any time as long as a window, wherever it begins, a caller gets less than
\* twice its limit through, whatever the sweep does between the requests.
BudgetKept == \A k \in Key : Recent(k) < 2 * Limit(k)

\* A caller is refused only when it has just had its whole budget itself, or is a
\* new one and the map is full: the others cannot spend what is its own.
RefusedFairly ==
  \A k \in refused : Recent(k) >= Limit(k) \/ (k \notin keys /\ Cardinality(keys) >= MaxEntries)
=============================================================================
