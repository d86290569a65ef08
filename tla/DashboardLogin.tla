---------------------------- MODULE DashboardLogin ----------------------------
(***************************************************************************)
(* Who gets into the dashboard (src/src/dashboard/auth.rs, the handlers of *)
(* mod.rs, and configure, unlock and reset of api.rs).                     *)
(*                                                                         *)
(* A login is checked against a password that dashboard.json has and       *)
(* SessionStore keeps in memory; /setup sets both when there is none,      *)
(* /api/setup/configure makes a keystore and writes the file only.  An     *)
(* unlock is checked against the keystore's password, unless a key in the  *)
(* TPM opens the keystore whatever the password is, and logs in too.       *)
(* Too many wrong passwords within a window's time are refused, each kind  *)
(* on its own.  Handlers run side by side, and a password is hashed        *)
(* between the look at a counter and its increase.                         *)
(***************************************************************************)
EXTENDS Naturals, Sequences, FiniteSets

CONSTANTS
  Client,
  Password,
  Limit, Window, \* wrong passwords within so many ticks of the clock
  Cap,           \* MAX_SESSIONS
  MaxCalls,      \* bound: calls
  MaxFaults,     \* bound: restarts and failing disks
  None

Kind == {"login", "unlock"}

VARIABLES
  file, memory,  \* dashboard.json and SessionStore.hash
  keystore,      \* the password the keystore was made with
  tpm,           \* does a key that the TPM has sealed open it, too?
  unlock,        \* DashboardState.unlock_password, for the loop that waits for one
  sessions,      \* SessionStore.sessions, the oldest first: what each was opened with
  attempts,      \* failed_attempts and unlock_failed_attempts: how long ago
  pc, job,       \* where each client's call is, and its password
  calls, faults,
  guesses,       \* how long ago a wrong password was tried, of each kind
  replaced       \* was a password set although, or while, there is one?

callVars == <<pc, job>>
keyVars == <<keystore, tpm, unlock>>
vars == <<file, memory, keyVars, sessions, attempts, callVars, calls, faults,
          guesses, replaced>>

TypeOK ==
  /\ {file, memory, keystore, unlock} \subseteq Password \union {None}
  /\ tpm \in BOOLEAN
  /\ sessions \in Seq(Password) /\ Len(sessions) <= Cap
  /\ \A k \in Kind : {attempts[k], guesses[k]} \subseteq Seq(0..Window)
  /\ \A c \in Client : pc[c] \in {"idle", "login", "load", "verify", "failed", "unlock", "open",
                                  "shut", "setup", "file", "memory", "configure", "make",
                                  "dashboard"}
  /\ job \in [Client -> Password \union {None}]
  /\ calls \in 0..MaxCalls /\ faults \in 0..MaxFaults
  /\ replaced \in BOOLEAN
-----------------------------------------------------------------------------
Nothing == [k \in Kind |-> << >>]

Init ==
  /\ file = None /\ memory = None
  /\ keystore = None /\ tpm = FALSE /\ unlock = None
  /\ sessions = << >> /\ attempts = Nothing /\ guesses = Nothing
  /\ pc = [c \in Client |-> "idle"] /\ job = [c \in Client |-> None]
  /\ calls = 0 /\ faults = 0 /\ replaced = FALSE

Set(var, c, v) == [var EXCEPT ![c] = v]
Goto(c, place) == pc' = Set(pc, c, place)
Fault == faults < MaxFaults /\ faults' = faults + 1
Ended(c) == Goto(c, "idle") /\ job' = Set(job, c, None)

\* The oldest come first: those that a window's time lies behind are at the front.
Within(ages) ==
  SubSeq(ages, Cardinality({i \in DOMAIN ages : ages[i] >= Window}) + 1, Len(ages))

Later(ages) == [i \in DOMAIN ages |-> IF ages[i] < Window THEN ages[i] + 1 ELSE Window]

Tick ==
  /\ attempts' = [k \in Kind |-> Later(attempts[k])]
  /\ guesses' = [k \in Kind |-> Within(Later(guesses[k]))]
  /\ UNCHANGED <<file, memory, keyVars, sessions, callVars, calls, faults, replaced>>

\* A call that is not malformed and comes from the dashboard's own pages.
Begin(c) ==
  /\ pc[c] = "idle" /\ calls < MaxCalls /\ calls' = calls + 1
  /\ \E p \in Password : job' = Set(job, c, p)
  /\ \E place \in {"login", "unlock", "setup", "configure"} : Goto(c, place)
  /\ UNCHANGED <<file, memory, keyVars, sessions, attempts, faults, guesses, replaced>>
-----------------------------------------------------------------------------
(* SessionStore::login *)

Recent(ages) == Within(ages)

Full(k) == Len(Recent(attempts[k])) >= Limit

\* Lets one through whose kind has had fewer failures than the limit.
Limited(c, k, place) ==
  /\ attempts' = [attempts EXCEPT ![k] = Recent(@)]
  /\ IF Full(k) THEN Ended(c) ELSE Goto(c, place) /\ UNCHANGED job

LoginLimit(c) ==
  /\ pc[c] = "login" /\ Limited(c, "login", "load")
  /\ UNCHANGED <<file, memory, keyVars, sessions, calls, faults, guesses, replaced>>

\* A password that was set elsewhere is read once, when there is none in memory.
Load(c) ==
  /\ pc[c] = "load" /\ Goto(c, "verify")
  /\ memory' = IF memory = None THEN file ELSE memory
  /\ UNCHANGED <<file, keyVars, sessions, attempts, job, calls, faults, guesses, replaced>>

\* With the map full the session that expires first goes.
Opened(p) == Append(IF Len(sessions) >= Cap THEN Tail(sessions) ELSE sessions, p)

Guess(k) == guesses' = [guesses EXCEPT ![k] = Append(@, 0)]

Verify(c) ==
  /\ pc[c] = "verify"
  /\ \/ memory = None /\ Ended(c) /\ UNCHANGED <<sessions, guesses>>
     \/ memory = job[c] /\ sessions' = Opened(job[c]) /\ Ended(c) /\ UNCHANGED guesses
     \/ memory \notin {None, job[c]} /\ Guess("login") /\ Goto(c, "failed")
        /\ UNCHANGED <<sessions, job>>
  /\ UNCHANGED <<file, memory, keyVars, attempts, calls, faults, replaced>>

Recorded(k) == attempts' = [attempts EXCEPT ![k] = Append(@, 0)]

LoginFailed(c) ==
  /\ pc[c] = "failed" /\ Recorded("login") /\ Ended(c)
  /\ UNCHANGED <<file, memory, keyVars, sessions, calls, faults, guesses, replaced>>

\* is_valid and cleanup_expired: a day has passed.
Expire ==
  /\ sessions # << >> /\ sessions' = Tail(sessions)
  /\ UNCHANGED <<file, memory, keyVars, attempts, callVars, calls, faults,
                 guesses, replaced>>
-----------------------------------------------------------------------------
(* /setup and set_password *)

\* Is another call about to set a password or to take the file's, or has the file
\* one that nobody has taken?
Others(c) ==
  \/ \E d \in Client \ {c} : pc[d] \in {"load", "verify", "file", "memory", "dashboard"}
  \/ file # None /\ memory = None

\* Mutant: whether there is a password is not looked at.
SetupAgain(c) ==
  /\ pc[c] = "setup" /\ Goto(c, "file") /\ replaced' = (replaced \/ Others(c))
  /\ UNCHANGED <<file, memory, keyVars, sessions, attempts, job, calls, faults, guesses>>

Setup(c) ==
  /\ pc[c] = "setup"
  /\ IF memory # None THEN Ended(c) /\ UNCHANGED replaced
     ELSE Goto(c, "file") /\ replaced' = (replaced \/ Others(c)) /\ UNCHANGED job
  /\ UNCHANGED <<file, memory, keyVars, sessions, attempts, calls, faults, guesses>>

WriteFile(c) ==
  /\ pc[c] = "file" /\ Goto(c, "memory") /\ file' = job[c]
  /\ replaced' = (replaced \/ Others(c))
  /\ UNCHANGED <<memory, keyVars, sessions, attempts, job, calls, faults, guesses>>

WriteMemory(c) ==
  /\ pc[c] = "memory" /\ Goto(c, "login") /\ memory' = job[c]
  /\ UNCHANGED <<file, keyVars, sessions, attempts, job, calls, faults, guesses, replaced>>
-----------------------------------------------------------------------------
(* /api/setup *)

\* handle_configure: the credentials are tried first, which takes a while.
Configure(c) ==
  /\ pc[c] = "configure"
  /\ \/ keystore # None /\ Ended(c)
     \/ keystore = None /\ Goto(c, "make") /\ UNCHANGED job
  /\ UNCHANGED <<file, memory, keyVars, sessions, attempts, calls, faults,
                 guesses, replaced>>

\* run_web_setup, once Vaultwarden has accepted them.
MakeKeystore(c) ==
  /\ pc[c] = "make"
  /\ \/ /\ keystore' = job[c] /\ tpm' = FALSE /\ Goto(c, "dashboard")
        /\ UNCHANGED <<job, unlock>>
     \/ Ended(c) /\ UNCHANGED keyVars
  /\ UNCHANGED <<file, memory, sessions, attempts, calls, faults, guesses, replaced>>

\* The file alone: a password in memory stays. The loop that waits is given it.
WriteDashboard(c) ==
  /\ pc[c] = "dashboard" /\ Ended(c) /\ file' = job[c]
  /\ replaced' = (replaced \/ memory # None \/ Others(c)) /\ unlock' = job[c]
  /\ UNCHANGED <<memory, keystore, tpm, sessions, attempts, calls, faults, guesses>>

\* handle_reset removes the sealed key too, and leaves the dashboard's password alone.
Reset ==
  /\ keystore # None /\ keystore' = None /\ tpm' = FALSE
  /\ UNCHANGED <<file, memory, unlock, sessions, attempts, callVars, calls, faults,
                 guesses, replaced>>

\* The loop of start_dashboard_only forgets the password, whether or not Vaultwarden
\* can be reached with what it opens; if it can, the key may be sealed with it.
Poll ==
  /\ unlock # None /\ keystore # None /\ unlock' = None
  /\ UNCHANGED tpm \/ (keystore = unlock /\ tpm' = TRUE)
  /\ UNCHANGED <<file, memory, keystore, sessions, attempts, callVars, calls, faults,
                 guesses, replaced>>

UnlockLimit(c) ==
  /\ pc[c] = "unlock" /\ Limited(c, "unlock", "open")
  /\ UNCHANGED <<file, memory, keyVars, sessions, calls, faults, guesses, replaced>>

\* unlock_keystore tries the TPM's key first, so that any password will do; without
\* it, or where it fails, the password must be right. Success clears the count, keeps
\* the password for the loop, and logs in with it; where that fails the call does not.
Unlock(c) ==
  /\ pc[c] = "open" /\ UNCHANGED job
  /\ \/ /\ tpm \/ keystore = job[c]
        /\ attempts' = [attempts EXCEPT !["unlock"] = << >>]
        /\ guesses' = [guesses EXCEPT !["unlock"] = << >>]
        /\ unlock' = job[c] /\ Goto(c, "login")
     \/ /\ keystore # job[c] /\ Guess("unlock") /\ Goto(c, "shut")
        /\ UNCHANGED <<attempts, unlock>>
  /\ UNCHANGED <<file, memory, keystore, tpm, sessions, calls, faults, replaced>>

UnlockFailed(c) ==
  /\ pc[c] = "shut" /\ Recorded("unlock") /\ Ended(c)
  /\ UNCHANGED <<file, memory, keyVars, sessions, calls, faults, guesses, replaced>>

\* A disk that is full: what is in memory stays as it was.
DiskFails(c) ==
  /\ pc[c] \in {"file", "make", "dashboard"} /\ Fault /\ Ended(c)
  /\ UNCHANGED <<file, memory, keyVars, sessions, attempts, calls, guesses, replaced>>

\* SessionStore::new.
Restart ==
  /\ Fault /\ memory' = file /\ sessions' = << >>
  /\ attempts' = Nothing /\ guesses' = Nothing
  /\ pc' = [c \in Client |-> "idle"] /\ job' = [c \in Client |-> None]
  /\ unlock' = None
  /\ UNCHANGED <<file, keystore, tpm, calls, replaced>>
-----------------------------------------------------------------------------
Handle(c) ==
  \/ Begin(c) \/ LoginLimit(c) \/ Load(c) \/ Verify(c) \/ LoginFailed(c)
  \/ Setup(c) \/ WriteFile(c) \/ WriteMemory(c)
  \/ Configure(c) \/ MakeKeystore(c) \/ WriteDashboard(c)
  \/ UnlockLimit(c) \/ Unlock(c) \/ UnlockFailed(c) \/ DiskFails(c)

Next == (\E c \in Client : Handle(c)) \/ Tick \/ Expire \/ Reset \/ Poll \/ Restart

Spec == Init /\ [][Next]_vars
-----------------------------------------------------------------------------
(* Of the passwords that are tried in a window's time no more are wrong than *)
(* the limit and one for each other call, which was let through before the   *)
(* last failure was counted; of unlocks, those since one last opened the     *)
(* keystore. With a key in the TPM an unlock does not depend on its password *)
(* and counts as right, so that only those count for which the TPM failed.   *)
GuessesBounded ==
  \A k \in Kind : Len(guesses[k]) <= Limit + Cardinality(Client) - 1

(* Fails: "After 5 failed attempts within 5 minutes, login is blocked for    *)
(* the remainder of that window" (auth.rs:145).                              *)
BlockedAfterLimit == \A k \in Kind : Len(guesses[k]) <= Limit

(* Fails: the keystore is unlocked over the dashboard, and the failures are  *)
(* forgotten, only with the password that it was made with.                  *)
UnlockedByPassword ==
  [][\A c \in Client : pc[c] = "open" /\ pc'[c] = "login" => job[c] = keystore]_vars

(* The password in memory is that of the file, and every session was opened  *)
(* with it; unless the file's was set while or although there is one in      *)
(* memory, which a configure after a reset does.                             *)
PasswordsAgree ==
  ~replaced /\ (\A c \in Client : pc[c] # "memory") =>
    /\ memory \in {None, file}
    /\ \A i \in DOMAIN sessions : sessions[i] = memory
=============================================================================
