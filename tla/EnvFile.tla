------------------------------- MODULE EnvFile --------------------------------
(***************************************************************************)
(* The file of variables that write_env (src/src/vault/handlers.rs) sets a *)
(* variable in: it reads the file, edits it in memory, writes a temporary  *)
(* file whose name the calls share, and renames it over the old one.       *)
(*                                                                         *)
(* Whether the call may have the secret is in CredentialUse.               *)
(***************************************************************************)
EXTENDS Naturals, FiniteSets

CONSTANTS
  Call,
  Secret,        \* what a variable is set to
  MaxFaults,     \* bound: crashes and failing disks
  Torn,          \* a file that is cut off
  None

Var == {"u", "v"}

VARIABLES
  pc, job,       \* where each call is, and what it was called with
  base, fd,      \* what it has read of the file; the file it has opened
  file, tmp,     \* the file and the temporary file
  meant,         \* the file the calls mean to have written
  clash,         \* have two calls been at the file at once?
  faults

vars == <<pc, job, base, fd, file, tmp, meant, clash, faults>>

Content == [Var -> Secret \union {None}]
AtFile == {"read", "open", "write", "rename"}

TypeOK ==
  /\ pc \in [Call -> {"idle"} \union AtFile]
  /\ \A c \in Call : job[c] \in [var : Var, secret : Secret, create : BOOLEAN] \union {None}
  /\ base \in [Call -> Content \union {None}]
  /\ fd \in [Call -> {"none", "tmp", "file", "gone"}]
  /\ {file, tmp} \subseteq Content \union {Torn, None}
  /\ meant \in Content \union {None} /\ clash \in BOOLEAN /\ faults \in 0..MaxFaults
-----------------------------------------------------------------------------
Empty == [v \in Var |-> None]

Init ==
  /\ pc = [c \in Call |-> "idle"] /\ job = [c \in Call |-> None]
  /\ base = [c \in Call |-> None] /\ fd = [c \in Call |-> "none"]
  /\ file \in {None, Empty} /\ tmp = None /\ meant = file
  /\ clash = FALSE /\ faults = 0

Set(var, c, v) == [var EXCEPT ![c] = v]
Goto(c, place) == pc' = Set(pc, c, place)
Fault == faults < MaxFaults /\ faults' = faults + 1

Ended(c) ==
  /\ Goto(c, "idle") /\ job' = Set(job, c, None)
  /\ base' = Set(base, c, None) /\ fd' = Set(fd, c, "none")
-----------------------------------------------------------------------------
\* The call has its secret: from here on it is about the file.
Begin(c) ==
  /\ pc[c] = "idle" /\ Goto(c, "read")
  /\ \E v \in Var, s \in Secret, new \in BOOLEAN :
       job' = Set(job, c, [var |-> v, secret |-> s, create |-> new])
  /\ UNCHANGED <<base, fd, file, tmp, meant, clash, faults>>

Busy(c) == \E d \in Call \ {c} : pc[d] \in {"open", "write", "rename"}

\* A file that is not there is created only when the caller says so.  What is left
\* of one that is cut off is read as it is.
ReadFile(c) ==
  /\ pc[c] = "read"
  /\ IF file = None /\ ~job[c].create
     THEN Ended(c) /\ UNCHANGED clash
     ELSE /\ base' = Set(base, c, IF file \in {None, Torn} THEN Empty ELSE file)
          /\ Goto(c, "open") /\ clash' = (clash \/ Busy(c))
          /\ UNCHANGED <<job, fd>>
  /\ UNCHANGED <<file, tmp, meant, faults>>

\* The lines of other variables stay; the variable's is replaced or added.
Edited(c) == [base[c] EXCEPT ![job[c].var] = job[c].secret]

\* Mutant: the file itself is opened.
OpenInPlace(c) ==
  /\ pc[c] = "open" /\ Goto(c, "write")
  /\ file' = Torn /\ fd' = Set(fd, c, "file")
  /\ UNCHANGED <<job, base, tmp, meant, clash, faults>>

Open(c) ==
  /\ pc[c] = "open" /\ Goto(c, "write")
  /\ tmp' = Torn /\ fd' = Set(fd, c, "tmp")
  /\ UNCHANGED <<job, base, file, meant, clash, faults>>

\* Over what another call has written in the meantime, a mixture.
Leaves(c, old) == IF old = Torn THEN {Edited(c)} ELSE {Edited(c), Torn}

Write(c) ==
  /\ pc[c] = "write" /\ Goto(c, "rename")
  /\ \/ fd[c] = "tmp" /\ tmp' \in Leaves(c, tmp) /\ UNCHANGED file
     \/ fd[c] = "file" /\ file' \in Leaves(c, file) /\ UNCHANGED tmp
     \/ fd[c] = "gone" /\ UNCHANGED <<file, tmp>>
  /\ UNCHANGED <<job, base, fd, meant, clash, faults>>

\* What the calls have open goes where its name goes.
Follows(d) == IF fd[d] = "tmp" THEN "file" ELSE IF fd[d] = "file" THEN "gone" ELSE fd[d]

\* The rename fails when another call has renamed the temporary file already.
Rename(c) ==
  /\ pc[c] = "rename" /\ Goto(c, "idle")
  /\ job' = Set(job, c, None) /\ base' = Set(base, c, None)
  /\ IF tmp = None
     THEN fd' = Set(fd, c, "none") /\ UNCHANGED <<file, tmp, meant>>
     ELSE /\ file' = tmp /\ tmp' = None
          /\ meant' = [(IF meant = None THEN Empty ELSE meant)
                        EXCEPT ![job[c].var] = job[c].secret]
          /\ fd' = [d \in Call |-> IF d = c THEN "none" ELSE Follows(d)]
  /\ UNCHANGED <<clash, faults>>

\* A failing disk: only a rename that fails takes the temporary file away.
Fails(c) ==
  /\ pc[c] \in AtFile /\ Fault /\ Ended(c)
  /\ tmp' = IF pc[c] = "rename" THEN None ELSE tmp
  /\ UNCHANGED <<file, meant, clash>>

Crash ==
  /\ Fault
  /\ pc' = [c \in Call |-> "idle"] /\ job' = [c \in Call |-> None]
  /\ base' = [c \in Call |-> None] /\ fd' = [c \in Call |-> "none"]
  /\ UNCHANGED <<file, tmp, meant, clash>>
-----------------------------------------------------------------------------
Next ==
  \/ \E c \in Call : Begin(c) \/ ReadFile(c) \/ Open(c) \/ Write(c) \/ Rename(c) \/ Fails(c)
  \/ Crash

Spec == Init /\ [][Next]_vars
-----------------------------------------------------------------------------
(* "The endpoint preserves unrelated lines" (handlers.rs:1917), and its      *)
(* write is atomic: whatever fails or crashes, the file is one that the      *)
(* calls so far have meant to write, as long as no two were at it at once.   *)
EnvKept == ~clash => file = meant
=============================================================================
