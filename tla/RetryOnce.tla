------------------------------ MODULE RetryOnce ------------------------------
(***************************************************************************)
(* What a request sent with a cached token promises its caller.            *)
(*                                                                         *)
(* A request is attempted with the token its task last read.  When the     *)
(* peer rejects that token the request is attempted at most once more, and *)
(* only with a token other than the rejected one; then it ends, whatever   *)
(* the answer.  VaultManager::authed_request implements this contract,     *)
(* which is stated apart from the machinery that renews the token.         *)
(***************************************************************************)
EXTENDS Naturals

CONSTANTS Task,        \* the tasks that send requests
          None         \* a task that is not sending has used no token

VARIABLES phase,       \* how far the request of each task has got
          used         \* the token of its latest attempt

vars == <<phase, used>>

Phases == {"idle", "first", "rejected", "second"}

Init ==
  /\ phase = [t \in Task |-> "idle"]
  /\ used = [t \in Task |-> None]

\* The attempt of task t becomes the one of phase p, with a token that is
\* not in the set barred.
Send(t, p, barred) ==
  /\ phase' = [phase EXCEPT ![t] = p]
  /\ used'[t] \in Nat \ barred
  /\ used' = [used EXCEPT ![t] = used'[t]]

Attempt(t) == phase[t] = "idle" /\ Send(t, "first", {})

\* The peer rejects the token of the first attempt.
Refused(t) ==
  /\ phase[t] = "first"
  /\ phase' = [phase EXCEPT ![t] = "rejected"]
  /\ UNCHANGED used

\* The second attempt never repeats the token that was rejected.
Retry(t) == phase[t] = "rejected" /\ Send(t, "second", {used[t]})

\* The caller gets an answer or an error, or goes away.
Finish(t) ==
  /\ phase[t] # "idle"
  /\ phase' = [phase EXCEPT ![t] = "idle"]
  /\ used' = [used EXCEPT ![t] = None]

Next == \E t \in Task : Attempt(t) \/ Refused(t) \/ Retry(t) \/ Finish(t)

Spec == Init /\ [][Next]_vars
=============================================================================
