------------------------------ MODULE Keystore ------------------------------
(***************************************************************************)
(* The keystore on disk (src/src/keystore.rs) and the ways to open it when *)
(* the program starts (main in src/src/main.rs): credentials.enc holds the *)
(* credentials for a key pair, of which the private key is kept twice, for *)
(* the setup password (private_key.enc) and, once it is sealed, for the    *)
(* TPM: tpm_aes_key.sealed holds an AES key, private_key.tpm_enc what that *)
(* key encrypts.  The files are replaced one by one, each as a whole; the  *)
(* program may end between any two of them.                                *)
(*                                                                         *)
(* A key pair and an AES key are numbers.  private_key.sealed, which       *)
(* nothing reads, is left out, and so are wrong passwords, which change    *)
(* nothing here.                                                           *)
(***************************************************************************)
EXTENDS Naturals

CONSTANTS
  Worker,        \* the threads that serve the dashboard, and the --setup run
  MaxKeys,       \* bound: the key pairs that are made
  MaxSeals,      \* bound: the AES keys that are made
  MaxFaults,     \* bound: crashes and a vault that cannot be reached
  None

VARIABLES
  cred, pub, enc,    \* credentials.enc, public_key.pem, private_key.enc: a key
  sealed, tpmenc,    \* tpm_aes_key.sealed, private_key.tpm_enc
  mode,              \* "off", "setup" (--setup), "locked", "running"
  job,               \* what each worker does to the files
  poll, pollkey,     \* start_dashboard_only: at rest or sealing, and what
  password, tried,   \* the password the dashboard has handed over; tpm_tried
  keys, seals, faults,
  built,             \* is the keystore a whole one, of a setup on its own?
  mixed,             \* have two workers changed the files at the same time?
  leftover           \* did the last setup find files of an earlier seal?

files == <<cred, pub, enc, sealed, tpmenc>>
ghosts == <<built, mixed, leftover>>
locals == <<poll, pollkey, password, tried>>
vars == <<cred, pub, enc, sealed, tpmenc, mode, job, poll, pollkey, password, tried,
          keys, seals, faults, built, mixed, leftover>>

Key == 1..MaxKeys
Job == [op : {"setup", "reset", "update"}, step : 1..5, key : Key \union {None}]

TypeOK ==
  /\ cred \in Key \union {None} /\ pub \in Key \union {None} /\ enc \in Key \union {None}
  /\ sealed \in 0..MaxSeals                         \* 0: there is no file
  /\ tpmenc \in [aes : 0..MaxSeals, key : Key \union {None}]
  /\ mode \in {"off", "setup", "locked", "running"}
  /\ \A w \in Worker : job[w] = None \/ job[w] \in Job
  /\ poll \in {"rest", "key", "file"} /\ pollkey \in Key \union {None}
  /\ password \in BOOLEAN /\ tried \in BOOLEAN
  /\ keys \in 0..MaxKeys /\ seals \in 0..MaxSeals /\ faults \in 0..MaxFaults
  /\ built \in BOOLEAN /\ mixed \in BOOLEAN /\ leftover \in BOOLEAN

NoFile == [aes |-> 0, key |-> None]

Init ==
  /\ cred = None /\ pub = None /\ enc = None /\ sealed = 0 /\ tpmenc = NoFile
  /\ mode = "off" /\ job = [w \in Worker |-> None]
  /\ poll = "rest" /\ pollkey = None /\ password = FALSE /\ tried = FALSE
  /\ keys = 0 /\ seals = 0 /\ faults = 0
  /\ built = FALSE /\ mixed = FALSE /\ leftover = FALSE

Fault == faults < MaxFaults /\ faults' = faults + 1
-----------------------------------------------------------------------------
(* What the files are good for *)

IsConfigured == cred # None
HasTpmKey == sealed # 0 /\ tpmenc # NoFile

\* unseal_from_tpm: nothing when a tool fails.
Unsealed(tpm) == IF tpm THEN sealed ELSE 0

\* unlock_with_tpm: the AES key must be the one that encrypted the private key.
TpmKey(tpm) == IF Unsealed(tpm) # 0 /\ tpmenc.aes = Unsealed(tpm) THEN tpmenc.key ELSE None

\* Mutant: no way back from a TPM that fails.
KeyNoFallback(withPassword, tpm) ==
  IF HasTpmKey THEN TpmKey(tpm) ELSE IF withPassword THEN enc ELSE None
\* unlock_keystore: the private key it gets; tpm says whether the TPM works.
PrivateKey(withPassword, tpm) ==
  IF HasTpmKey /\ TpmKey(tpm) # None THEN TpmKey(tpm)
  ELSE IF withPassword THEN enc ELSE None

\* decrypt_credentials
Decrypts(k) == k # None /\ k = cred
Opens(withPassword, tpm) == IsConfigured /\ Decrypts(PrivateKey(withPassword, tpm))
-----------------------------------------------------------------------------
(* What changes the files *)

Busy == {w \in Worker : job[w] # None}
Alone == Busy = {} /\ poll = "rest"

\* A worker begins; the keystore is whole again when a setup ends that nobody
\* has disturbed.
Begin(w, j) ==
  /\ job[w] = None /\ job' = [job EXCEPT ![w] = j]
  /\ mixed' = IF Alone THEN FALSE ELSE TRUE
  /\ built' = IF j.op = "update" /\ Alone THEN built ELSE FALSE
  /\ leftover' = IF j.op = "setup" THEN sealed # 0 \/ tpmenc # NoFile ELSE leftover

\* run_cli_setup, after the warning, and handle_configure, which has looked
\* whether there is a keystore before it waits for Vaultwarden.
Setup(w) ==
  /\ mode \in {"setup", "locked", "running"}
  /\ (mode = "setup" => Busy = {}) /\ (mode # "setup" => ~ IsConfigured)
  /\ keys < MaxKeys /\ keys' = keys + 1
  /\ Begin(w, [op |-> "setup", step |-> 1, key |-> keys + 1])
  /\ UNCHANGED <<mode, seals, faults>> /\ UNCHANGED files /\ UNCHANGED locals

Done(w) == job' = [job EXCEPT ![w] = None]
Step(w) == job' = [job EXCEPT ![w].step = @ + 1]

\* setup_keystore: the credentials, the public key, the wrapped private key.
\* The password of the dashboard goes to the poll loop; --setup starts to serve.
SetupStep(w) ==
  /\ job[w] # None /\ job[w].op = "setup"
  /\ \/ job[w].step = 1 /\ cred' = job[w].key /\ Step(w)
        /\ UNCHANGED <<pub, enc, mode, password, built>>
     \/ job[w].step = 2 /\ pub' = job[w].key /\ Step(w)
        /\ UNCHANGED <<cred, enc, mode, password, built>>
     \/ job[w].step = 3 /\ enc' = job[w].key /\ Done(w) /\ built' = ~ mixed
        /\ mode' = (IF mode = "setup" THEN "running" ELSE mode)
        /\ password' = (mode # "setup") /\ UNCHANGED <<cred, pub>>
  /\ UNCHANGED <<sealed, tpmenc, poll, pollkey, tried, keys, seals, faults, mixed, leftover>>

\* reset_keystore: the files go one by one.
Reset(w) ==
  /\ mode \in {"locked", "running"}
  /\ Begin(w, [op |-> "reset", step |-> 1, key |-> None])
  /\ UNCHANGED <<mode, keys, seals, faults>> /\ UNCHANGED files /\ UNCHANGED locals

ResetStep(w) ==
  /\ job[w] # None /\ job[w].op = "reset"
  /\ cred' = IF job[w].step = 1 THEN None ELSE cred
  /\ pub' = IF job[w].step = 2 THEN None ELSE pub
  /\ enc' = IF job[w].step = 3 THEN None ELSE enc
  /\ sealed' = IF job[w].step = 4 THEN 0 ELSE sealed
  /\ tpmenc' = IF job[w].step = 5 THEN NoFile ELSE tpmenc
  /\ IF job[w].step = 5 THEN Done(w) ELSE Step(w)
  /\ UNCHANGED <<mode, poll, pollkey, password, tried, keys, seals, faults>> /\ UNCHANGED ghosts

\* The handlers that change the credentials: they open the keystore with the
\* password and encrypt what they change with the public key.
Update(w) ==
  /\ mode \in {"locked", "running"} /\ \E tpm \in BOOLEAN : Opens(TRUE, tpm)
  /\ Begin(w, [op |-> "update", step |-> 1, key |-> None])
  /\ UNCHANGED <<mode, keys, seals, faults>> /\ UNCHANGED files /\ UNCHANGED locals

\* reencrypt_credentials
UpdateStep(w) ==
  /\ job[w] # None /\ job[w].op = "update"
  /\ \/ job[w].step = 1 /\ pub = None /\ Done(w) /\ UNCHANGED <<cred, password>>
     \/ job[w].step = 1 /\ pub # None
        /\ job' = [job EXCEPT ![w].step = 2, ![w].key = pub] /\ UNCHANGED <<cred, password>>
     \/ job[w].step = 2 /\ cred' = job[w].key /\ password' = TRUE /\ Done(w)
  /\ UNCHANGED <<pub, enc, sealed, tpmenc, mode, poll, pollkey, tried, keys, seals, faults>>
  /\ UNCHANGED ghosts
-----------------------------------------------------------------------------
(* main and start_dashboard_only *)

\* The start without --setup: the TPM opens the keystore, or the dashboard waits.
Boot ==
  /\ mode = "off"
  /\ \E tpm \in BOOLEAN : mode' = IF HasTpmKey /\ Opens(FALSE, tpm) THEN "running" ELSE "locked"
  /\ password' = FALSE /\ tried' = FALSE
  /\ UNCHANGED <<job, poll, pollkey, keys, seals, faults>> /\ UNCHANGED files /\ UNCHANGED ghosts

BootSetup ==
  /\ mode = "off" /\ keys < MaxKeys /\ mode' = "setup"
  /\ UNCHANGED <<job, keys, seals, faults>> /\ UNCHANGED files /\ UNCHANGED locals
  /\ UNCHANGED ghosts

\* handle_unlock
Unlock ==
  /\ mode = "locked" /\ ~ password /\ \E tpm \in BOOLEAN : Opens(TRUE, tpm)
  /\ password' = TRUE
  /\ UNCHANGED <<mode, job, poll, pollkey, tried, keys, seals, faults>>
  /\ UNCHANGED files /\ UNCHANGED ghosts

\* The poll loop: the TPM once, then the password when there is one.
PollTpm ==
  /\ mode = "locked" /\ poll = "rest" /\ IsConfigured /\ ~ tried /\ tried' = TRUE
  /\ \E tpm \in BOOLEAN :
       \/ Opens(FALSE, tpm) /\ mode' = "running" /\ UNCHANGED faults
       \/ Opens(FALSE, tpm) /\ Fault /\ UNCHANGED mode
       \/ ~ Opens(FALSE, tpm) /\ UNCHANGED <<mode, faults>>
  /\ UNCHANGED <<job, poll, pollkey, password, keys, seals>> /\ UNCHANGED files
  /\ UNCHANGED ghosts

\* A keystore that is open and not sealed yet is sealed before serving.
PollPassword ==
  /\ mode = "locked" /\ poll = "rest" /\ IsConfigured /\ tried /\ password
  /\ password' = FALSE
  /\ \E tpm \in BOOLEAN :
       \/ /\ ~ Opens(TRUE, tpm)
          /\ UNCHANGED <<mode, poll, pollkey, seals, faults, mixed>>
       \/ /\ Opens(TRUE, tpm) /\ Fault               \* Vaultwarden cannot be reached
          /\ UNCHANGED <<mode, poll, pollkey, seals, mixed>>
       \/ /\ Opens(TRUE, tpm) /\ (HasTpmKey \/ seals = MaxSeals) /\ mode' = "running"
          /\ UNCHANGED <<poll, pollkey, seals, faults, mixed>>
       \/ /\ Opens(TRUE, tpm) /\ ~ HasTpmKey /\ enc # None /\ seals < MaxSeals
          /\ poll' = "key" /\ pollkey' = enc /\ seals' = seals + 1
          /\ mixed' = (Busy # {}) /\ UNCHANGED <<mode, faults>>
  /\ UNCHANGED <<job, tried, keys, built, leftover>> /\ UNCHANGED files

\* seal_to_tpm: the tools of the TPM, then the file as a whole.
SealToTpm(aes) == sealed' = aes

\* seal_after_unlock: the AES key is sealed, then the file is written that it
\* encrypts.  The TPM may fail, and the program serves without it.
SealKey ==
  /\ poll = "key"
  /\ \/ SealToTpm(seals) /\ poll' = "file" /\ UNCHANGED <<mode, faults, pollkey>>
     \/ Fault /\ mode' = "running" /\ poll' = "rest" /\ pollkey' = None /\ UNCHANGED sealed
  /\ UNCHANGED <<cred, pub, enc, tpmenc, job, password, tried, keys, seals>> /\ UNCHANGED ghosts

SealFile ==
  /\ poll = "file" /\ tpmenc' = [aes |-> seals, key |-> pollkey]
  /\ mode' = "running" /\ poll' = "rest" /\ pollkey' = None
  /\ UNCHANGED <<cred, pub, enc, sealed, job, password, tried, keys, seals, faults>>
  /\ UNCHANGED ghosts

\* The program ends, as it may at any point.
Crash ==
  /\ mode # "off" /\ Fault /\ mode' = "off"
  /\ job' = [w \in Worker |-> None] /\ poll' = "rest" /\ pollkey' = None
  /\ UNCHANGED <<password, tried, keys, seals>> /\ UNCHANGED files /\ UNCHANGED ghosts
-----------------------------------------------------------------------------
Next ==
  \/ \E w \in Worker : \/ Setup(w) \/ SetupStep(w) \/ Reset(w) \/ ResetStep(w)
                       \/ Update(w) \/ UpdateStep(w)
  \/ Boot \/ BootSetup \/ Unlock \/ PollTpm \/ PollPassword \/ SealKey \/ SealFile
  \/ Crash

Spec == Init /\ [][Next]_vars
-----------------------------------------------------------------------------
AtRest == Busy = {} /\ built /\ ~ mixed

(* A keystore that a setup made on its own, in a place without the files of *)
(* an earlier seal, opens with its password from then on, whether the TPM   *)
(* works or not, and wherever a seal or an update of it was cut off; and    *)
(* what is sealed for the TPM opens it without the password.                *)
KeystoreOpens ==
  AtRest /\ ~ leftover =>
    /\ \A tpm \in BOOLEAN : Opens(TRUE, tpm)
    /\ HasTpmKey => Opens(FALSE, TRUE)

(* What --setup says before it begins: the keystore that is there, "including *)
(* any TPM-sealed key", is destroyed, so that the new one opens (main.rs:937). *)
SetupReplacesAll == AtRest => \A tpm \in BOOLEAN : Opens(TRUE, tpm)
=============================================================================
