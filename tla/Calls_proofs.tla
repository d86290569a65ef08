---------------------------- MODULE Calls_proofs -----------------------------
(****************************************************************************)
(* Proofs about the components that answer calls and keep what they know in *)
(* memory: for any number of processes, credentials and faults, each keeps  *)
(* the property that Components states for it.                              *)
(****************************************************************************)
EXTENDS Components, FiniteSets, FiniteSetTheorems, SequenceTheorems, WellFoundedInduction, TLAPS

\* A behaviour is about the same component all along.
LEMMA PartStays == ASSUME [Next]_vars PROVE part' = part
<1>1. CASE Next
  BY <1>1, Zenon DEF Next, Resting
<1>2. CASE UNCHANGED vars
  BY <1>2, Zenon DEF vars
<1> QED BY <1>1, <1>2

------------------------------------------------------------------------------
(* SessionSlots: whoever sends over a session holds the lock of its slot,   *)
(* so nobody can put another session there in the meantime.                 *)

\* The locks and the places of the requests agree, and a session that is being
\* used is its user's own.
SlotsInv ==
  /\ Slots!TypeOK
  /\ IsFiniteSet(slots)
  /\ \A r \in Request : pc[r] \in Slots!Holding => holder[at[r]] = r
  /\ \A s \in Slots!Slot, r \in Request :
       holder[s] = r => pc[r] \in Slots!Holding /\ at[r] = s
  /\ Slots!OwnCredential

\* The instance counts as FiniteSets does.
LEMMA SlotsCardinality == \A S : Slots!Cardinality(S) = Cardinality(S)
  BY DEF Slots!Cardinality, Cardinality

\* A session that is made of a credential.
LEMMA SlotsMade ==
  ASSUME NEW n \in Nat, NEW b \in BOOLEAN, NEW s, s = [cred |-> n, live |-> b]
  PROVE  s \in Slots!Session /\ s # None /\ s.cred = n
  BY SlotsAssumption DEF Slots!Session

\* The invariant holds before anything has happened.
LEMMA SlotsInit == ASSUME Slots!Init PROVE SlotsInv
  <1> USE SlotsAssumption
  <1>1. IsFiniteSet(slots) /\ Slots!Cardinality(slots) = 0
    BY FS_EmptySet, SlotsCardinality DEF Slots!Init
  <1> QED BY <1>1 DEF Slots!Init, SlotsInv, Slots!TypeOK, Slots!OwnCredential, Slots!Holding,
          Slots!Slot, Slots!Session, Slots!Found

\* Every step of SessionSlots keeps the invariant.
LEMMA SlotsStep ==
  ASSUME SlotsInv, [Slots!Next]_(Slots!vars)
  PROVE  SlotsInv'
<1> USE SlotsAssumption DEF SlotsInv
<1>0. CASE UNCHANGED Slots!vars
  BY <1>0 DEF Slots!vars, Slots!reqVars, Slots!envVars, Slots!TypeOK, Slots!OwnCredential, Slots!Found
<1> USE DEF Slots!TypeOK, Slots!OwnCredential, Slots!Found, Slots!Goto, Slots!Release, Slots!Keep, Slots!Holding,
      Slots!reqVars, Slots!envVars
<1>1. ASSUME NEW r \in Request, Slots!Begin(r) PROVE SlotsInv'
  BY <1>1 DEF Slots!Begin
<1>2. ASSUME NEW r \in Request, Slots!Served(r) PROVE SlotsInv'
  BY <1>2 DEF Slots!Served
<1>3. ASSUME NEW r \in Request, Slots!Fallback(r) PROVE SlotsInv'
  <2>1. CASE service[r] \in slots \/ ~(Cardinality(slots) < Cap)
    <3>1. slots' = slots
      <4>1. slots' = slots \/ (slots' = slots \union {service[r]} /\ service[r] \in slots)
        BY <1>3, <2>1, SlotsCardinality DEF Slots!Fallback
      <4> HIDE DEF SlotsInv
      <4> QED BY <4>1
    <3>2. at' \in [Request -> Slots!Slot] /\ \A q \in Request : q # r => at'[q] = at[q]
      BY <1>3 DEF Slots!Fallback, Slots!Slot
    <3> QED BY <1>3, <3>1, <3>2 DEF Slots!Fallback
  <2>2. CASE service[r] \notin slots /\ Cardinality(slots) < Cap
    <3>1. slots' = slots \union {service[r]} /\ at' = [at EXCEPT ![r] = service[r]]
      BY <1>3, <2>2, SlotsCardinality DEF Slots!Fallback
    <3>2. IsFiniteSet(slots') /\ Cardinality(slots') = Cardinality(slots) + 1
      BY <2>2, <3>1, FS_AddElement
    <3>3. Slots!Cardinality(slots') <= Cap
      BY <2>2, <3>2, FS_CardinalityType, SlotsCardinality
    <3> QED BY <1>3, <3>1, <3>2, <3>3 DEF Slots!Fallback, Slots!Slot
  <2> QED BY <2>1, <2>2
<1>4. ASSUME NEW r \in Request, Slots!Lock(r) PROVE SlotsInv'
  BY <1>4 DEF Slots!Lock
<1>5. ASSUME NEW r \in Request, Slots!Check(r) PROVE SlotsInv'
  BY <1>5 DEF Slots!Check, Slots!Usable
<1>6. ASSUME NEW r \in Request, Slots!Login(r) PROVE SlotsInv'
  <2>1. [cred |-> cred[r], live |-> TRUE] \in Slots!Session
    BY DEF Slots!Session
  <2>2. Slots!TypeOK'
    BY <1>6, <2>1 DEF Slots!Login
  <2>3. Slots!OwnCredential'
    <3> SUFFICES ASSUME NEW q \in Request, pc'[q] \in {"send", "resend"}
                 PROVE  session'[at[q]] # None /\ session'[at[q]].cred = cred[q]
      BY <1>6 DEF Slots!Login
    <3>1. CASE q = r
      <4>1. session'[at[r]] = [cred |-> cred[r], live |-> TRUE] /\ cred[r] \in Nat
        BY <1>6 DEF Slots!Login
      <4> HIDE DEF SlotsInv
      <4>2. session'[at[r]] # None /\ session'[at[r]].cred = cred[r]
        BY <4>1, SlotsMade
      <4> QED BY <3>1, <4>2
    <3>2. CASE q # r
      <4>0. pc[q] = pc'[q] /\ session[at[q]] # None /\ session[at[q]].cred = cred[q]
        BY <1>6, <3>2 DEF Slots!Login
      <4>1. holder[at[q]] = q /\ holder[at[r]] = r
        BY <1>6, <3>2 DEF Slots!Login
      <4>2. at[q] # at[r] /\ at[q] \in Slots!Slot
        BY <3>2, <4>1
      <4>3. session'[at[q]] = session[at[q]]
        BY <1>6, <4>2 DEF Slots!Login
      <4> HIDE DEF SlotsInv
      <4> QED BY <4>0, <4>3
    <3> QED BY <3>1, <3>2
  <2> QED BY <1>6, <2>2, <2>3 DEF Slots!Login
<1>7. ASSUME NEW r \in Request, Slots!LoginFails(r) PROVE SlotsInv'
  BY <1>7 DEF Slots!LoginFails, Slots!Fault
<1>8. ASSUME NEW r \in Request, Slots!Answered(r) PROVE SlotsInv'
  BY <1>8 DEF Slots!Answered
<1>9. ASSUME NEW r \in Request, Slots!SendRefused(r) PROVE SlotsInv'
  BY <1>9 DEF Slots!SendRefused, Slots!Unauthorized, Slots!Fault
<1>10. ASSUME NEW r \in Request, Slots!ResendRefused(r) PROVE SlotsInv'
  BY <1>10 DEF Slots!ResendRefused, Slots!Unauthorized, Slots!Fault
<1>11. ASSUME NEW r \in Request, Slots!Drop(r) PROVE SlotsInv'
  BY <1>11 DEF Slots!Drop, Slots!Fault
<1>12. ASSUME NEW s \in Service, Slots!Change(s) \/ Slots!Learn(s) \/ Slots!Invalidate(s) PROVE SlotsInv'
  BY <1>12 DEF Slots!Change, Slots!Learn, Slots!Invalidate, Slots!Slot
<1>13. ASSUME NEW s \in Slots!Slot, Slots!End(s) PROVE SlotsInv'
  <2>1. session[s] \in Slots!Session
    BY <1>13 DEF Slots!End
  <2>2. [cred |-> session[s].cred, live |-> FALSE] \in Slots!Session
    BY <2>1 DEF Slots!Session
  <2>3. Slots!TypeOK'
    BY <1>13, <2>2 DEF Slots!End, Slots!Fault
  <2>4. Slots!OwnCredential'
    <3> SUFFICES ASSUME NEW q \in Request, pc[q] \in {"send", "resend"}
                 PROVE  session'[at[q]] # None /\ session'[at[q]].cred = cred[q]
      BY <1>13 DEF Slots!End
    <3>1. session[at[q]] # None /\ session[at[q]].cred = cred[q]
      OBVIOUS
    <3>2. CASE at[q] = s
      <4>1. session'[s] = [cred |-> session[s].cred, live |-> FALSE]
        BY <1>13 DEF Slots!End
      <4>2. session[s].cred \in Nat
        BY <2>1 DEF Slots!Session
      <4> HIDE DEF SlotsInv
      <4>3. session'[s] # None /\ session'[s].cred = session[s].cred
        BY <4>1, <4>2, SlotsMade
      <4> QED BY <3>1, <3>2, <4>3
    <3>3. CASE at[q] # s
      <4>1. session'[at[q]] = session[at[q]]
        BY <1>13, <3>3 DEF Slots!End
      <4> HIDE DEF SlotsInv
      <4> QED BY <3>1, <4>1
    <3> QED BY <3>2, <3>3
  <2> QED BY <1>13, <2>3, <2>4 DEF Slots!End
<1> QED BY <1>0, <1>1, <1>2, <1>3, <1>4, <1>5, <1>6, <1>7, <1>8, <1>9, <1>10, <1>11, <1>12, <1>13 DEF Slots!Next, Slots!Handle

\* A behaviour about SessionSlots takes its steps and no others.
LEMMA SlotsPart ==
  ASSUME part = "slots", [Next]_vars
  PROVE  part' = "slots" /\ [Slots!Next]_(Slots!vars)
<1>1. CASE Next
  BY <1>1 DEF Next, Resting
<1>2. CASE UNCHANGED vars
  BY <1>2 DEF vars, Slots!vars, Slots!reqVars, Slots!envVars
<1> QED BY <1>1, <1>2

\* It starts as SessionSlots does.
LEMMA SlotsStart == ASSUME Init, part = "slots" PROVE Slots!Init
  BY DEF Init

\* A request of a session-token service goes out over a session of the
\* credential that the request has read, however logins, logouts and changes
\* of the credential come between (proxy/session.rs).
THEOREM SafetyOfSlots == Spec => []OwnCredential
<1> DEFINE I == part = "slots" => SlotsInv
<1>1. Init => I
  BY SlotsStart, SlotsInit
<1>2. I /\ [Next]_vars => I'
  <2> SUFFICES ASSUME I, [Next]_vars, part' = "slots" PROVE SlotsInv'
    OBVIOUS
  <2>1. part = "slots"
    BY DEF Next, vars, Resting
  <2> QED BY <2>1, SlotsPart, SlotsStep
<1>3. I => OwnCredential
  BY DEF OwnCredential, SlotsInv
<1> QED BY <1>1, <1>2, <1>3, PTL DEF Spec

------------------------------------------------------------------------------
(* CredentialRotation: a password that a call is about to set or to write   *)
(* is its own and new.                                                      *)

\* A password that a call is about to set or to write is its own: nobody has
\* read it, nobody else makes it, and the vault does not have it yet.
RotationFresh ==
  \A c \in Task : job[c] = "admin" /\ pc[c] \in {"remote", "put"} =>
    /\ new[c] # vault["admin"] /\ new[c] # items["admin"]
    /\ \A d \in Task : new[c] # current[d] /\ (d # c => new[c] # new[d])

\* What a call knows of its script.
RotationHeard ==
  \A c \in Task :
    /\ wire[c] = "sent" => pc[c] \in {"remote", "over"}
    /\ pc[c] = "put" => wire[c] = "ok"
    /\ wire[c] = "ok" \/ (wire[c] = "sent" /\ job[c] = "admin") => new[c] # 0
    /\ job[c] = "admin" /\ pc[c] \in {"remote", "put"} /\ wire[c] = "ok" => site = new[c]
    /\ job[c] = "admin" /\ pc[c] = "remote" /\ wire[c] # "ok" => site # new[c] \/ unheard

\* What is cached has been made.
RotationCached == \A i \in Hosted : cred[i] # None => cred[i].value \in 0..made

RotationInv ==
  /\ Rotation!TypeOK /\ RotationFresh /\ RotationHeard /\ RotationCached /\ Rotation!AdminPasswordKept

\* An entry of the credential cache.
LEMMA RotationEntry ==
  ASSUME NEW n \in Nat, NEW b \in BOOLEAN, NEW e, e = [value |-> n, live |-> b]
  PROVE  e \in Rotation!Entry /\ e # None /\ e.value = n
  BY RotationAssumption DEF Rotation!Entry

\* The invariant holds before anything has happened.
LEMMA RotationInit == ASSUME Rotation!Init PROVE RotationInv
<1>1. Rotation!TypeOK
  <2>1. vault \in [Rotation!Item -> 1..made] /\ items \in [Rotation!Item -> 1..made]
    BY DEF Rotation!Init, Rotation!Item
  <2>2. pc \in [Task -> {"idle", "hook", "over"} \union Rotation!Waiting]
    BY DEF Rotation!Init
  <2>3. job \in [Task -> Rotation!Item]
    BY DEF Rotation!Init, Rotation!Item
  <2>4. wire \in [Task -> {"none", "sent", "ok", "refused"}]
    BY DEF Rotation!Init
  <2>5. /\ current \in [Task -> 0..made] /\ new \in [Task -> 0..made]
        /\ got \in [Task -> 0..made]
    BY DEF Rotation!Init
  <2>6. cred \in [Hosted -> Rotation!Entry \union {None}]
    BY DEF Rotation!Init
  <2>7. /\ site \in 1..made /\ made \in Nat /\ now \in 0..MaxSeconds
        /\ read \in 0..made /\ faults \in 0..MaxFaults
    BY RotationAssumption DEF Rotation!Init
  <2>8. files \subseteq Rotation!File /\ asked \in Hosted \union {None} /\ unheard \in BOOLEAN
    BY DEF Rotation!Init
  <2>9. timer \in BOOLEAN
    BY Zenon DEF Rotation!Init
  <2> QED BY <2>1, <2>2, <2>3, <2>4, <2>5, <2>6, <2>7, <2>8, <2>9 DEF Rotation!TypeOK
<1>2. RotationFresh /\ RotationHeard /\ RotationCached /\ Rotation!AdminPasswordKept
  BY DEF Rotation!Init, RotationFresh, RotationHeard, RotationCached, Rotation!AdminPasswordKept, Rotation!Item
<1> QED BY <1>1, <1>2 DEF RotationInv

\* Calls.
LEMMA RotationBegin ==
  ASSUME RotationInv, NEW c \in Task, NEW i \in Rotation!Item, Rotation!Begin(c, i)
  PROVE  RotationInv'
<1> USE DEF Rotation!Begin, Rotation!Goto, Rotation!Set, Rotation!fileVars, Rotation!sockVars
<1>0. Rotation!TypeOK /\ RotationFresh /\ RotationHeard /\ RotationCached /\ Rotation!AdminPasswordKept
  BY DEF RotationInv
<1>1. Rotation!TypeOK'
  BY <1>0 DEF Rotation!TypeOK, Rotation!Item, Rotation!Waiting
<1>2. RotationFresh'
  BY <1>0 DEF RotationFresh, Rotation!TypeOK, Rotation!Item
<1>3. RotationHeard'
  BY <1>0 DEF RotationHeard, Rotation!TypeOK, Rotation!Item
<1>4. Rotation!AdminPasswordKept'
  BY <1>0 DEF Rotation!AdminPasswordKept, Rotation!TypeOK
<1>5. RotationCached'
  BY <1>0 DEF RotationCached, Rotation!TypeOK
<1> QED BY <1>1, <1>2, <1>3, <1>4, <1>5 DEF RotationInv

\* A script is run, or breaks off: nobody else has its password.
LEMMA RotationScript ==
  ASSUME RotationInv, NEW c \in Task, Rotation!Execute(c) \/ Rotation!Break(c)
  PROVE  RotationInv'
<1> USE DEF Rotation!Execute, Rotation!Break, Rotation!Fault, Rotation!Allows, Rotation!Effect, Rotation!Goto, Rotation!Set, Rotation!fileVars, Rotation!sockVars, Rotation!siteVars
<1>0. Rotation!TypeOK /\ RotationFresh /\ RotationHeard /\ RotationCached /\ Rotation!AdminPasswordKept
  BY DEF RotationInv
<1>1. Rotation!TypeOK'
  <2>1. made' \in Nat /\ made' >= made
    BY <1>0 DEF Rotation!TypeOK
  <2>2. new' \in [Task -> 0..made']
    BY <1>0, <2>1 DEF Rotation!TypeOK
  <2>3. site' \in 1..made'
    <3>1. site' = site \/ (made' = made /\ site' = new[c] /\ wire[c] = "sent" /\ job[c] = "admin")
      BY <1>0 DEF Rotation!TypeOK
    <3> QED BY <1>0, <2>1, <3>1 DEF Rotation!TypeOK, RotationHeard
  <2>4. wire' \in [Task -> {"none", "sent", "ok", "refused"}]
    BY <1>0 DEF Rotation!TypeOK
  <2>5. faults' \in 0..MaxFaults
    BY <1>0, RotationAssumption DEF Rotation!TypeOK
  <2>6. unheard' \in BOOLEAN
    BY <1>0, Zenon DEF Rotation!TypeOK
  <2>7. UNCHANGED <<pc, job, current, got, vault, items, files, now, cred, asked, read>>
    OBVIOUS
  <2>8. current' \in [Task -> 0..made'] /\ got' \in [Task -> 0..made']
    BY <1>0, <2>1, <2>7 DEF Rotation!TypeOK
  <2>9. vault' \in [Rotation!Item -> 1..made'] /\ items' \in [Rotation!Item -> 1..made'] /\ read' \in 0..made'
    BY <1>0, <2>1, <2>7 DEF Rotation!TypeOK
  <2>10. timer' \in BOOLEAN
    BY <1>0, Zenon DEF Rotation!TypeOK
  <2> HIDE DEF Rotation!Execute, Rotation!Break
  <2> QED BY <1>0, <2>1, <2>2, <2>3, <2>4, <2>5, <2>6, <2>7, <2>8, <2>9, <2>10 DEF Rotation!TypeOK
<1>2. RotationFresh'
  BY <1>0 DEF RotationFresh, RotationHeard, Rotation!TypeOK, Rotation!Item
<1>3. RotationHeard'
  BY <1>0 DEF RotationFresh, RotationHeard, Rotation!TypeOK, Rotation!Item
<1>4. Rotation!AdminPasswordKept'
  <2>1. UNCHANGED <<pc, job, vault, files>> /\ pc[c] \in {"remote", "over"}
    BY <1>0 DEF RotationHeard
  <2>2. \/ site' = site
        \/ site' = new[c] /\ job[c] = "admin" /\ new' = new /\ (pc[c] = "over" => unheard' = TRUE)
    BY <1>0, Zenon DEF Rotation!TypeOK
  <2>3. unheard => unheard'
    BY <1>0, Zenon DEF Rotation!TypeOK
  <2>4. \A d \in Task : job[d] = "admin" => new'[d] = new[d]
    BY <1>0 DEF Rotation!TypeOK
  <2> HIDE DEF Rotation!Execute, Rotation!Break
  <2>5. CASE site' = site
    BY <1>0, <2>1, <2>3, <2>4, <2>5, Zenon DEF Rotation!AdminPasswordKept
  <2>6. CASE site' = new[c] /\ job[c] = "admin" /\ new' = new /\ (pc[c] = "over" => unheard' = TRUE)
    BY <2>1, <2>6 DEF Rotation!AdminPasswordKept
  <2> QED BY <2>2, <2>5, <2>6
<1>5. RotationCached'
  BY <1>0 DEF RotationCached, Rotation!TypeOK
<1> QED BY <1>1, <1>2, <1>3, <1>4, <1>5 DEF RotationInv

\* The call hears of its script, or gives it up.
LEMMA RotationWaits ==
  ASSUME RotationInv, NEW c \in Task,
         \/ Rotation!Reject(c) \/ Rotation!Changed(c) \/ Rotation!NotChanged(c)
         \/ Rotation!RemoteTimeout(c) \/ Rotation!Evict(c)
  PROVE  RotationInv'
<1> USE DEF Rotation!Reject, Rotation!Changed, Rotation!NotChanged, Rotation!RemoteTimeout, Rotation!Evict, Rotation!Fault, Rotation!Goto, Rotation!Set, Rotation!fileVars, Rotation!sockVars, Rotation!siteVars
<1>0. Rotation!TypeOK /\ RotationFresh /\ RotationHeard /\ RotationCached /\ Rotation!AdminPasswordKept
  BY DEF RotationInv
<1>1. Rotation!TypeOK'
  <2>1. unheard' \in BOOLEAN
    BY <1>0, Zenon DEF Rotation!TypeOK
  <2>2. pc' \in [Task -> {"idle", "hook", "over"} \union Rotation!Waiting]
    BY <1>0 DEF Rotation!TypeOK, Rotation!Waiting
  <2>3. faults' \in 0..MaxFaults
    BY <1>0, RotationAssumption DEF Rotation!TypeOK
  <2> QED BY <1>0, <2>1, <2>2, <2>3 DEF Rotation!TypeOK
<1>2. RotationFresh'
  BY <1>0 DEF RotationFresh, RotationHeard, Rotation!TypeOK, Rotation!Item
<1>3. RotationHeard'
  BY <1>0 DEF RotationFresh, RotationHeard, Rotation!TypeOK, Rotation!Item
<1>4. Rotation!AdminPasswordKept'
  BY <1>0 DEF Rotation!AdminPasswordKept, Rotation!TypeOK, RotationHeard
<1>5. RotationCached'
  BY <1>0 DEF RotationCached, Rotation!TypeOK
<1> QED BY <1>1, <1>2, <1>3, <1>4, <1>5 DEF RotationInv

\* The call writes the vault or a recovery file, or is cancelled.
LEMMA RotationWrites ==
  ASSUME RotationInv, NEW c \in Task,
         \/ Rotation!Put(c) \/ Rotation!PutFails(c) \/ Rotation!Cancel(c)
  PROVE  RotationInv'
<1> USE DEF Rotation!Put, Rotation!PutFails, Rotation!Recover, Rotation!Cancel, Rotation!Written, Rotation!Fault, Rotation!Goto, Rotation!Set, Rotation!sockVars, Rotation!siteVars, Rotation!fileVars
<1>0. Rotation!TypeOK /\ RotationFresh /\ RotationHeard /\ RotationCached /\ Rotation!AdminPasswordKept
  BY DEF RotationInv
<1>a. vault' = vault \/ (vault' = [vault EXCEPT ![job[c]] = new[c]] /\ pc[c] = "put")
  OBVIOUS
<1>1. Rotation!TypeOK'
  <2>1. unheard' \in BOOLEAN
    BY <1>0, Zenon DEF Rotation!TypeOK
  <2>2. pc' \in [Task -> {"idle", "hook", "over"} \union Rotation!Waiting]
    BY <1>0 DEF Rotation!TypeOK, Rotation!Waiting
  <2>3. faults' \in 0..MaxFaults
    BY <1>0, RotationAssumption DEF Rotation!TypeOK
  <2>4. vault' \in [Rotation!Item -> 1..made]
    BY <1>0, <1>a DEF Rotation!TypeOK, RotationHeard
  <2>5. files' \subseteq Rotation!File
    BY <1>0 DEF Rotation!TypeOK, Rotation!File
  <2> QED BY <1>0, <2>1, <2>2, <2>3, <2>4, <2>5 DEF Rotation!TypeOK
<1>2. RotationFresh'
  BY <1>0 DEF RotationFresh, RotationHeard, Rotation!TypeOK, Rotation!Item
<1>3. RotationHeard'
  BY <1>0 DEF RotationFresh, RotationHeard, Rotation!TypeOK, Rotation!Item
<1>4. Rotation!AdminPasswordKept'
  <2>1. files \subseteq files'
    OBVIOUS
  <2>2. CASE job[c] = "admin" /\ pc[c] = "put"
    <3>1. site = new[c]
      BY <1>0, <2>2 DEF RotationHeard
    <3>2. CASE vault' = [vault EXCEPT ![job[c]] = new[c]]
      BY <1>0, <2>2, <3>1, <3>2 DEF Rotation!AdminPasswordKept, Rotation!TypeOK, Rotation!Item
    <3>3. CASE files' = files \union {[item |-> job[c], at |-> now, value |-> new[c]]}
      <4>1. [item |-> "admin", at |-> now, value |-> site] \in files'
        BY <2>2, <3>1, <3>3
      <4>2. PICK f \in files' : f = [item |-> "admin", at |-> now, value |-> site]
        BY <4>1
      <4>3. f.item = "admin" /\ f.value = site /\ site' = site
        BY <4>2, <3>3
      <4> QED BY <4>3 DEF Rotation!AdminPasswordKept
    <3>4. CASE unheard'
      BY <3>4 DEF Rotation!AdminPasswordKept
    <3> QED BY <1>a, <2>2, <3>2, <3>3, <3>4
  <2>3. CASE job[c] # "admin" \/ pc[c] # "put"
    <3>1. vault'["admin"] = vault["admin"]
      BY <1>0, <1>a, <2>3 DEF Rotation!TypeOK, Rotation!Item
    <3>2. CASE site = vault["admin"] \/ unheard
      <4>1. site' = site
        OBVIOUS
      <4>2. unheard => unheard'
        BY Zenon
      <4> QED BY <3>1, <3>2, <4>1, <4>2 DEF Rotation!AdminPasswordKept
    <3>3. CASE \E f \in files : f.item = "admin" /\ f.value = site
      <4>1. site' = site
        OBVIOUS
      <4> QED BY <2>1, <3>3, <4>1 DEF Rotation!AdminPasswordKept
    <3>4. ASSUME NEW d \in Task, pc[d] \in {"remote", "put"}, job[d] = "admin", new[d] = site
          PROVE  Rotation!AdminPasswordKept'
      <4>1. CASE d = c
        <5>1. Rotation!Cancel(c) /\ (wire[c] = "ok" \/ unheard)
          BY <1>0, <2>3, <3>4, <4>1 DEF RotationHeard
        <5>2. unheard'
          BY <2>3, <3>4, <4>1, <5>1
        <5> QED BY <5>2 DEF Rotation!AdminPasswordKept
      <4>2. CASE d # c
        <5>1. pc'[d] = pc[d] /\ UNCHANGED <<job, new, site>>
          BY <1>0, <4>2 DEF Rotation!TypeOK
        <5> QED BY <3>4, <5>1 DEF Rotation!AdminPasswordKept
      <4> QED BY <4>1, <4>2
    <3> QED BY <1>0, <3>2, <3>3, <3>4 DEF Rotation!AdminPasswordKept
  <2> QED BY <2>2, <2>3
<1>5. RotationCached'
  BY <1>0 DEF RotationCached, Rotation!TypeOK
<1> QED BY <1>1, <1>2, <1>3, <1>4, <1>5 DEF RotationInv

\* What reads the vault into the caches, or drops what is there.
LEMMA RotationReads ==
  ASSUME RotationInv,
         \/ \E c \in Task : Rotation!Sync(c) \/ Rotation!Fire(c)
         \/ Rotation!Refresh \/ Rotation!Tick \/ Rotation!Fill \/ Rotation!Purge
         \/ \E i \in Hosted : Rotation!Read(i) \/ Rotation!Expire(i)
  PROVE  RotationInv'
<1> USE DEF Rotation!Sync, Rotation!Refresh, Rotation!Tick, Rotation!Fill, Rotation!Purge, Rotation!Read, Rotation!Expire, Rotation!Fire, Rotation!Fault, Rotation!Goto, Rotation!Set, Rotation!sockVars, Rotation!siteVars, Rotation!fileVars, Rotation!callVars
<1>0. Rotation!TypeOK /\ RotationFresh /\ RotationHeard /\ RotationCached /\ Rotation!AdminPasswordKept
  BY DEF RotationInv
<1>c. /\ cred' \in [Hosted -> Rotation!Entry \union {None}]
      /\ \A i \in Hosted : cred'[i] # None => cred'[i].value \in 0..made
  <2>1. CASE cred' = cred
    BY <1>0, <2>1 DEF Rotation!TypeOK, RotationCached
  <2>2. CASE Rotation!Purge
    BY <1>0, <2>2 DEF Rotation!TypeOK, RotationCached
  <2>3. CASE \E i \in Hosted, n \in 0..made, b \in BOOLEAN :
               cred' = [cred EXCEPT ![i] = [value |-> n, live |-> b]]
    <3>1. PICK i \in Hosted, n \in 0..made, b \in BOOLEAN :
               cred' = [cred EXCEPT ![i] = [value |-> n, live |-> b]]
      BY <2>3
    <3> DEFINE e == [value |-> n, live |-> b]
    <3>a. n \in Nat
      BY <1>0 DEF Rotation!TypeOK
    <3>2. e \in Rotation!Entry /\ e # None /\ e.value = n
      BY <3>a, RotationEntry
    <3>3. cred' = [cred EXCEPT ![i] = e]
      BY <3>1
    <3> HIDE DEF e
    <3> QED BY <1>0, <3>2, <3>3 DEF Rotation!TypeOK, RotationCached
  <2>4. ASSUME NEW c \in Task, Rotation!Fire(c), cred' # cred
        PROVE  \E i \in Hosted, n \in 0..made, b \in BOOLEAN :
                 cred' = [cred EXCEPT ![i] = [value |-> n, live |-> b]]
    <3>1. /\ job[c] \in Hosted /\ job[c] \in Rotation!Item
          /\ cred' = [cred EXCEPT ![job[c]] = [value |-> items[job[c]], live |-> TRUE]]
      BY <1>0, <2>4, RotationAssumption DEF Rotation!TypeOK, Rotation!Cached
    <3>2. items[job[c]] \in 0..made
      BY <1>0, <3>1 DEF Rotation!TypeOK
    <3> QED BY <3>1, <3>2
  <2>5. ASSUME Rotation!Fill
        PROVE  \E i \in Hosted, n \in 0..made, b \in BOOLEAN :
                 cred' = [cred EXCEPT ![i] = [value |-> n, live |-> b]]
    BY <1>0, <2>5, RotationAssumption DEF Rotation!TypeOK, Rotation!Cached
  <2>6. ASSUME NEW i \in Hosted, Rotation!Expire(i)
        PROVE  \E j \in Hosted, n \in 0..made, b \in BOOLEAN :
                 cred' = [cred EXCEPT ![j] = [value |-> n, live |-> b]]
    BY <1>0, <2>6, RotationAssumption DEF Rotation!TypeOK, Rotation!Hit, RotationCached
  <2> QED BY <2>1, <2>2, <2>3, <2>4, <2>5, <2>6
<1>1. Rotation!TypeOK'
  <2>1. pc' \in [Task -> {"idle", "hook", "over"} \union Rotation!Waiting]
    BY <1>0 DEF Rotation!TypeOK, Rotation!Waiting
  <2>2. faults' \in 0..MaxFaults /\ now' \in 0..MaxSeconds
    BY <1>0, RotationAssumption DEF Rotation!TypeOK
  <2>3. items' \in [Rotation!Item -> 1..made] /\ UNCHANGED vault
    BY <1>0 DEF Rotation!TypeOK
  <2>4. asked' \in Hosted \union {None} /\ read' \in 0..made
    BY <1>0, RotationAssumption DEF Rotation!TypeOK
  <2>5. got' \in [Task -> 0..made]
    <3>1. ASSUME NEW c \in Task, Rotation!Fire(c) PROVE got' \in [Task -> 0..made]
      <4>1. \/ got' = got
            \/ /\ job[c] \in Hosted
               /\ \/ cred[job[c]] # None /\ got' = [got EXCEPT ![c] = cred[job[c]].value]
                  \/ got' = [got EXCEPT ![c] = items[job[c]]]
        BY <3>1 DEF Rotation!Hit
      <4>2. CASE job[c] \in Hosted
        <5>1. items[job[c]] \in 0..made
          BY <1>0, <4>2, RotationAssumption DEF Rotation!TypeOK
        <5> QED BY <1>0, <4>1, <4>2, <5>1 DEF Rotation!TypeOK, RotationCached
      <4> QED BY <1>0, <4>1, <4>2 DEF Rotation!TypeOK
    <3> QED BY <1>0, <3>1 DEF Rotation!TypeOK
  <2>6. UNCHANGED <<job, current, new, wire, site, made, vault, files, unheard>>
    OBVIOUS
  <2>7. timer' \in BOOLEAN
    BY <1>0, Zenon DEF Rotation!TypeOK
  <2> HIDE DEF Rotation!Sync, Rotation!Refresh, Rotation!Tick, Rotation!Fill, Rotation!Purge, Rotation!Read, Rotation!Expire, Rotation!Fire
  <2> QED BY <1>0, <1>c, <2>1, <2>2, <2>3, <2>4, <2>5, <2>6, <2>7 DEF Rotation!TypeOK
<1>2. RotationFresh'
  BY <1>0 DEF RotationFresh, RotationHeard, Rotation!TypeOK, Rotation!Item
<1>3. RotationHeard'
  BY <1>0 DEF RotationFresh, RotationHeard, Rotation!TypeOK, Rotation!Item
<1>4. Rotation!AdminPasswordKept'
  BY <1>0 DEF Rotation!AdminPasswordKept, Rotation!TypeOK, RotationHeard
<1> QED BY <1>c, <1>1, <1>2, <1>3, <1>4 DEF RotationInv, RotationCached

\* Every step of CredentialRotation keeps the invariant.
LEMMA RotationStep ==
  ASSUME RotationInv, [Rotation!Next]_(Rotation!vars)
  PROVE  RotationInv'
<1>1. CASE UNCHANGED Rotation!vars
  BY <1>1 DEF Rotation!vars, Rotation!callVars, Rotation!siteVars, Rotation!fileVars, Rotation!sockVars,
     RotationInv, Rotation!TypeOK, RotationFresh, RotationHeard, RotationCached, Rotation!AdminPasswordKept
<1>2. CASE Rotation!Next
  BY <1>2, RotationBegin, RotationScript, RotationWaits, RotationWrites, RotationReads DEF Rotation!Next, Rotation!Rotate
<1> QED BY <1>1, <1>2

\* No call writes over a newer password.
LEMMA RotationLatest == ASSUME RotationInv PROVE Rotation!WritesTheLatest
  BY DEF RotationInv, RotationHeard, Rotation!WritesTheLatest

\* A behaviour about CredentialRotation takes its steps and no others.
LEMMA RotationPart ==
  ASSUME part = "rotation", [Next]_vars
  PROVE  [Rotation!Next]_(Rotation!vars)
<1>1. CASE Next
  BY <1>1 DEF Next
<1>2. CASE UNCHANGED vars
  <2>1. UNCHANGED <<pc, job, current, new, wire, got, site, made, vault, items, timer, files, now, cred,
                    asked, read, faults, unheard>>
    BY <1>2, Zenon DEF vars
  <2> QED BY <2>1 DEF Rotation!vars, Rotation!callVars, Rotation!siteVars, Rotation!fileVars, Rotation!sockVars
<1> QED BY <1>1, <1>2

\* It starts as CredentialRotation does.
LEMMA RotationStart == ASSUME Init, part = "rotation" PROVE Rotation!Init
  BY DEF Init

\* The admin's new password is in the vault, in a recovery file or with the
\* call that made it, unless nobody heard of the script that set it or no
\* recovery file could be made for it; and no call writes an older password
\* over a newer one (rotation of the managed credentials).
THEOREM SafetyOfRotation == Spec => []AdminPasswordSafe
<1> DEFINE I == part = "rotation" => RotationInv
<1>1. Init => I
  BY RotationStart, RotationInit
<1>2. I /\ [Next]_vars => I'
  <2> SUFFICES ASSUME I, [Next]_vars, part' = "rotation" PROVE (RotationInv)'
    OBVIOUS
  <2> QED BY PartStays, RotationPart, RotationStep
<1>3. I => AdminPasswordSafe
  BY RotationLatest DEF AdminPasswordSafe, RotationInv
<1> QED BY <1>1, <1>2, <1>3, PTL DEF Spec

------------------------------------------------------------------------------
(* CredentialUse: what a call has looked at, by an id or by a name, stays   *)
(* as it was until a sync changes it, and then the call is marked as        *)
(* disturbed.                                                               *)

\* What a call asks for.
UseJob == [op : {"env", "test"}, item : Credential]
            \union [op : {"totp", "notes"}, name : Use!Name]
            \union [op : {"inject"}, name : Use!Name, token : Use!Name]

\* Some item of the name that a call uses as t is in the folder f.
UseIn(u, t, f) == \E i \in Credential : items[i].name = Use!NameOf(u, t) /\ items[i].folder = f

\* v is the version of some item of that name.
UseOf(u, t, v) == \E i \in Credential : items[i].name = Use!NameOf(u, t) /\ v = Use!Version(i)

\* The item that a call by id uses is in the folder it has resolved;
\* test_credential does without one.
UseFits(u) ==
  \/ scope[u]["item"] = items[job[u].item].folder
  \/ job[u].op = "test" /\ scope[u]["item"] = None

\* What a call has looked at is still so, as long as no sync has changed it.
UseSeen(u) ==
  /\ Use!ById(job[u].op) =>
       /\ pc[u] = "resolve" => hand[u] = items[job[u].item].folder
       /\ pc[u] \in {"secret", "use"} => UseFits(u)
  /\ ~Use!ById(job[u].op) =>
       /\ \A t \in Use!Target : scope[u][t] # None => UseIn(u, t, scope[u][t])
       /\ user[u] # None => UseOf(u, "item", user[u])
       /\ pc[u] \in {"notes", "use"} => UseOf(u, "item", got[u])
       /\ token[u] # None => UseOf(u, "token", token[u])

\* What a call has found out at each place.
UsePlace(u) ==
  /\ pc[u] = "idle" => scope[u] = Use!Unchecked /\ user[u] = None /\ token[u] = None
  /\ pc[u] # "idle" => job[u] \in UseJob
  /\ pc[u] \in {"check", "name", "notes"} => ~Use!ById(job[u].op)
  /\ pc[u] \in {"name", "notes"} => job[u].op = "inject"
  /\ pc[u] = "check" => hand[u] # None
  /\ pc[u] \in {"resolve", "check"} =>
       /\ user[u] = None
       /\ job[u].op # "inject" => scope[u]["item"] = None
  /\ pc[u] \in {"name", "secret", "notes", "use"} /\ ~Use!ById(job[u].op) =>
       scope[u]["item"] # None /\ (job[u].op = "inject" => scope[u]["token"] # None)
  /\ token[u] # None => pc[u] = "use" /\ job[u].op = "inject"
  /\ pc[u] = "use" /\ Use!ById(job[u].op) =>
       user[u] = got[u] /\ got[u].item = job[u].item

\* Both, for a call that is under way.
UseHas(u) == UsePlace(u) /\ (pc[u] # "idle" /\ moved[u] = FALSE => UseSeen(u))

\* The variables of the calls.
UseOwnTypes ==
  /\ pc \in [User -> {"idle", "resolve", "check", "name", "secret", "notes", "use"}]
  /\ job \in [User -> UseJob \union {None}] /\ moved \in [User -> BOOLEAN]
  /\ hand \in [User -> Use!Folder \union {None}]
  /\ scope \in [User -> [Use!Target -> Use!Folder \union {None}]]
  /\ user \in [User -> Use!Secret \union {None}] /\ got \in [User -> Use!Secret \union {None}]
  /\ token \in [User -> Use!Secret \union {None}]

\* The variables of the vault and the caches.
UseShared ==
  /\ server \in [Credential -> Use!Cipher] /\ items \in [Credential -> Use!Cipher]
  /\ home \in Use!Folder \union {None} /\ index \in Use!Folder \union {None}
  /\ folder \in Use!Folder \union {None}
  /\ first \in Credential /\ changes \in 0..MaxChanges

\* The invariant.
UseInv == UseOwnTypes /\ UseShared /\ \A u \in User : UseHas(u)

\* Then what is used is in scope.
LEMMA UseScope == ASSUME UseInv PROVE Use!UsedInScope
<1> SUFFICES ASSUME NEW u \in User, pc[u] = "use"
             PROVE  /\ Use!ById(job[u].op) => user[u] = got[u]
                    /\ ~moved[u] /\ Use!Known(u, got[u]) =>
                         Use!Within(u, got[u], "item") /\ (user[u] # None => user[u] = got[u])
                    /\ ~moved[u] /\ token[u] # None /\ Use!Known(u, token[u]) =>
                         Use!Within(u, token[u], "token")
  BY DEF Use!UsedInScope
<1>1. UsePlace(u) /\ (moved[u] = FALSE => UseSeen(u))
  BY DEF UseInv, UseHas
<1>2. \A i \in Credential : Use!Version(i).item = i
  BY DEF Use!Version
<1>3. ASSUME ~Use!ById(job[u].op), NEW t \in Use!Target, NEW v, UseOf(u, t, v), Use!Known(u, v),
             NEW f, UseIn(u, t, f)
      PROVE  /\ items[v.item].folder = f
             /\ \A w : UseOf(u, t, w) => w = v
  <2>1. PICK i \in Credential : items[i].name = Use!NameOf(u, t) /\ v = Use!Version(i)
    BY <1>3 DEF UseOf
  <2>2. v.item = i /\ Use!Bearers(Use!NameOf(u, t)) = {i}
    BY <1>2, <1>3, <2>1 DEF Use!Known
  <2>3. \A k \in Credential : items[k].name = Use!NameOf(u, t) => k = i
    BY <2>2 DEF Use!Bearers
  <2> QED BY <1>3, <2>1, <2>2, <2>3 DEF UseOf, UseIn
<1>4. CASE Use!ById(job[u].op)
  <2>1. user[u] = got[u] /\ got[u].item = job[u].item /\ token[u] = None
    BY <1>1, <1>4 DEF UsePlace, Use!ById
  <2>2. ~moved[u] => UseFits(u)
    BY <1>1, <1>4 DEF UseSeen, UseInv, UseOwnTypes
  <2> QED BY <2>1, <2>2 DEF UseFits, Use!Within
<1>5. CASE ~Use!ById(job[u].op)
  <2>1. scope[u]["item"] # None /\ (token[u] # None => scope[u]["token"] # None)
    BY <1>1, <1>5 DEF UsePlace
  <2>2. "item" \in Use!Target /\ "token" \in Use!Target
    BY DEF Use!Target
  <2>3. ~moved[u] => UseSeen(u)
    BY <1>1 DEF UseInv, UseOwnTypes
  <2>4. ASSUME ~moved[u], Use!Known(u, got[u])
        PROVE  Use!Within(u, got[u], "item") /\ (user[u] # None => user[u] = got[u])
    <3>1. /\ UseOf(u, "item", got[u]) /\ UseIn(u, "item", scope[u]["item"])
          /\ user[u] # None => UseOf(u, "item", user[u])
      BY <1>5, <2>1, <2>2, <2>3, <2>4 DEF UseSeen
    <3> QED BY <1>3, <1>5, <2>2, <2>4, <3>1 DEF Use!Within
  <2>5. ASSUME ~moved[u], token[u] # None, Use!Known(u, token[u])
        PROVE  Use!Within(u, token[u], "token")
    <3>1. UseOf(u, "token", token[u]) /\ UseIn(u, "token", scope[u]["token"])
      BY <1>5, <2>1, <2>2, <2>3, <2>5 DEF UseSeen
    <3> QED BY <1>3, <1>5, <2>2, <2>5, <3>1 DEF Use!Within
  <2> QED BY <1>5, <2>4, <2>5
<1> QED BY <1>4, <1>5

\* The invariant holds before anything has happened.
LEMMA UseInit == ASSUME Use!Init PROVE UseInv
<1>1. /\ pc = [u \in User |-> "idle"] /\ job = [u \in User |-> None] /\ hand = job
      /\ scope = [u \in User |-> Use!Unchecked] /\ user = job /\ got = job /\ token = job
      /\ moved = [u \in User |-> FALSE]
  BY DEF Use!Init, Use!AllIdle
<1>2. UseOwnTypes
  BY <1>1 DEF UseOwnTypes, Use!Unchecked
<1>3. server \in [Credential -> Use!Cipher] /\ items = server
  BY UseAssumption DEF Use!Init, Use!Cipher, Use!Name, Use!Folder
<1>4. UseShared
  BY <1>3, UseAssumption DEF Use!Init, UseShared, Use!Folder
<1>5. \A u \in User : UseHas(u)
  BY <1>1 DEF UseHas, UsePlace
<1> QED BY <1>2, <1>4, <1>5 DEF UseInv

\* What a step leaves to a call that it is not of.
LEMMA UseStays ==
  ASSUME NEW u \in User, UseHas(u), UNCHANGED items,
         pc'[u] = pc[u], job'[u] = job[u], hand'[u] = hand[u], scope'[u] = scope[u],
         user'[u] = user[u], got'[u] = got[u], token'[u] = token[u], moved'[u] = moved[u]
  PROVE  UseHas(u)'
<1>1. UsePlace(u)'
  BY DEF UseHas, UsePlace, Use!ById, Use!Unchecked
<1>2. \A t : Use!NameOf(u, t)' = Use!NameOf(u, t)
  BY DEF Use!NameOf
<1>3. /\ \A t, f : UseIn(u, t, f) => UseIn(u, t, f)'
      /\ \A t, v : UseOf(u, t, v) => UseOf(u, t, v)'
  BY <1>2 DEF UseIn, UseOf, Use!Version
<1>4. UseSeen(u) => UseSeen(u)'
  BY <1>3 DEF UseSeen, UseFits, Use!ById
<1> QED BY <1>1, <1>4 DEF UseHas

\* The other calls stay as they are.
UseAside(u) ==
  \A w \in User \ {u} :
    /\ pc'[w] = pc[w] /\ job'[w] = job[w] /\ hand'[w] = hand[w] /\ scope'[w] = scope[w]
    /\ user'[w] = user[w] /\ got'[w] = got[w] /\ token'[w] = token[w] /\ moved'[w] = moved[w]

\* The step of one call.
LEMMA UseMoves ==
  ASSUME UseInv, NEW u \in User, UseAside(u), UseOwnTypes', UseShared', UseHas(u)',
         UNCHANGED items
  PROVE  UseInv'
<1>1. \A w \in User \ {u} : UseHas(w)'
  BY UseStays DEF UseAside, UseInv
<1> QED BY <1>1 DEF UseInv

\* A call ends.
LEMMA UseEnds ==
  ASSUME UseInv, NEW u \in User, Use!Ended(u), UseShared', UNCHANGED items
  PROVE  UseInv'
<1>1. /\ pc' = [pc EXCEPT ![u] = "idle"] /\ job' = [job EXCEPT ![u] = None]
      /\ hand' = [hand EXCEPT ![u] = None] /\ scope' = [scope EXCEPT ![u] = Use!Unchecked]
      /\ moved' = [moved EXCEPT ![u] = FALSE] /\ user' = [user EXCEPT ![u] = None]
      /\ got' = [got EXCEPT ![u] = None] /\ token' = [token EXCEPT ![u] = None]
  BY DEF Use!Ended, Use!Goto, Use!Set
<1>2. Use!Unchecked \in [Use!Target -> Use!Folder \union {None}]
  BY DEF Use!Unchecked
<1>3. UseAside(u)
  BY <1>1 DEF UseAside, UseInv, UseOwnTypes
<1>4. UseOwnTypes'
  BY <1>1, <1>2 DEF UseOwnTypes, UseInv
<1>5. pc'[u] = "idle" /\ scope'[u] = Use!Unchecked /\ user'[u] = None /\ token'[u] = None
  BY <1>1 DEF UseInv, UseOwnTypes
<1>6. UseHas(u)'
  BY <1>5 DEF UseHas, UsePlace, Use!Unchecked
<1> QED BY <1>3, <1>4, <1>6, UseMoves

\* A call begins; by an id it looks at the cipher first.
LEMMA UseBegin == ASSUME UseInv, NEW u \in User, Use!Begin(u) PROVE UseInv'
<1>0. UseOwnTypes /\ UseShared /\ UsePlace(u)
  BY DEF UseInv, UseHas
<1>1. /\ pc[u] = "idle" /\ pc' = [pc EXCEPT ![u] = "resolve"]
      /\ UNCHANGED <<server, home, changes, items, index, first, folder, scope, user, got,
                     token, moved>>
  BY DEF Use!Begin, Use!Goto, Use!Set, Use!serverVars, Use!cacheVars
<1>2. PICK j \in UseJob, h \in Use!Folder \union {None} :
        /\ job' = [job EXCEPT ![u] = j] /\ hand' = [hand EXCEPT ![u] = h]
        /\ Use!ById(j.op) => h = items[j.item].folder
  <2>1. CASE \E i \in Credential : Use!WriteEnv(u, i) \/ Use!TestCredential(u, i)
    <3>1. PICK i \in Credential, op \in {"env", "test"} : Use!LookedUp(u, op, i)
      BY <2>1 DEF Use!WriteEnv, Use!TestCredential
    <3>2. /\ [op |-> op, item |-> i] \in UseJob /\ items[i].folder \in Use!Folder
          /\ job' = [job EXCEPT ![u] = [op |-> op, item |-> i]]
          /\ hand' = [hand EXCEPT ![u] = items[i].folder]
      BY <1>0, <3>1 DEF UseJob, UseShared, Use!Cipher, Use!LookedUp, Use!Set
    <3> QED BY <3>2
  <2>2. CASE \/ \E n \in Use!Name : Use!GenerateTotp(u, n) \/ Use!DecryptNotes(u, n)
             \/ \E n, t \in Use!Name : Use!InjectCreds(u, n, t)
    <3>0. UNCHANGED hand
      BY <2>2 DEF Use!GenerateTotp, Use!DecryptNotes, Use!InjectCreds
    <3>1. hand' = [hand EXCEPT ![u] = hand[u]] /\ hand[u] \in Use!Folder \union {None}
      BY <1>0, <3>0 DEF UseOwnTypes
    <3>2. PICK j \in UseJob : job' = [job EXCEPT ![u] = j] /\ ~Use!ById(j.op)
      <4>1. CASE \E n \in Use!Name : Use!GenerateTotp(u, n) \/ Use!DecryptNotes(u, n)
        <5>1. PICK n \in Use!Name, op \in {"totp", "notes"} :
                job' = [job EXCEPT ![u] = [op |-> op, name |-> n]]
          BY <4>1 DEF Use!GenerateTotp, Use!DecryptNotes, Use!Set
        <5>2. [op |-> op, name |-> n] \in UseJob /\ ~Use!ById([op |-> op, name |-> n].op)
          BY DEF UseJob, Use!ById
        <5> QED BY <5>1, <5>2
      <4>2. CASE \E n, t \in Use!Name : Use!InjectCreds(u, n, t)
        <5>1. PICK n, t \in Use!Name :
                job' = [job EXCEPT ![u] = [op |-> "inject", name |-> n, token |-> t]]
          BY <4>2 DEF Use!InjectCreds, Use!Set
        <5>2. /\ [op |-> "inject", name |-> n, token |-> t] \in UseJob
              /\ ~Use!ById([op |-> "inject", name |-> n, token |-> t].op)
          BY DEF UseJob, Use!ById
        <5> QED BY <5>1, <5>2
      <4> QED BY <2>2, <4>1, <4>2
    <3> QED BY <3>1, <3>2
  <2> QED BY <2>1, <2>2 DEF Use!Begin
<1>3. UseAside(u)
  BY <1>0, <1>1, <1>2 DEF UseAside, UseOwnTypes
<1>4. UseOwnTypes'
  BY <1>0, <1>1, <1>2 DEF UseOwnTypes
<1>5. UseHas(u)'
  <2>1. /\ pc'[u] = "resolve" /\ job'[u] = j /\ hand'[u] = h /\ scope'[u] = Use!Unchecked
        /\ user'[u] = None /\ token'[u] = None
    BY <1>0, <1>1, <1>2 DEF UsePlace, UseOwnTypes
  <2>2. UsePlace(u)'
    BY <1>2, <2>1 DEF UsePlace, Use!Unchecked, Use!Target
  <2>3. UseSeen(u)'
    BY <1>1, <1>2, <2>1 DEF UseSeen, Use!ById, Use!Unchecked, Use!Target
  <2> QED BY <2>2, <2>3 DEF UseHas
<1>6. UseShared'
  BY <1>0, <1>1 DEF UseShared
<1> QED BY <1>1, <1>3, <1>4, <1>5, <1>6, UseMoves

\* The folder is resolved: what a call by id has looked at is in it, and a call by name
\* has it at hand.
LEMMA UseResolve == ASSUME UseInv, NEW u \in User, Use!Resolve(u) PROVE UseInv'
<1>0. UseOwnTypes /\ UseShared /\ UseHas(u) /\ UsePlace(u)
  BY DEF UseInv, UseHas
<1>1. /\ pc[u] = "resolve" /\ folder' = Use!Resolved
      /\ UNCHANGED <<server, home, changes, items, index, first>>
  BY DEF Use!Resolve, Use!serverVars
<1>2. UseShared' /\ Use!Resolved \in Use!Folder \union {None}
  BY <1>0, <1>1 DEF UseShared, Use!Resolved
<1>3. CASE Use!Refused(u) /\ Use!Ended(u)
  BY <1>1, <1>2, <1>3, UseEnds
<1>4. CASE /\ ~Use!Refused(u) /\ Use!ById(job[u].op) /\ Use!Goto(u, "secret")
           /\ scope' = [scope EXCEPT ![u].item = Use!Resolved]
           /\ hand' = Use!Set(hand, u, None) /\ UNCHANGED <<job, user, got, token, moved>>
  <2>1. /\ pc' = [pc EXCEPT ![u] = "secret"] /\ hand' = [hand EXCEPT ![u] = None]
        /\ scope' = [scope EXCEPT ![u] = [scope[u] EXCEPT !["item"] = Use!Resolved]]
        /\ UNCHANGED <<job, user, got, token, moved>>
    BY <1>4 DEF Use!Goto, Use!Set
  <2>2. UseAside(u)
    BY <1>0, <2>1 DEF UseAside, UseOwnTypes
  <2>3. UseOwnTypes'
    <3>1. [scope[u] EXCEPT !["item"] = Use!Resolved] \in [Use!Target -> Use!Folder \union {None}]
      BY <1>0, <1>2 DEF UseOwnTypes
    <3> QED BY <1>0, <2>1, <3>1 DEF UseOwnTypes
  <2>4. /\ pc'[u] = "secret" /\ scope'[u]["item"] = Use!Resolved /\ job'[u] = job[u]
        /\ token'[u] = None /\ job[u] \in UseJob /\ moved'[u] = moved[u]
    <3>1. scope[u] \in [Use!Target -> Use!Folder \union {None}] /\ "item" \in Use!Target
      BY <1>0 DEF UseOwnTypes, Use!Target
    <3>2. token[u] = None /\ job[u] \in UseJob
      BY <1>0, <1>1 DEF UsePlace
    <3> QED BY <1>0, <2>1, <3>1, <3>2 DEF UseOwnTypes
  <2>5. UsePlace(u)'
    BY <1>4, <2>4 DEF UsePlace, Use!ById
  <2>6. moved[u] = FALSE => UseSeen(u)'
    <3>1. moved[u] = FALSE => hand[u] = items[job[u].item].folder
      BY <1>0, <1>1, <1>4 DEF UseHas, UseSeen
    <3>2. moved[u] = FALSE => UseFits(u)'
      BY <1>1, <1>4, <2>4, <3>1 DEF UseFits, Use!Refused, Use!Allowed
    <3> QED BY <1>4, <2>4, <3>2 DEF UseSeen, Use!ById
  <2> QED BY <1>1, <1>2, <2>2, <2>3, <2>4, <2>5, <2>6, UseMoves DEF UseHas
<1>5. CASE /\ ~Use!Refused(u) /\ ~Use!ById(job[u].op) /\ Use!Goto(u, "check")
           /\ hand' = Use!Set(hand, u, Use!Resolved)
           /\ UNCHANGED <<job, scope, user, got, token, moved>>
  <2>1. /\ pc' = [pc EXCEPT ![u] = "check"] /\ hand' = [hand EXCEPT ![u] = Use!Resolved]
        /\ UNCHANGED <<job, scope, user, got, token, moved>>
    BY <1>5 DEF Use!Goto, Use!Set
  <2>2. UseAside(u)
    BY <1>0, <2>1 DEF UseAside, UseOwnTypes
  <2>3. UseOwnTypes'
    BY <1>0, <1>2, <2>1 DEF UseOwnTypes
  <2>4. pc'[u] = "check" /\ hand'[u] = Use!Resolved
    BY <1>0, <2>1 DEF UseOwnTypes
  <2>5. Use!Resolved # None
    BY <1>5 DEF Use!Refused, Use!Allowed, Use!ById
  <2>6. UsePlace(u)'
    BY <1>0, <1>1, <1>5, <2>1, <2>4, <2>5 DEF UsePlace, Use!ById
  <2>7. moved[u] = FALSE => UseSeen(u)'
    <3>1. moved[u] = FALSE => UseSeen(u)
      BY <1>0, <1>1 DEF UseHas
    <3>2. user[u] = None /\ token[u] = None
      BY <1>0, <1>1 DEF UsePlace
    <3>3. \A t, f : UseIn(u, t, f) => UseIn(u, t, f)'
      BY <1>1, <2>1 DEF UseIn, Use!NameOf
    <3> QED BY <1>5, <2>1, <2>4, <3>1, <3>2, <3>3 DEF UseSeen, Use!ById
  <2> QED BY <1>1, <1>2, <2>1, <2>2, <2>3, <2>6, <2>7, UseMoves DEF UseHas
<1> QED BY <1>3, <1>4, <1>5 DEF Use!Resolve

\* A check that passes has met an item of the name in the folder at hand.
LEMMA UseCheck == ASSUME UseInv, NEW u \in User, Use!Check(u) PROVE UseInv'
<1> DEFINE t == Use!Turn(u)
           place == Use!AfterCheck(job[u].op, t)
<1>0. UseOwnTypes /\ UseShared /\ UseHas(u) /\ UsePlace(u)
  BY DEF UseInv, UseHas
<1>1. pc[u] = "check" /\ UNCHANGED <<server, home, changes, items, index, first, folder>>
  BY DEF Use!Check, Use!serverVars, Use!cacheVars
<1>2. UseShared'
  BY <1>0, <1>1 DEF UseShared
<1>3. CASE ~Use!NameInFolder(Use!NameOf(u, t), hand[u])
  BY <1>1, <1>2, <1>3, UseEnds DEF Use!Check
<1>4. CASE Use!NameInFolder(Use!NameOf(u, t), hand[u])
  <2>0. t \in Use!Target /\ (t = IF scope[u]["item"] = None THEN "item" ELSE "token")
    BY DEF Use!Turn, Use!Target
  <2>1. /\ pc' = [pc EXCEPT ![u] = place] /\ hand' = [hand EXCEPT ![u] = None]
        /\ scope' = [scope EXCEPT ![u] = [scope[u] EXCEPT ![t] = hand[u]]]
        /\ UNCHANGED <<job, user, got, token, moved>>
    BY <1>4 DEF Use!Check, Use!Goto, Use!Set
  <2>2. place = IF job[u].op # "inject" THEN "secret" ELSE IF t = "item" THEN "resolve" ELSE "name"
    BY DEF Use!AfterCheck
  <2>3. /\ ~Use!ById(job[u].op) /\ hand[u] # None /\ user[u] = None /\ token[u] = None
        /\ job[u] \in UseJob /\ (job[u].op # "inject" => scope[u]["item"] = None)
    BY <1>0, <1>1 DEF UsePlace
  <2>4. /\ UseIn(u, t, hand[u])
        /\ \A r, f : UseIn(u, r, f) => UseIn(u, r, f)'
    BY <1>1, <1>4, <2>1 DEF UseIn, Use!NameInFolder, Use!Bearers, Use!NameOf
  <2> HIDE DEF t, place
  <2>5. UseAside(u)
    BY <1>0, <2>1 DEF UseAside, UseOwnTypes
  <2>6. UseOwnTypes'
    <3>1. [scope[u] EXCEPT ![t] = hand[u]] \in [Use!Target -> Use!Folder \union {None}]
      BY <1>0 DEF UseOwnTypes
    <3>2. place \in {"secret", "resolve", "name"}
      BY <2>2
    <3> QED BY <1>0, <2>1, <3>1, <3>2 DEF UseOwnTypes
  <2>7. /\ pc'[u] = place /\ job'[u] = job[u] /\ user'[u] = None /\ token'[u] = None
        /\ scope'[u][t] = hand[u] /\ \A r \in Use!Target \ {t} : scope'[u][r] = scope[u][r]
        /\ moved'[u] = moved[u]
    BY <1>0, <2>0, <2>1, <2>3 DEF UseOwnTypes
  <2>8. UsePlace(u)'
    <3>1. "item" \in Use!Target /\ "token" \in Use!Target
      BY DEF Use!Target
    <3>2. /\ scope'[u]["item"] # None
          /\ t = "token" => scope'[u]["token"] # None
      BY <2>0, <2>3, <2>7, <3>1
    <3>3. CASE job[u].op = "inject"
      BY <2>2, <2>3, <2>7, <3>2, <3>3, <2>0 DEF UsePlace
    <3>4. CASE job[u].op # "inject"
      BY <2>2, <2>3, <2>7, <3>2, <3>4, <2>0 DEF UsePlace
    <3> QED BY <3>3, <3>4
  <2>9. moved[u] = FALSE => UseSeen(u)'
    <3>1. moved[u] = FALSE => UseSeen(u)
      BY <1>0, <1>1 DEF UseHas
    <3>2. ASSUME moved[u] = FALSE, NEW r \in Use!Target, NEW f, f = scope'[u][r], f # None
          PROVE  UseIn(u, r, f)'
      BY <2>3, <2>4, <2>7, <3>1, <3>2 DEF UseSeen
    <3>3. pc'[u] \notin {"notes", "use"}
      BY <2>2, <2>7
    <3>4. ~Use!ById(job'[u].op)
      BY <2>3, <2>7
    <3>5. \A r \in Use!Target : moved[u] = FALSE /\ scope'[u][r] # None =>
            (UseIn(u, r, scope[u][r]))'
      BY <3>2 DEF UseIn
    <3> QED BY <2>7, <3>3, <3>4, <3>5 DEF UseSeen, Use!ById
  <2> QED BY <1>1, <1>2, <2>5, <2>6, <2>7, <2>8, <2>9, UseMoves DEF UseHas
<1> QED BY <1>3, <1>4

\* The item that is found for a name that somebody has.
LEMMA UseFound ==
  ASSUME UseShared, NEW n, Use!Bearers(n) # {}
  PROVE  Use!Found(n) \in Credential /\ items[Use!Found(n)].name = n
<1>1. CASE items[first].name = n
  BY <1>1 DEF UseShared, Use!Found
<1>2. CASE items[first].name # n
  <2>1. \E i : i \in Use!Bearers(n)
    OBVIOUS
  <2>2. (CHOOSE i \in Use!Bearers(n) : TRUE) \in Use!Bearers(n)
    BY <2>1
  <2> QED BY <1>2, <2>2 DEF Use!Found, Use!Bearers
<1> QED BY <1>1, <1>2

\* A version of an item's secret.
LEMMA UseVersion ==
  ASSUME UseShared, NEW i \in Credential PROVE Use!Version(i) \in Use!Secret
<1>1. items[i].version \in 0..MaxChanges
  BY DEF UseShared, Use!Cipher
<1> QED BY <1>1 DEF Use!Version, Use!Secret

\* What is read by a name is a version of an item that bears it.
LEMMA UseNamed ==
  ASSUME UseShared, NEW u, NEW t, NEW n, n = Use!NameOf(u, t), Use!Bearers(n) # {}
  PROVE  /\ UseOf(u, t, Use!Version(Use!Found(n)))
         /\ Use!Version(Use!Found(n)) \in Use!Secret
BY UseFound, UseVersion DEF UseOf

\* A call by name that reads: of what it has nothing but that changes.
LEMMA UseReads ==
  ASSUME UseInv, NEW u \in User, ~Use!ById(job[u].op), pc[u] \in {"name", "secret", "notes"},
         Use!ReadUser(u) \/ Use!ReadSecret(u) \/ Use!ReadToken(u)
  PROVE  UseInv'
<1>0. UseOwnTypes /\ UseShared /\ UseHas(u) /\ UsePlace(u) /\ job[u] \in UseJob
  BY DEF UseInv, UseHas, UsePlace
<1>1. UNCHANGED <<server, home, changes, items, index, first, folder, job, hand, scope, moved>>
  BY DEF Use!ReadUser, Use!ReadSecret, Use!ReadToken, Use!serverVars, Use!cacheVars
<1>2. UseShared'
  BY <1>0, <1>1 DEF UseShared
<1>3. /\ \A t, f : UseIn(u, t, f) => UseIn(u, t, f)'
      /\ \A t, v : UseOf(u, t, v) => UseOf(u, t, v)'
  BY <1>1 DEF UseIn, UseOf, Use!Version, Use!NameOf
<1>4. PICK p \in {"secret", "notes", "use"},
           v \in Use!Secret \union {None}, g \in Use!Secret \union {None},
           k \in Use!Secret \union {None} :
        /\ pc' = [pc EXCEPT ![u] = p] /\ user' = [user EXCEPT ![u] = v]
        /\ got' = [got EXCEPT ![u] = g] /\ token' = [token EXCEPT ![u] = k]
        /\ p \in {"notes", "secret"} => k = None
        /\ p = "notes" => job[u].op = "inject"
        /\ k # None => job[u].op = "inject"
        /\ v # None => v = user[u] \/ UseOf(u, "item", v)
        /\ p \in {"notes", "use"} => UseOf(u, "item", g) \/ (pc[u] = "notes" /\ g = got[u])
        /\ k # None => UseOf(u, "token", k)
  <2>1. /\ user = [user EXCEPT ![u] = user[u]] /\ got = [got EXCEPT ![u] = got[u]]
        /\ token = [token EXCEPT ![u] = token[u]]
        /\ user[u] \in Use!Secret \union {None} /\ got[u] \in Use!Secret \union {None}
        /\ token[u] = None
    BY <1>0 DEF UseOwnTypes, UsePlace
  <2>2. CASE Use!ReadUser(u)
    <3>1. /\ pc' = [pc EXCEPT ![u] = "secret"] /\ UNCHANGED <<got, token>>
          /\ \/ UNCHANGED user
             \/ /\ Use!Bearers(job[u].name) # {}
                /\ user' = [user EXCEPT ![u] = Use!Version(Use!Found(job[u].name))]
      BY <2>2 DEF Use!ReadUser, Use!Goto, Use!Set
    <3>2. job[u].name = Use!NameOf(u, "item")
      BY DEF Use!NameOf
    <3>3. PICK v \in Use!Secret \union {None} :
            user' = [user EXCEPT ![u] = v] /\ (v = user[u] \/ UseOf(u, "item", v))
      BY <1>0, <2>1, <3>1, <3>2, UseNamed
    <3> QED BY <2>1, <3>1, <3>3
  <2>3. CASE Use!ReadSecret(u)
    <3>1. /\ pc[u] = "secret"
          /\ pc' = [pc EXCEPT ![u] = IF job[u].op = "inject" THEN "notes" ELSE "use"]
          /\ UNCHANGED <<user, token>> /\ Use!Bearers(job[u].name) # {}
          /\ got' = [got EXCEPT ![u] = Use!Version(Use!Found(job[u].name))]
      BY <2>3 DEF Use!ReadSecret, Use!ReadByName, Use!Goto, Use!Set
    <3>2. job[u].name = Use!NameOf(u, "item")
      BY DEF Use!NameOf
    <3>3. PICK g \in Use!Secret : got' = [got EXCEPT ![u] = g] /\ UseOf(u, "item", g)
      BY <1>0, <3>1, <3>2, UseNamed
    <3>4. \/ job[u].op = "inject" /\ pc' = [pc EXCEPT ![u] = "notes"]
          \/ job[u].op # "inject" /\ pc' = [pc EXCEPT ![u] = "use"]
      BY <3>1
    <3>5. /\ user' = [user EXCEPT ![u] = user[u]] /\ token' = [token EXCEPT ![u] = None]
          /\ g \in Use!Secret \union {None}
      BY <2>1, <3>1
    <3>6. CASE job[u].op = "inject" /\ pc' = [pc EXCEPT ![u] = "notes"]
      BY <2>1, <3>3, <3>5, <3>6
    <3>7. CASE job[u].op # "inject" /\ pc' = [pc EXCEPT ![u] = "use"]
      BY <2>1, <3>3, <3>5, <3>7
    <3> QED BY <3>4, <3>6, <3>7
  <2>4. CASE Use!ReadToken(u)
    <3>1. /\ pc[u] = "notes" /\ pc' = [pc EXCEPT ![u] = "use"]
          /\ UNCHANGED <<user, got>> /\ Use!Bearers(job[u].token) # {}
          /\ token' = [token EXCEPT ![u] = Use!Version(Use!Found(job[u].token))]
      BY <2>4 DEF Use!ReadToken, Use!Goto, Use!Set
    <3>2. job[u].token = Use!NameOf(u, "token") /\ job[u].op = "inject"
      BY <1>0, <3>1 DEF Use!NameOf, UsePlace
    <3>3. PICK k \in Use!Secret : token' = [token EXCEPT ![u] = k] /\ UseOf(u, "token", k)
      BY <1>0, <3>1, <3>2, UseNamed
    <3> QED BY <2>1, <3>1, <3>2, <3>3
  <2> QED BY <2>2, <2>3, <2>4
<1>5. UseAside(u)
  BY <1>0, <1>1, <1>4 DEF UseAside, UseOwnTypes
<1>6. UseOwnTypes'
  BY <1>0, <1>1, <1>4 DEF UseOwnTypes
<1>7. /\ pc'[u] = p /\ user'[u] = v /\ got'[u] = g /\ token'[u] = k /\ job'[u] = job[u]
      /\ scope'[u] = scope[u] /\ moved'[u] = moved[u]
  BY <1>0, <1>1, <1>4 DEF UseOwnTypes
<1>8. /\ scope[u]["item"] # None
      /\ job[u].op = "inject" => scope[u]["token"] # None
  BY <1>0 DEF UsePlace
<1>9. UsePlace(u)'
  <2>1. ~Use!ById(job'[u].op)
    BY <1>7
  <2> QED BY <1>0, <1>4, <1>7, <1>8, <2>1 DEF UsePlace, Use!ById
<1>10. moved[u] = FALSE => UseSeen(u)'
  <2>1. moved[u] = FALSE => UseSeen(u)
    BY <1>0 DEF UseHas
  <2>2. ~Use!ById(job'[u].op)
    BY <1>7
  <2>3. ASSUME moved[u] = FALSE
        PROVE  /\ \A t \in Use!Target : scope[u][t] # None => UseIn(u, t, scope[u][t])'
               /\ v # None => UseOf(u, "item", v)'
               /\ p \in {"notes", "use"} => UseOf(u, "item", g)'
               /\ k # None => UseOf(u, "token", k)'
    <3>1. UseSeen(u) /\ scope' = scope /\ ~Use!ById(job[u].op)
      BY <1>1, <2>1, <2>3
    <3>2. \A t \in Use!Target : scope[u][t] # None => (UseIn(u, t, scope[u][t]))'
      BY <1>1, <3>1 DEF UseSeen, UseIn, Use!NameOf
    <3>3. p \in {"notes", "use"} => UseOf(u, "item", g)
      BY <1>4, <3>1 DEF UseSeen
    <3>4. v # None => UseOf(u, "item", v)
      BY <1>4, <3>1 DEF UseSeen
    <3> QED BY <1>3, <1>4, <3>2, <3>3, <3>4
  <2> QED BY <1>7, <2>2, <2>3 DEF UseSeen, Use!ById
<1> QED BY <1>1, <1>2, <1>5, <1>6, <1>7, <1>9, <1>10, UseMoves DEF UseHas

\* A call by id reads both from one version.
LEMMA UseReadsBoth ==
  ASSUME UseInv, NEW u \in User, Use!ById(job[u].op), Use!ReadSecret(u)
  PROVE  UseInv'
<1>0. UseOwnTypes /\ UseShared /\ UseHas(u) /\ UsePlace(u) /\ job[u] \in UseJob
  BY DEF UseInv, UseHas, UsePlace, Use!ReadSecret
<1>1. /\ pc[u] = "secret" /\ pc' = [pc EXCEPT ![u] = "use"]
      /\ got' = [got EXCEPT ![u] = Use!Version(job[u].item)]
      /\ user' = [user EXCEPT ![u] = Use!Version(job[u].item)]
      /\ UNCHANGED <<server, home, changes, items, index, first, folder, job, hand, scope,
                     token, moved>>
  BY DEF Use!ReadSecret, Use!ReadById, Use!Goto, Use!Set, Use!ById, Use!serverVars, Use!cacheVars
<1>2. job[u].item \in Credential /\ Use!Version(job[u].item) \in Use!Secret
  BY <1>0, UseVersion DEF UseJob, Use!ById
<1>3. UseAside(u)
  BY <1>0, <1>1 DEF UseAside, UseOwnTypes
<1>4. UseOwnTypes'
  BY <1>0, <1>1, <1>2 DEF UseOwnTypes
<1>5. /\ pc'[u] = "use" /\ got'[u] = Use!Version(job[u].item) /\ user'[u] = got'[u]
      /\ token'[u] = None /\ job'[u] = job[u] /\ moved'[u] = moved[u]
  BY <1>0, <1>1 DEF UseOwnTypes, UsePlace
<1>6. UsePlace(u)'
  BY <1>0, <1>5 DEF UsePlace, Use!ById, Use!Version
<1>7. moved[u] = FALSE => UseSeen(u)'
  <2>1. moved[u] = FALSE => UseFits(u)
    BY <1>0, <1>1 DEF UseHas, UseSeen
  <2> QED BY <1>1, <1>5, <2>1 DEF UseSeen, UseFits, Use!ById
<1>8. UseShared'
  BY <1>0, <1>1 DEF UseShared
<1> QED BY <1>1, <1>3, <1>4, <1>5, <1>6, <1>7, <1>8, UseMoves DEF UseHas

\* A sync that has not disturbed a call has left it the items of the names it has checked,
\* or the one it has looked at.
LEMMA UseDisturbs ==
  ASSUME NEW u \in User, UseHas(u), UseOwnTypes, Use!Disturbed,
         UNCHANGED <<pc, job, hand, scope, user, got, token>>
  PROVE  UseHas(u)'
<1>1. moved'[u] = (moved[u] \/ (pc[u] # "idle" /\ Use!Changed(u)))
  BY DEF Use!Disturbed
<1>2. UsePlace(u)'
  BY DEF UseHas, UsePlace, Use!ById, Use!Unchecked
<1>3. ASSUME pc[u] # "idle", moved'[u] = FALSE PROVE UseSeen(u)'
  <2>1. moved[u] = FALSE /\ ~Use!Changed(u) /\ UseSeen(u) /\ UsePlace(u)
    BY <1>1, <1>3, Zenon DEF UseHas, UseOwnTypes
  <2>2. CASE Use!ById(job[u].op)
    <3>1. items'[job[u].item] = items[job[u].item]
      BY <2>1, <2>2 DEF Use!Changed
    <3> QED BY <2>1, <2>2, <3>1 DEF UseSeen, UseFits, Use!ById
  <2>3. CASE ~Use!ById(job[u].op)
    <3>1. ASSUME NEW t \in Use!Target, scope[u][t] # None,
                 NEW i \in Credential, items[i].name = Use!NameOf(u, t)
          PROVE  items'[i] = items[i]
      <4>1. Use!NameOf(u, t) \in Use!Passed(u)
        BY <3>1 DEF Use!Passed
      <4> QED BY <2>1, <2>3, <3>1, <4>1 DEF Use!Changed
    <3>2. ASSUME NEW t \in Use!Target, scope[u][t] # None
          PROVE  /\ \A f : UseIn(u, t, f) => UseIn(u, t, f)'
                 /\ \A v : UseOf(u, t, v) => UseOf(u, t, v)'
      <4>1. Use!NameOf(u, t)' = Use!NameOf(u, t)
        BY DEF Use!NameOf
      <4>2. \A i \in Credential : items[i].name = Use!NameOf(u, t) => items'[i] = items[i]
        BY <3>1, <3>2
      <4> QED BY <4>1, <4>2 DEF UseIn, UseOf, Use!Version
    <3>3. /\ user[u] # None => scope[u]["item"] # None
          /\ pc[u] \in {"notes", "use"} => scope[u]["item"] # None
          /\ token[u] # None => scope[u]["token"] # None
      BY <1>3, <2>1, <2>3 DEF UsePlace, UseOwnTypes
    <3>4. "item" \in Use!Target /\ "token" \in Use!Target
      BY DEF Use!Target
    <3> QED BY <2>1, <2>3, <3>2, <3>3, <3>4 DEF UseSeen, Use!ById
  <2> QED BY <2>2, <2>3
<1> QED BY <1>2, <1>3 DEF UseHas

\* The caches are filled and cleared, and the server changes.
LEMMA UseOutside ==
  ASSUME UseInv, Use!Change \/ Use!StoreItems \/ Use!StoreIndex \/ Use!Clear \/ Use!Crash
  PROVE  UseInv'
<1>0. UseOwnTypes /\ UseShared /\ \A u \in User : UseHas(u)
  BY DEF UseInv
<1>1. CASE Use!Change
  <2>1. /\ changes < MaxChanges /\ changes' = changes + 1
        /\ UNCHANGED <<items, index, first, folder, pc, job, hand, scope, user, got, token, moved>>
    BY <1>1 DEF Use!Change, Use!cacheVars, Use!callVars
  <2>2. changes' \in 0..MaxChanges
    BY <1>0, <2>1, UseAssumption DEF UseShared
  <2>3. server' \in [Credential -> Use!Cipher] /\ home' \in Use!Folder \union {None}
    <3>1. CASE UNCHANGED server
      BY <1>0, <1>1, <3>1 DEF UseShared, Use!Change
    <3>2. CASE ~UNCHANGED server
      <4>1. PICK i \in Credential, f \in Use!Folder, n \in Use!Name :
              /\ server' = [server EXCEPT ![i] = [name |-> n, folder |-> f, version |-> changes']]
              /\ UNCHANGED home
        BY <1>1, <3>2 DEF Use!Change
      <4>2. [name |-> n, folder |-> f, version |-> changes'] \in Use!Cipher
        BY <2>2 DEF Use!Cipher
      <4> QED BY <1>0, <4>1, <4>2 DEF UseShared
    <3> QED BY <3>1, <3>2
  <2>4. \A u \in User : UseHas(u)'
    BY <1>0, <2>1, UseStays
  <2>5. UseOwnTypes' /\ UseShared'
    BY <1>0, <2>1, <2>2, <2>3 DEF UseOwnTypes, UseShared
  <2> QED BY <2>4, <2>5 DEF UseInv
<1>2. CASE Use!StoreItems
  <2>1. /\ items' = server /\ first' \in Credential /\ Use!Disturbed
        /\ UNCHANGED <<server, home, changes, index, folder, pc, job, hand, scope, user, got,
                       token>>
    BY <1>2 DEF Use!StoreItems, Use!serverVars
  <2>2. \A u \in User : UseHas(u)'
    BY <1>0, <2>1, UseDisturbs
  <2>3. moved' \in [User -> BOOLEAN]
    BY <2>1, Zenon DEF Use!Disturbed
  <2>4. UseOwnTypes' /\ UseShared'
    BY <1>0, <2>1, <2>3 DEF UseOwnTypes, UseShared
  <2> QED BY <2>2, <2>4 DEF UseInv
<1>3. CASE Use!StoreIndex \/ Use!Clear
  <2>1. /\ UNCHANGED <<server, home, changes, items, first, pc, job, hand, scope, user, got,
                       token, moved>>
        /\ index' \in {index, home} /\ folder' \in {folder, None}
    BY <1>3 DEF Use!StoreIndex, Use!Clear, Use!serverVars, Use!callVars
  <2>2. \A u \in User : UseHas(u)'
    BY <1>0, <2>1, UseStays
  <2>3. UseOwnTypes' /\ UseShared'
    BY <1>0, <2>1 DEF UseOwnTypes, UseShared
  <2> QED BY <2>2, <2>3 DEF UseInv
<1>4. CASE Use!Crash
  <2>1. /\ items' = server /\ index' = home /\ first' \in Credential /\ folder' = None
        /\ pc' = [u \in User |-> "idle"] /\ job' = [u \in User |-> None] /\ hand' = job'
        /\ scope' = [u \in User |-> Use!Unchecked]
        /\ user' = job' /\ got' = job' /\ token' = job'
        /\ moved' = [u \in User |-> FALSE] /\ UNCHANGED <<server, home, changes>>
    BY <1>4 DEF Use!Crash, Use!AllIdle, Use!serverVars
  <2>2. \A u \in User : UseHas(u)'
    BY <2>1 DEF UseHas, UsePlace, Use!Unchecked
  <2>3. Use!Unchecked \in [Use!Target -> Use!Folder \union {None}]
    BY DEF Use!Unchecked
  <2>4. UseOwnTypes'
    BY <2>1, <2>3 DEF UseOwnTypes
  <2>5. UseShared'
    BY <1>0, <2>1 DEF UseShared
  <2> QED BY <2>2, <2>4, <2>5 DEF UseInv
<1> QED BY <1>1, <1>2, <1>3, <1>4

\* Every step of CredentialUse keeps the invariant.
LEMMA UseStep == ASSUME UseInv, [Use!Next]_(Use!vars) PROVE UseInv'
<1>1. CASE UNCHANGED Use!vars
  <2>1. UNCHANGED <<server, home, changes, items, index, first, folder, pc, job, hand, scope,
                    user, got, token, moved>>
    BY <1>1 DEF Use!vars, Use!serverVars, Use!cacheVars, Use!callVars
  <2>2. \A u \in User : UseHas(u)'
    BY <2>1, UseStays DEF UseInv
  <2> QED BY <2>1, <2>2 DEF UseInv, UseOwnTypes, UseShared
<1>2. ASSUME NEW u \in User, Use!NoSecret(u) \/ Use!Use(u) PROVE UseInv'
  <2>1. /\ Use!Ended(u)
        /\ UNCHANGED <<server, home, changes, items, index, first, folder>>
    BY <1>2 DEF Use!NoSecret, Use!Use, Use!serverVars, Use!cacheVars
  <2>2. UseShared'
    BY <2>1 DEF UseInv, UseShared
  <2> QED BY <2>1, <2>2, UseEnds
<1>3. ASSUME NEW u \in User, Use!ReadUser(u) \/ Use!ReadSecret(u) \/ Use!ReadToken(u)
      PROVE  UseInv'
  <2>1. pc[u] \in {"name", "secret", "notes"} /\ (pc[u] # "secret" => ~Use!ById(job[u].op))
    BY <1>3 DEF Use!ReadUser, Use!ReadSecret, Use!ReadToken, UseInv, UseHas, UsePlace
  <2>2. Use!ById(job[u].op) => Use!ReadSecret(u)
    BY <1>3, <2>1 DEF Use!ReadUser, Use!ReadToken
  <2> QED BY <1>3, <2>1, <2>2, UseReads, UseReadsBoth
<1>4. CASE Use!Next
  BY <1>2, <1>3, <1>4, UseBegin, UseResolve, UseCheck, UseOutside DEF Use!Next, Use!Handle
<1> QED BY <1>1, <1>4

\* A behaviour about CredentialUse takes its steps and no others.
LEMMA UsePart ==
  ASSUME part = "use", [Next]_vars
  PROVE  [Use!Next]_(Use!vars)
<1>1. CASE Next
  BY <1>1 DEF Next
<1>2. CASE UNCHANGED vars
  <2>1. UNCHANGED <<server, home, changes, items, index, first, folder, pc, job, hand, scope,
                    user, got, token, moved, faults>>
    BY <1>2, Zenon DEF vars
  <2> QED BY <2>1 DEF Use!vars, Use!serverVars, Use!cacheVars, Use!callVars
<1> QED BY <1>1, <1>2

\* It starts as CredentialUse does.
LEMMA UseStart == ASSUME Init, part = "use" PROVE Use!Init
  BY DEF Init

\* A secret that a call uses belongs to an item of the folder with which its
\* check passed, the token of inject_creds too, and a username goes with the
\* password of the same version, unless a sync has changed the item since
\* the call looked at its folder, or two items bear the name (write_env,
\* test_credential, inject_creds, generate_totp, decrypt_notes).
THEOREM SafetyOfUse == Spec => []UsedInScope
<1> DEFINE I == part = "use" => UseInv
<1>1. Init => I
  BY UseStart, UseInit
<1>2. I /\ [Next]_vars => I'
  <2> SUFFICES ASSUME I, [Next]_vars, part' = "use" PROVE (UseInv)'
    OBVIOUS
  <2> QED BY PartStays, UsePart, UseStep
<1>3. I => UsedInScope
  BY UseScope DEF UsedInScope, UseInv
<1> QED BY <1>1, <1>2, <1>3, PTL DEF Spec

------------------------------------------------------------------------------
(* TransparentProxy: how often a request has been sent is the number of     *)
(* attempts that failed and at most one more.                               *)

\* Where an agent's request is, what has been sent of it and what has broken.
TlsHas(a) ==
  /\ pc[a] \in {"connect", "lookup"} => via[a] \in Listener
  /\ pc[a] \in {"idle", "connect", "lookup", "tunnel", "tls"} => alpn[a] = None
  /\ pc[a] = "tunnel" => ~Tls!Injects(mode[a])
  /\ alpn[a] \in Tls!Protocol => Tls!Injects(mode[a])
  /\ pc[a] \in {"tls", "request", "inject", "take", "shared", "fresh", "plain", "answer"} =>
       Tls!Injects(mode[a])
  /\ pc[a] \in {"take", "shared"} => sent[a] = 0
  /\ pc[a] = "fresh" => sent[a] <= 1
  /\ pc[a] = "plain" => sent[a] <= 2
  /\ pc[a] \in {"take", "shared", "fresh", "plain"} => sent[a] <= broken[a]
  /\ Tls!Injects(mode[a]) =>
       /\ pc[a] \in {"answer", "answered"} => sent[a] >= 1 /\ sent[a] <= broken[a] + 1
       /\ pc[a] = "failed" => broken[a] > 0 /\ sent[a] <= broken[a]

\* The invariant.
TlsInv ==
  /\ Tls!TypeOK
  /\ \A a \in Agent : TlsHas(a) /\ broken[a] <= faults

\* No request was sent more often than attempts at it failed, and once.
LEMMA TlsOnce == ASSUME TlsInv PROVE Tls!SentOncePerFailure
<1> SUFFICES ASSUME NEW a \in Agent
             PROVE  /\ pc[a] \in {"answer", "answered"} /\ Tls!Injects(mode[a]) => sent[a] \in 1..(1 + broken[a])
                    /\ pc[a] = "failed" /\ Tls!Injects(mode[a]) => broken[a] > 0 /\ sent[a] <= broken[a]
  BY DEF Tls!SentOncePerFailure
<1>1. TlsHas(a) /\ sent[a] \in 0..3 /\ broken[a] \in 0..MaxFaults
  BY DEF TlsInv, Tls!TypeOK
<1> QED BY <1>1, TlsAssumption DEF TlsHas

\* The invariant holds before anything has happened.
LEMMA TlsInit == ASSUME Tls!Init PROVE TlsInv
<1>1. Tls!TypeOK
  <2>1. /\ blocks \in BOOLEAN /\ speaks \in Tls!Protocol
        /\ registry \in Tls!Mode /\ table \in [Listener -> Tls!Mode] /\ pool \in Tls!Link
    BY DEF Tls!Init, Tls!Mode, Tls!Link
  <2>2. /\ pc \in [Agent -> Tls!Place] /\ via \in [Agent -> Listener \union {None}]
        /\ alpn \in [Agent -> Tls!Protocol \union {None}]
        /\ mode \in [Agent -> Tls!Mode \union {None}] /\ held \in [Agent -> Tls!Link]
    BY DEF Tls!Init, Tls!Place, Tls!Link
  <2>3. sent \in [Agent -> 0..3] /\ broken \in [Agent -> 0..MaxFaults]
    BY TlsAssumption DEF Tls!Init
  <2>4. edits \in 0..MaxEdits /\ faults \in 0..MaxFaults
    BY TlsAssumption DEF Tls!Init
  <2> QED BY <2>1, <2>2, <2>3, <2>4 DEF Tls!TypeOK
<1>2. ASSUME NEW a \in Agent PROVE TlsHas(a) /\ broken[a] <= faults
  BY TlsAssumption DEF Tls!Init, TlsHas
<1> QED BY <1>1, <1>2 DEF TlsInv

\* Another's step may break an agent's connection, and leaves the rest to it.
LEMMA TlsOther ==
  ASSUME NEW a \in Agent, TlsHas(a), Tls!TypeOK,
         pc'[a] = pc[a], via'[a] = via[a], alpn'[a] = alpn[a], mode'[a] = mode[a], sent'[a] = sent[a],
         broken'[a] \in {broken[a], broken[a] + 1}
  PROVE  TlsHas(a)'
<1>1. sent[a] \in Nat /\ broken[a] \in Nat
  BY TlsAssumption DEF Tls!TypeOK
<1> QED BY <1>1 DEF TlsHas, Tls!Injects

\* What a fault does to the counts.
LEMMA TlsFault ==
  ASSUME TlsInv, Tls!Fault
  PROVE  /\ faults' \in 0..MaxFaults /\ broken' \in [Agent -> 0..MaxFaults]
         /\ \A a \in Agent : /\ broken'[a] = IF Tls!InFlight(a) THEN broken[a] + 1 ELSE broken[a]
                            /\ broken'[a] <= faults'
<1>1. /\ faults < MaxFaults /\ faults' = faults + 1
      /\ broken' = [a \in Agent |-> IF Tls!InFlight(a) THEN broken[a] + 1 ELSE broken[a]]
  BY DEF Tls!Fault
<1>2. \A a \in Agent : broken[a] \in Nat /\ broken[a] <= faults /\ faults \in Nat
  BY TlsAssumption DEF TlsInv, Tls!TypeOK
<1>3. \A a \in Agent : broken'[a] = IF Tls!InFlight(a) THEN broken[a] + 1 ELSE broken[a]
  BY <1>1
<1>4. \A a \in Agent : broken'[a] \in 0..MaxFaults /\ broken'[a] <= faults'
  BY <1>1, <1>2, <1>3, TlsAssumption
<1>5. faults' \in 0..MaxFaults
  BY <1>1, TlsAssumption DEF TlsInv, Tls!TypeOK
<1> QED BY <1>1, <1>3, <1>4, <1>5

\* What an agent's step leaves to the others, and the types of what it writes.
TlsAside(a) ==
  \A b \in Agent \ {a} : /\ pc'[b] = pc[b] /\ via'[b] = via[b] /\ alpn'[b] = alpn[b]
                         /\ mode'[b] = mode[b] /\ sent'[b] = sent[b]

\* The variables of a connection.
TlsTypes ==
  /\ pc \in [Agent -> Tls!Place] /\ via \in [Agent -> Listener \union {None}]
  /\ alpn \in [Agent -> Tls!Protocol \union {None}]
  /\ mode \in [Agent -> Tls!Mode \union {None}]
  /\ held \in [Agent -> Tls!Link] /\ pool \in Tls!Link /\ sent \in [Agent -> 0..3]

\* The step of one agent's connection.
LEMMA TlsMoves ==
  ASSUME TlsInv, NEW a \in Agent, TlsTypes', TlsAside(a), TlsHas(a)',
         \/ UNCHANGED <<broken, faults>>
         \/ Tls!Fault
         \/ broken' = [broken EXCEPT ![a] = 0] /\ UNCHANGED faults,
         UNCHANGED <<blocks, speaks, registry, table, edits>>
  PROVE  TlsInv'
<1>0. Tls!TypeOK /\ \A b \in Agent : TlsHas(b) /\ broken[b] <= faults /\ broken[b] \in Nat
  BY TlsAssumption DEF TlsInv, Tls!TypeOK
<1>2. /\ broken' \in [Agent -> 0..MaxFaults] /\ faults' \in 0..MaxFaults
      /\ \A b \in Agent : broken'[b] <= faults'
      /\ \A b \in Agent : b # a => broken'[b] \in {broken[b], broken[b] + 1}
  <2>1. CASE UNCHANGED <<broken, faults>>
    BY <1>0, <2>1 DEF Tls!TypeOK
  <2>2. CASE Tls!Fault
    BY <1>0, <2>2, TlsFault
  <2>3. CASE broken' = [broken EXCEPT ![a] = 0] /\ UNCHANGED faults
    <3>1. \A b \in Agent : broken'[b] = IF b = a THEN 0 ELSE broken[b]
      BY <1>0, <2>3 DEF Tls!TypeOK
    <3>2. broken' \in [Agent -> 0..MaxFaults]
      BY <1>0, <2>3, TlsAssumption DEF Tls!TypeOK
    <3>3. faults \in 0..MaxFaults
      BY <1>0 DEF Tls!TypeOK
    <3> QED BY <1>0, <2>3, <3>1, <3>2, <3>3, TlsAssumption
  <2> QED BY <2>1, <2>2, <2>3
<1>3. Tls!TypeOK'
  BY <1>0, <1>2 DEF Tls!TypeOK, TlsTypes
<1>4. \A b \in Agent : b # a => TlsHas(b)'
  BY <1>0, <1>2, TlsOther DEF TlsAside
<1> QED BY <1>2, <1>3, <1>4 DEF TlsInv

\* An EXCEPT that writes what is there changes nothing.
LEMMA TlsSame ==
  ASSUME Tls!TypeOK, NEW a \in Agent
  PROVE  /\ pc[a] \in Tls!Place /\ via[a] \in Listener \union {None}
         /\ alpn[a] \in Tls!Protocol \union {None} /\ mode[a] \in Tls!Mode \union {None}
         /\ held[a] \in Tls!Link /\ sent[a] \in 0..3 /\ broken[a] \in Nat /\ pool \in Tls!Link
         /\ via = [via EXCEPT ![a] = via[a]] /\ alpn = [alpn EXCEPT ![a] = alpn[a]]
         /\ mode = [mode EXCEPT ![a] = mode[a]] /\ held = [held EXCEPT ![a] = held[a]]
         /\ sent = [sent EXCEPT ![a] = sent[a]]
  BY TlsAssumption DEF Tls!TypeOK

\* A connection is accepted and its host looked up.
LEMMA TlsComes ==
  ASSUME TlsInv, NEW a \in Agent, Tls!Accept(a) \/ Tls!ReadConnect(a) \/ Tls!Lookup(a)
  PROVE  TlsInv'
<1>0. Tls!TypeOK /\ TlsHas(a)
  BY DEF TlsInv
<1>s. UNCHANGED <<blocks, speaks, registry, table, edits, pool, alpn, held, sent, broken, faults>>
  BY DEF Tls!Accept, Tls!ReadConnect, Tls!Lookup, Tls!AcceptTcp, Tls!AcceptUds, Tls!AcceptMtls, Tls!Accepted,
         Tls!tables, Tls!config
<1>1. CASE Tls!Accept(a)
  <2>1. PICK l \in Listener : via' = [via EXCEPT ![a] = l]
    BY <1>1, TlsAssumption DEF Tls!Accept, Tls!AcceptTcp, Tls!AcceptUds, Tls!AcceptMtls, Tls!Accepted, Tls!Set
  <2>2. pc[a] = "idle" /\ pc' = [pc EXCEPT ![a] = "connect"] /\ mode' = mode
    BY <1>1 DEF Tls!Accept, Tls!AcceptTcp, Tls!AcceptUds, Tls!AcceptMtls, Tls!Accepted, Tls!Set, Tls!Goto
  <2>3. pc'[a] = "connect" /\ via'[a] = l => TlsHas(a)'
    BY <1>0, <1>s, <2>2, TlsAssumption DEF TlsHas
  <2>4. "connect" \in Tls!Place
    BY DEF Tls!Place
  <2>m. TlsTypes'
    BY <1>0, <1>s, <2>1, <2>2, <2>3, <2>4, TlsSame DEF TlsTypes, Tls!TypeOK
  <2>n. TlsAside(a)
    BY <1>0, <1>s, <2>1, <2>2, <2>3, <2>4, TlsSame DEF TlsAside, Tls!TypeOK
  <2>h. TlsHas(a)'
    BY <1>0, <1>s, <2>1, <2>2, <2>3, <2>4, TlsSame DEF Tls!TypeOK
  <2> QED BY <1>0, <1>s, <2>1, <2>2, <2>3, <2>4, <2>m, <2>n, <2>h, TlsMoves
<1>2. CASE Tls!ReadConnect(a)
  <2>1. PICK p \in {"lookup", "refused"} : pc' = [pc EXCEPT ![a] = p]
    BY <1>2 DEF Tls!ReadConnect, Tls!Goto, Tls!Set
  <2>2. pc[a] = "connect" /\ UNCHANGED <<via, mode>>
    BY <1>2 DEF Tls!ReadConnect
  <2>3. pc'[a] = p => TlsHas(a)'
    BY <1>0, <1>s, <2>2, TlsAssumption DEF TlsHas
  <2>4. p \in Tls!Place
    BY DEF Tls!Place
  <2>m. TlsTypes'
    BY <1>0, <1>s, <2>1, <2>2, <2>3, <2>4, TlsSame DEF TlsTypes, Tls!TypeOK
  <2>n. TlsAside(a)
    BY <1>0, <1>s, <2>1, <2>2, <2>3, <2>4, TlsSame DEF TlsAside, Tls!TypeOK
  <2>h. TlsHas(a)'
    BY <1>0, <1>s, <2>1, <2>2, <2>3, <2>4, TlsSame DEF Tls!TypeOK
  <2> QED BY <1>0, <1>s, <2>1, <2>2, <2>3, <2>4, <2>m, <2>n, <2>h, TlsMoves
<1>3. CASE Tls!Lookup(a)
  <2> DEFINE m == table[via[a]]
             p == IF Tls!Injects(m) THEN "tls" ELSE IF m = "unregistered" /\ blocks THEN "refused" ELSE "tunnel"
  <2>1. pc[a] = "lookup" /\ mode' = [mode EXCEPT ![a] = m] /\ via' = [via EXCEPT ![a] = None]
        /\ pc' = [pc EXCEPT ![a] = p]
    BY <1>3 DEF Tls!Lookup, Tls!Goto, Tls!Set, Tls!Found
  <2>2. m \in Tls!Mode
    BY <1>0, <2>1 DEF TlsHas, Tls!TypeOK
  <2>4. p \in Tls!Place /\ p \in {"tls", "refused", "tunnel"} /\ (p = "tls" <=> Tls!Injects(m))
    BY DEF Tls!Place
  <2>5. alpn[a] = None
    BY <1>0, <2>1 DEF TlsHas
  <2> HIDE DEF p, m
  <2>3. pc'[a] = p /\ mode'[a] = m => TlsHas(a)'
    BY <1>0, <1>s, <2>1, <2>4, <2>5, TlsAssumption DEF TlsHas, Tls!Injects
  <2>m. TlsTypes'
    BY <1>0, <1>s, <2>1, <2>2, <2>3, <2>4, TlsSame DEF TlsTypes, Tls!TypeOK
  <2>n. TlsAside(a)
    BY <1>0, <1>s, <2>1, <2>2, <2>3, <2>4, TlsSame DEF TlsAside, Tls!TypeOK
  <2>h. TlsHas(a)'
    BY <1>0, <1>s, <2>1, <2>2, <2>3, <2>4, TlsSame DEF Tls!TypeOK
  <2> QED BY <1>0, <1>s, <2>1, <2>2, <2>3, <2>4, <2>m, <2>n, <2>h, TlsMoves
<1> QED BY <1>1, <1>2, <1>3

\* A tunnel that is not opened.
LEMMA TlsTunnel ==
  ASSUME TlsInv, NEW a \in Agent, Tls!Tunnel(a)
  PROVE  TlsInv'
<1>0. Tls!TypeOK /\ TlsHas(a)
  BY DEF TlsInv
<1>1. /\ pc[a] = "tunnel" /\ UNCHANGED <<blocks, speaks, registry, table, edits, pool, via, alpn, mode, held, sent>>
      /\ UNCHANGED <<broken, faults>> \/ Tls!Fault
  BY DEF Tls!Tunnel, Tls!tables, Tls!config
<1>2. PICK p \in {"answered", "failed"} : pc' = [pc EXCEPT ![a] = p]
  BY DEF Tls!Tunnel, Tls!Goto, Tls!Set
<1>3. p \in Tls!Place
  BY DEF Tls!Place
<1>4. ~Tls!Injects(mode[a]) /\ alpn[a] = None
  BY <1>0, <1>1 DEF TlsHas
<1>5. pc'[a] = p => TlsHas(a)'
  BY <1>1, <1>4, TlsAssumption DEF TlsHas, Tls!Injects
<1>m. TlsTypes'
  BY <1>0, <1>1, <1>2, <1>3, <1>5, TlsSame DEF TlsTypes, Tls!TypeOK
<1>n. TlsAside(a)
  BY <1>0, <1>1, <1>2, <1>3, <1>5, TlsSame DEF TlsAside, Tls!TypeOK
<1>h. TlsHas(a)'
  BY <1>0, <1>1, <1>2, <1>3, <1>5, TlsSame DEF Tls!TypeOK
<1> QED BY <1>0, <1>1, <1>2, <1>3, <1>5, <1>m, <1>n, <1>h, TlsMoves

\* The handshake with the agent, and its request.
LEMMA TlsAsks ==
  ASSUME TlsInv, NEW a \in Agent, Tls!Tls(a) \/ Tls!ReadRequest(a) \/ Tls!Inject(a)
  PROVE  TlsInv'
<1>0. Tls!TypeOK /\ TlsHas(a)
  BY DEF TlsInv
<1>s. UNCHANGED <<blocks, speaks, registry, table, edits, pool, via, mode, held, faults>>
  BY DEF Tls!Tls, Tls!ReadRequest, Tls!Inject, Tls!tables, Tls!config
<1>t. {"request", "refused", "inject", "take", "unresolved"} \subseteq Tls!Place
  BY DEF Tls!Place
<1>1. CASE Tls!Tls(a)
  <2>1. PICK p \in {"request", "refused"}, l \in Tls!Protocol \union {None} :
          /\ pc' = [pc EXCEPT ![a] = p] /\ alpn' = [alpn EXCEPT ![a] = l]
    <3>1. alpn = [alpn EXCEPT ![a] = alpn[a]] /\ alpn[a] \in Tls!Protocol \union {None}
      BY <1>0, TlsSame
    <3> QED BY <1>1, <3>1 DEF Tls!Tls, Tls!Goto, Tls!Set
  <2>2. pc[a] = "tls" /\ UNCHANGED <<sent, broken>>
    BY <1>1 DEF Tls!Tls
  <2>3. pc'[a] = p /\ alpn'[a] = l => TlsHas(a)'
    BY <1>0, <1>s, <2>2, TlsAssumption DEF TlsHas, Tls!Injects
  <2>m. TlsTypes'
    BY <1>0, <1>s, <1>t, <2>1, <2>2, <2>3, TlsSame DEF TlsTypes, Tls!TypeOK
  <2>n. TlsAside(a)
    BY <1>0, <1>s, <1>t, <2>1, <2>2, <2>3, TlsSame DEF TlsAside, Tls!TypeOK
  <2>h. TlsHas(a)'
    BY <1>0, <1>s, <1>t, <2>1, <2>2, <2>3, TlsSame DEF Tls!TypeOK
  <2> QED BY <1>0, <1>s, <1>t, <2>1, <2>2, <2>3, <2>m, <2>n, <2>h, TlsMoves
<1>2. CASE Tls!ReadRequest(a)
  <2>1. PICK p \in {"inject", "refused"} : pc' = [pc EXCEPT ![a] = p]
    BY <1>2 DEF Tls!ReadRequest, Tls!Goto, Tls!Set
  <2>2. pc[a] = "request" /\ UNCHANGED <<alpn, sent, broken>>
    BY <1>2 DEF Tls!ReadRequest
  <2>3. pc'[a] = p => TlsHas(a)'
    BY <1>0, <1>s, <2>2, TlsAssumption DEF TlsHas, Tls!Injects
  <2>m. TlsTypes'
    BY <1>0, <1>s, <1>t, <2>1, <2>2, <2>3, TlsSame DEF TlsTypes, Tls!TypeOK
  <2>n. TlsAside(a)
    BY <1>0, <1>s, <1>t, <2>1, <2>2, <2>3, TlsSame DEF TlsAside, Tls!TypeOK
  <2>h. TlsHas(a)'
    BY <1>0, <1>s, <1>t, <2>1, <2>2, <2>3, TlsSame DEF Tls!TypeOK
  <2> QED BY <1>0, <1>s, <1>t, <2>1, <2>2, <2>3, <2>m, <2>n, <2>h, TlsMoves
<1>3. CASE Tls!Inject(a)
  <2>1. PICK p \in {"take", "unresolved"} : pc' = [pc EXCEPT ![a] = p]
    BY <1>3 DEF Tls!Inject, Tls!InjectHost, Tls!Substitute, Tls!Goto, Tls!Set
  <2>2. /\ pc[a] = "inject" /\ UNCHANGED alpn
        /\ sent' = [sent EXCEPT ![a] = 0] /\ broken' = [broken EXCEPT ![a] = 0]
    BY <1>3 DEF Tls!Inject, Tls!Set
  <2>3. broken'[a] = 0
    BY <1>0, <2>2 DEF Tls!TypeOK
  <2>4. pc'[a] = p /\ sent'[a] = 0 => TlsHas(a)'
    BY <1>0, <1>s, <2>2, <2>3, TlsAssumption DEF TlsHas, Tls!Injects
  <2>5. 0 \in 0..3
    OBVIOUS
  <2>m. TlsTypes'
    BY <1>0, <1>s, <1>t, <2>1, <2>2, <2>4, <2>5, TlsSame DEF TlsTypes, Tls!TypeOK
  <2>n. TlsAside(a)
    BY <1>0, <1>s, <1>t, <2>1, <2>2, <2>4, <2>5, TlsSame DEF TlsAside, Tls!TypeOK
  <2>h. TlsHas(a)'
    BY <1>0, <1>s, <1>t, <2>1, <2>2, <2>4, <2>5, TlsSame DEF Tls!TypeOK
  <2> QED BY <1>0, <1>s, <1>t, <2>1, <2>2, <2>4, <2>5, <2>m, <2>n, <2>h, TlsMoves
<1> QED BY <1>1, <1>2, <1>3

\* One attempt at the upstream: it is answered, or something breaks.
LEMMA TlsAttempt ==
  ASSUME TlsInv, NEW a \in Agent, pc[a] \in {"shared", "fresh", "plain"},
         held' \in [Agent -> Tls!Link], pool' \in Tls!Link,
         UNCHANGED <<blocks, speaks, registry, table, edits, via, alpn, mode>>,
         \/ /\ pc' = [pc EXCEPT ![a] = "answer"]
            /\ sent' = [sent EXCEPT ![a] = sent[a] + 1] /\ UNCHANGED <<broken, faults>>
         \/ /\ \/ pc[a] = "shared" /\ pc' = [pc EXCEPT ![a] = "fresh"]
               \/ pc[a] = "fresh" /\ pc' = [pc EXCEPT ![a] = "plain"]
            /\ UNCHANGED <<sent, broken, faults>>
         \/ /\ \/ pc[a] = "shared" /\ pc' = [pc EXCEPT ![a] = "fresh"]
               \/ pc[a] = "fresh" /\ pc' = [pc EXCEPT ![a] = "plain"]
               \/ pc[a] # "shared" /\ pc' = [pc EXCEPT ![a] = "failed"]
            /\ Tls!Fault /\ (UNCHANGED sent \/ sent' = [sent EXCEPT ![a] = sent[a] + 1])
  PROVE  TlsInv'
<1>0. Tls!TypeOK /\ TlsHas(a) /\ Tls!Injects(mode[a])
  BY DEF TlsInv, TlsHas
<1>1. /\ pc[a] = "shared" => sent[a] = 0
      /\ pc[a] = "fresh" => sent[a] <= 1
      /\ pc[a] = "plain" => sent[a] <= 2
      /\ sent[a] <= broken[a] /\ sent[a] \in Nat /\ broken[a] \in Nat
  BY <1>0, TlsSame DEF TlsHas
<1>2. PICK s \in {sent[a], sent[a] + 1} : sent' = [sent EXCEPT ![a] = s]
  BY <1>0, TlsSame
<1>3. s \in 0..3 /\ sent'[a] = s
  BY <1>0, <1>1, <1>2 DEF Tls!TypeOK
<1>4. Tls!Fault => broken'[a] = broken[a] + 1
  BY TlsFault DEF Tls!InFlight
<1>5. PICK p \in {"answer", "fresh", "plain", "failed"} : pc' = [pc EXCEPT ![a] = p]
  OBVIOUS
<1>6. p \in Tls!Place /\ pc'[a] = p
  BY <1>0, <1>5 DEF Tls!TypeOK, Tls!Place
<1>h. TlsHas(a)'
  <2>1. CASE pc' = [pc EXCEPT ![a] = "answer"]
    <3>1. p = "answer"
      BY <1>0, <1>6, <2>1 DEF Tls!TypeOK
    <3>2. s = sent[a] + 1 /\ broken' = broken
      BY <1>0, <1>3, <1>5, <1>6, <3>1 DEF Tls!TypeOK
    <3> QED BY <1>0, <1>1, <1>3, <1>6, <3>1, <3>2 DEF TlsHas, Tls!Injects
  <2>2. CASE UNCHANGED <<sent, broken, faults>> /\ pc' # [pc EXCEPT ![a] = "answer"]
    <3>1. (pc[a] = "shared" /\ p = "fresh") \/ (pc[a] = "fresh" /\ p = "plain")
      <4>1. faults \in Nat
        BY <1>0, TlsAssumption DEF Tls!TypeOK
      <4>2. ~Tls!Fault
        BY <2>2, <4>1 DEF Tls!Fault
      <4> QED BY <1>0, <1>6, <2>2, <4>2 DEF Tls!TypeOK
    <3> QED BY <1>0, <1>1, <1>6, <2>2, <3>1 DEF TlsHas, Tls!Injects
  <2>3. CASE Tls!Fault /\ pc' # [pc EXCEPT ![a] = "answer"]
    <3>1. \/ pc[a] = "shared" /\ p = "fresh"
          \/ pc[a] = "fresh" /\ p = "plain"
          \/ p = "failed"
      BY <1>0, <1>6, <2>3 DEF Tls!TypeOK
    <3> QED BY <1>0, <1>1, <1>3, <1>4, <1>6, <2>3, <3>1 DEF TlsHas, Tls!Injects
  <2> QED BY <2>1, <2>2, <2>3
<1>m. TlsTypes'
  BY <1>0, <1>2, <1>3, <1>5, <1>6 DEF TlsTypes, Tls!TypeOK
<1>n. TlsAside(a)
  BY <1>0, <1>2, <1>5 DEF TlsAside, Tls!TypeOK
<1>7. UNCHANGED <<broken, faults>> \/ Tls!Fault
  OBVIOUS
<1> QED BY <1>7, <1>m, <1>n, <1>h, TlsMoves

\* The upstream connection of the pool is taken, or none.
LEMMA TlsTake ==
  ASSUME TlsInv, NEW a \in Agent, Tls!Take(a)
  PROVE  TlsInv'
<1>0. Tls!TypeOK /\ TlsHas(a)
  BY DEF TlsInv
<1>1. /\ pc[a] = "take" /\ held' = [held EXCEPT ![a] = pool]
      /\ UNCHANGED <<blocks, speaks, registry, table, edits, pool, via, alpn, mode, sent, broken, faults>>
  BY DEF Tls!Take, Tls!Set, Tls!tables, Tls!config
<1>2. PICK p \in {"fresh", "shared"} : pc' = [pc EXCEPT ![a] = p]
  BY DEF Tls!Take, Tls!Goto, Tls!Set
<1>3. p \in Tls!Place
  BY DEF Tls!Place
<1>4. pc'[a] = p => TlsHas(a)'
  <2>1. sent[a] = 0 /\ broken[a] \in Nat
    BY <1>0, <1>1, TlsSame DEF TlsHas
  <2> QED BY <1>0, <1>1, <2>1 DEF TlsHas, Tls!Injects
<1>m. TlsTypes'
  BY <1>0, <1>1, <1>2, <1>3, <1>4, TlsSame DEF TlsTypes, Tls!TypeOK
<1>n. TlsAside(a)
  BY <1>0, <1>1, <1>2, <1>3, <1>4, TlsSame DEF TlsAside, Tls!TypeOK
<1>h. TlsHas(a)'
  BY <1>0, <1>1, <1>2, <1>3, <1>4, TlsSame DEF Tls!TypeOK
<1> QED BY <1>0, <1>1, <1>2, <1>3, <1>4, <1>m, <1>n, <1>h, TlsMoves

\* The request is sent over the shared connection, or over a new one.
LEMMA TlsUpstream ==
  ASSUME TlsInv, NEW a \in Agent, Tls!Shared(a) \/ Tls!Fresh(a) \/ Tls!Plain(a)
  PROVE  TlsInv'
<1>0. Tls!TypeOK /\ {"answer", "fresh", "plain", "failed"} \subseteq Tls!Place
      /\ {None, "live"} \subseteq Tls!Link
  BY DEF TlsInv, Tls!Place, Tls!Link
<1> USE DEF Tls!Answered, Tls!Breaks, Tls!Goto, Tls!Set, Tls!tables, Tls!config
<1>1. CASE Tls!Shared(a)
  <2>1. /\ pc[a] = "shared" /\ held' = [held EXCEPT ![a] = None] /\ pool' \in {pool, None}
        /\ UNCHANGED <<blocks, speaks, registry, table, edits, via, alpn, mode>>
        /\ \/ pc' = [pc EXCEPT ![a] = "answer"] /\ sent' = [sent EXCEPT ![a] = sent[a] + 1]
              /\ UNCHANGED <<broken, faults>>
           \/ pc' = [pc EXCEPT ![a] = "fresh"] /\ UNCHANGED <<sent, broken, faults>>
           \/ pc' = [pc EXCEPT ![a] = "fresh"] /\ Tls!Fault
              /\ (UNCHANGED sent \/ sent' = [sent EXCEPT ![a] = sent[a] + 1])
    BY <1>1 DEF Tls!Shared, Tls!AfterShared
  <2>2. pool' \in Tls!Link /\ held' \in [Agent -> Tls!Link]
    BY <1>0, <2>1 DEF Tls!TypeOK
  <2> HIDE DEF Tls!Answered, Tls!Breaks, Tls!Goto, Tls!Set
  <2> QED BY <1>0, <2>1, <2>2, TlsAttempt
<1>2. CASE Tls!Fresh(a)
  <2>1. /\ pc[a] = "fresh" /\ UNCHANGED held /\ pool' \in {pool, "live"}
        /\ UNCHANGED <<blocks, speaks, registry, table, edits, via, alpn, mode>>
        /\ \/ pc' = [pc EXCEPT ![a] = "answer"] /\ sent' = [sent EXCEPT ![a] = sent[a] + 1]
              /\ UNCHANGED <<broken, faults>>
           \/ pc' = [pc EXCEPT ![a] = "plain"] /\ UNCHANGED <<sent, broken, faults>>
           \/ /\ pc' = [pc EXCEPT ![a] = "plain"] \/ pc' = [pc EXCEPT ![a] = "failed"]
              /\ Tls!Fault
              /\ (UNCHANGED sent \/ sent' = [sent EXCEPT ![a] = sent[a] + 1])
    BY <1>2 DEF Tls!Fresh, Tls!FreshAnswers, Tls!AfterFresh
  <2>2. pool' \in Tls!Link /\ held' \in [Agent -> Tls!Link]
    BY <1>0, <2>1 DEF Tls!TypeOK
  <2> HIDE DEF Tls!Answered, Tls!Breaks, Tls!Goto, Tls!Set
  <2> QED BY <1>0, <2>1, <2>2, TlsAttempt
<1>3. CASE Tls!Plain(a)
  <2>1. /\ pc[a] = "plain" /\ UNCHANGED <<held, pool>>
        /\ UNCHANGED <<blocks, speaks, registry, table, edits, via, alpn, mode>>
        /\ \/ pc' = [pc EXCEPT ![a] = "answer"] /\ sent' = [sent EXCEPT ![a] = sent[a] + 1]
              /\ UNCHANGED <<broken, faults>>
           \/ pc' = [pc EXCEPT ![a] = "failed"] /\ Tls!Fault
              /\ (UNCHANGED sent \/ sent' = [sent EXCEPT ![a] = sent[a] + 1])
    BY <1>3 DEF Tls!Plain
  <2>2. pool' \in Tls!Link /\ held' \in [Agent -> Tls!Link]
    BY <1>0, <2>1 DEF Tls!TypeOK
  <2> HIDE DEF Tls!Answered, Tls!Breaks, Tls!Goto, Tls!Set
  <2> QED BY <1>0, <2>1, <2>2, TlsAttempt
<1> QED BY <1>1, <1>2, <1>3

\* The answer, and the next request.
LEMMA TlsEnds ==
  ASSUME TlsInv, NEW a \in Agent, Tls!Answer(a) \/ Tls!Again(a)
  PROVE  TlsInv'
<1>0. Tls!TypeOK /\ TlsHas(a)
  BY DEF TlsInv
<1>s. UNCHANGED <<blocks, speaks, registry, table, edits, pool, via, held, faults>>
  BY DEF Tls!Answer, Tls!Again, Tls!tables, Tls!config
<1>t. {"answered", "request", "idle"} \subseteq Tls!Place /\ 0 \in 0..3
  BY DEF Tls!Place
<1>1. CASE Tls!Answer(a)
  <2>1. /\ pc[a] = "answer" /\ pc' = [pc EXCEPT ![a] = "answered"]
        /\ UNCHANGED <<alpn, mode, sent, broken>>
    BY <1>1 DEF Tls!Answer, Tls!AnswerH1, Tls!AnswerH2, Tls!Goto, Tls!Set
  <2>2. pc'[a] = "answered" => TlsHas(a)'
    BY <1>0, <1>s, <2>1 DEF TlsHas, Tls!Injects
  <2>m. TlsTypes'
    BY <1>0, <1>s, <1>t, <2>1, <2>2, TlsSame DEF TlsTypes, Tls!TypeOK
  <2>n. TlsAside(a)
    BY <1>0, <1>s, <1>t, <2>1, <2>2, TlsSame DEF TlsAside, Tls!TypeOK
  <2>h. TlsHas(a)'
    BY <1>0, <1>s, <1>t, <2>1, <2>2, TlsSame DEF Tls!TypeOK
  <2> QED BY <1>0, <1>s, <1>t, <2>1, <2>2, <2>m, <2>n, <2>h, TlsMoves
<1>2. CASE Tls!Again(a)
  <2>1. sent' = [sent EXCEPT ![a] = 0] /\ broken' = [broken EXCEPT ![a] = 0]
    BY <1>2 DEF Tls!Again, Tls!Set
  <2>2. broken'[a] = 0
    BY <1>0, <2>1 DEF Tls!TypeOK
  <2>3. CASE alpn[a] = "h2"
    <3>1. pc' = [pc EXCEPT ![a] = "request"] /\ UNCHANGED <<alpn, mode>>
      BY <1>2, <2>3 DEF Tls!Again, Tls!Goto, Tls!Set
    <3>2. Tls!Injects(mode[a])
      BY <1>0, <2>3 DEF TlsHas, Tls!Protocol
    <3>3. pc'[a] = "request" /\ sent'[a] = 0 => TlsHas(a)'
      BY <1>0, <2>2, <3>1, <3>2 DEF TlsHas, Tls!Injects
    <3>m. TlsTypes'
      BY <1>0, <1>s, <1>t, <2>1, <3>1, <3>3, TlsSame DEF TlsTypes, Tls!TypeOK
    <3>n. TlsAside(a)
      BY <1>0, <1>s, <1>t, <2>1, <3>1, <3>3, TlsSame DEF TlsAside, Tls!TypeOK
    <3>h. TlsHas(a)'
      BY <1>0, <1>s, <1>t, <2>1, <3>1, <3>3, TlsSame DEF Tls!TypeOK
    <3> QED BY <1>0, <1>s, <1>t, <2>1, <3>1, <3>3, <3>m, <3>n, <3>h, TlsMoves
  <2>4. CASE alpn[a] # "h2"
    <3>1. /\ pc' = [pc EXCEPT ![a] = "idle"] /\ alpn' = [alpn EXCEPT ![a] = None]
          /\ mode' = [mode EXCEPT ![a] = None]
      BY <1>2, <2>4 DEF Tls!Again, Tls!Goto, Tls!Set
    <3>2. pc'[a] = "idle" /\ alpn'[a] = None => TlsHas(a)'
      BY <2>2, TlsAssumption DEF TlsHas, Tls!Injects
    <3>m. TlsTypes'
      BY <1>0, <1>s, <1>t, <2>1, <3>1, <3>2, TlsSame DEF TlsTypes, Tls!TypeOK
    <3>n. TlsAside(a)
      BY <1>0, <1>s, <1>t, <2>1, <3>1, <3>2, TlsSame DEF TlsAside, Tls!TypeOK
    <3>h. TlsHas(a)'
      BY <1>0, <1>s, <1>t, <2>1, <3>1, <3>2, TlsSame DEF Tls!TypeOK
    <3> QED BY <1>0, <1>s, <1>t, <2>1, <3>1, <3>2, <3>m, <3>n, <3>h, TlsMoves
  <2> QED BY <2>3, <2>4
<1> QED BY <1>1, <1>2

\* A reload of the services; the upstream closes.
LEMMA TlsOutside ==
  ASSUME TlsInv, Tls!Sighup \/ Tls!HttpReload \/ Tls!Close
  PROVE  TlsInv'
<1>0. Tls!TypeOK /\ \A a \in Agent : TlsHas(a) /\ broken[a] <= faults
  BY DEF TlsInv
<1>1. CASE Tls!Sighup \/ Tls!HttpReload
  <2>1. /\ edits < MaxEdits /\ edits' = edits + 1 /\ registry' \in Tls!Mode
        /\ UNCHANGED <<blocks, speaks, pool, pc, via, alpn, mode, held, sent, broken, faults>>
    BY <1>1 DEF Tls!Sighup, Tls!HttpReload, Tls!Reload, Tls!config, Tls!agentVars
  <2>2. table' \in [Listener -> Tls!Mode]
    BY <1>0, <1>1, <2>1 DEF Tls!Sighup, Tls!HttpReload, Tls!Rebuilt, Tls!TypeOK
  <2>3. edits' \in 0..MaxEdits
    BY <1>0, <2>1, TlsAssumption DEF Tls!TypeOK
  <2>4. Tls!TypeOK'
    BY <1>0, <2>1, <2>2, <2>3 DEF Tls!TypeOK
  <2>5. \A a \in Agent : TlsHas(a)' /\ broken'[a] <= faults'
    BY <1>0, <2>1 DEF TlsHas, Tls!Injects
  <2> QED BY <2>4, <2>5 DEF TlsInv
<1>2. CASE Tls!Close
  <2>1. /\ faults < MaxFaults /\ faults' = faults + 1 /\ pool' = "dead"
        /\ held' = [a \in Agent |-> IF held[a] = "live" THEN "dead" ELSE held[a]]
        /\ broken' = [a \in Agent |-> IF held[a] = "live" THEN broken[a] + 1 ELSE broken[a]]
        /\ UNCHANGED <<blocks, speaks, registry, table, edits, pc, via, alpn, mode, sent>>
    BY <1>2 DEF Tls!Close, Tls!tables, Tls!config
  <2>2. \A a \in Agent : broken[a] \in Nat /\ faults \in Nat
    BY <1>0, TlsAssumption DEF Tls!TypeOK
  <2>3. \A a \in Agent : /\ broken'[a] \in {broken[a], broken[a] + 1}
                       /\ broken'[a] \in 0..MaxFaults /\ broken'[a] <= faults'
    BY <1>0, <2>1, <2>2, TlsAssumption
  <2>4. broken' \in [Agent -> 0..MaxFaults] /\ held' \in [Agent -> Tls!Link] /\ pool' \in Tls!Link
    BY <1>0, <2>1, <2>3 DEF Tls!TypeOK, Tls!Link
  <2>5. faults' \in 0..MaxFaults
    BY <1>0, <2>1, TlsAssumption DEF Tls!TypeOK
  <2>6. Tls!TypeOK'
    BY <1>0, <2>1, <2>4, <2>5 DEF Tls!TypeOK
  <2>7. \A a \in Agent : TlsHas(a)'
    BY <1>0, <2>1, <2>3, TlsOther
  <2> QED BY <2>3, <2>6, <2>7 DEF TlsInv
<1> QED BY <1>1, <1>2

\* Every step of TransparentProxy keeps the invariant.
LEMMA TlsStep ==
  ASSUME TlsInv, [Tls!Next]_(Tls!vars)
  PROVE  TlsInv'
<1>1. CASE UNCHANGED Tls!vars
  <2>1. UNCHANGED <<blocks, speaks, registry, table, pool, pc, via, alpn, mode, held, sent, broken, edits, faults>>
    BY <1>1 DEF Tls!vars, Tls!config, Tls!agentVars
  <2> QED BY <2>1 DEF TlsInv, Tls!TypeOK, TlsHas, Tls!Injects
<1>2. CASE Tls!Next
  BY <1>2, TlsComes, TlsTunnel, TlsAsks, TlsTake, TlsUpstream, TlsEnds, TlsOutside DEF Tls!Next, Tls!Serve
<1> QED BY <1>1, <1>2

\* A behaviour about TransparentProxy takes its steps and no others.
LEMMA TlsPart ==
  ASSUME part = "tls", [Next]_vars
  PROVE  [Tls!Next]_(Tls!vars)
<1>1. CASE Next
  BY <1>1 DEF Next
<1>2. CASE UNCHANGED vars
  <2>1. UNCHANGED <<blocks, speaks, registry, table, pool, pc, via, alpn, mode, held, sent, broken, edits, faults>>
    BY <1>2, Zenon DEF vars
  <2> QED BY <2>1 DEF Tls!vars, Tls!config, Tls!agentVars
<1> QED BY <1>1, <1>2

\* It starts as TransparentProxy does.
LEMMA TlsStart == ASSUME Init, part = "tls" PROVE Tls!Init
  BY DEF Init

\* The transparent proxy sends a request once, and once more for each
\* attempt at it that failed, never again after one that was answered
\* (proxy/transparent).
THEOREM SafetyOfTls == Spec => []SentOncePerFailure
<1> DEFINE I == part = "tls" => TlsInv
<1>1. Init => I
  BY TlsStart, TlsInit
<1>2. I /\ [Next]_vars => I'
  <2> SUFFICES ASSUME I, [Next]_vars, part' = "tls" PROVE (TlsInv)'
    OBVIOUS
  <2> QED BY PartStays, TlsPart, TlsStep
<1>3. I => SentOncePerFailure
  BY TlsOnce DEF SentOncePerFailure, TlsInv
<1> QED BY <1>1, <1>2, <1>3, PTL DEF Spec

------------------------------------------------------------------------------
(* CloudSession: a client has the keys of the organizations that the last   *)
(* answer it has seen names.                                                *)

\* The types of the variables.
CloudTypes ==
  /\ account \in Cloud!Profile /\ changes \in 0..AccountChanges
  /\ clients \in [Cloud!Slot -> Cloud!Client \union {None}]
  /\ jobs \in [Cloud!Slot -> Cloud!Job \union {None}]
  /\ seen \in [Cloud!Slot -> Cloud!Profile \union {None}]

\* The invariant.
CloudInv ==
  /\ CloudTypes
  /\ \A s \in Cloud!Slot : jobs[s] # None => clients[s] # None
  /\ clients["session"] = None => seen["session"] = None
  /\ Cloud!OrgKeysFollow

\* The invariant holds before anything has happened.
LEMMA CloudInit == ASSUME Cloud!Init PROVE CloudInv
<1>1. account \in Cloud!Profile
  <2>1. Cloud!NoKeys \in [Org -> Cloud!Key]
    BY CloudAssumption DEF Cloud!NoKeys, Cloud!Key
  <2> QED BY <2>1 DEF Cloud!Init, Cloud!Profile
<1>2. changes \in 0..AccountChanges
  BY CloudAssumption DEF Cloud!Init
<1>3. "session" \in Cloud!Slot
  BY DEF Cloud!Slot
<1> QED BY <1>1, <1>2, <1>3 DEF Cloud!Init, CloudInv, CloudTypes, Cloud!OrgKeysFollow

\* The session's client keeps its keys, and the answer that they are from.
LEMMA CloudStays ==
  ASSUME CloudInv, CloudTypes', \A s \in Cloud!Slot : jobs'[s] # None => clients'[s] # None,
         seen'["session"] = seen["session"],
         clients["session"] = None <=> clients'["session"] = None,
         clients["session"] # None => clients'["session"].orgs = clients["session"].orgs
  PROVE  CloudInv'
  BY DEF CloudInv, Cloud!OrgKeysFollow

\* A client that a slot comes to have, with its first sync before it.
LEMMA CloudArrives ==
  ASSUME CloudInv, NEW s \in Cloud!Slot, clients[s] = None,
         \E c \in Cloud!Client : clients' = [clients EXCEPT ![s] = c],
         jobs' = [jobs EXCEPT ![s] = Cloud!NewJob("sync")],
         UNCHANGED <<account, changes, seen>>
  PROVE  CloudInv'
<1>1. PICK c \in Cloud!Client : clients' = [clients EXCEPT ![s] = c]
  OBVIOUS
<1>2. Cloud!NewJob("sync") \in Cloud!Job
  BY DEF Cloud!NewJob, Cloud!Job
<1>3. CloudTypes'
  BY <1>1, <1>2 DEF CloudInv, CloudTypes
<1>4. clients'[s] = c /\ c # None /\ \A u \in Cloud!Slot \ {s} : clients'[u] = clients[u] /\ jobs'[u] = jobs[u]
  BY <1>1, CloudAssumption DEF CloudInv, CloudTypes
<1>5. \A u \in Cloud!Slot : jobs'[u] # None => clients'[u] # None
  BY <1>4 DEF CloudInv
<1>6. CASE s = "session"
  <2>1. seen'["session"] = None /\ clients'["session"] # None
    BY <1>4, <1>6 DEF CloudInv
  <2> QED BY <1>3, <1>5, <2>1 DEF CloudInv, Cloud!OrgKeysFollow
<1>7. CASE s # "session"
  <2>1. clients'["session"] = clients["session"]
    BY <1>4, <1>7 DEF Cloud!Slot
  <2> QED BY <1>3, <1>5, <2>1, CloudStays
<1> QED BY <1>6, <1>7

\* A client that has just logged in.
LEMMA CloudNew ==
  ASSUME CloudTypes
  PROVE  /\ \A b \in BOOLEAN : Cloud!NewClient(b) \in Cloud!Client
         /\ Cloud!NewWithCode \in Cloud!Client
<1>1. account.private \in BOOLEAN /\ Cloud!NoKeys \in [Org -> Cloud!Key]
  BY CloudAssumption DEF CloudTypes, Cloud!Profile, Cloud!NoKeys, Cloud!Key
<1>2. \A b \in BOOLEAN : Cloud!NewClient(b) \in Cloud!Client
  BY <1>1 DEF Cloud!NewClient, Cloud!Client
<1> DEFINE c == Cloud!NewClient(FALSE)
<1>3. c \in Cloud!Client /\ Cloud!NewWithCode = [c EXCEPT !.private = FALSE]
  BY <1>2 DEF Cloud!NewWithCode
<1> HIDE DEF c
<1>4. Cloud!NewWithCode \in Cloud!Client
  BY <1>3 DEF Cloud!Client
<1> QED BY <1>2, <1>4

\* The session gets a client, or none.
LEMMA CloudConnects ==
  ASSUME CloudInv, clients["session"] = None, UNCHANGED <<account, changes, seen>>,
         \/ \E way \in {"apikey", "refresh", "password"} : Cloud!Connect(way)
         \/ UNCHANGED <<clients, jobs>>
  PROVE  CloudInv'
<1>1. CASE UNCHANGED <<clients, jobs>>
  BY <1>1 DEF CloudInv, CloudTypes, Cloud!OrgKeysFollow
<1>2. CASE \E way \in {"apikey", "refresh", "password"} : Cloud!Connect(way)
  <2>1. PICK way \in {"apikey", "refresh", "password"} : Cloud!Connect(way)
    BY <1>2
  <2>2. (way = "apikey") \in BOOLEAN
    OBVIOUS
  <2>3. \E c \in Cloud!Client : clients' = [clients EXCEPT !["session"] = c]
    BY <2>1, <2>2, CloudNew DEF CloudInv, Cloud!Connect, Cloud!Set
  <2>4. jobs' = [jobs EXCEPT !["session"] = Cloud!NewJob("sync")] /\ "session" \in Cloud!Slot
    BY <2>1 DEF Cloud!Connect, Cloud!Set, Cloud!Slot
  <2> QED BY <2>3, <2>4, CloudArrives
<1> QED BY <1>1, <1>2

\* The process starts.
LEMMA CloudStarts ==
  ASSUME CloudInv, Cloud!Start \/ Cloud!StartFails
  PROVE  CloudInv'
<1>1. /\ clients["session"] = None /\ UNCHANGED <<account, changes, seen>>
  BY DEF Cloud!Start, Cloud!StartFails, Cloud!outside
<1>2. \/ \E way \in {"apikey", "refresh", "password"} : Cloud!Connect(way)
      \/ UNCHANGED <<clients, jobs>>
  BY DEF Cloud!Start, Cloud!StartFails, Cloud!Preferred
<1> QED BY <1>1, <1>2, CloudConnects

\* The slot of the first sync, and the one of a second factor.
LEMMA CloudAside ==
  ASSUME CloudInv, Cloud!SyncInit \/ Cloud!ProvideTotp
  PROVE  CloudInv'
<1>1. PICK c \in Cloud!Client : Cloud!Aside(c)
  BY CloudNew DEF CloudInv, Cloud!SyncInit, Cloud!ProvideTotp
<1>2. /\ clients["aside"] = None /\ clients' = [clients EXCEPT !["aside"] = c]
      /\ jobs' = [jobs EXCEPT !["aside"] = Cloud!NewJob("sync")]
      /\ UNCHANGED <<account, changes, seen>> /\ "aside" \in Cloud!Slot
  BY <1>1 DEF Cloud!Aside, Cloud!Set, Cloud!outside, Cloud!Slot
<1> QED BY <1>2, CloudArrives

\* The process ends, and its clients with it.
LEMMA CloudCrash == ASSUME CloudInv, Cloud!Crash PROVE CloudInv'
<1>1. /\ clients' = [s \in Cloud!Slot |-> None] /\ jobs' = [s \in Cloud!Slot |-> None]
      /\ seen' = [s \in Cloud!Slot |-> None] /\ UNCHANGED <<account, changes>>
      /\ "session" \in Cloud!Slot
  BY DEF Cloud!Crash, Cloud!outside, Cloud!Slot
<1> QED BY <1>1 DEF CloudInv, CloudTypes, Cloud!OrgKeysFollow

\* A job begins, or goes on to its next place.
LEMMA CloudGoes ==
  ASSUME CloudInv, NEW s \in Cloud!Slot, clients[s] # None,
         \E j \in Cloud!Job : jobs' = [jobs EXCEPT ![s] = j],
         UNCHANGED <<account, changes, clients, seen>>
  PROVE  CloudInv'
<1>1. CloudTypes'
  BY DEF CloudInv, CloudTypes
<1>2. \A u \in Cloud!Slot : jobs'[u] # None => clients'[u] # None
  BY DEF CloudInv, CloudTypes
<1> QED BY <1>1, <1>2, CloudStays

\* A call on the session begins.
LEMMA CloudCalls ==
  ASSUME CloudInv, NEW op \in {"sync", "get", "push"}, Cloud!Call(op)
  PROVE  CloudInv'
<1>1. /\ clients["session"] # None /\ jobs' = [jobs EXCEPT !["session"] = Cloud!NewJob(op)]
      /\ UNCHANGED <<account, changes, clients, seen>>
  BY DEF Cloud!Call, Cloud!Set, Cloud!outside
<1>2. Cloud!NewJob(op) \in Cloud!Job /\ "session" \in Cloud!Slot
  BY DEF Cloud!NewJob, Cloud!Job, Cloud!Slot
<1> QED BY <1>1, <1>2, CloudGoes

\* The place a job goes on to.
LEMMA CloudGoto ==
  ASSUME CloudTypes, NEW s \in Cloud!Slot, jobs[s] # None,
         NEW p \in {"send", "reauth", "again", "write"}, Cloud!Goto(s, p)
  PROVE  \E j \in Cloud!Job : jobs' = [jobs EXCEPT ![s] = j]
<1>1. jobs[s] \in Cloud!Job
  BY DEF CloudTypes
<1>2. jobs' = [jobs EXCEPT ![s] = [jobs[s] EXCEPT !.at = p]]
  BY DEF Cloud!Goto
<1>3. [jobs[s] EXCEPT !.at = p] \in Cloud!Job
  BY <1>1 DEF Cloud!Job
<1> QED BY <1>2, <1>3

\* A call that has ended: the client is as it was, or has the keys of the account.
LEMMA CloudEnds ==
  ASSUME CloudInv, NEW s \in Cloud!Slot, jobs[s] # None, NEW c \in Cloud!Client,
         NEW ok, Cloud!Ended(s, c, ok), UNCHANGED <<account, changes>>,
         \/ c = clients[s] /\ UNCHANGED seen
         \/ /\ \E p \in Cloud!Profile \union {None} : seen' = [seen EXCEPT ![s] = p]
            /\ s = "session" => /\ seen'["session"] # None
                                /\ \A o \in Org :
                                     seen'["session"].private /\ seen'["session"].orgs[o] # 0 =>
                                       c.orgs[o] = seen'["session"].orgs[o]
  PROVE  CloudInv'
<1>1. /\ jobs' = [jobs EXCEPT ![s] = None]
      /\ clients' = [clients EXCEPT ![s] = IF s = "aside" THEN None ELSE c]
  BY DEF Cloud!Ended, Cloud!Set
<1>2. CloudTypes'
  BY <1>1 DEF CloudInv, CloudTypes
<1>3. \A u \in Cloud!Slot : jobs'[u] # None => clients'[u] # None
  BY <1>1 DEF CloudInv, CloudTypes
<1>4. CASE s = "aside"
  <2>1. clients'["session"] = clients["session"] /\ seen'["session"] = seen["session"]
    BY <1>1, <1>4 DEF CloudInv, CloudTypes, Cloud!Slot
  <2> QED BY <1>2, <1>3, <2>1, CloudStays
<1>5. CASE s = "session"
  <2>1. clients'["session"] = c /\ c # None /\ clients["session"] # None
    BY <1>1, <1>5, CloudAssumption DEF CloudInv, CloudTypes, Cloud!Slot
  <2>2. CASE c = clients[s] /\ UNCHANGED seen
    BY <1>2, <1>3, <1>5, <2>1, <2>2, CloudStays
  <2>3. CASE ~(c = clients[s] /\ UNCHANGED seen)
    BY <1>2, <1>3, <1>5, <2>1, <2>3 DEF CloudInv, Cloud!OrgKeysFollow
  <2> QED BY <2>2, <2>3
<1> QED BY <1>4, <1>5 DEF Cloud!Slot

\* The client after a sync.
LEMMA CloudSynced ==
  ASSUME CloudTypes, NEW c \in Cloud!Client
  PROVE  /\ Cloud!Synced(c) \in Cloud!Client
         /\ \A o \in Org : account.private /\ account.orgs[o] # 0 =>
                             Cloud!Synced(c).orgs[o] = account.orgs[o]
<1> DEFINE d == Cloud!WithPrivate(c)
<1>1. account.private \in BOOLEAN /\ account.orgs \in [Org -> Cloud!Key]
  BY DEF CloudTypes, Cloud!Profile
<1>2. d = [apikey |-> c.apikey, valid |-> c.valid, private |-> c.private \/ account.private,
           orgs |-> c.orgs]
  BY DEF Cloud!WithPrivate, Cloud!Client
<1>3. d \in Cloud!Client
  BY <1>1, <1>2 DEF Cloud!Client
<1>4. account.private => d.private
  <2>1. d.private = (c.private \/ account.private)
    BY <1>2
  <2> QED BY <2>1, Zenon
<1> HIDE DEF d
<1>5. \A o \in Org : (IF account.orgs[o] # 0 /\ d.private THEN account.orgs[o] ELSE d.orgs[o]) \in Cloud!Key
  BY <1>1, <1>3 DEF Cloud!Client
<1>6. Cloud!Synced(c) =
        [apikey |-> d.apikey, valid |-> d.valid, private |-> d.private,
         orgs |-> [o \in Org |-> IF account.orgs[o] # 0 /\ d.private THEN account.orgs[o] ELSE d.orgs[o]]]
  BY <1>3 DEF Cloud!Synced, Cloud!WithOrgs, Cloud!Client, d
<1>7. Cloud!Synced(c) \in Cloud!Client
  BY <1>3, <1>5, <1>6 DEF Cloud!Client
<1> QED BY <1>4, <1>6, <1>7

\* A sync's answer gives the client its keys.
LEMMA CloudAnswered ==
  ASSUME CloudInv, NEW s \in Cloud!Slot, jobs[s] # None, Cloud!Answered(s),
         UNCHANGED <<account, changes>>
  PROVE  CloudInv'
<1>1. clients[s] \in Cloud!Client /\ clients[s] # None /\ CloudTypes
  BY DEF CloudInv, CloudTypes
<1>2. CASE jobs[s].op = "sync"
  <2>1. /\ Cloud!Ended(s, Cloud!Synced(clients[s]), TRUE)
        /\ seen' = [seen EXCEPT ![s] = IF s = "aside" THEN None ELSE account]
    BY <1>2 DEF Cloud!Answered, Cloud!Set
  <2>2. account \in Cloud!Profile /\ account # None
    BY <1>1, CloudAssumption DEF CloudTypes
  <2>3. \E p \in Cloud!Profile \union {None} : seen' = [seen EXCEPT ![s] = p]
    BY <2>1, <2>2
  <2>4. s = "session" => seen'["session"] = account
    BY <1>1, <2>1 DEF CloudTypes
  <2>5. PICK c \in Cloud!Client :
          /\ c = Cloud!Synced(clients[s])
          /\ \A o \in Org : account.private /\ account.orgs[o] # 0 => c.orgs[o] = account.orgs[o]
    BY <1>1, CloudSynced
  <2>6. s = "session" => /\ seen'["session"] # None
                         /\ \A o \in Org :
                              seen'["session"].private /\ seen'["session"].orgs[o] # 0 =>
                                c.orgs[o] = seen'["session"].orgs[o]
    BY <2>2, <2>4, <2>5
  <2>7. Cloud!Ended(s, c, TRUE)
    BY <2>1, <2>5
  <2> QED BY <2>3, <2>6, <2>7, CloudEnds
<1>3. CASE jobs[s].op = "push"
  <2>1. Cloud!Goto(s, "write") /\ UNCHANGED <<clients, seen>>
    BY <1>3 DEF Cloud!Answered
  <2> QED BY <1>1, <2>1, CloudGoto, CloudGoes
<1>4. CASE jobs[s].op \notin {"sync", "push"}
  <2>1. Cloud!Ended(s, clients[s], TRUE) /\ UNCHANGED seen
    BY <1>4 DEF Cloud!Answered
  <2> QED BY <1>1, <2>1, CloudEnds
<1> QED BY <1>2, <1>3, <1>4

\* A client's token expires or is renewed: its keys stay.
LEMMA CloudToken ==
  ASSUME CloudTypes, NEW s \in Cloud!Slot, clients[s] # None, NEW b \in BOOLEAN,
         clients' = [clients EXCEPT ![s].valid = b]
  PROVE  /\ clients' \in [Cloud!Slot -> Cloud!Client \union {None}]
         /\ \A u \in Cloud!Slot : /\ clients'[u] = None <=> clients[u] = None
                                  /\ clients[u] # None => clients'[u].orgs = clients[u].orgs
<1> DEFINE c == clients[s]
<1>1. c \in Cloud!Client
  BY DEF CloudTypes
<1>2. clients' = [clients EXCEPT ![s] = [c EXCEPT !.valid = b]]
  OBVIOUS
<1> HIDE DEF c
<1>3. [c EXCEPT !.valid = b] \in Cloud!Client /\ [c EXCEPT !.valid = b].orgs = c.orgs
  BY <1>1 DEF Cloud!Client
<1> QED BY <1>1, <1>2, <1>3, CloudAssumption DEF CloudTypes, c

\* A job takes its next step, or fails.
LEMMA CloudRuns ==
  ASSUME CloudInv, NEW s \in Cloud!Slot, Cloud!Run(s) \/ Cloud!CallFails(s)
  PROVE  CloudInv'
<1>1. jobs[s] # None /\ clients[s] # None /\ clients[s] \in Cloud!Client /\ CloudTypes
  BY DEF CloudInv, CloudTypes, Cloud!Run, Cloud!Send, Cloud!Reauth, Cloud!Again, Cloud!Write,
         Cloud!CallFails, Cloud!At
<1>2. UNCHANGED <<account, changes>>
  BY DEF Cloud!Run, Cloud!Send, Cloud!Reauth, Cloud!Again, Cloud!Write, Cloud!CallFails, Cloud!outside
<1>3. CASE Cloud!Failed(s)
  <2>1. Cloud!Ended(s, clients[s], FALSE) /\ UNCHANGED seen
    BY <1>3 DEF Cloud!Failed
  <2> QED BY <1>1, <1>2, <2>1, CloudEnds
<1>4. CASE Cloud!Answered(s)
  BY <1>1, <1>2, <1>4, CloudAnswered
<1>5. CASE Cloud!Goto(s, "reauth") /\ UNCHANGED <<clients, seen>>
  BY <1>1, <1>2, <1>5, CloudGoto, CloudGoes
<1>6. CASE Cloud!Write(s)
  <2>1. Cloud!Ended(s, clients[s], clients[s].valid) /\ UNCHANGED seen
    BY <1>6 DEF Cloud!Write
  <2> QED BY <1>1, <1>2, <2>1, CloudEnds
<1>7. CASE Cloud!Reauth(s)
  <2>1. Cloud!Goto(s, "again") /\ clients' = [clients EXCEPT ![s].valid = TRUE] /\ UNCHANGED seen
    BY <1>7 DEF Cloud!Reauth
  <2>2. PICK j \in Cloud!Job : jobs' = [jobs EXCEPT ![s] = j]
    BY <1>1, <2>1, CloudGoto
  <2>3. /\ clients' \in [Cloud!Slot -> Cloud!Client \union {None}]
        /\ \A u \in Cloud!Slot : /\ clients'[u] = None <=> clients[u] = None
                                 /\ clients[u] # None => clients'[u].orgs = clients[u].orgs
    BY <1>1, <2>1, CloudToken
  <2>4. CloudTypes'
    BY <1>1, <1>2, <2>1, <2>2, <2>3 DEF CloudTypes
  <2>5. \A u \in Cloud!Slot : jobs'[u] # None => clients'[u] # None
    BY <1>1, <2>2, <2>3 DEF CloudInv, CloudTypes
  <2>6. "session" \in Cloud!Slot
    BY DEF Cloud!Slot
  <2> QED BY <2>1, <2>3, <2>4, <2>5, <2>6, CloudStays
<1> QED BY <1>3, <1>4, <1>5, <1>6, <1>7
        DEF Cloud!Run, Cloud!Send, Cloud!Again, Cloud!CallFails

\* Tokens expire, the account changes, the link opens and closes.
LEMMA CloudOutside ==
  ASSUME CloudInv,
         \/ \E s \in Cloud!Slot : Cloud!Expire(s)
         \/ Cloud!Open \/ Cloud!Close \/ Cloud!Edit \/ Cloud!Revoke
  PROVE  CloudInv'
<1>0. CloudTypes
  BY DEF CloudInv
<1>1. ASSUME NEW s \in Cloud!Slot, Cloud!Expire(s) PROVE CloudInv'
  <2>1. /\ clients[s] # None /\ clients' = [clients EXCEPT ![s].valid = FALSE]
        /\ changes < AccountChanges /\ changes' = changes + 1 /\ UNCHANGED <<account, jobs, seen>>
    BY <1>1 DEF Cloud!Expire, Cloud!Change, Cloud!outside
  <2>2. changes' \in 0..AccountChanges
    BY <1>0, <2>1, CloudAssumption DEF CloudTypes
  <2>3. /\ clients' \in [Cloud!Slot -> Cloud!Client \union {None}]
        /\ \A u \in Cloud!Slot : /\ clients'[u] = None <=> clients[u] = None
                                 /\ clients[u] # None => clients'[u].orgs = clients[u].orgs
    BY <1>0, <2>1, CloudToken
  <2>4. CloudTypes' /\ "session" \in Cloud!Slot
    BY <1>0, <2>1, <2>2, <2>3 DEF CloudTypes, Cloud!Slot
  <2>5. \A u \in Cloud!Slot : jobs'[u] # None => clients'[u] # None
    BY <2>1, <2>3 DEF CloudInv
  <2> QED BY <2>1, <2>3, <2>4, <2>5, CloudStays
<1>2. CASE Cloud!Open \/ Cloud!Close
  <2>1. UNCHANGED <<account, changes, clients, jobs, seen>>
    BY <1>2 DEF Cloud!Open, Cloud!Close, Cloud!outside
  <2> QED BY <2>1 DEF CloudInv, CloudTypes, Cloud!OrgKeysFollow
<1>3. CASE Cloud!Edit \/ Cloud!Revoke
  <2>1. /\ changes < AccountChanges /\ changes' = changes + 1 /\ UNCHANGED <<clients, jobs, seen>>
    BY <1>3 DEF Cloud!Edit, Cloud!Revoke, Cloud!Change
  <2>2. changes' \in 0..AccountChanges /\ 0 \in Cloud!Key /\ changes' \in Cloud!Key
    BY <1>0, <2>1, CloudAssumption DEF CloudTypes, Cloud!Key
  <2>3. account' \in Cloud!Profile
    <3>1. account.orgs \in [Org -> Cloud!Key] /\ account.private \in BOOLEAN
      BY <1>0 DEF CloudTypes, Cloud!Profile
    <3>2. \/ UNCHANGED account
          \/ account' = [account EXCEPT !.private = TRUE]
          \/ \E o \in Org, k \in Cloud!Key : account' = [account EXCEPT !.orgs[o] = k]
      BY <1>3, <2>2 DEF Cloud!Edit, Cloud!Revoke
    <3>3. account \in Cloud!Profile
      BY <1>0 DEF CloudTypes
    <3>4. CASE account' = [account EXCEPT !.private = TRUE]
      BY <3>3, <3>4 DEF Cloud!Profile
    <3>5. CASE \E o \in Org, k \in Cloud!Key : account' = [account EXCEPT !.orgs[o] = k]
      BY <3>1, <3>3, <3>5 DEF Cloud!Profile
    <3> QED BY <3>2, <3>3, <3>4, <3>5
  <2>4. CloudTypes'
    BY <1>0, <2>1, <2>2, <2>3 DEF CloudTypes
  <2> QED BY <2>1, <2>4, CloudStays DEF CloudInv
<1> QED BY <1>1, <1>2, <1>3

\* Every step of CloudSession keeps the invariant.
LEMMA CloudStep ==
  ASSUME CloudInv, [Cloud!Next]_(Cloud!vars)
  PROVE  CloudInv'
<1>1. CASE UNCHANGED Cloud!vars
  <2>1. UNCHANGED <<account, changes, clients, jobs, seen>>
    BY <1>1 DEF Cloud!vars, Cloud!outside, Cloud!socket
  <2> QED BY <2>1 DEF CloudInv, CloudTypes, Cloud!OrgKeysFollow
<1>2. CASE Cloud!Next
  <2>1. CASE \E op \in {"sync", "get", "push"} : Cloud!Call(op)
    BY <2>1, CloudCalls
  <2> QED BY <1>2, <2>1, CloudStarts, CloudCrash, CloudAside, CloudRuns, CloudOutside
          DEF Cloud!Next, Cloud!Poll
<1> QED BY <1>1, <1>2

\* A behaviour about CloudSession takes its steps and no others.
LEMMA CloudPart ==
  ASSUME part = "cloud", [Next]_vars
  PROVE  [Cloud!Next]_(Cloud!vars)
<1>1. CASE Next
  BY <1>1 DEF Next
<1>2. CASE UNCHANGED vars
  <2>1. UNCHANGED <<creds, granted, account, clients, jobs, link, backoff, changes, faults, seen, told>>
    BY <1>2, Zenon DEF vars
  <2> QED BY <2>1 DEF Cloud!vars, Cloud!outside, Cloud!socket
<1> QED BY <1>1, <1>2

\* It starts as CloudSession does.
LEMMA CloudStart == ASSUME Init, part = "cloud" PROVE Cloud!Init
  BY DEF Init

\* A cloud client has the key of every organization that the profile it has
\* last seen gives it, through expired tokens, logins and reconnections
\* (cloud.rs).
THEOREM SafetyOfCloud == Spec => []OrgKeysFollow
<1> DEFINE I == part = "cloud" => CloudInv
<1>1. Init => I
  BY CloudStart, CloudInit
<1>2. I /\ [Next]_vars => I'
  <2> SUFFICES ASSUME I, [Next]_vars, part' = "cloud" PROVE (CloudInv)'
    OBVIOUS
  <2> QED BY PartStays, CloudPart, CloudStep
<1>3. I => OrgKeysFollow
  BY DEF OrgKeysFollow, CloudInv
<1> QED BY <1>1, <1>2, <1>3, PTL DEF Spec

------------------------------------------------------------------------------
(* RateLimiter: the requests that a key's window counts are the last that   *)
(* were let through, and those of the windows before were too few to fill   *)
(* one.                                                                     *)

\* Times that are kept with the oldest first: those that lie at least w behind
\* are at the front, and as many as are counted.
OldestFirst(s) == \A i, j \in DOMAIN s : i <= j => s[j] <= s[i]

\* Those are found from the least number whose time is less than w.
LEMMA OldestAtFront ==
  ASSUME NEW s \in Seq(Nat), NEW w \in Nat, OldestFirst(s)
  PROVE  \E n \in 0..Len(s) :
           /\ Cardinality({i \in DOMAIN s : s[i] >= w}) = n
           /\ \A i \in DOMAIN s : i <= n <=> s[i] >= w
<1> DEFINE T == {i \in 1..(Len(s) + 1) : i = Len(s) + 1 \/ s[i] < w}
           G == {i \in DOMAIN s : s[i] >= w}
<1>1. Len(s) \in Nat /\ DOMAIN s = 1..Len(s) /\ \A i \in DOMAIN s : s[i] \in Nat
  OBVIOUS
<1>2. T \subseteq Nat /\ T # {}
  <2>1. Len(s) + 1 \in T
    BY <1>1
  <2>2. \A i \in T : i \in Nat
    BY <1>1
  <2> QED BY <2>1, <2>2
<1>3. PICK m \in T : \A i \in T : m <= i
  <2>1. \E m \in T : \A i \in T : <<i, m>> \notin OpToRel(<, Nat)
    <3> HIDE DEF T
    <3> QED BY <1>2, WFMin, NatLessThanWellFounded, Zenon
  <2>2. PICK m \in T : \A i \in T : <<i, m>> \notin OpToRel(<, Nat)
    BY <2>1
  <2>3. ASSUME NEW i \in T PROVE m <= i
    <3>1. i \in Nat /\ m \in Nat
      BY <1>2
    <3>2. ~(i < m)
      <4>1. <<i, m>> \notin OpToRel(<, Nat)
        BY <2>2
      <4> QED BY <3>1, <4>1, Zenon DEF OpToRel
    <3> QED BY <3>1, <3>2
  <2> QED BY <2>3
<1>4. m \in 1..(Len(s) + 1) /\ (m = Len(s) + 1 \/ s[m] < w)
  OBVIOUS
<1>5. ASSUME NEW i \in DOMAIN s PROVE i <= m - 1 <=> s[i] >= w
  <2>1. i \in 1..Len(s) /\ s[i] \in Nat
    BY <1>1
  <2>2. CASE i < m
    <3>1. i \notin T
      BY <1>2, <1>3, <1>4, <2>1, <2>2
    <3> QED BY <1>1, <1>4, <2>1, <2>2, <3>1
  <2>3. CASE ~(i < m)
    <3>1. m \in DOMAIN s /\ m <= i
      BY <1>1, <1>4, <2>1, <2>3
    <3>2. s[i] <= s[m] /\ s[m] < w /\ s[m] \in Nat
      BY <1>1, <1>4, <2>1, <3>1 DEF OldestFirst
    <3> QED BY <1>4, <2>1, <2>3, <3>2
  <2> QED BY <2>2, <2>3
<1>6. G = 1..(m - 1)
  BY <1>1, <1>4, <1>5
<1>7. Cardinality(G) = m - 1 /\ m - 1 \in 0..Len(s)
  <2>1. 1 \in Int /\ m - 1 \in Int /\ m - 1 \in 0..Len(s)
    BY <1>1, <1>4
  <2>2. Cardinality(1..(m - 1)) = IF 1 > m - 1 THEN 0 ELSE (m - 1) - 1 + 1
    BY <2>1, FS_Interval
  <2>3. Cardinality(1..(m - 1)) = m - 1
    BY <1>4, <2>1, <2>2
  <2> QED BY <1>6, <2>1, <2>3
<1> QED BY <1>5, <1>7

\* A function on the first numbers is a sequence.
LEMMA FunctionToSeq ==
  ASSUME NEW m \in Nat, NEW S, NEW q \in [1..m -> S]
  PROVE  q \in Seq(S) /\ Len(q) = m /\ DOMAIN q = 1..m
<1>1. q \in Seq(S)
  OBVIOUS
<1>2. DOMAIN q = 1..m /\ DOMAIN q = 1..Len(q) /\ Len(q) \in Nat
  BY <1>1
<1> QED BY <1>1, <1>2

\* What happens now comes last.
LEMMA NowLast ==
  ASSUME NEW n \in Nat, NEW s \in Seq(0..n), OldestFirst(s)
  PROVE  /\ Append(s, 0) \in Seq(0..n) /\ OldestFirst(Append(s, 0))
         /\ Len(Append(s, 0)) = Len(s) + 1 /\ Append(s, 0)[Len(s) + 1] = 0
         /\ \A i \in 1..Len(s) : Append(s, 0)[i] = s[i]
<1> DEFINE t == Append(s, 0)
<1>1. /\ t \in Seq(0..n) /\ Len(t) = Len(s) + 1 /\ t[Len(s) + 1] = 0
      /\ \A i \in 1..Len(s) : t[i] = s[i] /\ s[i] \in 0..n
      /\ DOMAIN t = 1..(Len(s) + 1) /\ DOMAIN s = 1..Len(s)
  OBVIOUS
<1>2. OldestFirst(t)
  <2> HIDE DEF t
  <2> SUFFICES ASSUME NEW i \in 1..(Len(s) + 1), NEW j \in 1..(Len(s) + 1), i <= j
               PROVE  t[j] <= t[i]
    BY <1>1 DEF OldestFirst
  <2>1. Len(s) \in Nat /\ DOMAIN s = 1..Len(s)
    OBVIOUS
  <2>2. CASE j \in 1..Len(s)
    <3>1. i \in 1..Len(s) /\ s[j] <= s[i]
      <4>1. i \in 1..Len(s)
        BY <2>1, <2>2
      <4> QED BY <2>1, <2>2, <4>1 DEF OldestFirst
    <3> QED BY <1>1, <2>2, <3>1
  <2>3. CASE j = Len(s) + 1
    <3>1. t[j] = 0 /\ t[i] \in 0..n
      BY <1>1, <2>1, <2>3
    <3> QED BY <3>1
  <2> QED BY <2>1, <2>2, <2>3
<1> QED BY <1>1, <1>2

\* The requests of the key's window that were let through, which are as many as
\* counted but for those that were refused, are the last; the first of them began
\* the window.  Those of the windows before are too few to fill one, and no
\* younger.
LimiterOwn(k) == IF count[k] <= Limiter!Limit(k) THEN count[k] ELSE Limiter!Limit(k)

LimiterKey(k) ==
  /\ OldestFirst(passed[k])
  /\ (k \notin keys \/ age[k] >= Window) => Len(passed[k]) < Limiter!Limit(k)
  /\ (k \in keys /\ age[k] < Window) =>
       /\ LimiterOwn(k) >= 1 /\ LimiterOwn(k) <= Len(passed[k]) /\ Len(passed[k]) < LimiterOwn(k) + Limiter!Limit(k)
       /\ passed[k][Len(passed[k]) - LimiterOwn(k) + 1] = age[k]

\* The last request was refused because its key's budget is spent or it has none.
LimiterRefuses ==
  \A k \in refused :
    \/ k \in keys /\ age[k] < Window /\ count[k] > Limiter!Limit(k)
    \/ k \notin keys /\ Cardinality(keys) >= MaxEntries

\* The variables of the limiter; no key's requests are counted beyond the
\* first that is refused.
LimiterTypes ==
  /\ keys \subseteq Limiter!Key /\ IsFiniteSet(keys) /\ Cardinality(keys) <= MaxEntries
  /\ age \in [Limiter!Key -> 0..Limiter!MaxAge]
  /\ count \in [Limiter!Key -> Nat] /\ \A k \in Limiter!Key : count[k] <= Limiter!Limit(k) + 1
  /\ swept \in BOOLEAN
  /\ passed \in [Limiter!Key -> Seq(0..(Window - 1))]
  /\ refused \subseteq Limiter!Key

\* The invariant.
LimiterInv == LimiterTypes /\ (\A k \in Limiter!Key : LimiterKey(k)) /\ LimiterRefuses

\* The instance counts as FiniteSets does.
LEMMA LimiterCardinality == \A S : Limiter!Cardinality(S) = Cardinality(S)
  BY DEF Limiter!Cardinality, Cardinality

\* Then the limits are fair.
LEMMA LimiterFair == ASSUME LimiterInv PROVE Limiter!BudgetKept /\ Limiter!RefusedFairly
<1>1. ASSUME NEW k \in Limiter!Key PROVE Limiter!Recent(k) < 2 * Limiter!Limit(k)
  <2>1. /\ LimiterKey(k) /\ Limiter!Limit(k) \in Nat \ {0} /\ count[k] \in Nat
        /\ Len(passed[k]) \in Nat /\ age[k] \in Nat /\ Window \in Nat
    BY LimiterAssumption DEF LimiterInv, LimiterTypes
  <2> QED BY <2>1 DEF LimiterKey, LimiterOwn, Limiter!Recent
<1>2. ASSUME NEW k \in refused
      PROVE  \/ Limiter!Recent(k) >= Limiter!Limit(k)
             \/ k \notin keys /\ Limiter!Cardinality(keys) >= MaxEntries
  <2>1. /\ LimiterKey(k) /\ Limiter!Limit(k) \in Nat \ {0} /\ count[k] \in Nat
        /\ Len(passed[k]) \in Nat /\ age[k] \in Nat /\ Window \in Nat
    BY LimiterAssumption DEF LimiterInv, LimiterTypes
  <2>2. CASE k \in keys /\ age[k] < Window /\ count[k] > Limiter!Limit(k)
    BY <2>1, <2>2 DEF LimiterKey, LimiterOwn, Limiter!Recent
  <2>3. CASE k \notin keys /\ Cardinality(keys) >= MaxEntries
    BY <2>3, LimiterCardinality
  <2> QED BY <2>2, <2>3 DEF LimiterInv, LimiterRefuses
<1> QED BY <1>1, <1>2 DEF Limiter!BudgetKept, Limiter!RefusedFairly

\* The invariant holds before anything has happened.
LEMMA LimiterInit == ASSUME Limiter!Init PROVE LimiterInv
<1>1. /\ keys = {} /\ refused = {} /\ swept \in BOOLEAN
      /\ \A k \in Limiter!Key : age[k] = 0 /\ count[k] = 0 /\ passed[k] = << >>
      /\ age = [k \in Limiter!Key |-> 0] /\ count = [k \in Limiter!Key |-> 0]
      /\ passed = [k \in Limiter!Key |-> << >>]
  BY DEF Limiter!Init
<1>2. IsFiniteSet({}) /\ Cardinality({}) = 0
  BY FS_EmptySet
<1>3. LimiterTypes
  <2>1. << >> \in Seq(0..(Window - 1)) /\ 0 \in 0..Limiter!MaxAge /\ MaxEntries \in Nat
    BY LimiterAssumption DEF Limiter!MaxAge
  <2>2. \A k \in Limiter!Key : count[k] <= Limiter!Limit(k) + 1
    BY <1>1, LimiterAssumption
  <2> QED BY <1>1, <1>2, <2>1, <2>2 DEF LimiterTypes
<1>4. ASSUME NEW k \in Limiter!Key PROVE LimiterKey(k)
  BY <1>1, LimiterAssumption DEF LimiterKey, OldestFirst
<1> QED BY <1>1, <1>3, <1>4 DEF LimiterInv, LimiterRefuses

\* What a tick leaves of the times of one key.
LEMMA LimiterLater ==
  ASSUME NEW p \in Seq(0..(Window - 1)), OldestFirst(p)
  PROVE  \E n \in 0..Len(p) :
           /\ Limiter!Later(p) \in Seq(0..(Window - 1)) /\ Len(Limiter!Later(p)) = Len(p) - n
           /\ \A i \in 1..(Len(p) - n) : Limiter!Later(p)[i] = p[n + i] + 1
           /\ \A i \in DOMAIN p : i <= n <=> p[i] = Window - 1
           /\ OldestFirst(Limiter!Later(p))
<1> DEFINE G == {i \in DOMAIN p : p[i] = Window - 1}
<1>0. /\ Window \in Nat \ {0} /\ Len(p) \in Nat /\ DOMAIN p = 1..Len(p)
      /\ \A i \in DOMAIN p : p[i] \in 0..(Window - 1)
  BY LimiterAssumption
<1>1. p \in Seq(Nat) /\ Window - 1 \in Nat
  BY <1>0
<1>2. G = {i \in DOMAIN p : p[i] >= Window - 1}
  BY <1>0
<1>3. PICK n \in 0..Len(p) : /\ Cardinality({i \in DOMAIN p : p[i] >= Window - 1}) = n
                            /\ \A i \in DOMAIN p : i <= n <=> p[i] >= Window - 1
  BY <1>1, OldestAtFront
<1>4. Limiter!Cardinality(G) = n
  BY <1>2, <1>3, LimiterCardinality
<1> DEFINE q == [i \in 1..(Len(p) - n) |-> p[n + i] + 1]
<1>5. Limiter!Later(p) = q
  BY <1>4 DEF Limiter!Later
<1>6. ASSUME NEW i \in 1..(Len(p) - n)
      PROVE  p[n + i] + 1 \in 0..(Window - 1) /\ n + i \in DOMAIN p
  <2>1. n + i \in DOMAIN p /\ ~(n + i <= n)
    BY <1>0
  <2>2. p[n + i] \in 0..(Window - 1) /\ ~(p[n + i] >= Window - 1)
    BY <1>0, <1>3, <2>1
  <2> QED BY <1>0, <2>1, <2>2
<1>7. q \in Seq(0..(Window - 1)) /\ Len(q) = Len(p) - n /\ DOMAIN q = 1..(Len(p) - n)
  <2>1. Len(p) - n \in Nat
    BY <1>0
  <2>2. q \in [1..(Len(p) - n) -> 0..(Window - 1)]
    BY <1>6
  <2> DEFINE m == Len(p) - n
  <2> HIDE DEF q, m
  <2>3. m \in Nat /\ q \in [1..m -> 0..(Window - 1)]
    BY <2>1, <2>2 DEF m
  <2>4. q \in Seq(0..(Window - 1)) /\ Len(q) = m /\ DOMAIN q = 1..m
    BY <2>3, FunctionToSeq
  <2> QED BY <2>4 DEF m
<1>8. OldestFirst(q)
  <2> SUFFICES ASSUME NEW i \in 1..(Len(p) - n), NEW j \in 1..(Len(p) - n), i <= j
               PROVE  q[j] <= q[i]
    BY <1>7 DEF OldestFirst
  <2>1. n + i \in DOMAIN p /\ n + j \in DOMAIN p /\ n + i <= n + j
    BY <1>6
  <2>2. p[n + j] <= p[n + i] /\ p[n + j] \in Nat /\ p[n + i] \in Nat
    BY <1>0, <2>1 DEF OldestFirst
  <2> QED BY <2>2
<1>9. \A i \in DOMAIN p : i <= n <=> p[i] = Window - 1
  BY <1>0, <1>3
<1> QED BY <1>5, <1>7, <1>8, <1>9

\* A tick takes every key's requests further into the past.
LEMMA LimiterTick == ASSUME LimiterInv, Limiter!Tick PROVE LimiterInv'
<1>0. LimiterTypes /\ Window \in Nat \ {0} /\ Limiter!MaxAge = 4 * Window
  BY LimiterAssumption DEF LimiterInv, Limiter!MaxAge
<1>1. /\ keys' = keys /\ count' = count /\ swept' = FALSE /\ refused' = {}
      /\ age' = [k \in Limiter!Key |-> IF k \in keys /\ age[k] < Limiter!MaxAge THEN age[k] + 1 ELSE age[k]]
      /\ passed' = [k \in Limiter!Key |-> Limiter!Later(passed[k])]
  BY DEF Limiter!Tick
<1>2. ASSUME NEW k \in Limiter!Key
      PROVE  /\ passed'[k] \in Seq(0..(Window - 1)) /\ age'[k] \in 0..Limiter!MaxAge
             /\ LimiterKey(k)'
  <2> DEFINE p == passed[k]  q == Limiter!Later(p)  a == age[k]  l == Limiter!Limit(k)
  <2>1. p \in Seq(0..(Window - 1)) /\ OldestFirst(p) /\ LimiterKey(k)
    BY <1>0 DEF LimiterInv, LimiterTypes, LimiterKey
  <2>2. PICK n \in 0..Len(p) :
          /\ q \in Seq(0..(Window - 1)) /\ Len(q) = Len(p) - n
          /\ \A i \in 1..(Len(p) - n) : q[i] = p[n + i] + 1
          /\ \A i \in DOMAIN p : i <= n <=> p[i] = Window - 1
          /\ OldestFirst(q)
    BY <2>1, LimiterLater
  <2>3. passed'[k] = q
    BY <1>1
  <2>4. /\ l \in Nat \ {0} /\ a \in 0..Limiter!MaxAge /\ count[k] \in Nat
        /\ age'[k] = IF k \in keys /\ a < Limiter!MaxAge THEN a + 1 ELSE a
    BY <1>0, <1>1, LimiterAssumption DEF LimiterTypes
  <2>5. LimiterOwn(k)' = LimiterOwn(k) /\ LimiterOwn(k) \in 0..l
    BY <1>1, <2>4 DEF LimiterOwn
  <2>6. /\ (k \notin keys \/ a >= Window) => Len(p) < l
        /\ (k \in keys /\ a < Window) =>
              /\ LimiterOwn(k) >= 1 /\ LimiterOwn(k) <= Len(p) /\ Len(p) < LimiterOwn(k) + l
              /\ p[Len(p) - LimiterOwn(k) + 1] = a
    BY <2>1 DEF LimiterKey
  <2>7. age'[k] \in 0..Limiter!MaxAge
    BY <1>0, <2>4
  <2>8. Len(p) \in Nat /\ DOMAIN p = 1..Len(p)
    BY <2>1
  <2> DEFINE o == LimiterOwn(k)
  <2> HIDE DEF p, q, a, l, o
  <2>9. CASE k \notin keys \/ a >= Window
    <3>1. k \notin keys \/ age'[k] >= Window
      BY <1>0, <2>4, <2>9
    <3>2. Len(q) < l
      BY <2>2, <2>4, <2>6, <2>8, <2>9
    <3>3. ~(k \in keys /\ age'[k] < Window)
      BY <1>0, <2>7, <3>1
    <3> QED BY <1>1, <2>2, <2>3, <2>7, <3>2, <3>3 DEF LimiterKey, l
  <2>10. CASE k \in keys /\ a < Window
    <3>1. age'[k] = a + 1
      BY <1>0, <2>4, <2>10
    <3>2. /\ o >= 1 /\ o <= Len(p) /\ Len(p) < o + l /\ p[Len(p) - o + 1] = a
          /\ o \in 0..l
      BY <2>5, <2>6, <2>10 DEF o
    <3>3. Len(p) - o + 1 \in DOMAIN p
      BY <2>8, <3>2
    <3>4. Len(p) - o + 1 <= n <=> a = Window - 1
      BY <2>2, <3>2, <3>3
    <3>5. CASE a + 1 < Window
      <4>1. Len(q) - o + 1 \in 1..(Len(p) - n) /\ n + (Len(q) - o + 1) = Len(p) - o + 1
        BY <1>0, <2>2, <2>4, <2>8, <3>2, <3>4, <3>5
      <4>2. q[Len(q) - o + 1] = a + 1
        <5>1. q[Len(q) - o + 1] = p[n + (Len(q) - o + 1)] + 1
          BY <2>2, <4>1
        <5> QED BY <3>2, <4>1, <5>1
      <4>3. o <= Len(q) /\ Len(q) < o + l
        BY <1>0, <2>2, <2>4, <2>8, <3>2, <4>1
      <4>4. k \in keys' /\ ~(age'[k] >= Window) /\ LimiterOwn(k)' = o
        BY <1>0, <1>1, <2>4, <2>5, <2>10, <3>1, <3>5 DEF o
      <4> QED BY <2>2, <2>3, <2>7, <3>1, <3>2, <4>2, <4>3, <4>4 DEF LimiterKey, l
    <3>6. CASE ~(a + 1 < Window)
      <4>1. a = Window - 1
        BY <1>0, <2>4, <2>10, <3>6
      <4>2. Len(q) < l
        BY <2>2, <2>4, <2>8, <3>2, <3>4, <4>1
      <4>3. ~(age'[k] < Window)
        BY <1>0, <3>1, <4>1
      <4> QED BY <2>2, <2>3, <2>7, <4>2, <4>3 DEF LimiterKey, l
    <3> QED BY <3>5, <3>6
  <2> QED BY <1>0, <2>4, <2>9, <2>10
<1>3. LimiterTypes'
  <2>1. passed' \in [Limiter!Key -> Seq(0..(Window - 1))]
    BY <1>1, <1>2
  <2>2. age' \in [Limiter!Key -> 0..Limiter!MaxAge]
    BY <1>1, <1>2
  <2> QED BY <1>0, <1>1, <2>1, <2>2 DEF LimiterTypes
<1> QED BY <1>1, <1>2, <1>3 DEF LimiterInv, LimiterRefuses

\* A sweep removes keys whose window has ended.
LEMMA LimiterSweep ==
  ASSUME LimiterInv
  PROVE  /\ Limiter!Swept \subseteq keys /\ IsFiniteSet(Limiter!Swept)
         /\ Cardinality(Limiter!Swept) \in Nat /\ Cardinality(Limiter!Swept) <= MaxEntries
         /\ \A k \in Limiter!Key \ Limiter!Swept : Len(passed[k]) < Limiter!Limit(k)
<1>0. LimiterTypes /\ Window \in Nat \ {0} /\ Limiter!MaxAge = 4 * Window /\ MaxEntries \in Nat
  BY LimiterAssumption DEF LimiterInv, Limiter!MaxAge
<1>1. Limiter!Swept \subseteq keys
  BY DEF Limiter!Swept, Limiter!Kept
<1>2. /\ IsFiniteSet(Limiter!Swept) /\ Cardinality(Limiter!Swept) <= Cardinality(keys)
      /\ Cardinality(Limiter!Swept) \in Nat /\ Cardinality(keys) \in Nat
  BY <1>0, <1>1, FS_Subset, FS_CardinalityType DEF LimiterTypes
<1>3. Cardinality(Limiter!Swept) <= MaxEntries
  BY <1>0, <1>2 DEF LimiterTypes
<1>4. ASSUME NEW k \in Limiter!Key \ Limiter!Swept PROVE Len(passed[k]) < Limiter!Limit(k)
  <2>1. k \notin keys \/ ~(age[k] < Limiter!MaxAge)
    BY DEF Limiter!Swept, Limiter!Kept
  <2>2. age[k] \in 0..Limiter!MaxAge
    BY <1>0 DEF LimiterTypes
  <2>3. k \notin keys \/ age[k] >= Window
    BY <1>0, <2>1, <2>2
  <2> QED BY <2>3 DEF LimiterInv, LimiterKey
<1> QED BY <1>1, <1>2, <1>3, <1>4

\* What a request of one key does to the others.
LEMMA LimiterOthers ==
  ASSUME LimiterInv, NEW k \in Limiter!Key, NEW S \in SUBSET Limiter!Key, NEW a \in 0..Limiter!MaxAge,
         NEW n \in 0..(Limiter!Limit(k) + 1),
         S = Limiter!Swept \/ S = Limiter!Swept \union {k}, Limiter!Store(S, k, a, n),
         NEW j \in Limiter!Key, (S = Limiter!Swept /\ k \notin S) \/ j # k, passed'[j] = passed[j]
  PROVE  LimiterKey(j)'
<1>0. LimiterTypes /\ LimiterKey(j) /\ Window \in Nat \ {0} /\ Limiter!Limit(j) \in Nat \ {0}
  BY LimiterAssumption DEF LimiterInv
<1>1. /\ keys' = S
      /\ age'[j] = IF j \notin S THEN 0 ELSE IF j = k THEN a ELSE age[j]
      /\ count'[j] = IF j \notin S THEN 0 ELSE IF j = k THEN n ELSE count[j]
  BY DEF Limiter!Store
<1>2. CASE j \in S
  <2>1. j # k /\ j \in Limiter!Swept
    BY <1>2
  <2>2. j \in keys
    BY <2>1, LimiterSweep
  <2>3. age'[j] = age[j] /\ count'[j] = count[j] /\ j \in keys'
    BY <1>1, <1>2, <2>1
  <2> QED BY <1>0, <2>2, <2>3 DEF LimiterKey, LimiterOwn
<1>3. CASE j \notin S
  <2>1. j \notin keys' /\ j \notin Limiter!Swept
    BY <1>1, <1>3
  <2>2. Len(passed[j]) < Limiter!Limit(j)
    BY <2>1, LimiterSweep
  <2> QED BY <1>0, <2>1, <2>2 DEF LimiterKey
<1> QED BY <1>2, <1>3

\* The variables after the limiter has stored what it counts.
LEMMA LimiterStored ==
  ASSUME LimiterInv, NEW k \in Limiter!Key, NEW S \in SUBSET Limiter!Key, NEW a \in 0..Limiter!MaxAge,
         NEW n \in 0..(Limiter!Limit(k) + 1), Limiter!Store(S, k, a, n),
         IsFiniteSet(S), Cardinality(S) <= MaxEntries,
         passed' \in [Limiter!Key -> Seq(0..(Window - 1))], refused' \subseteq Limiter!Key
  PROVE  LimiterTypes'
<1>0. LimiterTypes /\ Limiter!Limit(k) \in Nat
  BY LimiterAssumption DEF LimiterInv
<1>1. /\ keys' = S /\ swept' = TRUE
      /\ age' = [j \in Limiter!Key |-> IF j \notin S THEN 0 ELSE IF j = k THEN a ELSE age[j]]
      /\ count' = [j \in Limiter!Key |-> IF j \notin S THEN 0 ELSE IF j = k THEN n ELSE count[j]]
  BY DEF Limiter!Store
<1>2. age' \in [Limiter!Key -> 0..Limiter!MaxAge]
  <2>1. 0 \in 0..Limiter!MaxAge
    BY LimiterAssumption DEF Limiter!MaxAge
  <2> QED BY <1>0, <1>1, <2>1 DEF LimiterTypes
<1>3. count' \in [Limiter!Key -> Nat] /\ \A j \in Limiter!Key : count'[j] <= Limiter!Limit(j) + 1
  <2>1. ASSUME NEW j \in Limiter!Key PROVE count'[j] \in Nat /\ count'[j] <= Limiter!Limit(j) + 1
    <3>1. Limiter!Limit(j) \in Nat /\ count[j] \in Nat /\ count[j] <= Limiter!Limit(j) + 1
      BY <1>0, LimiterAssumption DEF LimiterTypes
    <3> QED BY <1>0, <1>1, <3>1
  <2> QED BY <1>1, <2>1
<1> QED BY <1>1, <1>2, <1>3 DEF LimiterTypes

\* A request is counted in its key's window, in a window that it begins, or
\* refused.
LEMMA LimiterCheck == ASSUME LimiterInv, NEW k \in Limiter!Key, Limiter!Check(k) PROVE LimiterInv'
<1> DEFINE l == Limiter!Limit(k)  p == passed[k]
<1>0. /\ LimiterTypes /\ Window \in Nat \ {0} /\ l \in Nat \ {0} /\ LimiterKey(k) /\ MaxEntries \in Nat
      /\ 0 \in 0..Limiter!MaxAge
  BY LimiterAssumption DEF LimiterInv, Limiter!MaxAge
<1>1. /\ Limiter!Swept \subseteq keys /\ IsFiniteSet(Limiter!Swept) /\ Limiter!Swept \subseteq Limiter!Key
      /\ Cardinality(Limiter!Swept) \in Nat /\ Cardinality(Limiter!Swept) <= MaxEntries
      /\ \A j \in Limiter!Key \ Limiter!Swept : Len(passed[j]) < Limiter!Limit(j)
  BY <1>0, LimiterSweep DEF LimiterTypes
<1>2. CASE Limiter!Full(k)
  <2>1. /\ k \notin Limiter!Swept /\ Cardinality(Limiter!Swept) >= MaxEntries
        /\ Limiter!Store(Limiter!Swept, k, 0, 0) /\ refused' = {k} /\ passed' = passed
    BY <1>2, LimiterCardinality DEF Limiter!Full, Limiter!Check
  <2>2. 0 \in 0..(l + 1) /\ keys' = Limiter!Swept
    BY <1>0, <2>1 DEF Limiter!Store
  <2>3. LimiterTypes'
    BY <1>0, <1>1, <2>1, <2>2, LimiterStored DEF LimiterTypes
  <2>4. ASSUME NEW j \in Limiter!Key PROVE LimiterKey(j)'
    BY <1>0, <1>1, <2>1, <2>2, LimiterOthers
  <2>5. LimiterRefuses'
    BY <2>1, <2>2 DEF LimiterRefuses
  <2> QED BY <2>3, <2>4, <2>5 DEF LimiterInv
<1>3. CASE ~Limiter!Full(k)
  <2> DEFINE S == Limiter!Swept \union {k}  n == Limiter!Counted(k)
             a == IF Limiter!Expired(k) THEN 0 ELSE age[k]
  <2>1. /\ Limiter!Store(S, k, a, n)
        /\ passed' = IF n <= l THEN [passed EXCEPT ![k] = Append(passed[k], 0)] ELSE passed
        /\ refused' = IF n <= l THEN {} ELSE {k}
    BY <1>3 DEF Limiter!Check
  <2>2. /\ age[k] \in 0..Limiter!MaxAge /\ count[k] \in Nat /\ count[k] <= l + 1
        /\ p \in Seq(0..(Window - 1)) /\ OldestFirst(p) /\ Len(p) \in Nat
    BY <1>0 DEF LimiterTypes, LimiterKey
  <2>3. /\ n = IF Limiter!Expired(k) THEN 1 ELSE IF count[k] < l + 1 THEN count[k] + 1 ELSE count[k]
        /\ n \in 0..(l + 1) /\ a \in 0..Limiter!MaxAge
    BY <1>0, <2>2 DEF Limiter!Counted, Limiter!Over
  <2>4. /\ S \subseteq Limiter!Key /\ IsFiniteSet(S) /\ Cardinality(S) <= MaxEntries
        /\ k \in S
    <3>1. IsFiniteSet(S) /\ Cardinality(S) = IF k \in Limiter!Swept THEN Cardinality(Limiter!Swept)
                                             ELSE Cardinality(Limiter!Swept) + 1
      BY <1>1, FS_AddElement
    <3>2. k \in Limiter!Swept \/ ~(Cardinality(Limiter!Swept) >= MaxEntries)
      BY <1>3, LimiterCardinality DEF Limiter!Full
    <3> QED BY <1>0, <1>1, <3>1, <3>2
  <2>5. /\ keys' = S /\ age'[k] = a /\ count'[k] = n
    BY <2>1, <2>4 DEF Limiter!Store
  <2>6. /\ Append(p, 0) \in Seq(0..(Window - 1)) /\ OldestFirst(Append(p, 0))
        /\ Len(Append(p, 0)) = Len(p) + 1 /\ Append(p, 0)[Len(p) + 1] = 0
        /\ \A i \in 1..Len(p) : Append(p, 0)[i] = p[i]
    BY <1>0, <2>2, NowLast
  <2>7. /\ passed' \in [Limiter!Key -> Seq(0..(Window - 1))]
        /\ passed'[k] = IF n <= l THEN Append(p, 0) ELSE p
        /\ \A j \in Limiter!Key : j # k => passed'[j] = passed[j]
    BY <1>0, <2>1, <2>6 DEF LimiterTypes
  <2>8. /\ Limiter!Expired(k) => Len(p) < l
        /\ ~Limiter!Expired(k) => /\ age[k] < Window
                                  /\ LimiterOwn(k) >= 1 /\ LimiterOwn(k) <= Len(p) /\ Len(p) < LimiterOwn(k) + l
                                  /\ p[Len(p) - LimiterOwn(k) + 1] = age[k]
    <3>1. CASE k \notin Limiter!Swept
      BY <1>1, <3>1 DEF Limiter!Expired
    <3>2. CASE k \in Limiter!Swept
      <4>1. k \in keys /\ (Limiter!Expired(k) <=> age[k] >= Window) /\ age[k] \in Nat
        BY <1>1, <2>2, <3>2 DEF Limiter!Expired
      <4> QED BY <1>0, <4>1 DEF LimiterKey
    <3> QED BY <3>1, <3>2
  <2>9. k \in keys' /\ age'[k] < Window
    BY <1>0, <2>3, <2>4, <2>5, <2>8
  <2> DEFINE o == LimiterOwn(k)
  <2>10. LimiterOwn(k)' = (IF n <= l THEN n ELSE l) /\ o = (IF count[k] <= l THEN count[k] ELSE l)
    BY <2>5 DEF LimiterOwn
  <2> HIDE DEF l, p, S, n, a, o
  <2>11. LimiterKey(k)'
    <3> DEFINE q == passed'[k]  r == LimiterOwn(k)'
    <3> SUFFICES /\ OldestFirst(q) /\ r >= 1 /\ r <= Len(q) /\ Len(q) < r + l
                 /\ q[Len(q) - r + 1] = age'[k]
      BY <1>0, <2>3, <2>5, <2>9 DEF LimiterKey, l
    <3>1. CASE Limiter!Expired(k)
      <4>1. n = 1 /\ a = 0 /\ n <= l /\ Len(p) < l
        BY <1>0, <2>3, <2>8, <3>1 DEF a, p, l
      <4>2. q = Append(p, 0) /\ r = 1
        BY <2>7, <2>10, <4>1
      <4>3. Len(q) = Len(p) + 1 /\ Len(q) - r + 1 = Len(p) + 1
        BY <2>2, <2>6, <4>2
      <4> QED BY <1>0, <2>2, <2>5, <2>6, <4>1, <4>2, <4>3
    <3>2. CASE ~Limiter!Expired(k)
      <4>1. a = age[k] /\ o >= 1 /\ o <= Len(p) /\ Len(p) < o + l /\ p[Len(p) - o + 1] = age[k]
        BY <2>8, <3>2 DEF a, o, p, l
      <4>2. CASE count[k] < l
        <5>1. o = count[k] /\ n = count[k] + 1 /\ n <= l
          BY <1>0, <2>2, <2>3, <2>10, <3>2, <4>2
        <5>2. q = Append(p, 0) /\ r = o + 1
          BY <2>7, <2>10, <5>1
        <5>3. Len(q) = Len(p) + 1 /\ Len(q) - r + 1 = Len(p) - o + 1 /\ Len(p) - o + 1 \in 1..Len(p)
          <6>1. Len(q) = Len(p) + 1 /\ Len(p) \in Nat /\ o \in Nat
            BY <2>2, <2>6, <5>1, <5>2
          <6> HIDE DEF q, r
          <6> QED BY <4>1, <5>2, <6>1
        <5>4. q[Len(q) - r + 1] = age'[k]
          BY <2>5, <2>6, <4>1, <5>2, <5>3
        <5>5. l \in Nat /\ Len(p) \in Nat /\ o \in Nat /\ OldestFirst(q)
          BY <1>0, <2>2, <2>6, <5>1, <5>2
        <5>6. r >= 1 /\ r <= Len(q) /\ Len(q) < r + l
          <6> HIDE DEF q, r
          <6> QED BY <4>1, <5>2, <5>3, <5>5
        <5> QED BY <5>4, <5>5, <5>6
      <4>3. CASE ~(count[k] < l)
        <5>1. o = l /\ n = l + 1
          BY <1>0, <2>2, <2>3, <2>10, <3>2, <4>3
        <5>2. q = p /\ r = l
          BY <1>0, <2>7, <2>10, <5>1
        <5> QED BY <2>2, <2>5, <4>1, <5>1, <5>2
      <4> QED BY <4>2, <4>3
    <3> QED BY <3>1, <3>2
  <2>12. ASSUME NEW j \in Limiter!Key PROVE LimiterKey(j)'
    <3>1. CASE j = k
      BY <2>11, <3>1
    <3>2. CASE j # k
      BY <2>1, <2>3, <2>4, <2>7, <3>2, LimiterOthers DEF S, l
    <3> QED BY <3>1, <3>2
  <2>13. LimiterTypes'
    <3>1. refused' \subseteq Limiter!Key
      BY <2>1
    <3> QED BY <2>1, <2>3, <2>4, <2>7, <3>1, LimiterStored DEF l
  <2>14. LimiterRefuses'
    <3>1. CASE n <= l
      BY <2>1, <3>1 DEF LimiterRefuses
    <3>2. CASE ~(n <= l)
      <4>1. refused' = {k} /\ count'[k] > l
        BY <1>0, <2>1, <2>3, <2>5, <3>2
      <4> QED BY <2>9, <4>1 DEF LimiterRefuses, l
    <3> QED BY <3>1, <3>2
  <2> QED BY <2>12, <2>13, <2>14 DEF LimiterInv
<1> QED BY <1>2, <1>3

\* Every step of RateLimiter keeps the invariant.
LEMMA LimiterStep == ASSUME LimiterInv, [Limiter!Next]_(Limiter!vars) PROVE LimiterInv'
<1>1. CASE UNCHANGED Limiter!vars
  <2>1. UNCHANGED <<keys, age, count, swept, passed, refused>>
    BY <1>1 DEF Limiter!vars
  <2>2. \A k \in Limiter!Key : LimiterKey(k)'
    BY <2>1 DEF LimiterInv, LimiterKey, LimiterOwn
  <2> QED BY <2>1, <2>2 DEF LimiterInv, LimiterTypes, LimiterRefuses
<1>2. CASE Limiter!Next
  BY <1>2, LimiterTick, LimiterCheck DEF Limiter!Next
<1> QED BY <1>1, <1>2

\* A behaviour about RateLimiter takes its steps and no others.
LEMMA LimiterPart ==
  ASSUME part = "limiter", [Next]_vars
  PROVE  [Limiter!Next]_(Limiter!vars)
<1>1. CASE Next
  BY <1>1 DEF Next
<1>2. CASE UNCHANGED vars
  <2>1. UNCHANGED <<keys, age, count, swept, passed, refused>>
    BY <1>2, Zenon DEF vars
  <2> QED BY <2>1 DEF Limiter!vars
<1> QED BY <1>1, <1>2

\* It starts as RateLimiter does.
LEMMA LimiterStart == ASSUME Init, part = "limiter" PROVE Limiter!Init
  BY DEF Init

\* In a window's time fewer requests of a key are let through than twice its
\* limit, and one is refused only when its key has had its share, or is new
\* while the map is full (RateLimiter::check).
THEOREM SafetyOfLimiter == Spec => []LimitsFair
<1> DEFINE I == part = "limiter" => LimiterInv
<1>1. Init => I
  BY LimiterStart, LimiterInit
<1>2. I /\ [Next]_vars => I'
  <2> SUFFICES ASSUME I, [Next]_vars, part' = "limiter" PROVE (LimiterInv)'
    OBVIOUS
  <2> QED BY PartStays, LimiterPart, LimiterStep
<1>3. I => LimitsFair
  BY LimiterFair DEF LimitsFair, LimiterInv
<1> QED BY <1>1, <1>2, <1>3, PTL DEF Spec

------------------------------------------------------------------------------
(* DashboardLogin: every guess has a failure that is counted and no older,  *)
(* but for the guesses of the calls that have yet to count theirs; and      *)
(* whoever sets a password is alone, or one was replaced.                   *)

\* The instance counts as FiniteSets does.
LEMMA LoginCardinality == \A S : Login!Cardinality(S) = Cardinality(S)
  BY DEF Login!Cardinality, Cardinality

\* What is left of a window's times: those at the end.
LEMMA LoginWithin ==
  ASSUME NEW a \in Seq(0..Window), OldestFirst(a)
  PROVE  \E n \in 0..Len(a) :
           /\ \A i \in DOMAIN a : i <= n <=> a[i] = Window
           /\ Login!Within(a) \in Seq(0..Window) /\ Len(Login!Within(a)) = Len(a) - n
           /\ \A i \in 1..(Len(a) - n) : Login!Within(a)[i] = a[n + i]
           /\ OldestFirst(Login!Within(a))
           /\ \A i \in DOMAIN Login!Within(a) : Login!Within(a)[i] < Window
<1>0. /\ Window \in Nat \ {0} /\ Len(a) \in Nat /\ DOMAIN a = 1..Len(a)
      /\ \A i \in DOMAIN a : a[i] \in 0..Window
  BY LoginAssumption
<1>1. a \in Seq(Nat)
  BY <1>0
<1>2. PICK n \in 0..Len(a) : /\ Cardinality({i \in DOMAIN a : a[i] >= Window}) = n
                            /\ \A i \in DOMAIN a : i <= n <=> a[i] >= Window
  BY <1>0, <1>1, OldestAtFront
<1>3. Login!Cardinality({i \in DOMAIN a : a[i] >= Window}) = n
  BY <1>2, LoginCardinality
<1> DEFINE w == SubSeq(a, n + 1, Len(a))
<1>4. Login!Within(a) = w
  BY <1>3 DEF Login!Within
<1>5. /\ w \in Seq(0..Window) /\ Len(w) = Len(a) - n
      /\ \A i \in 1..(Len(a) - n) : w[i] = a[n + i]
  <2>1. n + 1 \in 1..(Len(a) + 1) /\ n \in Nat
    BY <1>0
  <2>2. \A i \in (n + 1)..Len(a) : a[i] \in 0..Window
    BY <1>0
  <2>3. Len(w) = IF n + 1 <= Len(a) THEN Len(a) - (n + 1) + 1 ELSE 0
    BY <1>0, <2>1
  <2>4. w \in Seq(0..Window)
    BY <1>0, <2>1, <2>2
  <2>5. ASSUME NEW i \in 1..(Len(a) - n) PROVE w[i] = a[n + i]
    <3>1. i \in 1..(Len(a) - (n + 1) + 1) /\ (n + 1) + i - 1 = n + i
      BY <1>0, <2>1
    <3>2. w[i] = a[(n + 1) + i - 1]
      BY <1>0, <2>1, <3>1
    <3> QED BY <3>1, <3>2
  <2>6. Len(w) = Len(a) - n
    <3> HIDE DEF w
    <3>1. CASE n + 1 <= Len(a)
      BY <1>0, <2>1, <2>3, <3>1
    <3>2. CASE ~(n + 1 <= Len(a))
      <4>1. n = Len(a)
        <5>1. ASSUME NEW k \in Nat, n \in 0..k, ~(n + 1 <= k) PROVE n = k
          BY <5>1
        <5>2. Len(a) \in Nat
          BY <1>0
        <5> QED BY <3>2, <5>1, <5>2
      <4> QED BY <1>0, <2>3, <3>2, <4>1
    <3> QED BY <3>1, <3>2
  <2> QED BY <2>4, <2>5, <2>6
<1> HIDE DEF w
<1>6. DOMAIN w = 1..(Len(a) - n) /\ \A i \in 1..(Len(a) - n) : n + i \in DOMAIN a /\ ~(n + i <= n)
  BY <1>0, <1>5
<1>7. OldestFirst(w)
  <2> SUFFICES ASSUME NEW i \in 1..(Len(a) - n), NEW j \in 1..(Len(a) - n), i <= j
               PROVE  w[j] <= w[i]
    BY <1>6 DEF OldestFirst
  <2>1. n + i \in DOMAIN a /\ n + j \in DOMAIN a /\ n + i <= n + j
    BY <1>6
  <2> QED BY <1>5, <2>1 DEF OldestFirst
<1>8. ASSUME NEW i \in DOMAIN w PROVE w[i] < Window
  <2>1. i \in 1..(Len(a) - n) /\ n + i \in DOMAIN a /\ ~(n + i <= n)
    BY <1>6
  <2>2. ~(a[n + i] >= Window) /\ a[n + i] \in 0..Window
    BY <1>0, <1>2, <2>1
  <2> QED BY <1>0, <1>5, <2>1, <2>2
<1>9. \A i \in DOMAIN a : i <= n <=> a[i] = Window
  BY <1>0, <1>2
<1> QED BY <1>4, <1>5, <1>7, <1>8, <1>9

\* The guesses g have failures a to match, all but f of them, and the failures
\* are no older than their guesses.
Matched(a, g, f) ==
  /\ a \in Seq(0..Window) /\ g \in Seq(0..Window) /\ f \in Nat
  /\ OldestFirst(a) /\ OldestFirst(g) /\ \A i \in DOMAIN g : g[i] < Window
  /\ Len(g) <= Len(a) + f
  /\ \A j \in Nat : j + f < Len(g) => a[Len(a) - j] <= g[Len(g) - f - j]

\* Nobody has guessed.
LEMMA MatchedNone ==
  ASSUME NEW f \in Nat
  PROVE  Matched(<< >>, << >>, f) /\ Len(Login!Within(<< >>)) = 0
<1>1. << >> \in Seq(0..Window) /\ OldestFirst(<< >>) /\ Len(<< >>) = 0
  BY DEF OldestFirst
<1>2. Len(Login!Within(<< >>)) = 0
  <2>1. PICK n \in 0..Len(<< >>) : Len(Login!Within(<< >>)) = Len(<< >>) - n
    BY <1>1, LoginWithin
  <2> QED BY <1>1, <2>1
<1>3. \A j \in Nat : ~(j + f < 0)
  OBVIOUS
<1> QED BY <1>1, <1>2, <1>3 DEF Matched

\* A guess waits for its failure to be counted.
LEMMA MatchedGuess ==
  ASSUME NEW a, NEW g, NEW f, Matched(a, g, f)
  PROVE  Matched(a, Append(g, 0), f + 1)
<1> DEFINE h == Append(g, 0)
<1>0. /\ Window \in Nat \ {0} /\ f \in Nat /\ a \in Seq(0..Window) /\ g \in Seq(0..Window)
      /\ Len(a) \in Nat /\ Len(g) \in Nat /\ Len(g) <= Len(a) + f /\ DOMAIN g = 1..Len(g)
  BY LoginAssumption DEF Matched
<1>1. /\ h \in Seq(0..Window) /\ OldestFirst(h) /\ Len(h) = Len(g) + 1 /\ h[Len(g) + 1] = 0
      /\ \A i \in 1..Len(g) : h[i] = g[i]
  BY <1>0, NowLast DEF Matched
<1> HIDE DEF h
<1>2. ASSUME NEW i \in DOMAIN h PROVE h[i] < Window
  <2>1. i \in 1..(Len(g) + 1)
    BY <1>1
  <2>2. CASE i \in 1..Len(g)
    BY <1>0, <1>1, <2>2 DEF Matched
  <2>3. CASE i = Len(g) + 1
    BY <1>0, <1>1, <2>3
  <2> QED BY <1>0, <2>1, <2>2, <2>3
<1>3. ASSUME NEW j \in Nat, j + (f + 1) < Len(h)
      PROVE  a[Len(a) - j] <= h[Len(h) - (f + 1) - j]
  <2>1. j + f < Len(g) /\ Len(h) - (f + 1) - j = Len(g) - f - j /\ Len(g) - f - j \in 1..Len(g)
    <3> DEFINE l == Len(g)  m == Len(h)
    <3>1. l \in Nat /\ m = l + 1 /\ f \in Nat /\ j + (f + 1) < m
      BY <1>0, <1>1, <1>3
    <3> HIDE DEF l, m
    <3>2. j + f < l /\ m - (f + 1) - j = l - f - j /\ l - f - j \in 1..l
      BY <3>1
    <3> QED BY <3>2 DEF l, m
  <2>2. a[Len(a) - j] <= g[Len(g) - f - j]
    BY <2>1 DEF Matched
  <2> QED BY <1>1, <2>1, <2>2
<1>4. f + 1 \in Nat /\ Len(h) <= Len(a) + (f + 1)
  BY <1>0, <1>1
<1> QED BY <1>0, <1>1, <1>2, <1>3, <1>4 DEF Matched, h

\* A failure is counted: it is younger than the guess it is for.
LEMMA MatchedRecord ==
  ASSUME NEW a, NEW g, NEW f, Matched(a, g, f), f # 0
  PROVE  /\ Matched(Append(a, 0), g, f - 1)
         /\ Len(Login!Within(Append(a, 0))) = Len(Login!Within(a)) + 1
<1> DEFINE b == Append(a, 0)
<1>0. /\ Window \in Nat \ {0} /\ f \in Nat /\ a \in Seq(0..Window) /\ g \in Seq(0..Window)
      /\ Len(a) \in Nat /\ Len(g) \in Nat /\ Len(g) <= Len(a) + f /\ DOMAIN g = 1..Len(g)
      /\ DOMAIN a = 1..Len(a) /\ OldestFirst(a)
  BY LoginAssumption DEF Matched
<1>1. /\ b \in Seq(0..Window) /\ OldestFirst(b) /\ Len(b) = Len(a) + 1 /\ b[Len(a) + 1] = 0
      /\ \A i \in 1..Len(a) : b[i] = a[i]
  BY <1>0, NowLast
<1> HIDE DEF b
<1>2. ASSUME NEW j \in Nat, j + (f - 1) < Len(g)
      PROVE  b[Len(b) - j] <= g[Len(g) - (f - 1) - j]
  <2>1. CASE j = 0
    <3>1. Len(g) - (f - 1) - j \in DOMAIN g
      BY <1>0, <1>2, <2>1
    <3>2. g[Len(g) - (f - 1) - j] \in Nat
      BY <1>0, <3>1
    <3>3. Len(b) - j = Len(a) + 1
      BY <1>0, <1>1, <2>1
    <3> QED BY <1>1, <3>2, <3>3
  <2>2. CASE j # 0
    <3>1. /\ j - 1 \in Nat /\ (j - 1) + f < Len(g) /\ Len(g) - (f - 1) - j = Len(g) - f - (j - 1)
          /\ Len(b) - j = Len(a) - (j - 1) /\ Len(a) - (j - 1) \in 1..Len(a)
      BY <1>0, <1>1, <1>2, <2>2
    <3>2. a[Len(a) - (j - 1)] <= g[Len(g) - f - (j - 1)]
      BY <3>1 DEF Matched
    <3> QED BY <1>1, <3>1, <3>2
  <2> QED BY <2>1, <2>2
<1>3. f - 1 \in Nat /\ Len(g) <= Len(b) + (f - 1)
  BY <1>0, <1>1
<1>4. Len(Login!Within(b)) = Len(Login!Within(a)) + 1
  <2>1. PICK n \in 0..Len(a) : /\ \A i \in DOMAIN a : i <= n <=> a[i] = Window
                              /\ Len(Login!Within(a)) = Len(a) - n
    BY <1>0, LoginWithin
  <2>2. PICK m \in 0..Len(b) : /\ \A i \in DOMAIN b : i <= m <=> b[i] = Window
                              /\ Len(Login!Within(b)) = Len(b) - m
    BY <1>1, LoginWithin
  <2>3. \A i \in 1..Len(a) : i <= m <=> i <= n
    <3>1. \A i \in 1..Len(a) : i \in DOMAIN a /\ i \in DOMAIN b
      BY <1>0, <1>1
    <3> QED BY <1>1, <2>1, <2>2, <3>1
  <2>4. ~(Len(a) + 1 <= m)
    <3>1. Len(a) + 1 \in DOMAIN b
      BY <1>0, <1>1
    <3> QED BY <1>0, <1>1, <2>2, <3>1
  <2>5. m = n
    <3>1. m \in 0..Len(a) /\ n \in 0..Len(a)
      BY <1>0, <1>1, <2>4
    <3>2. m # 0 => m <= n
      BY <1>0, <2>3, <3>1
    <3>3. n # 0 => n <= m
      BY <1>0, <2>3, <3>1
    <3> QED BY <3>1, <3>2, <3>3
  <2> QED BY <1>0, <1>1, <2>1, <2>2, <2>5
<1> QED BY <1>0, <1>1, <1>2, <1>3, <1>4 DEF Matched, b

\* Failures that are older than the window match no guess.
LEMMA MatchedRecent ==
  ASSUME NEW a, NEW g, NEW f, Matched(a, g, f)
  PROVE  /\ Matched(Login!Within(a), g, f)
         /\ Len(Login!Within(Login!Within(a))) = Len(Login!Within(a))
         /\ Len(Login!Within(a)) \in Nat
<1> DEFINE w == Login!Within(a)
<1>0. /\ Window \in Nat \ {0} /\ f \in Nat /\ a \in Seq(0..Window) /\ g \in Seq(0..Window)
      /\ Len(a) \in Nat /\ Len(g) \in Nat /\ Len(g) <= Len(a) + f /\ DOMAIN g = 1..Len(g)
      /\ DOMAIN a = 1..Len(a) /\ OldestFirst(a) /\ \A i \in DOMAIN a : a[i] \in 0..Window
  BY LoginAssumption DEF Matched
<1>1. PICK n \in 0..Len(a) :
        /\ \A i \in DOMAIN a : i <= n <=> a[i] = Window
        /\ w \in Seq(0..Window) /\ Len(w) = Len(a) - n
        /\ \A i \in 1..(Len(a) - n) : w[i] = a[n + i]
        /\ OldestFirst(w)
        /\ \A i \in DOMAIN w : w[i] < Window
  BY <1>0, LoginWithin
<1> HIDE DEF w
<1>2. ASSUME NEW j \in Nat, j + f < Len(g)
      PROVE  /\ Len(a) - n > j
             /\ w[Len(w) - j] <= g[Len(g) - f - j]
  <2>1. a[Len(a) - j] <= g[Len(g) - f - j]
    BY <1>2 DEF Matched
  <2>2. Len(g) - f - j \in DOMAIN g /\ Len(a) - j \in DOMAIN a
    BY <1>0, <1>2
  <2>3. g[Len(g) - f - j] < Window /\ g[Len(g) - f - j] \in 0..Window
    <3>1. /\ \A i \in DOMAIN g : g[i] < Window
          /\ \A i \in DOMAIN g : g[i] \in 0..Window
      BY <1>0 DEF Matched
    <3> QED BY <2>2, <3>1
  <2>4. a[Len(a) - j] # Window
    BY <1>0, <2>1, <2>2, <2>3
  <2>5. ~(Len(a) - j <= n)
    BY <1>1, <2>2, <2>4
  <2>6. Len(w) - j \in 1..(Len(a) - n) /\ n + (Len(w) - j) = Len(a) - j /\ Len(a) - n > j
    BY <1>0, <1>1, <2>5
  <2> QED BY <1>1, <2>1, <2>6
<1>3. Len(g) <= Len(w) + f
  <2>1. CASE Len(g) <= f
    BY <1>0, <1>1, <2>1
  <2>2. CASE ~(Len(g) <= f)
    <3>1. Len(g) - f - 1 \in Nat /\ (Len(g) - f - 1) + f < Len(g)
      BY <1>0, <2>2
    <3>2. Len(a) - n > Len(g) - f - 1
      BY <1>2, <3>1
    <3> QED BY <1>0, <1>1, <3>2
  <2> QED BY <2>1, <2>2
<1>4. Len(Login!Within(w)) = Len(w)
  <2>1. PICK m \in 0..Len(w) : /\ \A i \in DOMAIN w : i <= m <=> w[i] = Window
                              /\ Len(Login!Within(w)) = Len(w) - m
    BY <1>1, LoginWithin
  <2>2. m # 0 => 1 \in DOMAIN w /\ 1 <= m
    BY <1>1, <2>1
  <2>3. 1 \in DOMAIN w => ~(1 <= m)
    BY <1>0, <1>1, <2>1
  <2>4. m = 0
    BY <2>2, <2>3
  <2> QED BY <1>1, <2>1, <2>4
<1>5. Len(w) \in Nat
  BY <1>1
<1> QED BY <1>0, <1>1, <1>2, <1>3, <1>4, <1>5 DEF Matched, w

\* Times a tick later, none of them more than a window's time.
LEMMA LoginLater ==
  ASSUME NEW a \in Seq(0..Window), OldestFirst(a)
  PROVE  /\ Login!Later(a) \in Seq(0..Window) /\ Len(Login!Later(a)) = Len(a)
         /\ \A i \in 1..Len(a) : Login!Later(a)[i] = IF a[i] < Window THEN a[i] + 1 ELSE Window
         /\ OldestFirst(Login!Later(a))
<1> DEFINE b == [i \in 1..Len(a) |-> IF a[i] < Window THEN a[i] + 1 ELSE Window]
<1>0. /\ Window \in Nat \ {0} /\ Len(a) \in Nat /\ DOMAIN a = 1..Len(a)
      /\ \A i \in DOMAIN a : a[i] \in 0..Window
  BY LoginAssumption
<1>1. Login!Later(a) = b
  BY <1>0 DEF Login!Later
<1>2. b \in [1..Len(a) -> 0..Window]
  BY <1>0
<1>3. b \in Seq(0..Window) /\ Len(b) = Len(a) /\ DOMAIN b = 1..Len(a)
  <2> HIDE DEF b
  <2> QED BY <1>0, <1>2, FunctionToSeq
<1>4. \A i \in 1..Len(a) : b[i] = IF a[i] < Window THEN a[i] + 1 ELSE Window
  OBVIOUS
<1> HIDE DEF b
<1>5. OldestFirst(b)
  <2> SUFFICES ASSUME NEW i \in 1..Len(a), NEW j \in 1..Len(a), i <= j
               PROVE  b[j] <= b[i]
    BY <1>3 DEF OldestFirst
  <2>1. a[j] <= a[i] /\ a[i] \in 0..Window /\ a[j] \in 0..Window
    BY <1>0 DEF OldestFirst
  <2> QED BY <1>0, <1>4, <2>1
<1> QED BY <1>1, <1>3, <1>4, <1>5

\* A tick later the guesses that leave the window leave failures that do.
LEMMA MatchedTick ==
  ASSUME NEW a, NEW g, NEW f, Matched(a, g, f)
  PROVE  /\ Matched(Login!Later(a), Login!Within(Login!Later(g)), f)
         /\ Len(Login!Within(Login!Later(a))) <= Len(Login!Within(a))
<1> DEFINE b == Login!Later(a)  h == Login!Later(g)  w == Login!Within(h)
<1>0. /\ Window \in Nat \ {0} /\ f \in Nat /\ a \in Seq(0..Window) /\ g \in Seq(0..Window)
      /\ Len(a) \in Nat /\ Len(g) \in Nat /\ Len(g) <= Len(a) + f /\ DOMAIN g = 1..Len(g)
      /\ DOMAIN a = 1..Len(a) /\ OldestFirst(a) /\ OldestFirst(g)
      /\ \A i \in DOMAIN a : a[i] \in 0..Window
      /\ \A i \in DOMAIN g : g[i] \in 0..Window
  BY LoginAssumption DEF Matched
<1>1. /\ b \in Seq(0..Window) /\ Len(b) = Len(a)
      /\ \A i \in 1..Len(a) : b[i] = IF a[i] < Window THEN a[i] + 1 ELSE Window
      /\ OldestFirst(b)
  BY <1>0, LoginLater
<1>2. /\ h \in Seq(0..Window) /\ Len(h) = Len(g)
      /\ \A i \in 1..Len(g) : h[i] = IF g[i] < Window THEN g[i] + 1 ELSE Window
      /\ OldestFirst(h)
  BY <1>0, LoginLater
<1>3. PICK n \in 0..Len(h) :
        /\ w \in Seq(0..Window) /\ Len(w) = Len(h) - n
        /\ \A i \in 1..(Len(h) - n) : w[i] = h[n + i]
        /\ OldestFirst(w)
        /\ \A i \in DOMAIN w : w[i] < Window
  BY <1>2, LoginWithin
<1> HIDE DEF b, h, w
<1>4. ASSUME NEW j \in Nat, j + f < Len(w) PROVE b[Len(b) - j] <= w[Len(w) - f - j]
  <2>1. /\ j + f < Len(g) /\ Len(g) - f - j \in 1..Len(g) /\ Len(a) - j \in 1..Len(a)
        /\ Len(w) - f - j \in 1..(Len(h) - n) /\ n + (Len(w) - f - j) = Len(g) - f - j
        /\ Len(b) - j = Len(a) - j
    <3>1. Len(b) = Len(a) /\ Len(h) = Len(g) /\ Len(w) = Len(h) - n
      BY <1>1, <1>2, <1>3
    <3>2. Len(w) = Len(g) - n /\ n \in 0..Len(g) /\ j + f < Len(g) - n
      BY <1>3, <1>4, <3>1
    <3> DEFINE lw == Len(w)  lg == Len(g)  la == Len(a)  lh == Len(h)  lb == Len(b)
    <3>3. /\ lw = lg - n /\ n \in 0..lg /\ j + f < lg - n /\ lg <= la + f /\ f \in Nat
          /\ la \in Nat /\ lg \in Nat /\ lb = la /\ lh = lg /\ j \in Nat
      BY <1>0, <3>1, <3>2
    <3> HIDE DEF lw, lg, la, lh, lb
    <3>4. /\ j + f < lg /\ lg - f - j \in 1..lg /\ la - j \in 1..la
          /\ lw - f - j \in 1..(lh - n) /\ n + (lw - f - j) = lg - f - j
          /\ lb - j = la - j
      BY <3>3
    <3> QED BY <3>4 DEF lw, lg, la, lh, lb
  <2>2. a[Len(a) - j] <= g[Len(g) - f - j]
    BY <2>1 DEF Matched
  <2> DEFINE x == a[Len(a) - j]  y == g[Len(g) - f - j]
  <2>3. x \in 0..Window /\ y \in 0..Window /\ x <= y
    BY <1>0, <2>1, <2>2
  <2>4. /\ b[Len(b) - j] = IF x < Window THEN x + 1 ELSE Window
        /\ w[Len(w) - f - j] = IF y < Window THEN y + 1 ELSE Window
    <3>1. b[Len(a) - j] = IF x < Window THEN x + 1 ELSE Window
      BY <1>1, <2>1
    <3>2. w[Len(w) - f - j] = h[Len(g) - f - j]
      BY <1>3, <2>1
    <3>3. h[Len(g) - f - j] = IF y < Window THEN y + 1 ELSE Window
      BY <1>2, <2>1
    <3> QED BY <2>1, <3>1, <3>2, <3>3
  <2> HIDE DEF x, y
  <2> QED BY <1>0, <2>3, <2>4
<1>5. Len(w) <= Len(b) + f
  BY <1>0, <1>1, <1>2, <1>3
<1>6. Len(Login!Within(b)) <= Len(Login!Within(a))
  <2>1. PICK k \in 0..Len(a) : /\ \A i \in DOMAIN a : i <= k <=> a[i] = Window
                              /\ Len(Login!Within(a)) = Len(a) - k
    BY <1>0, LoginWithin
  <2>2. PICK m \in 0..Len(b) : /\ \A i \in DOMAIN b : i <= m <=> b[i] = Window
                              /\ Len(Login!Within(b)) = Len(b) - m
    BY <1>1, LoginWithin
  <2>3. k # 0 => k <= m
    <3> SUFFICES ASSUME k # 0 PROVE k <= m
      OBVIOUS
    <3>1. k \in DOMAIN a /\ k \in DOMAIN b /\ k <= k
      BY <1>0, <1>1, <2>1
    <3>2. b[k] = Window
      BY <1>0, <1>1, <2>1, <3>1
    <3> QED BY <2>2, <3>1, <3>2
  <2> QED BY <1>0, <1>1, <2>1, <2>2, <2>3
<1> QED BY <1>0, <1>1, <1>3, <1>4, <1>5, <1>6 DEF Matched, b, h, w

\* The clients at one of the places S, when p says where each is.
LoginAt(p, S) == {c \in Viewer : p[c] \in S}
\* Where a call can be.
LoginPlaces == {"idle", "login", "load", "verify", "failed", "unlock", "open", "shut", "setup",
                "file", "memory", "configure", "make", "dashboard"}

\* The calls that have guessed wrong, and those that were let through.
FailedAt(k) == IF k = "login" THEN {"failed"} ELSE {"shut"}
ThroughAt(k) == IF k = "login" THEN {"load", "verify", "failed"} ELSE {"open", "shut"}

\* f clients have guessed wrong and t have been let through, those f among them.
GuessBudget(a, g, f, t) ==
  /\ Matched(a, g, f) /\ t \in Nat /\ f <= t
  /\ Len(Login!Within(a)) + t <= Quota + Cardinality(Viewer) - 1

\* How many clients are somewhere.
LEMMA LoginClients ==
  ASSUME NEW p
  PROVE  /\ Cardinality(Viewer) \in Nat \ {0} /\ Quota \in Nat
         /\ \A S : /\ IsFiniteSet(LoginAt(p, S)) /\ Cardinality(LoginAt(p, S)) \in 0..Cardinality(Viewer)
                  /\ \A c \in Viewer : p[c] \notin S => Cardinality(LoginAt(p, S)) < Cardinality(Viewer)
<1>0. IsFiniteSet(Viewer) /\ Viewer # {} /\ Quota \in Nat
  BY LoginAssumption
<1>1. Cardinality(Viewer) \in Nat /\ Cardinality(Viewer) # 0
  BY <1>0, FS_CardinalityType, FS_EmptySet
<1>2. ASSUME NEW S
      PROVE  /\ IsFiniteSet(LoginAt(p, S)) /\ Cardinality(LoginAt(p, S)) \in 0..Cardinality(Viewer)
             /\ \A c \in Viewer : p[c] \notin S => Cardinality(LoginAt(p, S)) < Cardinality(Viewer)
  <2> DEFINE T == LoginAt(p, S)
  <2>0. T \in SUBSET Viewer /\ \A c \in Viewer : p[c] \notin S => c \notin T
    BY DEF LoginAt
  <2> HIDE DEF T
  <2>1. IsFiniteSet(T) /\ Cardinality(T) <= Cardinality(Viewer) /\ (Cardinality(Viewer) = Cardinality(T) => Viewer = T)
    BY <1>0, <2>0, FS_Subset
  <2>2. Cardinality(T) \in Nat
    BY <2>1, FS_CardinalityType
  <2>3. \A c \in Viewer : p[c] \notin S => Cardinality(T) < Cardinality(Viewer)
    BY <1>1, <2>0, <2>1, <2>2
  <2>4. Cardinality(T) \in 0..Cardinality(Viewer)
    BY <1>1, <2>1, <2>2
  <2> QED BY <2>1, <2>3, <2>4 DEF T
<1> QED BY <1>0, <1>1, <1>2

\* Nobody has guessed, and somebody is not at it.
LEMMA GuessBudgetNone ==
  ASSUME NEW f \in Nat, NEW t \in Nat, f <= t, t < Cardinality(Viewer)
  PROVE  GuessBudget(<< >>, << >>, f, t)
<1>1. Cardinality(Viewer) \in Nat /\ Quota \in Nat
  BY LoginClients
<1>2. Matched(<< >>, << >>, f) /\ Len(Login!Within(<< >>)) = 0
  BY MatchedNone
<1>3. 0 + t <= Quota + Cardinality(Viewer) - 1
  BY <1>1
<1> QED BY <1>2, <1>3 DEF GuessBudget

\* Every kind of step on a window's times keeps within the budget.
LEMMA GuessBudgetKept ==
  ASSUME NEW a, NEW g, NEW f, NEW t, GuessBudget(a, g, f, t)
  PROVE  /\ f < t => GuessBudget(a, Append(g, 0), f + 1, t)
         /\ f # 0 => GuessBudget(Append(a, 0), g, f - 1, t - 1)
         /\ GuessBudget(Login!Within(a), g, f, t)
         /\ f < t => GuessBudget(a, g, f, t - 1)
         /\ GuessBudget(Login!Later(a), Login!Within(Login!Later(g)), f, t)
         /\ Len(Login!Within(a)) < Quota /\ t < Cardinality(Viewer) => GuessBudget(Login!Within(a), g, f, t + 1)
         /\ Len(g) <= Quota + Cardinality(Viewer) - 1
<1> DEFINE l == Len(Login!Within(a))  C == Cardinality(Viewer)
<1>1. /\ Matched(a, g, f) /\ t \in Nat /\ f <= t /\ l + t <= Quota + C - 1
      /\ f \in Nat /\ C \in Nat /\ Quota \in Nat
  BY LoginClients DEF GuessBudget, Matched
<1>2. Matched(Login!Within(a), g, f) /\ Len(Login!Within(Login!Within(a))) = l /\ l \in Nat
  BY <1>1, MatchedRecent
<1>3. /\ Matched(Login!Later(a), Login!Within(Login!Later(g)), f)
      /\ Len(Login!Within(Login!Later(a))) <= l
  BY <1>1, MatchedTick
<1>4. Len(Login!Within(Login!Later(a))) \in Nat
  BY <1>3, MatchedRecent
<1>5. f < t => GuessBudget(a, Append(g, 0), f + 1, t)
  <2>1. Matched(a, Append(g, 0), f + 1)
    BY <1>1, MatchedGuess
  <2>2. f < t => f + 1 <= t
    BY <1>1
  <2> QED BY <1>1, <2>1, <2>2 DEF GuessBudget
<1>6. f # 0 => GuessBudget(Append(a, 0), g, f - 1, t - 1)
  <2> SUFFICES ASSUME f # 0 PROVE GuessBudget(Append(a, 0), g, f - 1, t - 1)
    OBVIOUS
  <2>1. Matched(Append(a, 0), g, f - 1) /\ Len(Login!Within(Append(a, 0))) = l + 1
    BY <1>1, MatchedRecord
  <2> HIDE DEF l, C
  <2>2. t - 1 \in Nat /\ f - 1 <= t - 1 /\ (l + 1) + (t - 1) <= Quota + C - 1
    BY <1>1, <1>2
  <2> QED BY <2>1, <2>2 DEF GuessBudget, C
<1>7. GuessBudget(Login!Within(a), g, f, t)
  BY <1>1, <1>2 DEF GuessBudget
<1>8. f < t => GuessBudget(a, g, f, t - 1)
  <2> SUFFICES ASSUME f < t PROVE GuessBudget(a, g, f, t - 1)
    OBVIOUS
  <2> HIDE DEF l, C
  <2>1. t - 1 \in Nat /\ f <= t - 1 /\ l + (t - 1) <= Quota + C - 1
    BY <1>1, <1>2
  <2> QED BY <1>1, <2>1 DEF GuessBudget, l, C
<1>9. GuessBudget(Login!Later(a), Login!Within(Login!Later(g)), f, t)
  <2> DEFINE b == Len(Login!Within(Login!Later(a)))
  <2>1. b <= l /\ b \in Nat
    BY <1>3, <1>4
  <2> HIDE DEF l, C, b
  <2>2. b + t <= Quota + C - 1
    BY <1>1, <1>2, <2>1
  <2> QED BY <1>1, <1>3, <2>2 DEF GuessBudget, C, b
<1>10. l < Quota /\ t < C => GuessBudget(Login!Within(a), g, f, t + 1)
  <2> SUFFICES ASSUME l < Quota, t < C PROVE GuessBudget(Login!Within(a), g, f, t + 1)
    OBVIOUS
  <2> HIDE DEF l, C
  <2>1. t + 1 \in Nat /\ f <= t + 1 /\ l + (t + 1) <= Quota + C - 1
    BY <1>1, <1>2
  <2>2. Matched(Login!Within(a), g, f) /\ Len(Login!Within(Login!Within(a))) = l
    BY <1>2
  <2> QED BY <2>1, <2>2 DEF GuessBudget, C
<1>11. Len(g) <= Quota + C - 1
  <2>1. Len(g) <= l + f /\ Len(g) \in Nat
    BY <1>2 DEF Matched
  <2> HIDE DEF l, C
  <2> QED BY <1>1, <1>2, <2>1
<1> QED BY <1>5, <1>6, <1>7, <1>8, <1>9, <1>10, <1>11

\* The variables of the dashboard's logins.
LoginTypes ==
  /\ file \in Password \union {None} /\ memory \in Password \union {None}
  /\ sessions \in Seq(Password)
  /\ attempts \in [Login!Kind -> Seq(0..Window)] /\ guesses \in [Login!Kind -> Seq(0..Window)]
  /\ pc \in [Viewer -> LoginPlaces] /\ job \in [Viewer -> Password \union {None}]
  /\ \A c \in Viewer : pc[c] # "idle" => job[c] \in Password
  /\ replaced \in BOOLEAN

\* Unless a password was replaced the one in memory is the file's, the
\* sessions are opened with it, and whoever is about to write the file, or
\* the memory, has nobody before it.
LoginOrder ==
  replaced = FALSE =>
    /\ memory \in {None, file}
    /\ \A i \in 1..Len(sessions) : sessions[i] = memory
    /\ \A c \in Viewer : (pc[c] = "file" => file = None) /\ (pc[c] = "memory" => file = job[c])

\* Both kinds keep within the budget.
LoginBudget ==
  \A k \in Login!Kind :
    GuessBudget(attempts[k], guesses[k], Cardinality(LoginAt(pc, FailedAt(k))), Cardinality(LoginAt(pc, ThroughAt(k))))

\* The invariant.
LoginInv == LoginTypes /\ LoginOrder /\ LoginBudget

\* A call that goes on from one place to another.
LoginMove(c, place) == pc' = [pc EXCEPT ![c] = place]

\* The kinds and the places of each, spelled out.
LEMMA LoginKinds ==
  /\ Login!Kind = {"login", "unlock"}
  /\ FailedAt("login") = {"failed"} /\ FailedAt("unlock") = {"shut"}
  /\ ThroughAt("login") = {"load", "verify", "failed"} /\ ThroughAt("unlock") = {"open", "shut"}
  BY DEF Login!Kind, FailedAt, ThroughAt

\* How their number changes when one client goes.
LEMMA LoginMoved ==
  ASSUME pc \in [Viewer -> LoginPlaces], NEW c \in Viewer, NEW place, LoginMove(c, place), NEW S
  PROVE  /\ (pc[c] \in S <=> place \in S) => Cardinality(LoginAt(pc', S)) = Cardinality(LoginAt(pc, S))
         /\ pc[c] \in S /\ place \notin S =>
              Cardinality(LoginAt(pc', S)) = Cardinality(LoginAt(pc, S)) - 1 /\ Cardinality(LoginAt(pc, S)) # 0
         /\ pc[c] \notin S /\ place \in S => Cardinality(LoginAt(pc', S)) = Cardinality(LoginAt(pc, S)) + 1
<1> DEFINE A == LoginAt(pc, S)  B == LoginAt(pc', S)
<1>1. /\ \A d \in Viewer : d # c => (d \in A <=> d \in B)
      /\ (c \in A <=> pc[c] \in S) /\ (c \in B <=> place \in S)
      /\ A \subseteq Viewer /\ B \subseteq Viewer
  <2>1. pc'[c] = place /\ \A d \in Viewer : d # c => pc'[d] = pc[d]
    BY DEF LoginMove
  <2> QED BY <2>1 DEF LoginAt
<1>2. IsFiniteSet(A) /\ Cardinality(A) \in Nat /\ IsFiniteSet(B)
  BY LoginClients
<1> HIDE DEF A, B
<1>3. ASSUME pc[c] \in S <=> place \in S PROVE Cardinality(B) = Cardinality(A)
  <2>1. A = B
    BY <1>1, <1>3
  <2> QED BY <2>1
<1>4. ASSUME pc[c] \in S, place \notin S
      PROVE  Cardinality(B) = Cardinality(A) - 1 /\ Cardinality(A) # 0
  <2>1. B = A \ {c} /\ c \in A
    BY <1>1, <1>4
  <2>2. Cardinality(B) = Cardinality(A) - 1
    BY <1>2, <2>1, FS_RemoveElement
  <2>3. Cardinality(A) # 0
    BY <1>2, <2>1, FS_EmptySet
  <2> QED BY <2>2, <2>3
<1>5. ASSUME pc[c] \notin S, place \in S PROVE Cardinality(B) = Cardinality(A) + 1
  <2>1. B = A \cup {c} /\ c \notin A
    BY <1>1, <1>5
  <2> QED BY <1>2, <2>1, FS_AddElement
<1> QED BY <1>3, <1>4, <1>5 DEF A, B

\* A step that changes nothing for a kind keeps its budget.
LEMMA LoginCalm ==
  ASSUME LoginInv, NEW c \in Viewer, NEW place, LoginMove(c, place), NEW k \in Login!Kind,
         attempts'[k] = attempts[k], guesses'[k] = guesses[k],
         pc[c] \in FailedAt(k) <=> place \in FailedAt(k),
         pc[c] \in ThroughAt(k) <=> place \in ThroughAt(k)
  PROVE  GuessBudget(attempts[k], guesses[k], Cardinality(LoginAt(pc, FailedAt(k))), Cardinality(LoginAt(pc, ThroughAt(k))))'
<1>1. pc \in [Viewer -> LoginPlaces]
  BY DEF LoginInv, LoginTypes
<1>2. /\ Cardinality(LoginAt(pc', FailedAt(k))) = Cardinality(LoginAt(pc, FailedAt(k)))
      /\ Cardinality(LoginAt(pc', ThroughAt(k))) = Cardinality(LoginAt(pc, ThroughAt(k)))
  <2>1. \A S : (pc[c] \in S <=> place \in S) => Cardinality(LoginAt(pc', S)) = Cardinality(LoginAt(pc, S))
    BY <1>1, LoginMoved
  <2>2. Cardinality(LoginAt(pc', FailedAt(k))) = Cardinality(LoginAt(pc, FailedAt(k)))
    BY <2>1
  <2>3. Cardinality(LoginAt(pc', ThroughAt(k))) = Cardinality(LoginAt(pc, ThroughAt(k)))
    BY <2>1
  <2> QED BY <2>2, <2>3
<1>3. GuessBudget(attempts[k], guesses[k], Cardinality(LoginAt(pc, FailedAt(k))), Cardinality(LoginAt(pc, ThroughAt(k))))
  BY DEF LoginInv, LoginBudget
<1>4. GuessBudget(attempts'[k], guesses'[k], Cardinality(LoginAt(pc', FailedAt(k))), Cardinality(LoginAt(pc', ThroughAt(k))))
  BY <1>2, <1>3
<1> QED BY <1>4 DEF LoginAt, FailedAt, ThroughAt, GuessBudget, Matched, OldestFirst, Login!Within

\* Whoever has guessed wrong was let through, and not everybody was if
\* somebody is elsewhere.
LEMMA LoginCounted ==
  ASSUME NEW p, NEW k \in Login!Kind
  PROVE  LET f == Cardinality(LoginAt(p, FailedAt(k)))  t == Cardinality(LoginAt(p, ThroughAt(k))) IN
         /\ f \in Nat /\ t \in Nat /\ f <= t
         /\ \A c \in Viewer : /\ p[c] \in FailedAt(k) => p[c] \in ThroughAt(k)
                              /\ p[c] \in ThroughAt(k) /\ p[c] \notin FailedAt(k) => f < t
                              /\ p[c] \notin ThroughAt(k) => t < Cardinality(Viewer)
<1> DEFINE A == LoginAt(p, FailedAt(k))  B == LoginAt(p, ThroughAt(k))
<1>1. A \in SUBSET B /\ \A x : x \in FailedAt(k) => x \in ThroughAt(k)
  BY LoginKinds DEF LoginAt
<1>2. \A c \in Viewer : p[c] \in ThroughAt(k) /\ p[c] \notin FailedAt(k) => c \in B /\ c \notin A
  BY DEF LoginAt
<1>3. IsFiniteSet(B) /\ Cardinality(A) \in Nat /\ Cardinality(B) \in Nat
  <2>1. IsFiniteSet(A) /\ IsFiniteSet(B)
    BY LoginClients
  <2> HIDE DEF A, B
  <2> QED BY <2>1, FS_CardinalityType
<1>4. \A c \in Viewer : p[c] \notin ThroughAt(k) => Cardinality(B) < Cardinality(Viewer)
  BY LoginClients
<1> HIDE DEF A, B
<1>5. Cardinality(A) <= Cardinality(B) /\ (Cardinality(A) = Cardinality(B) => A = B)
  BY <1>1, <1>3, FS_Subset
<1>6. \A c \in Viewer : p[c] \in ThroughAt(k) /\ p[c] \notin FailedAt(k) => Cardinality(A) < Cardinality(B)
  BY <1>2, <1>3, <1>5
<1> QED BY <1>1, <1>3, <1>4, <1>5, <1>6 DEF A, B

\* A step that does change something for a kind: a call is refused or let
\* through, guesses wrong, has it counted, or leaves, and a success forgets
\* them all.
LEMMA LoginTouched ==
  ASSUME LoginInv, NEW c \in Viewer, NEW place, LoginMove(c, place), NEW k \in Login!Kind,
         \/ /\ attempts'[k] = Login!Within(attempts[k]) /\ guesses'[k] = guesses[k]
            /\ pc[c] \notin ThroughAt(k) /\ place \notin ThroughAt(k)
         \/ /\ attempts'[k] = Login!Within(attempts[k]) /\ guesses'[k] = guesses[k]
            /\ Len(Login!Within(attempts[k])) < Quota
            /\ pc[c] \notin ThroughAt(k) /\ place \in ThroughAt(k) /\ place \notin FailedAt(k)
         \/ /\ attempts'[k] = attempts[k] /\ guesses'[k] = Append(guesses[k], 0)
            /\ pc[c] \in ThroughAt(k) /\ pc[c] \notin FailedAt(k) /\ place \in FailedAt(k)
         \/ /\ attempts'[k] = Append(attempts[k], 0) /\ guesses'[k] = guesses[k]
            /\ pc[c] \in FailedAt(k) /\ place \notin ThroughAt(k)
         \/ /\ attempts'[k] = attempts[k] /\ guesses'[k] = guesses[k]
            /\ pc[c] \in ThroughAt(k) /\ pc[c] \notin FailedAt(k) /\ place \notin ThroughAt(k)
         \/ /\ attempts'[k] = << >> /\ guesses'[k] = << >> /\ place \notin ThroughAt(k)
  PROVE  GuessBudget(attempts[k], guesses[k], Cardinality(LoginAt(pc, FailedAt(k))), Cardinality(LoginAt(pc, ThroughAt(k))))'
<1> DEFINE f == Cardinality(LoginAt(pc, FailedAt(k)))  t == Cardinality(LoginAt(pc, ThroughAt(k)))
           n == Cardinality(LoginAt(pc', FailedAt(k)))  m == Cardinality(LoginAt(pc', ThroughAt(k)))
<1>0. pc \in [Viewer -> LoginPlaces] /\ GuessBudget(attempts[k], guesses[k], f, t)
  BY DEF LoginInv, LoginTypes, LoginBudget
<1>1. pc'[c] = place /\ \A d \in Viewer : d # c => pc'[d] = pc[d]
  BY <1>0 DEF LoginMove
<1>2. /\ f \in Nat /\ t \in Nat /\ n \in Nat /\ m \in Nat /\ n <= m
      /\ pc[c] \in ThroughAt(k) /\ pc[c] \notin FailedAt(k) => f < t
      /\ pc[c] \notin ThroughAt(k) => t < Cardinality(Viewer)
      /\ place \notin ThroughAt(k) => m < Cardinality(Viewer)
  BY <1>1, LoginCounted
<1>3. /\ \A x : x \in FailedAt(k) => x \in ThroughAt(k)
  BY LoginKinds
<1>4. /\ (pc[c] \in FailedAt(k) <=> place \in FailedAt(k)) => n = f
      /\ (pc[c] \in FailedAt(k) /\ place \notin FailedAt(k)) => n = f - 1 /\ f # 0
      /\ (pc[c] \notin FailedAt(k) /\ place \in FailedAt(k)) => n = f + 1
      /\ (pc[c] \in ThroughAt(k) <=> place \in ThroughAt(k)) => m = t
      /\ (pc[c] \in ThroughAt(k) /\ place \notin ThroughAt(k)) => m = t - 1
      /\ (pc[c] \notin ThroughAt(k) /\ place \in ThroughAt(k)) => m = t + 1
  <2>1. /\ \A S : (pc[c] \in S <=> place \in S) => Cardinality(LoginAt(pc', S)) = Cardinality(LoginAt(pc, S))
        /\ \A S : pc[c] \in S /\ place \notin S =>
             Cardinality(LoginAt(pc', S)) = Cardinality(LoginAt(pc, S)) - 1 /\ Cardinality(LoginAt(pc, S)) # 0
        /\ \A S : pc[c] \notin S /\ place \in S => Cardinality(LoginAt(pc', S)) = Cardinality(LoginAt(pc, S)) + 1
    BY <1>0, LoginMoved
  <2>2. /\ (pc[c] \in FailedAt(k) <=> place \in FailedAt(k)) => n = f
        /\ (pc[c] \in FailedAt(k) /\ place \notin FailedAt(k)) => n = f - 1 /\ f # 0
        /\ (pc[c] \notin FailedAt(k) /\ place \in FailedAt(k)) => n = f + 1
    BY <2>1
  <2>3. /\ (pc[c] \in ThroughAt(k) <=> place \in ThroughAt(k)) => m = t
        /\ (pc[c] \in ThroughAt(k) /\ place \notin ThroughAt(k)) => m = t - 1
        /\ (pc[c] \notin ThroughAt(k) /\ place \in ThroughAt(k)) => m = t + 1
    BY <2>1
  <2> QED BY <2>2, <2>3
<1> HIDE DEF f, t, n, m
<1>5. GuessBudget(attempts'[k], guesses'[k], n, m)
  <2>1. CASE /\ attempts'[k] = Login!Within(attempts[k]) /\ guesses'[k] = guesses[k]
             /\ pc[c] \notin ThroughAt(k) /\ place \notin ThroughAt(k)
    <3>1. n = f /\ m = t
      BY <1>3, <1>4, <2>1
    <3>2. GuessBudget(Login!Within(attempts[k]), guesses[k], f, t)
      BY <1>0, GuessBudgetKept
    <3> QED BY <2>1, <3>1, <3>2
  <2>2. CASE /\ attempts'[k] = Login!Within(attempts[k]) /\ guesses'[k] = guesses[k]
             /\ Len(Login!Within(attempts[k])) < Quota
             /\ pc[c] \notin ThroughAt(k) /\ place \in ThroughAt(k) /\ place \notin FailedAt(k)
    <3>1. n = f /\ m = t + 1 /\ t < Cardinality(Viewer)
      BY <1>2, <1>3, <1>4, <2>2
    <3>2. GuessBudget(Login!Within(attempts[k]), guesses[k], f, t + 1)
      BY <1>0, <2>2, <3>1, GuessBudgetKept
    <3> QED BY <2>2, <3>1, <3>2
  <2>3. CASE /\ attempts'[k] = attempts[k] /\ guesses'[k] = Append(guesses[k], 0)
             /\ pc[c] \in ThroughAt(k) /\ pc[c] \notin FailedAt(k) /\ place \in FailedAt(k)
    <3>1. n = f + 1 /\ m = t /\ f < t
      BY <1>2, <1>3, <1>4, <2>3
    <3>2. GuessBudget(attempts[k], Append(guesses[k], 0), f + 1, t)
      BY <1>0, <3>1, GuessBudgetKept
    <3> QED BY <2>3, <3>1, <3>2
  <2>4. CASE /\ attempts'[k] = Append(attempts[k], 0) /\ guesses'[k] = guesses[k]
             /\ pc[c] \in FailedAt(k) /\ place \notin ThroughAt(k)
    <3>1. n = f - 1 /\ m = t - 1 /\ f # 0
      BY <1>2, <1>3, <1>4, <2>4
    <3>2. GuessBudget(Append(attempts[k], 0), guesses[k], f - 1, t - 1)
      BY <1>0, <3>1, GuessBudgetKept
    <3> QED BY <2>4, <3>1, <3>2
  <2>5. CASE /\ attempts'[k] = attempts[k] /\ guesses'[k] = guesses[k]
             /\ pc[c] \in ThroughAt(k) /\ pc[c] \notin FailedAt(k) /\ place \notin ThroughAt(k)
    <3>1. n = f /\ m = t - 1 /\ f < t
      BY <1>2, <1>3, <1>4, <2>5
    <3>2. GuessBudget(attempts[k], guesses[k], f, t - 1)
      BY <1>0, <3>1, GuessBudgetKept
    <3> QED BY <2>5, <3>1, <3>2
  <2>6. CASE attempts'[k] = << >> /\ guesses'[k] = << >> /\ place \notin ThroughAt(k)
    <3>1. GuessBudget(<< >>, << >>, n, m)
      BY <1>2, <2>6, GuessBudgetNone
    <3> QED BY <2>6, <3>1
  <2> QED BY <2>1, <2>2, <2>3, <2>4, <2>5, <2>6
<1> QED BY <1>5 DEF n, m, LoginAt, FailedAt, ThroughAt, GuessBudget, Matched, OldestFirst, Login!Within

\* A handler that goes on, or ends, keeps the other ones' places and passwords.
LEMMA LoginGoes ==
  ASSUME LoginInv, NEW c \in Viewer, NEW place \in LoginPlaces, Login!Goto(c, place),
         \/ job' = job /\ pc[c] # "idle"
         \/ place = "idle" /\ job' = Login!Set(job, c, None)
         \/ \E p \in Password : job' = Login!Set(job, c, p)
  PROVE  /\ LoginMove(c, place) /\ pc' \in [Viewer -> LoginPlaces] /\ pc'[c] = place
         /\ job' \in [Viewer -> Password \union {None}]
         /\ \A d \in Viewer : pc'[d] # "idle" => job'[d] \in Password
         /\ \A d \in Viewer : d # c => pc'[d] = pc[d] /\ job'[d] = job[d]
<1>0. /\ pc \in [Viewer -> LoginPlaces] /\ job \in [Viewer -> Password \union {None}]
      /\ \A d \in Viewer : pc[d] # "idle" => job[d] \in Password
  BY DEF LoginInv, LoginTypes
<1>1. pc' = [pc EXCEPT ![c] = place]
  BY DEF Login!Goto, Login!Set
<1>2. pc' \in [Viewer -> LoginPlaces] /\ pc'[c] = place /\ \A d \in Viewer : d # c => pc'[d] = pc[d]
  BY <1>0, <1>1
<1>3. CASE job' = job /\ pc[c] # "idle"
  BY <1>0, <1>1, <1>2, <1>3 DEF LoginMove
<1>4. CASE place = "idle" /\ job' = Login!Set(job, c, None)
  <2>1. job' = [job EXCEPT ![c] = None]
    BY <1>4 DEF Login!Set
  <2>2. job' \in [Viewer -> Password \union {None}] /\ \A d \in Viewer : d # c => job'[d] = job[d]
    BY <1>0, <2>1
  <2> QED BY <1>0, <1>1, <1>2, <1>4, <2>2 DEF LoginMove
<1>5. CASE \E p \in Password : job' = Login!Set(job, c, p)
  <2>1. PICK p \in Password : job' = [job EXCEPT ![c] = p]
    BY <1>5 DEF Login!Set
  <2>2. /\ job' \in [Viewer -> Password \union {None}] /\ job'[c] = p
        /\ \A d \in Viewer : d # c => job'[d] = job[d]
    BY <1>0, <2>1
  <2> QED BY <1>0, <1>1, <1>2, <2>2 DEF LoginMove
<1> QED BY <1>3, <1>4, <1>5

\* A handler that ends.
LEMMA LoginEnds ==
  ASSUME LoginInv, NEW c \in Viewer, Login!Ended(c)
  PROVE  /\ LoginMove(c, "idle") /\ pc' \in [Viewer -> LoginPlaces] /\ pc'[c] = "idle"
         /\ job' \in [Viewer -> Password \union {None}]
         /\ \A d \in Viewer : pc'[d] # "idle" => job'[d] \in Password
         /\ \A d \in Viewer : d # c => pc'[d] = pc[d] /\ job'[d] = job[d]
<1>1. Login!Goto(c, "idle") /\ job' = Login!Set(job, c, None) /\ "idle" \in LoginPlaces
  BY DEF Login!Ended, LoginPlaces
<1> QED BY <1>1, LoginGoes

\* A step that leaves the counters alone, of a handler that was not let through
\* or has yet to look at the password.
LEMMA LoginQuiet ==
  ASSUME LoginInv, NEW c \in Viewer, NEW place, LoginMove(c, place), UNCHANGED <<attempts, guesses>>,
         pc[c] \notin {"failed", "shut", "open"}, place \notin {"failed", "shut", "open"},
         pc[c] \in {"load", "verify"} <=> place \in {"load", "verify"}
  PROVE  LoginBudget'
<1> SUFFICES ASSUME NEW k \in Login!Kind'
             PROVE  GuessBudget(attempts[k], guesses[k], Cardinality(LoginAt(pc, FailedAt(k))),
                           Cardinality(LoginAt(pc, ThroughAt(k))))'
  BY DEF LoginBudget
<1>1. k \in Login!Kind /\ attempts'[k] = attempts[k] /\ guesses'[k] = guesses[k]
  BY DEF Login!Kind
<1>2. (pc[c] \in FailedAt(k) <=> place \in FailedAt(k)) /\ (pc[c] \in ThroughAt(k) <=> place \in ThroughAt(k))
  BY <1>1, LoginKinds
<1> QED BY <1>1, <1>2, LoginCalm

\* A step that leaves both passwords and the sessions alone.
LEMMA LoginSame ==
  ASSUME LoginInv, NEW c \in Viewer, UNCHANGED <<file, memory, sessions, replaced>>,
         pc'[c] \notin {"file", "memory"},
         \A d \in Viewer : d # c => pc'[d] = pc[d] /\ job'[d] = job[d]
  PROVE  LoginOrder'
<1> SUFFICES ASSUME replaced' = FALSE
             PROVE  /\ memory' \in {None, file'}
                    /\ \A i \in 1..Len(sessions') : sessions'[i] = memory'
                    /\ \A d \in Viewer : (pc'[d] = "file" => file' = None) /\ (pc'[d] = "memory" => file' = job'[d])
  BY DEF LoginOrder
<1>1. /\ memory \in {None, file} /\ \A i \in 1..Len(sessions) : sessions[i] = memory
      /\ \A d \in Viewer : (pc[d] = "file" => file = None) /\ (pc[d] = "memory" => file = job[d])
  BY DEF LoginInv, LoginOrder
<1>2. ASSUME NEW d \in Viewer
      PROVE  (pc'[d] = "file" => file' = None) /\ (pc'[d] = "memory" => file' = job'[d])
  BY <1>1
<1> QED BY <1>1, <1>2

\* With no password in memory there is no session.
LEMMA LoginNobody == ASSUME LoginInv, replaced = FALSE, memory = None PROVE sessions = << >>
<1>1. sessions \in Seq(Password) /\ \A i \in 1..Len(sessions) : sessions[i] = None
  BY DEF LoginInv, LoginTypes, LoginOrder
<1>2. Len(sessions) # 0 => 1 \in 1..Len(sessions) /\ sessions[1] \in Password
  BY <1>1
<1>3. None \notin Password
  BY LoginAssumption
<1>4. Len(sessions) = 0
  BY <1>1, <1>2, <1>3
<1> QED BY <1>1, <1>4, EmptySeq

\* A step on which nobody goes and nobody guesses.
LEMMA LoginIdle == ASSUME LoginInv, UNCHANGED <<attempts, guesses, pc>> PROVE LoginBudget'
  BY DEF LoginInv, LoginBudget, Login!Kind, LoginAt, FailedAt, ThroughAt, GuessBudget, Matched, OldestFirst, Login!Within

\* A step that changes nothing here.
LEMMA LoginUnchanged ==
  ASSUME LoginInv, UNCHANGED <<file, memory, sessions, attempts, guesses, pc, job, replaced>>
  PROVE  LoginInv'
<1>1. LoginTypes'
  BY DEF LoginInv, LoginTypes, Login!Kind
<1>2. LoginOrder'
  BY DEF LoginInv, LoginOrder
<1>3. LoginBudget'
  BY LoginIdle
<1> QED BY <1>1, <1>2, <1>3 DEF LoginInv

\* A call begins.
LEMMA LoginBegin == ASSUME LoginInv, NEW c \in Viewer, Login!Begin(c) PROVE LoginInv'
<1>1. /\ pc[c] = "idle" /\ UNCHANGED <<file, memory, sessions, attempts, faults, guesses, replaced>>
      /\ \E p \in Password : job' = Login!Set(job, c, p)
  BY DEF Login!Begin
<1>2. PICK place \in {"login", "unlock", "setup", "configure"} : Login!Goto(c, place)
  BY DEF Login!Begin
<1>3. place \in LoginPlaces
  BY <1>2 DEF LoginPlaces
<1>4. /\ LoginMove(c, place) /\ pc' \in [Viewer -> LoginPlaces] /\ pc'[c] = place
      /\ job' \in [Viewer -> Password \union {None}]
      /\ \A d \in Viewer : pc'[d] # "idle" => job'[d] \in Password
      /\ \A d \in Viewer : d # c => pc'[d] = pc[d] /\ job'[d] = job[d]
  BY <1>1, <1>2, <1>3, LoginGoes
<1>5. LoginTypes'
  BY <1>1, <1>4 DEF LoginInv, LoginTypes, Login!Kind
<1>6. LoginOrder'
  BY <1>1, <1>2, <1>4, LoginSame
<1>7. LoginBudget'
  BY <1>1, <1>2, <1>4, LoginQuiet
<1> QED BY <1>5, <1>6, <1>7 DEF LoginInv

\* A call is let through, or refused.
LEMMA LoginLimited ==
  ASSUME LoginInv, NEW c \in Viewer, NEW k, NEW place,
         (k = "login" /\ place = "load") \/ (k = "unlock" /\ place = "open"), pc[c] = k,
         Login!Limited(c, k, place), UNCHANGED <<file, memory, sessions, guesses, replaced>>
  PROVE  LoginInv'
<1>0. /\ attempts \in [Login!Kind -> Seq(0..Window)] /\ guesses \in [Login!Kind -> Seq(0..Window)]
      /\ k \in Login!Kind /\ place \in LoginPlaces /\ LoginTypes /\ pc[c] # "idle"
  BY LoginKinds DEF LoginInv, LoginTypes, LoginPlaces
<1>1. PICK q \in LoginPlaces :
        /\ LoginMove(c, q) /\ pc' \in [Viewer -> LoginPlaces] /\ pc'[c] = q
        /\ job' \in [Viewer -> Password \union {None}]
        /\ \A d \in Viewer : pc'[d] # "idle" => job'[d] \in Password
        /\ \A d \in Viewer : d # c => pc'[d] = pc[d] /\ job'[d] = job[d]
        /\ q = "idle" \/ (q = place /\ ~(Len(Login!Within(attempts[k])) >= Quota))
  <2>1. CASE Login!Full(k)
    <3>1. Login!Ended(c) /\ "idle" \in LoginPlaces
      BY <2>1 DEF Login!Limited, LoginPlaces
    <3> QED BY <3>1, LoginEnds
  <2>2. CASE ~Login!Full(k)
    <3>1. Login!Goto(c, place) /\ job' = job /\ ~(Len(Login!Within(attempts[k])) >= Quota)
      BY <2>2 DEF Login!Limited, Login!Full, Login!Recent
    <3> QED BY <1>0, <3>1, LoginGoes
  <2> QED BY <2>1, <2>2
<1>2. attempts' = [attempts EXCEPT ![k] = Login!Within(attempts[k])]
  BY DEF Login!Limited, Login!Recent
<1>3. /\ attempts'[k] = Login!Within(attempts[k])
      /\ \A j \in Login!Kind : j # k => attempts'[j] = attempts[j]
  BY <1>0, <1>2
<1>4. GuessBudget(attempts[k], guesses[k], Cardinality(LoginAt(pc, FailedAt(k))), Cardinality(LoginAt(pc, ThroughAt(k))))
  BY <1>0 DEF LoginInv, LoginBudget
<1>5. Login!Within(attempts[k]) \in Seq(0..Window) /\ Len(Login!Within(attempts[k])) \in Nat
  <2> DEFINE f == Cardinality(LoginAt(pc, FailedAt(k)))
  <2>1. Matched(attempts[k], guesses[k], f)
    BY <1>4 DEF GuessBudget
  <2> HIDE DEF f
  <2>2. Matched(Login!Within(attempts[k]), guesses[k], f) /\ Len(Login!Within(attempts[k])) \in Nat
    BY <2>1, MatchedRecent
  <2> QED BY <2>2 DEF Matched
<1>6. LoginTypes'
  <2>1. attempts' \in [Login!Kind -> Seq(0..Window)]
    BY <1>0, <1>2, <1>5
  <2> QED BY <1>0, <1>1, <2>1 DEF LoginTypes, Login!Kind
<1>7. LoginOrder'
  <2>1. pc'[c] \notin {"file", "memory"}
    BY <1>1
  <2> QED BY <1>1, <2>1, LoginSame
<1>8. LoginBudget'
  <2> SUFFICES ASSUME NEW j \in Login!Kind'
               PROVE  GuessBudget(attempts[j], guesses[j], Cardinality(LoginAt(pc, FailedAt(j))),
                             Cardinality(LoginAt(pc, ThroughAt(j))))'
    BY DEF LoginBudget
  <2>1. j \in Login!Kind /\ guesses'[j] = guesses[j]
    BY DEF Login!Kind
  <2>2. CASE j = k /\ q = "idle"
    <3>1. attempts'[j] = Login!Within(attempts[j]) /\ pc[c] \notin ThroughAt(j) /\ q \notin ThroughAt(j)
      BY <1>3, <2>2, LoginKinds
    <3> QED BY <1>1, <2>1, <3>1, LoginTouched
  <2>3. CASE j = k /\ q = place /\ ~(Len(Login!Within(attempts[k])) >= Quota)
    <3>1. /\ attempts'[j] = Login!Within(attempts[j]) /\ pc[c] \notin ThroughAt(j)
          /\ q \in ThroughAt(j) /\ q \notin FailedAt(j)
      BY <1>3, <2>3, LoginKinds
    <3>2. Len(Login!Within(attempts[j])) < Quota
      BY <1>5, <2>3, LoginClients
    <3> QED BY <1>1, <2>1, <3>1, <3>2, LoginTouched
  <2>4. CASE j # k
    <3>1. /\ pc[c] \in FailedAt(j) <=> q \in FailedAt(j)
          /\ pc[c] \in ThroughAt(j) <=> q \in ThroughAt(j)
      BY <1>1, <2>1, <2>4, LoginKinds
    <3> QED BY <1>1, <1>3, <2>1, <2>4, <3>1, LoginCalm
  <2> QED BY <1>1, <2>2, <2>3, <2>4
<1> QED BY <1>6, <1>7, <1>8 DEF LoginInv

\* A failure is counted.
LEMMA LoginRecords ==
  ASSUME LoginInv, NEW c \in Viewer, NEW k,
         (k = "login" /\ pc[c] = "failed") \/ (k = "unlock" /\ pc[c] = "shut"),
         Login!Recorded(k), Login!Ended(c), UNCHANGED <<file, memory, sessions, guesses, replaced>>
  PROVE  LoginInv'
<1>0. /\ attempts \in [Login!Kind -> Seq(0..Window)] /\ k \in Login!Kind /\ LoginTypes
      /\ pc[c] \in FailedAt(k)
  BY LoginKinds DEF LoginInv, LoginTypes
<1>1. /\ LoginMove(c, "idle") /\ pc' \in [Viewer -> LoginPlaces] /\ pc'[c] = "idle"
      /\ job' \in [Viewer -> Password \union {None}]
      /\ \A d \in Viewer : pc'[d] # "idle" => job'[d] \in Password
      /\ \A d \in Viewer : d # c => pc'[d] = pc[d] /\ job'[d] = job[d]
  BY LoginEnds
<1>2. attempts' = [attempts EXCEPT ![k] = Append(attempts[k], 0)]
  BY DEF Login!Recorded
<1>3. /\ attempts'[k] = Append(attempts[k], 0)
      /\ \A j \in Login!Kind : j # k => attempts'[j] = attempts[j]
  BY <1>0, <1>2
<1>4. LoginTypes'
  <2>1. Append(attempts[k], 0) \in Seq(0..Window)
    <3>1. attempts[k] \in Seq(0..Window) /\ 0 \in 0..Window
      BY <1>0, LoginAssumption
    <3> QED BY <3>1, AppendProperties
  <2>2. attempts' \in [Login!Kind -> Seq(0..Window)]
    BY <1>0, <1>2, <2>1
  <2> QED BY <1>0, <1>1, <2>2 DEF LoginTypes, Login!Kind
<1>5. LoginOrder'
  BY <1>1, LoginSame
<1>6. LoginBudget'
  <2> SUFFICES ASSUME NEW j \in Login!Kind'
               PROVE  GuessBudget(attempts[j], guesses[j], Cardinality(LoginAt(pc, FailedAt(j))),
                             Cardinality(LoginAt(pc, ThroughAt(j))))'
    BY DEF LoginBudget
  <2>1. j \in Login!Kind /\ guesses'[j] = guesses[j]
    BY DEF Login!Kind
  <2>2. CASE j = k
    <3>1. "idle" \notin ThroughAt(j)
      BY <2>1, LoginKinds
    <3> QED BY <1>0, <1>1, <1>3, <2>1, <2>2, <3>1, LoginTouched
  <2>3. CASE j # k
    <3>1. /\ pc[c] \in FailedAt(j) <=> "idle" \in FailedAt(j)
          /\ pc[c] \in ThroughAt(j) <=> "idle" \in ThroughAt(j)
      BY <2>1, <2>3, LoginKinds
    <3> QED BY <1>1, <1>3, <2>1, <2>3, <3>1, LoginCalm
  <2> QED BY <2>2, <2>3
<1> QED BY <1>4, <1>5, <1>6 DEF LoginInv

\* A guess at a password, which the counter is to hear of.
LEMMA LoginGuesses ==
  ASSUME LoginInv, NEW c \in Viewer, NEW k, NEW place,
         (k = "login" /\ pc[c] = "verify" /\ place = "failed") \/ (k = "unlock" /\ pc[c] = "open" /\ place = "shut"),
         Login!Guess(k), Login!Goto(c, place), UNCHANGED <<file, memory, sessions, attempts, job, replaced>>
  PROVE  LoginInv'
<1>0. /\ guesses \in [Login!Kind -> Seq(0..Window)] /\ k \in Login!Kind /\ LoginTypes
      /\ place \in LoginPlaces /\ pc[c] # "idle"
      /\ pc[c] \in ThroughAt(k) /\ pc[c] \notin FailedAt(k) /\ place \in FailedAt(k)
  BY LoginKinds DEF LoginInv, LoginTypes, LoginPlaces
<1>1. /\ LoginMove(c, place) /\ pc' \in [Viewer -> LoginPlaces] /\ pc'[c] = place
      /\ job' \in [Viewer -> Password \union {None}]
      /\ \A d \in Viewer : pc'[d] # "idle" => job'[d] \in Password
      /\ \A d \in Viewer : d # c => pc'[d] = pc[d] /\ job'[d] = job[d]
  BY <1>0, LoginGoes
<1>2. guesses' = [guesses EXCEPT ![k] = Append(guesses[k], 0)]
  BY DEF Login!Guess
<1>3. /\ guesses'[k] = Append(guesses[k], 0)
      /\ \A j \in Login!Kind : j # k => guesses'[j] = guesses[j]
  BY <1>0, <1>2
<1>4. LoginTypes'
  <2>1. Append(guesses[k], 0) \in Seq(0..Window)
    <3>1. guesses[k] \in Seq(0..Window) /\ 0 \in 0..Window
      BY <1>0, LoginAssumption
    <3> QED BY <3>1, AppendProperties
  <2>2. guesses' \in [Login!Kind -> Seq(0..Window)]
    BY <1>0, <1>2, <2>1
  <2> QED BY <1>0, <1>1, <2>2 DEF LoginTypes, Login!Kind
<1>5. LoginOrder'
  <2>1. pc'[c] \notin {"file", "memory"}
    BY <1>1
  <2> QED BY <1>1, <2>1, LoginSame
<1>6. LoginBudget'
  <2> SUFFICES ASSUME NEW j \in Login!Kind'
               PROVE  GuessBudget(attempts[j], guesses[j], Cardinality(LoginAt(pc, FailedAt(j))),
                             Cardinality(LoginAt(pc, ThroughAt(j))))'
    BY DEF LoginBudget
  <2>1. j \in Login!Kind /\ attempts'[j] = attempts[j]
    BY DEF Login!Kind
  <2>2. CASE j = k
    BY <1>0, <1>1, <1>3, <2>1, <2>2, LoginTouched
  <2>3. CASE j # k
    <3>1. /\ pc[c] \in FailedAt(j) <=> place \in FailedAt(j)
          /\ pc[c] \in ThroughAt(j) <=> place \in ThroughAt(j)
      BY <2>1, <2>3, LoginKinds
    <3> QED BY <1>1, <1>3, <2>1, <2>3, <3>1, LoginCalm
  <2> QED BY <2>2, <2>3
<1> QED BY <1>4, <1>5, <1>6 DEF LoginInv

\* The password of the file is taken into memory.
LEMMA LoginLoad == ASSUME LoginInv, NEW c \in Viewer, Login!Load(c) PROVE LoginInv'
<1>0. /\ pc[c] = "load" /\ Login!Goto(c, "verify") /\ job' = job /\ "verify" \in LoginPlaces
      /\ memory' = IF memory = None THEN file ELSE memory
      /\ UNCHANGED <<file, sessions, attempts, job, calls, faults, guesses, replaced>>
  BY DEF Login!Load, LoginPlaces
<1>1. /\ LoginMove(c, "verify") /\ pc' \in [Viewer -> LoginPlaces] /\ pc'[c] = "verify"
      /\ job' \in [Viewer -> Password \union {None}]
      /\ \A d \in Viewer : pc'[d] # "idle" => job'[d] \in Password
      /\ \A d \in Viewer : d # c => pc'[d] = pc[d] /\ job'[d] = job[d]
  BY <1>0, LoginGoes
<1>2. LoginTypes'
  BY <1>0, <1>1 DEF LoginInv, LoginTypes, Login!Kind
<1>3. LoginOrder'
  <2> SUFFICES ASSUME replaced = FALSE
               PROVE  /\ memory' \in {None, file}
                      /\ \A i \in 1..Len(sessions) : sessions[i] = memory'
                      /\ \A d \in Viewer : (pc'[d] = "file" => file = None) /\ (pc'[d] = "memory" => file = job[d])
    BY <1>0 DEF LoginOrder
  <2>1. /\ memory \in {None, file} /\ \A i \in 1..Len(sessions) : sessions[i] = memory
        /\ \A d \in Viewer : (pc[d] = "file" => file = None) /\ (pc[d] = "memory" => file = job[d])
    BY DEF LoginInv, LoginOrder
  <2>2. memory = None => sessions = << >>
    BY LoginNobody
  <2>3. \A i \in 1..Len(sessions) : sessions[i] = memory'
    BY <1>0, <2>1, <2>2
  <2> QED BY <1>0, <1>1, <2>1, <2>3
<1>4. LoginBudget'
  BY <1>0, <1>1, LoginQuiet
<1> QED BY <1>2, <1>3, <1>4 DEF LoginInv

\* The password is right, and a session begins, or it is wrong.
LEMMA LoginVerify == ASSUME LoginInv, NEW c \in Viewer, Login!Verify(c) PROVE LoginInv'
<1>0. /\ pc[c] = "verify" /\ UNCHANGED <<file, memory, attempts, calls, faults, replaced>>
      /\ LoginTypes
  BY DEF Login!Verify, LoginInv
<1>1. CASE memory \notin {None, job[c]} /\ Login!Guess("login") /\ Login!Goto(c, "failed") /\ UNCHANGED <<sessions, job>>
  BY <1>0, <1>1, LoginGuesses
<1>2. CASE /\ Login!Ended(c) /\ UNCHANGED guesses
           /\ (sessions' = sessions \/ (memory = job[c] /\ sessions' = Login!Opened(job[c])))
  <2>1. /\ LoginMove(c, "idle") /\ pc' \in [Viewer -> LoginPlaces] /\ pc'[c] = "idle"
        /\ job' \in [Viewer -> Password \union {None}]
        /\ \A d \in Viewer : pc'[d] # "idle" => job'[d] \in Password
        /\ \A d \in Viewer : d # c => pc'[d] = pc[d] /\ job'[d] = job[d]
    BY <1>2, LoginEnds
  <2>2. /\ sessions' \in Seq(Password)
        /\ (\A i \in 1..Len(sessions) : sessions[i] = memory) => \A i \in 1..Len(sessions') : sessions'[i] = memory
    <3>1. CASE sessions' = sessions
      BY <1>0, <3>1 DEF LoginTypes
    <3>2. CASE memory = job[c] /\ sessions' = Login!Opened(job[c])
      <4>0. sessions \in Seq(Password) /\ job[c] \in Password /\ Cap \in Nat \ {0} /\ Len(sessions) \in Nat
        BY <1>0, LoginAssumption DEF LoginTypes
      <4> DEFINE s == IF Len(sessions) >= Cap THEN Tail(sessions) ELSE sessions
      <4>1. /\ s \in Seq(Password)
            /\ (\A i \in 1..Len(sessions) : sessions[i] = memory) => \A i \in 1..Len(s) : s[i] = memory
        <5>1. CASE Len(sessions) >= Cap
          <6>1. sessions # << >> /\ s = Tail(sessions)
            BY <4>0, <5>1
          <6>2. /\ s \in Seq(Password) /\ Len(s) = Len(sessions) - 1 /\ \A i \in 1..Len(s) : s[i] = sessions[i + 1]
            BY <4>0, <6>1, HeadTailProperties
          <6> HIDE DEF s
          <6>3. \A i \in 1..Len(s) : i + 1 \in 1..Len(sessions)
            BY <4>0, <6>2
          <6> QED BY <6>2, <6>3
        <5>2. CASE ~(Len(sessions) >= Cap)
          BY <4>0, <5>2
        <5> QED BY <5>1, <5>2
      <4>2. sessions' = Append(s, job[c])
        BY <3>2 DEF Login!Opened
      <4> HIDE DEF s
      <4>3. /\ sessions' \in Seq(Password) /\ Len(sessions') = Len(s) + 1
            /\ \A i \in 1..Len(s) : sessions'[i] = s[i]
            /\ sessions'[Len(s) + 1] = job[c]
        BY <4>0, <4>1, <4>2, AppendProperties
      <4>4. \A i \in 1..Len(sessions') : i \in 1..Len(s) \/ i = Len(s) + 1
        BY <4>1, <4>3
      <4> QED BY <3>2, <4>1, <4>3, <4>4
    <3> QED BY <1>2, <3>1, <3>2
  <2>3. LoginTypes'
    BY <1>0, <1>2, <2>1, <2>2 DEF LoginTypes, Login!Kind
  <2>4. LoginOrder'
    <3> SUFFICES ASSUME replaced = FALSE
                 PROVE  /\ memory \in {None, file}
                        /\ \A i \in 1..Len(sessions') : sessions'[i] = memory
                        /\ \A d \in Viewer : (pc'[d] = "file" => file = None) /\ (pc'[d] = "memory" => file = job'[d])
      BY <1>0 DEF LoginOrder
    <3>1. /\ memory \in {None, file} /\ \A i \in 1..Len(sessions) : sessions[i] = memory
          /\ \A d \in Viewer : (pc[d] = "file" => file = None) /\ (pc[d] = "memory" => file = job[d])
      BY DEF LoginInv, LoginOrder
    <3>2. \A i \in 1..Len(sessions') : sessions'[i] = memory
      BY <2>2, <3>1
    <3>3. \A d \in Viewer : (pc'[d] = "file" => file = None) /\ (pc'[d] = "memory" => file = job'[d])
      BY <2>1, <3>1
    <3> QED BY <3>1, <3>2, <3>3
  <2>5. LoginBudget'
    <3> SUFFICES ASSUME NEW k \in Login!Kind'
                 PROVE  GuessBudget(attempts[k], guesses[k], Cardinality(LoginAt(pc, FailedAt(k))),
                               Cardinality(LoginAt(pc, ThroughAt(k))))'
      BY DEF LoginBudget
    <3>1. k \in Login!Kind /\ attempts'[k] = attempts[k] /\ guesses'[k] = guesses[k]
      BY <1>0, <1>2 DEF Login!Kind
    <3>2. CASE k = "login"
      <4>1. pc[c] \in ThroughAt(k) /\ pc[c] \notin FailedAt(k) /\ "idle" \notin ThroughAt(k)
        BY <1>0, <3>2, LoginKinds
      <4> QED BY <2>1, <3>1, <4>1, LoginTouched
    <3>3. CASE k = "unlock"
      <4>1. /\ pc[c] \in FailedAt(k) <=> "idle" \in FailedAt(k)
            /\ pc[c] \in ThroughAt(k) <=> "idle" \in ThroughAt(k)
        BY <1>0, <3>3, LoginKinds
      <4> QED BY <2>1, <3>1, <4>1, LoginCalm
    <3> QED BY <3>1, <3>2, <3>3, LoginKinds
  <2> QED BY <2>3, <2>4, <2>5 DEF LoginInv
<1> QED BY <1>1, <1>2 DEF Login!Verify

\* The keystore opens, with the password or with the key in the TPM, or it
\* does not.
LEMMA LoginUnlock == ASSUME LoginInv, NEW c \in Viewer, Login!Unlock(c) PROVE LoginInv'
<1>0. /\ pc[c] = "open" /\ job' = job /\ UNCHANGED <<file, memory, sessions, calls, faults, replaced>>
      /\ LoginTypes /\ "login" \in LoginPlaces
  BY DEF Login!Unlock, LoginInv, LoginPlaces
<1>1. CASE Login!Guess("unlock") /\ Login!Goto(c, "shut") /\ UNCHANGED attempts
  BY <1>0, <1>1, LoginGuesses
<1>2. CASE /\ attempts' = [attempts EXCEPT !["unlock"] = << >>]
           /\ guesses' = [guesses EXCEPT !["unlock"] = << >>]
           /\ Login!Goto(c, "login")
  <2>0. "unlock" \in Login!Kind /\ << >> \in Seq(0..Window)
    BY LoginKinds
  <2>1. /\ LoginMove(c, "login") /\ pc' \in [Viewer -> LoginPlaces] /\ pc'[c] = "login"
        /\ job' \in [Viewer -> Password \union {None}]
        /\ \A d \in Viewer : pc'[d] # "idle" => job'[d] \in Password
        /\ \A d \in Viewer : d # c => pc'[d] = pc[d] /\ job'[d] = job[d]
    BY <1>0, <1>2, LoginGoes
  <2>2. LoginTypes'
    <3>1. attempts' \in [Login!Kind -> Seq(0..Window)] /\ guesses' \in [Login!Kind -> Seq(0..Window)]
      BY <1>0, <1>2, <2>0 DEF LoginTypes
    <3> QED BY <1>0, <2>1, <3>1 DEF LoginTypes, Login!Kind
  <2>3. LoginOrder'
    BY <1>0, <2>1, LoginSame
  <2>4. LoginBudget'
    <3> SUFFICES ASSUME NEW k \in Login!Kind'
                 PROVE  GuessBudget(attempts[k], guesses[k], Cardinality(LoginAt(pc, FailedAt(k))),
                               Cardinality(LoginAt(pc, ThroughAt(k))))'
      BY DEF LoginBudget
    <3>1. k \in Login!Kind
      BY DEF Login!Kind
    <3>2. CASE k = "unlock"
      <4>1. "login" \notin ThroughAt(k) /\ attempts'[k] = << >> /\ guesses'[k] = << >>
        BY <1>0, <1>2, <2>0, <3>2, LoginKinds DEF LoginTypes
      <4> QED BY <2>1, <3>1, <4>1, LoginTouched
    <3>3. CASE k = "login"
      <4>1. /\ pc[c] \in FailedAt(k) <=> "login" \in FailedAt(k)
            /\ pc[c] \in ThroughAt(k) <=> "login" \in ThroughAt(k)
        BY <1>0, <3>3, LoginKinds
      <4>2. attempts'[k] = attempts[k] /\ guesses'[k] = guesses[k]
        BY <1>0, <1>2, <3>1, <3>3 DEF LoginTypes
      <4> QED BY <2>1, <3>1, <4>1, <4>2, LoginCalm
    <3> QED BY <3>1, <3>2, <3>3, LoginKinds
  <2> QED BY <2>2, <2>3, <2>4 DEF LoginInv
<1> QED BY <1>1, <1>2 DEF Login!Unlock

\* What the calls of /setup and /api/setup do that leaves both passwords alone.
LEMMA LoginAside ==
  ASSUME LoginInv, NEW c \in Viewer,
         \/ Login!Ended(c)
         \/ \E place \in {"make", "dashboard"} : Login!Goto(c, place) /\ job' = job,
         pc[c] \in {"setup", "configure", "make", "file", "dashboard"},
         UNCHANGED <<file, memory, sessions, attempts, guesses, replaced>>
  PROVE  LoginInv'
<1>0. LoginTypes /\ "idle" \in LoginPlaces /\ {"make", "dashboard"} \subseteq LoginPlaces /\ pc[c] # "idle"
  BY DEF LoginInv, LoginPlaces
<1>1. PICK place \in {"idle", "make", "dashboard"} :
        /\ LoginMove(c, place) /\ pc' \in [Viewer -> LoginPlaces] /\ pc'[c] = place
        /\ job' \in [Viewer -> Password \union {None}]
        /\ \A d \in Viewer : pc'[d] # "idle" => job'[d] \in Password
        /\ \A d \in Viewer : d # c => pc'[d] = pc[d] /\ job'[d] = job[d]
  <2>1. CASE Login!Ended(c)
    BY <2>1, LoginEnds
  <2>2. CASE \E place \in {"make", "dashboard"} : Login!Goto(c, place) /\ job' = job
    <3>1. PICK place \in {"make", "dashboard"} : Login!Goto(c, place) /\ job' = job
      BY <2>2
    <3>2. place \in LoginPlaces
      BY <1>0
    <3> QED BY <1>0, <3>1, <3>2, LoginGoes
  <2> QED BY <2>1, <2>2
<1>2. LoginTypes'
  BY <1>0, <1>1 DEF LoginTypes, Login!Kind
<1>3. LoginOrder'
  <2>1. pc'[c] \notin {"file", "memory"}
    BY <1>1
  <2> QED BY <1>1, <2>1, LoginSame
<1>4. LoginBudget'
  <2>1. /\ pc[c] \notin {"failed", "shut", "open"} /\ place \notin {"failed", "shut", "open"}
        /\ pc[c] \notin {"load", "verify"} /\ place \notin {"load", "verify"}
    OBVIOUS
  <2> QED BY <1>1, <2>1, LoginQuiet
<1> QED BY <1>2, <1>3, <1>4 DEF LoginInv

\* A first password is about to be set.
LEMMA LoginSetsUp == ASSUME LoginInv, NEW c \in Viewer, Login!Setup(c), memory = None PROVE LoginInv'
<1>0. /\ pc[c] = "setup" /\ Login!Goto(c, "file") /\ job' = job /\ "file" \in LoginPlaces
      /\ replaced' = (replaced \/ Login!Others(c))
      /\ UNCHANGED <<file, memory, sessions, attempts, calls, faults, guesses>> /\ LoginTypes
  BY DEF Login!Setup, LoginPlaces, LoginInv
<1>1. /\ LoginMove(c, "file") /\ pc' \in [Viewer -> LoginPlaces] /\ pc'[c] = "file"
      /\ job' \in [Viewer -> Password \union {None}]
      /\ \A d \in Viewer : pc'[d] # "idle" => job'[d] \in Password
      /\ \A d \in Viewer : d # c => pc'[d] = pc[d] /\ job'[d] = job[d]
  BY <1>0, LoginGoes
<1>2. LoginTypes'
  <2>1. replaced' \in BOOLEAN
    BY <1>0, Zenon DEF LoginTypes
  <2> QED BY <1>0, <1>1, <2>1 DEF LoginTypes, Login!Kind
<1>3. LoginOrder'
  <2> SUFFICES ASSUME replaced' = FALSE
               PROVE  /\ memory' \in {None, file'}
                      /\ \A i \in 1..Len(sessions) : sessions[i] = memory'
                      /\ \A d \in Viewer : (pc'[d] = "file" => file' = None) /\ (pc'[d] = "memory" => file' = job'[d])
    BY <1>0 DEF LoginOrder
  <2>0. replaced = FALSE /\ ~Login!Others(c)
    BY <1>0, Zenon DEF LoginTypes
  <2>1. /\ memory \in {None, file} /\ \A i \in 1..Len(sessions) : sessions[i] = memory
        /\ \A d \in Viewer : (pc[d] = "file" => file = None) /\ (pc[d] = "memory" => file = job[d])
    BY <2>0 DEF LoginInv, LoginOrder
  <2>2. file = None
    BY <2>0 DEF Login!Others
  <2> QED BY <1>0, <1>1, <2>1, <2>2
<1>4. LoginBudget'
  BY <1>0, <1>1, LoginQuiet
<1> QED BY <1>2, <1>3, <1>4 DEF LoginInv

\* Or there is one.
LEMMA LoginSetup == ASSUME LoginInv, NEW c \in Viewer, Login!Setup(c) PROVE LoginInv'
<1>1. CASE memory # None
  <2>1. Login!Ended(c) /\ pc[c] = "setup" /\ UNCHANGED <<file, memory, sessions, attempts, guesses, replaced>>
    BY <1>1 DEF Login!Setup
  <2> QED BY <2>1, LoginAside
<1>2. CASE memory = None
  <2> QED BY <1>2, LoginSetsUp
<1> QED BY <1>1, <1>2

\* It is set in memory, as it is in the file.
LEMMA LoginWriteMemory == ASSUME LoginInv, NEW c \in Viewer, Login!WriteMemory(c) PROVE LoginInv'
<1>0. /\ pc[c] = "memory" /\ Login!Goto(c, "login") /\ memory' = job[c] /\ "login" \in LoginPlaces
      /\ UNCHANGED <<file, sessions, attempts, job, calls, faults, guesses, replaced>> /\ LoginTypes
  BY DEF Login!WriteMemory, LoginPlaces, LoginInv
<1>1. /\ LoginMove(c, "login") /\ pc' \in [Viewer -> LoginPlaces] /\ pc'[c] = "login"
      /\ job' \in [Viewer -> Password \union {None}]
      /\ \A d \in Viewer : pc'[d] # "idle" => job'[d] \in Password
      /\ \A d \in Viewer : d # c => pc'[d] = pc[d] /\ job'[d] = job[d]
  BY <1>0, LoginGoes
<1>2. LoginTypes'
  BY <1>0, <1>1 DEF LoginTypes, Login!Kind
<1>3. LoginOrder'
  <2> SUFFICES ASSUME replaced' = FALSE
               PROVE  /\ memory' \in {None, file'}
                      /\ \A i \in 1..Len(sessions) : sessions[i] = memory'
                      /\ \A d \in Viewer : (pc'[d] = "file" => file' = None) /\ (pc'[d] = "memory" => file' = job'[d])
    BY <1>0 DEF LoginOrder
  <2>0. replaced = FALSE
    BY <1>0, Zenon DEF LoginTypes
  <2>1. /\ memory \in {None, file} /\ \A i \in 1..Len(sessions) : sessions[i] = memory
        /\ \A d \in Viewer : (pc[d] = "file" => file = None) /\ (pc[d] = "memory" => file = job[d])
    BY <2>0 DEF LoginInv, LoginOrder
  <2>2. memory = None => sessions = << >>
    BY <2>0, LoginNobody
  <2>3. file = job[c]
    BY <1>0, <2>1
  <2>4. \A i \in 1..Len(sessions) : sessions[i] = memory'
    BY <1>0, <2>1, <2>2, <2>3
  <2> QED BY <1>0, <1>1, <2>1, <2>3, <2>4
<1>4. LoginBudget'
  BY <1>0, <1>1, LoginQuiet
<1> QED BY <1>2, <1>3, <1>4 DEF LoginInv

\* It is written to the file.
LEMMA LoginWriteFile == ASSUME LoginInv, NEW c \in Viewer, Login!WriteFile(c) PROVE LoginInv'
<1>0. /\ pc[c] = "file" /\ Login!Goto(c, "memory") /\ file' = job[c] /\ "memory" \in LoginPlaces
      /\ replaced' = (replaced \/ Login!Others(c))
      /\ UNCHANGED <<memory, sessions, attempts, job, calls, faults, guesses>> /\ LoginTypes
  BY DEF Login!WriteFile, LoginPlaces, LoginInv
<1>1. /\ LoginMove(c, "memory") /\ pc' \in [Viewer -> LoginPlaces] /\ pc'[c] = "memory"
      /\ job' \in [Viewer -> Password \union {None}]
      /\ \A d \in Viewer : pc'[d] # "idle" => job'[d] \in Password
      /\ \A d \in Viewer : d # c => pc'[d] = pc[d] /\ job'[d] = job[d]
  BY <1>0, LoginGoes
<1>2. LoginTypes'
  <2>1. replaced' \in BOOLEAN
    BY <1>0, Zenon DEF LoginTypes
  <2>2. file' \in Password \union {None}
    BY <1>0 DEF LoginTypes
  <2> QED BY <1>0, <1>1, <2>1, <2>2 DEF LoginTypes, Login!Kind
<1>3. LoginOrder'
  <2> SUFFICES ASSUME replaced' = FALSE
               PROVE  /\ memory' \in {None, file'}
                      /\ \A i \in 1..Len(sessions) : sessions[i] = memory'
                      /\ \A d \in Viewer : (pc'[d] = "file" => file' = None) /\ (pc'[d] = "memory" => file' = job'[d])
    BY <1>0 DEF LoginOrder
  <2>0. replaced = FALSE /\ ~Login!Others(c)
    BY <1>0, Zenon DEF LoginTypes
  <2>1. /\ memory \in {None, file} /\ \A i \in 1..Len(sessions) : sessions[i] = memory
        /\ \A d \in Viewer : (pc[d] = "file" => file = None) /\ (pc[d] = "memory" => file = job[d])
    BY <2>0 DEF LoginInv, LoginOrder
  <2>2. file = None /\ memory = None
    BY <1>0, <2>1
  <2>3. sessions = << >>
    BY <2>0, <2>2, LoginNobody
  <2>4. \A d \in Viewer : d # c => pc[d] \notin {"file", "memory"}
    BY <2>0 DEF Login!Others
  <2> QED BY <1>0, <1>1, <2>2, <2>3, <2>4
<1>4. LoginBudget'
  BY <1>0, <1>1, LoginQuiet
<1> QED BY <1>2, <1>3, <1>4 DEF LoginInv

\* A configure writes it to the file only.
LEMMA LoginWriteDashboard == ASSUME LoginInv, NEW c \in Viewer, Login!WriteDashboard(c) PROVE LoginInv'
<1>0. /\ pc[c] = "dashboard" /\ Login!Ended(c) /\ file' = job[c]
      /\ replaced' = (replaced \/ memory # None \/ Login!Others(c))
      /\ UNCHANGED <<memory, sessions, attempts, calls, faults, guesses>> /\ LoginTypes
  BY DEF Login!WriteDashboard, LoginInv
<1>1. /\ LoginMove(c, "idle") /\ pc' \in [Viewer -> LoginPlaces] /\ pc'[c] = "idle"
      /\ job' \in [Viewer -> Password \union {None}]
      /\ \A d \in Viewer : pc'[d] # "idle" => job'[d] \in Password
      /\ \A d \in Viewer : d # c => pc'[d] = pc[d] /\ job'[d] = job[d]
  BY <1>0, LoginEnds
<1>2. LoginTypes'
  <2>1. replaced' \in BOOLEAN
    BY <1>0, Zenon DEF LoginTypes
  <2>2. file' \in Password \union {None}
    BY <1>0 DEF LoginTypes
  <2> QED BY <1>0, <1>1, <2>1, <2>2 DEF LoginTypes, Login!Kind
<1>3. LoginOrder'
  <2> SUFFICES ASSUME replaced' = FALSE
               PROVE  /\ memory' \in {None, file'}
                      /\ \A i \in 1..Len(sessions) : sessions[i] = memory'
                      /\ \A d \in Viewer : (pc'[d] = "file" => file' = None) /\ (pc'[d] = "memory" => file' = job'[d])
    BY <1>0 DEF LoginOrder
  <2>0. replaced = FALSE /\ memory = None /\ ~Login!Others(c)
    BY <1>0, Zenon DEF LoginTypes
  <2>1. /\ memory \in {None, file} /\ \A i \in 1..Len(sessions) : sessions[i] = memory
        /\ \A d \in Viewer : (pc[d] = "file" => file = None) /\ (pc[d] = "memory" => file = job[d])
    BY <2>0 DEF LoginInv, LoginOrder
  <2>2. sessions = << >>
    BY <2>0, LoginNobody
  <2>3. \A d \in Viewer : d # c => pc[d] \notin {"file", "memory"}
    BY <2>0 DEF Login!Others
  <2> QED BY <1>0, <1>1, <2>0, <2>2, <2>3
<1>4. LoginBudget'
  BY <1>0, <1>1, LoginQuiet
<1> QED BY <1>2, <1>3, <1>4 DEF LoginInv

\* Every step of a call.
LEMMA LoginHandle == ASSUME LoginInv, NEW c \in Viewer, Login!Handle(c) PROVE LoginInv'
<1>1. CASE Login!LoginLimit(c) \/ Login!UnlockLimit(c)
  <2>1. \E k, place : /\ (k = "login" /\ place = "load") \/ (k = "unlock" /\ place = "open")
                      /\ pc[c] = k /\ Login!Limited(c, k, place)
    BY <1>1 DEF Login!LoginLimit, Login!UnlockLimit
  <2>2. UNCHANGED <<file, memory, sessions, guesses, replaced>>
    BY <1>1 DEF Login!LoginLimit, Login!UnlockLimit
  <2> QED BY <2>1, <2>2, LoginLimited
<1>2. CASE Login!LoginFailed(c) \/ Login!UnlockFailed(c)
  <2>1. /\ \E k : /\ (k = "login" /\ pc[c] = "failed") \/ (k = "unlock" /\ pc[c] = "shut")
                  /\ Login!Recorded(k)
        /\ Login!Ended(c) /\ UNCHANGED <<file, memory, sessions, guesses, replaced>>
    BY <1>2 DEF Login!LoginFailed, Login!UnlockFailed
  <2> QED BY <2>1, LoginRecords
<1>3. CASE Login!Configure(c) \/ Login!MakeKeystore(c) \/ Login!DiskFails(c)
  <2>1. \/ Login!Ended(c)
        \/ \E place \in {"make", "dashboard"} : Login!Goto(c, place) /\ job' = job
    BY <1>3 DEF Login!Configure, Login!MakeKeystore, Login!DiskFails
  <2>2. /\ pc[c] \in {"setup", "configure", "make", "file", "dashboard"}
        /\ UNCHANGED <<file, memory, sessions, attempts, guesses, replaced>>
    BY <1>3 DEF Login!Configure, Login!MakeKeystore, Login!DiskFails
  <2> QED BY <2>1, <2>2, LoginAside
<1> QED BY <1>1, <1>2, <1>3, LoginBegin, LoginLoad, LoginVerify, LoginUnlock, LoginSetup, LoginWriteMemory,
           LoginWriteFile, LoginWriteDashboard, Zenon DEF Login!Handle

\* A tick takes failures and guesses further into the past.
LEMMA LoginTick == ASSUME LoginInv, Login!Tick PROVE LoginInv'
<1>0. /\ attempts' = [k \in Login!Kind |-> Login!Later(attempts[k])]
      /\ guesses' = [k \in Login!Kind |-> Login!Within(Login!Later(guesses[k]))]
      /\ UNCHANGED <<file, memory, sessions, pc, job, calls, faults, replaced>> /\ LoginTypes
  BY DEF Login!Tick, Login!callVars, LoginInv
<1>1. ASSUME NEW k \in Login!Kind
      PROVE  /\ GuessBudget(attempts'[k], guesses'[k], Cardinality(LoginAt(pc, FailedAt(k))), Cardinality(LoginAt(pc, ThroughAt(k))))
             /\ attempts'[k] \in Seq(0..Window) /\ guesses'[k] \in Seq(0..Window)
  <2> DEFINE f == Cardinality(LoginAt(pc, FailedAt(k)))  t == Cardinality(LoginAt(pc, ThroughAt(k)))
  <2>1. GuessBudget(attempts[k], guesses[k], f, t)
    BY DEF LoginInv, LoginBudget
  <2>2. attempts'[k] = Login!Later(attempts[k]) /\ guesses'[k] = Login!Within(Login!Later(guesses[k]))
    BY <1>0
  <2> HIDE DEF f, t
  <2>3. GuessBudget(attempts'[k], guesses'[k], f, t)
    BY <2>1, <2>2, GuessBudgetKept
  <2>4. attempts'[k] \in Seq(0..Window) /\ guesses'[k] \in Seq(0..Window)
    BY <2>3 DEF GuessBudget, Matched
  <2> QED BY <2>3, <2>4 DEF f, t
<1>2. LoginTypes'
  <2>1. attempts' \in [Login!Kind -> Seq(0..Window)] /\ guesses' \in [Login!Kind -> Seq(0..Window)]
    BY <1>0, <1>1
  <2> QED BY <1>0, <2>1 DEF LoginTypes, Login!Kind
<1>3. LoginOrder'
  BY <1>0 DEF LoginInv, LoginOrder
<1>4. LoginBudget'
  <2>1. \A k \in Login!Kind : GuessBudget(attempts'[k], guesses'[k], Cardinality(LoginAt(pc', FailedAt(k))),
                                 Cardinality(LoginAt(pc', ThroughAt(k))))
    BY <1>0, <1>1
  <2> QED BY <2>1 DEF LoginBudget, Login!Kind, LoginAt, FailedAt, ThroughAt, GuessBudget, Matched, OldestFirst, Login!Within
<1> QED BY <1>2, <1>3, <1>4 DEF LoginInv

\* The oldest session goes.
LEMMA LoginExpire == ASSUME LoginInv, Login!Expire PROVE LoginInv'
<1>0. /\ sessions # << >> /\ sessions' = Tail(sessions)
      /\ UNCHANGED <<file, memory, attempts, pc, job, calls, faults, guesses, replaced>> /\ LoginTypes
  BY DEF Login!Expire, Login!callVars, LoginInv
<1>1. /\ sessions \in Seq(Password) /\ sessions' \in Seq(Password) /\ Len(sessions') = Len(sessions) - 1
      /\ \A i \in 1..Len(sessions') : sessions'[i] = sessions[i + 1]
  BY <1>0, HeadTailProperties DEF LoginTypes
<1>2. \A i \in 1..Len(sessions') : i + 1 \in 1..Len(sessions)
  BY <1>1
<1>3. LoginTypes'
  BY <1>0, <1>1 DEF LoginTypes, Login!Kind
<1>4. LoginOrder'
  BY <1>0, <1>1, <1>2 DEF LoginInv, LoginOrder
<1>5. LoginBudget'
  BY <1>0, LoginIdle
<1> QED BY <1>3, <1>4, <1>5 DEF LoginInv

\* Nobody is at work and nobody has guessed.
LEMMA LoginFresh ==
  ASSUME NEW p, \A c \in Viewer : p[c] = "idle", NEW k \in Login!Kind
  PROVE  GuessBudget(<< >>, << >>, Cardinality(LoginAt(p, FailedAt(k))), Cardinality(LoginAt(p, ThroughAt(k))))
<1>1. PICK c \in Viewer : TRUE
  BY LoginAssumption
<1>2. p[c] \notin ThroughAt(k)
  BY LoginKinds
<1>3. /\ Cardinality(LoginAt(p, FailedAt(k))) \in Nat /\ Cardinality(LoginAt(p, ThroughAt(k))) \in Nat
      /\ Cardinality(LoginAt(p, FailedAt(k))) <= Cardinality(LoginAt(p, ThroughAt(k)))
      /\ Cardinality(LoginAt(p, ThroughAt(k))) < Cardinality(Viewer)
  BY <1>2, LoginCounted
<1> QED BY <1>3, GuessBudgetNone

\* A restart takes the file's password and forgets everything else.
LEMMA LoginRestart == ASSUME LoginInv, Login!Restart PROVE LoginInv'
<1>0. /\ memory' = file /\ sessions' = << >> /\ file' = file /\ replaced' = replaced
      /\ attempts' = [k \in Login!Kind |-> << >>] /\ guesses' = [k \in Login!Kind |-> << >>]
      /\ pc' = [c \in Viewer |-> "idle"] /\ job' = [c \in Viewer |-> None] /\ LoginTypes
  BY DEF Login!Restart, Login!Nothing, LoginInv
<1>1. << >> \in Seq(Password) /\ << >> \in Seq(0..Window) /\ "idle" \in LoginPlaces /\ Len(<< >>) = 0
  BY DEF LoginPlaces
<1>2. LoginTypes'
  <2>1. attempts' \in [Login!Kind -> Seq(0..Window)] /\ guesses' \in [Login!Kind -> Seq(0..Window)]
    BY <1>0, <1>1
  <2>2. pc' \in [Viewer -> LoginPlaces] /\ job' \in [Viewer -> Password \union {None}]
    BY <1>0, <1>1
  <2>3. \A c \in Viewer : pc'[c] = "idle"
    BY <1>0
  <2> QED BY <1>0, <1>1, <2>1, <2>2, <2>3 DEF LoginTypes, Login!Kind
<1>3. LoginOrder'
  BY <1>0, <1>1 DEF LoginOrder
<1>4. \A k \in Login!Kind : GuessBudget(attempts'[k], guesses'[k], Cardinality(LoginAt(pc', FailedAt(k))), Cardinality(LoginAt(pc', ThroughAt(k))))
  <2>1. \A c \in Viewer : pc'[c] = "idle"
    BY <1>0
  <2>2. \A k \in Login!Kind : attempts'[k] = << >> /\ guesses'[k] = << >>
    BY <1>0
  <2> QED BY <2>1, <2>2, LoginFresh
<1>5. LoginBudget'
  BY <1>4 DEF LoginBudget, Login!Kind, LoginAt, FailedAt, ThroughAt, GuessBudget, Matched, OldestFirst, Login!Within
<1> QED BY <1>2, <1>3, <1>5 DEF LoginInv

\* The invariant holds before anything has happened.
LEMMA LoginInit == ASSUME Login!Init PROVE LoginInv
<1>0. /\ memory = None /\ sessions = << >> /\ file = None /\ replaced = FALSE
      /\ attempts = [k \in Login!Kind |-> << >>] /\ guesses = [k \in Login!Kind |-> << >>]
      /\ pc = [c \in Viewer |-> "idle"] /\ job = [c \in Viewer |-> None]
  BY DEF Login!Init, Login!Nothing
<1>1. << >> \in Seq(Password) /\ << >> \in Seq(0..Window) /\ "idle" \in LoginPlaces /\ Len(<< >>) = 0
  BY DEF LoginPlaces
<1>2. LoginTypes
  <2>1. attempts \in [Login!Kind -> Seq(0..Window)] /\ guesses \in [Login!Kind -> Seq(0..Window)]
    BY <1>0, <1>1
  <2>2. pc \in [Viewer -> LoginPlaces] /\ job \in [Viewer -> Password \union {None}]
    BY <1>0, <1>1
  <2>3. \A c \in Viewer : pc[c] = "idle"
    BY <1>0
  <2> QED BY <1>0, <1>1, <2>1, <2>2, <2>3 DEF LoginTypes
<1>3. LoginOrder
  BY <1>0, <1>1 DEF LoginOrder
<1>4. LoginBudget
  <2>1. \A c \in Viewer : pc[c] = "idle"
    BY <1>0
  <2>2. \A k \in Login!Kind : attempts[k] = << >> /\ guesses[k] = << >>
    BY <1>0
  <2> QED BY <2>1, <2>2, LoginFresh DEF LoginBudget
<1> QED BY <1>2, <1>3, <1>4 DEF LoginInv

\* Every step of DashboardLogin keeps the invariant.
LEMMA LoginStep == ASSUME LoginInv, [Login!Next]_(Login!vars) PROVE LoginInv'
<1>1. CASE UNCHANGED Login!vars
  <2>1. UNCHANGED <<file, memory, sessions, attempts, guesses, pc, job, replaced>>
    BY <1>1 DEF Login!vars, Login!callVars
  <2> QED BY <2>1, LoginUnchanged
<1>2. CASE Login!Reset \/ Login!Poll
  <2>1. UNCHANGED <<file, memory, sessions, attempts, guesses, pc, job, replaced>>
    BY <1>2 DEF Login!Reset, Login!Poll, Login!callVars
  <2> QED BY <2>1, LoginUnchanged
<1>3. CASE (\E c \in Viewer : Login!Handle(c)) \/ Login!Tick \/ Login!Expire \/ Login!Restart
  BY <1>3, LoginHandle, LoginTick, LoginExpire, LoginRestart
<1> QED BY <1>1, <1>2, <1>3, Zenon DEF Login!Next

\* Then logins are sound.
LEMMA LoginSafe == ASSUME LoginInv PROVE Login!GuessesBounded /\ Login!PasswordsAgree
<1>1. ASSUME NEW k \in Login!Kind
      PROVE  Len(guesses[k]) <= Quota + Login!Cardinality(Viewer) - 1
  <2>1. PICK f, t : GuessBudget(attempts[k], guesses[k], f, t)
    BY DEF LoginInv, LoginBudget
  <2>2. Len(guesses[k]) <= Quota + Cardinality(Viewer) - 1
    BY <2>1, GuessBudgetKept
  <2> QED BY <2>2, LoginCardinality
<1>2. Login!GuessesBounded
  BY <1>1 DEF Login!GuessesBounded
<1>3. ASSUME ~replaced
      PROVE  memory \in {None, file} /\ \A i \in DOMAIN sessions : sessions[i] = memory
  <2>1. replaced = FALSE
    BY <1>3, Zenon DEF LoginInv, LoginTypes
  <2>2. memory \in {None, file} /\ \A i \in 1..Len(sessions) : sessions[i] = memory
    BY <2>1 DEF LoginInv, LoginOrder
  <2>3. DOMAIN sessions = 1..Len(sessions)
    BY DEF LoginInv, LoginTypes
  <2> QED BY <2>2, <2>3
<1>4. Login!PasswordsAgree
  BY <1>3, Zenon DEF Login!PasswordsAgree
<1> QED BY <1>2, <1>4

\* A behaviour about DashboardLogin takes its steps and no others.
LEMMA LoginPart ==
  ASSUME part = "login", [Next]_vars
  PROVE  [Login!Next]_(Login!vars)
<1>1. CASE Next
  BY <1>1 DEF Next
<1>2. CASE UNCHANGED vars
  <2>1. UNCHANGED <<file, memory, keystore, tpm, unlock, sessions, attempts, pc, job, calls, faults,
                    guesses, replaced>>
    BY <1>2, Zenon DEF vars
  <2> QED BY <2>1 DEF Login!vars, Login!callVars, Login!keyVars
<1> QED BY <1>1, <1>2

\* It starts as DashboardLogin does.
LEMMA LoginBegun == ASSUME Init, part = "login" PROVE Login!Init
  BY DEF Init

\* Wrong passwords of either kind within a window's time are bounded by the
\* limit and one for each other call; of unlocks those since the keystore
\* was last opened, for which no key in the TPM did what the password
\* should. And sessions and the password in memory follow dashboard.json
\* unless a password was replaced (SessionStore, handle_unlock).
THEOREM SafetyOfLogin == Spec => []LoginSound
<1> DEFINE I == part = "login" => LoginInv
<1>1. Init => I
  BY LoginBegun, LoginInit
<1>2. I /\ [Next]_vars => I'
  <2> SUFFICES ASSUME I, [Next]_vars, part' = "login" PROVE (LoginInv)'
    OBVIOUS
  <2> QED BY PartStays, LoginPart, LoginStep
<1>3. I => LoginSound
  BY LoginSafe DEF LoginSound, LoginInv
<1> QED BY <1>1, <1>2, <1>3, PTL DEF Spec
==============================================================================
