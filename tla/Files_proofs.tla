---------------------------- MODULE Files_proofs -----------------------------
(****************************************************************************)
(* Proofs about the components whose state is in files or in the vault,     *)
(* which several processes write and a crash leaves as it is.               *)
(****************************************************************************)
EXTENDS Components, FiniteSets, FiniteSetTheorems, SequenceTheorems, TLAPS

\* A behaviour is about the same component all along.
LEMMA PartStays == ASSUME [Next]_vars PROVE part' = part
<1>1. CASE Next
  BY <1>1, Zenon DEF Next, Resting
<1>2. CASE UNCHANGED vars
  BY <1>2, Zenon DEF vars
<1> QED BY <1>1, <1>2

------------------------------------------------------------------------------
(* AccessLog: every line but one that is being written ends a line, and the *)
(* next one is chained to the last.                                         *)

\* A line of the file: what one or more writers have put there.
AccessLine == Seq(Accesses!Stored) \ {<< >>}

\* Where the program and a writer are, and what the file is like there.
AccessShape ==
  /\ lines \in Seq(AccessLine)
  /\ ~ended \/ pc \in {"newline", "sync"} => lines # << >>
  /\ pc # "free" => events \in 1..MaxEvents

\* The log of a program that nothing has hurt: each line names the one
\* before.
AccessChained ==
  /\ \A i \in DOMAIN lines : Len(lines[i]) = 1 /\ lines[i][1].hmac # << >>
  /\ \A i \in DOMAIN lines : lines[i][1].prev = IF i = 1 THEN << >> ELSE lines[i - 1][1].hmac
  /\ up # "refused" /\ (key = "short" => up = "key")
  /\ ended <=> pc # "newline"
  /\ up = "up" /\ pc \in {"free", "line"} =>
       last = IF lines = << >> THEN << >> ELSE lines[Len(lines)][1].hmac

AccessInv == Accesses!TypeOK /\ AccessShape /\ (~hurt => AccessChained)

\* Such a log passes the verification.
LEMMA AccessVerified == ASSUME AccessInv PROVE Accesses!ChainVerifies
<1> SUFFICES ASSUME ~hurt PROVE Accesses!Verified /\ up # "refused"
  BY DEF Accesses!ChainVerifies
<1>1. AccessChained
  BY DEF AccessInv
<1>2. Accesses!Readable
  BY <1>1 DEF AccessChained, Accesses!Readable, Accesses!Parses, Accesses!Part
<1> QED BY <1>1, <1>2 DEF AccessChained, Accesses!Verified

\* What a line is made of.
LEMMA AccessLines ==
  ASSUME NEW ls \in Seq(AccessLine)
  PROVE  \A i \in DOMAIN ls : \A j \in DOMAIN ls[i] :
           ls[i][j].prev \in Accesses!Hmac /\ ls[i][j].hmac \in Accesses!Hmac
<1> TAKE i \in DOMAIN ls
<1>1. ls[i] \in Seq(Accesses!Stored)
  BY DEF AccessLine
<1> TAKE j \in DOMAIN ls[i]
<1>2. ls[i][j] \in Accesses!Stored
  BY <1>1
<1> QED BY <1>2 DEF Accesses!Stored

\* The invariant holds before anything has happened.
LEMMA AccessInit == ASSUME Accesses!Init PROVE AccessInv
<1>1. << >> \in Accesses!Hmac
  BY DEF Accesses!Hmac
<1>2. Accesses!TypeOK
  <2>1. lines \in Seq(AccessLine)
    BY DEF Accesses!Init
  <2>2. \A i \in DOMAIN lines : \A j \in DOMAIN lines[i] :
          lines[i][j].prev \in Accesses!Hmac /\ lines[i][j].hmac \in Accesses!Hmac
    BY <2>1, AccessLines
  <2>3. ended \in BOOLEAN /\ hurt \in BOOLEAN /\ last \in Accesses!Hmac
    BY <1>1 DEF Accesses!Init
  <2> QED BY <2>2, <2>3, AccessAssumption DEF Accesses!Init, Accesses!TypeOK
<1>3. AccessShape /\ AccessChained
  BY DEF Accesses!Init, AccessShape, AccessChained
<1> QED BY <1>2, <1>3 DEF AccessInv

\* What all actions but those that write a line leave as it is.
LEMMA AccessOpen ==
  ASSUME AccessInv, Accesses!LoadKey \/ Accesses!WriteKey \/ Accesses!OpenLog
  PROVE  AccessInv'
<1> USE DEF Accesses!LoadKey, Accesses!WriteKey, Accesses!OpenLog
<1>1. Accesses!TypeOK /\ AccessShape /\ (~hurt => AccessChained)
  BY DEF AccessInv
<1>2. last' \in Accesses!Hmac
  <2>1. CASE last' = last
    BY <1>1, <2>1 DEF Accesses!TypeOK
  <2>2. CASE last' = Accesses!LastHmac /\ lines = << >>
    BY <2>2 DEF Accesses!LastHmac, Accesses!Hmac
  <2>3. CASE last' = Accesses!LastHmac /\ lines # << >>
    <3>1. Len(lines) \in DOMAIN lines /\ lines[Len(lines)] \in AccessLine
      BY <1>1, <2>3 DEF AccessShape
    <3>2. 1 \in DOMAIN lines[Len(lines)]
      BY <3>1 DEF AccessLine
    <3> QED BY <1>1, <2>3, <3>1, <3>2 DEF Accesses!TypeOK, Accesses!LastHmac, Accesses!LastLine
  <2> QED BY <2>1, <2>2, <2>3
<1>3. Accesses!TypeOK'
  BY <1>1, <1>2 DEF Accesses!TypeOK
<1>4. AccessShape'
  BY <1>1 DEF AccessShape
<1>5. ASSUME ~hurt' PROVE AccessChained'
  <2>1. ~hurt /\ AccessChained
    BY <1>1, <1>5
  <2>2. Accesses!Readable
    BY <2>1 DEF AccessChained, Accesses!Readable, Accesses!Parses, Accesses!Part
  <2> QED BY <1>1, <2>1, <2>2 DEF AccessChained, Accesses!LastHmac, Accesses!LastLine, Accesses!TypeOK
<1> QED BY <1>3, <1>4, <1>5 DEF AccessInv

\* A connection comes to record an event.
LEMMA AccessBegin ==
  ASSUME AccessInv, NEW c \in Conn, Accesses!Begin(c)
  PROVE  AccessInv'
<1> USE AccessAssumption DEF Accesses!Begin
<1>1. Accesses!TypeOK /\ AccessShape /\ (~hurt => AccessChained)
  BY DEF AccessInv
<1>2. Accesses!TypeOK'
  BY <1>1 DEF Accesses!TypeOK
<1>3. AccessShape'
  BY <1>1 DEF AccessShape, Accesses!TypeOK
<1>4. ASSUME ~hurt' PROVE AccessChained'
  BY <1>1, <1>4 DEF AccessChained, Accesses!TypeOK
<1> QED BY <1>2, <1>3, <1>4 DEF AccessInv

\* The line is written, and the last hash kept.
LEMMA AccessWrite ==
  ASSUME AccessInv, Accesses!WriteLine
  PROVE  AccessInv'
<1> USE AccessAssumption DEF Accesses!WriteLine
<1> DEFINE r == Accesses!Record
<1>1. Accesses!TypeOK /\ AccessShape /\ (~hurt => AccessChained)
  BY DEF AccessInv
<1>2. r \in Accesses!Stored /\ r.hmac # << >> /\ r.prev = last
  <2>1. last \in Seq(1..MaxEvents) /\ events \in 1..MaxEvents
    BY <1>1 DEF Accesses!TypeOK, AccessShape, Accesses!Hmac
  <2>2. Append(last, events) \in Seq(1..MaxEvents) /\ Append(last, events) # << >>
    BY <2>1
  <2> QED BY <2>1, <2>2 DEF Accesses!Record, Accesses!Stored, Accesses!Hmac
<1> HIDE DEF r
<1>3. lines' \in Seq(AccessLine) /\ lines' # << >>
  <2>1. CASE ended
    <3>1. lines' = Append(lines, <<r>>)
      BY <2>1 DEF Accesses!Appended, r
    <3>2. <<r>> \in AccessLine
      BY <1>2 DEF AccessLine
    <3> QED BY <1>1, <3>1, <3>2 DEF AccessShape
  <2>2. CASE ~ended
    <3> DEFINE l == lines[Len(lines)]
    <3>1. l \in AccessLine /\ Len(lines) \in DOMAIN lines
      BY <1>1, <2>2 DEF AccessShape
    <3>2. lines' = [lines EXCEPT ![Len(lines)] = Append(l, r)]
      BY <2>2 DEF Accesses!Appended, r
    <3>3. Append(l, r) \in AccessLine
      BY <1>2, <3>1 DEF AccessLine
    <3> HIDE DEF l
    <3> QED BY <1>1, <3>1, <3>2, <3>3 DEF AccessShape
  <2> QED BY <2>1, <2>2
<1>4. Accesses!TypeOK'
  <2>1. \A i \in DOMAIN lines' : \A j \in DOMAIN lines'[i] :
          lines'[i][j].prev \in Accesses!Hmac /\ lines'[i][j].hmac \in Accesses!Hmac
    BY <1>3, AccessLines
  <2> QED BY <1>1, <2>1 DEF Accesses!TypeOK
<1>5. AccessShape'
  BY <1>1, <1>3 DEF AccessShape
<1>6. ASSUME ~hurt' PROVE AccessChained'
  <2>1. AccessChained /\ ended /\ up = "up"
    BY <1>1, <1>6 DEF AccessChained, Accesses!TypeOK
  <2>2. lines' = Append(lines, <<r>>)
    BY <2>1 DEF Accesses!Appended, r
  <2>3. /\ \A i \in DOMAIN lines : i \in DOMAIN lines' /\ lines'[i] = lines[i]
        /\ lines'[Len(lines) + 1] = <<r>>
        /\ \A i \in DOMAIN lines' : i \in DOMAIN lines \/ i = Len(lines) + 1
    BY <1>1, <2>2 DEF AccessShape
  <2>4. /\ \A i \in DOMAIN lines' : Len(lines'[i]) = 1 /\ lines'[i][1].hmac # << >>
    <3>1. Len(<<r>>) = 1 /\ <<r>>[1] = r
      OBVIOUS
    <3> QED BY <1>2, <2>1, <2>3, <3>1 DEF AccessChained
  <2>5. \A i \in DOMAIN lines' : lines'[i][1].prev = IF i = 1 THEN << >> ELSE lines'[i - 1][1].hmac
    <3> TAKE i \in DOMAIN lines'
    <3>1. CASE i \in DOMAIN lines
      <4>1. i = 1 \/ (i - 1 \in DOMAIN lines)
        BY <1>1, <3>1 DEF AccessShape
      <4> QED BY <2>1, <2>3, <3>1, <4>1 DEF AccessChained
    <3>2. CASE i = Len(lines) + 1
      <4>1. last = IF lines = << >> THEN << >> ELSE lines[Len(lines)][1].hmac
        BY <2>1 DEF AccessChained
      <4>2. CASE lines = << >>
        BY <1>2, <2>3, <3>2, <4>1, <4>2
      <4>3. CASE lines # << >>
        <5>1. Len(lines) \in DOMAIN lines /\ i # 1 /\ i - 1 = Len(lines)
          BY <1>1, <3>2, <4>3 DEF AccessShape
        <5> QED BY <1>2, <2>3, <3>2, <4>1, <4>3, <5>1
      <4> QED BY <4>2, <4>3
    <3> QED BY <2>3, <3>1, <3>2
  <2> QED BY <2>1, <2>4, <2>5 DEF AccessChained
<1> QED BY <1>4, <1>5, <1>6 DEF AccessInv

\* The end of the line is written and the file synced.
LEMMA AccessWritten ==
  ASSUME AccessInv, Accesses!WriteNewline \/ Accesses!Synced
  PROVE  AccessInv'
<1> USE AccessAssumption DEF Accesses!WriteNewline, Accesses!Synced
<1>1. Accesses!TypeOK /\ AccessShape /\ (~hurt => AccessChained)
  BY DEF AccessInv
<1>2. ASSUME Accesses!Synced
      PROVE  LET l == lines[Len(lines)] IN
             last' = l[Len(l)].hmac /\ last' \in Accesses!Hmac
  <2> DEFINE l == lines[Len(lines)]
  <2>1. Len(lines) \in DOMAIN lines /\ l \in AccessLine
    BY <1>1, <1>2 DEF AccessShape
  <2>2. Len(l) \in DOMAIN l
    BY <2>1 DEF AccessLine
  <2>3. last' = l[Len(l)].hmac
    BY <1>2 DEF Accesses!LastLine
  <2> QED BY <1>1, <2>1, <2>2, <2>3 DEF Accesses!TypeOK
<1>3. Accesses!TypeOK'
  BY <1>1, <1>2 DEF Accesses!TypeOK
<1>4. AccessShape'
  BY <1>1 DEF AccessShape
<1>5. ASSUME ~hurt' PROVE AccessChained'
  <2>1. AccessChained
    BY <1>1, <1>5
  <2>2. ASSUME Accesses!Synced PROVE Len(lines) \in DOMAIN lines
    BY <1>1, <2>2 DEF AccessShape
  <2> QED BY <1>1, <1>2, <2>1, <2>2 DEF AccessChained, AccessShape, Accesses!TypeOK
<1> QED BY <1>3, <1>4, <1>5 DEF AccessInv

\* The write fails, or the program stops.
LEMMA AccessFails ==
  ASSUME AccessInv, Accesses!RecordFails \/ Accesses!Crash
  PROVE  AccessInv'
<1> USE AccessAssumption DEF Accesses!RecordFails, Accesses!Crash, Accesses!Fault
<1>1. Accesses!TypeOK /\ AccessShape /\ (~hurt => AccessChained)
  BY DEF AccessInv
<1>2. lines' \in Seq(AccessLine) /\ (~ended' => lines' # << >>)
  <2>1. CASE UNCHANGED <<lines, ended>>
    BY <1>1, <2>1 DEF AccessShape
  <2>2. CASE lines' = Append(lines, <<Accesses!Part>>)
    <3>1. << >> \in Seq(1..MaxEvents)
      OBVIOUS
    <3>2. Accesses!Part \in Accesses!Stored
      BY <3>1 DEF Accesses!Part, Accesses!Stored, Accesses!Hmac
    <3>3. <<Accesses!Part>> \in AccessLine
      BY <3>2 DEF AccessLine
    <3> QED BY <1>1, <2>2, <3>3 DEF AccessShape
  <2> QED BY <2>1, <2>2
<1>3. Accesses!TypeOK'
  <2>1. \A i \in DOMAIN lines' : \A j \in DOMAIN lines'[i] :
          lines'[i][j].prev \in Accesses!Hmac /\ lines'[i][j].hmac \in Accesses!Hmac
    BY <1>2, AccessLines
  <2>2. ended' \in BOOLEAN /\ hurt' \in BOOLEAN
    BY <1>1, Zenon DEF Accesses!TypeOK
  <2>3. last' \in Accesses!Hmac
    <3>1. << >> \in Accesses!Hmac
      BY DEF Accesses!Hmac
    <3> QED BY <1>1, <3>1 DEF Accesses!TypeOK
  <2>4. faults' \in 0..LogFaults
    BY <1>1 DEF Accesses!TypeOK
  <2>5. up' \in {"down", "key", "log", "up", "refused"} /\ holder' = None /\ pc' = "free" /\ key' = key /\ events' = events
    BY <1>1 DEF Accesses!TypeOK
  <2> HIDE DEF Accesses!RecordFails, Accesses!Crash
  <2> QED BY <1>1, <2>1, <2>2, <2>3, <2>4, <2>5 DEF Accesses!TypeOK
<1>4. AccessShape'
  BY <1>1, <1>2 DEF AccessShape
<1>5. ASSUME ~hurt' PROVE AccessChained'
  <2>1. ~hurt /\ UNCHANGED <<lines, ended, key>> /\ pc # "newline" /\ pc' = "free" /\ (up' = up \/ (up # "key" /\ up' = "down"))
    BY <1>5
  <2>2. up' # "refused"
    BY <1>1, <2>1 DEF AccessChained
  <2>3. ASSUME up' = "up" PROVE pc = "line" /\ up = "up" /\ last' = last
    BY <1>5, <2>3
  <2> HIDE DEF Accesses!RecordFails, Accesses!Crash
  <2> QED BY <1>1, <2>1, <2>2, <2>3 DEF AccessChained
<1> QED BY <1>3, <1>4, <1>5 DEF AccessInv

\* Every step of AccessLog keeps the invariant.
LEMMA AccessStep ==
  ASSUME AccessInv, [Accesses!Next]_(Accesses!vars)
  PROVE  AccessInv'
<1>1. CASE UNCHANGED Accesses!vars
  BY <1>1 DEF Accesses!vars, AccessInv, AccessShape, AccessChained, Accesses!TypeOK
<1>2. CASE Accesses!Next
  BY <1>2, AccessOpen, AccessBegin, AccessWrite, AccessWritten, AccessFails DEF Accesses!Next
<1> QED BY <1>1, <1>2

\* A behaviour about AccessLog takes its steps and no others.
LEMMA AccessPart ==
  ASSUME part = "accesses", [Next]_vars
  PROVE  [Accesses!Next]_(Accesses!vars)
<1>1. CASE Next
  BY <1>1 DEF Next
<1>2. CASE UNCHANGED vars
  <2>1. UNCHANGED <<up, key, lines, ended, last, holder, pc, events, faults, hurt>>
    BY <1>2, Zenon DEF vars
  <2> QED BY <2>1 DEF Accesses!vars
<1> QED BY <1>1, <1>2

\* It starts as AccessLog does.
LEMMA AccessStart == ASSUME Init, part = "accesses" PROVE Accesses!Init
  BY DEF Init

\* The chain of the access log verifies to its last line, whatever crashes
\* and failed writes came before, as long as none of them hurt it
\* (access_log.rs).
THEOREM SafetyOfAccess == Spec => []ChainVerifies
<1> DEFINE I == part = "accesses" => AccessInv
<1>1. Init => I
  BY AccessStart, AccessInit
<1>2. I /\ [Next]_vars => I'
  <2> SUFFICES ASSUME I, [Next]_vars, part' = "accesses" PROVE (AccessInv)'
    OBVIOUS
  <2> QED BY PartStays, AccessPart, AccessStep
<1>3. I => ChainVerifies
  BY AccessVerified DEF ChainVerifies, AccessInv
<1> QED BY <1>1, <1>2, <1>3, PTL DEF Spec

------------------------------------------------------------------------------
(* AuditTrail: where each entry is, and how much the copy that is to be     *)
(* written last lacks of the list. No more is written at once than one      *)
(* save, or the run is disturbed.                                           *)

\* The entries of the list l that neither the list s nor the archive a has.
TrailLeft(l, s, a) == Cardinality(Trail!Range(l) \ (Trail!Range(s) \union a))

\* A thread with a copy of the list to write.
TrailPending(t) == snapshot[t] # << >>
\* A thread that has the temporary file open.
TrailOpened(t) == pc[t] \in {"write", "rename"}
\* The list of this thread is the last to be written of those that are pending.
TrailLatest(t) == TrailPending(t) /\ \A u \in Thread \ {t} : TrailPending(u) => TrailOpened(u) /\ ~TrailOpened(t)

\* What a thread has in its hands at each place.
TrailShape ==
  /\ snapshot \in [Thread -> Seq(Trail!Entry)]
  /\ \A t \in Thread :
       /\ pc[t] \in {"idle", "lock"} => ~TrailPending(t)
       /\ pc[t] \in Trail!Saving => TrailPending(t)
       /\ IF pc[t] = "lock" THEN entry[t] # 0 ELSE entry[t] = 0
       /\ pc[t] # "archive" => evicted[t] = {}

\* While no two saves have been pending at once: a save under way has the temporary
\* file to itself, and what is to be written last lacks no more than what came since.
TrailOrder ==
  /\ \A t \in Thread : TrailOpened(t) =>
       /\ fd[t] = "tmp" /\ tmp = IF pc[t] = "write" THEN Torn ELSE snapshot[t]
       /\ \A u \in Thread : TrailOpened(u) => u = t
  /\ \A t \in Thread : TrailLatest(t) => TrailLeft(list, snapshot[t], archive) <= count
  /\ (\A t \in Thread : ~TrailPending(t)) => TrailLeft(list, Trail!Loaded(main), archive) <= count

\* The invariant: every entry is somewhere, and the saves are in order.
TrailInv ==
  /\ Trail!TypeOK /\ TrailShape /\ Trail!HistoryKept
  /\ ~disturbed => TrailOrder

\* The instance counts as FiniteSets does.
LEMMA TrailCardinality == \A S : Trail!Cardinality(S) = Cardinality(S)
  BY DEF Trail!Cardinality, Cardinality

\* The entries of a list.
LEMMA TrailToSet ==
  ASSUME NEW s \in Seq(Trail!Entry)
  PROVE  Trail!Range(s) \subseteq Trail!Entry /\ (s = << >> => Trail!Range(s) = {})
  BY DEF Trail!Range

\* What is left out is finite: its number is a number.
LEMMA LeftType ==
  ASSUME NEW l \in Seq(Trail!Entry), NEW s, NEW a
  PROVE  /\ IsFiniteSet(Trail!Range(l) \ (Trail!Range(s) \union a))
         /\ TrailLeft(l, s, a) \in Nat
<1>1. IsFiniteSet(Trail!Entry)
  BY FS_Interval, TrailAssumption DEF Trail!Entry
<1>2. Trail!Range(l) \ (Trail!Range(s) \union a) \in SUBSET Trail!Entry
  BY TrailToSet
<1> QED BY <1>1, <1>2, FS_Subset, FS_CardinalityType DEF TrailLeft

\* A larger archive leaves out no more.
LEMMA LeftShrinks ==
  ASSUME NEW l \in Seq(Trail!Entry), NEW s, NEW a, NEW b, a \subseteq b
  PROVE  TrailLeft(l, s, b) <= TrailLeft(l, s, a)
<1>1. Trail!Range(l) \ (Trail!Range(s) \union b) \in SUBSET (Trail!Range(l) \ (Trail!Range(s) \union a))
  OBVIOUS
<1> QED BY <1>1, LeftType, FS_Subset DEF TrailLeft

\* One more entry in the list leaves out at most one more.
LEMMA LeftGrows ==
  ASSUME NEW l \in Seq(Trail!Entry), NEW k, NEW s, NEW a, NEW e,
         Trail!Range(k) \subseteq Trail!Range(l) \union {e}
  PROVE  TrailLeft(k, s, a) <= TrailLeft(l, s, a) + 1
<1> DEFINE L == Trail!Range(l) \ (Trail!Range(s) \union a)
           K == Trail!Range(k) \ (Trail!Range(s) \union a)
<1>1. K \in SUBSET (L \union {e})
  OBVIOUS
<1>2. IsFiniteSet(L) /\ Cardinality(L) \in Nat
  BY LeftType, FS_CardinalityType
<1>3. TrailLeft(l, s, a) = Cardinality(L) /\ TrailLeft(k, s, a) = Cardinality(K)
  BY DEF TrailLeft
<1> HIDE DEF L, K
<1>4. IsFiniteSet(L \union {e}) /\ Cardinality(L \union {e}) <= Cardinality(L) + 1
  <2>1. /\ IsFiniteSet(L \union {e})
        /\ Cardinality(L \union {e}) = IF e \in L THEN Cardinality(L) ELSE Cardinality(L) + 1
    BY <1>2, FS_AddElement
  <2> QED BY <1>2, <2>1
<1>5. IsFiniteSet(K) /\ Cardinality(K) <= Cardinality(L \union {e})
  BY <1>1, <1>4, FS_Subset
<1>6. Cardinality(K) \in Nat /\ Cardinality(L \union {e}) \in Nat
  BY <1>4, <1>5, FS_CardinalityType
<1> QED BY <1>2, <1>3, <1>4, <1>5, <1>6

\* A list leaves out nothing of itself.
LEMMA LeftNone ==
  ASSUME NEW l, NEW a
  PROVE  TrailLeft(l, l, a) = 0
<1>1. Trail!Range(l) \ (Trail!Range(l) \union a) = {}
  OBVIOUS
<1> QED BY <1>1, FS_EmptySet DEF TrailLeft

\* What a file that is read back gives.
LEMMA TrailLoaded ==
  ASSUME NEW f, Trail!Content(f)
  PROVE  /\ Trail!Loaded(f) \in Seq(Trail!Entry)
         /\ f \in Seq(Trail!Entry) => Trail!Loaded(f) = f
  BY TrailAssumption DEF Trail!Content, Trail!Loaded

\* The entries that are in the hands of some thread.
LEMMA TrailInHand ==
  \A x : x \in Trail!InHand <=>
           \E t \in Thread : x \in evicted[t] \/ (x = entry[t] /\ entry[t] # 0)
  BY DEF Trail!InHand

\* What the invariant says of the files.
LEMMA TrailDurable == ASSUME TrailInv PROVE Trail!Durable
<1> SUFFICES ASSUME \A t \in Thread : pc[t] \in {"idle", "lock"}, ~disturbed
             PROVE  TrailLeft(list, Trail!Loaded(main), archive) <= SaveEvery - 1
  BY TrailCardinality DEF Trail!Durable, TrailLeft
<1>1. \A t \in Thread : ~TrailPending(t)
  BY DEF TrailInv, TrailShape
<1>2. TrailLeft(list, Trail!Loaded(main), archive) <= count
  BY <1>1 DEF TrailInv, TrailOrder
<1>3. list \in Seq(Trail!Entry) /\ count \in 0 .. (SaveEvery - 1)
  BY DEF TrailInv, Trail!TypeOK
<1>4. TrailLeft(list, Trail!Loaded(main), archive) \in Nat
  BY <1>3, LeftType
<1>5. count \in Nat /\ count <= SaveEvery - 1 /\ SaveEvery \in Nat
  BY <1>3, TrailAssumption
<1> QED BY <1>2, <1>4, <1>5

\* The invariant holds before anything has happened.
LEMMA TrailInit == ASSUME Trail!Init PROVE TrailInv
<1>1. << >> \in Seq(Trail!Entry) /\ Len(<< >>) = 0
  OBVIOUS
<1>2. Trail!TypeOK
  <2>1. /\ pc \in [Thread -> {"idle", "lock", "archive"} \union Trail!Saving]
        /\ entry \in [Thread -> 0..MaxLogged] /\ evicted \in [Thread -> SUBSET Trail!Entry]
        /\ fd \in [Thread -> {"none", "tmp", "main", "gone"}]
    BY TrailAssumption DEF Trail!Init
  <2>2. \A t \in Thread : snapshot[t] \in Seq(Trail!Entry)
    BY <1>1 DEF Trail!Init
  <2>3. /\ list \in Seq(Trail!Entry) /\ Len(list) <= MaxEntries
        /\ queue \in Seq(Trail!Entry) /\ Len(queue) <= Capacity
        /\ batch \in Seq(Trail!Entry) /\ Len(batch) <= MaxBatch
    BY <1>1, TrailAssumption DEF Trail!Init
  <2>4. count \in 0..(SaveEvery - 1) /\ logged \in 0..MaxLogged /\ faults \in 0..MaxFaults
    BY TrailAssumption DEF Trail!Init
  <2>5. Trail!Content(tmp) /\ Trail!Content(main) /\ archive \subseteq Trail!Entry
    BY DEF Trail!Init, Trail!Content
  <2>6. lost \subseteq Trail!Entry /\ disturbed \in BOOLEAN
    BY DEF Trail!Init
  <2> QED BY <2>1, <2>2, <2>3, <2>4, <2>5, <2>6 DEF Trail!TypeOK
<1>3. TrailShape
  BY <1>1 DEF Trail!Init, TrailShape, TrailPending, Trail!Saving
<1>4. Trail!HistoryKept
  BY DEF Trail!Init, Trail!HistoryKept
<1>5. TrailOrder
  <2>1. Trail!Loaded(main) = << >> /\ list = << >> /\ count = 0
    BY DEF Trail!Init, Trail!Loaded
  <2> QED BY <2>1, LeftNone DEF Trail!Init, TrailOrder, TrailPending, TrailOpened, TrailLatest
<1> QED BY <1>2, <1>3, <1>4, <1>5 DEF TrailInv

\* An entry comes; the sink's task takes what it can.
LEMMA TrailEmit ==
  ASSUME TrailInv, NEW t \in Thread, Trail!Emit(t)
  PROVE  TrailInv'
<1> USE DEF Trail!Emit, Trail!Set, Trail!Goto
<1>0. Trail!TypeOK /\ TrailShape /\ Trail!HistoryKept /\ (~disturbed => TrailOrder)
  BY DEF TrailInv
<1>1. Trail!TypeOK'
  <2>1. logged + 1 \in Trail!Entry /\ logged' \in 0..MaxLogged
    BY <1>0, TrailAssumption DEF Trail!TypeOK, Trail!Entry
  <2>2. queue' \in Seq(Trail!Entry) /\ Len(queue') <= Capacity
    BY <1>0, <2>1, TrailAssumption DEF Trail!TypeOK
  <2>3. pc' \in [Thread -> {"idle", "lock", "archive"} \union Trail!Saving]
    BY <1>0 DEF Trail!TypeOK
  <2>4. entry' \in [Thread -> 0..MaxLogged]
    BY <1>0, <2>1 DEF Trail!TypeOK, Trail!Entry
  <2>5. UNCHANGED <<evicted, snapshot, fd, list, count, tmp, main, archive, batch, lost, faults, disturbed>>
    BY DEF Trail!files
  <2>6. (Trail!Content(tmp) /\ Trail!Content(main))'
    BY <1>0, <2>5 DEF Trail!TypeOK, Trail!Content
  <2> HIDE DEF Trail!Emit
  <2> QED BY <1>0, <2>1, <2>2, <2>3, <2>4, <2>5, <2>6 DEF Trail!TypeOK
<1>2. TrailShape'
  <2>1. /\ pc[t] = "idle" /\ pc' = [pc EXCEPT ![t] = "lock"] /\ entry' = [entry EXCEPT ![t] = logged + 1]
        /\ UNCHANGED <<snapshot, fd, evicted>> /\ logged \in Nat
    BY <1>0 DEF Trail!TypeOK
  <2> HIDE DEF Trail!Emit
  <2>2. \A u \in Thread : u # t => pc'[u] = pc[u] /\ entry'[u] = entry[u]
    BY <1>0, <2>1 DEF Trail!TypeOK
  <2>3. pc'[t] = "lock" /\ entry'[t] # 0
    BY <1>0, <2>1 DEF Trail!TypeOK
  <2>4. \A u \in Thread :
          /\ pc[u] \in {"idle", "lock"} => ~TrailPending(u)
          /\ pc[u] \in Trail!Saving => TrailPending(u)
          /\ IF pc[u] = "lock" THEN entry[u] # 0 ELSE entry[u] = 0
          /\ pc[u] # "archive" => evicted[u] = {}
    BY <1>0 DEF TrailShape
  <2>5. ~TrailPending(t) /\ evicted[t] = {}
    BY <2>1, <2>4
  <2>6. "lock" \notin Trail!Saving
    BY DEF Trail!Saving
  <2>7. \A u \in Thread : TrailPending(u)' <=> TrailPending(u)
    BY <2>1 DEF TrailPending
  <2>8. snapshot' \in [Thread -> Seq(Trail!Entry)]
    BY <1>0, <2>1 DEF TrailShape, Trail!Entry
  <2>9. ASSUME NEW u \in Thread
        PROVE  /\ (pc[u] \in {"idle", "lock"} => ~TrailPending(u))'
               /\ (pc[u] \in Trail!Saving => TrailPending(u))'
               /\ (IF pc[u] = "lock" THEN entry[u] # 0 ELSE entry[u] = 0)'
               /\ (pc[u] # "archive" => evicted[u] = {})'
    <3>1. CASE u = t
      BY <3>1, <2>1, <2>3, <2>5, <2>6, <2>7 DEF Trail!Saving
    <3>2. CASE u # t
      BY <3>2, <2>1, <2>2, <2>4, <2>7 DEF Trail!Saving
    <3> QED BY <3>1, <3>2
  <2> QED BY <2>8, <2>9 DEF TrailShape
<1>3. Trail!HistoryKept'
  <2> SUFFICES ASSUME NEW x \in 1..logged'
               PROVE  x \in (Trail!Range(list) \union archive \union Trail!InHand \union lost)'
    BY DEF Trail!HistoryKept
  <2>1. CASE x = logged + 1
    <3>1. entry'[t] = x /\ x # 0
      BY <1>0, <2>1 DEF Trail!TypeOK
    <3> QED BY <3>1, TrailInHand DEF Trail!InHand
  <2>2. CASE x # logged + 1
    <3>1. x \in 1..logged
      BY <1>0, <2>2 DEF Trail!TypeOK
    <3>2. CASE x \in Trail!InHand
      <4>1. PICK u \in Thread : x \in evicted[u] \/ (x = entry[u] /\ entry[u] # 0)
        BY <3>2, TrailInHand
      <4>2. evicted'[u] = evicted[u] /\ (u # t => entry'[u] = entry[u]) /\ entry[t] = 0
        BY <1>0 DEF Trail!TypeOK, TrailShape
      <4> QED BY <4>1, <4>2 DEF Trail!InHand
    <3>3. UNCHANGED <<list, archive, lost>>
      BY DEF Trail!files
    <3> QED BY <1>0, <3>1, <3>2, <3>3 DEF Trail!HistoryKept
  <2> QED BY <2>1, <2>2
<1>4. ASSUME ~disturbed' PROVE TrailOrder'
  <2>0. ~disturbed
    BY <1>4, Zenon
  <2>1. TrailOrder /\ UNCHANGED <<snapshot, fd, tmp, list, archive, count, main>>
    BY <1>0, <2>0 DEF Trail!files
  <2>2. \A u \in Thread : TrailOpened(u)' => TrailOpened(u) /\ pc'[u] = pc[u]
    BY <1>0 DEF Trail!TypeOK, TrailOpened
  <2>3. \A u \in Thread : (TrailPending(u)' <=> TrailPending(u)) /\ (TrailOpened(u) => TrailOpened(u)')
    BY <1>0, <2>1 DEF Trail!TypeOK, TrailOpened, TrailPending
  <2> HIDE DEF Trail!Emit
  <2> QED BY <2>1, <2>2, <2>3 DEF TrailOrder, TrailLatest, Trail!Loaded
<1> QED BY <1>1, <1>2, <1>3, <1>4 DEF TrailInv

\* The list after a push, cut to its length.
LEMMA TrailPushed ==
  ASSUME list \in Seq(Trail!Entry), Len(list) <= MaxEntries,
         NEW t \in Thread, entry[t] \in Trail!Entry
  PROVE  LET kept == IF Trail!Full(t) THEN SubSeq(Trail!Pushed(t), 1, Len(list)) ELSE Trail!Pushed(t) IN
         /\ kept \in Seq(Trail!Entry) /\ Len(kept) <= MaxEntries /\ kept # << >>
         /\ Trail!Range(kept) \subseteq Trail!Range(Trail!Pushed(t))
         /\ Trail!Range(Trail!Pushed(t)) = Trail!Range(list) \union {entry[t]}
         /\ Trail!Range(Trail!Pushed(t)) \subseteq Trail!Entry
<1> DEFINE p == Trail!Pushed(t)
<1>1. p = <<entry[t]>> \o list /\ <<entry[t]>> \in Seq(Trail!Entry)
  BY DEF Trail!Pushed
<1>2. p \in Seq(Trail!Entry) /\ Len(p) = Len(list) + 1
  BY <1>1
<1>3. p[1] = entry[t] /\ \A i \in 1..Len(list) : p[i + 1] = list[i]
  BY <1>1
<1>4. Trail!Range(p) = Trail!Range(list) \union {entry[t]}
  <2>1. ASSUME NEW x \in Trail!Range(p) PROVE x \in Trail!Range(list) \union {entry[t]}
    <3>1. PICK i \in 1..Len(p) : x = p[i]
      BY <1>2 DEF Trail!Range
    <3>2. CASE i = 1
      BY <1>3, <3>1, <3>2
    <3>3. CASE i # 1
      <4>1. i - 1 \in 1..Len(list) /\ p[(i - 1) + 1] = p[i]
        BY <1>2, <3>1, <3>3
      <4>2. x = list[i - 1]
        BY <1>3, <3>1, <4>1
      <4> QED BY <4>1, <4>2 DEF Trail!Range
    <3> QED BY <3>2, <3>3
  <2>2. entry[t] \in Trail!Range(p)
    <3>1. 1 \in DOMAIN p
      BY <1>2
    <3> QED BY <1>3, <3>1 DEF Trail!Range
  <2>3. ASSUME NEW x \in Trail!Range(list) PROVE x \in Trail!Range(p)
    <3>1. PICK i \in 1..Len(list) : x = list[i]
      BY DEF Trail!Range
    <3>2. i + 1 \in DOMAIN p /\ p[i + 1] = x
      BY <1>2, <1>3, <3>1
    <3> QED BY <3>2 DEF Trail!Range
  <2> QED BY <2>1, <2>2, <2>3
<1>5. Trail!Range(p) \subseteq Trail!Entry
  BY <1>2, TrailToSet
<1> HIDE DEF p
<1>6. CASE Trail!Full(t)
  <2> DEFINE k == SubSeq(p, 1, Len(list))
  <2>1. Len(p) > MaxEntries
    BY <1>6 DEF Trail!Full, p
  <2>2. k = SubSeq(p, 1, Len(p) - 1)
    BY <1>2
  <2>3. k \in Seq(Trail!Entry) /\ Len(k) = Len(list) /\ Len(list) = MaxEntries
        /\ \A i \in 1..Len(list) : k[i] = p[i]
    BY <1>2, <2>1, <2>2, TrailAssumption
  <2>4. k # << >>
    BY <2>3, TrailAssumption
  <2> HIDE DEF k
  <2>5. Trail!Range(k) \subseteq Trail!Range(p)
    BY <1>2, <2>3 DEF Trail!Range
  <2> QED BY <1>4, <1>5, <1>6, <2>3, <2>4, <2>5, TrailAssumption DEF k, p
<1>7. CASE ~Trail!Full(t)
  <2>1. Len(p) <= MaxEntries
    BY <1>2, <1>7, TrailAssumption DEF Trail!Full, p
  <2>2. p # << >>
    BY <1>2
  <2> QED BY <1>2, <1>4, <1>5, <1>7, <2>1, <2>2 DEF p
<1> QED BY <1>6, <1>7

\* The critical section.
LEMMA TrailPush ==
  ASSUME TrailInv, NEW t \in Thread, Trail!Push(t)
  PROVE  TrailInv'
<1> DEFINE p == Trail!Pushed(t)
           k == IF Trail!Full(t) THEN SubSeq(p, 1, Len(list)) ELSE p
<1>0. Trail!TypeOK /\ TrailShape /\ Trail!HistoryKept /\ (~disturbed => TrailOrder)
  BY DEF TrailInv
<1>a. pc[t] = "lock" /\ entry[t] \in Trail!Entry /\ ~TrailPending(t) /\ evicted[t] = {}
  <2>1. pc[t] = "lock"
    BY DEF Trail!Push
  <2>2. entry[t] # 0 /\ ~TrailPending(t) /\ evicted[t] = {}
    BY <1>0, <2>1 DEF TrailShape
  <2>3. entry[t] \in 0..MaxLogged
    BY <1>0 DEF Trail!TypeOK
  <2> QED BY <2>1, <2>2, <2>3, TrailAssumption DEF Trail!Entry
<1>k. /\ k \in Seq(Trail!Entry) /\ Len(k) <= MaxEntries /\ k # << >>
      /\ Trail!Range(k) \subseteq Trail!Range(p)
      /\ Trail!Range(p) = Trail!Range(list) \union {entry[t]}
      /\ Trail!Range(p) \subseteq Trail!Entry
  BY <1>0, <1>a, TrailPushed DEF Trail!TypeOK
<1>b. /\ list' = k /\ count' = IF Trail!Due THEN 0 ELSE count + 1
      /\ evicted' = [evicted EXCEPT ![t] = Trail!Range(p) \ Trail!Range(k)]
      /\ snapshot' = [snapshot EXCEPT ![t] = IF Trail!Due THEN k ELSE << >>]
      /\ entry' = [entry EXCEPT ![t] = 0]
      /\ pc' = [pc EXCEPT ![t] = IF Trail!Full(t) THEN "archive" ELSE IF Trail!Due THEN "open" ELSE "idle"]
      /\ UNCHANGED <<fd, tmp, main, archive, queue, batch, logged, lost, faults, disturbed>>
  BY DEF Trail!Push, Trail!Set, Trail!Goto, Trail!files, Trail!sinkVars
<1>c. ~Trail!Full(t) => k = p
  OBVIOUS
<1> HIDE DEF p, k
<1>1. Trail!TypeOK'
  <2>1. pc' \in [Thread -> {"idle", "lock", "archive"} \union Trail!Saving]
    BY <1>0, <1>b DEF Trail!TypeOK, Trail!Saving
  <2>2. evicted' \in [Thread -> SUBSET Trail!Entry] /\ entry' \in [Thread -> 0..MaxLogged]
    BY <1>0, <1>b, <1>k, TrailAssumption DEF Trail!TypeOK
  <2>3. \A u \in Thread : snapshot'[u] \in Seq(Trail!Entry)
    <3>1. << >> \in Seq(Trail!Entry)
      OBVIOUS
    <3> QED BY <1>0, <1>b, <1>k, <3>1 DEF TrailShape
  <2>4. count' \in 0..(SaveEvery - 1)
    BY <1>0, <1>b, TrailAssumption DEF Trail!TypeOK, Trail!Due
  <2>5. (Trail!Content(tmp) /\ Trail!Content(main))'
    BY <1>0, <1>b DEF Trail!TypeOK, Trail!Content
  <2> QED BY <1>0, <1>b, <1>k, <2>1, <2>2, <2>3, <2>4, <2>5 DEF Trail!TypeOK
<1>2. TrailShape'
  <2>1. snapshot' \in [Thread -> Seq(Trail!Entry)]
    <3>1. << >> \in Seq(Trail!Entry)
      OBVIOUS
    <3> QED BY <1>0, <1>b, <1>k, <3>1 DEF TrailShape
  <2>2. ASSUME NEW u \in Thread, u # t
        PROVE  pc'[u] = pc[u] /\ snapshot'[u] = snapshot[u] /\ entry'[u] = entry[u] /\ evicted'[u] = evicted[u]
    BY <1>b, <2>2
  <2>3. /\ pc'[t] = IF Trail!Full(t) THEN "archive" ELSE IF Trail!Due THEN "open" ELSE "idle"
        /\ snapshot'[t] = IF Trail!Due THEN k ELSE << >>
        /\ entry'[t] = 0 /\ evicted'[t] = Trail!Range(p) \ Trail!Range(k)
    BY <1>0, <1>b DEF Trail!TypeOK, TrailShape
  <2>4. ~Trail!Full(t) => evicted'[t] = {}
    BY <1>c, <2>3
  <2>5. /\ pc'[t] \in {"idle", "lock"} => ~TrailPending(t)'
        /\ pc'[t] \in Trail!Saving => TrailPending(t)'
        /\ pc'[t] # "lock" /\ entry'[t] = 0
        /\ pc'[t] # "archive" => evicted'[t] = {}
    BY <1>k, <2>3, <2>4 DEF TrailPending, Trail!Saving
  <2>6. ASSUME NEW u \in Thread, u # t
        PROVE  /\ pc'[u] \in {"idle", "lock"} => ~TrailPending(u)'
               /\ pc'[u] \in Trail!Saving => TrailPending(u)'
               /\ IF pc'[u] = "lock" THEN entry'[u] # 0 ELSE entry'[u] = 0
               /\ pc'[u] # "archive" => evicted'[u] = {}
    BY <1>0, <2>2, <2>6 DEF TrailShape, TrailPending
  <2> QED BY <2>1, <2>5, <2>6 DEF TrailShape
<1>3. Trail!HistoryKept'
  <2> SUFFICES ASSUME NEW x \in 1..logged
               PROVE  x \in (Trail!Range(list) \union archive \union Trail!InHand \union lost)'
    BY <1>b DEF Trail!HistoryKept
  <2>1. \A u \in Thread : u # t => evicted'[u] = evicted[u] /\ entry'[u] = entry[u]
    BY <1>0, <1>b DEF Trail!TypeOK
  <2>2. evicted'[t] = Trail!Range(p) \ Trail!Range(k)
    BY <1>0, <1>b DEF Trail!TypeOK
  <2>3. CASE x \in Trail!Range(p)
    BY <1>b, <2>2, <2>3 DEF Trail!InHand
  <2>4. CASE x \in Trail!InHand /\ x \notin Trail!Range(p)
    <3>1. PICK u \in Thread : x \in evicted[u] \/ (x = entry[u] /\ entry[u] # 0)
      BY <2>4, TrailInHand
    <3>2. u # t
      BY <1>a, <1>k, <2>4, <3>1
    <3> QED BY <2>1, <3>1, <3>2 DEF Trail!InHand
  <2>5. x \in Trail!Range(p) \/ x \in archive \/ x \in Trail!InHand \/ x \in lost
    BY <1>0, <1>k DEF Trail!HistoryKept
  <2> QED BY <1>b, <2>3, <2>4, <2>5
<1>4. ASSUME ~disturbed' PROVE TrailOrder'
  <2>1. TrailOrder
    BY <1>0, <1>b, <1>4
  <2>2. \A u \in Thread : u # t => pc'[u] = pc[u] /\ snapshot'[u] = snapshot[u]
    BY <1>b
  <2>3. pc'[t] \in {"archive", "open", "idle"} /\ snapshot'[t] = IF Trail!Due THEN k ELSE << >>
    BY <1>0, <1>b DEF Trail!TypeOK, TrailShape
  <2>4. ~TrailOpened(t) /\ ~TrailOpened(t)'
    BY <1>a, <2>3 DEF TrailOpened
  <2>5. \A u \in Thread : TrailOpened(u)' <=> TrailOpened(u)
    BY <2>2, <2>4 DEF TrailOpened
  <2>6. \A u \in Thread : u # t => (TrailPending(u)' <=> TrailPending(u))
    BY <2>2 DEF TrailPending
  <2>7. TrailPending(t)' <=> Trail!Due
    BY <1>k, <2>3 DEF TrailPending
  <2>8. \A s : TrailLeft(list', s, archive') <= TrailLeft(list, s, archive) + 1 /\ TrailLeft(list, s, archive) \in Nat /\ TrailLeft(list', s, archive') \in Nat
    BY <1>0, <1>b, <1>k, LeftGrows, LeftType DEF Trail!TypeOK
  <2>9. \A u \in Thread : TrailOpened(u)' =>
          /\ fd'[u] = "tmp" /\ tmp' = IF pc'[u] = "write" THEN Torn ELSE snapshot'[u]
          /\ \A v \in Thread : TrailOpened(v)' => v = u
    BY <1>b, <2>1, <2>2, <2>4, <2>5 DEF TrailOrder
  <2>10. ASSUME NEW u \in Thread, TrailLatest(u)' PROVE TrailLeft(list', snapshot'[u], archive') <= count'
    <3>1. CASE Trail!Due
      <4>1. u = t
        BY <2>4, <2>7, <3>1, <2>10 DEF TrailLatest
      <4>2. snapshot'[u] = list' /\ count' = 0
        BY <1>b, <2>3, <3>1, <4>1
      <4> QED BY <4>2, LeftNone
    <3>2. CASE ~Trail!Due
      <4>1. u # t /\ TrailLatest(u)
        BY <1>a, <2>5, <2>6, <2>7, <3>2, <2>10 DEF TrailLatest
      <4>2. TrailLeft(list, snapshot[u], archive) <= count /\ count' = count + 1 /\ snapshot'[u] = snapshot[u] /\ count \in Nat
        BY <1>0, <1>b, <2>1, <2>2, <3>2, <4>1 DEF TrailOrder, Trail!TypeOK
      <4> QED BY <2>8, <4>2
    <3> QED BY <3>1, <3>2
  <2>11. ASSUME \A u \in Thread : ~TrailPending(u)' PROVE TrailLeft(list', Trail!Loaded(main'), archive') <= count'
    <3>1. ~Trail!Due /\ \A u \in Thread : ~TrailPending(u)
      BY <1>a, <2>6, <2>7, <2>11
    <3>2. TrailLeft(list, Trail!Loaded(main), archive) <= count /\ count' = count + 1 /\ main' = main /\ count \in Nat
      BY <1>0, <1>b, <2>1, <3>1 DEF TrailOrder, Trail!TypeOK
    <3>3. TrailLeft(list', Trail!Loaded(main), archive') <= TrailLeft(list, Trail!Loaded(main), archive) + 1
          /\ TrailLeft(list, Trail!Loaded(main), archive) \in Nat /\ TrailLeft(list', Trail!Loaded(main), archive') \in Nat
      BY <2>8
    <3> QED BY <3>2, <3>3
  <2> QED BY <2>9, <2>10, <2>11 DEF TrailOrder, Trail!Loaded
<1> QED BY <1>1, <1>2, <1>3, <1>4 DEF TrailInv

\* The evicted entries go to the archive: it has them then, and nobody in
\* hand.
LEMMA TrailArchive ==
  ASSUME TrailInv, NEW t \in Thread, Trail!Archive(t)
  PROVE  TrailInv'
<1>0. Trail!TypeOK /\ TrailShape /\ Trail!HistoryKept /\ (~disturbed => TrailOrder)
  BY DEF TrailInv
<1>a. /\ pc[t] = "archive" /\ evicted' = [evicted EXCEPT ![t] = {}]
      /\ \/ archive' = archive \union evicted[t] /\ UNCHANGED <<lost, faults>>
         \/ lost' = lost \union evicted[t] /\ UNCHANGED archive /\ faults < MaxFaults /\ faults' = faults + 1
      /\ pc' = [pc EXCEPT ![t] = IF TrailPending(t) THEN "open" ELSE "idle"]
      /\ UNCHANGED <<entry, snapshot, fd, list, count, tmp, main, queue, batch, logged, disturbed>>
  BY DEF Trail!Archive, Trail!Set, Trail!Goto, Trail!Fault, Trail!sinkVars, TrailPending
<1>b. evicted[t] \subseteq Trail!Entry
  BY <1>0 DEF Trail!TypeOK
<1>1. Trail!TypeOK'
  <2>1. pc' \in [Thread -> {"idle", "lock", "archive"} \union Trail!Saving]
    BY <1>0, <1>a DEF Trail!TypeOK, Trail!Saving
  <2>2. evicted' \in [Thread -> SUBSET Trail!Entry]
    BY <1>0, <1>a DEF Trail!TypeOK
  <2>3. archive' \subseteq Trail!Entry /\ lost' \subseteq Trail!Entry
    BY <1>0, <1>a, <1>b DEF Trail!TypeOK
  <2>4. faults' \in 0..MaxFaults
    BY <1>0, <1>a, TrailAssumption DEF Trail!TypeOK
  <2>5. (Trail!Content(tmp) /\ Trail!Content(main))'
    BY <1>0, <1>a DEF Trail!TypeOK, Trail!Content
  <2> QED BY <1>0, <1>a, <2>1, <2>2, <2>3, <2>4, <2>5 DEF Trail!TypeOK
<1>c. \A u \in Thread : u # t => pc'[u] = pc[u] /\ evicted'[u] = evicted[u]
  BY <1>0, <1>a DEF Trail!TypeOK
<1>d. pc'[t] = (IF TrailPending(t) THEN "open" ELSE "idle") /\ evicted'[t] = {}
  BY <1>0, <1>a DEF Trail!TypeOK
<1>e. \A u \in Thread : TrailPending(u)' <=> TrailPending(u)
  BY <1>a DEF TrailPending
<1>2. TrailShape'
  <2>1. entry[t] = 0
    BY <1>0, <1>a DEF TrailShape
  <2> QED BY <1>0, <1>a, <1>c, <1>d, <1>e, <2>1 DEF TrailShape, Trail!Saving
<1>3. Trail!HistoryKept'
  <2> SUFFICES ASSUME NEW x \in 1..logged
               PROVE  x \in (Trail!Range(list) \union archive \union Trail!InHand \union lost)'
    BY <1>a DEF Trail!HistoryKept
  <2>1. CASE x \in Trail!InHand
    <3>1. PICK u \in Thread : x \in evicted[u] \/ (x = entry[u] /\ entry[u] # 0)
      BY <2>1, TrailInHand
    <3>2. CASE u = t /\ x \in evicted[t]
      BY <1>a, <3>2
    <3>3. CASE u # t \/ x \notin evicted[t]
      <4>1. x \in evicted'[u] \/ (x = entry'[u] /\ entry'[u] # 0)
        BY <1>a, <1>c, <3>1, <3>3
      <4> QED BY <4>1 DEF Trail!InHand
    <3> QED BY <3>1, <3>2, <3>3
  <2> QED BY <1>0, <1>a, <2>1 DEF Trail!HistoryKept
<1>4. ASSUME ~disturbed' PROVE TrailOrder'
  <2>1. TrailOrder
    BY <1>0, <1>a, <1>4
  <2>2. \A u \in Thread : TrailOpened(u)' <=> TrailOpened(u)
    BY <1>a, <1>c, <1>d DEF TrailOpened
  <2>3. \A u \in Thread : TrailOpened(u) => pc'[u] = pc[u]
    BY <1>a, <1>c DEF TrailOpened
  <2>4. \A u \in Thread : TrailLatest(u)' <=> TrailLatest(u)
    BY <1>e, <2>2 DEF TrailLatest
  <2>5. archive \subseteq archive'
    BY <1>a
  <2>6. \A s : /\ TrailLeft(list, s, archive') <= TrailLeft(list, s, archive)
               /\ TrailLeft(list, s, archive) \in Nat /\ TrailLeft(list, s, archive') \in Nat
    BY <1>0, <2>5, LeftShrinks, LeftType DEF Trail!TypeOK
  <2>7. \A s : TrailLeft(list, s, archive) <= count => TrailLeft(list', s, archive') <= count'
    <3>1. list' = list /\ count' = count /\ count \in Nat
      BY <1>0, <1>a DEF Trail!TypeOK
    <3> QED BY <2>6, <3>1
  <2>8. \A u \in Thread : TrailOpened(u)' =>
          /\ fd'[u] = "tmp" /\ tmp' = IF pc'[u] = "write" THEN Torn ELSE snapshot'[u]
          /\ \A v \in Thread : TrailOpened(v)' => v = u
    BY <1>a, <2>1, <2>2, <2>3 DEF TrailOrder
  <2>9. \A u \in Thread : TrailLatest(u)' => TrailLeft(list', snapshot'[u], archive') <= count'
    BY <1>a, <2>1, <2>4, <2>7 DEF TrailOrder
  <2>10. (\A u \in Thread : ~TrailPending(u)') => TrailLeft(list', Trail!Loaded(main'), archive') <= count'
    BY <1>a, <1>e, <2>1, <2>7 DEF TrailOrder
  <2> QED BY <2>8, <2>9, <2>10 DEF TrailOrder, Trail!Loaded
<1> QED BY <1>1, <1>2, <1>3, <1>4 DEF TrailInv

\* Steps that touch no entry keep the history.
LEMMA TrailHistory ==
  ASSUME Trail!HistoryKept,
         UNCHANGED <<list, archive, evicted, entry, logged, lost>>
  PROVE  Trail!HistoryKept'
BY DEF Trail!HistoryKept, Trail!InHand

\* A save opens the temporary file: it is disturbed when another save is
\* pending.
LEMMA TrailOpen ==
  ASSUME TrailInv, NEW t \in Thread, Trail!Open(t)
  PROVE  TrailInv'
<1>0. Trail!TypeOK /\ TrailShape /\ Trail!HistoryKept /\ (~disturbed => TrailOrder)
  BY DEF TrailInv
<1>a. /\ pc[t] = "open" /\ pc' = [pc EXCEPT ![t] = "write"]
      /\ tmp' = Torn /\ fd' = [fd EXCEPT ![t] = "tmp"]
      /\ UNCHANGED <<entry, evicted, snapshot, list, count, main, archive, queue, batch, logged, lost, faults>>
  BY DEF Trail!Open, Trail!Set, Trail!Goto, Trail!sinkVars
<1>b. disturbed' = (disturbed \/ \E u \in Thread \ {t} : TrailPending(u))
  BY DEF Trail!Open, TrailPending
<1>1. Trail!TypeOK'
  <2>1. /\ pc' \in [Thread -> {"idle", "lock", "archive"} \union Trail!Saving]
        /\ fd' \in [Thread -> {"none", "tmp", "main", "gone"}]
    BY <1>0, <1>a DEF Trail!TypeOK, Trail!Saving
  <2>2. disturbed' \in BOOLEAN
    BY <1>0, <1>b, Zenon DEF Trail!TypeOK
  <2>3. (Trail!Content(tmp) /\ Trail!Content(main))'
    BY <1>0, <1>a DEF Trail!TypeOK, Trail!Content
  <2> QED BY <1>0, <1>a, <2>1, <2>2, <2>3 DEF Trail!TypeOK
<1>c. pc'[t] = "write" /\ fd'[t] = "tmp" /\ \A u \in Thread : u # t => pc'[u] = pc[u]
  BY <1>0, <1>a DEF Trail!TypeOK
<1>2. TrailShape'
  BY <1>0, <1>a, <1>c DEF TrailShape, TrailPending, Trail!Saving
<1>3. Trail!HistoryKept'
  BY <1>0, <1>a, TrailHistory
<1>4. ASSUME ~disturbed' PROVE TrailOrder'
  <2>1. ~disturbed /\ \A u \in Thread \ {t} : ~TrailPending(u)
    BY <1>b, <1>4, Zenon
  <2>2. TrailOrder
    BY <1>0, <2>1
  <2>3. TrailPending(t)
    BY <1>0, <1>a DEF TrailShape, Trail!Saving
  <2>4. \A u \in Thread : TrailPending(u)' <=> u = t
    BY <1>a, <2>1, <2>3 DEF TrailPending
  <2>5. \A u \in Thread : TrailOpened(u)' <=> u = t
    <3>1. \A u \in Thread : TrailOpened(u) => TrailPending(u)
      BY <1>0 DEF TrailShape, TrailOpened, Trail!Saving
    <3> QED BY <1>c, <2>1, <3>1 DEF TrailOpened
  <2>6. TrailLatest(t)
    BY <2>1, <2>3 DEF TrailLatest
  <2>7. TrailLeft(list', snapshot'[t], archive') <= count'
    BY <1>a, <2>2, <2>6 DEF TrailOrder
  <2>8. \A u \in Thread : TrailLatest(u)' => u = t
    BY <2>4 DEF TrailLatest
  <2>9. \A u \in Thread : TrailOpened(u)' =>
          /\ fd'[u] = "tmp" /\ tmp' = IF pc'[u] = "write" THEN Torn ELSE snapshot'[u]
          /\ \A v \in Thread : TrailOpened(v)' => v = u
    BY <1>a, <1>c, <2>5
  <2> QED BY <2>4, <2>7, <2>8, <2>9 DEF TrailOrder
<1> QED BY <1>1, <1>2, <1>3, <1>4 DEF TrailInv

\* The copy is written to the temporary file.
LEMMA TrailWrite ==
  ASSUME TrailInv, NEW t \in Thread, Trail!Write(t)
  PROVE  TrailInv'
<1>0. Trail!TypeOK /\ TrailShape /\ Trail!HistoryKept /\ (~disturbed => TrailOrder)
  BY DEF TrailInv
<1>a. /\ pc[t] = "write" /\ pc' = [pc EXCEPT ![t] = "rename"]
      /\ UNCHANGED <<entry, evicted, snapshot, fd, list, count, archive, queue, batch, logged, lost, faults, disturbed>>
  BY DEF Trail!Write, Trail!Set, Trail!Goto, Trail!sinkVars
<1>b. /\ tmp' \in {tmp, snapshot[t], Torn} /\ main' \in {main, snapshot[t], Torn}
  BY DEF Trail!Write, Trail!Leaves
<1>1. Trail!TypeOK'
  <2>1. pc' \in [Thread -> {"idle", "lock", "archive"} \union Trail!Saving]
    BY <1>0, <1>a DEF Trail!TypeOK, Trail!Saving
  <2>2. snapshot[t] \in Seq(Trail!Entry)
    BY <1>0 DEF TrailShape
  <2>3. Trail!Content(tmp')
    BY <1>0, <1>b, <2>2 DEF Trail!TypeOK, Trail!Content
  <2>4. Trail!Content(main')
    BY <1>0, <1>b, <2>2 DEF Trail!TypeOK, Trail!Content
  <2> QED BY <1>0, <1>a, <2>1, <2>3, <2>4 DEF Trail!TypeOK, Trail!Content
<1>c. pc'[t] = "rename" /\ \A u \in Thread : u # t => pc'[u] = pc[u]
  BY <1>0, <1>a DEF Trail!TypeOK
<1>2. TrailShape'
  BY <1>0, <1>a, <1>c DEF TrailShape, TrailPending, Trail!Saving
<1>3. Trail!HistoryKept'
  BY <1>0, <1>a, TrailHistory
<1>4. ASSUME ~disturbed' PROVE TrailOrder'
  <2>1. TrailOrder
    BY <1>0, <1>a, <1>4
  <2>2. TrailOpened(t) /\ fd[t] = "tmp" /\ tmp = Torn /\ \A u \in Thread : TrailOpened(u) => u = t
    BY <1>a, <2>1 DEF TrailOrder, TrailOpened
  <2>3. tmp' = snapshot[t] /\ main' = main
    BY <2>2 DEF Trail!Write, Trail!Leaves
  <2>4. \A u \in Thread : (TrailOpened(u)' <=> TrailOpened(u)) /\ (TrailPending(u)' <=> TrailPending(u))
    BY <1>a, <1>c DEF TrailOpened, TrailPending
  <2>5. \A u \in Thread : TrailLatest(u)' <=> TrailLatest(u)
    BY <2>4 DEF TrailLatest
  <2> QED BY <1>a, <1>c, <2>1, <2>2, <2>3, <2>4, <2>5 DEF TrailOrder, Trail!Loaded
<1> QED BY <1>1, <1>2, <1>3, <1>4 DEF TrailInv

\* The temporary file takes the place of the main one.
LEMMA TrailRename ==
  ASSUME TrailInv, NEW t \in Thread, Trail!Rename(t)
  PROVE  TrailInv'
<1>0. Trail!TypeOK /\ TrailShape /\ Trail!HistoryKept /\ (~disturbed => TrailOrder)
  BY DEF TrailInv
<1>a. /\ pc[t] = "rename" /\ pc' = [pc EXCEPT ![t] = "idle"]
      /\ snapshot' = [snapshot EXCEPT ![t] = << >>]
      /\ UNCHANGED <<entry, evicted, list, count, archive, queue, batch, logged, lost, faults, disturbed>>
  BY DEF Trail!Rename, Trail!Saved, Trail!Set, Trail!Goto, Trail!sinkVars
<1>b. /\ tmp' \in {tmp, None} /\ main' \in {main, tmp}
  BY DEF Trail!Rename
<1>d. fd' \in [Thread -> {"none", "tmp", "main", "gone"}]
  <2>1. \A u \in Thread : fd[u] \in {"none", "tmp", "main", "gone"}
    BY <1>0 DEF Trail!TypeOK
  <2>2. CASE tmp = None
    BY <1>0, <2>2 DEF Trail!Rename, Trail!Set, Trail!TypeOK
  <2>3. CASE tmp # None
    BY <2>1, <2>3 DEF Trail!Rename
  <2> QED BY <2>2, <2>3
<1>1. Trail!TypeOK'
  <2>1. pc' \in [Thread -> {"idle", "lock", "archive"} \union Trail!Saving]
    BY <1>0, <1>a DEF Trail!TypeOK, Trail!Saving
  <2>2. \A u \in Thread : snapshot'[u] \in Seq(Trail!Entry)
    <3>1. << >> \in Seq(Trail!Entry)
      OBVIOUS
    <3> QED BY <1>0, <1>a, <3>1 DEF TrailShape
  <2>3. Trail!Content(tmp')
    BY <1>0, <1>b DEF Trail!TypeOK, Trail!Content
  <2>4. Trail!Content(main')
    BY <1>0, <1>b DEF Trail!TypeOK, Trail!Content
  <2> QED BY <1>0, <1>a, <1>d, <2>1, <2>2, <2>3, <2>4 DEF Trail!TypeOK, Trail!Content
<1>c. /\ pc'[t] = "idle" /\ snapshot'[t] = << >>
      /\ \A u \in Thread : u # t => pc'[u] = pc[u] /\ snapshot'[u] = snapshot[u]
  BY <1>0, <1>a DEF Trail!TypeOK, TrailShape
<1>2. TrailShape'
  <2>1. snapshot' \in [Thread -> Seq(Trail!Entry)]
    <3>1. << >> \in Seq(Trail!Entry)
      OBVIOUS
    <3> QED BY <1>0, <1>a, <3>1 DEF TrailShape
  <2> QED BY <1>0, <1>a, <1>c, <2>1 DEF TrailShape, TrailPending, Trail!Saving
<1>3. Trail!HistoryKept'
  BY <1>0, <1>a, TrailHistory
<1>4. ASSUME ~disturbed' PROVE TrailOrder'
  <2>1. TrailOrder
    BY <1>0, <1>a, <1>4
  <2>2. TrailOpened(t) /\ tmp = snapshot[t] /\ TrailPending(t) /\ \A u \in Thread : TrailOpened(u) => u = t
    BY <1>0, <1>a, <2>1 DEF TrailOrder, TrailOpened, TrailShape, Trail!Saving
  <2>3. snapshot[t] \in Seq(Trail!Entry) /\ snapshot[t] # None
    BY <1>0, TrailAssumption DEF TrailShape
  <2>4. main' = snapshot[t]
    BY <2>2, <2>3 DEF Trail!Rename
  <2>5. Trail!Loaded(main') = snapshot[t]
    BY <2>3, <2>4, TrailAssumption DEF Trail!Loaded
  <2>6. \A u \in Thread : ~TrailOpened(u)'
    BY <1>c, <2>2 DEF TrailOpened
  <2>7. \A u \in Thread : TrailPending(u)' <=> TrailPending(u) /\ u # t
    BY <1>c DEF TrailPending
  <2>8. ASSUME NEW u \in Thread, TrailLatest(u)' PROVE TrailLeft(list', snapshot'[u], archive') <= count'
    <3>1. u # t /\ TrailPending(u) /\ \A v \in Thread \ {u} : TrailPending(v) => v = t
      BY <2>6, <2>7, <2>8 DEF TrailLatest
    <3>2. ~TrailOpened(u)
      BY <2>2, <3>1
    <3>3. TrailLatest(u)
      BY <2>2, <3>1, <3>2 DEF TrailLatest
    <3> QED BY <1>a, <1>c, <2>1, <3>1, <3>3 DEF TrailOrder
  <2>9. ASSUME \A u \in Thread : ~TrailPending(u)' PROVE TrailLeft(list', Trail!Loaded(main'), archive') <= count'
    <3>1. TrailLatest(t)
      BY <2>2, <2>7, <2>9 DEF TrailLatest
    <3> QED BY <1>a, <2>1, <2>5, <3>1 DEF TrailOrder
  <2> QED BY <2>6, <2>8, <2>9 DEF TrailOrder, Trail!Loaded
<1> QED BY <1>1, <1>2, <1>3, <1>4 DEF TrailInv

\* A save that fails leaves the file as it is.
LEMMA TrailSaveFails ==
  ASSUME TrailInv, NEW t \in Thread, Trail!SaveFails(t)
  PROVE  TrailInv'
<1>0. Trail!TypeOK /\ TrailShape /\ Trail!HistoryKept
  BY DEF TrailInv
<1>a. /\ pc[t] \in Trail!Saving /\ pc' = [pc EXCEPT ![t] = "idle"]
      /\ snapshot' = [snapshot EXCEPT ![t] = << >>] /\ tmp' = None /\ disturbed' = TRUE
      /\ faults < MaxFaults /\ faults' = faults + 1
      /\ UNCHANGED <<entry, evicted, list, count, main, archive, queue, batch, logged, lost>>
  BY DEF Trail!SaveFails, Trail!Saved, Trail!Set, Trail!Goto, Trail!sinkVars, Trail!Fault
<1>d. fd' \in [Thread -> {"none", "tmp", "main", "gone"}]
  <2>1. \A u \in Thread : fd[u] \in {"none", "tmp", "main", "gone"}
    BY <1>0 DEF Trail!TypeOK
  <2> QED BY <2>1 DEF Trail!SaveFails
<1>1. Trail!TypeOK'
  <2>1. pc' \in [Thread -> {"idle", "lock", "archive"} \union Trail!Saving]
    BY <1>0, <1>a DEF Trail!TypeOK, Trail!Saving
  <2>2. \A u \in Thread : snapshot'[u] \in Seq(Trail!Entry)
    <3>1. << >> \in Seq(Trail!Entry)
      OBVIOUS
    <3> QED BY <1>0, <1>a, <3>1 DEF TrailShape
  <2>3. Trail!Content(tmp')
    BY <1>a DEF Trail!Content
  <2>4. faults' \in 0..MaxFaults
    BY <1>0, <1>a, TrailAssumption DEF Trail!TypeOK
  <2>5. disturbed' \in BOOLEAN
    BY <1>a
  <2> QED BY <1>0, <1>a, <1>d, <2>1, <2>2, <2>3, <2>4, <2>5 DEF Trail!TypeOK, Trail!Content
<1>c. /\ pc'[t] = "idle" /\ snapshot'[t] = << >>
      /\ \A u \in Thread : u # t => pc'[u] = pc[u] /\ snapshot'[u] = snapshot[u]
  BY <1>0, <1>a DEF Trail!TypeOK, TrailShape
<1>2. TrailShape'
  <2>1. snapshot' \in [Thread -> Seq(Trail!Entry)]
    <3>1. << >> \in Seq(Trail!Entry)
      OBVIOUS
    <3> QED BY <1>0, <1>a, <3>1 DEF TrailShape
  <2>2. entry[t] = 0 /\ evicted[t] = {}
    BY <1>0, <1>a DEF TrailShape, Trail!Saving
  <2> QED BY <1>0, <1>a, <1>c, <2>1, <2>2 DEF TrailShape, TrailPending, Trail!Saving
<1>3. Trail!HistoryKept'
  BY <1>0, <1>a, TrailHistory
<1> QED BY <1>a, <1>1, <1>2, <1>3 DEF TrailInv

\* The list is read back: it lacks nothing of itself.
LEMMA TrailRestart ==
  ASSUME TrailInv, NEW content, Trail!Content(content), Trail!Restart(content),
         Len(Trail!Loaded(content)) <= MaxEntries,
         UNCHANGED <<archive, logged, disturbed>>,
         lost' \subseteq Trail!Entry, faults' \in 0..MaxFaults,
         (Trail!Range(list) \union Trail!InHand \union lost) \subseteq
           (Trail!Range(Trail!Loaded(content)) \union archive \union lost')
  PROVE  TrailInv'
<1>0. Trail!TypeOK /\ Trail!HistoryKept
  BY DEF TrailInv
<1>1. Trail!Loaded(content) \in Seq(Trail!Entry)
  BY TrailLoaded
<1>a. << >> \in Seq(Trail!Entry) /\ Len(<< >>) = 0
  OBVIOUS
<1>2. Trail!TypeOK'
  <2>1. /\ pc' \in [Thread -> {"idle", "lock", "archive"} \union Trail!Saving]
        /\ entry' \in [Thread -> 0..MaxLogged] /\ evicted' \in [Thread -> SUBSET Trail!Entry]
        /\ fd' \in [Thread -> {"none", "tmp", "main", "gone"}]
    BY TrailAssumption DEF Trail!Restart
  <2>2. \A t \in Thread : snapshot'[t] \in Seq(Trail!Entry)
    BY <1>a DEF Trail!Restart
  <2>3. /\ list' \in Seq(Trail!Entry) /\ Len(list') <= MaxEntries
        /\ queue' \in Seq(Trail!Entry) /\ Len(queue') <= Capacity
        /\ batch' \in Seq(Trail!Entry) /\ Len(batch') <= MaxBatch
    BY <1>1, <1>a, TrailAssumption DEF Trail!Restart
  <2>4. count' \in 0..(SaveEvery - 1)
    BY TrailAssumption DEF Trail!Restart
  <2>5. Trail!Content(tmp') /\ Trail!Content(main')
    BY DEF Trail!Restart, Trail!Content
  <2> QED BY <1>0, <2>1, <2>2, <2>3, <2>4, <2>5 DEF Trail!TypeOK, Trail!Content
<1>3. TrailShape'
  BY <1>a DEF Trail!Restart, TrailShape, TrailPending, Trail!Saving
<1>4. Trail!HistoryKept'
  BY <1>0 DEF Trail!HistoryKept, Trail!Restart
<1>5. TrailOrder'
  <2>1. list' = Trail!Loaded(main') /\ count' = 0
    BY DEF Trail!Restart, Trail!Loaded
  <2>2. TrailLeft(list', Trail!Loaded(main'), archive') <= count'
    BY <2>1, LeftNone
  <2>3. \A t \in Thread : ~TrailOpened(t)' /\ ~TrailPending(t)'
    BY DEF Trail!Restart, TrailOpened, TrailPending
  <2> QED BY <2>2, <2>3 DEF TrailOrder, TrailLatest, Trail!Loaded
<1> QED BY <1>2, <1>3, <1>4, <1>5 DEF TrailInv

\* No copy of the list is longer than the list may be.
TrailFits(f) == Len(Trail!Loaded(f)) <= MaxEntries
\* All copies fit.
TrailShort ==
  TrailFits(main) /\ TrailFits(tmp) /\ \A t \in Thread : TrailFits(snapshot[t])

\* They fit at the start.
LEMMA TrailShortInit == ASSUME Trail!Init PROVE TrailShort
<1>1. Len(<< >>) = 0
  OBVIOUS
<1>2. main = None /\ tmp = None /\ \A t \in Thread : snapshot[t] = << >>
  BY DEF Trail!Init
<1>3. \A t \in Thread : Trail!Loaded(snapshot[t]) = << >>
  BY <1>2 DEF Trail!Loaded
<1>4. Trail!Loaded(main) = << >> /\ Trail!Loaded(tmp) = << >>
  BY <1>2 DEF Trail!Loaded
<1> QED BY <1>1, <1>3, <1>4, TrailAssumption DEF TrailShort, TrailFits

\* No file and a file cut short are read as an empty list.
LEMMA ShortEmpty == TrailFits(<< >>) /\ TrailFits(None) /\ TrailFits(Torn)
<1>1. Trail!Loaded(<< >>) = << >> /\ Trail!Loaded(None) = << >> /\ Trail!Loaded(Torn) = << >>
  BY DEF Trail!Loaded
<1>2. Len(<< >>) = 0
  OBVIOUS
<1> QED BY <1>1, <1>2, TrailAssumption DEF TrailFits

\* Nor do steps that write no copy change that.
LEMMA TrailShortSame ==
  ASSUME TrailShort, UNCHANGED <<snapshot, tmp, main>>
  PROVE  TrailShort'
BY DEF TrailShort, TrailFits, Trail!Loaded

\* Files and copies change places, and none of them grows.
LEMMA TrailShortMoves ==
  ASSUME TrailShort,
         tmp' \in {tmp, None, Torn} \union {snapshot[t] : t \in Thread},
         main' \in {main, tmp, Torn} \union {snapshot[t] : t \in Thread},
         \A t \in Thread : snapshot'[t] \in {snapshot[t], << >>}
  PROVE  TrailShort'
<1>1. TrailFits(tmp')
  BY ShortEmpty DEF TrailShort
<1>2. TrailFits(main')
  BY ShortEmpty DEF TrailShort
<1>3. \A t \in Thread : TrailFits(snapshot'[t])
  BY ShortEmpty DEF TrailShort
<1> QED BY <1>1, <1>2, <1>3 DEF TrailShort, TrailFits, Trail!Loaded

\* The copy that a push takes has been cut.
LEMMA TrailShortPush ==
  ASSUME TrailInv, TrailShort, NEW t \in Thread, Trail!Push(t)
  PROVE  TrailShort'
<1> DEFINE p == Trail!Pushed(t)
           k == IF Trail!Full(t) THEN SubSeq(p, 1, Len(list)) ELSE p
<1>1. pc[t] = "lock" /\ Trail!TypeOK /\ snapshot \in [Thread -> Seq(Trail!Entry)] /\ entry[t] \in Trail!Entry
  <2>1. pc[t] = "lock" /\ Trail!TypeOK /\ snapshot \in [Thread -> Seq(Trail!Entry)]
    BY DEF Trail!Push, TrailInv, TrailShape
  <2>2. entry[t] # 0 /\ entry[t] \in 0..MaxLogged
    BY <2>1 DEF TrailInv, TrailShape, Trail!TypeOK
  <2> QED BY <2>1, <2>2, TrailAssumption DEF Trail!Entry
<1>2. k \in Seq(Trail!Entry) /\ Len(k) <= MaxEntries
  BY <1>1, TrailPushed DEF Trail!TypeOK
<1>3. /\ snapshot' = [snapshot EXCEPT ![t] = IF Trail!Due THEN k ELSE << >>]
      /\ UNCHANGED <<tmp, main>>
  BY DEF Trail!Push, Trail!Set, Trail!files
<1> HIDE DEF k, p
<1>4. TrailFits(k)
  <2>1. k # None /\ k # Torn
    BY <1>2, TrailAssumption
  <2> QED BY <1>2, <2>1 DEF TrailFits, Trail!Loaded
<1>5. \A u \in Thread : snapshot'[u] \in {snapshot[u], << >>, k}
  BY <1>1, <1>3
<1>6. \A u \in Thread : TrailFits(snapshot'[u])
  BY <1>4, <1>5, ShortEmpty DEF TrailShort
<1>7. TrailFits(tmp') /\ TrailFits(main')
  BY <1>3 DEF TrailShort
<1> QED BY <1>6, <1>7 DEF TrailShort, TrailFits, Trail!Loaded

\* The copy that a restart reads.
LEMMA TrailShortRestart ==
  ASSUME TrailShort, NEW content, TrailFits(content), Trail!Restart(content)
  PROVE  TrailShort'
<1>1. main' = content /\ tmp' = None /\ \A t \in Thread : snapshot'[t] = << >>
  BY DEF Trail!Restart
<1>2. TrailFits(main') /\ TrailFits(tmp') /\ \A t \in Thread : TrailFits(snapshot'[t])
  BY <1>1, ShortEmpty
<1> QED BY <1>2 DEF TrailShort, TrailFits, Trail!Loaded

\* A crash: what was in the memory is lost, and the main file read back.
LEMMA TrailCrash ==
  ASSUME TrailInv, TrailShort, Trail!Crash
  PROVE  TrailInv'
<1>0. Trail!TypeOK /\ Trail!Content(main)
  BY DEF TrailInv, Trail!TypeOK
<1>1. /\ Trail!Restart(main)
      /\ lost' = lost \union ((Trail!InHand \union Trail!Range(list))
                              \ (Trail!Range(Trail!Loaded(main)) \union archive))
      /\ faults < MaxFaults /\ faults' = faults + 1
      /\ UNCHANGED <<archive, logged, disturbed>>
  BY DEF Trail!Crash, Trail!Fault
<1>2. Trail!InHand \subseteq Trail!Entry
  <2>1. ASSUME NEW x \in Trail!InHand PROVE x \in Trail!Entry
    <3>1. PICK t \in Thread : x \in evicted[t] \/ (x = entry[t] /\ entry[t] # 0)
      BY TrailInHand
    <3>2. evicted[t] \subseteq Trail!Entry /\ entry[t] \in 0..MaxLogged
      BY <1>0 DEF Trail!TypeOK
    <3> QED BY <3>1, <3>2, TrailAssumption DEF Trail!Entry
  <2> QED BY <2>1
<1>3. Trail!Range(list) \subseteq Trail!Entry
  BY <1>0, TrailToSet DEF Trail!TypeOK
<1>4. lost' \subseteq Trail!Entry /\ faults' \in 0..MaxFaults
  BY <1>0, <1>1, <1>2, <1>3, TrailAssumption DEF Trail!TypeOK
<1>5. Len(Trail!Loaded(main)) <= MaxEntries
  BY DEF TrailShort, TrailFits
<1>6. (Trail!Range(list) \union Trail!InHand \union lost) \subseteq
         (Trail!Range(Trail!Loaded(main)) \union archive \union lost')
  BY <1>1
<1>7. Trail!Content(main)
  BY <1>0
<1> QED BY <1>1, <1>4, <1>5, <1>6, <1>7, TrailRestart

\* An orderly stop writes the list once more.
LEMMA TrailStop ==
  ASSUME TrailInv, Trail!Stop
  PROVE  TrailInv' /\ TrailFits(list)
<1>0. Trail!TypeOK /\ list \in Seq(Trail!Entry) /\ Len(list) <= MaxEntries
  BY DEF TrailInv, Trail!TypeOK
<1>1. /\ Trail!Restart(list) /\ \A t \in Thread : pc[t] = "idle"
      /\ UNCHANGED <<archive, logged, lost, faults, disturbed>>
  BY DEF Trail!Stop, Trail!DropSaved
<1>2. Trail!Content(list) /\ Trail!Loaded(list) = list
  <2>1. Trail!Content(list)
    BY <1>0 DEF Trail!Content
  <2> QED BY <1>0, <2>1, TrailLoaded
<1>3. Trail!InHand = {}
  <2>1. \A t \in Thread : evicted[t] = {} /\ entry[t] = 0
    BY <1>1 DEF TrailInv, TrailShape
  <2> QED BY <2>1, TrailInHand
<1>4. lost' \subseteq Trail!Entry /\ faults' \in 0..MaxFaults
  BY <1>0, <1>1 DEF Trail!TypeOK
<1>5. Len(Trail!Loaded(list)) <= MaxEntries
  BY <1>0, <1>2
<1>6. (Trail!Range(list) \union Trail!InHand \union lost) \subseteq
         (Trail!Range(Trail!Loaded(list)) \union archive \union lost')
  BY <1>1, <1>2, <1>3
<1>7. TrailInv'
  BY <1>1, <1>2, <1>4, <1>5, <1>6, TrailRestart
<1> QED BY <1>5, <1>7 DEF TrailFits

\* The sink's task moves entries, and no thread's state.
LEMMA TrailSink ==
  ASSUME TrailInv,
         UNCHANGED <<pc, entry, evicted, snapshot, fd, list, count, tmp, main, archive, logged, lost,
                     faults, disturbed>>,
         queue' \in Seq(Trail!Entry), Len(queue') <= Capacity,
         batch' \in Seq(Trail!Entry), Len(batch') <= MaxBatch
  PROVE  TrailInv'
<1>0. Trail!TypeOK /\ TrailShape /\ Trail!HistoryKept /\ (~disturbed => TrailOrder)
  BY DEF TrailInv
<1>1. Trail!TypeOK'
  BY <1>0 DEF Trail!TypeOK, Trail!Content
<1>2. TrailShape'
  BY <1>0 DEF TrailShape, TrailPending
<1>3. Trail!HistoryKept'
  BY <1>0, TrailHistory
<1>4. ASSUME ~disturbed' PROVE TrailOrder'
  <2>0. ~disturbed
    BY <1>4, Zenon
  <2> QED BY <1>0, <2>0 DEF TrailOrder, TrailLatest, TrailOpened, TrailPending, Trail!Loaded
<1> QED BY <1>1, <1>2, <1>3, <1>4 DEF TrailInv

\* Every step of AuditTrail keeps the invariant.
LEMMA TrailStep ==
  ASSUME TrailInv, TrailShort, [Trail!Next]_(Trail!vars)
  PROVE  TrailInv' /\ TrailShort'
<1>t. Trail!TypeOK
  BY DEF TrailInv
<1>0. CASE UNCHANGED Trail!vars
  <2>1. UNCHANGED <<pc, entry, evicted, snapshot, fd, list, count, tmp, main, archive, queue, batch,
                    logged, lost, faults, disturbed>>
    BY <1>0 DEF Trail!vars, Trail!threadVars, Trail!files, Trail!sinkVars
  <2>2. /\ queue' \in Seq(Trail!Entry) /\ Len(queue') <= Capacity
        /\ batch' \in Seq(Trail!Entry) /\ Len(batch') <= MaxBatch
    BY <1>t, <2>1 DEF Trail!TypeOK
  <2> QED BY <2>1, <2>2, TrailSink, TrailShortSame
<1>1. ASSUME NEW t \in Thread, Trail!Emit(t) PROVE TrailInv' /\ TrailShort'
  <2>1. UNCHANGED <<snapshot, tmp, main>>
    BY <1>1 DEF Trail!Emit, Trail!files
  <2> QED BY <1>1, <2>1, TrailEmit, TrailShortSame
<1>2. ASSUME NEW t \in Thread, Trail!Push(t) PROVE TrailInv' /\ TrailShort'
  BY <1>2, TrailPush, TrailShortPush
<1>3. ASSUME NEW t \in Thread, Trail!Archive(t) PROVE TrailInv' /\ TrailShort'
  <2>1. UNCHANGED <<snapshot, tmp, main>>
    BY <1>3 DEF Trail!Archive
  <2> QED BY <1>3, <2>1, TrailArchive, TrailShortSame
<1>4. ASSUME NEW t \in Thread, Trail!Open(t) PROVE TrailInv' /\ TrailShort'
  <2>1. tmp' = Torn /\ UNCHANGED <<snapshot, main>>
    BY <1>4 DEF Trail!Open
  <2>2. TrailShort'
    BY <2>1, TrailShortMoves
  <2> QED BY <1>4, <2>2, TrailOpen
<1>5. ASSUME NEW t \in Thread, Trail!Write(t) PROVE TrailInv' /\ TrailShort'
  <2>1. /\ tmp' \in {tmp, snapshot[t], Torn} /\ main' \in {main, snapshot[t], Torn}
        /\ UNCHANGED snapshot
    BY <1>5 DEF Trail!Write, Trail!Leaves
  <2>2. TrailShort'
    BY <2>1, TrailShortMoves
  <2> QED BY <1>5, <2>2, TrailWrite
<1>6. ASSUME NEW t \in Thread, Trail!Rename(t) PROVE TrailInv' /\ TrailShort'
  <2>1. /\ tmp' \in {tmp, None} /\ main' \in {main, tmp}
        /\ snapshot' = [snapshot EXCEPT ![t] = << >>]
    BY <1>6 DEF Trail!Rename, Trail!Saved, Trail!Set
  <2>2. \A u \in Thread : snapshot'[u] \in {snapshot[u], << >>}
    BY <2>1 DEF TrailInv, TrailShape
  <2>3. TrailShort'
    BY <2>1, <2>2, TrailShortMoves
  <2> QED BY <1>6, <2>3, TrailRename
<1>7. ASSUME NEW t \in Thread, Trail!SaveFails(t) PROVE TrailInv' /\ TrailShort'
  <2>1. /\ tmp' = None /\ main' = main
        /\ snapshot' = [snapshot EXCEPT ![t] = << >>]
    BY <1>7 DEF Trail!SaveFails, Trail!Saved, Trail!Set
  <2>2. \A u \in Thread : snapshot'[u] \in {snapshot[u], << >>}
    BY <2>1 DEF TrailInv, TrailShape
  <2>3. TrailShort'
    BY <2>1, <2>2, TrailShortMoves
  <2> QED BY <1>7, <2>3, TrailSaveFails
<1>8. ASSUME Trail!Crash PROVE TrailInv' /\ TrailShort'
  <2>1. Trail!Restart(main) /\ TrailFits(main)
    BY <1>8 DEF Trail!Crash, TrailShort
  <2>2. TrailShort'
    BY <2>1, TrailShortRestart
  <2> QED BY <1>8, <2>2, TrailCrash
<1>9. ASSUME Trail!Stop PROVE TrailInv' /\ TrailShort'
  <2>1. Trail!Restart(list)
    BY <1>9 DEF Trail!Stop, Trail!DropSaved
  <2>2. TrailInv' /\ TrailFits(list)
    BY <1>9, TrailStop
  <2> QED BY <2>1, <2>2, TrailShortRestart
<1>10. ASSUME Trail!Collect PROVE TrailInv' /\ TrailShort'
  <2>1. /\ queue # << >> /\ Len(batch) < MaxBatch
        /\ batch' = Append(batch, Head(queue)) /\ queue' = Tail(queue)
        /\ UNCHANGED <<pc, entry, evicted, snapshot, fd, list, count, tmp, main, archive, logged, lost,
                       faults, disturbed>>
    BY <1>10 DEF Trail!Collect, Trail!threadVars, Trail!files
  <2>2. /\ queue \in Seq(Trail!Entry) /\ Len(queue) <= Capacity
        /\ batch \in Seq(Trail!Entry)
    BY <1>t DEF Trail!TypeOK
  <2>3. /\ queue' \in Seq(Trail!Entry) /\ Len(queue') <= Capacity
        /\ batch' \in Seq(Trail!Entry) /\ Len(batch') <= MaxBatch
    BY <2>1, <2>2, TrailAssumption
  <2> QED BY <2>1, <2>3, TrailSink, TrailShortSame
<1>11. ASSUME Trail!Flush PROVE TrailInv' /\ TrailShort'
  <2>1. /\ batch' = << >>
        /\ UNCHANGED <<pc, entry, evicted, snapshot, fd, list, count, tmp, main, archive, queue, logged,
                       lost, faults, disturbed>>
    BY <1>11 DEF Trail!Flush, Trail!threadVars, Trail!files
  <2>2. << >> \in Seq(Trail!Entry) /\ Len(<< >>) = 0
    OBVIOUS
  <2>3. /\ queue' \in Seq(Trail!Entry) /\ Len(queue') <= Capacity
        /\ batch' \in Seq(Trail!Entry) /\ Len(batch') <= MaxBatch
    BY <1>t, <2>1, <2>2, TrailAssumption DEF Trail!TypeOK
  <2> QED BY <2>1, <2>3, TrailSink, TrailShortSame
<1> QED BY <1>0, <1>1, <1>2, <1>3, <1>4, <1>5, <1>6, <1>7, <1>8, <1>9, <1>10, <1>11
        DEF Trail!Next, Trail!Log

\* A behaviour about AuditTrail takes its steps and no others.
LEMMA TrailPart ==
  ASSUME part = "trail", [Next]_vars
  PROVE  [Trail!Next]_(Trail!vars)
<1>1. CASE Next
  BY <1>1 DEF Next
<1>2. CASE UNCHANGED vars
  <2>1. UNCHANGED <<pc, entry, evicted, snapshot, fd, list, count, tmp, main, archive, queue, batch,
                    logged, lost, faults, disturbed>>
    BY <1>2, Zenon DEF vars
  <2> QED BY <2>1 DEF Trail!vars, Trail!threadVars, Trail!files, Trail!sinkVars
<1> QED BY <1>1, <1>2

\* It starts as AuditTrail does.
LEMMA TrailStart == ASSUME Init, part = "trail" PROVE Trail!Init
  BY DEF Init

\* Every audit entry is in the list, in the archive, in the hands of a
\* thread or lost with a crash or a failed write; and until two saves
\* overlap, the file on the disk lacks no more than the entries since the
\* last save (audit.rs).
THEOREM SafetyOfTrail == Spec => []TrailKept
<1> DEFINE I == part = "trail" => TrailInv /\ TrailShort
<1>1. Init => I
  BY TrailStart, TrailInit, TrailShortInit
<1>2. I /\ [Next]_vars => I'
  <2> SUFFICES ASSUME I, [Next]_vars, part' = "trail" PROVE TrailInv' /\ TrailShort'
    OBVIOUS
  <2> QED BY PartStays, TrailPart, TrailStep
<1>3. I => TrailKept
  BY TrailDurable DEF TrailKept, TrailInv
<1> QED BY <1>1, <1>2, <1>3, PTL DEF Spec

------------------------------------------------------------------------------
(* EnvFile: the call at the file has read it as it is, unless two were      *)
(* there at once.                                                           *)

\* What a call is to set.
EnvJob == [var : Env!Var, secret : Phrase, create : BOOLEAN]
EnvBusy(c) == pc[c] \in {"open", "write", "rename"}

\* A call at the file knows what it is to set, and what it has read.
EnvShape ==
  /\ job \in [Task -> EnvJob \union {None}]
  /\ \A c \in Task : /\ pc[c] # "idle" => job[c] \in EnvJob
                     /\ EnvBusy(c) => base[c] \in Env!Content

\* What a call takes the file for.
EnvRead == IF file \in {None, Torn} THEN Env!Empty ELSE file

\* Until two calls have been at the file at once: whoever is at it has read the
\* file as it is, and has the temporary file to itself.
EnvOrder ==
  /\ file = meant /\ file # Torn
  /\ \A c \in Task : EnvBusy(c) =>
       /\ base[c] = EnvRead /\ \A d \in Task : EnvBusy(d) => d = c
       /\ pc[c] # "open" => fd[c] = "tmp"
       /\ pc[c] = "write" => tmp = Torn
       /\ pc[c] = "rename" => tmp = Env!Edited(c)

\* The invariant.
EnvInv == Env!TypeOK /\ EnvShape /\ (~clash => EnvOrder)

\* It keeps the file.
LEMMA EnvKeeps == ASSUME EnvInv PROVE Env!EnvKept
  BY Zenon DEF EnvInv, EnvOrder, Env!EnvKept

\* The empty file.
LEMMA EnvEmpty == Env!Empty \in Env!Content
  BY DEF Env!Empty, Env!Content

\* The parts of the type invariant that a step may touch.
LEMMA EnvTyped ==
  ASSUME pc' \in [Task -> {"idle"} \union Env!AtFile], job' \in [Task -> EnvJob \union {None}],
         base' \in [Task -> Env!Content \union {None}],
         fd' \in [Task -> {"none", "tmp", "file", "gone"}],
         file' \in Env!Content \union {Torn, None}, tmp' \in Env!Content \union {Torn, None},
         meant' \in Env!Content \union {None}, clash' \in BOOLEAN, faults' \in 0..MaxFaults
  PROVE  Env!TypeOK'
<1>1. \A c \in Task : job'[c] \in [var : Env!Var, secret : Phrase, create : BOOLEAN] \union {None}
  BY DEF EnvJob
<1>2. {file', tmp'} \subseteq Env!Content \union {Torn, None}
  OBVIOUS
<1> QED BY <1>1, <1>2 DEF Env!TypeOK

\* The variables of the file.
LEMMA EnvTypes ==
  ASSUME Env!TypeOK
  PROVE  /\ pc \in [Task -> {"idle"} \union Env!AtFile]
         /\ base \in [Task -> Env!Content \union {None}]
         /\ fd \in [Task -> {"none", "tmp", "file", "gone"}]
         /\ file \in Env!Content \union {Torn, None} /\ tmp \in Env!Content \union {Torn, None}
         /\ meant \in Env!Content \union {None} /\ clash \in BOOLEAN /\ faults \in 0..MaxFaults
  BY DEF Env!TypeOK

\* The invariant holds before anything has happened.
LEMMA EnvInit == ASSUME Env!Init PROVE EnvInv
<1>1. file \in {None, Env!Empty} /\ meant = file /\ tmp = None /\ clash = FALSE /\ faults = 0
  BY DEF Env!Init
<1>2. /\ pc = [c \in Task |-> "idle"] /\ job = [c \in Task |-> None]
      /\ base = [c \in Task |-> None] /\ fd = [c \in Task |-> "none"]
  BY DEF Env!Init
<1>3. Env!TypeOK
  <2>1. \A c \in Task : job[c] \in [var : Env!Var, secret : Phrase, create : BOOLEAN] \union {None}
    BY <1>2
  <2>2. {file, tmp} \subseteq Env!Content \union {Torn, None} /\ meant \in Env!Content \union {None}
    BY <1>1, EnvEmpty
  <2>3. /\ pc \in [Task -> {"idle"} \union Env!AtFile] /\ base \in [Task -> Env!Content \union {None}]
        /\ fd \in [Task -> {"none", "tmp", "file", "gone"}]
    BY <1>2
  <2>4. clash \in BOOLEAN
    BY <1>1
  <2>5. faults \in 0..MaxFaults
    BY <1>1, EnvAssumption
  <2> QED BY <2>1, <2>2, <2>3, <2>4, <2>5 DEF Env!TypeOK
<1>4. EnvShape
  BY <1>2 DEF EnvShape, EnvBusy
<1>5. EnvOrder
  BY <1>1, <1>2, EnvEmpty, EnvAssumption DEF EnvOrder, EnvBusy
<1> QED BY <1>3, <1>4, <1>5 DEF EnvInv

\* A call that is not at the file comes or goes.
LEMMA EnvAside ==
  ASSUME EnvInv, NEW c \in Task, ~EnvBusy(c),
         NEW p \in {"idle", "read"}, pc' = [pc EXCEPT ![c] = p],
         NEW j \in EnvJob \union {None}, job' = [job EXCEPT ![c] = j], p = "read" => j \in EnvJob,
         base' \in {base, [base EXCEPT ![c] = None]}, fd' \in {fd, [fd EXCEPT ![c] = "none"]},
         UNCHANGED <<file, tmp, meant, clash>>, faults' \in 0..MaxFaults
  PROVE  EnvInv'
<1>0. Env!TypeOK /\ EnvShape /\ (~clash => EnvOrder)
  BY DEF EnvInv
<1>1. /\ pc'[c] = p /\ job'[c] = j
      /\ \A d \in Task : d # c => /\ pc'[d] = pc[d] /\ job'[d] = job[d]
                                 /\ base'[d] = base[d] /\ fd'[d] = fd[d]
  BY <1>0, EnvTypes DEF EnvShape
<1>2. Env!TypeOK'
  <2>1. /\ pc' \in [Task -> {"idle"} \union Env!AtFile] /\ job' \in [Task -> EnvJob \union {None}]
    BY <1>0, EnvTypes DEF EnvShape, Env!AtFile
  <2>2. base' \in [Task -> Env!Content \union {None}]
    BY <1>0, EnvTypes
  <2>3. fd' \in [Task -> {"none", "tmp", "file", "gone"}]
    BY <1>0, EnvTypes
  <2> QED BY <1>0, <2>1, <2>2, <2>3, EnvTypes, EnvTyped
<1>3. \A d \in Task : EnvBusy(d)' <=> EnvBusy(d)
  BY <1>1 DEF EnvBusy
<1>4. EnvShape'
  <2>1. job' \in [Task -> EnvJob \union {None}]
    BY <1>0 DEF EnvShape
  <2> QED BY <1>0, <1>1, <1>3, <2>1 DEF EnvShape, EnvBusy
<1>5. ASSUME ~clash' PROVE EnvOrder'
  <2>1. EnvOrder
    BY <1>0, <1>5, Zenon
  <2>2. \A d \in Task : EnvBusy(d) => /\ d # c /\ pc'[d] = pc[d] /\ base'[d] = base[d] /\ fd'[d] = fd[d]
                                     /\ Env!Edited(d)' = Env!Edited(d)
    BY <1>1 DEF Env!Edited
  <2> QED BY <1>3, <2>1, <2>2 DEF EnvOrder, EnvRead
<1> QED BY <1>2, <1>4, <1>5 DEF EnvInv

\* A call begins.
LEMMA EnvBegin ==
  ASSUME EnvInv, NEW c \in Task, Env!Begin(c)
  PROVE  EnvInv'
<1>0. Env!TypeOK
  BY DEF EnvInv
<1>1. PICK j \in EnvJob : job' = [job EXCEPT ![c] = j]
  BY DEF Env!Begin, Env!Set, EnvJob
<1>2. /\ pc[c] = "idle" /\ pc' = [pc EXCEPT ![c] = "read"]
      /\ UNCHANGED <<base, fd, file, tmp, meant, clash, faults>>
  BY DEF Env!Begin, Env!Set, Env!Goto
<1> QED BY <1>0, <1>1, <1>2, EnvAside, EnvTypes DEF EnvBusy

\* It reads the file as it is, or there are two at the file.
LEMMA EnvReadFile ==
  ASSUME EnvInv, NEW c \in Task, Env!ReadFile(c)
  PROVE  EnvInv'
<1>0. Env!TypeOK /\ EnvShape /\ (~clash => EnvOrder)
  BY DEF EnvInv
<1>1. pc[c] = "read" /\ UNCHANGED <<file, tmp, meant, faults>>
  BY DEF Env!ReadFile
<1>2. CASE file = None /\ ~job[c].create
  BY <1>0, <1>1, <1>2, EnvAside, EnvTypes DEF Env!ReadFile, Env!Ended, Env!Set, Env!Goto, EnvBusy
<1>3. CASE ~(file = None /\ ~job[c].create)
  <2>1. /\ base' = [base EXCEPT ![c] = EnvRead] /\ pc' = [pc EXCEPT ![c] = "open"]
        /\ UNCHANGED <<job, fd>>
    BY <1>3 DEF Env!ReadFile, Env!Set, Env!Goto, EnvRead
  <2>2. clash' = (clash \/ Env!Busy(c))
    BY <1>3, Zenon DEF Env!ReadFile
  <2>3. EnvRead \in Env!Content
    BY <1>0, EnvEmpty, EnvTypes DEF EnvRead
  <2>4. /\ pc'[c] = "open" /\ base'[c] = EnvRead
        /\ \A d \in Task : d # c => pc'[d] = pc[d] /\ base'[d] = base[d]
    BY <1>0, <2>1, EnvTypes
  <2>5. Env!TypeOK'
    <3>1. clash' \in BOOLEAN
      BY <1>0, <2>2, EnvTypes, Zenon
    <3>2. pc' \in [Task -> {"idle"} \union Env!AtFile] /\ base' \in [Task -> Env!Content \union {None}]
      BY <1>0, <2>1, <2>3, EnvTypes DEF Env!AtFile
    <3> QED BY <1>0, <1>1, <2>1, <3>1, <3>2, EnvTypes, EnvTyped DEF EnvShape
  <2>6. EnvShape'
    BY <1>0, <1>1, <2>1, <2>3, <2>4 DEF EnvShape, EnvBusy
  <2>7. ASSUME ~clash' PROVE EnvOrder'
    <3>1. ~clash /\ ~Env!Busy(c)
      BY <2>2, <2>7, Zenon
    <3>2. \A d \in Task : EnvBusy(d)' <=> d = c
      BY <2>4, <3>1 DEF EnvBusy, Env!Busy
    <3>3. EnvOrder
      BY <1>0, <3>1
    <3> QED BY <1>1, <2>4, <3>2, <3>3 DEF EnvOrder, EnvRead
  <2> QED BY <2>5, <2>6, <2>7 DEF EnvInv
<1> QED BY <1>2, <1>3

\* A step of a call at the file, to the next place.
LEMMA EnvMoves ==
  ASSUME EnvInv, NEW c \in Task, EnvBusy(c),
         NEW p \in {"write", "rename"}, pc' = [pc EXCEPT ![c] = p],
         UNCHANGED <<job, base, meant, clash, faults>>,
         fd' \in {fd, [fd EXCEPT ![c] = "tmp"]},
         tmp' \in Env!Content \union {Torn, None}, file' \in Env!Content \union {Torn, None},
         ~clash => /\ file' = file /\ fd'[c] = "tmp"
                   /\ p = "write" => tmp' = Torn
                   /\ p = "rename" => tmp' = Env!Edited(c)
  PROVE  EnvInv'
<1>0. Env!TypeOK /\ EnvShape /\ (~clash => EnvOrder)
  BY DEF EnvInv
<1>1. pc'[c] = p /\ \A d \in Task : d # c => pc'[d] = pc[d]
  BY <1>0, EnvTypes
<1>2. Env!TypeOK'
  <2>1. /\ pc' \in [Task -> {"idle"} \union Env!AtFile] /\ fd' \in [Task -> {"none", "tmp", "file", "gone"}]
    BY <1>0, EnvTypes DEF Env!AtFile
  <2> QED BY <1>0, <2>1, EnvTypes, EnvTyped DEF EnvShape
<1>3. \A d \in Task : EnvBusy(d)' <=> EnvBusy(d)
  BY <1>1 DEF EnvBusy
<1>4. EnvShape'
  BY <1>0, <1>1, <1>3 DEF EnvShape, EnvBusy
<1>5. ASSUME ~clash' PROVE EnvOrder'
  <2>1. EnvOrder /\ ~clash
    BY <1>0, <1>5
  <2>2. \A d \in Task : EnvBusy(d)' => d = c
    BY <1>3, <2>1 DEF EnvOrder
  <2>3. Env!Edited(c)' = Env!Edited(c)
    BY DEF Env!Edited
  <2> QED BY <1>1, <2>1, <2>2, <2>3 DEF EnvOrder, EnvRead
<1> QED BY <1>2, <1>4, <1>5 DEF EnvInv

\* What the file is to become.
LEMMA EnvEdited ==
  ASSUME EnvInv, NEW c \in Task, EnvBusy(c)
  PROVE  /\ Env!Edited(c) \in Env!Content
         /\ Env!Edited(c) = [base[c] EXCEPT ![job[c].var] = job[c].secret]
<1>1. base[c] \in Env!Content /\ job[c] \in EnvJob
  BY DEF EnvInv, EnvShape, EnvBusy
<1>2. job[c].var \in Env!Var /\ job[c].secret \in Phrase
  BY <1>1 DEF EnvJob
<1> QED BY <1>1, <1>2 DEF Env!Edited, Env!Content

\* It opens the temporary file, which is cut to nothing.
LEMMA EnvOpen ==
  ASSUME EnvInv, NEW c \in Task, Env!Open(c)
  PROVE  EnvInv'
<1>0. Env!TypeOK
  BY DEF EnvInv
<1>1. /\ pc[c] = "open" /\ pc' = [pc EXCEPT ![c] = "write"]
      /\ tmp' = Torn /\ fd' = [fd EXCEPT ![c] = "tmp"]
      /\ UNCHANGED <<job, base, file, meant, clash, faults>>
  BY DEF Env!Open, Env!Set, Env!Goto
<1>2. fd'[c] = "tmp"
  BY <1>0, <1>1, EnvTypes
<1> QED BY <1>0, <1>1, <1>2, EnvMoves, EnvTypes DEF EnvBusy

\* It writes what it has edited.
LEMMA EnvWrite ==
  ASSUME EnvInv, NEW c \in Task, Env!Write(c)
  PROVE  EnvInv'
<1>0. Env!TypeOK
  BY DEF EnvInv
<1>1. /\ pc[c] = "write" /\ pc' = [pc EXCEPT ![c] = "rename"]
      /\ UNCHANGED <<job, base, fd, meant, clash, faults>>
  BY DEF Env!Write, Env!Set, Env!Goto
<1>2. EnvBusy(c)
  BY <1>1 DEF EnvBusy
<1>3. /\ tmp' \in {tmp, Torn, Env!Edited(c)} /\ file' \in {file, Torn, Env!Edited(c)}
  BY DEF Env!Write, Env!Leaves
<1>4. tmp' \in Env!Content \union {Torn, None} /\ file' \in Env!Content \union {Torn, None}
  BY <1>0, <1>2, <1>3, EnvEdited, EnvTypes
<1>5. ~clash => file' = file /\ fd'[c] = "tmp" /\ tmp' = Env!Edited(c)
  <2> SUFFICES ASSUME ~clash PROVE file' = file /\ fd'[c] = "tmp" /\ tmp' = Env!Edited(c)
    OBVIOUS
  <2>1. fd[c] = "tmp" /\ tmp = Torn
    BY <1>1, <1>2 DEF EnvInv, EnvOrder
  <2> QED BY <1>1, <2>1 DEF Env!Write, Env!Leaves
<1> QED BY <1>1, <1>2, <1>4, <1>5, EnvMoves

\* A call leaves the file, and what it has done there is whole.
LEMMA EnvLeaves ==
  ASSUME EnvInv, NEW c \in Task, EnvBusy(c),
         pc' = [pc EXCEPT ![c] = "idle"], job' = [job EXCEPT ![c] = None],
         base' = [base EXCEPT ![c] = None], fd' \in [Task -> {"none", "tmp", "file", "gone"}],
         UNCHANGED clash, faults' \in 0..MaxFaults, file' \in Env!Content \union {Torn, None},
         tmp' \in Env!Content \union {Torn, None}, meant' \in Env!Content \union {None},
         ~clash => file' = meant' /\ file' # Torn
  PROVE  EnvInv'
<1>0. Env!TypeOK /\ EnvShape /\ (~clash => EnvOrder)
  BY DEF EnvInv
<1>1. /\ pc'[c] = "idle"
      /\ \A d \in Task : d # c => pc'[d] = pc[d] /\ job'[d] = job[d] /\ base'[d] = base[d]
  BY <1>0, EnvTypes DEF EnvShape
<1>2. /\ pc' \in [Task -> {"idle"} \union Env!AtFile] /\ job' \in [Task -> EnvJob \union {None}]
      /\ base' \in [Task -> Env!Content \union {None}]
  BY <1>0, EnvTypes DEF EnvShape
<1>3. Env!TypeOK'
  BY <1>0, <1>2, EnvTypes, EnvTyped
<1>4. EnvShape'
  BY <1>0, <1>1, <1>2 DEF EnvShape, EnvBusy
<1>5. ASSUME ~clash' PROVE EnvOrder'
  <2>1. EnvOrder
    BY <1>0, <1>5
  <2>2. \A d \in Task : ~EnvBusy(d)'
    BY <1>1, <2>1 DEF EnvOrder, EnvBusy
  <2> QED BY <1>5, <2>2 DEF EnvOrder
<1> QED BY <1>3, <1>4, <1>5 DEF EnvInv

\* The edited file takes the place of the one that was read.
LEMMA EnvRename ==
  ASSUME EnvInv, NEW c \in Task, Env!Rename(c)
  PROVE  EnvInv'
<1>0. Env!TypeOK /\ EnvShape /\ (~clash => EnvOrder)
  BY DEF EnvInv
<1>1. /\ pc[c] = "rename" /\ pc' = [pc EXCEPT ![c] = "idle"]
      /\ job' = [job EXCEPT ![c] = None] /\ base' = [base EXCEPT ![c] = None]
      /\ UNCHANGED <<clash, faults>>
  BY DEF Env!Rename, Env!Set, Env!Goto
<1>2. EnvBusy(c)
  BY <1>1 DEF EnvBusy
<1>3. fd' \in [Task -> {"none", "tmp", "file", "gone"}]
  <2>1. CASE tmp = None
    BY <1>0, <2>1, EnvTypes DEF Env!Rename, Env!Set
  <2>2. CASE tmp # None
    <3>1. fd' = [d \in Task |-> IF d = c THEN "none" ELSE Env!Follows(d)]
      BY <2>2 DEF Env!Rename
    <3>2. \A d \in Task : Env!Follows(d) \in {"none", "tmp", "file", "gone"}
      BY <1>0, EnvTypes DEF Env!Follows
    <3> QED BY <3>1, <3>2
  <2> QED BY <2>1, <2>2
<1>4. job[c].var \in Env!Var /\ job[c].secret \in Phrase
  BY <1>0, <1>1 DEF EnvShape, EnvJob
<1>5. CASE tmp = None
  <2>1. UNCHANGED <<file, tmp, meant>>
    BY <1>5 DEF Env!Rename
  <2>2. ~clash => file = meant /\ file # Torn
    BY <1>0 DEF EnvOrder
  <2> QED BY <1>0, <1>1, <1>2, <1>3, <2>1, <2>2, EnvLeaves, EnvTypes
<1>6. CASE tmp # None
  <2> DEFINE m == IF meant = None THEN Env!Empty ELSE meant
  <2>1. file' = tmp /\ tmp' = None /\ meant' = [m EXCEPT ![job[c].var] = job[c].secret]
    BY <1>6 DEF Env!Rename
  <2>2. m \in Env!Content
    BY <1>0, EnvTypes, EnvEmpty
  <2> HIDE DEF m
  <2>3. meant' \in Env!Content
    BY <1>4, <2>1, <2>2 DEF Env!Content
  <2>4. ASSUME ~clash PROVE file' = meant' /\ file' # Torn
    <3>1. tmp = Env!Edited(c) /\ base[c] = m
      BY <1>0, <1>1, <1>2, <2>4 DEF EnvOrder, EnvRead, m
    <3>2. Env!Edited(c) = meant' /\ Env!Edited(c) \in Env!Content
      BY <1>2, <2>1, <3>1, EnvEdited
    <3> QED BY <2>1, <3>1, <3>2, EnvAssumption
  <2> QED BY <1>0, <1>1, <1>2, <1>3, <2>1, <2>3, <2>4, EnvLeaves, EnvTypes
<1> QED BY <1>5, <1>6

\* A step fails, and the call ends.
LEMMA EnvFails ==
  ASSUME EnvInv, NEW c \in Task, Env!Fails(c)
  PROVE  EnvInv'
<1>0. Env!TypeOK /\ EnvShape /\ (~clash => EnvOrder)
  BY DEF EnvInv
<1>1. /\ pc[c] \in Env!AtFile /\ pc' = [pc EXCEPT ![c] = "idle"]
      /\ job' = [job EXCEPT ![c] = None] /\ base' = [base EXCEPT ![c] = None]
      /\ fd' = [fd EXCEPT ![c] = "none"] /\ tmp' = (IF pc[c] = "rename" THEN None ELSE tmp)
      /\ faults < MaxFaults /\ faults' = faults + 1 /\ UNCHANGED <<file, meant, clash>>
  BY DEF Env!Fails, Env!Ended, Env!Fault, Env!Set, Env!Goto
<1>2. faults' \in 0..MaxFaults
  BY <1>0, <1>1, EnvTypes, EnvAssumption
<1>3. CASE EnvBusy(c)
  <2>1. fd' \in [Task -> {"none", "tmp", "file", "gone"}]
    BY <1>0, <1>1, EnvTypes
  <2>2. ~clash => file = meant /\ file # Torn
    BY <1>0 DEF EnvOrder
  <2> QED BY <1>0, <1>1, <1>2, <1>3, <2>1, <2>2, EnvLeaves, EnvTypes
<1>4. CASE ~EnvBusy(c)
  <2>1. tmp' = tmp
    BY <1>1, <1>4 DEF EnvBusy
  <2> QED BY <1>1, <1>2, <1>4, <2>1, EnvAside
<1> QED BY <1>3, <1>4

\* The program stops: no call is left, and the file is as it was.
LEMMA EnvCrash ==
  ASSUME EnvInv, Env!Crash
  PROVE  EnvInv'
<1>0. Env!TypeOK /\ EnvShape /\ (~clash => EnvOrder)
  BY DEF EnvInv
<1>1. /\ pc' = [c \in Task |-> "idle"] /\ job' = [c \in Task |-> None]
      /\ base' = [c \in Task |-> None] /\ fd' = [c \in Task |-> "none"]
      /\ faults < MaxFaults /\ faults' = faults + 1
      /\ UNCHANGED <<file, tmp, meant, clash>>
  BY DEF Env!Crash, Env!Fault
<1>2. Env!TypeOK'
  <2>1. /\ pc' \in [Task -> {"idle"} \union Env!AtFile] /\ job' \in [Task -> EnvJob \union {None}]
        /\ base' \in [Task -> Env!Content \union {None}] /\ fd' \in [Task -> {"none", "tmp", "file", "gone"}]
        /\ faults' \in 0..MaxFaults
    BY <1>0, <1>1, EnvTypes, EnvAssumption
  <2> QED BY <1>0, <1>1, <2>1, EnvTypes, EnvTyped
<1>3. EnvShape'
  BY <1>1 DEF EnvShape, EnvBusy
<1>4. ~clash' => EnvOrder'
  BY <1>0, <1>1 DEF EnvOrder, EnvBusy
<1> QED BY <1>2, <1>3, <1>4 DEF EnvInv

\* Every step of EnvFile keeps the invariant.
LEMMA EnvStep ==
  ASSUME EnvInv, [Env!Next]_(Env!vars)
  PROVE  EnvInv'
<1>1. CASE UNCHANGED Env!vars
  <2>1. UNCHANGED <<pc, job, base, fd, file, tmp, meant, clash, faults>>
    BY <1>1 DEF Env!vars
  <2> QED BY <2>1 DEF EnvInv, Env!TypeOK, EnvShape, EnvBusy, EnvOrder, EnvRead, Env!Edited
<1>2. CASE Env!Next
  BY <1>2, EnvBegin, EnvReadFile, EnvOpen, EnvWrite, EnvRename, EnvFails, EnvCrash DEF Env!Next
<1> QED BY <1>1, <1>2

\* A behaviour about EnvFile takes its steps and no others.
LEMMA EnvPart ==
  ASSUME part = "env", [Next]_vars
  PROVE  [Env!Next]_(Env!vars)
<1>1. CASE Next
  BY <1>1 DEF Next
<1>2. CASE UNCHANGED vars
  <2>1. UNCHANGED <<pc, job, base, fd, file, tmp, meant, clash, faults>>
    BY <1>2, Zenon DEF vars
  <2> QED BY <2>1 DEF Env!vars
<1> QED BY <1>1, <1>2

\* It starts as EnvFile does.
LEMMA EnvStart == ASSUME Init, part = "env" PROVE Env!Init
  BY DEF Init

\* A .env file holds what was set in it by every call that ended well, and
\* nothing else, and is never cut short, unless two calls were at the file
\* at once (the writer of .env files).
THEOREM SafetyOfEnv == Spec => []EnvKept
<1> DEFINE I == part = "env" => EnvInv
<1>1. Init => I
  BY EnvStart, EnvInit
<1>2. I /\ [Next]_vars => I'
  <2> SUFFICES ASSUME I, [Next]_vars, part' = "env" PROVE (EnvInv)'
    OBVIOUS
  <2> QED BY PartStays, EnvPart, EnvStep
<1>3. I => EnvKept
  BY EnvKeeps DEF EnvKept, EnvInv
<1> QED BY <1>1, <1>2, <1>3, PTL DEF Spec

------------------------------------------------------------------------------
(* MountHelper: a helper that runs alone writes the fstab it has read with  *)
(* its own entry changed.                                                   *)

\* What a helper is asked to do.
MountRequest == [action : {"mount", "unmount"}, slug : Slug, mp : MountPoint]
MountWrites(h) == pc[h] \in {"open", "write", "rename"}

\* A helper that runs has its request, and one that writes what it is to write.
MountShape ==
  /\ job \in [Helper -> MountRequest \union {None}]
  /\ \A h \in Helper :
       /\ pc[h] # "idle" => job[h] \in MountRequest
       /\ pc[h] \in {"creds", "dir", "mount"} => job[h].action = "mount"
       /\ pc[h] \in {"umount", "remove"} => job[h].action = "unmount"
       /\ MountWrites(h) => next[h] \in Mount!Content

\* Each entry has its credentials, and a mount point of its own.
MountEntries ==
  \A s \in Slug : meant[s] # None => s \in creds /\ meant[s] \notin Mount!Taken(s)

\* What a helper that runs alone has found and done.
MountHas(h) ==
  /\ \A g \in Helper : pc[g] # "idle" => g = h
  /\ job[h].action = "mount" /\ pc[h] # "creds" => job[h].slug \in creds
  /\ MountWrites(h) =>
       /\ next[h] = Mount!Edited(job[h])
       /\ job[h].action = "mount" => job[h].mp \notin Mount!Taken(job[h].slug)
       /\ pc[h] # "open" => fd[h] = "tmp"
       /\ pc[h] = "write" => tmp = Torn
       /\ pc[h] = "rename" => tmp = next[h]
  /\ pc[h] = "remove" => meant[job[h].slug] = None

\* While no two helpers have run at once.
MountOrder ==
  /\ fstab # Torn /\ fstab.entry = meant /\ MountEntries
  /\ \A h \in Helper : pc[h] # "idle" => MountHas(h)

\* The invariant.
MountInv == Mount!TypeOK /\ MountShape /\ (~clash => MountOrder)

\* Then the fstab is sound.
LEMMA MountSound == ASSUME MountInv PROVE Mount!FstabSound
  BY Zenon DEF MountInv, MountOrder, MountEntries, Mount!FstabSound

\* The variables of the helper.
LEMMA MountTypes ==
  ASSUME Mount!TypeOK
  PROVE  /\ pc \in [Helper -> Mount!Place]
         /\ next \in [Helper -> Mount!Content \union {None}]
         /\ fd \in [Helper -> {"none", "tmp", "fstab", "gone"}]
         /\ fstab \in Mount!Content \union {Torn} /\ tmp \in Mount!Content \union {Torn, None}
         /\ creds \subseteq Slug /\ mounted \subseteq MountPoint
         /\ meant \in [Slug -> MountPoint \union {None}]
         /\ clash \in BOOLEAN /\ faults \in 0..MaxFaults
  BY DEF Mount!TypeOK

\* The variables after a step.
LEMMA MountTyped ==
  ASSUME pc' \in [Helper -> Mount!Place], job' \in [Helper -> MountRequest \union {None}],
         next' \in [Helper -> Mount!Content \union {None}],
         fd' \in [Helper -> {"none", "tmp", "fstab", "gone"}],
         fstab' \in Mount!Content \union {Torn}, tmp' \in Mount!Content \union {Torn, None},
         creds' \subseteq Slug, mounted' \subseteq MountPoint,
         meant' \in [Slug -> MountPoint \union {None}],
         clash' \in BOOLEAN, faults' \in 0..MaxFaults
  PROVE  Mount!TypeOK'
<1>1. \A h \in Helper : job'[h] # None =>
        /\ job'[h].action \in {"mount", "unmount"} /\ job'[h].slug \in Slug /\ job'[h].mp \in MountPoint
  BY DEF MountRequest
<1> QED BY <1>1 DEF Mount!TypeOK

\* A fstab made of entries and the lines of others.
LEMMA MountMade ==
  ASSUME NEW e \in [Slug -> MountPoint \union {None}], NEW o \in SUBSET MountPoint,
         NEW c, c = [entry |-> e, own |-> o]
  PROVE  c \in Mount!Content /\ c.entry = e /\ c.own = o
  BY DEF Mount!Content

\* The parts of a fstab.
LEMMA MountRecord ==
  ASSUME NEW c \in Mount!Content
  PROVE  c.entry \in [Slug -> MountPoint \union {None}] /\ c.own \in SUBSET MountPoint
  BY DEF Mount!Content

\* The invariant holds before anything has happened.
LEMMA MountInit == ASSUME Mount!Init PROVE MountInv
<1>1. /\ pc = [h \in Helper |-> "idle"] /\ job = [h \in Helper |-> None]
      /\ next = [h \in Helper |-> None] /\ fd = [h \in Helper |-> "none"]
      /\ tmp = None /\ creds = {} /\ mounted = {} /\ meant = Mount!NoEntry
      /\ clash = FALSE /\ faults = 0
  BY DEF Mount!Init
<1>2. PICK own \in SUBSET MountPoint : fstab = [entry |-> Mount!NoEntry, own |-> own]
  BY DEF Mount!Init
<1>3. Mount!NoEntry \in [Slug -> MountPoint \union {None}] /\ \A s \in Slug : Mount!NoEntry[s] = None
  BY DEF Mount!NoEntry
<1>4. fstab \in Mount!Content /\ fstab.entry = meant
  BY <1>1, <1>2, <1>3, MountMade
<1>5. Mount!TypeOK
  <2>1. /\ pc \in [Helper -> Mount!Place] /\ next \in [Helper -> Mount!Content \union {None}]
        /\ fd \in [Helper -> {"none", "tmp", "fstab", "gone"}] /\ \A h \in Helper : job[h] = None
    BY <1>1 DEF Mount!Place
  <2>2. faults \in 0..MaxFaults
    BY <1>1, MountAssumption
  <2>3. clash \in BOOLEAN
    BY <1>1
  <2> QED BY <1>1, <1>3, <1>4, <2>1, <2>2, <2>3 DEF Mount!TypeOK
<1>6. MountShape
  BY <1>1 DEF MountShape, MountWrites
<1>7. MountOrder
  BY <1>1, <1>3, <1>4, MountAssumption DEF MountOrder, MountEntries
<1> QED BY <1>5, <1>6, <1>7 DEF MountInv

\* A helper starts, alone or at a clash.
LEMMA MountStart ==
  ASSUME MountInv, NEW h \in Helper, Mount!Start(h)
  PROVE  MountInv'
<1>0. Mount!TypeOK /\ MountShape /\ (~clash => MountOrder)
  BY DEF MountInv
<1>1. /\ pc[h] = "idle" /\ ~clash
      /\ UNCHANGED <<next, fd, fstab, tmp, creds, mounted, meant, faults>>
  BY DEF Mount!Start
<1>2. clash' = (clash \/ \E g \in Helper \ {h} : pc[g] # "idle")
  BY Zenon DEF Mount!Start
<1>3. PICK j \in MountRequest, p \in {"creds", "umount"} :
         /\ job' = [job EXCEPT ![h] = j] /\ pc' = [pc EXCEPT ![h] = p]
         /\ p = "creds" <=> j.action = "mount"
  <2>1. \A s \in Slug, m \in MountPoint :
          /\ Mount!Mount(s, m) \in MountRequest /\ Mount!Mount(s, m).action = "mount"
          /\ Mount!Unmount(s, m) \in MountRequest /\ Mount!Unmount(s, m).action = "unmount"
    BY DEF Mount!Mount, Mount!Unmount, MountRequest
  <2> QED BY <2>1 DEF Mount!Start, Mount!Set, Mount!Goto
<1>4. /\ pc'[h] = p /\ job'[h] = j
      /\ \A g \in Helper : g # h => pc'[g] = pc[g] /\ job'[g] = job[g]
  BY <1>0, <1>3, MountTypes DEF MountShape
<1>5. Mount!TypeOK'
  <2>1. pc' \in [Helper -> Mount!Place] /\ job' \in [Helper -> MountRequest \union {None}]
    BY <1>0, <1>3, MountTypes DEF MountShape, Mount!Place
  <2>2. clash' \in BOOLEAN
    BY <1>0, <1>2, MountTypes, Zenon
  <2> QED BY <1>0, <1>1, <2>1, <2>2, MountTypes, MountTyped
<1>6. MountShape'
  <2>1. job' \in [Helper -> MountRequest \union {None}]
    BY <1>0, <1>3 DEF MountShape
  <2>2. ASSUME NEW g \in Helper
        PROVE  /\ pc'[g] # "idle" => job'[g] \in MountRequest
               /\ pc'[g] \in {"creds", "dir", "mount"} => job'[g].action = "mount"
               /\ pc'[g] \in {"umount", "remove"} => job'[g].action = "unmount"
               /\ MountWrites(g)' => next'[g] \in Mount!Content
    <3>1. j.action \in {"mount", "unmount"}
      BY DEF MountRequest
    <3> QED BY <1>0, <1>1, <1>3, <1>4, <3>1 DEF MountShape, MountWrites
  <2> QED BY <2>1, <2>2 DEF MountShape
<1>7. ASSUME ~clash' PROVE MountOrder'
  <2>1. MountOrder /\ \A g \in Helper \ {h} : pc[g] = "idle"
    BY <1>0, <1>2, <1>7, Zenon
  <2>2. MountHas(h)'
    <3>1. \A g \in Helper : pc'[g] # "idle" => g = h
      BY <1>4, <2>1
    <3>2. ~MountWrites(h)' /\ pc'[h] # "remove"
      BY <1>4 DEF MountWrites
    <3>3. job'[h].action = "mount" /\ pc'[h] # "creds" => job'[h].slug \in creds'
      BY <1>3, <1>4
    <3> QED BY <3>1, <3>2, <3>3 DEF MountHas
  <2>3. \A g \in Helper : pc'[g] # "idle" => MountHas(g)'
    BY <1>4, <2>1, <2>2
  <2>4. MountEntries'
    BY <1>1, <2>1 DEF MountOrder, MountEntries, Mount!Taken
  <2> QED BY <1>1, <2>1, <2>3, <2>4 DEF MountOrder
<1> QED BY <1>5, <1>6, <1>7 DEF MountInv

\* A helper goes to its next place; what it has done is told by MountHas.
LEMMA MountMoves ==
  ASSUME MountInv, NEW h \in Helper, pc[h] # "idle",
         NEW p \in Mount!Place \ {"idle"}, pc' = [pc EXCEPT ![h] = p],
         UNCHANGED <<job, clash, faults>>,
         next' \in [Helper -> Mount!Content \union {None}],
         \A g \in Helper : g # h => next'[g] = next[g],
         fd' \in [Helper -> {"none", "tmp", "fstab", "gone"}],
         fstab' \in Mount!Content \union {Torn}, tmp' \in Mount!Content \union {Torn, None},
         creds' \subseteq Slug, mounted' \subseteq MountPoint,
         meant' \in [Slug -> MountPoint \union {None}],
         p \in {"creds", "dir", "mount"} => job[h].action = "mount",
         p \in {"umount", "remove"} => job[h].action = "unmount",
         p \in {"open", "write", "rename"} => next'[h] \in Mount!Content,
         ~clash /\ MountOrder /\ (\A g \in Helper : pc'[g] # "idle" => g = h) =>
           fstab' # Torn /\ fstab'.entry = meant' /\ MountEntries' /\ MountHas(h)'
  PROVE  MountInv'
<1>0. Mount!TypeOK /\ MountShape /\ (~clash => MountOrder)
  BY DEF MountInv
<1>1. pc'[h] = p /\ (\A g \in Helper : g # h => pc'[g] = pc[g]) /\ pc' \in [Helper -> Mount!Place]
  BY <1>0, MountTypes
<1>2. Mount!TypeOK'
  BY <1>0, <1>1, MountTypes, MountTyped DEF MountShape
<1>3. MountShape'
  BY <1>0, <1>1 DEF MountShape, MountWrites
<1>4. ASSUME ~clash' PROVE MountOrder'
  <2>1. MountOrder /\ ~clash
    BY <1>0, <1>4
  <2>2. \A g \in Helper : pc[g] # "idle" => g = h
    BY <2>1 DEF MountOrder, MountHas
  <2>3. \A g \in Helper : pc'[g] # "idle" => g = h
    BY <1>1, <2>2
  <2>4. fstab' # Torn /\ fstab'.entry = meant' /\ MountEntries' /\ MountHas(h)'
    BY <2>1, <2>3
  <2> QED BY <2>3, <2>4, Zenon DEF MountOrder
<1> QED BY <1>2, <1>3, <1>4 DEF MountInv

\* A helper ends.
LEMMA MountExit ==
  ASSUME MountInv, NEW h \in Helper, pc[h] # "idle", Mount!Exit(h),
         UNCHANGED <<fstab, tmp, meant, clash>>, faults' \in 0..MaxFaults,
         creds' \subseteq Slug, mounted' \subseteq MountPoint,
         ~clash => \A s \in Slug : meant[s] # None /\ s \in creds => s \in creds'
  PROVE  MountInv'
<1>0. Mount!TypeOK /\ MountShape /\ (~clash => MountOrder)
  BY DEF MountInv
<1>1. /\ pc' = [pc EXCEPT ![h] = "idle"] /\ job' = [job EXCEPT ![h] = None]
      /\ next' = [next EXCEPT ![h] = None] /\ fd' = [fd EXCEPT ![h] = "none"]
  BY DEF Mount!Exit, Mount!Goto, Mount!Set
<1>2. /\ pc'[h] = "idle"
      /\ \A g \in Helper : g # h => pc'[g] = pc[g] /\ job'[g] = job[g] /\ next'[g] = next[g]
  BY <1>0, <1>1, MountTypes DEF MountShape
<1>3. /\ pc' \in [Helper -> Mount!Place] /\ job' \in [Helper -> MountRequest \union {None}]
      /\ next' \in [Helper -> Mount!Content \union {None}]
      /\ fd' \in [Helper -> {"none", "tmp", "fstab", "gone"}]
  BY <1>0, <1>1, MountTypes DEF MountShape, Mount!Place
<1>4. Mount!TypeOK'
  BY <1>0, <1>3, MountTypes, MountTyped
<1>5. MountShape'
  BY <1>0, <1>2, <1>3 DEF MountShape, MountWrites
<1>6. ASSUME ~clash' PROVE MountOrder'
  <2>1. MountOrder /\ ~clash
    BY <1>0, <1>6
  <2>2. \A g \in Helper : pc'[g] = "idle"
    BY <1>2, <2>1 DEF MountOrder, MountHas
  <2>3. MountEntries'
    BY <2>1 DEF MountOrder, MountEntries, Mount!Taken
  <2> QED BY <2>1, <2>2, <2>3 DEF MountOrder
<1> QED BY <1>4, <1>5, <1>6 DEF MountInv

\* The parts of a request.
LEMMA MountRequested ==
  ASSUME MountInv, NEW h \in Helper, pc[h] # "idle"
  PROVE  /\ job[h].action \in {"mount", "unmount"} /\ job[h].slug \in Slug /\ job[h].mp \in MountPoint
         /\ Mount!Entered(job[h]) \in MountPoint \union {None}
<1>1. job[h] \in MountRequest
  BY DEF MountInv, MountShape
<1> QED BY <1>1 DEF MountRequest, Mount!Entered

\* The places before and after fstab is written.
LEMMA MountCreds ==
  ASSUME MountInv, NEW h \in Helper, Mount!WriteCreds(h)
  PROVE  MountInv'
<1>0. Mount!TypeOK /\ MountShape
  BY DEF MountInv
<1>1. /\ pc[h] = "creds" /\ pc' = [pc EXCEPT ![h] = "dir"] /\ creds' = creds \union {job[h].slug}
      /\ UNCHANGED <<job, next, fd, fstab, tmp, mounted, meant, clash, faults>>
  BY DEF Mount!WriteCreds, Mount!Goto, Mount!Set
<1>2. job[h].action = "mount" /\ job[h].slug \in Slug
  BY <1>0, <1>1, MountRequested DEF MountShape
<1>3. ASSUME MountOrder, \A g \in Helper : pc'[g] # "idle" => g = h
      PROVE  fstab' # Torn /\ fstab'.entry = meant' /\ MountEntries' /\ MountHas(h)'
  <2>1. MountEntries'
    BY <1>1, <1>3 DEF MountOrder, MountEntries, Mount!Taken
  <2>2. pc'[h] = "dir"
    BY <1>0, <1>1, MountTypes
  <2>3. MountHas(h)'
    BY <1>1, <1>3, <2>2 DEF MountHas, MountWrites
  <2> QED BY <1>1, <1>3, <2>1, <2>3 DEF MountOrder
<1>4. "dir" \in Mount!Place \ {"idle"}
  BY DEF Mount!Place
<1>5. creds' \subseteq Slug
  BY <1>0, <1>1, <1>2, MountTypes
<1> QED BY <1>0, <1>1, <1>2, <1>3, <1>4, <1>5, MountMoves, MountTypes

\* The mount point is made, or the share unmounted.
LEMMA MountDir ==
  ASSUME MountInv, NEW h \in Helper, Mount!EnsureDir(h) \/ Mount!Umount(h)
  PROVE  MountInv'
<1>0. Mount!TypeOK /\ MountShape
  BY DEF MountInv
<1>1. /\ pc[h] \in {"dir", "umount"} /\ pc' = [pc EXCEPT ![h] = "fstab"]
      /\ UNCHANGED <<job, next, fd, fstab, tmp, creds, meant, clash, faults>>
      /\ mounted' \subseteq mounted
  BY DEF Mount!EnsureDir, Mount!Umount, Mount!Goto, Mount!Set
<1>3. ASSUME MountOrder, \A g \in Helper : pc'[g] # "idle" => g = h
      PROVE  fstab' # Torn /\ fstab'.entry = meant' /\ MountEntries' /\ MountHas(h)'
  <2>1. MountEntries'
    BY <1>1, <1>3 DEF MountOrder, MountEntries, Mount!Taken
  <2>2. pc'[h] = "fstab"
    BY <1>0, <1>1, MountTypes
  <2>3. MountHas(h)
    BY <1>1, <1>3 DEF MountOrder
  <2>4. MountHas(h)'
    BY <1>1, <1>3, <2>2, <2>3 DEF MountHas, MountWrites
  <2> QED BY <1>1, <1>3, <2>1, <2>4 DEF MountOrder
<1>4. "fstab" \in Mount!Place \ {"idle"}
  BY DEF Mount!Place
<1>5. mounted' \subseteq MountPoint
  BY <1>0, <1>1, MountTypes
<1> QED BY <1>0, <1>1, <1>3, <1>4, <1>5, MountMoves, MountTypes

\* The fstab is read and edited.
LEMMA MountRead ==
  ASSUME MountInv, NEW h \in Helper, Mount!ReadFstab(h)
  PROVE  MountInv'
<1>0. Mount!TypeOK /\ MountShape /\ (~clash => MountOrder)
  BY DEF MountInv
<1>1. pc[h] = "fstab" /\ UNCHANGED <<fstab, tmp, creds, mounted, meant, clash, faults>>
  BY DEF Mount!ReadFstab
<1>2. CASE fstab = Torn \/ (job[h].action = "mount" /\ job[h].mp \in Mount!Taken(job[h].slug))
  <2>1. Mount!Exit(h)
    BY <1>2 DEF Mount!ReadFstab
  <2> QED BY <1>0, <1>1, <2>1, MountExit, MountTypes
<1>3. CASE ~(fstab = Torn \/ (job[h].action = "mount" /\ job[h].mp \in Mount!Taken(job[h].slug)))
  <2>1. /\ next' = [next EXCEPT ![h] = Mount!Edited(job[h])]
        /\ pc' = [pc EXCEPT ![h] = "open"] /\ UNCHANGED <<job, fd>>
    BY <1>3 DEF Mount!ReadFstab, Mount!Goto, Mount!Set
  <2>2. fstab \in Mount!Content
    BY <1>0, <1>3, MountTypes
  <2>3. Mount!Edited(job[h]) \in Mount!Content
    <3>1. [fstab.entry EXCEPT ![job[h].slug] = Mount!Entered(job[h])] \in [Slug -> MountPoint \union {None}]
      BY <1>1, <2>2, MountRecord, MountRequested
    <3> QED BY <2>2, <3>1, MountRecord, MountMade DEF Mount!Edited
  <2>4. /\ next'[h] = Mount!Edited(job[h]) /\ \A g \in Helper : g # h => next'[g] = next[g]
        /\ next' \in [Helper -> Mount!Content \union {None}] /\ pc'[h] = "open"
    BY <1>0, <2>1, <2>3, MountTypes
  <2>5. ASSUME MountOrder, \A g \in Helper : pc'[g] # "idle" => g = h
        PROVE  fstab' # Torn /\ fstab'.entry = meant' /\ MountEntries' /\ MountHas(h)'
    <3>1. MountEntries'
      BY <1>1, <2>5 DEF MountOrder, MountEntries, Mount!Taken
    <3>2. MountHas(h)
      BY <1>1, <2>5 DEF MountOrder
    <3>3. Mount!Edited(job[h])' = Mount!Edited(job[h]) /\ Mount!Taken(job[h].slug)' = Mount!Taken(job[h].slug)
      BY <1>1, <2>1 DEF Mount!Edited, Mount!Taken, Mount!Entered
    <3>4. MountHas(h)'
      BY <1>1, <1>3, <2>1, <2>4, <2>5, <3>2, <3>3 DEF MountHas, MountWrites
    <3> QED BY <1>1, <2>5, <3>1, <3>4 DEF MountOrder
  <2>6. "open" \in Mount!Place \ {"idle"}
    BY DEF Mount!Place
  <2> QED BY <1>0, <1>1, <2>1, <2>3, <2>4, <2>5, <2>6, MountMoves, MountTypes
<1> QED BY <1>2, <1>3

\* The temporary file is opened and written.
LEMMA MountWrite ==
  ASSUME MountInv, NEW h \in Helper, Mount!OpenTmp(h) \/ Mount!WriteTmp(h)
  PROVE  MountInv'
<1>0. Mount!TypeOK /\ MountShape
  BY DEF MountInv
<1>1. /\ UNCHANGED <<job, next, creds, mounted, meant, clash, faults>>
      /\ MountWrites(h) /\ pc[h] # "rename"
      /\ pc' = [pc EXCEPT ![h] = IF pc[h] = "open" THEN "write" ELSE "rename"]
  BY DEF Mount!OpenTmp, Mount!WriteTmp, Mount!Goto, Mount!Set, MountWrites
<1>2. next[h] \in Mount!Content
  BY <1>0, <1>1 DEF MountShape
<1>3. /\ fstab' \in {fstab, next[h], Torn} /\ tmp' \in {tmp, next[h], Torn}
      /\ fd' \in [Helper -> {"none", "tmp", "fstab", "gone"}]
  <2>1. CASE Mount!OpenTmp(h)
    BY <1>0, <2>1, MountTypes DEF Mount!OpenTmp, Mount!Set
  <2>2. CASE Mount!WriteTmp(h)
    BY <1>0, <2>2, MountTypes DEF Mount!WriteTmp, Mount!Leaves
  <2> QED BY <2>1, <2>2
<1>4. fstab' \in Mount!Content \union {Torn} /\ tmp' \in Mount!Content \union {Torn, None}
  BY <1>0, <1>2, <1>3, MountTypes
<1>5. pc'[h] = IF pc[h] = "open" THEN "write" ELSE "rename"
  BY <1>0, <1>1, MountTypes
<1>6. ASSUME MountOrder, \A g \in Helper : pc'[g] # "idle" => g = h
      PROVE  fstab' # Torn /\ fstab'.entry = meant' /\ MountEntries' /\ MountHas(h)'
  <2>1. MountHas(h)
    BY <1>1, <1>6 DEF MountOrder, MountWrites
  <2>2. fstab' = fstab /\ fd'[h] = "tmp" /\ tmp' = IF pc'[h] = "write" THEN Torn ELSE next[h]
    <3>1. CASE Mount!OpenTmp(h)
      BY <1>0, <1>5, <3>1, MountTypes DEF Mount!OpenTmp, Mount!Set
    <3>2. CASE Mount!WriteTmp(h)
      <4>1. pc[h] = "write"
        BY <3>2 DEF Mount!WriteTmp
      <4>2. fd[h] = "tmp" /\ tmp = Torn
        BY <2>1, <4>1 DEF MountHas, MountWrites
      <4> QED BY <1>5, <3>2, <4>1, <4>2 DEF Mount!WriteTmp, Mount!Leaves
    <3> QED BY <3>1, <3>2
  <2>3. MountEntries'
    BY <1>1, <1>6, <2>2 DEF MountOrder, MountEntries, Mount!Taken
  <2>4. Mount!Edited(job[h])' = Mount!Edited(job[h]) /\ Mount!Taken(job[h].slug)' = Mount!Taken(job[h].slug)
    BY <1>1, <2>2 DEF Mount!Edited, Mount!Taken, Mount!Entered
  <2>5. MountHas(h)'
    BY <1>1, <1>5, <1>6, <2>1, <2>2, <2>4 DEF MountHas, MountWrites
  <2> QED BY <1>1, <1>6, <2>2, <2>3, <2>5 DEF MountOrder
<1>7. (IF pc[h] = "open" THEN "write" ELSE "rename") \in {"write", "rename"}
      /\ {"write", "rename"} \subseteq Mount!Place \ {"idle"}
  BY DEF Mount!Place
<1>8. pc[h] # "idle"
  BY <1>1 DEF MountWrites
<1> QED BY <1>0, <1>1, <1>2, <1>3, <1>4, <1>6, <1>7, <1>8, MountMoves, MountTypes

\* It takes the place of the fstab.
LEMMA MountRename ==
  ASSUME MountInv, NEW h \in Helper, Mount!Rename(h)
  PROVE  MountInv'
<1>0. Mount!TypeOK /\ MountShape /\ (~clash => MountOrder)
  BY DEF MountInv
<1>1. pc[h] = "rename" /\ UNCHANGED <<creds, mounted, clash, faults>>
  BY DEF Mount!Rename
<1>2. CASE tmp = None
  <2>1. Mount!Exit(h) /\ UNCHANGED <<fstab, tmp, meant>>
    BY <1>2 DEF Mount!Rename
  <2> QED BY <1>0, <1>1, <2>1, MountExit, MountTypes
<1>3. CASE tmp # None
  <2> DEFINE p == IF job[h].action = "mount" THEN "mount" ELSE "remove"
             s == job[h].slug
             v == Mount!Entered(job[h])
  <2>1. /\ fstab' = tmp /\ tmp' = None /\ meant' = [meant EXCEPT ![s] = v]
        /\ fd' = [g \in Helper |-> IF g = h THEN "none" ELSE Mount!Follows(g)]
        /\ pc' = [pc EXCEPT ![h] = p] /\ UNCHANGED <<job, next>>
    BY <1>3 DEF Mount!Rename, Mount!Goto, Mount!Set
  <2>2. s \in Slug /\ v \in MountPoint \union {None} /\ job[h].action \in {"mount", "unmount"}
        /\ (job[h].action = "mount" => v = job[h].mp) /\ (job[h].action # "mount" => v = None)
    BY <1>1, MountRequested DEF Mount!Entered
  <2>3. p \in Mount!Place \ {"idle"} /\ p \in {"mount", "remove"}
    BY DEF Mount!Place
  <2>4. fd' \in [Helper -> {"none", "tmp", "fstab", "gone"}]
    <3>1. \A g \in Helper : Mount!Follows(g) \in {"none", "tmp", "fstab", "gone"}
      BY <1>0, MountTypes DEF Mount!Follows
    <3> QED BY <2>1, <3>1
  <2>5. fstab' \in Mount!Content \union {Torn} /\ tmp' \in Mount!Content \union {Torn, None}
        /\ meant' \in [Slug -> MountPoint \union {None}]
    BY <1>0, <1>3, <2>1, <2>2, MountTypes
  <2>6. p \in {"creds", "dir", "mount"} => job[h].action = "mount"
    OBVIOUS
  <2>7. p \in {"umount", "remove"} => job[h].action = "unmount"
    BY <2>2
  <2>8. pc'[h] = p
    BY <1>0, <2>1, MountTypes
  <2> HIDE DEF p, s, v
  <2>9. ASSUME MountOrder, \A g \in Helper : pc'[g] # "idle" => g = h
        PROVE  fstab' # Torn /\ fstab'.entry = meant' /\ MountEntries' /\ MountHas(h)'
    <3>1. MountHas(h) /\ MountEntries /\ fstab.entry = meant /\ fstab \in Mount!Content
      BY <1>0, <1>1, <2>9, MountTypes DEF MountOrder
    <3>2. tmp = Mount!Edited(job[h]) /\ next[h] \in Mount!Content /\ tmp = next[h]
      BY <1>0, <1>1, <3>1 DEF MountHas, MountWrites, MountShape
    <3>3. tmp.entry = [meant EXCEPT ![s] = v] /\ tmp.own = fstab.own
      <4>1. [fstab.entry EXCEPT ![s] = v] \in [Slug -> MountPoint \union {None}]
        BY <2>2, <3>1, MountRecord
      <4>2. tmp = [entry |-> [fstab.entry EXCEPT ![s] = v], own |-> fstab.own]
        BY <3>2 DEF Mount!Edited, s, v
      <4> QED BY <3>1, <4>1, <4>2, MountMade, MountRecord
    <3>4. fstab' # Torn /\ fstab'.entry = meant' /\ fstab'.own = fstab.own
      BY <2>1, <3>2, <3>3, MountAssumption
    <3>5. /\ \A t \in Slug : meant'[t] = IF t = s THEN v ELSE meant[t]
      BY <1>0, <2>1, MountTypes
    <3>6. v # None => v \notin Mount!Taken(s) /\ s \in creds
      BY <1>1, <2>2, <3>1 DEF MountHas, MountWrites, s
    <3>7. MountEntries'
      <4> SUFFICES ASSUME NEW t \in Slug, meant'[t] # None
                   PROVE  t \in creds /\ meant'[t] \notin fstab'.own \union {fstab'.entry[u] : u \in Slug \ {t}}
        BY <1>1 DEF MountEntries, Mount!Taken
      <4>1. CASE t = s
        BY <3>1, <3>4, <3>5, <3>6, <4>1 DEF Mount!Taken
      <4>2. CASE t # s
        <5>1. meant'[t] = meant[t] /\ t \in creds /\ meant[t] \notin Mount!Taken(t)
          BY <3>1, <3>5, <4>2 DEF MountEntries
        <5>2. v # meant[t]
          BY <3>1, <3>6, <4>2, <5>1 DEF Mount!Taken
        <5> QED BY <3>1, <3>4, <3>5, <5>1, <5>2 DEF Mount!Taken
      <4> QED BY <4>1, <4>2
    <3>8. MountHas(h)'
      <4>1. ~MountWrites(h)'
        BY <2>3, <2>8 DEF MountWrites
      <4>2. p = "remove" => meant'[s] = None
        BY <2>2, <3>5 DEF p
      <4>3. job[h].action = "mount" => s \in creds
        BY <1>1, <3>1 DEF MountHas, s
      <4> QED BY <1>1, <2>1, <2>8, <2>9, <4>1, <4>2, <4>3 DEF MountHas, s
    <3> QED BY <3>4, <3>7, <3>8
  <2>10. p \notin {"open", "write", "rename"}
    BY <2>3
  <2> QED BY <1>0, <1>1, <2>1, <2>3, <2>4, <2>5, <2>6, <2>7, <2>9, <2>10, MountMoves, MountTypes DEF p
<1> QED BY <1>2, <1>3

\* The share is mounted, the credentials are removed, or a step fails.
LEMMA MountEnds ==
  ASSUME MountInv, NEW h \in Helper, Mount!DoMount(h) \/ Mount!RemoveCreds(h) \/ Mount!Fail(h)
  PROVE  MountInv'
<1>0. Mount!TypeOK /\ MountShape /\ (~clash => MountOrder)
  BY DEF MountInv
<1>1. CASE Mount!DoMount(h)
  <2>1. /\ pc[h] = "mount" /\ Mount!Exit(h) /\ mounted' \in {mounted, mounted \union {job[h].mp}}
        /\ UNCHANGED <<fstab, tmp, creds, meant, clash, faults>>
    BY <1>1 DEF Mount!DoMount
  <2>2. mounted' \subseteq MountPoint
    BY <1>0, <2>1, MountTypes, MountRequested
  <2> QED BY <1>0, <2>1, <2>2, MountExit, MountTypes
<1>2. CASE Mount!RemoveCreds(h)
  <2>1. /\ pc[h] = "remove" /\ Mount!Exit(h) /\ creds' = creds \ {job[h].slug}
        /\ UNCHANGED <<fstab, tmp, mounted, meant, clash, faults>>
    BY <1>2 DEF Mount!RemoveCreds
  <2>2. ~clash => meant[job[h].slug] = None
    BY <1>0, <2>1 DEF MountOrder, MountHas
  <2> QED BY <1>0, <2>1, <2>2, MountExit, MountTypes
<1>3. CASE Mount!Fail(h)
  <2>1. /\ pc[h] # "idle" /\ Mount!Exit(h) /\ faults < MaxFaults /\ faults' = faults + 1
        /\ UNCHANGED <<creds, fstab, tmp, mounted, meant, clash>>
    BY <1>3 DEF Mount!Fail, Mount!Fault, Mount!Lost
  <2>2. faults' \in 0..MaxFaults
    BY <1>0, <2>1, MountTypes, MountAssumption
  <2> QED BY <1>0, <2>1, <2>2, MountExit, MountTypes
<1> QED BY <1>1, <1>2, <1>3

\* Every step of MountHelper keeps the invariant.
LEMMA MountStep ==
  ASSUME MountInv, [Mount!Next]_(Mount!vars)
  PROVE  MountInv'
<1>1. CASE UNCHANGED Mount!vars
  <2>1. UNCHANGED <<pc, job, next, fd, fstab, tmp, creds, mounted, meant, clash, faults>>
    BY <1>1 DEF Mount!vars
  <2> QED BY <2>1 DEF MountInv, Mount!TypeOK, MountShape, MountWrites, MountOrder, MountEntries, MountHas,
                      Mount!Taken, Mount!Edited, Mount!Entered
<1>2. CASE Mount!Next
  BY <1>2, MountStart, MountCreds, MountDir, MountRead, MountWrite, MountRename, MountEnds
     DEF Mount!Next, Mount!Run
<1> QED BY <1>1, <1>2

\* A behaviour about MountHelper takes its steps and no others.
LEMMA MountPart ==
  ASSUME part = "mount", [Next]_vars
  PROVE  [Mount!Next]_(Mount!vars)
<1>1. CASE Next
  BY <1>1 DEF Next
<1>2. CASE UNCHANGED vars
  <2>1. UNCHANGED <<pc, job, next, fd, fstab, tmp, creds, mounted, meant, clash, faults>>
    BY <1>2, Zenon DEF vars
  <2> QED BY <2>1 DEF Mount!vars
<1> QED BY <1>1, <1>2

\* It starts as MountHelper does.
LEMMA MountBegins == ASSUME Init, part = "mount" PROVE Mount!Init
  BY DEF Init

\* The fstab is whole and has the entries that were meant, each with its
\* credentials and with a mount point that no other line has, unless two
\* helpers ran at once (bin/mount_helper.rs).
THEOREM SafetyOfMount == Spec => []FstabSound
<1> DEFINE I == part = "mount" => MountInv
<1>1. Init => I
  BY MountBegins, MountInit
<1>2. I /\ [Next]_vars => I'
  <2> SUFFICES ASSUME I, [Next]_vars, part' = "mount" PROVE (MountInv)'
    OBVIOUS
  <2> QED BY PartStays, MountPart, MountStep
<1>3. I => FstabSound
  BY MountSound DEF FstabSound, MountInv
<1> QED BY <1>1, <1>2, <1>3, PTL DEF Spec

------------------------------------------------------------------------------
(* DashboardSettings: what is on the disk is what the last change of each   *)
(* part wrote, unless two calls overlapped.                                 *)

\* What a call of the dashboard is to change.
SettingsJob == [op : Settings!Op, new : Settings!Version]

\* The types of the variables.
SettingsTypes ==
  /\ disk \in Settings!Settings /\ saved \in Settings!Settings /\ clash \in BOOLEAN
  /\ pc \in [Viewer -> {"idle", "ask", "read", "validate", "write", "apply"}]
  /\ job \in [Viewer -> SettingsJob \union {None}]
  /\ read \in [Viewer -> Settings!Credentials \union {None}]
  /\ calls \in 0..MaxCalls

\* Does the call hold credentials that it is to write?
SettingsHolds(c) == pc[c] \in {"validate", "write"} /\ job[c].op # "permissions"

\* What a call has at each place.
SettingsShape(c) ==
  /\ pc[c] # "idle" => job[c] \in SettingsJob
  /\ SettingsHolds(c) => read[c] \in Settings!Credentials

\* While no call has overtaken another.
SettingsOrder ==
  /\ disk.creds = saved.creds
  /\ \A c \in Viewer : /\ SettingsHolds(c) => read[c] = disk.creds
                       /\ pc[c] = "apply" => job[c].new = disk.permissions
  /\ dash = "full" /\ home /\ (\A c \in Viewer : pc[c] # "apply") => live = disk.permissions

\* The invariant.
SettingsInv ==
  /\ SettingsTypes
  /\ \A c \in Viewer : SettingsShape(c)
  /\ clash = FALSE => SettingsOrder

\* Then the settings are kept.
LEMMA SettingsHold == ASSUME SettingsInv PROVE Settings!SettingsKept
<1>1. clash \in BOOLEAN
  BY DEF SettingsInv, SettingsTypes
<1>2. ~clash => SettingsOrder
  BY <1>1 DEF SettingsInv
<1> QED BY <1>2 DEF Settings!SettingsKept, Settings!Quiet, SettingsOrder

\* The invariant holds before anything has happened.
LEMMA SettingsInit == ASSUME Settings!Init PROVE SettingsInv
<1>1. disk \in Settings!Settings
  BY SettingsAssumption
     DEF Settings!Init, Settings!Settings, Settings!Credentials, Settings!Version
<1>2. calls \in 0..MaxCalls
  BY SettingsAssumption DEF Settings!Init
<1>3. SettingsTypes
  BY <1>1, <1>2 DEF Settings!Init, SettingsTypes
<1>4. \A c \in Viewer : SettingsShape(c)
  BY DEF Settings!Init, SettingsShape, SettingsHolds
<1>5. SettingsOrder
  BY SettingsAssumption DEF Settings!Init, SettingsOrder, SettingsHolds
<1> QED BY <1>3, <1>4, <1>5 DEF SettingsInv

\* The calls of others stay where they are.
SettingsAside(c) ==
  \A d \in Viewer \ {c} : pc'[d] = pc[d] /\ job'[d] = job[d] /\ read'[d] = read[d]

\* The variables of the calls.
SettingsCallTypes ==
  /\ pc \in [Viewer -> {"idle", "ask", "read", "validate", "write", "apply"}]
  /\ job \in [Viewer -> SettingsJob \union {None}]
  /\ read \in [Viewer -> Settings!Credentials \union {None}]
  /\ calls \in 0..MaxCalls

\* The step of a call that leaves the files and the permissions in force alone.
LEMMA SettingsMoves ==
  ASSUME SettingsInv, NEW c \in Viewer, SettingsAside(c), SettingsCallTypes', SettingsShape(c)',
         UNCHANGED <<disk, live, saved, clash, dash, home>>,
         pc[c] # "apply", pc'[c] # "apply",
         SettingsHolds(c)' => (SettingsHolds(c) /\ read'[c] = read[c]) \/ read'[c] = disk.creds
  PROVE  SettingsInv'
<1>1. SettingsTypes'
  BY DEF SettingsInv, SettingsTypes, SettingsCallTypes
<1>2. \A d \in Viewer : SettingsShape(d)'
  BY DEF SettingsInv, SettingsShape, SettingsHolds, SettingsAside
<1>3. ASSUME clash' = FALSE PROVE SettingsOrder'
  <2>1. SettingsOrder
    BY <1>3 DEF SettingsInv
  <2>2. \A d \in Viewer : (SettingsHolds(d) => read[d] = disk.creds)'
    BY <2>1 DEF SettingsOrder, SettingsHolds, SettingsAside
  <2>3. \A d \in Viewer : pc'[d] = "apply" => job'[d].new = disk'.permissions
    BY <2>1 DEF SettingsOrder, SettingsAside
  <2>4. (\A d \in Viewer : pc'[d] # "apply") => (\A d \in Viewer : pc[d] # "apply")
    BY DEF SettingsAside
  <2> QED BY <2>1, <2>2, <2>3, <2>4 DEF SettingsOrder
<1> QED BY <1>1, <1>2, <1>3 DEF SettingsInv

\* What the end of a call leaves.
LEMMA SettingsEnd ==
  ASSUME SettingsInv, NEW c \in Viewer, Settings!Ended(c)
  PROVE  /\ SettingsAside(c) /\ pc'[c] = "idle"
         /\ pc' \in [Viewer -> {"idle", "ask", "read", "validate", "write", "apply"}]
         /\ job' \in [Viewer -> SettingsJob \union {None}]
         /\ read' \in [Viewer -> Settings!Credentials \union {None}]
  BY DEF Settings!Ended, Settings!Goto, Settings!Set, SettingsInv, SettingsTypes, SettingsAside

\* A call asks for the password, and reads the credentials.
LEMMA SettingsAsks ==
  ASSUME SettingsInv, NEW c \in Viewer,
         \/ Settings!Begin(c) \/ Settings!Ask(c) \/ Settings!Validate(c)
         \/ Settings!ReadCredentials(c)
  PROVE  SettingsInv'
<1>0. SettingsTypes /\ SettingsShape(c)
  BY DEF SettingsInv
<1>1. UNCHANGED <<disk, live, saved, clash, dash, home>>
  BY DEF Settings!Begin, Settings!Ask, Settings!Validate, Settings!ReadCredentials, Settings!process
<1>2. CASE Settings!Begin(c)
  <2>1. /\ pc[c] = "idle" /\ calls < MaxCalls /\ calls' = calls + 1 /\ UNCHANGED read
    BY <1>2 DEF Settings!Begin
  <2>2. calls' \in 0..MaxCalls
    BY <1>0, <2>1, SettingsAssumption DEF SettingsTypes
  <2>3. PICK op \in Settings!Op :
          /\ job' = [job EXCEPT ![c] = [op |-> op, new |-> calls']]
          /\ pc' = [pc EXCEPT ![c] = IF op = "permissions" THEN "write"
                                     ELSE IF Settings!Asks(op) THEN "ask" ELSE "read"]
    BY <1>2 DEF Settings!Begin, Settings!Set, Settings!Goto
  <2>4. [op |-> op, new |-> calls'] \in SettingsJob
    BY <2>2 DEF SettingsJob, Settings!Version
  <2>5. SettingsAside(c)
    BY <1>0, <2>1, <2>3 DEF SettingsAside, SettingsTypes
  <2>6. SettingsCallTypes'
    BY <1>0, <2>1, <2>2, <2>3, <2>4 DEF SettingsCallTypes, SettingsTypes
  <2>7. /\ job'[c] = [op |-> op, new |-> calls'] /\ pc'[c] \in {"write", "ask", "read"}
        /\ pc'[c] = "write" => op = "permissions"
    BY <1>0, <2>3 DEF SettingsTypes
  <2>8. ~SettingsHolds(c)' /\ SettingsShape(c)'
    BY <2>4, <2>7 DEF SettingsHolds, SettingsShape
  <2> QED BY <1>1, <2>1, <2>5, <2>6, <2>7, <2>8, SettingsMoves
<1>3. CASE Settings!Ask(c) \/ Settings!Validate(c)
  <2>1. PICK p \in {"read", "write"} :
          /\ pc' = [pc EXCEPT ![c] = p] /\ (p = "write" => pc[c] = "validate")
          /\ pc[c] \in {"ask", "validate"} /\ UNCHANGED <<job, read, calls>>
    BY <1>3 DEF Settings!Ask, Settings!Validate, Settings!Goto, Settings!Set
  <2>2. SettingsAside(c)
    BY <1>0, <2>1 DEF SettingsAside, SettingsTypes
  <2>3. SettingsCallTypes'
    BY <1>0, <2>1 DEF SettingsCallTypes, SettingsTypes
  <2>4. pc'[c] = p /\ (SettingsHolds(c)' => SettingsHolds(c))
    BY <1>0, <2>1 DEF SettingsTypes, SettingsHolds
  <2>5. SettingsShape(c)'
    BY <1>0, <2>1, <2>4 DEF SettingsShape
  <2> QED BY <1>1, <2>1, <2>2, <2>3, <2>4, <2>5, SettingsMoves
<1>4. CASE Settings!ReadCredentials(c)
  <2>1. pc[c] = "read" /\ UNCHANGED calls
    BY <1>4 DEF Settings!ReadCredentials
  <2>2. CASE Settings!CanUnlock(job[c].op)
    <3>1. PICK p \in {"validate", "write"} :
            /\ pc' = [pc EXCEPT ![c] = p] /\ read' = [read EXCEPT ![c] = disk.creds]
            /\ UNCHANGED job
      BY <1>4, <2>2 DEF Settings!ReadCredentials, Settings!Goto, Settings!Set
    <3>2. disk.creds \in Settings!Credentials
      BY <1>0 DEF SettingsTypes, Settings!Settings
    <3>3. SettingsAside(c)
      BY <1>0, <3>1 DEF SettingsAside, SettingsTypes
    <3>4. SettingsCallTypes'
      BY <1>0, <2>1, <3>1, <3>2 DEF SettingsCallTypes, SettingsTypes
    <3>5. pc'[c] = p /\ read'[c] = disk.creds /\ job'[c] = job[c]
      BY <1>0, <3>1 DEF SettingsTypes
    <3>6. SettingsShape(c)'
      BY <1>0, <2>1, <3>2, <3>5 DEF SettingsShape
    <3> QED BY <1>1, <2>1, <3>3, <3>4, <3>5, <3>6, SettingsMoves
  <2>3. CASE ~Settings!CanUnlock(job[c].op)
    <3>1. Settings!Ended(c)
      BY <1>4, <2>3 DEF Settings!ReadCredentials
    <3>2. SettingsCallTypes'
      BY <1>0, <2>1, <3>1, SettingsEnd DEF SettingsCallTypes, SettingsTypes
    <3>3. SettingsAside(c) /\ pc'[c] = "idle" /\ ~SettingsHolds(c)' /\ SettingsShape(c)'
      BY <3>1, SettingsEnd DEF SettingsHolds, SettingsShape
    <3> QED BY <1>1, <2>1, <3>2, <3>3, SettingsMoves
  <2> QED BY <2>2, <2>3
<1> QED BY <1>2, <1>3, <1>4

\* A call ends without a write.
LEMMA SettingsStops ==
  ASSUME SettingsInv, NEW c \in Viewer,
         Settings!Refused(c) \/ Settings!NotUnlocked(c) \/ Settings!DiskFails(c)
  PROVE  SettingsInv'
<1>0. SettingsTypes
  BY DEF SettingsInv
<1>1. /\ Settings!Ended(c) /\ pc[c] # "apply"
      /\ UNCHANGED <<disk, live, saved, clash, dash, home, calls>>
  BY DEF Settings!Refused, Settings!NotUnlocked, Settings!DiskFails, Settings!process
<1>2. SettingsCallTypes'
  BY <1>0, <1>1, SettingsEnd DEF SettingsCallTypes, SettingsTypes
<1>3. SettingsAside(c) /\ pc'[c] = "idle" /\ ~SettingsHolds(c)' /\ SettingsShape(c)'
  BY <1>1, SettingsEnd DEF SettingsHolds, SettingsShape
<1> QED BY <1>1, <1>2, <1>3, SettingsMoves

\* What a call writes of the credentials, to the file and to the record of it.
LEMMA SettingsWritten ==
  ASSUME SettingsTypes, NEW r \in Settings!Credentials, NEW j \in SettingsJob,
         disk' = [disk EXCEPT !.creds = Settings!Changed(r, j)],
         saved' = [saved EXCEPT !.creds[Settings!Part(j)] = Settings!NewOf(j)]
  PROVE  /\ disk' \in Settings!Settings /\ saved' \in Settings!Settings
         /\ disk'.permissions = disk.permissions
         /\ r = saved.creds => disk'.creds = saved'.creds
<1>1. /\ disk.permissions \in Settings!Version
      /\ saved.creds \in Settings!Credentials /\ saved.permissions \in Settings!Version
  BY DEF SettingsTypes, Settings!Settings
<1>2. \A x \in Settings!Credentials : Settings!Changed(x, j) \in Settings!Credentials
  BY DEF SettingsJob, Settings!Changed, Settings!Credentials, Settings!Part, Settings!NewOf
<1>3. disk'.creds = Settings!Changed(r, j) /\ disk'.permissions = disk.permissions
  BY DEF SettingsTypes, Settings!Settings
<1>4. saved'.creds = Settings!Changed(saved.creds, j)
  BY DEF SettingsTypes, Settings!Settings, Settings!Changed
<1>5. disk' \in Settings!Settings
  BY <1>1, <1>2 DEF SettingsTypes, Settings!Settings
<1>6. saved' = [saved EXCEPT !.creds = Settings!Changed(saved.creds, j)]
  BY DEF SettingsTypes, Settings!Settings, Settings!Changed
<1>7. saved' \in Settings!Settings
  BY <1>1, <1>2, <1>6 DEF SettingsTypes, Settings!Settings
<1> QED BY <1>3, <1>4, <1>5, <1>7

\* Nobody else is where it would be overtaken, or there is a clash.
LEMMA SettingsClash ==
  ASSUME clash \in BOOLEAN, NEW c \in Viewer, clash' = (clash \/ Settings!Others(c))
  PROVE  /\ clash' \in BOOLEAN
         /\ clash' = FALSE =>
              /\ clash = FALSE
              /\ \A d \in Viewer \ {c} : pc[d] \notin {"validate", "write", "apply"}
<1>1. clash' \in BOOLEAN
  BY Zenon DEF Settings!Others
<1>2. clash' = FALSE => clash = FALSE /\ ~Settings!Others(c)
  BY Zenon
<1> QED BY <1>1, <1>2 DEF Settings!Others

\* The credentials are written as they were read, with one part changed.
LEMMA SettingsWrites ==
  ASSUME SettingsInv, NEW c \in Viewer, Settings!WriteCredentials(c)
  PROVE  SettingsInv'
<1>0. SettingsTypes /\ SettingsShape(c)
  BY DEF SettingsInv
<1>1. /\ pc[c] = "write" /\ job[c].op # "permissions" /\ Settings!Ended(c)
      /\ disk' = [disk EXCEPT !.creds = Settings!Changed(read[c], job[c])]
      /\ saved' = [saved EXCEPT !.creds[Settings!Part(job[c])] = Settings!NewOf(job[c])]
      /\ clash' = (clash \/ Settings!Others(c))
      /\ UNCHANGED <<home, dash, live, calls>>
  BY DEF Settings!WriteCredentials
<1>2. SettingsHolds(c) /\ job[c] \in SettingsJob /\ read[c] \in Settings!Credentials
  BY <1>0, <1>1 DEF SettingsShape, SettingsHolds
<1>3. /\ disk' \in Settings!Settings /\ saved' \in Settings!Settings
      /\ disk'.permissions = disk.permissions
      /\ read[c] = saved.creds => disk'.creds = saved'.creds
  BY <1>0, <1>1, <1>2, SettingsWritten
<1>4. SettingsAside(c) /\ pc'[c] = "idle"
  BY <1>1, SettingsEnd
<1>5. clash \in BOOLEAN
  BY <1>0 DEF SettingsTypes
<1>6. SettingsTypes'
  BY <1>0, <1>1, <1>3, <1>5, SettingsEnd, SettingsClash DEF SettingsTypes
<1>7. \A d \in Viewer : SettingsShape(d)'
  BY <1>4 DEF SettingsInv, SettingsShape, SettingsHolds, SettingsAside
<1>8. ASSUME clash' = FALSE PROVE SettingsOrder'
  <2>1. clash = FALSE /\ \A d \in Viewer \ {c} : pc[d] \notin {"validate", "write", "apply"}
    BY <1>1, <1>5, <1>8, SettingsClash
  <2>2. SettingsOrder
    BY <2>1 DEF SettingsInv
  <2>3. \A d \in Viewer : pc'[d] \notin {"validate", "write", "apply"} /\ pc[d] # "apply"
    BY <1>1, <1>4, <2>1 DEF SettingsAside
  <2>4. disk'.creds = saved'.creds
    BY <1>2, <1>3, <2>2 DEF SettingsOrder
  <2> QED BY <1>1, <1>3, <2>2, <2>3, <2>4 DEF SettingsOrder, SettingsHolds
<1> QED BY <1>6, <1>7, <1>8 DEF SettingsInv

\* The permissions are written to the disk.
LEMMA SettingsPermits ==
  ASSUME SettingsInv, NEW c \in Viewer, Settings!WritePermissions(c)
  PROVE  SettingsInv'
<1>0. SettingsTypes /\ SettingsShape(c)
  BY DEF SettingsInv
<1>1. /\ pc[c] = "write" /\ pc' = [pc EXCEPT ![c] = "apply"]
      /\ disk' = [disk EXCEPT !.permissions = job[c].new]
      /\ clash' = (clash \/ Settings!Others(c))
      /\ UNCHANGED <<home, dash, live, job, read, calls, saved>>
  BY DEF Settings!WritePermissions, Settings!Goto, Settings!Set, Settings!process
<1>2. job[c] \in SettingsJob /\ job[c].new \in Settings!Version
  BY <1>0, <1>1 DEF SettingsShape, SettingsJob
<1>3. disk' \in Settings!Settings /\ disk'.permissions = job[c].new /\ disk'.creds = disk.creds
  BY <1>0, <1>1, <1>2 DEF SettingsTypes, Settings!Settings
<1>4. SettingsAside(c) /\ pc'[c] = "apply"
  BY <1>0, <1>1 DEF SettingsAside, SettingsTypes
<1>5. clash \in BOOLEAN
  BY <1>0 DEF SettingsTypes
<1>6. SettingsTypes'
  BY <1>0, <1>1, <1>3, <1>5, SettingsClash DEF SettingsTypes
<1>7. \A d \in Viewer : SettingsShape(d)'
  BY <1>1, <1>2, <1>4 DEF SettingsInv, SettingsShape, SettingsHolds, SettingsAside
<1>8. ASSUME clash' = FALSE PROVE SettingsOrder'
  <2>1. clash = FALSE /\ \A d \in Viewer \ {c} : pc[d] \notin {"validate", "write", "apply"}
    BY <1>1, <1>5, <1>8, SettingsClash
  <2>2. SettingsOrder
    BY <2>1 DEF SettingsInv
  <2>3. \A d \in Viewer : /\ pc'[d] \notin {"validate", "write"}
                          /\ pc'[d] = "apply" => job'[d].new = disk'.permissions
    BY <1>1, <1>3, <1>4, <2>1 DEF SettingsAside
  <2> QED BY <1>1, <1>3, <1>4, <2>2, <2>3 DEF SettingsOrder, SettingsHolds
<1> QED BY <1>6, <1>7, <1>8 DEF SettingsInv

\* The permissions are put in force.
LEMMA SettingsApplies ==
  ASSUME SettingsInv, NEW c \in Viewer, Settings!ApplyPermissions(c)
  PROVE  SettingsInv'
<1>0. SettingsTypes /\ SettingsShape(c)
  BY DEF SettingsInv
<1>1. /\ pc[c] = "apply" /\ Settings!Ended(c)
      /\ live' = IF dash = "full" THEN job[c].new ELSE live
      /\ saved' = [saved EXCEPT !.permissions = job[c].new]
      /\ UNCHANGED <<home, dash, disk, calls, clash>>
  BY DEF Settings!ApplyPermissions, Settings!Applied, Settings!process
<1>2. job[c].new \in Settings!Version
  BY <1>0, <1>1 DEF SettingsShape, SettingsJob
<1>3. saved' \in Settings!Settings /\ saved'.creds = saved.creds
  BY <1>0, <1>1, <1>2 DEF SettingsTypes, Settings!Settings
<1>4. SettingsAside(c) /\ pc'[c] = "idle"
  BY <1>1, SettingsEnd
<1>6. SettingsTypes'
  BY <1>0, <1>1, <1>3, SettingsEnd DEF SettingsTypes
<1>7. \A d \in Viewer : SettingsShape(d)'
  BY <1>4 DEF SettingsInv, SettingsShape, SettingsHolds, SettingsAside
<1>8. ASSUME clash' = FALSE PROVE SettingsOrder'
  <2>1. SettingsOrder
    BY <1>1, <1>8 DEF SettingsInv
  <2>2. \A d \in Viewer : /\ (SettingsHolds(d) => read[d] = disk.creds)'
                          /\ pc'[d] = "apply" => job'[d].new = disk'.permissions
    BY <1>1, <1>4, <2>1 DEF SettingsOrder, SettingsHolds, SettingsAside
  <2>3. dash = "full" => live' = disk.permissions
    BY <1>1, <2>1 DEF SettingsOrder
  <2> QED BY <1>1, <1>3, <2>1, <2>2, <2>3 DEF SettingsOrder
<1> QED BY <1>6, <1>7, <1>8 DEF SettingsInv

\* The process starts or stops: it has loaded the file, or it serves no full dashboard.
LEMMA SettingsProcess ==
  ASSUME SettingsInv, UNCHANGED <<home, disk, calls, saved, clash>>,
         \/ UNCHANGED <<pc, job, read>>
         \/ /\ pc' = [c \in Viewer |-> "idle"] /\ job' = [c \in Viewer |-> None]
            /\ read' = [c \in Viewer |-> None],
         \/ UNCHANGED <<dash, live, pc>>
         \/ Settings!StartServer
         \/ dash' # "full"
  PROVE  SettingsInv'
<1>1. SettingsTypes' /\ \A c \in Viewer : SettingsShape(c)'
  BY DEF SettingsInv, SettingsTypes, SettingsShape, SettingsHolds
<1>2. ASSUME clash' = FALSE PROVE SettingsOrder'
  <2>1. SettingsOrder
    BY <1>2 DEF SettingsInv
  <2>2. \A c \in Viewer : /\ (SettingsHolds(c) => read[c] = disk.creds)'
                          /\ pc'[c] = "apply" => job'[c].new = disk'.permissions
    BY <2>1 DEF SettingsOrder, SettingsHolds
  <2>3. dash' = "full" /\ home' /\ (\A c \in Viewer : pc'[c] # "apply") => live' = disk'.permissions
    BY <2>1 DEF SettingsOrder, Settings!StartServer, Settings!Loaded
  <2> QED BY <2>1, <2>2, <2>3 DEF SettingsOrder
<1> QED BY <1>1, <1>2 DEF SettingsInv

\* The start of the process, and its end.
LEMMA SettingsOutside ==
  ASSUME SettingsInv,
         \/ Settings!Start \/ Settings!TpmFails \/ Settings!PollTpm \/ Settings!PollPassword
         \/ Settings!Connected \/ Settings!NotConnected \/ Settings!Unlock \/ Settings!Crash
  PROVE  SettingsInv'
<1>1. UNCHANGED <<home, disk, calls, saved, clash>>
  BY DEF Settings!Start, Settings!TpmFails, Settings!PollTpm, Settings!PollPassword,
         Settings!Connected, Settings!NotConnected, Settings!Unlock, Settings!Crash
<1>2. CASE Settings!Crash
  <2>1. /\ pc' = [c \in Viewer |-> "idle"] /\ job' = [c \in Viewer |-> None]
        /\ read' = [c \in Viewer |-> None] /\ dash' = None
    BY <1>2 DEF Settings!Crash
  <2> QED BY <1>1, <2>1, SettingsAssumption, SettingsProcess
<1>3. CASE ~Settings!Crash
  <2>1. UNCHANGED <<pc, job, read>>
    BY <1>3 DEF Settings!Start, Settings!TpmFails, Settings!PollTpm, Settings!PollPassword,
         Settings!Connected, Settings!NotConnected, Settings!Unlock, Settings!callVars
  <2>2. UNCHANGED <<dash, live>> \/ Settings!StartServer \/ dash' = "locked"
    BY <1>3 DEF Settings!Start, Settings!TpmFails, Settings!PollTpm, Settings!PollPassword,
         Settings!Connected, Settings!NotConnected, Settings!Unlock
  <2> QED BY <1>1, <2>1, <2>2, SettingsProcess
<1> QED BY <1>2, <1>3

\* Every step of DashboardSettings keeps the invariant.
LEMMA SettingsStep ==
  ASSUME SettingsInv, [Settings!Next]_(Settings!vars)
  PROVE  SettingsInv'
<1>1. CASE UNCHANGED Settings!vars
  <2>1. UNCHANGED <<home, disk, calls, saved, clash, pc, job, read, dash, live>>
    BY <1>1 DEF Settings!vars, Settings!process, Settings!callVars
  <2> QED BY <2>1, SettingsProcess
<1>2. CASE Settings!Next
  BY <1>2, SettingsAsks, SettingsStops, SettingsWrites, SettingsPermits, SettingsApplies,
     SettingsOutside DEF Settings!Next, Settings!Save
<1> QED BY <1>1, <1>2

\* A behaviour about DashboardSettings takes its steps and no others.
LEMMA SettingsPart ==
  ASSUME part = "settings", [Next]_vars
  PROVE  [Settings!Next]_(Settings!vars)
<1>1. CASE Next
  BY <1>1 DEF Next
<1>2. CASE UNCHANGED vars
  <2>1. UNCHANGED <<home, tpm, phase, tried, dash, unlock, disk, live, pc, job, read, calls, faults, saved, clash>>
    BY <1>2, Zenon DEF vars
  <2> QED BY <2>1 DEF Settings!vars, Settings!process, Settings!callVars
<1> QED BY <1>1, <1>2

\* It starts as DashboardSettings does.
LEMMA SettingsStart == ASSUME Init, part = "settings" PROVE Settings!Init
  BY DEF Init

\* What the dashboard has saved stays on the disk, credentials and
\* permissions, unless one call overtook another. What is in force is what
\* is on the disk only where a full server's own dashboard serves the calls
\* and its configuration is in /config, once no call is under way and none
\* overtook another (dashboard/api.rs).
THEOREM SafetyOfSettings == Spec => []SettingsKept
<1> DEFINE I == part = "settings" => SettingsInv
<1>1. Init => I
  BY SettingsStart, SettingsInit
<1>2. I /\ [Next]_vars => I'
  <2> SUFFICES ASSUME I, [Next]_vars, part' = "settings" PROVE (SettingsInv)'
    OBVIOUS
  <2> QED BY PartStays, SettingsPart, SettingsStep
<1>3. I => SettingsKept
  BY SettingsHold DEF SettingsKept, SettingsInv
<1> QED BY <1>1, <1>2, <1>3, PTL DEF Spec

------------------------------------------------------------------------------
(* Keystore: whoever writes its files is alone, or the run is mixed; and    *)
(* the files of a keystore that was built alone are of one key pair.        *)

\* What a worker is at: a setup takes three steps, an update two.
KeysJobs ==
  /\ job \in [Worker -> Keys!Job \union {None}]
  /\ \A w \in Worker : job[w] # None =>
       /\ job[w].op = "setup" => job[w].key \in Keys!Key /\ job[w].step \in 1..3
       /\ job[w].op = "update" => job[w].step \in 1..2

\* Unless two have changed the files at once, whoever does is alone; and what a
\* setup has written so far is there.
KeysAlone ==
  mixed = FALSE => \A w \in Worker : job[w] # None =>
    /\ poll = "rest" /\ \A v \in Worker : job[v] # None => v = w
    /\ job[w].op = "setup" =>
         /\ job[w].step # 1 => cred = job[w].key
         /\ job[w].step = 3 => pub = job[w].key
         /\ leftover = FALSE => sealed = 0 /\ tpmenc = Keys!NoFile

\* A keystore that a setup has built on its own: the three files are of one key
\* pair, nothing but updates and a seal goes on, and what is sealed is of the
\* same pair.
KeysBuilt ==
  built = TRUE =>
    /\ cred # None /\ pub = cred /\ enc = cred
    /\ \A w \in Worker : job[w] # None =>
         job[w].op = "update" /\ (job[w].step = 2 => job[w].key = cred)
    /\ poll # "rest" => pollkey = cred
    /\ leftover = FALSE =>
         /\ tpmenc # Keys!NoFile => sealed # 0 /\ tpmenc.aes = sealed /\ tpmenc.key = cred
         /\ poll # "rest" => tpmenc = Keys!NoFile
         /\ poll = "file" => sealed = seals

\* The invariant.
KeysInv ==
  /\ Keys!TypeOK /\ KeysJobs /\ KeysAlone /\ KeysBuilt
  /\ poll # "rest" => seals # 0

\* Then the keystore opens.
LEMMA KeysOpen == ASSUME KeysInv PROVE Keys!KeystoreOpens
<1> SUFFICES ASSUME built, ~leftover
             PROVE  /\ \A t \in BOOLEAN : Keys!Opens(TRUE, t)
                    /\ Keys!HasTpmKey => Keys!Opens(FALSE, TRUE)
  BY Zenon DEF Keys!KeystoreOpens, Keys!AtRest
<1>0. built = TRUE /\ leftover = FALSE
  <2>1. built \in BOOLEAN /\ leftover \in BOOLEAN
    BY Zenon DEF KeysInv, Keys!TypeOK
  <2> QED BY <2>1
<1>1. cred # None /\ enc = cred
  BY <1>0 DEF KeysInv, KeysBuilt
<1>2. ASSUME NEW t \in BOOLEAN, Keys!HasTpmKey, Keys!TpmKey(t) # None PROVE Keys!TpmKey(t) = cred
  BY <1>0, <1>2 DEF KeysInv, KeysBuilt, Keys!HasTpmKey, Keys!TpmKey, Keys!Unsealed
<1>3. ASSUME NEW t \in BOOLEAN PROVE Keys!Opens(TRUE, t)
  BY <1>1, <1>2 DEF Keys!Opens, Keys!IsConfigured, Keys!Decrypts, Keys!PrivateKey
<1>4. ASSUME Keys!HasTpmKey PROVE Keys!Opens(FALSE, TRUE)
  <2>1. Keys!TpmKey(TRUE) = cred
    BY <1>0, <1>4 DEF KeysInv, KeysBuilt, Keys!HasTpmKey, Keys!TpmKey, Keys!Unsealed
  <2> QED BY <1>1, <1>4, <2>1 DEF Keys!Opens, Keys!IsConfigured, Keys!Decrypts, Keys!PrivateKey
<1> QED BY <1>3, <1>4

\* The variables of the keystore, without what is true or false.
KeysTypes ==
  /\ cred \in Keys!Key \union {None} /\ pub \in Keys!Key \union {None}
  /\ enc \in Keys!Key \union {None} /\ sealed \in 0..MaxSeals
  /\ tpmenc \in [aes : 0..MaxSeals, key : Keys!Key \union {None}]
  /\ mode \in {"off", "setup", "locked", "running"}
  /\ poll \in {"rest", "key", "file"} /\ pollkey \in Keys!Key \union {None}
  /\ keys \in 0..NumKeys /\ seals \in 0..MaxSeals /\ faults \in 0..MaxFaults

\* What is true or false.
KeysFlags ==
  /\ password \in BOOLEAN /\ tried \in BOOLEAN /\ built \in BOOLEAN /\ mixed \in BOOLEAN
  /\ leftover \in BOOLEAN

\* The invariant, taken apart.
LEMMA KeysTyped ==
  ASSUME KeysInv
  PROVE  KeysTypes /\ KeysFlags /\ KeysJobs /\ KeysAlone /\ KeysBuilt /\ (poll # "rest" => seals # 0)
<1>1. Keys!TypeOK /\ KeysJobs /\ KeysAlone /\ KeysBuilt /\ (poll # "rest" => seals # 0)
  BY Zenon DEF KeysInv
<1> QED BY <1>1, Zenon DEF Keys!TypeOK, KeysTypes, KeysFlags

\* And put together.
LEMMA KeysKept ==
  ASSUME KeysTypes', KeysFlags', KeysJobs', KeysAlone', KeysBuilt', poll' # "rest" => seals' # 0
  PROVE  KeysInv'
<1>1. \A w \in Worker : job'[w] = None \/ job'[w] \in Keys!Job
  BY DEF KeysJobs
<1>2. Keys!TypeOK'
  BY <1>1, Zenon DEF Keys!TypeOK, KeysTypes, KeysFlags
<1> QED BY <1>2, Zenon DEF KeysInv

\* The invariant holds before anything has happened.
LEMMA KeysInit == ASSUME Keys!Init PROVE KeysInv
<1>1. Keys!TypeOK
  <2>1. tpmenc \in [aes : 0..MaxSeals, key : Keys!Key \union {None}]
    BY KeysAssumption DEF Keys!Init, Keys!NoFile
  <2>2. /\ cred \in Keys!Key \union {None} /\ pub \in Keys!Key \union {None}
        /\ enc \in Keys!Key \union {None} /\ sealed \in 0..MaxSeals
        /\ mode \in {"off", "setup", "locked", "running"}
        /\ \A w \in Worker : job[w] = None \/ job[w] \in Keys!Job
        /\ poll \in {"rest", "key", "file"} /\ pollkey \in Keys!Key \union {None}
        /\ keys \in 0..NumKeys /\ seals \in 0..MaxSeals /\ faults \in 0..MaxFaults
    BY KeysAssumption DEF Keys!Init
  <2>3. /\ password \in BOOLEAN /\ tried \in BOOLEAN /\ built \in BOOLEAN /\ mixed \in BOOLEAN
        /\ leftover \in BOOLEAN
    BY DEF Keys!Init
  <2> QED BY <2>1, <2>2, <2>3, Zenon DEF Keys!TypeOK
<1>2. KeysJobs /\ KeysAlone /\ KeysBuilt /\ (poll # "rest" => seals # 0)
  BY DEF Keys!Init, KeysJobs, KeysAlone, KeysBuilt
<1> QED BY <1>1, <1>2 DEF KeysInv

\* The record of a job after a step of it.
LEMMA KeysNext ==
  ASSUME KeysJobs, NEW w \in Worker, job[w] # None, NEW k \in Keys!Key \union {None}, NEW n \in 1..5,
         job' = [job EXCEPT ![w] = [job[w] EXCEPT !.step = n, !.key = k]]
  PROVE  /\ job' \in [Worker -> Keys!Job \union {None}]
         /\ job'[w] # None /\ job'[w].op = job[w].op /\ job'[w].step = n /\ job'[w].key = k
         /\ \A v \in Worker : v # w => job'[v] = job[v]
<1> DEFINE c == job[w]
<1>1. c \in Keys!Job
  BY DEF KeysJobs
<1>2. /\ [c EXCEPT !.step = n, !.key = k] \in Keys!Job /\ [c EXCEPT !.step = n, !.key = k].op = c.op
      /\ [c EXCEPT !.step = n, !.key = k].step = n /\ [c EXCEPT !.step = n, !.key = k].key = k
  <2> HIDE DEF c
  <2> QED BY <1>1 DEF Keys!Job
<1> QED BY <1>1, <1>2, KeysAssumption DEF KeysJobs

\* The next step of a job.
LEMMA KeysStepped ==
  ASSUME KeysJobs, NEW w \in Worker, job[w] # None, job[w].step # 5, Keys!Step(w)
  PROVE  /\ job' \in [Worker -> Keys!Job \union {None}]
         /\ job'[w] # None /\ job'[w].op = job[w].op /\ job'[w].step = job[w].step + 1
         /\ job'[w].key = job[w].key /\ job[w].step \in 1..5
         /\ \A v \in Worker : v # w => job'[v] = job[v]
<1> DEFINE c == job[w]
<1>1. c \in Keys!Job
  BY DEF KeysJobs
<1>2. /\ [c EXCEPT !.step = c.step + 1] \in Keys!Job /\ [c EXCEPT !.step = c.step + 1].op = c.op
      /\ [c EXCEPT !.step = c.step + 1].step = c.step + 1 /\ [c EXCEPT !.step = c.step + 1].key = c.key
      /\ c.step \in 1..5
  <2>1. c.step # 5
    OBVIOUS
  <2> HIDE DEF c
  <2> QED BY <1>1, <2>1 DEF Keys!Job
<1>3. job' = [job EXCEPT ![w] = [c EXCEPT !.step = c.step + 1]]
  BY DEF Keys!Step
<1> QED BY <1>1, <1>2, <1>3, KeysAssumption DEF KeysJobs

\* A job ends.
LEMMA KeysDone ==
  ASSUME KeysJobs, NEW w \in Worker, Keys!Done(w)
  PROVE  KeysJobs' /\ job'[w] = None /\ \A v \in Worker : v # w => job'[v] = job[v]
  BY DEF KeysJobs, Keys!Done

\* A worker begins.
LEMMA KeysBegin ==
  ASSUME KeysInv, NEW w \in Worker, NEW j \in Keys!Job, Keys!Begin(w, j),
         j.step = 1, j.op = "setup" => j.key \in Keys!Key,
         keys' \in 0..NumKeys, UNCHANGED <<cred, pub, enc, sealed, tpmenc, mode, poll, pollkey,
           password, tried, seals, faults>>
  PROVE  KeysInv'
<1>0. KeysTypes /\ KeysFlags /\ KeysJobs /\ KeysAlone /\ KeysBuilt /\ (poll # "rest" => seals # 0)
  BY KeysTyped
<1>1. /\ job[w] = None /\ job' = [job EXCEPT ![w] = j] /\ job'[w] = j /\ j # None
      /\ \A v \in Worker : v # w => job'[v] = job[v]
  BY <1>0, KeysAssumption DEF Keys!Begin, KeysJobs
<1>2. Keys!Alone => poll = "rest" /\ \A v \in Worker : job[v] = None
  BY DEF Keys!Alone, Keys!Busy
<1>3. /\ mixed' \in BOOLEAN /\ built' \in BOOLEAN /\ leftover' \in BOOLEAN
      /\ mixed' = FALSE => Keys!Alone
      /\ built' = TRUE => j.op = "update" /\ Keys!Alone /\ built = TRUE
      /\ j.op # "setup" => leftover' = leftover
      /\ j.op = "setup" /\ leftover' = FALSE => sealed = 0 /\ tpmenc = Keys!NoFile
  BY <1>0 DEF Keys!Begin, KeysFlags
<1>4. KeysTypes' /\ KeysFlags'
  <2>1. KeysTypes'
    BY <1>0 DEF KeysTypes
  <2>2. KeysFlags'
    BY <1>0, <1>3, Zenon DEF KeysFlags
  <2> QED BY <2>1, <2>2
<1>5. KeysJobs'
  BY <1>0, <1>1 DEF KeysJobs
<1>6. KeysAlone'
  BY <1>1, <1>2, <1>3 DEF KeysAlone
<1>7. KeysBuilt'
  <2> SUFFICES ASSUME built' = TRUE PROVE KeysBuilt'
    BY DEF KeysBuilt
  <2>1. j.op = "update" /\ built = TRUE /\ leftover' = leftover /\ \A v \in Worker : job[v] = None
    BY <1>2, <1>3
  <2> QED BY <1>0, <1>1, <2>1 DEF KeysBuilt
<1> QED BY <1>0, <1>4, <1>5, <1>6, <1>7, KeysKept

\* A setup, a reset or an update begins.
LEMMA KeysBegins ==
  ASSUME KeysInv, NEW w \in Worker, Keys!Setup(w) \/ Keys!Reset(w) \/ Keys!Update(w)
  PROVE  KeysInv'
<1>1. keys \in 0..NumKeys /\ NumKeys \in Nat
  BY KeysTyped, KeysAssumption DEF KeysTypes
<1>2. CASE Keys!Setup(w)
  <2> DEFINE j == [op |-> "setup", step |-> 1, key |-> keys + 1]
  <2>1. keys + 1 \in Keys!Key /\ keys' \in 0..NumKeys
    BY <1>1, <1>2 DEF Keys!Setup, Keys!Key
  <2>2. j \in Keys!Job /\ j.step = 1 /\ j.key = keys + 1
    BY <2>1 DEF Keys!Job
  <2>3. /\ Keys!Begin(w, j)
        /\ UNCHANGED <<cred, pub, enc, sealed, tpmenc, mode, poll, pollkey, password, tried, seals, faults>>
    BY <1>2 DEF Keys!Setup, Keys!files, Keys!locals
  <2> HIDE DEF j
  <2> QED BY <2>1, <2>2, <2>3, KeysBegin
<1>3. ASSUME NEW o \in {"reset", "update"},
             Keys!Begin(w, [op |-> o, step |-> 1, key |-> None]),
             UNCHANGED <<cred, pub, enc, sealed, tpmenc, mode, poll, pollkey, password, tried, seals,
                         faults, keys>>
      PROVE  KeysInv'
  <2> DEFINE j == [op |-> o, step |-> 1, key |-> None]
  <2>1. j \in Keys!Job /\ j.step = 1 /\ j.op # "setup"
    BY DEF Keys!Job
  <2>2. Keys!Begin(w, j) /\ keys' \in 0..NumKeys
    BY <1>1, <1>3
  <2> HIDE DEF j
  <2> QED BY <1>3, <2>1, <2>2, KeysBegin
<1>4. CASE Keys!Reset(w)
  BY <1>3, <1>4 DEF Keys!Reset, Keys!files, Keys!locals
<1>5. CASE Keys!Update(w)
  BY <1>3, <1>5 DEF Keys!Update, Keys!files, Keys!locals
<1> QED BY <1>2, <1>4, <1>5

\* A setup writes one file after the other: they are of its key pair.
LEMMA KeysSetupStep == ASSUME KeysInv, NEW w \in Worker, Keys!SetupStep(w) PROVE KeysInv'
<1>0. KeysTypes /\ KeysFlags /\ KeysJobs /\ KeysAlone /\ KeysBuilt /\ (poll # "rest" => seals # 0)
  BY KeysTyped
<1>1. /\ job[w] # None /\ job[w].op = "setup" /\ job[w].key \in Keys!Key
      /\ UNCHANGED <<sealed, tpmenc, poll, pollkey, tried, keys, seals, faults, mixed, leftover>>
  BY <1>0 DEF Keys!SetupStep, KeysJobs
<1>2. built = FALSE
  BY <1>0, <1>1 DEF KeysBuilt, KeysFlags
<1>3. ASSUME job[w].step \in {1, 2}, Keys!Step(w),
             \/ job[w].step = 1 /\ cred' = job[w].key /\ UNCHANGED pub
             \/ job[w].step = 2 /\ pub' = job[w].key /\ UNCHANGED cred,
             UNCHANGED <<enc, mode, password, built>>
      PROVE  KeysInv'
  <2>1. /\ job' \in [Worker -> Keys!Job \union {None}]
        /\ job'[w] # None /\ job'[w].op = "setup" /\ job'[w].step = job[w].step + 1
        /\ job'[w].key = job[w].key
        /\ \A v \in Worker : v # w => job'[v] = job[v]
    BY <1>0, <1>1, <1>3, KeysStepped
  <2>2. KeysTypes'
    BY <1>0, <1>1, <1>3 DEF KeysTypes
  <2>3. KeysFlags'
    BY <1>0, <1>1, <1>3, Zenon DEF KeysFlags
  <2>4. KeysJobs'
    BY <1>0, <1>1, <1>3, <2>1 DEF KeysJobs
  <2>5. KeysAlone'
    BY <1>0, <1>1, <1>3, <2>1 DEF KeysAlone
  <2>6. KeysBuilt'
    BY <1>2, <1>3 DEF KeysBuilt
  <2> QED BY <1>0, <1>1, <2>2, <2>3, <2>4, <2>5, <2>6, KeysKept
<1>4. CASE /\ job[w].step = 3 /\ enc' = job[w].key /\ Keys!Done(w) /\ built' = ~ mixed
           /\ mode' = (IF mode = "setup" THEN "running" ELSE mode)
           /\ password' = (mode # "setup") /\ UNCHANGED <<cred, pub>>
  <2>1. KeysJobs' /\ job'[w] = None /\ \A v \in Worker : v # w => job'[v] = job[v]
    BY <1>0, <1>4, KeysDone
  <2>2. KeysTypes'
    BY <1>0, <1>1, <1>4 DEF KeysTypes
  <2>3. KeysFlags'
    <3>1. built' \in BOOLEAN /\ password' \in BOOLEAN
      BY <1>4
    <3> QED BY <1>0, <1>1, <3>1, Zenon DEF KeysFlags
  <2>5. KeysAlone'
    BY <1>0, <1>1, <1>4, <2>1 DEF KeysAlone
  <2>6. KeysBuilt'
    <3> SUFFICES ASSUME built' = TRUE PROVE KeysBuilt'
      BY DEF KeysBuilt
    <3>1. mixed = FALSE
      BY <1>0, <1>4 DEF KeysFlags
    <3>2. /\ poll = "rest" /\ \A v \in Worker : job'[v] = None
          /\ cred = job[w].key /\ pub = job[w].key
          /\ leftover = FALSE => sealed = 0 /\ tpmenc = Keys!NoFile
      BY <1>0, <1>1, <1>4, <2>1, <3>1 DEF KeysAlone
    <3>3. job[w].key # None
      BY <1>1, KeysAssumption DEF Keys!Key
    <3> QED BY <1>1, <1>4, <3>2, <3>3 DEF KeysBuilt
  <2> QED BY <1>0, <1>1, <2>1, <2>2, <2>3, <2>5, <2>6, KeysKept
<1>5. \/ /\ job[w].step \in {1, 2} /\ Keys!Step(w) /\ UNCHANGED <<enc, mode, password, built>>
         /\ \/ job[w].step = 1 /\ cred' = job[w].key /\ UNCHANGED pub
            \/ job[w].step = 2 /\ pub' = job[w].key /\ UNCHANGED cred
      \/ /\ job[w].step = 3 /\ enc' = job[w].key /\ Keys!Done(w) /\ built' = ~ mixed
         /\ mode' = (IF mode = "setup" THEN "running" ELSE mode)
         /\ password' = (mode # "setup") /\ UNCHANGED <<cred, pub>>
  BY Zenon DEF Keys!SetupStep
<1> QED BY <1>3, <1>4, <1>5

\* A reset removes one file after the other.
LEMMA KeysResetStep == ASSUME KeysInv, NEW w \in Worker, Keys!ResetStep(w) PROVE KeysInv'
<1>0. KeysTypes /\ KeysFlags /\ KeysJobs /\ KeysAlone /\ KeysBuilt /\ (poll # "rest" => seals # 0)
  BY KeysTyped
<1>1. /\ job[w] # None /\ job[w].op = "reset"
      /\ UNCHANGED <<mode, poll, pollkey, password, tried, keys, seals, faults, built, mixed, leftover>>
  BY DEF Keys!ResetStep, Keys!ghosts
<1>2. built = FALSE
  BY <1>0, <1>1 DEF KeysBuilt, KeysFlags
<1>3. /\ cred' \in {None, cred} /\ pub' \in {None, pub} /\ enc' \in {None, enc}
      /\ sealed' \in {0, sealed} /\ tpmenc' \in {Keys!NoFile, tpmenc}
  BY DEF Keys!ResetStep
<1>4. KeysTypes'
  <2>1. Keys!NoFile \in [aes : 0..MaxSeals, key : Keys!Key \union {None}]
    BY KeysAssumption DEF Keys!NoFile
  <2>2. 0 \in 0..MaxSeals
    BY KeysAssumption
  <2> QED BY <1>0, <1>1, <1>3, <2>1, <2>2 DEF KeysTypes
<1>5. KeysFlags'
  BY <1>0, <1>1, Zenon DEF KeysFlags
<1>6. KeysJobs' /\ (job'[w] # None => job'[w].op = "reset") /\ \A v \in Worker : v # w => job'[v] = job[v]
  <2>1. CASE job[w].step = 5
    BY <1>0, <2>1, KeysDone DEF Keys!ResetStep
  <2>2. CASE job[w].step # 5
    BY <1>0, <1>1, <2>2, KeysStepped DEF Keys!ResetStep, KeysJobs
  <2> QED BY <2>1, <2>2
<1>7. KeysAlone'
  BY <1>0, <1>1, <1>6 DEF KeysAlone
<1>8. KeysBuilt'
  BY <1>1, <1>2 DEF KeysBuilt
<1> QED BY <1>0, <1>1, <1>4, <1>5, <1>6, <1>7, <1>8, KeysKept

\* An update seals the credentials for the key that the keystore has.
LEMMA KeysUpdateStep == ASSUME KeysInv, NEW w \in Worker, Keys!UpdateStep(w) PROVE KeysInv'
<1>0. KeysTypes /\ KeysFlags /\ KeysJobs /\ KeysAlone /\ KeysBuilt /\ (poll # "rest" => seals # 0)
  BY KeysTyped
<1>1. /\ job[w] # None /\ job[w].op = "update"
      /\ UNCHANGED <<pub, enc, sealed, tpmenc, mode, poll, pollkey, tried, keys, seals, faults, built,
                     mixed, leftover>>
  BY DEF Keys!UpdateStep, Keys!ghosts
<1>2. CASE Keys!Done(w) /\ UNCHANGED <<cred, password>>
  <2>1. KeysJobs' /\ job'[w] = None /\ \A v \in Worker : v # w => job'[v] = job[v]
    BY <1>0, <1>2, KeysDone
  <2>2. KeysTypes' /\ KeysFlags'
    <3>1. KeysTypes'
      BY <1>0, <1>1, <1>2 DEF KeysTypes
    <3>2. KeysFlags'
      BY <1>0, <1>1, <1>2, Zenon DEF KeysFlags
    <3> QED BY <3>1, <3>2
  <2>3. KeysAlone'
    BY <1>0, <1>1, <1>2, <2>1 DEF KeysAlone
  <2>4. KeysBuilt'
    BY <1>0, <1>1, <1>2, <2>1 DEF KeysBuilt
  <2> QED BY <1>0, <1>1, <2>1, <2>2, <2>3, <2>4, KeysKept
<1>3. CASE /\ job[w].step = 1 /\ pub # None
           /\ job' = [job EXCEPT ![w].step = 2, ![w].key = pub] /\ UNCHANGED <<cred, password>>
  <2>1. job' = [job EXCEPT ![w] = [job[w] EXCEPT !.step = 2, !.key = pub]]
    BY <1>0, <1>3 DEF KeysJobs
  <2>2. pub \in Keys!Key \union {None} /\ 2 \in 1..5
    BY <1>0 DEF KeysTypes
  <2>3. /\ job' \in [Worker -> Keys!Job \union {None}]
        /\ job'[w] # None /\ job'[w].op = "update" /\ job'[w].step = 2 /\ job'[w].key = pub
        /\ \A v \in Worker : v # w => job'[v] = job[v]
    <3>1. /\ job' \in [Worker -> Keys!Job \union {None}]
          /\ job'[w] # None /\ job'[w].op = job[w].op /\ job'[w].step = 2 /\ job'[w].key = pub
          /\ \A v \in Worker : v # w => job'[v] = job[v]
      BY <1>0, <1>1, <2>1, <2>2, KeysNext, Zenon
    <3> QED BY <1>1, <3>1
  <2>4. KeysTypes' /\ KeysFlags'
    <3>1. KeysTypes'
      BY <1>0, <1>1, <1>3 DEF KeysTypes
    <3>2. KeysFlags'
      BY <1>0, <1>1, <1>3, Zenon DEF KeysFlags
    <3> QED BY <3>1, <3>2
  <2>5. KeysJobs'
    BY <1>0, <2>3 DEF KeysJobs
  <2>6. KeysAlone'
    BY <1>0, <1>1, <1>3, <2>3 DEF KeysAlone
  <2>7. KeysBuilt'
    BY <1>0, <1>1, <1>3, <2>3 DEF KeysBuilt
  <2> QED BY <1>0, <1>1, <2>4, <2>5, <2>6, <2>7, KeysKept
<1>4. CASE job[w].step = 2 /\ cred' = job[w].key /\ password' = TRUE /\ Keys!Done(w)
  <2>1. KeysJobs' /\ job'[w] = None /\ \A v \in Worker : v # w => job'[v] = job[v]
    BY <1>0, <1>4, KeysDone
  <2>2. KeysTypes'
    <3>1. job[w].key \in Keys!Key \union {None}
      <4> DEFINE c == job[w]
      <4>1. c \in Keys!Job
        BY <1>0, <1>1 DEF KeysJobs
      <4> HIDE DEF c
      <4>2. c.key \in Keys!Key \union {None}
        BY <4>1 DEF Keys!Job
      <4> QED BY <4>2 DEF c
    <3>2. cred' \in Keys!Key \union {None}
      BY <1>4, <3>1
    <3>3. UNCHANGED <<pub, enc, sealed, tpmenc, mode, poll, pollkey, keys, seals, faults>>
      BY <1>1
    <3> QED BY <1>0, <3>2, <3>3, Zenon DEF KeysTypes
  <2>3. KeysFlags'
    <3>1. password' \in BOOLEAN
      BY <1>4
    <3> QED BY <1>0, <1>1, <3>1, Zenon DEF KeysFlags
  <2>4. KeysAlone'
    BY <1>0, <1>1, <1>4, <2>1 DEF KeysAlone
  <2>5. KeysBuilt'
    <3>1. built = TRUE => cred' = cred
      BY <1>0, <1>1, <1>4 DEF KeysBuilt
    <3> QED BY <1>0, <1>1, <2>1, <3>1 DEF KeysBuilt
  <2> QED BY <1>0, <1>1, <2>1, <2>2, <2>3, <2>4, <2>5, KeysKept
<1> QED BY <1>2, <1>3, <1>4 DEF Keys!UpdateStep

\* A step that changes neither the files nor what is at work on them.
LEMMA KeysServe ==
  ASSUME KeysInv, UNCHANGED <<cred, pub, enc, sealed, tpmenc, job, poll, pollkey, seals, built,
                              leftover>>,
         mixed' = mixed \/ (Keys!Busy = {} /\ mixed' = FALSE),
         mode' \in {"off", "setup", "locked", "running"}, keys' = keys,
         faults' \in 0..MaxFaults, password' \in BOOLEAN, tried' \in BOOLEAN
  PROVE  KeysInv'
<1>0. KeysTypes /\ KeysFlags /\ KeysJobs /\ KeysAlone /\ KeysBuilt /\ (poll # "rest" => seals # 0)
  BY KeysTyped
<1>1. KeysTypes'
  BY <1>0 DEF KeysTypes
<1>2. KeysFlags'
  <2>1. mixed' \in BOOLEAN
    BY <1>0 DEF KeysFlags
  <2> QED BY <1>0, <2>1, Zenon DEF KeysFlags
<1>3. KeysJobs' /\ KeysBuilt'
  BY <1>0 DEF KeysJobs, KeysBuilt
<1>4. KeysAlone'
  BY <1>0 DEF KeysAlone, Keys!Busy
<1> QED BY <1>0, <1>1, <1>2, <1>3, <1>4, KeysKept

\* The program boots, and is unlocked or set up.
LEMMA KeysStart ==
  ASSUME KeysInv, Keys!Boot \/ Keys!BootSetup \/ Keys!Unlock \/ Keys!PollTpm
  PROVE  KeysInv'
<1>0. KeysTypes /\ KeysFlags
  BY KeysTyped
<1>1. UNCHANGED <<cred, pub, enc, sealed, tpmenc, job, poll, pollkey, seals, built, leftover, mixed, keys>>
  BY DEF Keys!Boot, Keys!BootSetup, Keys!Unlock, Keys!PollTpm, Keys!files, Keys!locals, Keys!ghosts
<1>2. mode' \in {"off", "setup", "locked", "running"} /\ faults' \in 0..MaxFaults
  <2>1. CASE Keys!Boot
    BY <1>0, <2>1 DEF KeysTypes, Keys!Boot
  <2>2. CASE Keys!BootSetup \/ Keys!Unlock
    BY <1>0, <2>2 DEF KeysTypes, Keys!BootSetup, Keys!Unlock
  <2>3. CASE Keys!PollTpm
    <3>1. /\ mode' = "running" \/ mode' = mode
          /\ faults' = faults \/ Keys!Fault
      BY <2>3 DEF Keys!PollTpm
    <3> QED BY <1>0, <3>1, KeysAssumption DEF KeysTypes, Keys!Fault
  <2> QED BY <2>1, <2>2, <2>3
<1>3. password' \in BOOLEAN /\ tried' \in BOOLEAN
  BY <1>0 DEF KeysFlags, Keys!Boot, Keys!BootSetup, Keys!Unlock, Keys!PollTpm, Keys!locals
<1> QED BY <1>1, <1>2, <1>3, KeysServe

\* The password of the boot is tried: it may begin a seal.
LEMMA KeysPollPassword == ASSUME KeysInv, Keys!PollPassword PROVE KeysInv'
<1>0. KeysTypes /\ KeysFlags /\ KeysJobs /\ KeysAlone /\ KeysBuilt /\ (poll # "rest" => seals # 0)
  BY KeysTyped
<1>1. /\ mode = "locked" /\ poll = "rest" /\ password' = FALSE
      /\ UNCHANGED <<cred, pub, enc, sealed, tpmenc, job, tried, keys, built, leftover>>
  BY DEF Keys!PollPassword, Keys!files
<1>2. CASE UNCHANGED <<poll, pollkey, seals, mixed>> /\ mode' \in {"locked", "running"}
           /\ faults' \in 0..MaxFaults
  <2>1. password' \in BOOLEAN /\ tried' \in BOOLEAN
    BY <1>0, <1>1 DEF KeysFlags
  <2> QED BY <1>1, <1>2, <2>1, KeysServe
<1>3. CASE /\ ~Keys!HasTpmKey /\ enc # None /\ seals < MaxSeals
           /\ poll' = "key" /\ pollkey' = enc /\ seals' = seals + 1
           /\ mixed' = (Keys!Busy # {}) /\ UNCHANGED <<mode, faults>>
  <2>1. seals \in 0..MaxSeals /\ seals' \in 0..MaxSeals /\ seals' # 0
    BY <1>0, <1>3, KeysAssumption DEF KeysTypes
  <2>2. KeysTypes'
    BY <1>0, <1>1, <1>3, <2>1 DEF KeysTypes
  <2>3. KeysFlags'
    <3>1. mixed' \in BOOLEAN /\ password' \in BOOLEAN
      BY <1>1, <1>3
    <3> QED BY <1>0, <1>1, <3>1, Zenon DEF KeysFlags
  <2>4. KeysJobs'
    BY <1>0, <1>1 DEF KeysJobs
  <2>5. KeysAlone'
    BY <1>1, <1>3 DEF KeysAlone, Keys!Busy
  <2>6. KeysBuilt'
    <3>1. tpmenc # Keys!NoFile => sealed = 0
      BY <1>3 DEF Keys!HasTpmKey
    <3> QED BY <1>0, <1>1, <1>3, <3>1 DEF KeysBuilt
  <2> QED BY <2>1, <2>2, <2>3, <2>4, <2>5, <2>6, KeysKept
<1>4. \/ /\ UNCHANGED <<poll, pollkey, seals, mixed>> /\ mode' \in {"locked", "running"}
         /\ UNCHANGED faults \/ Keys!Fault
      \/ /\ ~Keys!HasTpmKey /\ enc # None /\ seals < MaxSeals
         /\ poll' = "key" /\ pollkey' = enc /\ seals' = seals + 1
         /\ mixed' = (Keys!Busy # {}) /\ UNCHANGED <<mode, faults>>
  BY <1>1 DEF Keys!PollPassword
<1>5. UNCHANGED faults \/ Keys!Fault => faults' \in 0..MaxFaults
  BY <1>0, KeysAssumption DEF KeysTypes, Keys!Fault
<1> QED BY <1>2, <1>3, <1>4, <1>5

\* A seal goes to the TPM, and to its file.
LEMMA KeysSeal == ASSUME KeysInv, Keys!SealKey \/ Keys!SealFile PROVE KeysInv'
<1>0. KeysTypes /\ KeysFlags /\ KeysJobs /\ KeysAlone /\ KeysBuilt /\ (poll # "rest" => seals # 0)
  BY KeysTyped
<1>1. /\ poll # "rest" /\ UNCHANGED <<cred, pub, enc, job, password, tried, keys, seals, built, mixed, leftover>>
  BY DEF Keys!SealKey, Keys!SealFile, Keys!ghosts
<1>2. KeysFlags' /\ KeysJobs'
  <2>1. KeysFlags'
    BY <1>0, <1>1, Zenon DEF KeysFlags
  <2>2. KeysJobs'
    BY <1>0, <1>1 DEF KeysJobs
  <2> QED BY <2>1, <2>2
<1>3. mixed = FALSE => \A w \in Worker : job[w] = None
  BY <1>0, <1>1 DEF KeysAlone
<1>4. KeysAlone'
  BY <1>1, <1>3 DEF KeysAlone
<1>5. CASE Keys!SealKey
  <2>1. KeysTypes'
    <3>1. sealed' \in 0..MaxSeals
      BY <1>0, <1>5 DEF KeysTypes, Keys!SealKey, Keys!SealToTpm
    <3>2. poll' \in {"rest", "key", "file"} /\ mode' \in {"off", "setup", "locked", "running"}
      BY <1>0, <1>5 DEF KeysTypes, Keys!SealKey
    <3>3. pollkey' \in Keys!Key \union {None} /\ faults' \in 0..MaxFaults /\ tpmenc' = tpmenc
      BY <1>0, <1>5, KeysAssumption DEF KeysTypes, Keys!SealKey, Keys!Fault
    <3> QED BY <1>0, <1>1, <3>1, <3>2, <3>3 DEF KeysTypes
  <2>2. KeysBuilt'
    BY <1>0, <1>1, <1>5 DEF KeysBuilt, Keys!SealKey, Keys!SealToTpm
  <2> QED BY <1>0, <1>1, <1>2, <1>4, <2>1, <2>2, KeysKept
<1>6. CASE Keys!SealFile
  <2>1. /\ poll = "file" /\ tpmenc' = [aes |-> seals, key |-> pollkey] /\ mode' = "running"
        /\ poll' = "rest" /\ pollkey' = None /\ UNCHANGED <<sealed, faults>>
    BY <1>6 DEF Keys!SealFile
  <2>2. tpmenc' \in [aes : 0..MaxSeals, key : Keys!Key \union {None}] /\ tpmenc'.aes = seals /\ tpmenc'.key = pollkey
    BY <1>0, <2>1 DEF KeysTypes
  <2>3. KeysTypes'
    BY <1>0, <1>1, <2>1, <2>2 DEF KeysTypes
  <2>4. KeysBuilt'
    BY <1>0, <1>1, <2>1, <2>2 DEF KeysBuilt
  <2> QED BY <1>0, <1>1, <1>2, <1>4, <2>1, <2>3, <2>4, KeysKept
<1> QED BY <1>5, <1>6

\* The program stops: no job is left, and the files are as they were.
LEMMA KeysCrash == ASSUME KeysInv, Keys!Crash PROVE KeysInv'
<1>0. KeysTypes /\ KeysFlags /\ KeysJobs /\ KeysAlone /\ KeysBuilt /\ (poll # "rest" => seals # 0)
  BY KeysTyped
<1>1. /\ mode' = "off" /\ job' = [w \in Worker |-> None] /\ poll' = "rest" /\ pollkey' = None /\ Keys!Fault
      /\ UNCHANGED <<cred, pub, enc, sealed, tpmenc, password, tried, keys, seals, built, mixed, leftover>>
  BY DEF Keys!Crash, Keys!files, Keys!ghosts
<1>2. KeysTypes'
  <2>1. faults' \in 0..MaxFaults
    BY <1>0, <1>1, KeysAssumption DEF KeysTypes, Keys!Fault
  <2> QED BY <1>0, <1>1, <2>1 DEF KeysTypes
<1>3. KeysFlags'
  BY <1>0, <1>1, Zenon DEF KeysFlags
<1>4. KeysJobs' /\ KeysAlone'
  BY <1>1 DEF KeysJobs, KeysAlone
<1>5. KeysBuilt'
  BY <1>0, <1>1 DEF KeysBuilt
<1> QED BY <1>1, <1>2, <1>3, <1>4, <1>5, KeysKept

\* Every step of Keystore keeps the invariant.
LEMMA KeysStep == ASSUME KeysInv, [Keys!Next]_(Keys!vars) PROVE KeysInv'
<1>1. CASE UNCHANGED Keys!vars
  <2>1. UNCHANGED <<cred, pub, enc, sealed, tpmenc, mode, job, poll, pollkey, password, tried, keys, seals,
                    faults, built, mixed, leftover>>
    BY <1>1 DEF Keys!vars
  <2>2. KeysTypes /\ KeysFlags
    BY KeysTyped
  <2>3. mode' \in {"off", "setup", "locked", "running"} /\ faults' \in 0..MaxFaults
    BY <2>1, <2>2 DEF KeysTypes
  <2>4. password' \in BOOLEAN /\ tried' \in BOOLEAN
    BY <2>1, <2>2 DEF KeysFlags
  <2> QED BY <2>1, <2>3, <2>4, KeysServe
<1>2. CASE \E w \in Worker : \/ Keys!Setup(w) \/ Keys!SetupStep(w) \/ Keys!Reset(w) \/ Keys!ResetStep(w)
                            \/ Keys!Update(w) \/ Keys!UpdateStep(w)
  BY <1>2, KeysBegins, KeysSetupStep, KeysResetStep, KeysUpdateStep
<1>3. CASE \/ Keys!Boot \/ Keys!BootSetup \/ Keys!Unlock \/ Keys!PollTpm \/ Keys!PollPassword
           \/ Keys!SealKey \/ Keys!SealFile \/ Keys!Crash
  BY <1>3, KeysStart, KeysPollPassword, KeysSeal, KeysCrash
<1> QED BY <1>1, <1>2, <1>3, Zenon DEF Keys!Next

\* A behaviour about Keystore takes its steps and no others.
LEMMA KeysPart ==
  ASSUME part = "keys", [Next]_vars
  PROVE  [Keys!Next]_(Keys!vars)
<1>1. CASE Next
  BY <1>1 DEF Next
<1>2. CASE UNCHANGED vars
  <2>1. UNCHANGED <<cred, pub, enc, sealed, tpmenc, mode, job, poll, pollkey, password, tried, keys, seals, faults, built, mixed, leftover>>
    BY <1>2, Zenon DEF vars
  <2> QED BY <2>1 DEF Keys!vars
<1> QED BY <1>1, <1>2

\* It starts as Keystore does.
LEMMA KeysBegun == ASSUME Init, part = "keys" PROVE Keys!Init
  BY DEF Init

\* A keystore whose files a setup has written with nobody else at them opens
\* with its password, and with the TPM if there is a sealed key, whatever
\* updates, seals and crashes come after (keystore.rs, unlock at boot).
THEOREM SafetyOfKeys == Spec => []KeystoreOpens
<1> DEFINE I == part = "keys" => KeysInv
<1>1. Init => I
  BY KeysBegun, KeysInit
<1>2. I /\ [Next]_vars => I'
  <2> SUFFICES ASSUME I, [Next]_vars, part' = "keys" PROVE (KeysInv)'
    OBVIOUS
  <2> QED BY PartStays, KeysPart, KeysStep
<1>3. I => KeystoreOpens
  BY KeysOpen DEF KeystoreOpens, KeysInv
<1> QED BY <1>1, <1>2, <1>3, PTL DEF Spec

------------------------------------------------------------------------------
(* CredentialAudit: an apply has an item in its hands while it marks it,    *)
(* and the cache lags behind the vault by a marker at most.                 *)

\* A run has verdicts only when it is complete, and is active only while its
\* call lives or after it was left.
AuditScans ==
  \A s \in Scan :
    /\ found[s] # {} => status[s] = "completed" /\ spc[s] = "end"
    /\ status[s] = "running" => Audit!Alive(s) \/ s \in left

\* An apply has an item in its hands while it marks it.
AuditMarks ==
  \A a \in Apply : cur[a] # None <=> apc[a] \in {"mark", "sync", "notes", "write"}

\* An item that no mark has spoilt: the cache lags behind the vault by a marker
\* at most, and a stale copy that takes the marker away again is of an apply
\* that will come to the notes.
AuditItem(i) ==
  /\ cache[i].folder = server[i].folder
  /\ cache[i].marked => server[i].marked
  /\ \A a \in Apply : cur[a] = i =>
       /\ apc[a] \in {"notes", "write"} => server[i].folder
       /\ apc[a] = "write" => copy[a].folder
  /\ i \in applied =>
       /\ server[i].folder
       /\ server[i].marked \/ \E a \in Apply : cur[a] = i /\ apc[a] \in {"notes", "write"}

\* The invariant.
AuditInv ==
  /\ Audit!TypeOK /\ AuditScans /\ AuditMarks /\ wronged = FALSE
  /\ \A i \in Cred \ spoilt : AuditItem(i)

\* Then the audit is sound.
LEMMA AuditHolds ==
  ASSUME AuditInv
  PROVE  Audit!VerdictsOfCompletedRuns /\ Audit!RefusedOnlyWhenBusy /\ Audit!AppliedIsMarked
<1>1. Audit!VerdictsOfCompletedRuns /\ Audit!RefusedOnlyWhenBusy
  BY DEF AuditInv, AuditScans, Audit!VerdictsOfCompletedRuns, Audit!RefusedOnlyWhenBusy
<1>2. ASSUME NEW i \in applied \ spoilt, \A a \in Apply : cur[a] # i
      PROVE  server[i].folder /\ server[i].marked
  <2>1. i \in Cred
    BY DEF AuditInv, Audit!TypeOK
  <2> QED BY <1>2, <2>1 DEF AuditInv, AuditItem
<1> QED BY <1>1, <1>2 DEF Audit!AppliedIsMarked

\* The invariant holds before anything has happened.
LEMMA AuditInit == ASSUME Audit!Init PROVE AuditInv
<1>0. Audit!Fresh \in Audit!Cipher
  BY DEF Audit!Cipher, Audit!Fresh
<1>1. Audit!TypeOK
  <2>1. /\ status \in [Scan -> Audit!Status] /\ found \in [Scan -> SUBSET Cred]
        /\ spc \in [Scan -> {"start", "insert", "health", "engine", "store", "end"}]
        /\ asked \in [Scan -> SUBSET Cred]
    BY DEF Audit!Init, Audit!Status
  <2>2. /\ apc \in [Apply -> {"start", "mark", "sync", "notes", "write", "end"}]
        /\ target \in [Apply -> SUBSET Cred] /\ cur \in [Apply -> Cred \union {None}]
        /\ copy \in [Apply -> Audit!Cipher] /\ server \in [Cred -> Audit!Cipher]
        /\ cache \in [Cred -> Audit!Cipher]
    BY <1>0 DEF Audit!Init
  <2>3. /\ applied \in SUBSET Cred /\ spoilt \in SUBSET Cred
        /\ left \in SUBSET Scan /\ faults \in 0..MaxFaults
    BY AuditAssumption DEF Audit!Init
  <2>4. wronged \in BOOLEAN
    BY DEF Audit!Init
  <2> QED BY <2>1, <2>2, <2>3, <2>4 DEF Audit!TypeOK
<1>2. AuditScans /\ AuditMarks /\ wronged = FALSE
  <2>1. wronged = FALSE
    BY DEF Audit!Init
  <2>2. AuditScans
    BY AuditAssumption DEF Audit!Init, AuditScans
  <2>3. AuditMarks
    BY DEF Audit!Init, AuditMarks
  <2> QED BY <2>1, <2>2, <2>3
<1>3. \A i \in Cred \ spoilt : AuditItem(i)
  BY DEF Audit!Init, AuditItem, Audit!Fresh
<1> QED BY <1>1, <1>2, <1>3 DEF AuditInv

\* A scan and its caller: the items stay as they are.
LEMMA AuditItemsStay ==
  ASSUME AuditInv, UNCHANGED <<apc, target, cur, copy, server, cache, applied, spoilt>>
  PROVE  AuditMarks' /\ \A i \in Cred \ spoilt' : AuditItem(i)'
  BY DEF AuditInv, AuditMarks, AuditItem

\* The variables of the scans.
LEMMA AuditScanTypes ==
  ASSUME AuditInv, UNCHANGED <<apc, target, cur, copy, server, cache, applied, spoilt>>,
         status' \in [Scan -> Audit!Status], found' \in [Scan -> SUBSET Cred],
         spc' \in [Scan -> {"start", "insert", "health", "engine", "store", "end"}],
         asked' \in [Scan -> SUBSET Cred], left' \in SUBSET Scan, wronged' = FALSE,
         faults' \in 0..MaxFaults, AuditScans'
  PROVE  AuditInv'
<1>1. Audit!TypeOK'
  BY DEF AuditInv, Audit!TypeOK
<1> QED BY <1>1, AuditItemsStay DEF AuditInv

\* An item of a scan is counted.
LEMMA AuditCount == ASSUME AuditInv, NEW s \in Scan, Audit!Count(s) PROVE AuditInv'
<1> USE DEF Audit!Count, Audit!vault, Audit!applies
<1>1. wronged' = FALSE
  <2>1. CASE Audit!Active = {}
    BY <2>1 DEF AuditInv
  <2>2. CASE Audit!Active # {}
    <3>1. ~(left = {} /\ \A t \in Scan : ~Audit!Alive(t))
      BY <2>2 DEF AuditInv, AuditScans, Audit!Active
    <3> QED BY <2>2, <3>1 DEF AuditInv
  <2> QED BY <2>1, <2>2
<1>2. /\ spc' \in [Scan -> {"start", "insert", "health", "engine", "store", "end"}]
      /\ spc[s] = "start" /\ spc'[s] \in {"insert", "end"}
      /\ \A t \in Scan : t # s => spc'[t] = spc[t]
  BY DEF AuditInv, Audit!TypeOK
<1>3. AuditScans'
  BY <1>2 DEF AuditInv, AuditScans, Audit!Alive
<1> HIDE DEF Audit!Count
<1>4. UNCHANGED <<asked, status, found, left, faults>>
  BY DEF Audit!Count
<1>5. UNCHANGED <<apc, target, cur, copy, server, cache, applied, spoilt>>
  BY DEF Audit!Count
<1> QED BY <1>1, <1>2, <1>3, <1>4, <1>5, AuditScanTypes DEF AuditInv, Audit!TypeOK

\* A scan begins, ends or fails, and its caller stays or leaves.
LEMMA AuditGoes ==
  ASSUME AuditInv, NEW s \in Scan,
         \/ Audit!Insert(s) \/ Audit!Health(s) \/ Audit!Engine(s) \/ Audit!Store(s)
         \/ Audit!Abandon(s)
  PROVE  AuditInv'
<1>1. UNCHANGED <<apc, target, cur, copy, server, cache, applied, spoilt, wronged>>
  BY DEF Audit!Insert, Audit!Health, Audit!Engine, Audit!Store, Audit!Abandon, Audit!vault,
         Audit!applies, Audit!runs
<1>2. /\ status' \in [Scan -> Audit!Status] /\ found' \in [Scan -> SUBSET Cred]
      /\ spc' \in [Scan -> {"start", "insert", "health", "engine", "store", "end"}]
      /\ asked' \in [Scan -> SUBSET Cred]
  BY DEF AuditInv, Audit!TypeOK, Audit!Insert, Audit!Health, Audit!Engine, Audit!Store,
         Audit!Abandon, Audit!runs, Audit!FailRun, Audit!Status, Audit!Listed
<1>3. left' \in SUBSET Scan /\ faults' \in 0..MaxFaults
  BY AuditAssumption DEF AuditInv, Audit!TypeOK, Audit!Insert, Audit!Health, Audit!Engine,
         Audit!Store, Audit!Abandon, Audit!runs, Audit!Fault
<1>4. /\ \A t \in Scan : t # s => status'[t] = status[t] /\ spc'[t] = spc[t] /\ found'[t] = found[t]
      /\ left \subseteq left' /\ spc[s] # "end"
  BY DEF AuditInv, Audit!TypeOK, Audit!Insert, Audit!Health, Audit!Engine, Audit!Store,
         Audit!Abandon, Audit!runs, Audit!FailRun
<1>5. /\ found'[s] # {} => status'[s] = "completed" /\ spc'[s] = "end"
      /\ status'[s] = "running" => spc'[s] \in {"health", "engine", "store"} \/ s \in left'
  <2>1. found[s] = {}
    BY <1>4 DEF AuditInv, AuditScans
  <2>2. CASE Audit!Insert(s) \/ Audit!Health(s) \/ Audit!Engine(s)
    BY <2>1, <2>2 DEF AuditInv, AuditScans, Audit!TypeOK, Audit!Insert, Audit!Health, Audit!Engine,
           Audit!runs, Audit!FailRun, Audit!Alive
  <2>3. CASE Audit!Store(s) \/ Audit!Abandon(s)
    BY <2>1, <2>3 DEF AuditInv, AuditScans, Audit!TypeOK, Audit!Store, Audit!Abandon,
           Audit!runs
  <2> QED BY <2>2, <2>3
<1>6. AuditScans'
  BY <1>4, <1>5 DEF AuditInv, AuditScans, Audit!Alive
<1> QED BY <1>1, <1>2, <1>3, <1>6, AuditScanTypes DEF AuditInv

\* The process stops: no scan and no apply is left.
LEMMA AuditRestart == ASSUME AuditInv, Audit!Restart PROVE AuditInv'
<1>1. /\ status' \in [Scan -> Audit!Status]
      /\ spc' \in [Scan -> {"start", "insert", "health", "engine", "store", "end"}]
  BY DEF AuditInv, Audit!TypeOK, Audit!Restart, Audit!CleanedUp, Audit!Status
<1>2. /\ apc' \in [Apply -> {"start", "mark", "sync", "notes", "write", "end"}]
      /\ target' \in [Apply -> SUBSET Cred] /\ cur' \in [Apply -> Cred \union {None}]
      /\ left' \in SUBSET Scan /\ faults' \in 0..MaxFaults
  BY AuditAssumption DEF AuditInv, Audit!TypeOK, Audit!Restart, Audit!Fault
<1>3. spoilt' \in SUBSET Cred /\ \A i \in Cred \ spoilt' : i \notin spoilt /\ \A a \in Apply : cur[a] # i
  BY AuditAssumption DEF AuditInv, Audit!TypeOK, Audit!Restart
<1>4. cache' = server /\ UNCHANGED <<asked, found, wronged, copy, server, applied>>
  BY DEF Audit!Restart
<1>5. Audit!TypeOK'
  BY <1>1, <1>2, <1>3, <1>4 DEF AuditInv, Audit!TypeOK
<1>6. AuditScans'
  BY <1>4 DEF AuditInv, AuditScans, Audit!TypeOK, Audit!Restart, Audit!CleanedUp
<1>7. AuditMarks'
  BY DEF AuditInv, AuditMarks, Audit!TypeOK, Audit!Restart
<1>8. \A i \in Cred \ spoilt' : AuditItem(i)'
  <2> SUFFICES ASSUME NEW i \in Cred \ spoilt' PROVE AuditItem(i)'
    OBVIOUS
  <2>1. i \notin spoilt /\ AuditItem(i) /\ \A a \in Apply : cur[a] # i
    BY <1>3 DEF AuditInv
  <2>2. \A a \in Apply : cur'[a] = None /\ None # i
    BY AuditAssumption DEF Audit!Restart
  <2> QED BY <1>4, <2>1, <2>2 DEF AuditItem
<1> QED BY <1>4, <1>5, <1>6, <1>7, <1>8 DEF AuditInv

\* The applies of others stay where they are.
AuditAside(a) ==
  \A b \in Apply \ {a} : apc'[b] = apc[b] /\ cur'[b] = cur[b] /\ copy'[b] = copy[b]

\* The variables of the applies.
AuditOwnTypes ==
  /\ apc \in [Apply -> {"start", "mark", "sync", "notes", "write", "end"}]
  /\ target \in [Apply -> SUBSET Cred] /\ cur \in [Apply -> Cred \union {None}]
  /\ copy \in [Apply -> Audit!Cipher]

\* The variables of the vault.
AuditVaultTypes ==
  /\ server \in [Cred -> Audit!Cipher] /\ cache \in [Cred -> Audit!Cipher]
  /\ applied \in SUBSET Cred /\ spoilt \in SUBSET Cred /\ faults \in 0..MaxFaults

\* The step of one apply.
LEMMA AuditApplies ==
  ASSUME AuditInv, NEW a \in Apply, AuditAside(a), AuditOwnTypes', AuditVaultTypes',
         cur'[a] # None <=> apc'[a] \in {"mark", "sync", "notes", "write"},
         UNCHANGED <<status, found, left, wronged, spc, asked>>,
         \A i \in Cred \ spoilt' : AuditItem(i)'
  PROVE  AuditInv'
<1>1. Audit!TypeOK'
  BY DEF AuditInv, Audit!TypeOK, AuditOwnTypes, AuditVaultTypes
<1>2. AuditScans'
  BY DEF AuditInv, AuditScans, Audit!Alive
<1>3. AuditMarks'
  BY DEF AuditInv, AuditMarks, AuditAside
<1> QED BY <1>1, <1>2, <1>3 DEF AuditInv

\* The next item of the loop.
LEMMA AuditOnward ==
  ASSUME AuditInv, NEW a \in Apply, Audit!Onward(a), UNCHANGED copy
  PROVE  /\ AuditAside(a) /\ AuditOwnTypes' /\ apc'[a] \in {"mark", "end"}
         /\ cur'[a] # None <=> apc'[a] \in {"mark", "sync", "notes", "write"}
<1>1. CASE target[a] = {}
  BY <1>1, AuditAssumption DEF AuditInv, Audit!TypeOK, Audit!Onward, AuditAside, AuditOwnTypes
<1>2. CASE target[a] # {}
  <2>1. PICK i \in target[a] : /\ cur' = [cur EXCEPT ![a] = i]
                               /\ target' = [target EXCEPT ![a] = target[a] \ {i}]
                               /\ apc' = [apc EXCEPT ![a] = "mark"]
    BY <1>2 DEF Audit!Onward
  <2>2. i \in Cred
    BY DEF AuditInv, Audit!TypeOK
  <2> QED BY <2>1, <2>2, AuditAssumption DEF AuditInv, Audit!TypeOK, AuditAside, AuditOwnTypes
<1> QED BY <1>1, <1>2

\* An apply begins with the first of its items.
LEMMA AuditBegin == ASSUME AuditInv, NEW a \in Apply, Audit!Begin(a) PROVE AuditInv'
<1>1. /\ apc[a] = "start" /\ UNCHANGED <<spc, asked, copy, faults>>
      /\ UNCHANGED <<status, found, left, wronged, server, cache, applied, spoilt>>
  BY DEF Audit!Begin, Audit!runs, Audit!vault
<1>2. \/ apc' = [apc EXCEPT ![a] = "end"] /\ UNCHANGED <<target, cur>>
      \/ \E i \in Cred, T \in SUBSET Cred :
           /\ cur' = [cur EXCEPT ![a] = i] /\ target' = [target EXCEPT ![a] = T]
           /\ apc' = [apc EXCEPT ![a] = "mark"]
  <2>1. PICK r \in Scan, ids \in (SUBSET Cred) \union {None}, confirm \in BOOLEAN, dry \in BOOLEAN :
          LET T == IF ids = None THEN Audit!Pending(r) ELSE Audit!Pending(r) \intersect ids IN
          /\ status[r] # None
          /\ IF (ids = None /\ Audit!Cardinality(T) > BulkLimit /\ ~ confirm) \/ dry \/ T = {}
               THEN apc' = [apc EXCEPT ![a] = "end"] /\ UNCHANGED <<target, cur>>
               ELSE \E i \in T : /\ cur' = [cur EXCEPT ![a] = i]
                                 /\ target' = [target EXCEPT ![a] = T \ {i}]
                                 /\ apc' = [apc EXCEPT ![a] = "mark"]
    BY Zenon DEF Audit!Begin
  <2> DEFINE T == IF ids = None THEN Audit!Pending(r) ELSE Audit!Pending(r) \intersect ids
  <2>2. T \in SUBSET Cred
    BY DEF AuditInv, Audit!TypeOK, Audit!Pending
  <2>3. \/ apc' = [apc EXCEPT ![a] = "end"] /\ UNCHANGED <<target, cur>>
        \/ \E i \in T : /\ cur' = [cur EXCEPT ![a] = i]
                         /\ target' = [target EXCEPT ![a] = T \ {i}]
                         /\ apc' = [apc EXCEPT ![a] = "mark"]
    BY <2>1, Zenon
  <2> HIDE DEF T
  <2>4. ASSUME NEW i \in T PROVE i \in Cred /\ T \ {i} \in SUBSET Cred
    BY <2>2
  <2> QED BY <2>3, <2>4
<1>3. AuditAside(a) /\ AuditOwnTypes' /\ apc'[a] \in {"mark", "end"}
  BY <1>1, <1>2 DEF AuditInv, Audit!TypeOK, AuditAside, AuditOwnTypes
<1>4. cur'[a] # None <=> apc'[a] \in {"mark", "sync", "notes", "write"}
  <2>1. cur[a] = None
    BY <1>1 DEF AuditInv, AuditMarks
  <2> QED BY <1>2, <2>1, AuditAssumption DEF AuditInv, Audit!TypeOK
<1>5. \A i \in Cred \ spoilt' : AuditItem(i)'
  BY <1>1, <1>3 DEF AuditInv, AuditItem, AuditAside
<1> QED BY <1>1, <1>3, <1>4, <1>5, AuditApplies DEF AuditVaultTypes, AuditInv, Audit!TypeOK

\* What a write that may have been cut off leaves in the vault.
LEMMA AuditHalfway ==
  ASSUME AuditInv, NEW a \in Apply, cur[a] # None, Audit!Halfway(a)
  PROVE  /\ server' \in [Cred -> Audit!Cipher] /\ cur[a] \in Cred
         /\ \A i \in Cred : i # cur[a] => server'[i] = server[i]
<1>1. cur[a] \in Cred /\ copy[a] \in Audit!Cipher /\ server \in [Cred -> Audit!Cipher]
  BY DEF AuditInv, Audit!TypeOK
<1> DEFINE c == copy[a]
<1>2. [c EXCEPT !.folder = TRUE] \in Audit!Cipher /\ [c EXCEPT !.marked = TRUE] \in Audit!Cipher
  BY <1>1 DEF Audit!Cipher
<1> QED BY <1>1, <1>2 DEF Audit!Halfway

\* A write of the apply fails, or it is cancelled.
LEMMA AuditFails ==
  ASSUME AuditInv, NEW a \in Apply, Audit!MarkFails(a) \/ Audit!Leave(a)
  PROVE  AuditInv'
<1>1. /\ apc[a] \in {"mark", "sync", "write"} /\ Audit!Halfway(a) /\ Audit!Fault
      /\ spoilt' = spoilt \union {cur[a]}
      /\ UNCHANGED <<spc, asked, copy, cache, applied, status, found, left, wronged>>
  BY DEF Audit!MarkFails, Audit!Leave, Audit!runs
<1>2. cur[a] # None
  BY <1>1 DEF AuditInv, AuditMarks
<1>3. AuditVaultTypes'
  <2>1. server' \in [Cred -> Audit!Cipher] /\ cur[a] \in Cred
    BY <1>1, <1>2, AuditHalfway
  <2>2. faults' \in 0..MaxFaults
    BY <1>1, AuditAssumption DEF AuditInv, Audit!TypeOK, Audit!Fault
  <2>3. spoilt' \in SUBSET Cred /\ cache' \in [Cred -> Audit!Cipher] /\ applied' \in SUBSET Cred
    BY <1>1, <2>1 DEF AuditInv, Audit!TypeOK
  <2> QED BY <2>1, <2>2, <2>3 DEF AuditVaultTypes
<1>4. /\ AuditAside(a) /\ AuditOwnTypes' /\ apc'[a] \in {"mark", "end"}
      /\ cur'[a] # None <=> apc'[a] \in {"mark", "sync", "notes", "write"}
  <2>1. CASE Audit!MarkFails(a)
    BY <1>1, <2>1, AuditOnward DEF Audit!MarkFails
  <2>2. CASE Audit!Leave(a)
    BY <1>1, <2>2 DEF Audit!Leave, AuditInv, Audit!TypeOK, AuditAside, AuditOwnTypes
  <2> QED BY <2>1, <2>2
<1>5. \A i \in Cred \ spoilt' : AuditItem(i)'
  <2> SUFFICES ASSUME NEW i \in Cred \ spoilt' PROVE AuditItem(i)'
    OBVIOUS
  <2>1. i \in Cred \ spoilt /\ i # cur[a] /\ server'[i] = server[i] /\ AuditItem(i)
    BY <1>1, <1>2, AuditHalfway DEF AuditInv
  <2> QED BY <1>1, <1>4, <2>1 DEF AuditItem, AuditAside
<1> QED BY <1>1, <1>3, <1>4, <1>5, AuditApplies

\* It reads the item as the cache has it.
LEMMA AuditRead == ASSUME AuditInv, NEW a \in Apply, Audit!Read(a) PROVE AuditInv'
<1> DEFINE i == cur[a]
<1>1. i \in Cred /\ i # None
  BY DEF Audit!Read, AuditInv, AuditMarks, Audit!TypeOK
<1>2. /\ AuditAside(a) /\ AuditOwnTypes' /\ apc'[a] \in {"notes", "sync"}
      /\ apc'[a] = "notes" => cache[i].folder
      /\ UNCHANGED <<spc, asked, target, cur, faults, status, found, left, wronged>>
      /\ UNCHANGED <<server, cache, applied, spoilt>>
  BY <1>1 DEF Audit!Read, AuditInv, Audit!TypeOK, AuditAside, AuditOwnTypes, Audit!runs, Audit!vault
<1>3. AuditVaultTypes'
  BY <1>2 DEF AuditInv, Audit!TypeOK, AuditVaultTypes
<1>4. \A k \in Cred \ spoilt' : AuditItem(k)'
  <2> SUFFICES ASSUME NEW k \in Cred \ spoilt' PROVE AuditItem(k)'
    OBVIOUS
  <2>1. AuditItem(k) /\ apc[a] = "mark"
    BY <1>2 DEF AuditInv, Audit!Read
  <2> QED BY <1>2, <2>1 DEF AuditItem, AuditAside
<1> QED BY <1>1, <1>2, <1>3, <1>4, AuditApplies

\* It moves the item to the folder, on the server and in the cache.
LEMMA AuditMove == ASSUME AuditInv, NEW a \in Apply, Audit!Move(a) PROVE AuditInv'
<1> DEFINE i == cur[a]
           c == copy[a]
<1>1. i \in Cred /\ i # None /\ c \in Audit!Cipher
  BY DEF Audit!Move, AuditInv, AuditMarks, Audit!TypeOK
<1>2. /\ AuditAside(a) /\ AuditOwnTypes' /\ apc'[a] = "notes"
      /\ UNCHANGED <<spc, asked, target, cur, copy, applied, status, found, left, wronged>>
  BY <1>1 DEF Audit!Move, AuditInv, Audit!TypeOK, AuditAside, AuditOwnTypes, Audit!runs
<1>3. /\ server' \in [Cred -> Audit!Cipher] /\ server'[i].folder
      /\ \A k \in Cred : k # i => server'[k] = server[k]
  <2>1. [c EXCEPT !.folder = TRUE] \in Audit!Cipher /\ [c EXCEPT !.folder = TRUE].folder
    BY <1>1 DEF Audit!Cipher
  <2>2. server' = [server EXCEPT ![i] = [c EXCEPT !.folder = TRUE]] /\ server \in [Cred -> Audit!Cipher]
    BY DEF Audit!Move, AuditInv, Audit!TypeOK
  <2> HIDE DEF i, c
  <2> QED BY <1>1, <2>1, <2>2
<1>4. \/ cache' = server' /\ UNCHANGED <<spoilt, faults>>
      \/ Audit!Fault /\ spoilt' = spoilt \union {i} /\ UNCHANGED cache
  BY DEF Audit!Move, Audit!AfterMove
<1>5. AuditVaultTypes'
  BY <1>1, <1>2, <1>3, <1>4, AuditAssumption DEF AuditInv, Audit!TypeOK, AuditVaultTypes, Audit!Fault
<1>6. \A k \in Cred \ spoilt' : AuditItem(k)'
  <2> SUFFICES ASSUME NEW k \in Cred \ spoilt' PROVE AuditItem(k)'
    OBVIOUS
  <2>1. AuditItem(k) /\ k \notin spoilt
    BY <1>4 DEF AuditInv
  <2>2. CASE k = i
    <3>1. cache' = server'
      BY <1>4, <2>2
    <3>2. \A b \in Apply : cur'[b] = k /\ apc'[b] = "write" => copy'[b].folder
      BY <1>2, <2>1 DEF AuditItem, AuditAside
    <3> QED BY <1>1, <1>2, <1>3, <2>2, <3>1, <3>2 DEF AuditItem
  <2>3. CASE k # i
    <3>1. server'[k] = server[k] /\ cache'[k] \in {server[k], cache[k]}
      BY <1>3, <1>4, <2>3
    <3>2. \A b \in Apply : cur[b] = k => b # a
      BY <2>3
    <3>3. \A b \in Apply : cur'[b] = k => /\ apc'[b] \in {"notes", "write"} => server'[k].folder
                                          /\ apc'[b] = "write" => copy'[b].folder
      BY <1>2, <2>1, <3>1, <3>2 DEF AuditItem, AuditAside
    <3>4. k \in applied' =>
            /\ server'[k].folder
            /\ server'[k].marked \/ \E b \in Apply : cur'[b] = k /\ apc'[b] \in {"notes", "write"}
      BY <1>2, <2>1, <3>1, <3>2 DEF AuditItem, AuditAside
    <3> QED BY <2>1, <3>1, <3>3, <3>4 DEF AuditItem
  <2> QED BY <2>2, <2>3
<1> QED BY <1>1, <1>2, <1>5, <1>6, AuditApplies

\* It takes a copy to add the marker to.
LEMMA AuditNotes == ASSUME AuditInv, NEW a \in Apply, Audit!Notes(a) PROVE AuditInv'
<1> DEFINE i == cur[a]
<1>1. i \in Cred /\ i # None /\ apc[a] = "notes"
  BY DEF Audit!Notes, AuditInv, AuditMarks, Audit!TypeOK
<1>2. UNCHANGED <<spc, asked, server, cache, spoilt, faults, status, found, left, wronged>>
  BY DEF Audit!Notes, Audit!runs
<1>3. CASE ~cache[i].marked
  <2>1. /\ AuditAside(a) /\ AuditOwnTypes' /\ apc'[a] = "write" /\ copy'[a] = cache[i]
        /\ UNCHANGED <<applied, target, cur>>
    BY <1>1, <1>3 DEF Audit!Notes, Audit!NeedsMarker, AuditInv, Audit!TypeOK, AuditAside, AuditOwnTypes
  <2>2. AuditVaultTypes'
    BY <1>2, <2>1 DEF AuditInv, Audit!TypeOK, AuditVaultTypes
  <2>3. \A k \in Cred \ spoilt' : AuditItem(k)'
    <3> SUFFICES ASSUME NEW k \in Cred \ spoilt' PROVE AuditItem(k)'
      OBVIOUS
    <3>1. AuditItem(k)
      BY <1>2 DEF AuditInv
    <3>2. \A b \in Apply : apc'[b] \in {"notes", "write"} <=> apc[b] \in {"notes", "write"}
      BY <1>1, <2>1 DEF AuditAside
    <3>3. \A b \in Apply : cur'[b] = k /\ apc'[b] = "write" => copy'[b].folder
      BY <1>1, <2>1, <3>1 DEF AuditItem, AuditAside
    <3> QED BY <1>2, <2>1, <3>1, <3>2, <3>3 DEF AuditItem
  <2> QED BY <1>1, <1>2, <2>1, <2>2, <2>3, AuditApplies
<1>4. CASE cache[i].marked
  <2>1. applied' = applied \union {i} /\ Audit!Onward(a) /\ UNCHANGED copy
    BY <1>4 DEF Audit!Notes, Audit!NeedsMarker
  <2>2. /\ AuditAside(a) /\ AuditOwnTypes' /\ apc'[a] \in {"mark", "end"}
        /\ cur'[a] # None <=> apc'[a] \in {"mark", "sync", "notes", "write"}
    BY <2>1, AuditOnward
  <2>3. AuditVaultTypes'
    BY <1>1, <1>2, <2>1 DEF AuditInv, Audit!TypeOK, AuditVaultTypes
  <2>4. \A k \in Cred \ spoilt' : AuditItem(k)'
    <3> SUFFICES ASSUME NEW k \in Cred \ spoilt' PROVE AuditItem(k)'
      OBVIOUS
    <3>1. AuditItem(k)
      BY <1>2 DEF AuditInv
    <3>2. \A b \in Apply : cur'[b] = k => /\ apc'[b] \in {"notes", "write"} => server[k].folder
                                          /\ apc'[b] = "write" => copy'[b].folder
      BY <2>1, <2>2, <3>1 DEF AuditItem, AuditAside
    <3>3. CASE k = i
      BY <1>1, <1>2, <1>4, <3>1, <3>2, <3>3 DEF AuditItem
    <3>4. CASE k # i
      BY <1>2, <2>1, <2>2, <3>1, <3>2, <3>4 DEF AuditItem, AuditAside
    <3> QED BY <3>3, <3>4
  <2> QED BY <1>2, <2>2, <2>3, <2>4, AuditApplies
<1> QED BY <1>3, <1>4

\* It writes the copy with the marker.
LEMMA AuditWrite == ASSUME AuditInv, NEW a \in Apply, Audit!Write(a) PROVE AuditInv'
<1> DEFINE i == cur[a]
           c == copy[a]
<1>1. i \in Cred /\ i # None /\ apc[a] = "write" /\ c \in Audit!Cipher
  BY DEF Audit!Write, AuditInv, AuditMarks, Audit!TypeOK
<1>2. /\ UNCHANGED <<spc, asked, copy, cache, spoilt, faults, status, found, left, wronged>>
      /\ applied' = applied \union {i} /\ Audit!Onward(a)
  BY DEF Audit!Write, Audit!runs
<1>3. /\ server' \in [Cred -> Audit!Cipher] /\ server'[i].marked /\ server'[i].folder = c.folder
      /\ \A k \in Cred : k # i => server'[k] = server[k]
  <2>1. /\ [c EXCEPT !.marked = TRUE] \in Audit!Cipher /\ [c EXCEPT !.marked = TRUE].marked
        /\ [c EXCEPT !.marked = TRUE].folder = c.folder
    BY <1>1 DEF Audit!Cipher
  <2>2. server' = [server EXCEPT ![i] = [c EXCEPT !.marked = TRUE]] /\ server \in [Cred -> Audit!Cipher]
    BY DEF Audit!Write, AuditInv, Audit!TypeOK
  <2> HIDE DEF i, c
  <2> QED BY <1>1, <2>1, <2>2
<1>4. /\ AuditAside(a) /\ AuditOwnTypes' /\ apc'[a] \in {"mark", "end"}
      /\ cur'[a] # None <=> apc'[a] \in {"mark", "sync", "notes", "write"}
  BY <1>2, AuditOnward
<1>5. AuditVaultTypes'
  BY <1>1, <1>2, <1>3 DEF AuditInv, Audit!TypeOK, AuditVaultTypes
<1>6. \A k \in Cred \ spoilt' : AuditItem(k)'
  <2> SUFFICES ASSUME NEW k \in Cred \ spoilt' PROVE AuditItem(k)'
    OBVIOUS
  <2>1. AuditItem(k)
    BY <1>2 DEF AuditInv
  <2>2. k = i => c.folder /\ server[k].folder
    BY <1>1, <2>1 DEF AuditItem
  <2>3. server'[k].folder = server[k].folder /\ (server[k].marked => server'[k].marked)
    <3>1. CASE k = i
      <4>1. server'[k].folder \in BOOLEAN /\ server[k].folder \in BOOLEAN /\ c.folder \in BOOLEAN
        BY <1>1, <1>3 DEF AuditInv, Audit!TypeOK, Audit!Cipher
      <4> QED BY <1>3, <2>2, <3>1, <4>1
    <3>2. CASE k # i
      BY <1>3, <3>2
    <3> QED BY <3>1, <3>2
  <2>4. \A b \in Apply : cur'[b] = k => /\ apc'[b] \in {"notes", "write"} => server'[k].folder
                                        /\ apc'[b] = "write" => copy'[b].folder
    BY <1>2, <1>4, <2>1, <2>3 DEF AuditItem, AuditAside
  <2>5. k \in applied' =>
          /\ server'[k].folder
          /\ server'[k].marked \/ \E b \in Apply : cur'[b] = k /\ apc'[b] \in {"notes", "write"}
    <3>1. CASE k = i
      BY <1>3, <2>2, <2>3, <3>1
    <3>2. CASE k # i
      BY <1>2, <1>4, <2>1, <2>3, <3>2 DEF AuditItem, AuditAside
    <3> QED BY <3>1, <3>2
  <2> QED BY <1>2, <2>1, <2>3, <2>4, <2>5 DEF AuditItem
<1> QED BY <1>2, <1>4, <1>5, <1>6, AuditApplies

\* The cache is read from the server again.
LEMMA AuditRefresh == ASSUME AuditInv, Audit!Refresh PROVE AuditInv'
<1>1. /\ cache' = server /\ UNCHANGED <<spc, asked, server, applied, spoilt, faults>>
      /\ UNCHANGED <<status, found, left, wronged, apc, target, cur, copy>>
  BY DEF Audit!Refresh, Audit!runs, Audit!applies
<1>2. Audit!TypeOK'
  BY <1>1 DEF AuditInv, Audit!TypeOK
<1>3. AuditScans' /\ AuditMarks'
  BY <1>1 DEF AuditInv, AuditScans, AuditMarks, Audit!Alive
<1>4. \A i \in Cred \ spoilt' : AuditItem(i)'
  BY <1>1 DEF AuditInv, AuditItem
<1> QED BY <1>1, <1>2, <1>3, <1>4 DEF AuditInv

\* Every step of CredentialAudit keeps the invariant.
LEMMA AuditStep == ASSUME AuditInv, [Audit!Next]_(Audit!vars) PROVE AuditInv'
<1>1. CASE UNCHANGED Audit!vars
  <2>1. UNCHANGED <<apc, target, cur, copy, server, cache, applied, spoilt, status, found, spc, asked,
                    left, wronged, faults>>
    BY <1>1 DEF Audit!vars
  <2>2. AuditScans'
    BY <2>1 DEF AuditInv, AuditScans, Audit!Alive
  <2> QED BY <2>1, <2>2, AuditScanTypes DEF AuditInv, Audit!TypeOK
<1>2. CASE \E s \in Scan : \/ Audit!Count(s) \/ Audit!Insert(s) \/ Audit!Health(s)
                          \/ Audit!Engine(s) \/ Audit!Store(s) \/ Audit!Abandon(s)
  BY <1>2, AuditCount, AuditGoes
<1>3. CASE \E a \in Apply : \/ Audit!Begin(a) \/ Audit!Read(a) \/ Audit!Move(a) \/ Audit!Notes(a)
                           \/ Audit!Write(a) \/ Audit!MarkFails(a) \/ Audit!Leave(a)
  BY <1>3, AuditBegin, AuditRead, AuditMove, AuditNotes, AuditWrite, AuditFails
<1>4. CASE Audit!Restart \/ Audit!Refresh
  BY <1>4, AuditRestart, AuditRefresh
<1> QED BY <1>1, <1>2, <1>3, <1>4, Zenon DEF Audit!Next

\* A behaviour about CredentialAudit takes its steps and no others.
LEMMA AuditPart ==
  ASSUME part = "audit", [Next]_vars
  PROVE  [Audit!Next]_(Audit!vars)
<1>1. CASE Next
  BY <1>1 DEF Next
<1>2. CASE UNCHANGED vars
  <2>1. UNCHANGED <<status, found, spc, asked, apc, target, cur, copy, server, cache, applied, spoilt, left, wronged, faults>>
    BY <1>2, Zenon DEF vars
  <2> QED BY <2>1 DEF Audit!vars
<1> QED BY <1>1, <1>2

\* It starts as CredentialAudit does.
LEMMA AuditStart == ASSUME Init, part = "audit" PROVE Audit!Init
  BY DEF Init

\* A run of the credential audit has verdicts only when it is complete, a
\* scan is refused only while another may be under way, and an item that an
\* apply reports as done is in the folder and has its marker
\* (credential_audit).
THEOREM SafetyOfAudit == Spec => []AuditSound
<1> DEFINE I == part = "audit" => AuditInv
<1>1. Init => I
  BY AuditStart, AuditInit
<1>2. I /\ [Next]_vars => I'
  <2> SUFFICES ASSUME I, [Next]_vars, part' = "audit" PROVE (AuditInv)'
    OBVIOUS
  <2> QED BY PartStays, AuditPart, AuditStep
<1>3. I => AuditSound
  BY AuditHolds DEF AuditSound, AuditInv
<1> QED BY <1>1, <1>2, <1>3, PTL DEF Spec

------------------------------------------------------------------------------
(* Launcher: launches that do not overlap make one key, and no child is     *)
(* spawned with a key that the server does not accept.                      *)

\* The types of the variables.
LaunchTypes ==
  /\ items \in Seq(Nat) /\ daemon \in Seq(Nat) \union {None}
  /\ keys \in Nat /\ accepted = 1..keys
  /\ pc \in [Launch -> {"begin", "read", "check", "unlock", "admin", "make", "store", "sync",
                        "resolve", "vet", "address", "spawn", "ended"}]
  /\ source \in [Launch -> {"socket", "vault"}] /\ copy \in [Launch -> Seq(Nat)]
  /\ key \in [Launch -> Nat] /\ child \in [Launch -> Nat \union {None}]
  /\ overlap \in BOOLEAN /\ lost \in BOOLEAN

\* A launch with a copy of the items, which it may act on.
LaunchHolds(l) == pc[l] \in {"read", "check", "admin", "make", "store"} /\ source[l] = "vault"

\* The item has an empty field for the key.
LaunchBare(s) == Len(s) = 1 /\ s[1] = 0

\* Every key that the item has is one that the server accepts.
LaunchGood(s) == \A i \in 1..Len(s) : s[i] \in accepted

\* What a launch has found out at each place.
LaunchHas(l) ==
  /\ LaunchBare(copy[l]) \/ LaunchGood(copy[l])
  /\ pc[l] \in {"admin", "make", "store", "sync"} => source[l] = "vault"
  /\ LaunchHolds(l) /\ LaunchBare(items) => LaunchBare(copy[l])
  /\ pc[l] = "store" => key[l] \in accepted
  /\ pc[l] = "sync" => LaunchGood(items)
  /\ pc[l] = "resolve" =>
       IF source[l] = "vault" THEN LaunchGood(copy[l])
       ELSE LaunchGood(items) /\ (daemon # None => LaunchGood(daemon))
  /\ pc[l] \in {"vet", "address", "spawn"} => key[l] \in accepted
  /\ child[l] # None => child[l] \in accepted

\* What the items hold, and the copy of the daemon.
LaunchWorld ==
  /\ LaunchBare(items) \/ LaunchGood(items)
  /\ daemon # None => LaunchBare(daemon) \/ (LaunchGood(daemon) /\ (LaunchBare(items) => Len(daemon) = 0))

\* There is no key in the item.
LaunchUnmade(s) == Len(s) = 0 \/ LaunchBare(s)

\* While no launch has overlapped another and no key was lost.
LaunchOrder ==
  /\ keys <= 1
  /\ keys = 0 => LaunchUnmade(items)
  /\ keys = 1 /\ (\A l \in Launch : pc[l] # "store") => Len(items) = 1 /\ items[1] = 1
  /\ \A l \in Launch :
       /\ LaunchHolds(l) => copy[l] = items
       /\ pc[l] \in {"admin", "make"} => keys = 0
       /\ pc[l] = "store" =>
            /\ keys = 1 /\ LaunchUnmade(items)
            /\ \A m \in Launch \ {l} : ~LaunchHolds(m)

\* The invariant.
LaunchInv ==
  /\ LaunchTypes
  /\ LaunchWorld
  /\ \A l \in Launch : LaunchHas(l)
  /\ overlap = FALSE /\ lost = FALSE => LaunchOrder

\* Then there is one key, and the child has it.
LEMMA LaunchOne == ASSUME LaunchInv PROVE Launches!OneKeyMade /\ Launches!ChildHasKey
<1>1. Launches!ChildHasKey
  BY DEF LaunchInv, LaunchHas, Launches!ChildHasKey
<1>2. overlap \in BOOLEAN /\ lost \in BOOLEAN
  BY DEF LaunchInv, LaunchTypes
<1>3. ASSUME ~overlap, ~lost PROVE keys <= 1 /\ Len(items) <= 1
  <2>1. LaunchOrder
    BY <1>2, <1>3 DEF LaunchInv
  <2>2. keys \in Nat /\ Len(items) \in Nat
    BY DEF LaunchInv, LaunchTypes
  <2>3. LaunchUnmade(items) => Len(items) \in {0, 1}
    BY <2>2 DEF LaunchUnmade, LaunchBare
  <2>4. keys \in {0, 1}
    BY <2>1, <2>2 DEF LaunchOrder
  <2>5. LaunchUnmade(items) \/ Len(items) = 1
    BY <2>1, <2>4 DEF LaunchOrder
  <2>6. \A n \in {0, 1} : n <= 1
    OBVIOUS
  <2> QED BY <2>3, <2>4, <2>5, <2>6
<1> QED BY <1>1, <1>3 DEF Launches!OneKeyMade

\* The invariant holds before anything has happened.
LEMMA LaunchInit == ASSUME Launches!Init PROVE LaunchInv
<1>1. items \in Seq(Nat) /\ LaunchUnmade(items) /\ (LaunchBare(items) \/ LaunchGood(items))
  <2>1. CASE items = << >>
    <3>1. << >> \in Seq(Nat) /\ Len(items) = 0
      BY <2>1
    <3> QED BY <2>1, <3>1 DEF LaunchUnmade, LaunchGood
  <2>2. CASE items = <<0>>
    BY <2>2 DEF LaunchUnmade, LaunchBare
  <2> QED BY <2>1, <2>2 DEF Launches!Init
<1>2. << >> \in Seq(Nat) /\ Len(<< >>) = 0
  OBVIOUS
<1>3. LaunchTypes
  <2>1. accepted = 1..keys /\ keys \in Nat
    BY DEF Launches!Init
  <2> QED BY <1>1, <1>2, <2>1 DEF Launches!Init, LaunchTypes
<1>4. \A l \in Launch : LaunchHas(l) /\ ~LaunchHolds(l)
  BY <1>2 DEF Launches!Init, LaunchHas, LaunchHolds, LaunchGood
<1>5. LaunchWorld
  <2>1. LaunchBare(items) => ~(Len(items) = 0)
    BY DEF LaunchBare
  <2>2. LaunchBare(items) \/ (LaunchGood(items) /\ (LaunchBare(items) => Len(items) = 0))
    BY <1>1
  <2>3. daemon # None => daemon = items
    BY DEF Launches!Init
  <2> QED BY <1>1, <2>2, <2>3 DEF LaunchWorld
<1>6. LaunchOrder
  BY <1>1, <1>4 DEF Launches!Init, LaunchOrder
<1> QED BY <1>3, <1>4, <1>5, <1>6 DEF LaunchInv

\* The other launches stay where they are.
LaunchAside(l) ==
  \A m \in Launch \ {l} : /\ pc'[m] = pc[m] /\ source'[m] = source[m] /\ copy'[m] = copy[m]
                          /\ key'[m] = key[m] /\ child'[m] = child[m]

\* The variables of the launches.
LaunchOwnTypes ==
  /\ pc \in [Launch -> {"begin", "read", "check", "unlock", "admin", "make", "store", "sync",
                        "resolve", "vet", "address", "spawn", "ended"}]
  /\ source \in [Launch -> {"socket", "vault"}] /\ copy \in [Launch -> Seq(Nat)]
  /\ key \in [Launch -> Nat] /\ child \in [Launch -> Nat \union {None}]
  /\ overlap \in BOOLEAN /\ lost \in BOOLEAN

\* What a step that changes no item and no key leaves to another launch.
LEMMA LaunchSame ==
  ASSUME NEW m \in Launch, LaunchHas(m), UNCHANGED <<items, accepted, daemon>>,
         pc'[m] = pc[m], source'[m] = source[m], copy'[m] = copy[m], key'[m] = key[m],
         child'[m] = child[m]
  PROVE  LaunchHas(m)'
<1>1. \A s : (LaunchGood(s) <=> LaunchGood(s)')
  BY DEF LaunchGood
<1> QED BY <1>1 DEF LaunchHas, LaunchHolds, LaunchBare, LaunchGood

\* The step of a launch that neither makes nor stores a key.
LEMMA LaunchMoves ==
  ASSUME LaunchInv, NEW l \in Launch, LaunchAside(l), LaunchOwnTypes', LaunchHas(l)',
         UNCHANGED <<items, keys, accepted, daemon>>, pc'[l] # "store",
         overlap' = FALSE /\ lost' = FALSE =>
           /\ overlap = FALSE /\ lost = FALSE /\ pc[l] # "store"
           /\ LaunchHolds(l)' => /\ copy'[l] = items
                                 /\ LaunchHolds(l) \/ \A m \in Launch : pc[m] # "store"
           /\ pc'[l] \in {"admin", "make"} => keys = 0
  PROVE  LaunchInv'
<1>1. LaunchTypes'
  BY DEF LaunchInv, LaunchTypes, LaunchOwnTypes
<1>2. \A m \in Launch : LaunchHas(m)'
  BY LaunchSame DEF LaunchInv, LaunchAside
<1>3. LaunchWorld'
  BY DEF LaunchInv, LaunchWorld, LaunchGood, LaunchBare
<1>4. ASSUME overlap' = FALSE, lost' = FALSE PROVE LaunchOrder'
  <2>1. /\ LaunchOrder /\ pc[l] # "store"
        /\ LaunchHolds(l)' => /\ copy'[l] = items
                              /\ LaunchHolds(l) \/ \A m \in Launch : pc[m] # "store"
        /\ pc'[l] \in {"admin", "make"} => keys = 0
    BY <1>4 DEF LaunchInv
  <2>2. \A m \in Launch \ {l} : pc'[m] = pc[m] /\ copy'[m] = copy[m] /\ (LaunchHolds(m)' <=> LaunchHolds(m))
    BY DEF LaunchAside, LaunchHolds
  <2>3. /\ keys' <= 1
        /\ keys' = 0 => LaunchUnmade(items)'
        /\ keys' = 1 /\ (\A m \in Launch : pc'[m] # "store") => Len(items') = 1 /\ items'[1] = 1
    BY <2>1, <2>2 DEF LaunchOrder, LaunchUnmade, LaunchBare
  <2>4. \A m \in Launch : /\ (LaunchHolds(m) => copy[m] = items)'
                          /\ pc'[m] \in {"admin", "make"} => keys' = 0
    BY <2>1, <2>2 DEF LaunchOrder
  <2>5. ASSUME NEW m \in Launch, pc'[m] = "store"
        PROVE  keys' = 1 /\ LaunchUnmade(items)' /\ \A n \in Launch \ {m} : ~LaunchHolds(n)'
    <3>1. m # l /\ pc[m] = "store"
      BY <2>2, <2>5
    <3>2. keys = 1 /\ LaunchUnmade(items) /\ \A n \in Launch \ {m} : ~LaunchHolds(n)
      BY <2>1, <3>1 DEF LaunchOrder
    <3>3. ~LaunchHolds(l)'
      BY <2>1, <3>1, <3>2
    <3> QED BY <2>2, <3>2, <3>3 DEF LaunchUnmade, LaunchBare
  <2> QED BY <2>3, <2>4, <2>5 DEF LaunchOrder
<1> QED BY <1>1, <1>2, <1>3, <1>4 DEF LaunchInv

\* The socket gives way to a session, or the process ends.
LEMMA LaunchGivesUp ==
  ASSUME LaunchInv, NEW l \in Launch, Launches!GiveUp(l),
         UNCHANGED <<items, keys, accepted, daemon, source, copy, key, child, overlap>>,
         lost' \in BOOLEAN, lost' = FALSE => lost = FALSE /\ pc[l] # "store"
  PROVE  LaunchInv'
<1>0. LaunchTypes /\ LaunchHas(l)
  BY DEF LaunchInv
<1>1. PICK p \in {"unlock", "ended"} : pc' = [pc EXCEPT ![l] = p]
  BY DEF Launches!GiveUp, Launches!Goto, Launches!Set
<1>2. LaunchAside(l) /\ pc'[l] = p
  BY <1>0, <1>1 DEF LaunchAside, LaunchTypes
<1>3. LaunchOwnTypes'
  BY <1>0, <1>1 DEF LaunchOwnTypes, LaunchTypes
<1>4. LaunchHas(l)' /\ ~LaunchHolds(l)'
  BY <1>0, <1>2 DEF LaunchHas, LaunchHolds, LaunchGood, LaunchBare
<1> QED BY <1>2, <1>3, <1>4, LaunchMoves

\* A launch goes on, with all that it has.
LEMMA LaunchGoes ==
  ASSUME LaunchInv, NEW l \in Launch,
         \/ pc[l] = "read" /\ pc' = [pc EXCEPT ![l] = "check"]
         \/ pc[l] = "admin" /\ pc' = [pc EXCEPT ![l] = "make"]
         \/ pc[l] = "vet" /\ pc' = [pc EXCEPT ![l] = "address"]
         \/ pc[l] = "address" /\ pc' = [pc EXCEPT ![l] = "spawn"]
         \/ pc[l] = "ended" /\ pc' = [pc EXCEPT ![l] = "begin"]
         \/ pc[l] = "begin" /\ pc' = [pc EXCEPT ![l] = "unlock"],
         UNCHANGED <<items, keys, accepted, daemon, source, copy, key, child, overlap, lost>>
  PROVE  LaunchInv'
<1>0. LaunchTypes /\ LaunchHas(l)
  BY DEF LaunchInv
<1>1. PICK p \in {"check", "make", "address", "spawn", "begin", "unlock"} :
        /\ pc' = [pc EXCEPT ![l] = p]
        /\ p = "check" => pc[l] = "read"
        /\ p = "make" => pc[l] = "admin"
        /\ p = "address" => pc[l] = "vet"
        /\ p = "spawn" => pc[l] = "address"
        /\ pc[l] \in {"read", "admin", "vet", "address", "ended", "begin"}
  OBVIOUS
<1>2. LaunchAside(l) /\ pc'[l] = p
  BY <1>0, <1>1 DEF LaunchAside, LaunchTypes
<1>3. LaunchOwnTypes'
  BY <1>0, <1>1 DEF LaunchOwnTypes, LaunchTypes
<1>4. LaunchHas(l)' /\ (LaunchHolds(l)' => LaunchHolds(l))
  BY <1>0, <1>1, <1>2 DEF LaunchHas, LaunchHolds, LaunchGood, LaunchBare
<1>5. overlap' = FALSE /\ lost' = FALSE => LaunchOrder
  BY DEF LaunchInv
<1>6. LaunchOrder => /\ LaunchHolds(l)' => copy'[l] = items
                     /\ pc'[l] \in {"admin", "make"} => keys = 0
  BY <1>1, <1>2, <1>4 DEF LaunchOrder
<1> QED BY <1>1, <1>2, <1>3, <1>4, <1>5, <1>6, LaunchMoves

\* The launch reads the items, or the admin's, checks the child, or fails.
LEMMA LaunchReads ==
  ASSUME LaunchInv, NEW l \in Launch,
         \/ Launches!Read(l) \/ Launches!ReadAdmin(l) \/ Launches!Vet(l) \/ Launches!Address(l)
         \/ Launches!Again(l) \/ Launches!Fails(l)
  PROVE  LaunchInv'
<1>1. CASE Launches!Fails(l)
  <2>1. /\ Launches!GiveUp(l) /\ lost' = (lost \/ pc[l] = "store")
        /\ UNCHANGED <<items, keys, accepted, daemon, source, copy, key, child, overlap>>
    BY <1>1 DEF Launches!Fails, Launches!world
  <2>2. lost \in BOOLEAN
    BY DEF LaunchInv, LaunchTypes
  <2>3. lost' \in BOOLEAN /\ (lost' = FALSE => lost = FALSE /\ pc[l] # "store")
    BY <2>1, <2>2, Zenon
  <2> QED BY <2>1, <2>3, LaunchGivesUp
<1>2. CASE ~Launches!Fails(l)
  <2>1. UNCHANGED <<items, keys, accepted, daemon, source, copy, key, child, overlap, lost>>
    BY <1>2 DEF Launches!Read, Launches!ReadAdmin, Launches!Vet, Launches!Address, Launches!Again,
                Launches!world
  <2>2. lost \in BOOLEAN
    BY DEF LaunchInv, LaunchTypes
  <2>3. \/ Launches!GiveUp(l) /\ pc[l] # "store"
        \/ pc[l] = "read" /\ pc' = [pc EXCEPT ![l] = "check"]
        \/ pc[l] = "admin" /\ pc' = [pc EXCEPT ![l] = "make"]
        \/ pc[l] = "vet" /\ pc' = [pc EXCEPT ![l] = "address"]
        \/ pc[l] = "address" /\ pc' = [pc EXCEPT ![l] = "spawn"]
        \/ pc[l] = "ended" /\ pc' = [pc EXCEPT ![l] = "begin"]
    BY <1>2 DEF Launches!Read, Launches!ReadAdmin, Launches!Vet, Launches!Address, Launches!Again,
                Launches!Goto, Launches!Set
  <2> QED BY <2>1, <2>2, <2>3, LaunchGivesUp, LaunchGoes
<1> QED BY <1>1, <1>2

\* A launch begins with the socket or with a session of its own.
LEMMA LaunchBegins == ASSUME LaunchInv, NEW l \in Launch, Launches!Begin(l) PROVE LaunchInv'
<1>0. LaunchTypes /\ LaunchHas(l)
  BY DEF LaunchInv
<1>1. /\ pc[l] = "begin"
      /\ UNCHANGED <<items, keys, accepted, daemon, copy, key, child, overlap, lost>>
  BY DEF Launches!Begin, Launches!world
<1>2. CASE daemon # None
  <2>1. /\ source' = [source EXCEPT ![l] = "socket"] /\ pc' = [pc EXCEPT ![l] = "read"]
    BY <1>2 DEF Launches!Begin, Launches!Goto, Launches!Set
  <2>2. LaunchAside(l) /\ pc'[l] = "read" /\ source'[l] = "socket"
    BY <1>0, <1>1, <2>1 DEF LaunchAside, LaunchTypes
  <2>3. LaunchOwnTypes'
    BY <1>0, <1>1, <2>1 DEF LaunchOwnTypes, LaunchTypes
  <2>4. LaunchHas(l)' /\ ~LaunchHolds(l)'
    BY <1>0, <1>1, <2>2 DEF LaunchHas, LaunchHolds, LaunchGood, LaunchBare
  <2> QED BY <1>1, <2>2, <2>3, <2>4, LaunchMoves
<1>3. CASE daemon = None
  <2>1. pc' = [pc EXCEPT ![l] = "unlock"] /\ UNCHANGED source
    BY <1>3 DEF Launches!Begin, Launches!Goto, Launches!Set
  <2> QED BY <1>1, <2>1, LaunchGoes
<1> QED BY <1>2, <1>3

\* It opens a session: its copy is of the items as they are.
LEMMA LaunchUnlocks == ASSUME LaunchInv, NEW l \in Launch, Launches!Unlock(l) PROVE LaunchInv'
<1>0. LaunchTypes /\ LaunchHas(l) /\ LaunchWorld /\ \A m \in Launch : LaunchHas(m)
  BY DEF LaunchInv
<1>1. /\ pc[l] = "unlock" /\ pc' = [pc EXCEPT ![l] = "read"]
      /\ overlap' = (overlap \/ Launches!Others(l, {"store"}))
      /\ source' = [source EXCEPT ![l] = "vault"] /\ copy' = [copy EXCEPT ![l] = items]
      /\ UNCHANGED <<items, keys, accepted, daemon, key, child, lost>>
  BY DEF Launches!Unlock, Launches!Goto, Launches!Set, Launches!world
<1>2. overlap \in BOOLEAN /\ lost \in BOOLEAN
  BY <1>0 DEF LaunchTypes
<1>3. overlap' \in BOOLEAN
  BY <1>1, <1>2, Zenon DEF Launches!Others
<1>4. overlap' = FALSE => overlap = FALSE /\ ~Launches!Others(l, {"store"})
  BY <1>1, <1>2, Zenon
<1>5. overlap' = FALSE => \A m \in Launch : pc[m] # "store"
  BY <1>0, <1>1, <1>4 DEF Launches!Others, LaunchHas
<1>6. LaunchAside(l) /\ pc'[l] = "read" /\ source'[l] = "vault" /\ copy'[l] = items
  BY <1>0, <1>1 DEF LaunchAside, LaunchTypes
<1>7. LaunchOwnTypes'
  BY <1>0, <1>1, <1>3 DEF LaunchOwnTypes, LaunchTypes
<1>8. LaunchHas(l)'
  BY <1>0, <1>1, <1>6 DEF LaunchHas, LaunchHolds, LaunchWorld, LaunchGood, LaunchBare
<1> QED BY <1>1, <1>4, <1>5, <1>6, <1>7, <1>8, LaunchMoves

\* What a launch has when it looks for a key.
LEMMA LaunchSees ==
  ASSUME LaunchTypes, NEW l \in Launch
  PROVE  /\ Launches!Seen(l) \in Seq(Nat)
         /\ Launches!Found(l) = {Launches!Seen(l)[i] : i \in 1..Len(Launches!Seen(l))}
         /\ source[l] = "vault" => Launches!Seen(l) = copy[l]
         /\ source[l] = "socket" /\ daemon # None => Launches!Seen(l) = daemon
         /\ source[l] = "socket" /\ daemon = None => Launches!Found(l) = {}
<1>1. << >> \in Seq(Nat) /\ Len(<< >>) = 0
  OBVIOUS
<1>2. Launches!Seen(l) \in Seq(Nat)
  BY <1>1 DEF LaunchTypes, Launches!Seen
<1>3. Launches!Found(l) = {Launches!Seen(l)[i] : i \in 1..Len(Launches!Seen(l))}
  BY <1>2 DEF Launches!Found
<1>4. source[l] = "vault" => Launches!Seen(l) = copy[l]
  BY DEF Launches!Seen
<1>5. source[l] = "socket" /\ daemon # None => Launches!Seen(l) = daemon
  BY DEF Launches!Seen
<1>6. source[l] = "socket" /\ daemon = None => Launches!Found(l) = {}
  <2>1. source[l] = "socket" /\ daemon = None => Launches!Seen(l) = << >>
    BY DEF Launches!Seen
  <2> QED BY <1>1, <1>3, <2>1
<1> QED BY <1>2, <1>3, <1>4, <1>5, <1>6

\* It looks for a key in what it has read.
LEMMA LaunchChecks == ASSUME LaunchInv, NEW l \in Launch, Launches!CheckKey(l) PROVE LaunchInv'
<1>0. LaunchTypes /\ LaunchHas(l) /\ LaunchWorld
  BY DEF LaunchInv
<1>1. /\ pc[l] = "check"
      /\ UNCHANGED <<items, keys, accepted, daemon, source, copy, key, child, overlap, lost>>
  BY DEF Launches!CheckKey, Launches!Makes, Launches!world
<1>2. CASE Launches!GiveUp(l)
  <2>1. lost \in BOOLEAN
    BY <1>0 DEF LaunchTypes
  <2> QED BY <1>1, <1>2, <2>1, LaunchGivesUp
<1>3. CASE ~Launches!GiveUp(l)
  <2>1. PICK p \in {"admin", "resolve"} :
          /\ pc' = [pc EXCEPT ![l] = p]
          /\ p = "admin" => source[l] = "vault" /\ TRUE \in Launches!NeedsKey(l)
          /\ p = "resolve" => FALSE \in Launches!NeedsKey(l)
    BY <1>3 DEF Launches!CheckKey, Launches!Makes, Launches!NeedsKey, Launches!Goto, Launches!Set
  <2>2. /\ p = "admin" => Launches!Found(l) = {} \/ 0 \in Launches!Found(l)
        /\ p = "resolve" => Launches!Found(l) \ {0} # {}
    BY <2>1 DEF Launches!NeedsKey
  <2>3. LaunchAside(l) /\ pc'[l] = p
    BY <1>0, <1>1, <2>1 DEF LaunchAside, LaunchTypes
  <2>4. LaunchOwnTypes'
    BY <1>0, <1>1, <2>1 DEF LaunchOwnTypes, LaunchTypes
  <2>5. LaunchBare(Launches!Seen(l)) => Launches!Found(l) \ {0} = {}
    BY <1>0, LaunchSees DEF LaunchBare
  <2>6. p = "resolve" =>
          IF source[l] = "vault" THEN LaunchGood(copy[l])
          ELSE LaunchGood(items) /\ (daemon # None => LaunchGood(daemon))
    <3>1. CASE p = "resolve" /\ source[l] = "vault"
      BY <1>0, <2>2, <2>5, <3>1, LaunchSees DEF LaunchHas
    <3>2. CASE p = "resolve" /\ source[l] # "vault"
      <4>1. source[l] = "socket" /\ daemon # None
        BY <1>0, <2>2, <3>2, LaunchSees DEF LaunchTypes
      <4>2. ~LaunchBare(daemon) /\ Len(daemon) # 0
        BY <1>0, <2>2, <2>5, <3>2, <4>1, LaunchSees
      <4> QED BY <1>0, <3>2, <4>1, <4>2 DEF LaunchWorld
    <3> QED BY <3>1, <3>2
  <2>7. LaunchHas(l)'
    BY <1>0, <1>1, <2>1, <2>3, <2>6 DEF LaunchHas, LaunchHolds, LaunchGood, LaunchBare
  <2>8. LaunchHolds(l)' => LaunchHolds(l)
    BY <1>1, <2>3 DEF LaunchHolds
  <2>9. ASSUME overlap' = FALSE, lost' = FALSE
        PROVE  /\ LaunchHolds(l)' => copy'[l] = items
               /\ pc'[l] \in {"admin", "make"} => keys = 0
    <3>1. LaunchOrder
      BY <1>1, <2>9 DEF LaunchInv
    <3>2. LaunchHolds(l)' => copy'[l] = items
      BY <1>1, <2>8, <3>1 DEF LaunchOrder
    <3>3. ASSUME p = "admin" PROVE keys = 0
      <4>1. LaunchHolds(l) /\ copy[l] = items /\ Launches!Seen(l) = items
        BY <1>0, <1>1, <2>1, <3>1, <3>3, LaunchSees DEF LaunchHolds, LaunchOrder
      <4>2. \A m \in Launch : pc[m] # "store"
        BY <1>1, <3>1, <4>1 DEF LaunchOrder
      <4>3. ASSUME keys = 1 PROVE FALSE
        <5>1. Len(items) = 1 /\ items[1] = 1
          BY <3>1, <4>2, <4>3 DEF LaunchOrder
        <5>2. Launches!Found(l) = {1}
          BY <1>0, <4>1, <5>1, LaunchSees
        <5> QED BY <2>2, <3>3, <5>2
      <4> QED BY <1>0, <3>1, <4>3 DEF LaunchOrder, LaunchTypes
    <3> QED BY <2>3, <3>2, <3>3
  <2> QED BY <1>1, <2>3, <2>4, <2>7, <2>8, <2>9, LaunchMoves
<1> QED BY <1>2, <1>3

\* It makes a key: nobody else has made one.
LEMMA LaunchMakes == ASSUME LaunchInv, NEW l \in Launch, Launches!Make(l) PROVE LaunchInv'
<1>0. LaunchTypes /\ LaunchHas(l) /\ LaunchWorld /\ \A m \in Launch : LaunchHas(m)
  BY DEF LaunchInv
<1>1. /\ pc[l] = "make" /\ pc' = [pc EXCEPT ![l] = "store"]
      /\ keys' = keys + 1 /\ accepted' = accepted \union {keys'} /\ key' = [key EXCEPT ![l] = keys']
      /\ overlap' = (overlap \/ Launches!Others(l, {"read", "check", "admin", "make", "store"}))
      /\ UNCHANGED <<items, daemon, source, copy, child, lost>>
  BY DEF Launches!Make, Launches!Goto, Launches!Set
<1>2. /\ keys' \in Nat /\ accepted' = 1..keys' /\ accepted \subseteq accepted' /\ keys' \in accepted'
  BY <1>0, <1>1 DEF LaunchTypes
<1>3. overlap \in BOOLEAN /\ lost \in BOOLEAN
  BY <1>0 DEF LaunchTypes
<1>4. overlap' \in BOOLEAN
  BY <1>1, <1>3, Zenon DEF Launches!Others
<1>5. overlap' = FALSE =>
        overlap = FALSE /\ ~Launches!Others(l, {"read", "check", "admin", "make", "store"})
  BY <1>1, <1>3, Zenon
<1>6. overlap' = FALSE => \A m \in Launch \ {l} : ~LaunchHolds(m)
  BY <1>5 DEF Launches!Others, LaunchHolds
<1>7. LaunchAside(l) /\ pc'[l] = "store" /\ key'[l] = keys' /\ source[l] = "vault"
  BY <1>0, <1>1, <1>2 DEF LaunchAside, LaunchTypes, LaunchHas
<1>8. LaunchTypes'
  BY <1>0, <1>1, <1>2, <1>4 DEF LaunchTypes
<1>10. /\ LaunchGood(items) => LaunchGood(items)'
       /\ LaunchGood(daemon) => LaunchGood(daemon)'
       /\ \A m \in Launch : LaunchGood(copy[m]) => LaunchGood(copy[m])'
  BY <1>1, <1>2 DEF LaunchGood
<1>11. LaunchWorld'
  BY <1>0, <1>1, <1>10 DEF LaunchWorld, LaunchBare
<1>12. \A m \in Launch : LaunchHas(m)'
  <2>1. LaunchHas(l)'
    BY <1>0, <1>1, <1>2, <1>7, <1>10 DEF LaunchHas, LaunchHolds, LaunchBare
  <2>2. ASSUME NEW m \in Launch \ {l} PROVE LaunchHas(m)'
    BY <1>0, <1>1, <1>2, <1>7, <1>10 DEF LaunchHas, LaunchHolds, LaunchBare, LaunchAside
  <2> QED BY <2>1, <2>2
<1>13. ASSUME overlap' = FALSE, lost' = FALSE PROVE LaunchOrder'
  <2>1. LaunchOrder /\ \A m \in Launch \ {l} : ~LaunchHolds(m)
    BY <1>1, <1>5, <1>6, <1>13 DEF LaunchInv
  <2>2. keys = 0 /\ LaunchUnmade(items) /\ keys' = 1
    BY <1>0, <1>1, <2>1 DEF LaunchOrder, LaunchTypes
  <2>3. copy'[l] = items
    BY <1>1, <1>7, <2>1 DEF LaunchOrder, LaunchHolds
  <2>4. \A m \in Launch \ {l} : ~LaunchHolds(m)' /\ pc'[m] \notin {"admin", "make", "store"}
    BY <1>0, <1>7, <2>1 DEF LaunchAside, LaunchHolds, LaunchHas
  <2>5. LaunchUnmade(items)'
    BY <1>1, <2>2 DEF LaunchUnmade, LaunchBare
  <2> QED BY <1>1, <1>7, <2>2, <2>3, <2>4, <2>5 DEF LaunchOrder
<1> QED BY <1>8, <1>11, <1>12, <1>13 DEF LaunchInv

\* It stores the key, over whatever the item has.
LEMMA LaunchStores == ASSUME LaunchInv, NEW l \in Launch, Launches!Store(l) PROVE LaunchInv'
<1>0. LaunchTypes /\ LaunchHas(l) /\ LaunchWorld /\ \A m \in Launch : LaunchHas(m)
  BY DEF LaunchInv
<1>1. /\ pc[l] = "store" /\ pc' = [pc EXCEPT ![l] = "sync"]
      /\ UNCHANGED <<keys, accepted, daemon, source, copy, key, child, overlap, lost>>
  BY DEF Launches!Store, Launches!Goto, Launches!Set
<1>2. key[l] \in accepted /\ key[l] \in Nat /\ LaunchHolds(l) /\ copy[l] \in Seq(Nat)
  BY <1>0, <1>1 DEF LaunchHas, LaunchTypes, LaunchHolds
<1>3. /\ items' \in Seq(Nat) /\ LaunchGood(items')
      /\ \/ Len(copy[l]) = 0 /\ items' = Append(items, key[l])
         \/ \E i \in 1..Len(copy[l]) : items' = [items EXCEPT ![i] = key[l]]
  <2>1. CASE copy[l] = << >>
    <3>1. items' = Append(items, key[l]) /\ Len(copy[l]) = 0
      BY <2>1 DEF Launches!Store
    <3>2. LaunchGood(items)
      BY <1>0, <1>2, <3>1 DEF LaunchHas, LaunchWorld, LaunchBare
    <3>3. items \in Seq(Nat)
      BY <1>0 DEF LaunchTypes
    <3>4. items' \in Seq(Nat) /\ LaunchGood(items')
      BY <1>2, <3>1, <3>2, <3>3 DEF LaunchGood
    <3> QED BY <3>1, <3>4
  <2>2. CASE copy[l] # << >>
    <3>1. PICK i \in 1..Len(copy[l]) : items' = [items EXCEPT ![i] = key[l]]
      BY <1>2, <2>2 DEF Launches!Store
    <3>2. items \in Seq(Nat)
      BY <1>0 DEF LaunchTypes
    <3>3. items' \in Seq(Nat) /\ Len(items') = Len(items)
      <4>1. CASE i \in 1..Len(items)
        BY <1>2, <3>1, <3>2, <4>1, ExceptSeq
      <4>2. CASE i \notin 1..Len(items)
        <5>1. items \in [1..Len(items) -> Nat]
          BY <3>2
        <5>2. items' = items
          BY <3>1, <4>2, <5>1
        <5> QED BY <3>2, <5>2
      <4> QED BY <4>1, <4>2
    <3>4. \A j \in 1..Len(items) : items'[j] = IF j = i THEN key[l] ELSE items[j]
      BY <3>1, <3>2
    <3>5. ASSUME LaunchBare(items) PROVE i = 1
      <4>1. LaunchBare(copy[l])
        BY <1>0, <1>2, <3>5 DEF LaunchHas
      <4>2. Len(copy[l]) = 1
        BY <4>1 DEF LaunchBare
      <4> QED BY <3>1, <4>2
    <3>6. LaunchGood(items')
      <4>1. CASE LaunchBare(items)
        BY <1>2, <3>3, <3>4, <3>5, <4>1 DEF LaunchBare, LaunchGood
      <4>2. CASE LaunchGood(items)
        BY <1>2, <3>3, <3>4, <4>2 DEF LaunchGood
      <4> QED BY <1>0, <4>1, <4>2 DEF LaunchWorld
    <3> QED BY <3>1, <3>3, <3>6
  <2> QED BY <2>1, <2>2
<1>4. ~LaunchBare(items')
  <2>1. 0 \notin accepted
    BY <1>0 DEF LaunchTypes
  <2> QED BY <1>3, <2>1 DEF LaunchBare, LaunchGood
<1>5. LaunchAside(l) /\ pc'[l] = "sync"
  BY <1>0, <1>1 DEF LaunchAside, LaunchTypes
<1>6. LaunchTypes'
  BY <1>0, <1>1, <1>3 DEF LaunchTypes
<1>7. LaunchGood(items)'
  BY <1>1, <1>3 DEF LaunchGood
<1>8. LaunchWorld'
  BY <1>0, <1>1, <1>4, <1>7 DEF LaunchWorld, LaunchBare, LaunchGood
<1>9. \A m \in Launch : LaunchHas(m)'
  <2>1. LaunchHas(l)'
    BY <1>0, <1>1, <1>4, <1>5, <1>7 DEF LaunchHas, LaunchHolds, LaunchBare, LaunchGood
  <2>2. ASSUME NEW m \in Launch \ {l} PROVE LaunchHas(m)'
    BY <1>0, <1>1, <1>4, <1>5, <1>7 DEF LaunchHas, LaunchHolds, LaunchBare, LaunchGood, LaunchAside
  <2> QED BY <2>1, <2>2
<1>10. ASSUME overlap' = FALSE, lost' = FALSE PROVE LaunchOrder'
  <2>1. LaunchOrder
    BY <1>1, <1>10 DEF LaunchInv
  <2>2. /\ keys = 1 /\ LaunchUnmade(items) /\ copy[l] = items
        /\ \A m \in Launch \ {l} : ~LaunchHolds(m)
    BY <1>1, <1>2, <2>1 DEF LaunchOrder
  <2>3. key[l] = 1
    BY <1>0, <1>2, <2>2 DEF LaunchTypes
  <2>4. Len(items') = 1 /\ items'[1] = 1
    <3>1. items \in Seq(Nat)
      BY <1>0 DEF LaunchTypes
    <3>2. CASE Len(items) = 0
      BY <1>3, <2>2, <2>3, <3>1, <3>2
    <3>3. CASE Len(items) = 1
      BY <1>3, <2>2, <2>3, <3>1, <3>3
    <3> QED BY <2>2, <3>2, <3>3 DEF LaunchUnmade, LaunchBare
  <2>5. \A m \in Launch : ~LaunchHolds(m)' /\ pc'[m] \notin {"admin", "make", "store"}
    BY <1>0, <1>5, <2>2 DEF LaunchAside, LaunchHolds, LaunchHas
  <2> QED BY <1>1, <2>2, <2>4, <2>5 DEF LaunchOrder
<1> QED BY <1>6, <1>8, <1>9, <1>10 DEF LaunchInv

\* It reads its copy again.
LEMMA LaunchSyncs == ASSUME LaunchInv, NEW l \in Launch, Launches!Sync(l) PROVE LaunchInv'
<1>0. LaunchTypes /\ LaunchHas(l)
  BY DEF LaunchInv
<1>1. /\ pc[l] = "sync" /\ pc' = [pc EXCEPT ![l] = "resolve"] /\ copy' = [copy EXCEPT ![l] = items]
      /\ UNCHANGED <<items, keys, accepted, daemon, source, key, child, overlap, lost>>
  BY DEF Launches!Sync, Launches!Goto, Launches!Set, Launches!world
<1>2. LaunchAside(l) /\ pc'[l] = "resolve" /\ copy'[l] = items
  BY <1>0, <1>1 DEF LaunchAside, LaunchTypes
<1>3. LaunchOwnTypes'
  BY <1>0, <1>1 DEF LaunchOwnTypes, LaunchTypes
<1>4. LaunchHas(l)' /\ ~LaunchHolds(l)'
  BY <1>0, <1>1, <1>2 DEF LaunchHas, LaunchHolds, LaunchGood, LaunchBare
<1> QED BY <1>1, <1>2, <1>3, <1>4, LaunchMoves

\* It takes the key for the child.
LEMMA LaunchResolves == ASSUME LaunchInv, NEW l \in Launch, Launches!Resolve(l) PROVE LaunchInv'
<1>0. LaunchTypes /\ LaunchHas(l)
  BY DEF LaunchInv
<1>1. /\ pc[l] = "resolve"
      /\ UNCHANGED <<items, keys, accepted, daemon, source, copy, child, overlap, lost>>
  BY DEF Launches!Resolve, Launches!world
<1>2. CASE Launches!GiveUp(l) /\ UNCHANGED key
  <2>1. lost \in BOOLEAN
    BY <1>0 DEF LaunchTypes
  <2> QED BY <1>1, <1>2, <2>1, LaunchGivesUp
<1>3. CASE ~(Launches!GiveUp(l) /\ UNCHANGED key)
  <2>1. PICK k \in Launches!Found(l) :
          key' = [key EXCEPT ![l] = k] /\ pc' = [pc EXCEPT ![l] = "vet"]
    BY <1>3 DEF Launches!Resolve, Launches!Goto, Launches!Set
  <2>2. k \in accepted /\ k \in Nat
    <3>1. LaunchGood(Launches!Seen(l))
      BY <1>0, <1>1, <2>1, LaunchSees DEF LaunchHas, LaunchTypes
    <3>2. PICK i \in 1..Len(Launches!Seen(l)) : k = Launches!Seen(l)[i]
      BY <1>0, <2>1, LaunchSees
    <3> QED BY <1>0, <3>1, <3>2 DEF LaunchGood, LaunchTypes
  <2>3. LaunchAside(l) /\ pc'[l] = "vet" /\ key'[l] = k
    BY <1>0, <1>1, <2>1 DEF LaunchAside, LaunchTypes
  <2>4. LaunchOwnTypes'
    BY <1>0, <1>1, <2>1, <2>2 DEF LaunchOwnTypes, LaunchTypes
  <2>5. LaunchHas(l)' /\ ~LaunchHolds(l)'
    BY <1>0, <1>1, <2>2, <2>3 DEF LaunchHas, LaunchHolds, LaunchGood, LaunchBare
  <2> QED BY <1>1, <2>3, <2>4, <2>5, LaunchMoves
<1> QED BY <1>2, <1>3

\* The child is spawned with the key.
LEMMA LaunchSpawns == ASSUME LaunchInv, NEW l \in Launch, Launches!Spawn(l) PROVE LaunchInv'
<1>0. LaunchTypes /\ LaunchHas(l)
  BY DEF LaunchInv
<1>1. /\ pc[l] = "spawn"
      /\ UNCHANGED <<items, keys, accepted, daemon, source, copy, key, overlap, lost>>
  BY DEF Launches!Spawn, Launches!world
<1>2. CASE Launches!GiveUp(l) /\ UNCHANGED child
  <2>1. lost \in BOOLEAN
    BY <1>0 DEF LaunchTypes
  <2> QED BY <1>1, <1>2, <2>1, LaunchGivesUp
<1>3. CASE ~(Launches!GiveUp(l) /\ UNCHANGED child)
  <2>1. child' = [child EXCEPT ![l] = key[l]] /\ pc' = [pc EXCEPT ![l] = "ended"]
    BY <1>3 DEF Launches!Spawn, Launches!Goto, Launches!Set
  <2>2. LaunchAside(l) /\ pc'[l] = "ended" /\ child'[l] = key[l] /\ key[l] \in accepted
    BY <1>0, <1>1, <2>1 DEF LaunchAside, LaunchTypes, LaunchHas
  <2>3. LaunchOwnTypes'
    BY <1>0, <1>1, <2>1 DEF LaunchOwnTypes, LaunchTypes
  <2>4. LaunchHas(l)' /\ ~LaunchHolds(l)'
    BY <1>0, <1>1, <2>2 DEF LaunchHas, LaunchHolds, LaunchGood, LaunchBare
  <2> QED BY <1>1, <2>2, <2>3, <2>4, LaunchMoves
<1> QED BY <1>2, <1>3

\* The daemon starts, stops and reads the items; a failure is put right.
LEMMA LaunchOutside ==
  ASSUME LaunchInv, Launches!Refresh \/ Launches!Daemon \/ Launches!Fix
  PROVE  LaunchInv'
<1>0. LaunchTypes /\ LaunchWorld /\ \A m \in Launch : LaunchHas(m)
  BY DEF LaunchInv
<1>1. UNCHANGED <<items, keys, accepted, pc, source, copy, key, child, overlap, lost>>
  BY DEF Launches!Refresh, Launches!Daemon, Launches!Fix, Launches!launchVars
<1>2. daemon' \in {daemon, items, None}
  BY DEF Launches!Refresh, Launches!Daemon, Launches!Fix
<1>3. LaunchTypes'
  BY <1>0, <1>1, <1>2 DEF LaunchTypes
<1>4. LaunchWorld'
  BY <1>0, <1>1, <1>2 DEF LaunchWorld, LaunchGood, LaunchBare
<1>5. \A m \in Launch : LaunchHas(m)'
  <2>1. ASSUME NEW m \in Launch PROVE LaunchHas(m)'
    BY <1>0, <1>1, <1>2 DEF LaunchHas, LaunchHolds, LaunchGood, LaunchBare
  <2> QED BY <2>1
<1>6. LaunchOrder => LaunchOrder'
  BY <1>1 DEF LaunchOrder, LaunchHolds, LaunchUnmade, LaunchBare
<1> QED BY <1>1, <1>3, <1>4, <1>5, <1>6 DEF LaunchInv

\* Every step of Launcher keeps the invariant.
LEMMA LaunchStep ==
  ASSUME LaunchInv, [Launches!Next]_(Launches!vars)
  PROVE  LaunchInv'
<1>1. CASE UNCHANGED Launches!vars
  <2>1. UNCHANGED <<items, keys, accepted, daemon, pc, source, copy, key, child, overlap, lost>>
    BY <1>1 DEF Launches!vars, Launches!launchVars
  <2>2. \A m \in Launch : LaunchHas(m)'
    BY <2>1, LaunchSame DEF LaunchInv
  <2> QED BY <2>1, <2>2 DEF LaunchInv, LaunchTypes, LaunchWorld, LaunchOrder, LaunchHolds,
             LaunchUnmade, LaunchBare, LaunchGood
<1>2. CASE Launches!Next
  BY <1>2, LaunchBegins, LaunchUnlocks, LaunchReads, LaunchChecks, LaunchMakes, LaunchStores,
     LaunchSyncs, LaunchResolves, LaunchSpawns, LaunchOutside DEF Launches!Next, Launches!Run
<1> QED BY <1>1, <1>2

\* A behaviour about Launcher takes its steps and no others.
LEMMA LaunchPart ==
  ASSUME part = "launch", [Next]_vars
  PROVE  [Launches!Next]_(Launches!vars)
<1>1. CASE Next
  BY <1>1 DEF Next
<1>2. CASE UNCHANGED vars
  <2>1. UNCHANGED <<flaw, items, keys, accepted, daemon, pc, source, copy, key, child, changes, faults, overlap, lost>>
    BY <1>2, Zenon DEF vars
  <2> QED BY <2>1 DEF Launches!vars, Launches!launchVars
<1> QED BY <1>1, <1>2

\* It starts as Launcher does.
LEMMA LaunchStart == ASSUME Init, part = "launch" PROVE Launches!Init
  BY DEF Init

\* Launches that do not overlap, and that lose no key on the way to the
\* vault, make one key for the service between them, and a child that is
\* spawned has a key that the service accepts (launcher.rs).
THEOREM SafetyOfLaunch == Spec => []LaunchSound
<1> DEFINE I == part = "launch" => LaunchInv
<1>1. Init => I
  BY LaunchStart, LaunchInit
<1>2. I /\ [Next]_vars => I'
  <2> SUFFICES ASSUME I, [Next]_vars, part' = "launch" PROVE (LaunchInv)'
    OBVIOUS
  <2> QED BY PartStays, LaunchPart, LaunchStep
<1>3. I => LaunchSound
  BY LaunchOne DEF LaunchSound, LaunchInv
<1> QED BY <1>1, <1>2, <1>3, PTL DEF Spec
==============================================================================
