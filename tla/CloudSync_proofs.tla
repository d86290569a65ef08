--------------------------- MODULE CloudSync_proofs ---------------------------
(***************************************************************************)
(* Proofs about CloudSync, for any account, any number of callers and any  *)
(* bounds: no duplicates in the mirror, and notifications are enough to    *)
(* keep it equal to the cloud.                                             *)
(*                                                                         *)
(* OneCopy is inductive with the types alone.  MirrorFollows needs what    *)
(* CopiesInv adds: where every call is (UnderWay), that full syncs write   *)
(* what the cloud has (MapLeads), and that whenever mirror and cloud       *)
(* differ in an item, a notification that repairs it waits or is being     *)
(* handled (Repaired).                                                     *)
(***************************************************************************)
EXTENDS CloudSync, FiniteSetTheorems, FunctionTheorems, TLAPS

\* The actions of Next, one by one; Push is a Change.
LEMMA NextCases ==
  ASSUME Next
  PROVE  \/ \E t \in Task :
              \/ Start(t) \/ Fetch(t) \/ FetchFails(t) \/ LockCloud(t) \/ LockMap(t)
              \/ Save(t) \/ SaveFails(t) \/ Cancel(t)
         \/ \E t \in Task, x \in Thing : Update(t, x) \/ Create(t, x) \/ WriteFails(t, x)
         \/ Receive \/ Get \/ GetFails \/ Mirrored \/ Delete \/ DeleteFails \/ Reconnect
         \/ \E x \in Item : Change(x) \/ Remove(x)
         \/ \E things \in SUBSET Item : ChangeMany(things)
         \/ Close \/ Crash
         \/ \E c \in Copy : DeleteCopy(c)
  BY Zenon DEF Next, Run, Handle, Push

\* What the assumptions say of tasks and things, in the form the steps use.
LEMMA Constants ==
  /\ Ws \in Task /\ Caller \subseteq Task /\ Ws \notin Caller /\ Nobody \notin Task
  /\ Item \subseteq Thing /\ Collection \subseteq Thing
  /\ None \notin Thing /\ None \notin Nat
  /\ \A x, n : x \in Thing /\ n \in Nat => [of |-> x, content |-> n] # None
<1>1. \A x, n : x \in Thing /\ n \in Nat =>
        [of |-> x, content |-> n] \in [of : Thing, content : Nat]
  OBVIOUS
<1>. QED
  BY <1>1, TasksAssumption, ThingsAssumption DEF Task, Thing

\* What every step below may look at: the helpers that the actions share.
USE Constants, BoundsAssumption
    DEF Copy, Maybe, Set, Goto, Fault, Freed, Done, Nothing,
        lockVars, mapVars, copyVars, wireVars, countVars, noteVars

\* A call that ends lets go of locks and permit and forgets what it fetched.
LEMMA EndTypes ==
  ASSUME TypeOK, NEW t \in Task, End(t)
  PROVE  /\ {cloudHolder', mapHolder', permit'} \subseteq Task \union {Nobody}
         /\ pc' \in [Task -> Place]
         /\ reply' \in [Task -> [Thing -> Maybe(0..edits)]]
         /\ todo' \in [Task -> SUBSET Thing] /\ note' \in Maybe(Item)
  BY DEF TypeOK, Place, End

\* What is written to Vaultwarden is a copy.
LEMMA CopyTypes ==
  ASSUME TypeOK, NEW t \in Task, NEW x \in todo[t], reply[t][x] # None,
         NEW c \in Copy
  PROVE  Set(copies, c, Copied(t, x)) \in [Copy -> Maybe([of : Thing, content : 0..edits])]
<1>1. Copied(t, x) \in [of : Thing, content : 0..edits]
  BY DEF TypeOK, Copied
<1>. QED
  BY <1>1 DEF TypeOK

\* So it is when the answer is lost.
LEMMA LostTypes ==
  ASSUME TypeOK, UnderWay, NEW t \in Task, NEW x, Due(t, x), Lost(t, x)
  PROVE  /\ made' \in 0..MaxCopies /\ made <= made'
         /\ copies' \in [Copy -> Maybe([of : Thing, content : 0..edits])]
         /\ orphaned' \in BOOLEAN
<1>1. x \in todo[t] /\ x \in Thing /\ reply[t][x] # None
  BY DEF Due, TypeOK, UnderWay
<1>2. CASE UNCHANGED <<copyVars, orphaned>>
  BY <1>2 DEF TypeOK
<1>3. CASE /\ map[x] # None /\ copies' = Set(copies, map[x], Copied(t, x))
           /\ UNCHANGED <<made, orphaned>>
  <2>1. map[x] \in Copy
    BY <1>1, <1>3 DEF TypeOK
  <2>2. copies' \in [Copy -> Maybe([of : Thing, content : 0..edits])]
    BY <1>1, <1>3, <2>1, CopyTypes
  <2>. QED
    BY <1>3, <2>2 DEF TypeOK
<1>4. CASE /\ made < MaxCopies /\ made' = made + 1 /\ orphaned' = TRUE
           /\ copies' = Set(copies, made + 1, Copied(t, x))
  <2>1. made + 1 \in Copy
    BY <1>4 DEF TypeOK
  <2>2. copies' \in [Copy -> Maybe([of : Thing, content : 0..edits])]
    BY <1>1, <1>4, <2>1, CopyTypes
  <2>. QED
    BY <1>4, <2>2 DEF TypeOK
<1>. QED
  BY <1>2, <1>3, <1>4 DEF Lost

\* One change more leaves every content within the count of changes.
LEMMA EditTypes ==
  ASSUME TypeOK, edits < MaxEdits, edits' = edits + 1
  PROVE  /\ edits' \in 0..MaxEdits /\ edits' \in 0..edits'
         /\ cloud \in [Thing -> Maybe(0..edits')]
         /\ copies \in [Copy -> Maybe([of : Thing, content : 0..edits'])]
         /\ reply \in [Task -> [Thing -> Maybe(0..edits')]]
<1>1. /\ edits' \in 0..MaxEdits /\ edits' \in 0..edits'
      /\ 0..edits \subseteq 0..edits'
  BY DEF TypeOK
<1>2. [of : Thing, content : 0..edits] \subseteq [of : Thing, content : 0..edits']
  BY <1>1
<1>3. copies \in [Copy -> Maybe([of : Thing, content : 0..edits'])]
  <2>1. \A c \in Copy : copies[c] \in Maybe([of : Thing, content : 0..edits'])
    BY <1>2 DEF TypeOK
  <2>. QED
    BY <2>1 DEF TypeOK
<1>4. /\ cloud \in [Thing -> Maybe(0..edits')]
      /\ reply \in [Task -> [Thing -> Maybe(0..edits')]]
  BY <1>1 DEF TypeOK
<1>. QED
  BY <1>1, <1>3, <1>4

\* The wire holds notifications, and no more than MaxWire of them.
LEMMA NotifyTypes ==
  ASSUME TypeOK, NEW n \in Note, Notify(n)
  PROVE  wire' \in Seq(Note) /\ Len(wire') <= MaxWire /\ missed' \in BOOLEAN
<1>3. missed' \in BOOLEAN
  BY DEF TypeOK, Notify
<1>1. CASE Heard
  <2>1. wire' = Append(wire, n) /\ Len(wire) < MaxWire
    BY <1>1 DEF Notify
  <2>2. wire' \in Seq(Note) /\ Len(wire') = Len(wire) + 1
    BY <2>1 DEF TypeOK
  <2>3. Len(wire) \in Nat
    BY DEF TypeOK
  <2>. QED
    BY <2>1, <2>2, <2>3, <1>3
<1>2. CASE ~Heard
  BY <1>2, <1>3 DEF TypeOK, Notify
<1>. QED
  BY <1>1, <1>2

\* Every step keeps the types.
LEMMA TypeStep == TypeOK /\ UnderWay /\ [Next]_vars => TypeOK'
<1> SUFFICES ASSUME TypeOK, UnderWay, [Next]_vars PROVE TypeOK'
  OBVIOUS
<1>. USE DEF TypeOK, UnderWay
<1>1. ASSUME NEW t \in Task, Start(t) PROVE TypeOK'
  BY <1>1 DEF Start, Place
<1>2. ASSUME NEW t \in Task, Fetch(t) PROVE TypeOK'
  BY <1>2 DEF Fetch, There, Place
<1>3. ASSUME NEW t \in Task, FetchFails(t) PROVE TypeOK'
  BY <1>3, EndTypes DEF FetchFails
<1>4. ASSUME NEW t \in Task, LockCloud(t) PROVE TypeOK'
  BY <1>4 DEF LockCloud, Place
<1>5. ASSUME NEW t \in Task, LockMap(t) PROVE TypeOK'
  BY <1>5 DEF LockMap, Place
<1>6. ASSUME NEW t \in Task, NEW x \in Thing, Update(t, x) PROVE TypeOK'
  BY <1>6 DEF Update, Due, Copied
<1>7. ASSUME NEW t \in Task, NEW x \in Thing, Create(t, x) PROVE TypeOK'
  BY <1>7 DEF Create, Due, Copied
<1>8. ASSUME NEW t \in Task, NEW x \in Thing, WriteFails(t, x) PROVE TypeOK'
  BY <1>8, LostTypes DEF WriteFails
<1>9. ASSUME NEW t \in Task, Save(t) PROVE TypeOK'
  BY <1>9, EndTypes DEF Save, SaveFile, RotateBackup
<1>10. ASSUME NEW t \in Task, SaveFails(t) PROVE TypeOK'
  BY <1>10, EndTypes DEF SaveFails, RotateBackup
<1>11. ASSUME NEW t \in Task, Cancel(t) PROVE TypeOK'
  <2>1. /\ made' \in 0..MaxCopies /\ made <= made' /\ orphaned' \in BOOLEAN
        /\ copies' \in [Copy -> Maybe([of : Thing, content : 0..edits])]
    BY <1>11, LostTypes DEF Cancel
  <2>. QED
    BY <1>11, <2>1, EndTypes DEF Cancel
<1>12. ASSUME Receive PROVE TypeOK'
  <2>1. /\ Head(wire) \in Note /\ Tail(wire) \in Seq(Note)
        /\ Len(Tail(wire)) <= MaxWire
        /\ <<>> \in Seq(Note) /\ Len(<<>>) <= MaxWire
    BY <1>12 DEF Receive
  <2>2. Head(wire).kind # "sync" => Head(wire).item \in Item
    BY <2>1 DEF Note
  <2>3. missed' \in BOOLEAN
    BY <1>12 DEF Receive
  <2>. QED
    <3>1. CASE Head(wire).kind = "sync"
      BY SMTT(30), <1>12, <2>1, <2>3, <3>1 DEF Receive, Place
    <3>2. CASE Head(wire).kind # "sync"
      <4>1. /\ wire' = Tail(wire) /\ note' = Head(wire).item /\ permit' = permit
            /\ pc' = [pc EXCEPT ![Ws] = IF Head(wire).kind = "change" THEN "get" ELSE "delete"]
        BY <1>12, <3>2 DEF Receive
      <4>. QED
        BY <1>12, <2>1, <2>2, <2>3, <3>2, <4>1 DEF Receive, Place
    <3>. QED
      BY <3>1, <3>2
<1>13. ASSUME Get PROVE TypeOK'
  <2>1. note \in Item /\ note \in Thing
    BY <1>13 DEF Get
  <2>2. CASE cloud[note] = None
    BY <1>13, <2>2, EndTypes DEF Get
  <2>3. CASE cloud[note] # None
    <3>1. reply' \in [Task -> [Thing -> Maybe(0..edits)]]
      <4>1. reply' = [reply EXCEPT ![Ws] = [Nothing EXCEPT ![note] = cloud[note]]]
        BY <1>13, <2>3 DEF Get
      <4>2. cloud[note] \in Maybe(0..edits) /\ reply \in [Task -> [Thing -> Maybe(0..edits)]]
        BY <2>1
      <4>3. [Nothing EXCEPT ![note] = cloud[note]] \in [Thing -> Maybe(0..edits)]
        BY <4>2 DEF Nothing
      <4>. QED
        BY <4>1, <4>2, <4>3
    <3>2. /\ pc' \in [Task -> Place] /\ todo' \in [Task -> SUBSET Thing]
          /\ {cloudHolder', mapHolder', permit'} \subseteq Task \union {Nobody}
          /\ note' \in Maybe(Item)
      <4>1. /\ cloudHolder' = Ws /\ mapHolder' = mapHolder /\ permit' = permit
            /\ pc' = [pc EXCEPT ![Ws] = "map"] /\ todo' = [todo EXCEPT ![Ws] = {note}]
            /\ note' = note
        BY <1>13, <2>3 DEF Get
      <4>. QED
        BY <2>1, <4>1 DEF Place
    <3>. QED
      BY <1>13, <3>1, <3>2 DEF Get
  <2>. QED
    BY <2>2, <2>3
<1>14. ASSUME GetFails PROVE TypeOK'
  BY <1>14, EndTypes DEF GetFails
<1>15. ASSUME Mirrored PROVE TypeOK'
  BY <1>15, EndTypes DEF Mirrored
<1>16. ASSUME Delete PROVE TypeOK'
  <2>1. note \in Item /\ note \in Thing
    BY <1>16 DEF Delete
  <2>2. copies' \in [Copy -> Maybe([of : Thing, content : 0..edits])]
    BY <1>16, <2>1 DEF Delete
  <2>. QED
    BY <1>16, <2>1, <2>2, EndTypes DEF Delete
<1>17. ASSUME DeleteFails PROVE TypeOK'
  <2>1. note \in Item /\ note \in Thing
    BY <1>17 DEF DeleteFails
  <2>. QED
    BY <1>17, <2>1, EndTypes DEF DeleteFails
<1>18. ASSUME Reconnect PROVE TypeOK'
  BY <1>18 DEF Reconnect, Place
<1>19. ASSUME NEW x \in Item, Change(x) PROVE TypeOK'
  <2>1. [kind |-> "change", item |-> x] \in Note
    BY DEF Note
  <2>. QED
    BY <1>19, <2>1, EditTypes, NotifyTypes DEF Change
<1>20. ASSUME NEW x \in Item, Remove(x) PROVE TypeOK'
  <2>1. [kind |-> "delete", item |-> x] \in Note
    BY DEF Note
  <2>. QED
    BY <1>20, <2>1, EditTypes, NotifyTypes DEF Remove
<1>21. ASSUME NEW things \in SUBSET Item, ChangeMany(things) PROVE TypeOK'
  <2>1. [kind |-> "sync"] \in Note
    BY DEF Note
  <2>. QED
    BY <1>21, <2>1, EditTypes, NotifyTypes DEF ChangeMany
<1>22. ASSUME Close PROVE TypeOK'
  BY <1>22 DEF Close
<1>23. ASSUME Crash PROVE TypeOK'
  <2>1. map' \in [Thing -> Maybe(1..made)]
    BY <1>23 DEF Crash, Loaded
  <2>4. /\ {cloudHolder', mapHolder', permit'} \subseteq Task \union {Nobody}
        /\ pc' \in [Task -> Place] /\ reply' \in [Task -> [Thing -> Maybe(0..edits)]]
        /\ todo' \in [Task -> SUBSET Thing] /\ note' \in Maybe(Item)
    BY <1>23 DEF Crash, Place
  <2>2. wire' \in Seq(Note) /\ Len(wire') <= MaxWire
    BY <1>23 DEF Crash
  <2>3. orphaned' \in BOOLEAN
    BY Zenon, <1>23 DEF Crash
  <2>. QED
    <3>0. faults < MaxFaults /\ faults' = faults + 1 /\ missed' = TRUE /\ link' = FALSE
      BY Zenon, <1>23 DEF Crash
    <3>1. faults' \in 0..MaxFaults
      BY <3>0
    <3>3. link' \in BOOLEAN /\ missed' \in BOOLEAN
      BY Zenon, <3>0
    <3>2. UNCHANGED <<cloud, copies, made, disk, backup, edits>>
      BY <1>23 DEF Crash
    <3>. QED
      BY <2>1, <2>2, <2>3, <2>4, <3>1, <3>2, <3>3
<1>24. ASSUME NEW c \in Copy, DeleteCopy(c) PROVE TypeOK'
  BY <1>24 DEF DeleteCopy
<1>25. CASE UNCHANGED vars
  BY <1>25 DEF vars
<1>. QED
  BY <1>1, <1>2, <1>3, <1>4, <1>5, <1>6, <1>7, <1>8, <1>9, <1>10, <1>11, <1>12,
     <1>13, <1>14, <1>15, <1>16, <1>17, <1>18, <1>19, <1>20, <1>21, <1>22,
     <1>23, <1>24, <1>25, NextCases

\* A call that ends gives its permit back with everything it had left to write.
LEMMA EndUnderWay ==
  ASSUME TypeOK, UnderWay, NEW t \in Task, End(t)
  PROVE  UnderWay'
  BY DEF TypeOK, UnderWay, End, Place

\* Every step keeps the calls in order.
LEMMA UnderWayStep == TypeOK /\ UnderWay /\ [Next]_vars => UnderWay'
<1> SUFFICES ASSUME TypeOK, UnderWay, [Next]_vars PROVE UnderWay'
  OBVIOUS
<1>. USE DEF UnderWay
<1>1. ASSUME NEW t \in Task, Start(t) PROVE UnderWay'
  BY <1>1 DEF Start, TypeOK, Place
<1>2. ASSUME NEW t \in Task, Fetch(t) PROVE UnderWay'
  BY <1>2 DEF Fetch, TypeOK, Place, There
<1>3. ASSUME NEW t \in Task, FetchFails(t) PROVE UnderWay'
  BY <1>3, EndUnderWay DEF FetchFails
<1>4. ASSUME NEW t \in Task, LockCloud(t) PROVE UnderWay'
  BY <1>4 DEF LockCloud, TypeOK, Place
<1>5. ASSUME NEW t \in Task, LockMap(t) PROVE UnderWay'
  BY <1>5 DEF LockMap, TypeOK, Place
<1>6. ASSUME NEW t \in Task, NEW x \in Thing, Update(t, x) PROVE UnderWay'
  BY <1>6 DEF Update, TypeOK, Place, Due
<1>7. ASSUME NEW t \in Task, NEW x \in Thing, Create(t, x) PROVE UnderWay'
  BY <1>7 DEF Create, TypeOK, Place, Due
<1>8. ASSUME NEW t \in Task, NEW x \in Thing, WriteFails(t, x) PROVE UnderWay'
  BY <1>8 DEF WriteFails, TypeOK, Place, Due
<1>9. ASSUME NEW t \in Task, Save(t) PROVE UnderWay'
  BY <1>9, EndUnderWay DEF Save
<1>10. ASSUME NEW t \in Task, SaveFails(t) PROVE UnderWay'
  BY <1>10, EndUnderWay DEF SaveFails
<1>11. ASSUME NEW t \in Task, Cancel(t) PROVE UnderWay'
  BY <1>11, EndUnderWay DEF Cancel
<1>12. ASSUME Receive PROVE UnderWay'
  BY <1>12 DEF Receive, TypeOK, Place, Note
<1>13. ASSUME Get PROVE UnderWay'
  <2>1. note \in Item /\ permit # Ws
    BY <1>13 DEF Get
  <2>2. CASE cloud[note] = None
    BY <1>13, <2>2, EndUnderWay DEF Get
  <2>3. CASE cloud[note] # None
    <3>1. note \in Thing /\ todo' = [todo EXCEPT ![Ws] = {note}] /\ note' = note /\ permit' = permit
      BY <1>13, <2>1, <2>3 DEF Get
    <3>2. reply'[Ws][note] # None /\ \A t \in Task \ {Ws} : reply'[t] = reply[t]
      BY <1>13, <2>1, <2>3, <3>1 DEF Get, TypeOK
    <3>3. pc' = [pc EXCEPT ![Ws] = "map"]
      BY <1>13, <2>3 DEF Get
    <3>. QED
      BY <1>13, <2>1, <3>1, <3>2, <3>3 DEF Get, TypeOK, Place
  <2>. QED
    BY <2>2, <2>3
<1>14. ASSUME GetFails PROVE UnderWay'
  BY <1>14, EndUnderWay DEF GetFails
<1>15. ASSUME Mirrored PROVE UnderWay'
  BY <1>15, EndUnderWay DEF Mirrored
<1>16. ASSUME Delete PROVE UnderWay'
  BY <1>16, EndUnderWay DEF Delete
<1>17. ASSUME DeleteFails PROVE UnderWay'
  BY <1>17, EndUnderWay DEF DeleteFails
<1>18. ASSUME Reconnect PROVE UnderWay'
  BY <1>18 DEF Reconnect, TypeOK, Place
<1>19. ASSUME NEW x \in Item, Change(x) PROVE UnderWay'
  BY <1>19 DEF Change, TypeOK, Place
<1>20. ASSUME NEW x \in Item, Remove(x) PROVE UnderWay'
  BY <1>20 DEF Remove, TypeOK, Place
<1>21. ASSUME NEW things \in SUBSET Item, ChangeMany(things) PROVE UnderWay'
  BY <1>21 DEF ChangeMany, TypeOK, Place
<1>22. ASSUME Close PROVE UnderWay'
  BY <1>22 DEF Close, TypeOK, Place
<1>23. ASSUME Crash PROVE UnderWay'
  BY <1>23 DEF Crash, TypeOK, Place
<1>24. ASSUME NEW c \in Copy, DeleteCopy(c) PROVE UnderWay'
  BY <1>24 DEF DeleteCopy, TypeOK, Place
<1>25. CASE UNCHANGED vars
  BY <1>25 DEF vars
<1>. QED
  BY <1>1, <1>2, <1>3, <1>4, <1>5, <1>6, <1>7, <1>8, <1>9, <1>10, <1>11, <1>12,
     <1>13, <1>14, <1>15, <1>16, <1>17, <1>18, <1>19, <1>20, <1>21, <1>22,
     <1>23, <1>24, <1>25, NextCases

\* A lost answer makes no second copy that the map should have led to.
LEMMA LostOneCopy ==
  ASSUME TypeOK, OneCopy, UnderWay, NEW t \in Task, NEW x, Due(t, x), Lost(t, x), UNCHANGED map
  PROVE  OneCopy'
  BY DEF TypeOK, UnderWay, OneCopy, CopiesOf, Due, Lost, Copied

\* No step makes a second copy: a copy is created only where the map leads to
\* none, and then the map leads to it; the map forgets an item only with its
\* copy.
LEMMA OneCopyStep == TypeOK /\ UnderWay /\ OneCopy /\ [Next]_vars => OneCopy'
<1> SUFFICES ASSUME TypeOK, UnderWay, OneCopy, [Next]_vars PROVE OneCopy'
  OBVIOUS
<1>. USE DEF OneCopy, CopiesOf
<1>1. ASSUME NEW t \in Task, Start(t) PROVE OneCopy'
  BY <1>1 DEF Start
<1>2. ASSUME NEW t \in Task, Fetch(t) PROVE OneCopy'
  BY <1>2 DEF Fetch
<1>3. ASSUME NEW t \in Task, FetchFails(t) PROVE OneCopy'
  BY <1>3 DEF FetchFails
<1>4. ASSUME NEW t \in Task, LockCloud(t) PROVE OneCopy'
  BY <1>4 DEF LockCloud
<1>5. ASSUME NEW t \in Task, LockMap(t) PROVE OneCopy'
  BY <1>5 DEF LockMap
<1>6. ASSUME NEW t \in Task, NEW x \in Thing, Update(t, x) PROVE OneCopy'
  BY <1>6 DEF Update, Due, Copied, TypeOK
<1>7. ASSUME NEW t \in Task, NEW x \in Thing, Create(t, x) PROVE OneCopy'
  BY <1>7 DEF Create, Due, Copied, TypeOK
<1>8. ASSUME NEW t \in Task, NEW x \in Thing, WriteFails(t, x) PROVE OneCopy'
  BY <1>8, LostOneCopy DEF WriteFails
<1>9. ASSUME NEW t \in Task, Save(t) PROVE OneCopy'
  BY <1>9 DEF Save
<1>10. ASSUME NEW t \in Task, SaveFails(t) PROVE OneCopy'
  BY <1>10 DEF SaveFails
<1>11. ASSUME NEW t \in Task, Cancel(t) PROVE OneCopy'
  BY <1>11, LostOneCopy DEF Cancel
<1>12. ASSUME Receive PROVE OneCopy'
  BY <1>12 DEF Receive
<1>13. ASSUME Get PROVE OneCopy'
  BY <1>13 DEF Get
<1>14. ASSUME GetFails PROVE OneCopy'
  BY <1>14 DEF GetFails
<1>15. ASSUME Mirrored PROVE OneCopy'
  BY <1>15 DEF Mirrored
<1>16. ASSUME Delete PROVE OneCopy'
  BY <1>16 DEF Delete, TypeOK, UnderWay
<1>17. ASSUME DeleteFails PROVE OneCopy'
  BY <1>17 DEF DeleteFails
<1>18. ASSUME Reconnect PROVE OneCopy'
  BY <1>18 DEF Reconnect
<1>19. ASSUME NEW x \in Item, Change(x) PROVE OneCopy'
  BY <1>19 DEF Change
<1>20. ASSUME NEW x \in Item, Remove(x) PROVE OneCopy'
  BY <1>20 DEF Remove
<1>21. ASSUME NEW things \in SUBSET Item, ChangeMany(things) PROVE OneCopy'
  BY <1>21 DEF ChangeMany
<1>22. ASSUME Close PROVE OneCopy'
  BY <1>22 DEF Close
<1>23. ASSUME Crash PROVE OneCopy'
  BY <1>23 DEF Crash
<1>24. ASSUME NEW c \in Copy, DeleteCopy(c) PROVE OneCopy'
  BY <1>24 DEF DeleteCopy, TypeOK
<1>25. CASE UNCHANGED vars
  BY <1>25 DEF vars
<1>. QED
  BY <1>1, <1>2, <1>3, <1>4, <1>5, <1>6, <1>7, <1>8, <1>9, <1>10, <1>11, <1>12,
     <1>13, <1>14, <1>15, <1>16, <1>17, <1>18, <1>19, <1>20, <1>21, <1>22,
     <1>23, <1>24, <1>25, NextCases

\* Until something is missed, a copy goes only together with its entry in the
\* map, and nothing changes in the cloud between the request of a full sync and
\* its last copy.
LEMMA MapLeadsStep ==
  TypeOK /\ UnderWay /\ OneCopy /\ MapLeads /\ [Next]_vars => MapLeads'
<1> SUFFICES ASSUME TypeOK, UnderWay, OneCopy, MapLeads, [Next]_vars PROVE MapLeads'
  OBVIOUS
<1>. USE DEF MapLeads
<1>1. ASSUME NEW t \in Task, Start(t) PROVE MapLeads'
  BY <1>1 DEF Start, TypeOK, UnderWay
<1>2. ASSUME NEW t \in Task, Fetch(t) PROVE MapLeads'
  BY <1>2 DEF Fetch, There, TypeOK, UnderWay
<1>3. ASSUME NEW t \in Task, FetchFails(t) PROVE MapLeads'
  BY <1>3 DEF FetchFails, End, TypeOK, UnderWay
<1>4. ASSUME NEW t \in Task, LockCloud(t) PROVE MapLeads'
  BY <1>4 DEF LockCloud
<1>5. ASSUME NEW t \in Task, LockMap(t) PROVE MapLeads'
  BY <1>5 DEF LockMap
<1>6. ASSUME NEW t \in Task, NEW x \in Thing, Update(t, x) PROVE MapLeads'
  BY <1>6 DEF Update, Due, Copied, TypeOK, UnderWay
<1>7. ASSUME NEW t \in Task, NEW x \in Thing, Create(t, x) PROVE MapLeads'
  BY <1>7 DEF Create, Due, Copied, TypeOK, UnderWay
<1>8. ASSUME NEW t \in Task, NEW x \in Thing, WriteFails(t, x) PROVE MapLeads'
  BY <1>8 DEF WriteFails
<1>9. ASSUME NEW t \in Task, Save(t) PROVE MapLeads'
  BY <1>9 DEF Save, End, TypeOK, UnderWay
<1>10. ASSUME NEW t \in Task, SaveFails(t) PROVE MapLeads'
  BY <1>10 DEF SaveFails, End, TypeOK, UnderWay
<1>11. ASSUME NEW t \in Task, Cancel(t) PROVE MapLeads'
  BY <1>11 DEF Cancel
<1>12. ASSUME Receive PROVE MapLeads'
  <2>1. UNCHANGED <<copies, map, cloud, reply, todo, orphaned>>
    BY <1>12 DEF Receive
  <2>2. permit' = permit \/ (permit' = Ws /\ todo[Ws] = {})
    BY <1>12 DEF Receive, UnderWay
  <2>3. missed => missed'
    BY <1>12 DEF Receive
  <2>. QED
    BY <2>1, <2>2, <2>3
<1>13. ASSUME Get PROVE MapLeads'
  <2>1. UNCHANGED <<copies, map, cloud, orphaned, missed>> /\ permit # Ws
    BY <1>13 DEF Get, UnderWay
  <2>2. permit' = permit
    BY <1>13, <2>1 DEF Get, End
  <2>3. \A t \in Task : t # Ws => reply'[t] = reply[t] /\ todo'[t] = todo[t]
    BY <1>13 DEF Get, End, TypeOK
  <2>. QED
    BY <2>1, <2>2, <2>3
<1>14. ASSUME GetFails PROVE MapLeads'
  BY <1>14 DEF GetFails
<1>15. ASSUME Mirrored PROVE MapLeads'
  BY <1>15 DEF Mirrored, End, TypeOK, UnderWay
<1>16. ASSUME Delete PROVE MapLeads'
  <2>1. /\ UNCHANGED <<cloud, orphaned, missed>>
        /\ permit # Ws /\ note \in Item /\ note \in Thing
    BY <1>16 DEF Delete, UnderWay
  <2>2. permit' = permit
    BY <1>16, <2>1 DEF Delete, End
  <2>3. \A t \in Task : t # Ws => reply'[t] = reply[t] /\ todo'[t] = todo[t]
    BY <1>16 DEF Delete, End, TypeOK
  <2>4. ASSUME ~missed, NEW x \in Thing, map'[x] # None
        PROVE  copies'[map'[x]] # None /\ copies'[map'[x]].of = x
    <3>1. x # note /\ map'[x] = map[x]
      BY <1>16, <2>1, <2>4 DEF Delete, TypeOK
    <3>2. map[x] # map[note]
      BY <2>1, <2>4, <3>1
    <3>. QED
      BY <1>16, <2>4, <3>1, <3>2 DEF Delete, TypeOK
  <2>. QED
    BY <2>1, <2>2, <2>3, <2>4
<1>17. ASSUME DeleteFails PROVE MapLeads'
  BY <1>17 DEF DeleteFails
<1>18. ASSUME Reconnect PROVE MapLeads'
  BY <1>18 DEF Reconnect
<1>19. ASSUME NEW x \in Item, Change(x) PROVE MapLeads'
  BY <1>19 DEF Change, Notify, Heard, Stale, TypeOK, UnderWay
<1>20. ASSUME NEW x \in Item, Remove(x) PROVE MapLeads'
  BY <1>20 DEF Remove, Notify, Heard, Stale, TypeOK, UnderWay
<1>21. ASSUME NEW things \in SUBSET Item, ChangeMany(things) PROVE MapLeads'
  BY <1>21 DEF ChangeMany, Notify, Heard, Stale, TypeOK, UnderWay
<1>22. ASSUME Close PROVE MapLeads'
  BY <1>22 DEF Close
<1>23. ASSUME Crash PROVE MapLeads'
  BY <1>23 DEF Crash
<1>24. ASSUME NEW c \in Copy, DeleteCopy(c) PROVE MapLeads'
  BY <1>24 DEF DeleteCopy
<1>25. CASE UNCHANGED vars
  BY <1>25 DEF vars
<1>. QED
  BY <1>1, <1>2, <1>3, <1>4, <1>5, <1>6, <1>7, <1>8, <1>9, <1>10, <1>11, <1>12,
     <1>13, <1>14, <1>15, <1>16, <1>17, <1>18, <1>19, <1>20, <1>21, <1>22,
     <1>23, <1>24, <1>25, NextCases

\* What a notification that is heard adds to those that wait.
LEMMA NotifyWire ==
  ASSUME TypeOK, NEW n \in Note, Heard, Notify(n), UNCHANGED <<pc, note>>, NEW x \in Item
  PROVE  /\ Doomed(x)' <=> Doomed(x) \/ n = Sent("delete", x)
         /\ n \in {Sent("change", x), [kind |-> "sync"]} => Renewed(x)'
         /\ n # Sent("delete", x) /\ Renewed(x) => Renewed(x)'
<1>1. /\ wire' \in Seq(Note) /\ Len(wire') = Len(wire) + 1 /\ Len(wire) \in Nat
      /\ wire'[Len(wire) + 1] = n
      /\ \A i \in 1..Len(wire) : wire'[i] = wire[i]
  <2>1. wire' = Append(wire, n) /\ wire \in Seq(Note)
    BY Zenon DEF Notify, TypeOK
  <2>. QED
    BY <2>1
<1>2. Doomed(x)' <=> Doomed(x) \/ n = Sent("delete", x)
  BY <1>1 DEF Doomed, Sent
<1>3. n \in {Sent("change", x), [kind |-> "sync"]} => Renewed(x)'
  BY <1>1 DEF Renewed
<1>4. ASSUME n # Sent("delete", x), Renewed(x)
      PROVE  Renewed(x)'
  <2>1. PICK i \in 1..Len(wire) :
           /\ wire[i] \in {Sent("change", x), [kind |-> "sync"]}
           /\ \A j \in (i + 1)..Len(wire) : wire[j] # Sent("delete", x)
    BY <1>4 DEF Renewed
  <2>2. i \in 1..Len(wire') /\ wire'[i] \in {Sent("change", x), [kind |-> "sync"]}
    BY <1>1, <2>1
  <2>3. ASSUME NEW j \in (i + 1)..Len(wire')
        PROVE  wire'[j] # Sent("delete", x)
    <3>1. CASE j = Len(wire) + 1
      BY <1>1, <1>4, <3>1
    <3>2. CASE j # Len(wire) + 1
      <4>1. j \in (i + 1)..Len(wire) /\ j \in 1..Len(wire)
        BY <1>1, <2>1, <3>2
      <4>. QED
        BY <1>1, <2>1, <4>1
    <3>. QED
      BY <3>1, <3>2
  <2>. QED
    BY <2>2, <2>3 DEF Renewed
<1>. QED
  BY <1>2, <1>3, <1>4

\* A notification of one item is what Sent makes of it.
LEMMA NoteForms ==
  ASSUME NEW n \in Note, n.kind # "sync"
  PROVE  /\ n.item \in Item /\ n = Sent(n.kind, n.item)
         /\ n.kind \in {"change", "delete"}
  BY DEF Note, Sent

\* What the notifications that wait say without the first of them.
LEMMA TailWire ==
  ASSUME TypeOK, wire # <<>>, wire' = Tail(wire), NEW x \in Item
  PROVE  /\ (\E i \in 1..Len(wire) : wire[i] = Sent("delete", x))
              <=> \/ Head(wire) = Sent("delete", x)
                  \/ \E i \in 1..Len(wire') : wire'[i] = Sent("delete", x)
         /\ Renewed(x) =>
              \/ Renewed(x)'
              \/ /\ Head(wire) \in {Sent("change", x), [kind |-> "sync"]}
                 /\ ~\E i \in 1..Len(wire') : wire'[i] = Sent("delete", x)
<1> DEFINE d == Sent("delete", x)
<1>1. /\ Len(wire) \in Nat /\ Len(wire) > 0 /\ Len(wire') = Len(wire) - 1
      /\ Head(wire) = wire[1]
      /\ \A i \in 1..Len(wire') : wire'[i] = wire[i + 1]
  BY DEF TypeOK
<1>5. \A i \in 2..Len(wire) : i - 1 \in 1..Len(wire') /\ wire[i] = wire'[i - 1]
  BY <1>1
<1> HIDE DEF d
<1>2. (\E i \in 1..Len(wire) : wire[i] = d)
        <=> Head(wire) = d \/ \E i \in 1..Len(wire') : wire'[i] = d
  BY SMTT(30), <1>1, <1>5
<1>3. ASSUME NEW i \in 1..Len(wire), wire[i] \in {Sent("change", x), [kind |-> "sync"]},
             \A j \in (i + 1)..Len(wire) : wire[j] # d
      PROVE  \/ Renewed(x)'
             \/ /\ Head(wire) \in {Sent("change", x), [kind |-> "sync"]}
                /\ ~\E k \in 1..Len(wire') : wire'[k] = d
  <2>1. CASE i = 1
    BY <1>1, <1>3, <2>1
  <2>2. CASE i > 1
    <3>1. i - 1 \in 1..Len(wire') /\ wire'[i - 1] = wire[i]
      BY <1>5, <2>2
    <3>2. \A j \in ((i - 1) + 1)..Len(wire') : wire'[j] # d
      BY <1>1, <1>3, <2>2
    <3>. QED
      BY <1>3, <3>1, <3>2 DEF Renewed, d
  <2>. QED
    BY <1>1, <2>1, <2>2
<1>. QED
  BY <1>2, <1>3 DEF Renewed, d

\* A call that ends with nothing left to write.
LEMMA EndRepaired ==
  ASSUME TypeOK, NEW t \in Task, End(t), UNCHANGED <<cloud, copies, map, wire>>,
         t = Ws => /\ todo[Ws] = {} /\ pc[Ws] \notin {"fetch", "delete"}
                   /\ pc[Ws] = "get" => cloud[note] = None,
         NEW y \in Item, Repaired(y)
  PROVE  Repaired(y)'
<1>1. Renewed(y)' <=> Renewed(y)
  BY DEF Renewed
<1>2. UpToDate(y)' <=> UpToDate(y)
  BY DEF UpToDate
<1>3. CASE t # Ws
  <2>1. /\ pc'[Ws] = pc[Ws] /\ todo'[Ws] = todo[Ws] /\ reply'[Ws] = reply[Ws]
        /\ note' = note
    BY <1>3 DEF End, TypeOK
  <2>. QED
    BY <1>1, <1>2, <2>1 DEF Repaired, Doomed, BeingMirrored
<1>4. CASE t = Ws
  <2>1. todo'[Ws] = {} /\ pc'[Ws] \in {"deaf", "idle"}
    BY <1>4 DEF End, TypeOK
  <2>2. Doomed(y)' <=> Doomed(y)
    BY <1>4, <2>1 DEF Doomed
  <2>3. cloud[y] # None => ~BeingMirrored(y)
    BY <1>4 DEF BeingMirrored
  <2>. QED
    BY <1>1, <1>2, <2>1, <2>2, <2>3 DEF Repaired
<1>. QED
  BY <1>3, <1>4

\* A write of the mirror.
LEMMA WriteRepaired ==
  ASSUME TypeOK, UnderWay, NEW t \in Task, NEW x \in todo[t], pc[t] = "write",
         ~missed, MapLeads, todo' = [todo EXCEPT ![t] = todo[t] \ {x}],
         UNCHANGED <<cloud, pc, reply, note, wire>>,
         x \in Item => map'[x] # None /\ copies'[map'[x]].content = reply[t][x],
         \A z \in Item : z # x => map'[z] = map[z],
         \A z \in Item : z # x /\ map[z] # None => copies'[map[z]] = copies[map[z]],
         NEW y \in Item, Repaired(y)
  PROVE  Repaired(y)'
<1>1. Renewed(y)' <=> Renewed(y)
  BY DEF Renewed
<1>2. Doomed(y)' <=> Doomed(y)
  BY DEF Doomed
<1>3. CASE y # x
  <2>1. UpToDate(y)' <=> UpToDate(y)
    BY <1>3 DEF UpToDate
  <2>2. y \in todo'[Ws] <=> y \in todo[Ws]
    BY <1>3 DEF TypeOK
  <2>3. BeingMirrored(y)' <=> BeingMirrored(y)
    BY <2>2 DEF BeingMirrored
  <2>4. map'[y] = map[y] /\ reply'[Ws] = reply[Ws] /\ cloud'[y] = cloud[y]
    BY <1>3
  <2>. QED
    BY <1>1, <1>2, <2>1, <2>2, <2>3, <2>4 DEF Repaired
<1>4. CASE y = x
  <2>1. t # Ws => permit = t
    BY DEF UnderWay
  <2>2. t # Ws => reply[t][x] = cloud[x]
    BY <2>1 DEF MapLeads
  <2>3. reply[t][x] # None
    BY DEF UnderWay
  <2>4. ASSUME reply[t][x] = cloud[x] PROVE UpToDate(y)'
    BY <1>4, <2>4 DEF UpToDate
  <2>5. CASE cloud[y] = None
    <3>1. t = Ws
      BY <1>4, <2>2, <2>3, <2>5
    <3>2. Doomed(y)
      BY <1>4, <2>5, <3>1 DEF Repaired
    <3>. QED
      BY <1>2, <2>5, <3>2 DEF Repaired
  <2>6. CASE cloud[y] # None
    <3>1. CASE Renewed(y)
      BY <1>1, <2>6, <3>1 DEF Repaired
    <3>2. CASE ~Renewed(y)
      <4>1. /\ ~Doomed(y)'
            /\ y \in todo[Ws] => reply[Ws][y] = cloud[y]
        BY <1>2, <2>6, <3>2 DEF Repaired
      <4>2. UpToDate(y)'
        BY <1>4, <2>2, <2>4, <4>1
      <4>3. y \in todo'[Ws] => y \in todo[Ws]
        BY DEF TypeOK
      <4>. QED
        BY <2>6, <4>1, <4>2, <4>3 DEF Repaired
    <3>. QED
      BY <3>1, <3>2
  <2>. QED
    BY <2>5, <2>6
<1>. QED
  BY <1>3, <1>4

\* Whatever makes the mirror differ from the cloud sends the notification that
\* repairs it, and whoever handles the last one of an item writes its content.
LEMMA RepairedStep ==
  TypeOK /\ UnderWay /\ OneCopy /\ MapLeads /\ AllRepaired /\ [Next]_vars => AllRepaired'
<1> SUFFICES ASSUME TypeOK, UnderWay, OneCopy, MapLeads, AllRepaired, [Next]_vars,
                    ~missed', NEW y \in Item
             PROVE  Repaired(y)'
  BY DEF AllRepaired
<1>0. ~missed /\ Repaired(y)
  <2>1. Next \/ UNCHANGED vars => (missed => missed')
    <3> SUFFICES ASSUME Next \/ UNCHANGED vars, missed PROVE missed'
      OBVIOUS
    <3>. QED
     BY Zenon, NextCases DEF vars, Start, Fetch, FetchFails, LockCloud,
        LockMap, Save, SaveFails, Cancel, Update, Create, WriteFails,
        Receive, Get, GetFails, Mirrored, Delete, DeleteFails, Reconnect,
        Change, Remove, ChangeMany, Notify, Close, Crash, DeleteCopy
  <2>. QED
    BY <2>1 DEF AllRepaired
<1>1. ASSUME NEW t \in Task, Start(t) PROVE Repaired(y)'
  BY <1>1, <1>0 DEF Start, Repaired, Renewed, Doomed, UpToDate, BeingMirrored
<1>2. ASSUME NEW t \in Task, Fetch(t) PROVE Repaired(y)'
  <2>1. /\ pc[t] = "fetch" /\ pc' = [pc EXCEPT ![t] = "cloud"]
        /\ reply' = [reply EXCEPT ![t] = cloud] /\ todo' = [todo EXCEPT ![t] = There(cloud)]
        /\ UNCHANGED <<cloud, copies, map, note, wire>>
    BY <1>2 DEF Fetch
  <2>2. Renewed(y)' <=> Renewed(y)
    BY <2>1 DEF Renewed
  <2>3. UpToDate(y)' <=> UpToDate(y)
    BY <2>1 DEF UpToDate
  <2>4. CASE t # Ws
    <3>1. pc'[Ws] = pc[Ws] /\ todo'[Ws] = todo[Ws] /\ reply'[Ws] = reply[Ws]
      BY <2>1, <2>4 DEF TypeOK
    <3>. QED
      BY <1>0, <2>1, <2>2, <2>3, <3>1 DEF Repaired, Doomed, BeingMirrored
  <2>5. CASE t = Ws
    <3>1. pc'[Ws] = "cloud" /\ todo'[Ws] = There(cloud) /\ reply'[Ws] = cloud
      BY <2>1, <2>5 DEF TypeOK
    <3>2. y \in todo'[Ws] <=> cloud[y] # None
      BY <3>1 DEF There, TypeOK
    <3>3. Doomed(y)' <=> Doomed(y)
      BY <2>1, <2>5, <3>1 DEF Doomed
    <3>. QED
      BY <1>0, <2>1, <2>2, <3>1, <3>2, <3>3 DEF Repaired, BeingMirrored
  <2>. QED
    BY <2>4, <2>5
<1>3. ASSUME NEW t \in Task, FetchFails(t) PROVE Repaired(y)'
  <2>1. t # Ws
    BY <1>3 DEF FetchFails
  <2>. QED
    BY <1>3, <1>0, <2>1, EndRepaired DEF FetchFails
<1>4. ASSUME NEW t \in Task, LockCloud(t) PROVE Repaired(y)'
  BY <1>4, <1>0 DEF LockCloud, Repaired, Renewed, Doomed, UpToDate, BeingMirrored
<1>5. ASSUME NEW t \in Task, LockMap(t) PROVE Repaired(y)'
  BY <1>5, <1>0 DEF LockMap, Repaired, Renewed, Doomed, UpToDate, BeingMirrored
<1>6. ASSUME NEW t \in Task, NEW x \in Thing, Update(t, x) PROVE Repaired(y)'
  <2>1. x \in todo[t] /\ pc[t] = "write" /\ map[x] # None
    BY <1>6 DEF Update, Due
  <2>2. copies[map[x]] # None /\ copies[map[x]].of = x /\ map[x] \in Copy
    BY <1>0, <2>1 DEF MapLeads, TypeOK
  <2>3. UNCHANGED <<cloud, map, pc, reply, note, wire>>
    BY <1>6 DEF Update
  <2>4. \A z \in Item : z # x /\ map[z] # None =>
          map[z] # map[x] /\ copies'[map[z]] = copies[map[z]]
    <3>1. \A z \in Item : z # x /\ map[z] # None => map[z] # map[x] /\ map[z] \in Copy
      BY <1>0, <2>2 DEF MapLeads, TypeOK
    <3>. QED
      BY <1>6, <2>2, <3>1 DEF Update, TypeOK
  <2>5. x \in Item => copies'[map[x]] = Copied(t, x)
    BY <1>6, <2>2 DEF Update, TypeOK
  <2>6. x \in Item => map'[x] # None /\ copies'[map'[x]].content = reply[t][x]
    BY <2>1, <2>3, <2>5 DEF Copied
  <2>7. todo' = [todo EXCEPT ![t] = todo[t] \ {x}]
    BY <1>6 DEF Update
  <2>. QED
    BY <1>0, <2>1, <2>3, <2>4, <2>6, <2>7, WriteRepaired
<1>7. ASSUME NEW t \in Task, NEW x \in Thing, Create(t, x) PROVE Repaired(y)'
  <2>1. x \in todo[t] /\ pc[t] = "write" /\ map[x] = None /\ made + 1 \in Copy
    BY <1>7 DEF Create, Due, TypeOK
  <2>2. map'[x] = made + 1 /\ \A z \in Item : z # x => map'[z] = map[z]
    BY <1>7 DEF Create, TypeOK
  <2>3. UNCHANGED <<cloud, pc, reply, note, wire>>
    BY <1>7 DEF Create
  <2>4. \A z \in Item : z # x /\ map[z] # None => copies'[map[z]] = copies[map[z]]
    <3>1. \A z \in Item : map[z] # None => map[z] # made + 1 /\ map[z] \in Copy
      BY DEF TypeOK
    <3>. QED
      BY <1>7, <3>1 DEF Create, TypeOK
  <2>5. copies'[made + 1] = Copied(t, x)
    BY <1>7, <2>1 DEF Create, TypeOK
  <2>6. map'[x] # None /\ copies'[map'[x]].content = reply[t][x]
    BY <2>1, <2>2, <2>5 DEF Copied
  <2>7. todo' = [todo EXCEPT ![t] = todo[t] \ {x}]
    BY <1>7 DEF Create
  <2>. QED
    BY <1>0, <2>1, <2>2, <2>3, <2>4, <2>6, <2>7, WriteRepaired
<1>8. ASSUME NEW t \in Task, NEW x \in Thing, WriteFails(t, x) PROVE Repaired(y)'
  BY <1>8 DEF WriteFails
<1>9. ASSUME NEW t \in Task, Save(t) PROVE Repaired(y)'
  BY <1>9, <1>0, EndRepaired DEF Save
<1>10. ASSUME NEW t \in Task, SaveFails(t) PROVE Repaired(y)'
  BY <1>10, <1>0, EndRepaired DEF SaveFails
<1>11. ASSUME NEW t \in Task, Cancel(t) PROVE Repaired(y)'
  BY <1>11 DEF Cancel
<1>12. ASSUME Receive PROVE Repaired(y)'
  <2>1. /\ pc[Ws] = "idle" /\ wire # <<>> /\ todo[Ws] = {}
        /\ UNCHANGED <<cloud, copies, map, reply, todo>>
    BY <1>12 DEF Receive, UnderWay
  <2>2. UpToDate(y)' <=> UpToDate(y)
    BY <2>1 DEF UpToDate
  <2>3. Head(wire) \in Note /\ Head(wire) = wire[1] /\ Len(wire) \in Nat /\ Len(wire) > 0
    BY <2>1 DEF TypeOK
  <2>4. cloud[y] # None => Renewed(y) \/ (~Doomed(y) /\ UpToDate(y))
    BY <1>0, <2>1 DEF Repaired, BeingMirrored
  <2>5. Doomed(y) <=> \E i \in 1..Len(wire) : wire[i] = Sent("delete", y)
    BY <2>1 DEF Doomed
  <2>6. CASE Head(wire).kind = "sync"
    <3>1. wire' = <<>> /\ pc' = [pc EXCEPT ![Ws] = "fetch"] /\ Len(wire) = 1
      <4>1. missed' <=> (missed \/ Len(wire) > 1 \/ permit # Nobody)
        BY <1>12, <2>6 DEF Receive
      <4>2. permit = Nobody /\ Len(wire) = 1
        <5>1. permit = Nobody /\ ~(Len(wire) > 1)
          BY Zenon, <4>1
        <5>2. \A n \in Nat : n > 0 /\ ~(n > 1) => n = 1
          OBVIOUS
        <5>. QED
          BY Zenon, <2>3, <5>1, <5>2
      <4>. QED
        BY <1>12, <2>6, <4>2 DEF Receive
    <3>2. ~Doomed(y)
      BY <2>3, <2>5, <2>6, <3>1 DEF Sent
    <3>3. pc'[Ws] = "fetch" /\ ~Doomed(y)'
      BY <3>1 DEF Doomed, TypeOK
    <3>. QED
      BY <1>0, <2>1, <3>2, <3>3 DEF Repaired, BeingMirrored
  <2>7. CASE Head(wire).kind # "sync"
    <3>1. /\ wire' = Tail(wire) /\ note' = Head(wire).item
          /\ pc' = [pc EXCEPT ![Ws] = IF Head(wire).kind = "change" THEN "get" ELSE "delete"]
      BY <1>12, <2>7 DEF Receive
    <3>2. /\ Head(wire) = Sent(Head(wire).kind, Head(wire).item)
          /\ Head(wire).kind \in {"change", "delete"}
      BY <2>3, <2>7, NoteForms
    <3>3. Head(wire) = Sent("delete", y) <=> pc'[Ws] = "delete" /\ note' = y
      BY <3>1, <3>2 DEF Sent, TypeOK
    <3>4. Doomed(y)' <=> Doomed(y)
      BY <2>1, <2>5, <3>1, <3>3, TailWire DEF Doomed
    <3>5. CASE cloud[y] = None
      BY <1>0, <2>1, <3>4, <3>5 DEF Repaired
    <3>6. CASE cloud[y] # None /\ Renewed(y) /\ ~Renewed(y)'
      <4>1. /\ Head(wire) \in {Sent("change", y), [kind |-> "sync"]}
            /\ ~\E i \in 1..Len(wire') : wire'[i] = Sent("delete", y)
        BY <2>1, <3>1, <3>6, TailWire
      <4>2. Head(wire) = Sent("change", y)
        BY <2>7, <4>1
      <4>3. pc'[Ws] = "get" /\ note' = y
        BY <3>1, <4>2 DEF Sent, TypeOK
      <4>. QED
        BY <2>1, <3>6, <4>1, <4>3 DEF Repaired, BeingMirrored, Doomed
    <3>7. CASE cloud[y] # None /\ ~Renewed(y)
      BY <2>1, <2>2, <2>4, <3>4, <3>7 DEF Repaired
    <3>. QED
      BY <2>1, <3>5, <3>6, <3>7 DEF Repaired
  <2>. QED
    BY <2>6, <2>7
<1>13. ASSUME Get PROVE Repaired(y)'
  <2>1. /\ pc[Ws] = "get" /\ todo[Ws] = {} /\ note \in Item
        /\ UNCHANGED <<cloud, copies, map, wire>>
    BY <1>13 DEF Get, UnderWay
  <2>2. CASE cloud[note] = None
    BY <1>13, <1>0, <2>1, <2>2, EndRepaired DEF Get
  <2>3. CASE cloud[note] # None
    <3>1. /\ note' = note /\ pc' = [pc EXCEPT ![Ws] = "map"]
          /\ reply' = [reply EXCEPT ![Ws] = [Nothing EXCEPT ![note] = cloud[note]]]
          /\ todo' = [todo EXCEPT ![Ws] = {note}]
      BY <1>13, <2>3 DEF Get
    <3>2. pc'[Ws] = "map" /\ todo'[Ws] = {note} /\ reply'[Ws][note] = cloud[note]
      BY <2>1, <3>1 DEF TypeOK
    <3>3. Doomed(y)' <=> Doomed(y)
      BY <2>1, <3>1, <3>2 DEF Doomed
    <3>4. UpToDate(y)' <=> UpToDate(y)
      BY <2>1 DEF UpToDate
    <3>5. Renewed(y)' <=> Renewed(y)
      BY <2>1 DEF Renewed
    <3>6. CASE y = note
      BY <1>0, <2>1, <2>3, <3>2, <3>3, <3>5, <3>6 DEF Repaired, BeingMirrored
    <3>7. CASE y # note
      BY <1>0, <2>1, <3>2, <3>3, <3>4, <3>5, <3>7 DEF Repaired, BeingMirrored
    <3>. QED
      BY <3>6, <3>7
  <2>. QED
    BY <2>2, <2>3
<1>14. ASSUME GetFails PROVE Repaired(y)'
  BY <1>14 DEF GetFails
<1>15. ASSUME Mirrored PROVE Repaired(y)'
  BY <1>15, <1>0, EndRepaired DEF Mirrored
<1>16. ASSUME Delete PROVE Repaired(y)'
  <2>1. /\ pc[Ws] = "delete" /\ todo[Ws] = {} /\ note \in Item /\ note \in Thing
        /\ UNCHANGED <<cloud, wire>>
    BY <1>16 DEF Delete, UnderWay
  <2>2. todo'[Ws] = {} /\ pc'[Ws] # "delete"
    BY <1>16 DEF Delete, End, TypeOK
  <2>3. Renewed(y)' <=> Renewed(y)
    BY <2>1 DEF Renewed
  <2>4. CASE y = note
    <3>1. Doomed(y) /\ map'[y] = None
      BY <1>16, <2>1, <2>4 DEF Delete, Doomed, TypeOK
    <3>. QED
      BY <1>0, <2>1, <2>2, <2>3, <3>1 DEF Repaired
  <2>5. CASE y # note
    <3>1. map'[y] = map[y]
      BY <1>16, <2>1, <2>5 DEF Delete, TypeOK
    <3>2. map[y] # None => copies'[map[y]] = copies[map[y]]
      <4>1. map[y] # None => map[y] # map[note] /\ map[y] \in Copy
        BY <1>0, <2>1, <2>5 DEF MapLeads, TypeOK
      <4>. QED
        BY <1>16, <4>1 DEF Delete, TypeOK
    <3>3. UpToDate(y)' <=> UpToDate(y)
      BY <2>1, <3>1, <3>2 DEF UpToDate
    <3>4. Doomed(y)' <=> Doomed(y)
      BY <2>1, <2>2, <2>5 DEF Doomed
    <3>. QED
      BY <1>0, <2>1, <2>2, <2>3, <2>5, <3>1, <3>3, <3>4 DEF Repaired, BeingMirrored
  <2>. QED
    BY <2>4, <2>5
<1>17. ASSUME DeleteFails PROVE Repaired(y)'
  BY <1>17 DEF DeleteFails
<1>18. ASSUME Reconnect PROVE Repaired(y)'
  BY <1>18, <1>0 DEF Reconnect, Repaired, Renewed, Doomed, UpToDate, BeingMirrored
<1>19. ASSUME NEW x \in Item, Change(x) PROVE Repaired(y)'
  <2>1. /\ Heard /\ Notify(Sent("change", x)) /\ Sent("change", x) \in Note
        /\ UNCHANGED <<copies, map, pc, reply, todo, note>>
    BY <1>19, <1>0 DEF Change, Sent, Notify, Note
  <2>2. /\ Doomed(y)' <=> Doomed(y) \/ Sent("change", x) = Sent("delete", y)
        /\ Sent("change", x) \in {Sent("change", y), [kind |-> "sync"]} => Renewed(y)'
        /\ Sent("change", x) # Sent("delete", y) /\ Renewed(y) => Renewed(y)'
    BY <2>1, NotifyWire
  <2>3. BeingMirrored(y)' <=> BeingMirrored(y)
    BY <2>1 DEF BeingMirrored
  <2>4. Sent("change", x) # Sent("delete", y)
    BY DEF Sent
  <2>5. CASE y = x
    <3>1. cloud'[y] # None
      BY <1>19, <2>5 DEF Change, TypeOK
    <3>. QED
      BY <2>2, <2>5, <3>1 DEF Repaired
  <2>6. CASE y # x
    <3>1. cloud'[y] = cloud[y]
      BY <1>19, <2>6 DEF Change, TypeOK
    <3>2. UpToDate(y)' <=> UpToDate(y)
      BY <2>1, <3>1 DEF UpToDate
    <3>. QED
      BY <1>0, <2>1, <2>2, <2>3, <2>4, <3>1, <3>2 DEF Repaired
  <2>. QED
    BY <2>5, <2>6
<1>20. ASSUME NEW x \in Item, Remove(x) PROVE Repaired(y)'
  <2>1. /\ Heard /\ Notify(Sent("delete", x)) /\ Sent("delete", x) \in Note
        /\ UNCHANGED <<copies, map, pc, reply, todo, note>>
    BY <1>20, <1>0 DEF Remove, Sent, Notify, Note
  <2>2. /\ Doomed(y)' <=> Doomed(y) \/ Sent("delete", x) = Sent("delete", y)
        /\ Sent("delete", x) \in {Sent("change", y), [kind |-> "sync"]} => Renewed(y)'
        /\ Sent("delete", x) # Sent("delete", y) /\ Renewed(y) => Renewed(y)'
    BY <2>1, NotifyWire
  <2>3. BeingMirrored(y)' <=> BeingMirrored(y)
    BY <2>1 DEF BeingMirrored
  <2>5. CASE y = x
    <3>1. cloud'[y] = None
      BY <1>20, <2>5 DEF Remove, TypeOK
    <3>. QED
      BY <2>2, <2>5, <3>1 DEF Repaired
  <2>6. CASE y # x
    <3>1. cloud'[y] = cloud[y] /\ Sent("delete", x) # Sent("delete", y)
      BY <1>20, <2>6 DEF Remove, TypeOK, Sent
    <3>2. UpToDate(y)' <=> UpToDate(y)
      BY <2>1, <3>1 DEF UpToDate
    <3>. QED
      BY <1>0, <2>1, <2>2, <2>3, <3>1, <3>2 DEF Repaired
  <2>. QED
    BY <2>5, <2>6
<1>21. ASSUME NEW things \in SUBSET Item, ChangeMany(things) PROVE Repaired(y)'
  <2>1. /\ Heard /\ Notify([kind |-> "sync"]) /\ [kind |-> "sync"] \in Note
        /\ UNCHANGED <<copies, map, pc, reply, todo, note>>
    BY <1>21, <1>0 DEF ChangeMany, Notify, Note
  <2>2. /\ Doomed(y)' <=> Doomed(y) \/ [kind |-> "sync"] = Sent("delete", y)
        /\ [kind |-> "sync"] \in {Sent("change", y), [kind |-> "sync"]} => Renewed(y)'
        /\ [kind |-> "sync"] # Sent("delete", y) /\ Renewed(y) => Renewed(y)'
    BY <2>1, NotifyWire
  <2>3. BeingMirrored(y)' <=> BeingMirrored(y)
    BY <2>1 DEF BeingMirrored
  <2>4. [kind |-> "sync"] # Sent("delete", y)
    BY DEF Sent
  <2>5. CASE cloud'[y] # None
    BY <2>2, <2>5 DEF Repaired
  <2>6. CASE cloud'[y] = None
    <3>1. cloud[y] = None
      BY <1>21, <2>6 DEF ChangeMany, TypeOK
    <3>. QED
      BY <1>0, <2>1, <2>2, <2>6, <3>1 DEF Repaired
  <2>. QED
    BY <2>5, <2>6
<1>22. ASSUME Close PROVE Repaired(y)'
  BY <1>22, <1>0 DEF Close, Repaired, Renewed, Doomed, UpToDate, BeingMirrored
<1>23. ASSUME Crash PROVE Repaired(y)'
  BY <1>23 DEF Crash
<1>24. ASSUME NEW c \in Copy, DeleteCopy(c) PROVE Repaired(y)'
  BY <1>24 DEF DeleteCopy
<1>25. CASE UNCHANGED vars
  BY <1>25, <1>0 DEF vars, Repaired, Renewed, Doomed, UpToDate, BeingMirrored
<1>. QED
  BY <1>1, <1>2, <1>3, <1>4, <1>5, <1>6, <1>7, <1>8, <1>9, <1>10, <1>11, <1>12,
     <1>13, <1>14, <1>15, <1>16, <1>17, <1>18, <1>19, <1>20, <1>21, <1>22,
     <1>23, <1>24, <1>25, NextCases

\* The map of a mirror that is complete numbers the copies without a gap.
LEMMA NumberedSound ==
  ASSUME NEW things \in SUBSET Thing, NEW m, m = Numbered(things)
  PROVE  /\ Cardinality(things) \in 0..MaxCopies
         /\ m \in [Thing -> Maybe(1..Cardinality(things))] /\ There(m) = things
         /\ \A x, y \in things : m[x] = m[y] => x = y
         /\ \A c \in 1..Cardinality(things) : \E x \in things : m[x] = c
<1> DEFINE n == Cardinality(things)
           Good(f) == There(f) = things /\ \A x, y \in things : f[x] = f[y] => x = y
<1>1. IsFiniteSet(things) /\ n \in Nat /\ n <= MaxCopies
  <2>1. IsFiniteSet(Thing)
    BY ThingsAssumption
  <2>2. IsFiniteSet(things) /\ n <= Cardinality(Thing)
    BY <2>1, FS_Subset
  <2>3. n \in Nat /\ Cardinality(Thing) \in Nat
    BY <2>1, <2>2, FS_CardinalityType
  <2>. QED
    BY <2>2, <2>3
<1>2. \E f \in [Thing -> Maybe(1..n)] : Good(f)
  <2>1. ExistsBijection(things, 1..n)
    BY <1>1, FS_CardinalityType, Fun_ExistsBijSymmetric
  <2>2. PICK g : g \in Bijection(things, 1..n)
    BY <2>1 DEF ExistsBijection
  <2>3. g \in [things -> 1..n] /\ \A x, y \in things : g[x] = g[y] => x = y
    BY <2>2 DEF Bijection, Injection, IsInjective
  <2> DEFINE f == [x \in Thing |-> IF x \in things THEN g[x] ELSE None]
  <2>4. f \in [Thing -> Maybe(1..n)] /\ Good(f)
    BY <1>1, <2>3 DEF There
  <2>. QED
    BY <2>4
<1>3. m \in [Thing -> Maybe(1..n)] /\ Good(m)
  BY <1>2 DEF Numbered
<1>4. \A c \in 1..n : \E x \in things : m[x] = c
  <2> DEFINE g == [x \in things |-> m[x]]
  <2>1. g \in [things -> 1..n]
    BY <1>3 DEF There
  <2>2. g \in Injection(things, 1..n)
    BY <1>3, <2>1, Fun_IsInj
  <2>3. IsFiniteSet(1..n) /\ Cardinality(1..n) = n
    <3>1. /\ IsFiniteSet(1..n)
          /\ Cardinality(1..n) = IF 1 > n THEN 0 ELSE n - 1 + 1
      <4>1. 1 \in Int /\ n \in Int
        BY <1>1
      <4>. QED
        BY Zenon, <4>1, FS_Interval
    <3>. QED
      BY <1>1, <3>1
  <2>4. g \in Surjection(things, 1..n)
    BY <2>2, <2>3, FS_Injection
  <2>. QED
    <3>1. \A c \in 1..n : \E x \in things : g[x] = c
      BY Zenon, <2>4 DEF Surjection
    <3>. QED
      BY <3>1
<1>. QED
  BY <1>1, <1>3, <1>4

\* The map of the first state leads to each copy, and if it is not empty to
\* a copy of each thing of the cloud.
LEMMA InitMap ==
  ASSUME Init
  PROVE  /\ made \in 0..MaxCopies /\ map \in [Thing -> Maybe(1..made)]
         /\ cloud \in [Thing -> Maybe(0..0)]
         /\ \A x, y \in Thing : map[x] # None /\ map[x] = map[y] => x = y
         /\ \A c \in 1..made : \E x \in Thing : map[x] = c
         /\ missed \in BOOLEAN
         /\ ~missed => \A x \in Thing : map[x] = None <=> cloud[x] = None
<1>1. cloud \in [Thing -> Maybe(0..0)]
  BY DEF Init
<1>2. PICK first \in BOOLEAN :
         /\ map = IF first THEN Nothing ELSE Numbered(There(cloud))
         /\ made = Cardinality(There(map))
         /\ missed = first
  BY Zenon DEF Init
<1>3. CASE first
  <2>1. map = Nothing /\ missed = TRUE
    BY <1>2, <1>3
  <2>2. There(map) = {}
    BY <2>1 DEF There
  <2>3. made = 0
    BY <1>2, <2>2, FS_EmptySet
  <2>. QED
    BY <1>1, <2>1, <2>3
<1>4. CASE ~first
  <2>1. map = Numbered(There(cloud)) /\ missed = FALSE
    BY <1>2, <1>4
  <2>2. There(cloud) \in SUBSET Thing
    BY <1>1 DEF There
  <2>3. There(map) = There(cloud)
    BY <2>1, <2>2, NumberedSound
  <2>4. made = Cardinality(There(cloud))
    BY <1>2, <2>3
  <2>5. /\ made \in 0..MaxCopies /\ map \in [Thing -> Maybe(1..made)]
        /\ \A x, y \in There(cloud) : map[x] = map[y] => x = y
        /\ \A c \in 1..made : \E x \in There(cloud) : map[x] = c
    BY <2>1, <2>2, <2>4, NumberedSound
  <2>6. \A x \in Thing : /\ map[x] = None <=> cloud[x] = None
                         /\ map[x] # None <=> x \in There(cloud)
    BY <1>1, <2>3, <2>5 DEF There
  <2>7. \A x, y \in Thing : map[x] # None /\ map[x] = map[y] => x = y
    BY <2>5, <2>6
  <2>8. \A c \in 1..made : \E x \in Thing : map[x] = c
    BY <2>2, <2>5
  <2>. QED
    BY <1>1, <2>1, <2>5, <2>6, <2>7, <2>8
<1>. QED
  BY <1>3, <1>4

\* An empty mirror and a complete one satisfy the invariant.
LEMMA InitCopies == Init => CopiesInv
<1> SUFFICES ASSUME Init PROVE CopiesInv
  OBVIOUS
<1>1. \A c \in Copy :
        IF c > made THEN copies[c] = None
        ELSE copies[c] # None /\ copies[c].of \in Thing /\ map[copies[c].of] = c
             /\ copies[c] = [of |-> copies[c].of, content |-> 0]
  <2>1. SUFFICES ASSUME NEW c \in Copy, ~(c > made)
                 PROVE  /\ copies[c] # None /\ copies[c].of \in Thing
                        /\ map[copies[c].of] = c
                        /\ copies[c] = [of |-> copies[c].of, content |-> 0]
    BY DEF Init
  <2> DEFINE x == CHOOSE z \in Thing : map[z] = c
  <2>2. c \in 1..made
    BY <2>1, InitMap
  <2>3. x \in Thing /\ map[x] = c
    BY <2>2, InitMap
  <2>4. copies[c] = [of |-> x, content |-> 0]
    BY <2>1 DEF Init
  <2>. QED
    BY <2>3, <2>4
<1>2. /\ disk = map /\ backup = Nothing
      /\ cloudHolder = Nobody /\ mapHolder = Nobody /\ permit = Nobody
      /\ pc = [t \in Task |-> "idle"] /\ reply = [t \in Task |-> Nothing]
      /\ todo = [t \in Task |-> {}] /\ note = None
      /\ wire = <<>> /\ link = TRUE
      /\ edits = 0 /\ faults = 0 /\ orphaned = FALSE
  BY DEF Init
<1>3. TypeOK
  <2>1. copies \in [Copy -> Maybe([of : Thing, content : 0..0])]
    <3>1. copies = [c \in Copy |-> copies[c]]
      BY DEF Init
    <3>2. ASSUME NEW c \in Copy PROVE copies[c] \in Maybe([of : Thing, content : 0..0])
      <4>1. CASE c > made
        BY <1>1, <4>1
      <4>2. CASE ~(c > made)
        <5>1. copies[c].of \in Thing
              /\ copies[c] = [of |-> copies[c].of, content |-> 0]
          BY <1>1, <4>2
        <5>. QED
          BY <5>1
      <4>. QED
        BY <4>1, <4>2
    <3>. QED
      BY <3>1, <3>2
  <2>2. pc \in [Task -> Place] /\ wire \in Seq(Note) /\ Len(wire) <= MaxWire
    BY <1>2 DEF Place
  <2>3. orphaned \in BOOLEAN /\ missed \in BOOLEAN /\ link \in BOOLEAN
    BY Zenon, <1>2, InitMap
  <2>4. /\ reply \in [Task -> [Thing -> Maybe(0..0)]] /\ todo \in [Task -> SUBSET Thing]
        /\ note \in Maybe(Item)
    BY <1>2
  <2>5. {map, disk, backup} \subseteq [Thing -> Maybe(1..made)]
    BY <1>2, InitMap
  <2>. QED
    BY <1>2, <2>1, <2>2, <2>3, <2>4, <2>5, InitMap DEF TypeOK
<1>4. OneCopy
  BY <1>1, InitMap DEF OneCopy, CopiesOf
<1>5. UnderWay
  BY <1>2 DEF UnderWay
<1>6. MapLeads
  <2>1. \A x \in Thing : map[x] # None => copies[map[x]] # None /\ copies[map[x]].of = x
    <3>1. \A x \in Thing : map[x] # None => map[x] \in Copy /\ ~(map[x] > made)
      BY InitMap
    <3>. QED
      BY <1>1, <3>1, InitMap
  <2>. QED
    BY <1>2, <2>1 DEF MapLeads
<1>7. AllRepaired
  <2> SUFFICES ASSUME ~missed, NEW x \in Item PROVE Repaired(x)
    BY DEF AllRepaired
  <2>1. map[x] = None <=> cloud[x] = None
    BY InitMap
  <2>2. cloud[x] # None => cloud[x] = 0
    BY InitMap
  <2>3. map[x] # None => copies[map[x]].content = 0
    <3>1. map[x] # None => map[x] \in Copy /\ ~(map[x] > made)
      BY InitMap
    <3>2. map[x] # None =>
            copies[map[x]] = [of |-> copies[map[x]].of, content |-> 0]
      BY <1>1, <3>1
    <3>. QED
      BY <3>2
  <2>4. ~Doomed(x) /\ todo[Ws] = {}
    BY <1>2 DEF Doomed
  <2>. QED
    BY <2>1, <2>2, <2>3, <2>4 DEF Repaired, UpToDate
<1>. QED
  BY <1>3, <1>4, <1>5, <1>6, <1>7 DEF CopiesInv

\* The map leads to every copy there is, and as long as nothing was missed each
\* difference between mirror and cloud is on its way to be repaired, for any
\* account, number of callers, changes, failures and notifications.
THEOREM CopiesInvariant == Spec => []CopiesInv
<1>1. CopiesInv /\ [Next]_vars => CopiesInv'
  BY TypeStep, UnderWayStep, OneCopyStep, MapLeadsStep, RepairedStep DEF CopiesInv
<1>. QED
  BY InitCopies, <1>1, PTL DEF Spec

\* No item or collection is mirrored twice, whatever full syncs, notifications and
\* restarts do, unless a copy was made or left that could not be recorded.
THEOREM NoDuplicate == Spec => []OneCopy
  BY CopiesInvariant, PTL DEF CopiesInv

\* When everything is handled and nothing was missed, the mirror has just the
\* items of the cloud with their last content.
THEOREM MirrorFollowsCloud == Spec => []MirrorFollows
<1>1. CopiesInv => MirrorFollows
  <2> SUFFICES ASSUME CopiesInv, Quiet, ~missed, NEW x \in Item
               PROVE  {copies[c].content : c \in CopiesOf(x)} = {cloud[x]} \ {None}
    BY DEF MirrorFollows
  <2>1. TypeOK /\ OneCopy /\ UnderWay /\ MapLeads /\ Repaired(x) /\ x \in Thing
    BY DEF CopiesInv, AllRepaired
  <2>2. wire = <<>> /\ pc[Ws] \in {"idle", "deaf"} /\ todo[Ws] = {}
    BY <2>1 DEF Quiet, UnderWay
  <2>3. ~Renewed(x) /\ ~Doomed(x) /\ ~BeingMirrored(x)
    BY <2>2 DEF Renewed, Doomed, BeingMirrored
  <2>4. CopiesOf(x) \subseteq {map[x]}
    BY <2>1 DEF OneCopy, MapLeads
  <2>5. CASE cloud[x] = None
    <3>1. map[x] = None
      BY <2>1, <2>3, <2>5 DEF Repaired
    <3>2. CopiesOf(x) = {}
      BY <2>4, <3>1 DEF CopiesOf
    <3>. QED
      BY <2>5, <3>2
  <2>6. CASE cloud[x] # None
    <3>1. UpToDate(x)
      BY <2>1, <2>3, <2>6 DEF Repaired
    <3>2. map[x] \in Copy /\ copies[map[x]] # None /\ copies[map[x]].of = x
      BY <2>1, <3>1 DEF UpToDate, MapLeads, TypeOK
    <3>3. CopiesOf(x) = {map[x]}
      BY <2>4, <3>2 DEF CopiesOf
    <3>. QED
      BY <2>6, <3>1, <3>3 DEF UpToDate
  <2>. QED
    BY <2>5, <2>6
<1>. QED
  BY CopiesInvariant, <1>1, PTL
=============================================================================
