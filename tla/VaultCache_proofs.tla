--------------------------- MODULE VaultCache_proofs --------------------------
(***************************************************************************)
(* What holds of VaultCache for every set of tasks, jobs and names.        *)
(*                                                                         *)
(* AnyTasksInv holds however many operations run at once.  That the caches *)
(* are current, and that a write is sound, holds only of operations that   *)
(* come one after the other, which the code does not see to: handlers run  *)
(* side by side.  The two lemmas that assume it (OneAtATime) say that the  *)
(* steps inside an operation are in the right order, and no more: CacheInv *)
(* is then inductive, because it also says what the operation under way    *)
(* knows (ReadCurrent), and WritesSound follows from it.                   *)
(***************************************************************************)
EXTENDS VaultCache, TLAPS

\* The actions of Next, one by one.
LEMMA NextCases ==
  ASSUME Next
  PROVE  \/ \E t \in Task :
              \/ \E j \in Jobs : Begin(t, j)
              \/ Guard(t) \/ Scope(t) \/ Find(t) \/ Read(t) \/ WriteFails(t)
              \/ MakeFolder(t) \/ Put(t) \/ Post(t) \/ Delete(t) \/ RemoveFolder(t)
              \/ Load(t) \/ Stamp(t) \/ Fetch(t) \/ FetchFails(t)
              \/ StoreItems(t) \/ StoreIndex(t) \/ Clear(t) \/ Cancel(t)
         \/ Cooldown \/ Reload
         \/ \E i \in Item, p \in Part : OutsideEdit(i, p)
         \/ \E f \in Folder, n \in FolderName : OutsideRename(f, n)
  BY Zenon DEF Next, Step

\* What the assumptions say, in the form the steps use.
LEMMA Constants ==
  /\ None \notin Cipher /\ None \notin Item /\ None \notin Folder /\ None \notin FolderName
  /\ None \notin Jobs /\ None \notin Reply /\ Vault \in FolderName
  /\ MaxItems \in Nat /\ MaxFolders \in Nat /\ MaxJobs \in Nat /\ MaxOutside \in Nat
  /\ 1 \in Folder /\ 2 \in Folder /\ 1 \in Item /\ 2 \in Item
  BY NoneAssumption, VaultAssumption, BoundsAssumption DEF Item, Folder

\* What every step below may look at: the helpers that the actions share.
USE Constants DEF Maybe, Goto, Set, serverVars, cacheVars, localVars, boundVars

\* An operation that returns keeps the types.
LEMMA EndTypes ==
  ASSUME LocalsOK, NEW t \in Task, End(t)
  PROVE  LocalsOK'
  BY DEF LocalsOK, End, Place

\* So does one whose write has succeeded.
LEMMA WrittenTypes ==
  ASSUME LocalsOK, NEW t \in Task, Written(t)
  PROVE  LocalsOK'
<1>1. CASE Syncs(job[t])
  BY <1>1 DEF LocalsOK, Written, Place
<1>2. CASE ~Syncs(job[t])
  BY <1>2, EndTypes DEF Written
<1>. QED
  BY <1>1, <1>2

\* And one whose sync is over.
LEMMA AfterSyncTypes ==
  ASSUME LocalsOK, NEW t \in Task, AfterSync(t)
  PROVE  LocalsOK'
<1>1. CASE LastSync(t)
  BY <1>1, EndTypes DEF AfterSync
<1>2. CASE ~LastSync(t)
  BY <1>2 DEF LocalsOK, AfterSync, Place
<1>. QED
  BY <1>1, <1>2

\* What an operation at work asks for.
LEMMA JobTypes ==
  ASSUME TypeOK, UnderWay, NEW t \in Task, pc[t] # "idle"
  PROVE  /\ job[t] \in Jobs /\ job[t] # None /\ job[t].op \in Ops
         /\ job[t].op \in {"update", "delete", "clone", "move", "file"} => job[t].item \in Item
         /\ job[t].op \in {"clone", "move", "create"} => job[t].folder \in Maybe(Folder)
         /\ job[t].op = "rmdir" => job[t].http /\ job[t].folder \in Folder
         /\ job[t].op \in {"update", "upsert"} => job[t].part \in Part
         /\ job[t].op \in {"upsert", "create", "clone"} => job[t].name \in Name
         /\ job[t].op \in {"file", "ensure"} => job[t].fname \in FolderName
         /\ job[t].op \in {"upsert", "ensure"} => ~job[t].http
<1>1. job[t] \in Jobs
  BY DEF UnderWay
<1>. QED
  BY <1>1, JobsAssumption

\* The folder an item goes to is one, or none.
LEMMA TargetFolder ==
  ASSUME TypeOK, UnderWay, NEW t \in Task, pc[t] # "idle"
  PROVE  Target(t) \in Maybe(Folder)
  BY JobTypes DEF Target, TypeOK, LocalsOK

\* An operation makes a cipher of a cipher.
LEMMA EditedCipher ==
  ASSUME TypeOK, UnderWay, NEW t \in Task, pc[t] = "write", IsPut(t), NEW c \in Cipher
  PROVE  /\ Edited(t, c) \in Cipher /\ Edited(t, c) # None
         /\ Edited(t, c).folder = IF job[t].op \in {"move", "file"} THEN Target(t) ELSE c.folder
<1>1. CASE job[t].op \in {"move", "file"}
  <2>1. Edited(t, c) = [c EXCEPT !.folder = Target(t)]
    BY <1>1 DEF Edited
  <2>2. Target(t) \in Maybe(Folder)
    BY TargetFolder
  <2>3. Edited(t, c) \in Cipher /\ Edited(t, c).folder = Target(t)
    BY <2>1, <2>2 DEF Cipher
  <2>. QED
    BY <1>1, <2>3
<1>2. CASE job[t].op \notin {"move", "file"}
  <2>1. job[t].part \in Part
    BY <1>2, JobTypes DEF IsPut
  <2>2. Edited(t, c) = [c EXCEPT !.secret[job[t].part] = writes + 1]
    BY <1>2 DEF Edited
  <2>3. writes + 1 \in Nat
    BY DEF TypeOK
  <2>4. Edited(t, c) \in Cipher /\ Edited(t, c).folder = c.folder
    BY <2>1, <2>2, <2>3 DEF Cipher
  <2>. QED
    BY <1>2, <2>4
<1>. QED
  BY <1>1, <1>2

\* Every step keeps the types.
LEMMA TypeStep == TypeOK /\ UnderWay /\ IdsGiven /\ [Next]_vars => TypeOK'
<1> SUFFICES ASSUME TypeOK, UnderWay, IdsGiven, [Next]_vars PROVE TypeOK'
  OBVIOUS
<1>1. ASSUME NEW t \in Task, NEW j \in Jobs, Begin(t, j) PROVE TypeOK'
  <2>1. pc'[t] \in Place /\ pc' \in [Task -> Place]
    BY <1>1 DEF Begin, Core, Place, TypeOK, LocalsOK
  <2>. QED
    BY <1>1, <2>1 DEF Begin, TypeOK, LocalsOK
<1>2. ASSUME NEW t \in Task, Guard(t) PROVE TypeOK'
  <2>1. job[t].item \in Item
    BY <1>2, JobTypes DEF Guard, UnderWay, Ops
  <2>. QED
    BY <1>2, <2>1, EndTypes DEF Guard, TypeOK, LocalsOK, Place
<1>3. ASSUME NEW t \in Task, Scope(t) PROVE TypeOK'
  <2>1. Resolved \in Maybe(Folder)
    BY DEF Resolved, TypeOK
  <2>2. LocalsOK'
    <3>1. CASE Refused(t)
      BY <1>3, <3>1, EndTypes DEF Scope, TypeOK
    <3>2. CASE ~Refused(t)
      <4>1. Core(job[t]) \in Place
        BY DEF Core, Place
      <4>. QED
        BY <1>3, <2>1, <3>2, <4>1 DEF Scope, TypeOK, LocalsOK, Place
    <3>. QED
      BY <3>1, <3>2
  <2>. QED
    BY <1>3, <2>1, <2>2 DEF Scope, TypeOK
<1>4. ASSUME NEW t \in Task, Find(t) PROVE TypeOK'
  <2>1. FolderSought(job[t]) \in FolderName
    BY <1>4, JobTypes DEF FolderSought, Find, UnderWay
  <2>2. LocalsOK'
    BY <1>4, <2>1, EndTypes DEF Find, TypeOK, LocalsOK, Place
  <2>. QED
    BY <1>4, <2>2 DEF Find, TypeOK
<1>5. ASSUME NEW t \in Task, Read(t) PROVE TypeOK'
  <2>1. \A i \in Candidates(t) : i \in Item /\ items[i] \in Cipher
    BY DEF Candidates, TypeOK
  <2>2. LocalsOK'
    BY <1>5, <2>1, EndTypes DEF Read, TypeOK, LocalsOK, Place
  <2>. QED
    BY <1>5, <2>2 DEF Read, TypeOK
<1>6. ASSUME NEW t \in Task, WriteFails(t) PROVE TypeOK'
  <2>1. LocalsOK'
    BY <1>6, EndTypes DEF WriteFails, TypeOK
  <2>. QED
    BY <1>6, <2>1 DEF WriteFails, TypeOK
<1>7. ASSUME NEW t \in Task, MakeFolder(t) PROVE TypeOK'
  <2>1. made.folders + 1 \in Folder /\ job[t].fname \in FolderName
    <3>1. made.folders < MaxFolders /\ pc[t] = "mkdir"
      BY <1>7 DEF MakeFolder, Accepts
    <3>2. job[t].fname \in FolderName
      BY <3>1, JobTypes DEF UnderWay
    <3>. QED
      BY <3>1, <3>2 DEF TypeOK, Folder
  <2>. QED
    BY <1>7, <2>1 DEF MakeFolder, TypeOK, LocalsOK, Place
<1>8. ASSUME NEW t \in Task, Put(t) PROVE TypeOK'
  <2>1. /\ id[t] \in Item /\ copy[t] \in Cipher
        /\ intended[id[t]] \in Cipher
    <3>1. pc[t] = "write" /\ IsPut(t) /\ Accepts(t)
      BY <1>8 DEF Put
    <3>2. ciphers[id[t]] # None
      BY <3>1 DEF Accepts
    <3>3. id[t] \in Item /\ copy[t] \in Cipher
      BY <3>1 DEF IsPut, UnderWay, TypeOK, LocalsOK
    <3>. QED
      BY <3>2, <3>3 DEF IdsGiven, CiphersGiven, TypeOK
  <2>2. Edited(t, copy[t]) \in Cipher /\ Edited(t, intended[id[t]]) \in Cipher
    BY <1>8, <2>1, EditedCipher DEF Put
  <2>3. LocalsOK'
    BY <1>8, WrittenTypes DEF Put, TypeOK
  <2>. QED
    BY <1>8, <2>1, <2>2, <2>3 DEF Put, TypeOK
<1>9. ASSUME NEW t \in Task, Post(t) PROVE TypeOK'
  <2> DEFINE new == [name   |-> job[t].name,
                     folder |-> Target(t),
                     secret |-> IF job[t].op = "clone" THEN copy[t].secret
                                ELSE [p \in Part |-> writes + 1]]
  <2>1. made.items + 1 \in Item
    BY <1>9 DEF Post, Accepts, TypeOK, Item, IsPut, IsPost
  <2>2. job[t].name \in Name /\ Target(t) \in Maybe(Folder)
    BY <1>9, JobTypes, TargetFolder DEF Post, IsPost
  <2>3. job[t].op = "clone" => copy[t] \in Cipher
    BY <1>9, JobTypes DEF Post, UnderWay, TypeOK, LocalsOK
  <2>4. new \in Cipher
    BY <2>2, <2>3 DEF Cipher, TypeOK
  <2>5. LocalsOK'
    BY <1>9, WrittenTypes DEF Post, TypeOK
  <2>6. /\ made' = [made EXCEPT !.items = made.items + 1]
        /\ ciphers' = Set(ciphers, made.items + 1, new)
        /\ intended' = Set(intended, made.items + 1, new)
        /\ writes' = writes + 1
    BY <1>9 DEF Post
  <2> HIDE DEF new
  <2>. QED
    BY <1>9, <2>1, <2>4, <2>5, <2>6 DEF Post, TypeOK
<1>10. ASSUME NEW t \in Task, Delete(t) PROVE TypeOK'
  <2>1. LocalsOK'
    BY <1>10, WrittenTypes DEF Delete, TypeOK
  <2>. QED
    BY <1>10, <2>1 DEF Delete, TypeOK
<1>11. ASSUME NEW t \in Task, RemoveFolder(t) PROVE TypeOK'
  <2>1. LocalsOK'
    BY <1>11, WrittenTypes DEF RemoveFolder, TypeOK
  <2>. QED
    BY <1>11, <2>1 DEF RemoveFolder, TypeOK
<1>12. ASSUME NEW t \in Task, Load(t) PROVE TypeOK'
  <2>1. LocalsOK'
    BY <1>12, EndTypes DEF Load, TypeOK, LocalsOK, Place
  <2>. QED
    BY <1>12, <2>1 DEF Load, TypeOK
<1>13. ASSUME NEW t \in Task, Stamp(t) PROVE TypeOK'
  BY <1>13 DEF Stamp, TypeOK, LocalsOK, Place
<1>14. ASSUME NEW t \in Task, Fetch(t) PROVE TypeOK'
  <2>1. [ciphers |-> ciphers, folders |-> folders] \in Reply
    BY DEF TypeOK, Reply
  <2>. QED
    BY <1>14, <2>1 DEF Fetch, TypeOK, LocalsOK, Place
<1>15. ASSUME NEW t \in Task, FetchFails(t) PROVE TypeOK'
  <2>1. LocalsOK'
    BY <1>15, AfterSyncTypes DEF FetchFails, TypeOK
  <2>2. recent' \in BOOLEAN
    BY <1>15 DEF FetchFails, TypeOK
  <2>. QED
    BY <1>15, <2>1, <2>2 DEF FetchFails, TypeOK
<1>16. ASSUME NEW t \in Task, StoreItems(t) PROVE TypeOK'
  <2>1. snap[t].ciphers \in [Item -> Maybe(Cipher)]
    BY <1>16 DEF StoreItems, UnderWay, TypeOK, LocalsOK, Reply
  <2>. QED
    BY <1>16, <2>1 DEF StoreItems, TypeOK, LocalsOK, Place
<1>17. ASSUME NEW t \in Task, StoreIndex(t) PROVE TypeOK'
  <2>1. LocalsOK'
    BY <1>17, AfterSyncTypes DEF StoreIndex, TypeOK, LocalsOK, Place
  <2>2. index' \in [FolderName -> Maybe(Folder)]
    BY <1>17 DEF StoreIndex, Indexes
  <2>. QED
    BY <1>17, <2>1, <2>2 DEF StoreIndex, TypeOK
<1>18. ASSUME NEW t \in Task, Clear(t) PROVE TypeOK'
  <2>1. LocalsOK'
    BY <1>18, EndTypes DEF Clear, TypeOK
  <2>. QED
    BY <1>18, <2>1 DEF Clear, TypeOK
<1>19. ASSUME NEW t \in Task, Cancel(t) PROVE TypeOK'
  <2>1. LocalsOK'
    BY <1>19, EndTypes DEF Cancel, TypeOK
  <2>. QED
    BY <1>19, <2>1 DEF Cancel, TypeOK
<1>20. ASSUME Cooldown PROVE TypeOK'
  BY <1>20 DEF Cooldown, TypeOK, LocalsOK, Place
<1>21. ASSUME Reload PROVE TypeOK'
  BY <1>21 DEF Reload, TypeOK, LocalsOK, Place
<1>22. ASSUME NEW i \in Item, NEW p \in Part, OutsideEdit(i, p) PROVE TypeOK'
  <2>1. ciphers[i] \in Cipher /\ intended[i] \in Cipher /\ writes + 1 \in Nat
    BY <1>22 DEF OutsideEdit, TypeOK, IdsGiven, CiphersGiven
  <2>2. \A c \in Cipher : [c EXCEPT !.secret[p] = writes + 1] \in Cipher
    BY <2>1 DEF Cipher
  <2>. QED
    BY <1>22, <2>1, <2>2 DEF OutsideEdit, TypeOK, LocalsOK
<1>23. ASSUME NEW f \in Folder, NEW n \in FolderName, OutsideRename(f, n)
      PROVE  TypeOK'
  <2>1. renamed' \in BOOLEAN
    BY <1>23 DEF OutsideRename, TypeOK
  <2>. QED
    BY <1>23, <2>1 DEF OutsideRename, TypeOK, LocalsOK
<1>24. CASE UNCHANGED vars
  BY <1>24 DEF vars, TypeOK, LocalsOK
<1>. QED
  BY <1>1, <1>2, <1>3, <1>4, <1>5, <1>6, <1>7, <1>8, <1>9, <1>10, <1>11, <1>12,
     <1>13, <1>14, <1>15, <1>16, <1>17, <1>18, <1>19, <1>20, <1>21, <1>22,
     <1>23, <1>24, NextCases

\* An operation that is over has nothing left.
LEMMA EndUnderWay ==
  ASSUME LocalsOK, UnderWay, NEW t \in Task, End(t)
  PROVE  UnderWay'
  BY DEF UnderWay, End, LocalsOK

\* After a write it has nothing, or all it had.
LEMMA WrittenUnderWay ==
  ASSUME LocalsOK, UnderWay, NEW t \in Task, pc[t] # "idle", Written(t)
  PROVE  UnderWay'
<1>1. CASE Syncs(job[t])
  BY <1>1 DEF UnderWay, Written, LocalsOK
<1>2. CASE ~Syncs(job[t])
  BY <1>2, EndUnderWay DEF Written
<1>. QED
  BY <1>1, <1>2

\* So it has after its sync.
LEMMA AfterSyncUnderWay ==
  ASSUME LocalsOK, UnderWay, NEW t \in Task, pc[t] # "idle", AfterSync(t)
  PROVE  UnderWay'
<1>1. CASE LastSync(t)
  BY <1>1, EndUnderWay DEF AfterSync
<1>2. CASE ~LastSync(t)
  BY <1>2 DEF UnderWay, AfterSync, LastSync, LocalsOK
<1>. QED
  BY <1>1, <1>2

\* Every step leaves the operations with what they have at their places.
LEMMA UnderWayStep == TypeOK /\ UnderWay /\ [Next]_vars => UnderWay'
<1> SUFFICES ASSUME TypeOK, LocalsOK, UnderWay, [Next]_vars PROVE UnderWay'
  BY DEF TypeOK
<1>1. ASSUME NEW t \in Task, NEW j \in Jobs, Begin(t, j) PROVE UnderWay'
  <2>1. /\ pc' = [pc EXCEPT ![t] = pc'[t]] /\ job' = [job EXCEPT ![t] = j]
        /\ pc[t] = "idle" /\ UNCHANGED <<copy, id, snap>>
    BY <1>1 DEF Begin, LocalsOK
  <2>2. j.op \in Ops /\ (j.op \in {"upsert", "ensure"} => ~j.http) /\ (j.op = "rmdir" => j.http)
    BY JobsAssumption
  <2>3. ~j.http => pc'[t] = Core(j)
    BY <1>1 DEF Begin, LocalsOK
  <2>4. j.http => pc'[t] = IF j.op = "sync" THEN "load"
                           ELSE IF j.op \in {"create", "rmdir"} THEN "scope" ELSE "guard"
    BY <1>1 DEF Begin, LocalsOK
  <2>5. Core(j) = IF j.op \in {"file", "ensure", "upsert"} THEN "find"
                  ELSE IF j.op \in {"delete", "rmdir", "create"} THEN "write"
                  ELSE IF j.op = "sync" THEN "fetch" ELSE "read"
    BY DEF Core
  <2>. QED
    BY <2>1, <2>2, <2>3, <2>4, <2>5 DEF UnderWay, LocalsOK, Ops
<1>2. ASSUME NEW t \in Task, Guard(t) PROVE UnderWay'
  <2>1. CASE items[job[t].item] = None
    BY <1>2, <2>1, EndUnderWay DEF Guard
  <2>2. CASE items[job[t].item] # None
    BY <1>2, <2>2 DEF Guard, UnderWay, LocalsOK
  <2>. QED
    BY <2>1, <2>2
<1>3. ASSUME NEW t \in Task, Scope(t) PROVE UnderWay'
  <2>1. CASE Refused(t)
    BY <1>3, <2>1, EndUnderWay DEF Scope
  <2>2. CASE ~Refused(t)
    <3>1. Core(job[t]) = IF job[t].op \in {"file", "ensure", "upsert"} THEN "find"
                         ELSE IF job[t].op \in {"delete", "rmdir", "create"} THEN "write"
                         ELSE IF job[t].op = "sync" THEN "fetch" ELSE "read"
      BY DEF Core
    <3>2. job[t].op \in Ops
      BY <1>3, JobTypes DEF Scope
    <3>3. CASE job[t].op = "update"
      BY <1>3, <2>2, <3>3 DEF Scope, UnderWay, LocalsOK
    <3>4. CASE job[t].op # "update"
      <4>1. /\ pc' = [pc EXCEPT ![t] = Core(job[t])] /\ copy' = [copy EXCEPT ![t] = None]
            /\ id' = [id EXCEPT ![t] = None] /\ UNCHANGED <<job, snap>> /\ pc[t] = "scope"
        BY <1>3, <2>2, <3>4 DEF Scope
      <4>. QED
        BY <3>1, <3>2, <3>4, <4>1 DEF UnderWay, LocalsOK, Ops
    <3>. QED
      BY <3>3, <3>4
  <2>. QED
    BY <2>1, <2>2
<1>4. ASSUME NEW t \in Task, Find(t) PROVE UnderWay'
  <2> DEFINE f == index[FolderSought(job[t])]
  <2>1. CASE (f = None /\ job[t].op = "upsert") \/ (f # None /\ job[t].op = "ensure")
    BY <1>4, <2>1, EndUnderWay DEF Find
  <2>2. CASE ~((f = None /\ job[t].op = "upsert") \/ (f # None /\ job[t].op = "ensure"))
    BY <1>4, <2>2 DEF Find, UnderWay, LocalsOK
  <2>. QED
    BY <2>1, <2>2
<1>5. ASSUME NEW t \in Task, Read(t) PROVE UnderWay'
  <2>1. \A i \in Candidates(t) : i \in Item /\ items[i] # None
                                    /\ (job[t].op # "upsert" => i = job[t].item)
    BY DEF Candidates
  <2>2. CASE End(t)
    BY <2>2, EndUnderWay
  <2>3. ASSUME NEW i \in Candidates(t), pc' = [pc EXCEPT ![t] = "write"],
               copy' = [copy EXCEPT ![t] = items[i]], id' = [id EXCEPT ![t] = i],
               UNCHANGED <<job, snap>>
        PROVE  UnderWay'
    <3>1. i \in Item /\ items[i] # None /\ pc[t] = "read" /\ job[t] \in Jobs
          /\ job[t].op \in {"update", "upsert", "clone", "move", "file"}
          /\ (job[t].op # "upsert" => i = job[t].item)
      BY <1>5, <2>1, <2>3 DEF Read, UnderWay
    <3>2. /\ pc'[t] = "write" /\ job'[t] = job[t] /\ id'[t] = i /\ copy'[t] = items[i]
          /\ snap'[t] = snap[t]
      BY <2>3 DEF LocalsOK
    <3>3. \A u \in Task \ {t} : /\ pc'[u] = pc[u] /\ job'[u] = job[u] /\ id'[u] = id[u]
                                 /\ copy'[u] = copy[u] /\ snap'[u] = snap[u]
      BY <2>3 DEF LocalsOK
    <3>. QED
      BY <3>1, <3>2, <3>3 DEF UnderWay
  <2>4. CASE /\ job[t].op = "upsert" /\ pc' = [pc EXCEPT ![t] = "write"]
             /\ UNCHANGED localVars
    BY <1>5, <2>4 DEF Read, UnderWay, LocalsOK
  <2>. QED
    BY <1>5, <2>2, <2>3, <2>4 DEF Read
<1>6. ASSUME NEW t \in Task, WriteFails(t) PROVE UnderWay'
  BY <1>6, EndUnderWay DEF WriteFails
<1>7. ASSUME NEW t \in Task, MakeFolder(t) PROVE UnderWay'
  BY <1>7 DEF MakeFolder, UnderWay, LocalsOK
<1>8. ASSUME NEW t \in Task, Put(t) PROVE UnderWay'
  BY <1>8, WrittenUnderWay DEF Put
<1>9. ASSUME NEW t \in Task, Post(t) PROVE UnderWay'
  BY <1>9, WrittenUnderWay DEF Post
<1>10. ASSUME NEW t \in Task, Delete(t) PROVE UnderWay'
  BY <1>10, WrittenUnderWay DEF Delete
<1>11. ASSUME NEW t \in Task, RemoveFolder(t) PROVE UnderWay'
  BY <1>11, WrittenUnderWay DEF RemoveFolder
<1>12. ASSUME NEW t \in Task, Load(t) PROVE UnderWay'
  <2>1. CASE recent
    BY <1>12, <2>1, EndUnderWay DEF Load
  <2>2. CASE ~recent
    BY <1>12, <2>2 DEF Load, UnderWay, LocalsOK
  <2>. QED
    BY <2>1, <2>2
<1>13. ASSUME NEW t \in Task, Stamp(t) PROVE UnderWay'
  BY <1>13 DEF Stamp, UnderWay, LocalsOK
<1>14. ASSUME NEW t \in Task, Fetch(t) PROVE UnderWay'
  <2>1. /\ pc' = [pc EXCEPT ![t] = "items"] /\ UNCHANGED <<job, copy, id>>
        /\ snap' = [snap EXCEPT ![t] = [ciphers |-> ciphers, folders |-> folders]]
    BY <1>14 DEF Fetch
  <2>2. [ciphers |-> ciphers, folders |-> folders] # None
    BY DEF TypeOK, Reply
  <2>. QED
    BY <1>14, <2>1, <2>2 DEF Fetch, UnderWay, LocalsOK
<1>15. ASSUME NEW t \in Task, FetchFails(t) PROVE UnderWay'
  BY <1>15, AfterSyncUnderWay DEF FetchFails
<1>16. ASSUME NEW t \in Task, StoreItems(t) PROVE UnderWay'
  BY <1>16 DEF StoreItems, UnderWay, LocalsOK
<1>17. ASSUME NEW t \in Task, StoreIndex(t) PROVE UnderWay'
  <2>1. CASE job[t].op = "sync" /\ job[t].http
    BY <1>17, <2>1 DEF StoreIndex, UnderWay, LocalsOK
  <2>2. CASE ~(job[t].op = "sync" /\ job[t].http)
    BY <1>17, <2>2, AfterSyncUnderWay DEF StoreIndex
  <2>. QED
    BY <2>1, <2>2
<1>18. ASSUME NEW t \in Task, Clear(t) PROVE UnderWay'
  BY <1>18, EndUnderWay DEF Clear
<1>19. ASSUME NEW t \in Task, Cancel(t) PROVE UnderWay'
  BY <1>19, EndUnderWay DEF Cancel
<1>20. ASSUME Cooldown PROVE UnderWay'
  BY <1>20 DEF Cooldown, UnderWay, LocalsOK
<1>21. ASSUME Reload PROVE UnderWay'
  BY <1>21 DEF Reload, UnderWay, LocalsOK
<1>22. ASSUME NEW i \in Item, NEW p \in Part, OutsideEdit(i, p) PROVE UnderWay'
  BY <1>22 DEF OutsideEdit, UnderWay, LocalsOK
<1>23. ASSUME NEW f \in Folder, NEW n \in FolderName, OutsideRename(f, n)
      PROVE  UnderWay'
  BY <1>23 DEF OutsideRename, UnderWay, LocalsOK
<1>24. CASE UNCHANGED vars
  BY <1>24 DEF vars, UnderWay
<1>. QED
  BY <1>1, <1>2, <1>3, <1>4, <1>5, <1>6, <1>7, <1>8, <1>9, <1>10, <1>11, <1>12,
     <1>13, <1>14, <1>15, <1>16, <1>17, <1>18, <1>19, <1>20, <1>21, <1>22,
     <1>23, <1>24, NextCases

\* No reply of /api/sync arrives.
NoReply == \A u \in Task : snap'[u] \in {snap[u], None}

\* An operation that returns gets no reply.
LEMMA EndReply ==
  ASSUME LocalsOK, NEW t \in Task, End(t)
  PROVE  NoReply
  BY DEF LocalsOK, End, NoReply

\* Nor does one whose write has succeeded.
LEMMA WrittenReply ==
  ASSUME LocalsOK, NEW t \in Task, Written(t)
  PROVE  NoReply
<1>1. CASE Syncs(job[t])
  BY <1>1 DEF Written, NoReply
<1>2. CASE ~Syncs(job[t])
  BY <1>2, EndReply DEF Written
<1>. QED
  BY <1>1, <1>2

\* Nor one whose sync is over.
LEMMA AfterSyncReply ==
  ASSUME LocalsOK, NEW t \in Task, AfterSync(t)
  PROVE  NoReply
<1>1. CASE LastSync(t)
  BY <1>1, EndReply DEF AfterSync
<1>2. CASE ~LastSync(t)
  BY <1>2 DEF LocalsOK, AfterSync, NoReply
<1>. QED
  BY <1>1, <1>2

\* A reply arrives in Fetch only.
LEMMA Replies == TypeOK /\ [Next]_vars => NoReply \/ \E u \in Task : Fetch(u)
<1> SUFFICES ASSUME LocalsOK, [Next]_vars PROVE NoReply \/ \E u \in Task : Fetch(u)
  BY DEF TypeOK
<1>1. ASSUME NEW t \in Task, NEW j \in Jobs, Begin(t, j)
      PROVE  NoReply \/ \E u \in Task : Fetch(u)
  BY <1>1 DEF Begin, NoReply
<1>2. ASSUME NEW t \in Task, Guard(t) PROVE NoReply \/ \E u \in Task : Fetch(u)
  BY <1>2, EndReply DEF Guard, NoReply
<1>3. ASSUME NEW t \in Task, Scope(t) PROVE NoReply \/ \E u \in Task : Fetch(u)
  BY <1>3, EndReply DEF Scope, NoReply
<1>4. ASSUME NEW t \in Task, Find(t) PROVE NoReply \/ \E u \in Task : Fetch(u)
  BY <1>4, EndReply DEF Find, NoReply
<1>5. ASSUME NEW t \in Task, Read(t) PROVE NoReply \/ \E u \in Task : Fetch(u)
  BY <1>5, EndReply DEF Read, NoReply
<1>6. ASSUME NEW t \in Task, WriteFails(t)
      PROVE  NoReply \/ \E u \in Task : Fetch(u)
  BY <1>6, EndReply DEF WriteFails
<1>7. ASSUME NEW t \in Task, MakeFolder(t)
      PROVE  NoReply \/ \E u \in Task : Fetch(u)
  BY <1>7 DEF MakeFolder, NoReply
<1>8. ASSUME NEW t \in Task, Put(t) PROVE NoReply \/ \E u \in Task : Fetch(u)
  BY <1>8, WrittenReply DEF Put
<1>9. ASSUME NEW t \in Task, Post(t) PROVE NoReply \/ \E u \in Task : Fetch(u)
  BY <1>9, WrittenReply DEF Post
<1>10. ASSUME NEW t \in Task, Delete(t)
      PROVE  NoReply \/ \E u \in Task : Fetch(u)
  BY <1>10, WrittenReply DEF Delete
<1>11. ASSUME NEW t \in Task, RemoveFolder(t)
      PROVE  NoReply \/ \E u \in Task : Fetch(u)
  BY <1>11, WrittenReply DEF RemoveFolder
<1>12. ASSUME NEW t \in Task, Load(t) PROVE NoReply \/ \E u \in Task : Fetch(u)
  BY <1>12, EndReply DEF Load, NoReply
<1>13. ASSUME NEW t \in Task, Stamp(t) PROVE NoReply \/ \E u \in Task : Fetch(u)
  BY <1>13 DEF Stamp, NoReply
<1>14. ASSUME NEW t \in Task, Fetch(t) PROVE NoReply \/ \E u \in Task : Fetch(u)
  BY <1>14
<1>15. ASSUME NEW t \in Task, FetchFails(t)
      PROVE  NoReply \/ \E u \in Task : Fetch(u)
  BY <1>15, AfterSyncReply DEF FetchFails
<1>16. ASSUME NEW t \in Task, StoreItems(t)
      PROVE  NoReply \/ \E u \in Task : Fetch(u)
  BY <1>16 DEF StoreItems, NoReply
<1>17. ASSUME NEW t \in Task, StoreIndex(t)
      PROVE  NoReply \/ \E u \in Task : Fetch(u)
  BY <1>17, AfterSyncReply DEF StoreIndex, NoReply
<1>18. ASSUME NEW t \in Task, Clear(t) PROVE NoReply \/ \E u \in Task : Fetch(u)
  BY <1>18, EndReply DEF Clear
<1>19. ASSUME NEW t \in Task, Cancel(t)
      PROVE  NoReply \/ \E u \in Task : Fetch(u)
  BY <1>19, EndReply DEF Cancel
<1>20. ASSUME Cooldown PROVE NoReply \/ \E u \in Task : Fetch(u)
  BY <1>20 DEF Cooldown, NoReply
<1>21. ASSUME Reload PROVE NoReply \/ \E u \in Task : Fetch(u)
  BY <1>21 DEF Reload, NoReply
<1>22. ASSUME NEW i \in Item, NEW p \in Part, OutsideEdit(i, p)
      PROVE  NoReply \/ \E u \in Task : Fetch(u)
  BY <1>22 DEF OutsideEdit, NoReply
<1>23. ASSUME NEW f \in Folder, NEW n \in FolderName, OutsideRename(f, n)
      PROVE  NoReply \/ \E u \in Task : Fetch(u)
  BY <1>23 DEF OutsideRename, NoReply
<1>24. CASE UNCHANGED vars
  BY <1>24 DEF vars, NoReply
<1>. QED
  BY <1>1, <1>2, <1>3, <1>4, <1>5, <1>6, <1>7, <1>8, <1>9, <1>10, <1>11, <1>12,
     <1>13, <1>14, <1>15, <1>16, <1>17, <1>18, <1>19, <1>20, <1>21, <1>22,
     <1>23, <1>24, NextCases

\* The ids given out grow, and folders get the next one.
LEMMA FolderIds ==
  TypeOK /\ UnderWay /\ FoldersGiven /\ [Next]_vars =>
    /\ made.folders \in Nat /\ made'.folders \in Nat /\ made'.folders >= made.folders
    /\ \A f \in Folder : f > made'.folders => folders'[f] = None
<1> DEFINE Goal == /\ made.folders \in Nat /\ made'.folders \in Nat
                   /\ made'.folders >= made.folders
                   /\ \A f \in Folder : f > made'.folders => folders'[f] = None
<1> SUFFICES ASSUME TypeOK, UnderWay, FoldersGiven, [Next]_vars PROVE Goal
  OBVIOUS
<1>0. made.folders \in Nat /\ \A f \in Folder : f > made.folders => folders[f] = None
  BY DEF TypeOK, FoldersGiven, Folder
<1>a. UNCHANGED <<made, folders>> => Goal
  BY <1>0
<1> HIDE DEF Goal
<1>1. ASSUME NEW t \in Task, NEW j \in Jobs, Begin(t, j) PROVE Goal
  BY <1>1, <1>a DEF Begin
<1>2. ASSUME NEW t \in Task, Guard(t) PROVE Goal
  BY <1>2, <1>a DEF Guard
<1>3. ASSUME NEW t \in Task, Scope(t) PROVE Goal
  BY <1>3, <1>a DEF Scope
<1>4. ASSUME NEW t \in Task, Find(t) PROVE Goal
  BY <1>4, <1>a DEF Find
<1>5. ASSUME NEW t \in Task, Read(t) PROVE Goal
  BY <1>5, <1>a DEF Read
<1>6. ASSUME NEW t \in Task, WriteFails(t) PROVE Goal
  BY <1>6, <1>a DEF WriteFails
<1>7. ASSUME NEW t \in Task, MakeFolder(t) PROVE Goal
  <2>1. made'.folders = made.folders + 1 /\ folders' = [folders EXCEPT ![made.folders + 1] = job[t].fname]
    BY <1>7 DEF MakeFolder, TypeOK
  <2>. QED
    BY <1>0, <2>1 DEF Goal, TypeOK, Folder
<1>8. ASSUME NEW t \in Task, Put(t) PROVE Goal
  BY <1>8, <1>a DEF Put
<1>9. ASSUME NEW t \in Task, Post(t) PROVE Goal
  <2>1. made'.folders = made.folders /\ UNCHANGED folders
    BY <1>9 DEF Post, TypeOK
  <2>. QED
    BY <1>0, <2>1 DEF Goal
<1>10. ASSUME NEW t \in Task, Delete(t) PROVE Goal
  BY <1>10, <1>a DEF Delete
<1>11. ASSUME NEW t \in Task, RemoveFolder(t) PROVE Goal
  <2>1. made' = made /\ folders' = [folders EXCEPT ![job[t].folder] = None]
    BY <1>11 DEF RemoveFolder
  <2>. QED
    BY <1>0, <2>1 DEF Goal, TypeOK, Folder
<1>12. ASSUME NEW t \in Task, Load(t) PROVE Goal
  BY <1>12, <1>a DEF Load
<1>13. ASSUME NEW t \in Task, Stamp(t) PROVE Goal
  BY <1>13, <1>a DEF Stamp
<1>14. ASSUME NEW t \in Task, Fetch(t) PROVE Goal
  BY <1>14, <1>a DEF Fetch
<1>15. ASSUME NEW t \in Task, FetchFails(t) PROVE Goal
  BY <1>15, <1>a DEF FetchFails
<1>16. ASSUME NEW t \in Task, StoreItems(t) PROVE Goal
  BY <1>16, <1>a DEF StoreItems
<1>17. ASSUME NEW t \in Task, StoreIndex(t) PROVE Goal
  BY <1>17, <1>a DEF StoreIndex
<1>18. ASSUME NEW t \in Task, Clear(t) PROVE Goal
  BY <1>18, <1>a DEF Clear
<1>19. ASSUME NEW t \in Task, Cancel(t) PROVE Goal
  BY <1>19, <1>a DEF Cancel
<1>20. ASSUME Cooldown PROVE Goal
  BY <1>20, <1>a DEF Cooldown
<1>21. ASSUME Reload PROVE Goal
  BY <1>21, <1>a DEF Reload
<1>22. ASSUME NEW i \in Item, NEW p \in Part, OutsideEdit(i, p) PROVE Goal
  BY <1>22, <1>a DEF OutsideEdit
<1>23. ASSUME NEW f \in Folder, NEW n \in FolderName, OutsideRename(f, n)
      PROVE  Goal
  <2>1. made' = made /\ folders' = [folders EXCEPT ![f] = n] /\ folders[f] # None
    BY <1>23 DEF OutsideRename
  <2>. QED
    BY <1>0, <2>1 DEF Goal, TypeOK, Folder
<1>24. CASE UNCHANGED vars
  BY <1>24, <1>a DEF vars
<1>. QED
  BY <1>1, <1>2, <1>3, <1>4, <1>5, <1>6, <1>7, <1>8, <1>9, <1>10, <1>11, <1>12,
     <1>13, <1>14, <1>15, <1>16, <1>17, <1>18, <1>19, <1>20, <1>21, <1>22,
     <1>23, <1>24, NextCases

\* A folder index leads to folders of the list it was made from.
LEMMA IndexesLead ==
  ASSUME NEW fs \in [Folder -> Maybe(FolderName)], NEW x \in Indexes(fs)
  PROVE  /\ x \in [FolderName -> Maybe(Folder)]
         /\ \A n \in FolderName : x[n] # None => x[n] \in Folder /\ fs[x[n]] = n
         /\ \A n \in FolderName, f \in Folder : fs[f] = n => x[n] # None
  BY DEF Indexes, Named

\* What every step does to the ids kept for folders.
LEMMA KeptIds ==
  TypeOK /\ UnderWay /\ [Next]_vars =>
    /\ cachedFolder' \in {None, cachedFolder, index[Vault]}
    /\ UNCHANGED index \/ \E t \in Task : StoreIndex(t)
<1> DEFINE Goal == /\ cachedFolder' \in {None, cachedFolder, index[Vault]}
                   /\ UNCHANGED index \/ \E t \in Task : StoreIndex(t)
<1> SUFFICES ASSUME TypeOK, UnderWay, [Next]_vars PROVE Goal
  OBVIOUS
<1>1. ASSUME NEW t \in Task, NEW j \in Jobs, Begin(t, j) PROVE Goal
  BY <1>1 DEF Begin
<1>2. ASSUME NEW t \in Task, Guard(t) PROVE Goal
  BY <1>2 DEF Guard
<1>3. ASSUME NEW t \in Task, Scope(t) PROVE Goal
  BY <1>3 DEF Scope, Resolved
<1>4. ASSUME NEW t \in Task, Find(t) PROVE Goal
  BY <1>4 DEF Find
<1>5. ASSUME NEW t \in Task, Read(t) PROVE Goal
  BY <1>5 DEF Read
<1>6. ASSUME NEW t \in Task, WriteFails(t) PROVE Goal
  BY <1>6 DEF WriteFails
<1>7. ASSUME NEW t \in Task, MakeFolder(t) PROVE Goal
  BY <1>7 DEF MakeFolder
<1>8. ASSUME NEW t \in Task, Put(t) PROVE Goal
  BY <1>8 DEF Put
<1>9. ASSUME NEW t \in Task, Post(t) PROVE Goal
  BY <1>9 DEF Post
<1>10. ASSUME NEW t \in Task, Delete(t) PROVE Goal
  BY <1>10 DEF Delete
<1>11. ASSUME NEW t \in Task, RemoveFolder(t) PROVE Goal
  BY <1>11 DEF RemoveFolder
<1>12. ASSUME NEW t \in Task, Load(t) PROVE Goal
  BY <1>12 DEF Load
<1>13. ASSUME NEW t \in Task, Stamp(t) PROVE Goal
  BY <1>13 DEF Stamp
<1>14. ASSUME NEW t \in Task, Fetch(t) PROVE Goal
  BY <1>14 DEF Fetch
<1>15. ASSUME NEW t \in Task, FetchFails(t) PROVE Goal
  BY <1>15 DEF FetchFails
<1>16. ASSUME NEW t \in Task, StoreItems(t) PROVE Goal
  BY <1>16 DEF StoreItems
<1>17. ASSUME NEW t \in Task, StoreIndex(t) PROVE Goal
  BY <1>17 DEF StoreIndex
<1>18. ASSUME NEW t \in Task, Clear(t) PROVE Goal
  BY <1>18 DEF Clear
<1>19. ASSUME NEW t \in Task, Cancel(t) PROVE Goal
  BY <1>19 DEF Cancel
<1>20. ASSUME Cooldown PROVE Goal
  BY <1>20 DEF Cooldown
<1>21. ASSUME Reload PROVE Goal
  BY <1>21 DEF Reload
<1>22. ASSUME NEW i \in Item, NEW p \in Part, OutsideEdit(i, p) PROVE Goal
  BY <1>22 DEF OutsideEdit
<1>23. ASSUME NEW f \in Folder, NEW n \in FolderName, OutsideRename(f, n)
      PROVE  Goal
  BY <1>23 DEF OutsideRename
<1>24. CASE UNCHANGED vars
  BY <1>24 DEF vars
<1>. QED
  BY <1>1, <1>2, <1>3, <1>4, <1>5, <1>6, <1>7, <1>8, <1>9, <1>10, <1>11, <1>12,
     <1>13, <1>14, <1>15, <1>16, <1>17, <1>18, <1>19, <1>20, <1>21, <1>22,
     <1>23, <1>24, NextCases

\* Ids kept for folders are ids that were given out.
LEMMA FoldersGivenStep == TypeOK /\ UnderWay /\ FoldersGiven /\ [Next]_vars => FoldersGiven'
<1> SUFFICES ASSUME TypeOK, UnderWay, FoldersGiven, [Next]_vars PROVE FoldersGiven'
  OBVIOUS
<1>1. /\ made.folders \in Nat /\ made'.folders \in Nat /\ made'.folders >= made.folders
      /\ \A f \in Folder : f > made'.folders => folders'[f] = None
  BY FolderIds
<1>2. \A t \in Task : snap'[t] # None =>
        \A f \in Folder : f > made'.folders => snap'[t].folders[f] = None
  <2>1. CASE NoReply
    BY <1>1, <2>1 DEF NoReply, FoldersGiven, Folder
  <2>2. ASSUME NEW t \in Task, Fetch(t)
        PROVE  \A u \in Task : snap'[u] # None =>
                 \A f \in Folder : f > made'.folders => snap'[u].folders[f] = None
    <3>1. snap' = [snap EXCEPT ![t] = [ciphers |-> ciphers, folders |-> folders]]
      BY <2>2 DEF Fetch
    <3>2. UNCHANGED <<folders, made>>
      BY <2>2 DEF Fetch
    <3>. QED
      BY <1>1, <3>1, <3>2 DEF FoldersGiven, TypeOK, LocalsOK
  <2>. QED
    BY <2>1, <2>2, Replies
<1>3. \A n \in FolderName : index'[n] # None => index'[n] <= made'.folders
  <2>1. CASE UNCHANGED index
    BY <1>1, <2>1 DEF FoldersGiven, TypeOK, Folder
  <2>2. ASSUME NEW t \in Task, StoreIndex(t)
        PROVE  \A n \in FolderName : index'[n] # None => index'[n] <= made'.folders
    <3>1. index' \in Indexes(snap[t].folders) /\ UNCHANGED made
      BY <2>2 DEF StoreIndex
    <3>2. snap[t] # None /\ snap[t].folders \in [Folder -> Maybe(FolderName)]
      BY <2>2 DEF StoreIndex, UnderWay, TypeOK, LocalsOK, Reply
    <3>3. \A n \in FolderName : index'[n] # None => index'[n] \in Folder /\ snap[t].folders[index'[n]] = n
      BY <3>1, <3>2, IndexesLead
    <3>4. \A f \in Folder : f > made.folders => snap[t].folders[f] = None
      BY <3>2 DEF FoldersGiven
    <3>. QED
      BY <1>1, <3>1, <3>3, <3>4 DEF Folder
  <2>. QED
    BY <2>1, <2>2, KeptIds
<1>4. cachedFolder' # None => cachedFolder' <= made'.folders
  BY <1>1, KeptIds DEF FoldersGiven, TypeOK, Folder
<1>. QED
  BY <1>1, <1>2, <1>3, <1>4 DEF FoldersGiven

\* A folder that is there stays there, unless it has no ciphers.
LEMMA ThereStep ==
  ASSUME NEW f \in Maybe(Folder), FolderThere(f),
         \A g \in Folder : folders[g] # None /\ folders'[g] = None => f # g
  PROVE  FolderThere(f)'
  BY DEF FolderThere

\* Ciphers have ids that were given out and folders that are there.
LEMMA CiphersGivenStep == TypeOK /\ UnderWay /\ IdsGiven /\ [Next]_vars => CiphersGiven'
<1> SUFFICES ASSUME TypeOK, UnderWay, IdsGiven, [Next]_vars PROVE CiphersGiven'
  OBVIOUS
<1>a. ASSUME UNCHANGED <<ciphers, intended, made, folders>> PROVE CiphersGiven'
  BY <1>a DEF IdsGiven, CiphersGiven, FolderThere
<1>b. made.items \in Nat /\ \A i \in Item : ciphers[i] # None =>
        ciphers[i] \in Cipher /\ ciphers[i].folder \in Maybe(Folder)
  BY DEF TypeOK, Item, Cipher
<1>c. ASSUME UNCHANGED <<ciphers, intended>>, made'.items = made.items,
             \A i \in Item : ciphers[i] # None => FolderThere(ciphers[i].folder)'
      PROVE  CiphersGiven'
  BY <1>c DEF IdsGiven, CiphersGiven
<1>1. ASSUME NEW t \in Task, NEW j \in Jobs, Begin(t, j) PROVE CiphersGiven'
  BY <1>1, <1>a DEF Begin
<1>2. ASSUME NEW t \in Task, Guard(t) PROVE CiphersGiven'
  BY <1>2, <1>a DEF Guard
<1>3. ASSUME NEW t \in Task, Scope(t) PROVE CiphersGiven'
  BY <1>3, <1>a DEF Scope
<1>4. ASSUME NEW t \in Task, Find(t) PROVE CiphersGiven'
  BY <1>4, <1>a DEF Find
<1>5. ASSUME NEW t \in Task, Read(t) PROVE CiphersGiven'
  BY <1>5, <1>a DEF Read
<1>6. ASSUME NEW t \in Task, WriteFails(t) PROVE CiphersGiven'
  BY <1>6, <1>a DEF WriteFails
<1>7. ASSUME NEW t \in Task, MakeFolder(t) PROVE CiphersGiven'
  <2>1. made'.items = made.items /\ UNCHANGED <<ciphers, intended>>
        /\ made.folders + 1 \in Folder /\ folders' = [folders EXCEPT ![made.folders + 1] = job[t].fname]
    BY <1>7 DEF MakeFolder, TypeOK, Accepts, Folder
  <2>2. job[t].fname # None
    BY <1>7, JobTypes DEF MakeFolder, UnderWay
  <2>3. \A g \in Folder : folders[g] # None => folders'[g] # None
    BY <2>1, <2>2 DEF TypeOK
  <2>. QED
    BY <1>b, <1>c, <2>1, <2>3, ThereStep DEF IdsGiven, CiphersGiven
<1>8. ASSUME NEW t \in Task, Put(t) PROVE CiphersGiven'
  <2>1. /\ pc[t] = "write" /\ IsPut(t) /\ Accepts(t) /\ UNCHANGED <<folders, made>>
        /\ ciphers' = [ciphers EXCEPT ![id[t]] = Edited(t, copy[t])]
        /\ intended' = [intended EXCEPT ![id[t]] = Edited(t, intended[id[t]])]
    BY <1>8 DEF Put
  <2>2. ciphers[id[t]] # None /\ FolderThere(Edited(t, copy[t]).folder)
    BY <2>1 DEF Accepts
  <2>3. id[t] \in Item /\ copy[t] \in Cipher
    BY <2>1 DEF IsPut, UnderWay, TypeOK, LocalsOK
  <2>4. intended[id[t]] \in Cipher
    BY <2>2, <2>3 DEF IdsGiven, CiphersGiven, TypeOK
  <2>5. Edited(t, copy[t]) # None /\ Edited(t, intended[id[t]]) # None
    BY <2>1, <2>3, <2>4, EditedCipher
  <2>. QED
    BY <2>1, <2>2, <2>3, <2>5 DEF IdsGiven, CiphersGiven, TypeOK, FolderThere
<1>9. ASSUME NEW t \in Task, Post(t) PROVE CiphersGiven'
  <2> DEFINE new == [name   |-> job[t].name,
                     folder |-> Target(t),
                     secret |-> IF job[t].op = "clone" THEN copy[t].secret
                                ELSE [p \in Part |-> writes + 1]]
  <2>1. /\ made' = [made EXCEPT !.items = made.items + 1]
        /\ ciphers' = [ciphers EXCEPT ![made.items + 1] = new]
        /\ intended' = [intended EXCEPT ![made.items + 1] = new]
        /\ UNCHANGED folders
        /\ pc[t] = "write" /\ IsPost(t) /\ Accepts(t)
    BY <1>9 DEF Post
  <2>2. job[t].name \in Name /\ Target(t) \in Maybe(Folder)
    BY <2>1, JobTypes, TargetFolder DEF IsPost
  <2>3. job[t].op = "clone" => copy[t] \in Cipher
    BY <2>1, JobTypes DEF UnderWay, TypeOK, LocalsOK
  <2>4. new \in Cipher /\ new.folder = Target(t)
    BY <2>2, <2>3 DEF Cipher, TypeOK
  <2>5. made.items < MaxItems /\ FolderThere(new.folder)
    BY <2>1, <2>4 DEF Accepts
  <2>6. made'.items = made.items + 1
    BY <2>1 DEF TypeOK
  <2> HIDE DEF new
  <2>. QED
    BY <1>b, <2>1, <2>4, <2>5, <2>6 DEF IdsGiven, CiphersGiven, TypeOK,
       FolderThere, Item
<1>10. ASSUME NEW t \in Task, Delete(t) PROVE CiphersGiven'
  <2>1. /\ ciphers' = [ciphers EXCEPT ![job[t].item] = None]
        /\ intended' = [intended EXCEPT ![job[t].item] = None] /\ UNCHANGED <<folders, made>>
    BY <1>10 DEF Delete
  <2>. QED
    BY <2>1 DEF IdsGiven, CiphersGiven, TypeOK, FolderThere
<1>11. ASSUME NEW t \in Task, RemoveFolder(t) PROVE CiphersGiven'
  <2>1. /\ UNCHANGED <<ciphers, intended, made>> /\ folders' = [folders EXCEPT ![job[t].folder] = None]
        /\ job[t].op = "rmdir" /\ pc[t] = "write" /\ Accepts(t)
    BY <1>11 DEF RemoveFolder
  <2>2. \A i \in Item : ciphers[i] # None => ciphers[i].folder # job[t].folder
    BY <2>1 DEF Accepts
  <2>3. \A g \in Folder : folders[g] # None /\ folders'[g] = None => g = job[t].folder
    BY <2>1 DEF TypeOK
  <2>. QED
    BY <1>b, <1>c, <2>1, <2>2, <2>3, ThereStep DEF IdsGiven, CiphersGiven
<1>12. ASSUME NEW t \in Task, Load(t) PROVE CiphersGiven'
  BY <1>12, <1>a DEF Load
<1>13. ASSUME NEW t \in Task, Stamp(t) PROVE CiphersGiven'
  BY <1>13, <1>a DEF Stamp
<1>14. ASSUME NEW t \in Task, Fetch(t) PROVE CiphersGiven'
  BY <1>14, <1>a DEF Fetch
<1>15. ASSUME NEW t \in Task, FetchFails(t) PROVE CiphersGiven'
  BY <1>15, <1>a DEF FetchFails
<1>16. ASSUME NEW t \in Task, StoreItems(t) PROVE CiphersGiven'
  BY <1>16, <1>a DEF StoreItems
<1>17. ASSUME NEW t \in Task, StoreIndex(t) PROVE CiphersGiven'
  BY <1>17, <1>a DEF StoreIndex
<1>18. ASSUME NEW t \in Task, Clear(t) PROVE CiphersGiven'
  BY <1>18, <1>a DEF Clear
<1>19. ASSUME NEW t \in Task, Cancel(t) PROVE CiphersGiven'
  BY <1>19, <1>a DEF Cancel
<1>20. ASSUME Cooldown PROVE CiphersGiven'
  BY <1>20, <1>a DEF Cooldown
<1>21. ASSUME Reload PROVE CiphersGiven'
  BY <1>21, <1>a DEF Reload
<1>22. ASSUME NEW i \in Item, NEW p \in Part, OutsideEdit(i, p)
      PROVE  CiphersGiven'
  <2>1. /\ ciphers[i] # None /\ UNCHANGED <<folders, made>>
        /\ ciphers' = [ciphers EXCEPT ![i].secret[p] = writes + 1]
        /\ intended' = [intended EXCEPT ![i].secret[p] = writes + 1]
    BY <1>22 DEF OutsideEdit
  <2>2. ciphers[i] \in Cipher /\ intended[i] \in Cipher /\ writes + 1 \in Nat
    BY <2>1 DEF TypeOK, IdsGiven, CiphersGiven
  <2>3. \A c \in Cipher : /\ [c EXCEPT !.secret[p] = writes + 1] # None
                          /\ [c EXCEPT !.secret[p] = writes + 1].folder = c.folder
    <3>1. \A c \in Cipher : [c EXCEPT !.secret[p] = writes + 1] \in Cipher
      BY <2>2 DEF Cipher
    <3>2. \A c \in Cipher : [c EXCEPT !.secret[p] = writes + 1].folder = c.folder
      BY DEF Cipher
    <3>. QED
      BY <3>1, <3>2
  <2>. QED
    BY <2>1, <2>2, <2>3 DEF IdsGiven, CiphersGiven, TypeOK, FolderThere
<1>23. ASSUME NEW f \in Folder, NEW n \in FolderName, OutsideRename(f, n)
      PROVE  CiphersGiven'
  <2>1. UNCHANGED <<ciphers, intended, made>> /\ folders' = [folders EXCEPT ![f] = n]
    BY <1>23 DEF OutsideRename
  <2>2. \A g \in Folder : folders[g] # None => folders'[g] # None
    BY <2>1 DEF TypeOK
  <2>. QED
    BY <1>b, <1>c, <2>1, <2>2, ThereStep DEF IdsGiven, CiphersGiven
<1>24. CASE UNCHANGED vars
  BY <1>24, <1>a DEF vars
<1>. QED
  BY <1>1, <1>2, <1>3, <1>4, <1>5, <1>6, <1>7, <1>8, <1>9, <1>10, <1>11, <1>12,
     <1>13, <1>14, <1>15, <1>16, <1>17, <1>18, <1>19, <1>20, <1>21, <1>22,
     <1>23, <1>24, NextCases

\* Every step keeps the ids in order.
LEMMA IdsGivenStep == TypeOK /\ UnderWay /\ IdsGiven /\ [Next]_vars => IdsGiven'
  BY CiphersGivenStep, FoldersGivenStep DEF IdsGiven

\* As long as nobody renames it, no step gives the proxy's folder, or another
\* folder of its name, another name.
LEMMA VaultStep ==
  TypeOK /\ UnderWay /\ IdsGiven /\ VaultFound /\ [Next]_vars =>
    /\ ~renamed' => folders'[1] \in {Vault, None}
    /\ VaultKept' => VaultKept
    /\ VaultKept' => \A x \in Folder :
         folders[x] \in {Vault, None} /\ x <= made.folders => folders'[x] \in {Vault, None}
<1> DEFINE Goal ==
      /\ ~renamed' => folders'[1] \in {Vault, None}
      /\ VaultKept' => VaultKept
      /\ VaultKept' => \A x \in Folder :
           folders[x] \in {Vault, None} /\ x <= made.folders => folders'[x] \in {Vault, None}
<1> SUFFICES ASSUME TypeOK, UnderWay, IdsGiven, VaultFound, [Next]_vars PROVE Goal
  OBVIOUS
<1>a. UNCHANGED <<folders, renamed>> => Goal
  BY DEF VaultFound, VaultKept
<1> HIDE DEF Goal
<1>1. ASSUME NEW t \in Task, NEW j \in Jobs, Begin(t, j) PROVE Goal
  BY <1>1, <1>a DEF Begin
<1>2. ASSUME NEW t \in Task, Guard(t) PROVE Goal
  BY <1>2, <1>a DEF Guard
<1>3. ASSUME NEW t \in Task, Scope(t) PROVE Goal
  BY <1>3, <1>a DEF Scope
<1>4. ASSUME NEW t \in Task, Find(t) PROVE Goal
  BY <1>4, <1>a DEF Find
<1>5. ASSUME NEW t \in Task, Read(t) PROVE Goal
  BY <1>5, <1>a DEF Read
<1>6. ASSUME NEW t \in Task, WriteFails(t) PROVE Goal
  BY <1>6, <1>a DEF WriteFails
<1>7. ASSUME NEW t \in Task, MakeFolder(t) PROVE Goal
  <2>1. /\ UNCHANGED renamed /\ folders' = [folders EXCEPT ![made.folders + 1] = job[t].fname]
        /\ made.folders \in 1..MaxFolders
    BY <1>7 DEF MakeFolder, TypeOK, Folder
  <2>. QED
    BY <2>1 DEF Goal, VaultFound, VaultKept, TypeOK, Folder
<1>8. ASSUME NEW t \in Task, Put(t) PROVE Goal
  BY <1>8, <1>a DEF Put
<1>9. ASSUME NEW t \in Task, Post(t) PROVE Goal
  BY <1>9, <1>a DEF Post
<1>10. ASSUME NEW t \in Task, Delete(t) PROVE Goal
  BY <1>10, <1>a DEF Delete
<1>11. ASSUME NEW t \in Task, RemoveFolder(t) PROVE Goal
  <2>1. UNCHANGED renamed /\ folders' = [folders EXCEPT ![job[t].folder] = None]
    BY <1>11 DEF RemoveFolder
  <2>. QED
    BY <2>1 DEF Goal, VaultFound, VaultKept, TypeOK
<1>12. ASSUME NEW t \in Task, Load(t) PROVE Goal
  BY <1>12, <1>a DEF Load
<1>13. ASSUME NEW t \in Task, Stamp(t) PROVE Goal
  BY <1>13, <1>a DEF Stamp
<1>14. ASSUME NEW t \in Task, Fetch(t) PROVE Goal
  BY <1>14, <1>a DEF Fetch
<1>15. ASSUME NEW t \in Task, FetchFails(t) PROVE Goal
  BY <1>15, <1>a DEF FetchFails
<1>16. ASSUME NEW t \in Task, StoreItems(t) PROVE Goal
  BY <1>16, <1>a DEF StoreItems
<1>17. ASSUME NEW t \in Task, StoreIndex(t) PROVE Goal
  BY <1>17, <1>a DEF StoreIndex
<1>18. ASSUME NEW t \in Task, Clear(t) PROVE Goal
  BY <1>18, <1>a DEF Clear
<1>19. ASSUME NEW t \in Task, Cancel(t) PROVE Goal
  BY <1>19, <1>a DEF Cancel
<1>20. ASSUME Cooldown PROVE Goal
  BY <1>20, <1>a DEF Cooldown
<1>21. ASSUME Reload PROVE Goal
  BY <1>21, <1>a DEF Reload
<1>22. ASSUME NEW i \in Item, NEW p \in Part, OutsideEdit(i, p) PROVE Goal
  BY <1>22, <1>a DEF OutsideEdit
<1>23. ASSUME NEW f \in Folder, NEW n \in FolderName, OutsideRename(f, n)
      PROVE  Goal
  <2>1. /\ folders' = [folders EXCEPT ![f] = n] /\ folders[f] \notin {None, n}
        /\ renamed' = (renamed \/ folders[f] = Vault)
    BY <1>23 DEF OutsideRename
  <2>2. CASE renamed'
    BY <2>2 DEF Goal, VaultKept
  <2>3. CASE ~renamed'
    <3>1. ~renamed /\ folders[f] # Vault
      BY <2>1, <2>3
    <3>. QED
      BY <2>1, <3>1 DEF Goal, VaultFound, VaultKept, TypeOK
  <2>. QED
    BY <2>2, <2>3
<1>24. CASE UNCHANGED vars
  BY <1>24, <1>a DEF vars
<1>. QED
  BY <1>1, <1>2, <1>3, <1>4, <1>5, <1>6, <1>7, <1>8, <1>9, <1>10, <1>11, <1>12,
     <1>13, <1>14, <1>15, <1>16, <1>17, <1>18, <1>19, <1>20, <1>21, <1>22,
     <1>23, <1>24, NextCases

\* The ids kept for the proxy's folder stay good.
LEMMA VaultFoundStep ==
  TypeOK /\ UnderWay /\ IdsGiven /\ VaultFound /\ [Next]_vars => VaultFound'
<1> SUFFICES ASSUME TypeOK, UnderWay, IdsGiven, VaultFound, [Next]_vars PROVE VaultFound'
  OBVIOUS
<1>1. ~renamed' => folders'[1] \in {Vault, None}
  BY VaultStep
<1>2. SUFFICES ASSUME VaultKept'
      PROVE  /\ index'[Vault] # None /\ folders'[index'[Vault]] \in {Vault, None}
             /\ cachedFolder' # None => folders'[cachedFolder'] \in {Vault, None}
             /\ \A t \in Task : snap'[t] # None =>
                  /\ snap'[t].folders[1] = Vault
                  /\ \A f \in Folder : snap'[t].folders[f] = Vault => folders'[f] \in {Vault, None}
  BY <1>1 DEF VaultFound
<1>3. VaultKept /\ \A x \in Folder :
        folders[x] \in {Vault, None} /\ x <= made.folders => folders'[x] \in {Vault, None}
  BY <1>2, VaultStep
<1>4. /\ index[Vault] \in Folder /\ folders'[index[Vault]] \in {Vault, None}
      /\ cachedFolder # None => folders'[cachedFolder] \in {Vault, None}
  BY <1>3 DEF VaultFound, IdsGiven, FoldersGiven, TypeOK
<1>5. \A t \in Task : snap[t] # None =>
        /\ snap[t].folders \in [Folder -> Maybe(FolderName)] /\ snap[t].folders[1] = Vault
        /\ \A f \in Folder : snap[t].folders[f] = Vault => folders'[f] \in {Vault, None}
  <2> SUFFICES ASSUME NEW t \in Task, snap[t] # None
      PROVE  /\ snap[t].folders \in [Folder -> Maybe(FolderName)] /\ snap[t].folders[1] = Vault
             /\ \A f \in Folder : snap[t].folders[f] = Vault => folders'[f] \in {Vault, None}
    OBVIOUS
  <2>1. snap[t].folders \in [Folder -> Maybe(FolderName)]
    BY DEF TypeOK, LocalsOK, Reply
  <2>2. snap[t].folders[1] = Vault
    BY <1>3 DEF VaultFound
  <2>3. ASSUME NEW f \in Folder, snap[t].folders[f] = Vault PROVE folders'[f] \in {Vault, None}
    <3>1. folders[f] \in {Vault, None}
      BY <1>3, <2>3 DEF VaultFound
    <3>2. ~(f > made.folders)
      BY <2>3 DEF IdsGiven, FoldersGiven
    <3>3. f \in Nat /\ made.folders \in Nat
      BY DEF TypeOK, Folder
    <3>. QED
      BY <1>3, <3>1, <3>2, <3>3
  <2>. QED
    BY <2>1, <2>2, <2>3
<1>6. index'[Vault] # None /\ folders'[index'[Vault]] \in {Vault, None}
  <2>1. CASE UNCHANGED index
    BY <1>4, <2>1
  <2>2. ASSUME NEW t \in Task, StoreIndex(t)
        PROVE  index'[Vault] # None /\ folders'[index'[Vault]] \in {Vault, None}
    <3>1. snap[t] # None /\ index' \in Indexes(snap[t].folders)
      BY <2>2 DEF StoreIndex, UnderWay
    <3>2. index'[Vault] # None /\ (index'[Vault] \in Folder /\ snap[t].folders[index'[Vault]] = Vault)
      BY <1>5, <3>1, IndexesLead
    <3>. QED
      BY <1>5, <3>1, <3>2
  <2>. QED
    BY <2>1, <2>2, KeptIds
<1>7. cachedFolder' # None => folders'[cachedFolder'] \in {Vault, None}
  BY <1>4, KeptIds
<1>8. ASSUME NEW t \in Task, snap'[t] # None
      PROVE  /\ snap'[t].folders[1] = Vault
             /\ \A f \in Folder : snap'[t].folders[f] = Vault => folders'[f] \in {Vault, None}
  <2>1. CASE NoReply
    BY <1>5, <1>8, <2>1 DEF NoReply
  <2>2. ASSUME NEW u \in Task, Fetch(u)
        PROVE  /\ snap'[t].folders[1] = Vault
               /\ \A f \in Folder : snap'[t].folders[f] = Vault => folders'[f] \in {Vault, None}
    <3>1. UNCHANGED folders /\ snap' = [snap EXCEPT ![u] = [ciphers |-> ciphers, folders |-> folders]]
      BY <2>2 DEF Fetch
    <3>2. CASE t = u
      BY <1>3, <3>1, <3>2 DEF VaultKept, TypeOK, LocalsOK
    <3>3. CASE t # u
      BY <1>5, <1>8, <3>1, <3>3 DEF TypeOK, LocalsOK
    <3>. QED
      BY <3>2, <3>3
  <2>. QED
    BY <2>1, <2>2, Replies
<1>. QED
  BY <1>6, <1>7, <1>8

\* One operation at a time, each with a sync after its write. Nothing in the code
\* provides this: it is the condition of the two lemmas at the end.
OneAtATime ==
  /\ \A t, u \in Task : t = u
  /\ \A j \in Jobs : Syncs(j)

\* What ReadCurrent says of an operation.
KnowsCurrent(t) ==
  /\ pc[t] \in {"items", "index"} => snap[t].ciphers = ciphers /\ snap[t].folders = folders
  /\ pc[t] \notin {"fetch", "items"} => items = ciphers
  /\ pc[t] \notin {"fetch", "items", "index"} => index \in Indexes(folders)
  /\ pc[t] \in {"scope", "write"} /\ id[t] # None => copy[t] = ciphers[id[t]]
  /\ pc[t] = "mkdir" => index[job[t].fname] = None
  /\ VaultKept /\ Checked(t) /\ job[t].http
       /\ job[t].op \in {"update", "delete", "move", "file"}
       /\ ciphers[job[t].item] # None
     => ciphers[job[t].item].folder \in Named(folders, Vault)

\* ReadCurrent, operation by operation.
LEMMA ReadCurrentParts ==
  /\ ReadCurrent <=> \A t \in Task : ~behind => KnowsCurrent(t)
  /\ ReadCurrent' <=> \A t \in Task : ~behind' => KnowsCurrent(t)'
  BY DEF ReadCurrent, KnowsCurrent

\* An operation that is over knows what the caches have.
LEMMA EndCurrent ==
  ASSUME LocalsOK, NEW t \in Task, End(t), UNCHANGED <<ciphers, folders, items, index>>,
         items = ciphers, index \in Indexes(folders)
  PROVE  KnowsCurrent(t)'
<1>1. pc'[t] = "idle"
  BY DEF End, LocalsOK
<1>. QED
  BY <1>1 DEF KnowsCurrent, Checked

\* A write that is followed by a sync leaves nothing to be known.
LEMMA WrittenCurrent ==
  ASSUME LocalsOK, NEW t \in Task, Syncs(job[t]), Written(t), LastSync(t)
  PROVE  KnowsCurrent(t)'
<1>1. pc'[t] = "fetch" /\ UNCHANGED <<job, copy>>
  BY DEF Written, LocalsOK
<1>. QED
  BY <1>1 DEF KnowsCurrent, Checked, LastSync

\* The check of the folder is about the cipher that Vaultwarden has.
LEMMA ScopeChecks ==
  ASSUME TypeOK, UnderWay, IdsGiven, VaultFound, NEW t \in Task, KnowsCurrent(t),
         pc[t] = "scope", ~Refused(t), VaultKept, job[t].op \in {"update", "delete", "move", "file"}
  PROVE  ciphers[job[t].item].folder \in Named(folders, Vault)
<1>1. job[t].item \in Item /\ id[t] = job[t].item
  BY JobTypes DEF UnderWay
<1>2. copy[t] = ciphers[id[t]] /\ copy[t] # None
  BY <1>1 DEF KnowsCurrent, UnderWay
<1>3. Resolved \in Folder /\ folders[Resolved] \in {Vault, None}
  BY DEF Resolved, VaultFound, TypeOK
<1>4. copy[t].folder = Resolved
  BY <1>3 DEF Refused
<1>5. FolderThere(Resolved)
  BY <1>1, <1>2, <1>4 DEF IdsGiven, CiphersGiven
<1>6. folders[Resolved] = Vault
  BY <1>3, <1>5 DEF FolderThere
<1>. QED
  BY <1>1, <1>2, <1>3, <1>4, <1>6 DEF Named

\* One operation at a time knows Vaultwarden as it is.
LEMMA ReadCurrentStep ==
  ASSUME OneAtATime
  PROVE  TypeOK /\ UnderWay /\ IdsGiven /\ VaultFound /\ ReadCurrent /\ [Next]_vars
         => ReadCurrent'
<1> SUFFICES ASSUME TypeOK, UnderWay, IdsGiven, VaultFound, ReadCurrent, [Next]_vars
    PROVE  ReadCurrent'
  OBVIOUS
<1>a. SUFFICES ASSUME ~behind', NEW u \in Task PROVE KnowsCurrent(u)'
  BY ReadCurrentParts
<1>b. LocalsOK /\ \A t \in Task : t = u
  BY DEF OneAtATime, TypeOK
<1>c. ~behind => \A t \in Task : KnowsCurrent(t)
  BY ReadCurrentParts
<1>d. \A t \in Task : pc[t] # "idle" => Syncs(job[t])
  BY DEF UnderWay, OneAtATime
<1>e. \A t \in Task : /\ ~behind => KnowsCurrent(t)
                      /\ KnowsCurrent(t)' => KnowsCurrent(u)'
  BY <1>b, <1>c
<1>1. ASSUME NEW t \in Task, NEW j \in Jobs, Begin(t, j) PROVE KnowsCurrent(u)'
  <2>1. /\ pc' = [pc EXCEPT ![t] = pc'[t]] /\ job' = [job EXCEPT ![t] = j] /\ pc[t] = "idle"
        /\ UNCHANGED <<ciphers, folders, items, index, copy, id, snap, behind>>
    BY <1>1, <1>b DEF Begin, LocalsOK
  <2>2. ~behind /\ KnowsCurrent(t) /\ id'[t] = None /\ job'[t] = j
    BY <1>a, <1>b, <1>e, <2>1 DEF UnderWay, LocalsOK
  <2>3. items' = ciphers' /\ index' \in Indexes(folders')
    BY <2>1, <2>2 DEF KnowsCurrent
  <2>4. /\ pc'[t] \notin {"items", "index", "mkdir", "idle"}
        /\ Checked(t)' /\ j.op \in {"update", "delete", "move", "file"} => ~j.http
    <3>1. pc'[t] = IF ~j.http THEN Core(j)
                   ELSE IF j.op = "sync" THEN "load"
                   ELSE IF j.op \in {"create", "rmdir"} THEN "scope" ELSE "guard"
      BY <1>1, <1>b DEF Begin, LocalsOK
    <3>2. Core(j) \in {"find", "write", "fetch", "read"}
      BY DEF Core
    <3>. QED
      BY <3>1, <3>2 DEF Checked
  <2>5. KnowsCurrent(t)'
    BY <2>2, <2>3, <2>4 DEF KnowsCurrent
  <2>. QED
    BY <1>e, <2>5
<1>2. ASSUME NEW t \in Task, Guard(t) PROVE KnowsCurrent(u)'
  <2>1. ~behind /\ KnowsCurrent(t) /\ pc[t] = "guard"
        /\ UNCHANGED <<ciphers, folders, items, index>>
    BY <1>2, <1>a, <1>e DEF Guard
  <2>2. items = ciphers /\ index \in Indexes(folders)
    BY <2>1 DEF KnowsCurrent
  <2>3. CASE End(t)
    BY <1>b, <1>e, <2>1, <2>2, <2>3, EndCurrent
  <2>4. CASE ~End(t)
    <3>1. pc'[t] = "scope" /\ id'[t] = job[t].item /\ copy'[t] = items[job[t].item]
      BY <1>2, <1>b, <2>4 DEF Guard, LocalsOK
    <3>2. KnowsCurrent(t)'
      BY <2>1, <2>2, <3>1 DEF KnowsCurrent, Checked
    <3>. QED
      BY <1>e, <3>2
  <2>. QED
    BY <2>3, <2>4
<1>3. ASSUME NEW t \in Task, Scope(t) PROVE KnowsCurrent(u)'
  <2>1. ~behind /\ KnowsCurrent(t) /\ pc[t] = "scope"
        /\ UNCHANGED <<ciphers, folders, items, index, renamed>>
    BY <1>3, <1>a, <1>e DEF Scope
  <2>2. items = ciphers /\ index \in Indexes(folders)
    BY <2>1 DEF KnowsCurrent
  <2>3. CASE Refused(t)
    BY <1>3, <1>b, <1>e, <2>1, <2>2, <2>3, EndCurrent DEF Scope
  <2>4. CASE ~Refused(t)
    <3>1. /\ job' = job
          /\ \/ pc'[t] = "write" /\ UNCHANGED <<copy, id>>
             \/ pc'[t] = Core(job[t]) /\ id'[t] = None
      BY <1>3, <1>b, <2>4 DEF Scope, LocalsOK
    <3>2. Core(job[t]) \in {"find", "write", "fetch", "read"}
      BY DEF Core
    <3>3. VaultKept /\ job[t].op \in {"update", "delete", "move", "file"}
            => ciphers[job[t].item].folder \in Named(folders, Vault)
      BY <2>1, <2>4, ScopeChecks
    <3>4. KnowsCurrent(t)'
      BY <2>1, <2>2, <3>1, <3>2, <3>3 DEF KnowsCurrent, VaultKept, Named
    <3>. QED
      BY <1>e, <3>4
  <2>. QED
    BY <2>3, <2>4
<1>4. ASSUME NEW t \in Task, Find(t) PROVE KnowsCurrent(u)'
  <2>1. ~behind /\ KnowsCurrent(t) /\ pc[t] = "find"
        /\ UNCHANGED <<ciphers, folders, items, index, renamed>>
    BY <1>4, <1>a, <1>e DEF Find
  <2>2. items = ciphers /\ index \in Indexes(folders)
    BY <2>1 DEF KnowsCurrent
  <2>3. CASE End(t)
    BY <1>b, <1>e, <2>1, <2>2, <2>3, EndCurrent
  <2>4. CASE ~End(t)
    <3>1. /\ UNCHANGED <<job, id, copy>>
          /\ pc'[t] = IF index[FolderSought(job[t])] = None THEN "mkdir" ELSE "read"
          /\ ~(index[FolderSought(job[t])] = None /\ job[t].op = "upsert")
      BY <1>4, <1>b, <2>4 DEF Find, LocalsOK
    <3>2. pc'[t] = "mkdir" => index[job[t].fname] = None
      BY <3>1 DEF FolderSought
    <3>3. KnowsCurrent(t)'
      BY <2>1, <2>2, <3>1, <3>2 DEF KnowsCurrent, VaultKept, Named, Checked
    <3>. QED
      BY <1>e, <3>3
  <2>. QED
    BY <2>3, <2>4
<1>5. ASSUME NEW t \in Task, Read(t) PROVE KnowsCurrent(u)'
  <2>1. ~behind /\ KnowsCurrent(t) /\ pc[t] = "read" /\ id[t] = None
        /\ UNCHANGED <<ciphers, folders, items, index, renamed>>
    BY <1>5, <1>a, <1>e DEF Read, UnderWay
  <2>2. items = ciphers /\ index \in Indexes(folders)
    BY <2>1 DEF KnowsCurrent
  <2>3. CASE End(t)
    BY <1>b, <1>e, <2>1, <2>2, <2>3, EndCurrent
  <2>4. CASE ~End(t)
    <3>1. /\ UNCHANGED job /\ pc'[t] = "write"
          /\ id'[t] # None => copy'[t] = items[id'[t]]
      BY <1>5, <1>b, <2>1, <2>4 DEF Read, LocalsOK
    <3>2. KnowsCurrent(t)'
      BY <2>1, <2>2, <3>1 DEF KnowsCurrent, VaultKept, Named, Checked
    <3>. QED
      BY <1>e, <3>2
  <2>. QED
    BY <2>3, <2>4
<1>6. ASSUME NEW t \in Task, WriteFails(t) PROVE KnowsCurrent(u)'
  <2>1. ~behind /\ KnowsCurrent(t) /\ pc[t] \in {"mkdir", "write", "clear"} /\ End(t)
        /\ UNCHANGED <<ciphers, folders, items, index>>
    BY <1>6, <1>a, <1>e DEF WriteFails
  <2>2. items = ciphers /\ index \in Indexes(folders)
    BY <2>1 DEF KnowsCurrent
  <2>. QED
    BY <1>b, <1>e, <2>1, <2>2, EndCurrent
<1>7. ASSUME NEW t \in Task, MakeFolder(t) PROVE KnowsCurrent(u)'
  <2>1. /\ ~behind /\ KnowsCurrent(t) /\ pc'[t] = "fetch" /\ pc[t] = "mkdir"
        /\ UNCHANGED <<ciphers, job, copy, renamed>>
        /\ folders' = [folders EXCEPT ![made.folders + 1] = job[t].fname]
        /\ made.folders \in 1..MaxFolders
    BY <1>7, <1>a, <1>b, <1>e DEF MakeFolder, LocalsOK, TypeOK, Folder
  <2>2. VaultKept' => VaultKept
    BY VaultStep
  <2>3. Named(folders, Vault) \subseteq Named(folders', Vault)
    BY <2>1 DEF Named, IdsGiven, FoldersGiven, TypeOK, Folder
  <2>4. VaultKept /\ job[t].http /\ ~LastSync(t)
           /\ job[t].op \in {"update", "delete", "move", "file"} /\ ciphers[job[t].item] # None
         => ciphers[job[t].item].folder \in Named(folders, Vault)
    BY <2>1 DEF KnowsCurrent, Checked
  <2>5. Checked(t)' => ~LastSync(t)
    BY <2>1 DEF Checked, LastSync
  <2>6. KnowsCurrent(t)'
    BY <2>1, <2>2, <2>3, <2>4, <2>5 DEF KnowsCurrent
  <2>. QED
    BY <1>e, <2>6
<1>8. ASSUME NEW t \in Task, Put(t) PROVE KnowsCurrent(u)'
  <2>1. Written(t) /\ Syncs(job[t]) /\ id[t] # None
    BY <1>8, <1>d DEF Put, IsPut
  <2>2. LastSync(t)
    BY <2>1 DEF LastSync, UnderWay
  <2>. QED
    BY <1>b, <1>e, <2>1, <2>2, WrittenCurrent
<1>9. ASSUME NEW t \in Task, Post(t) PROVE KnowsCurrent(u)'
  <2>1. Written(t) /\ Syncs(job[t]) /\ job[t].op \in {"create", "clone", "upsert"}
    BY <1>9, <1>d DEF Post, IsPost
  <2>2. LastSync(t)
    BY <2>1 DEF LastSync
  <2>. QED
    BY <1>b, <1>e, <2>1, <2>2, WrittenCurrent
<1>10. ASSUME NEW t \in Task, Delete(t) PROVE KnowsCurrent(u)'
  <2>1. Written(t) /\ Syncs(job[t]) /\ job[t].op = "delete"
    BY <1>10, <1>d DEF Delete, IsPost
  <2>2. LastSync(t)
    BY <2>1 DEF LastSync
  <2>. QED
    BY <1>b, <1>e, <2>1, <2>2, WrittenCurrent
<1>11. ASSUME NEW t \in Task, RemoveFolder(t) PROVE KnowsCurrent(u)'
  <2>1. Written(t) /\ Syncs(job[t]) /\ job[t].op = "rmdir"
    BY <1>11, <1>d DEF RemoveFolder, IsPost
  <2>2. LastSync(t)
    BY <2>1 DEF LastSync
  <2>. QED
    BY <1>b, <1>e, <2>1, <2>2, WrittenCurrent
<1>12. ASSUME NEW t \in Task, Load(t) PROVE KnowsCurrent(u)'
  <2>1. ~behind /\ KnowsCurrent(t) /\ pc[t] = "load" /\ UNCHANGED <<ciphers, folders, items, index>>
    BY <1>12, <1>a, <1>e DEF Load
  <2>2. items = ciphers /\ index \in Indexes(folders)
    BY <2>1 DEF KnowsCurrent
  <2>3. CASE recent
    BY <1>12, <1>b, <1>e, <2>1, <2>2, <2>3, EndCurrent DEF Load
  <2>4. CASE ~recent
    <3>1. pc'[t] = "stamp"
      BY <1>12, <1>b, <2>4 DEF Load, LocalsOK
    <3>2. KnowsCurrent(t)'
      BY <2>1, <2>2, <3>1 DEF KnowsCurrent, Checked
    <3>. QED
      BY <1>e, <3>2
  <2>. QED
    BY <2>3, <2>4
<1>13. ASSUME NEW t \in Task, Stamp(t) PROVE KnowsCurrent(u)'
  <2>1. pc'[t] = "fetch" /\ job'[t].op = "sync"
    BY <1>13, <1>b DEF Stamp, LocalsOK, UnderWay
  <2>2. KnowsCurrent(t)'
    BY <2>1 DEF KnowsCurrent, Checked, LastSync
  <2>. QED
    BY <1>e, <2>2
<1>14. ASSUME NEW t \in Task, Fetch(t) PROVE KnowsCurrent(u)'
  <2>1. /\ snap'[t] = [ciphers |-> ciphers, folders |-> folders] /\ pc'[t] = "items"
        /\ pc[t] = "fetch" /\ UNCHANGED <<ciphers, folders, job, copy, renamed>>
        /\ ~behind \/ LastSync(t)
    BY <1>14, <1>a, <1>b DEF Fetch, LocalsOK
  <2>2. CASE LastSync(t)
    <3>1. ~Checked(t)'
      BY <2>1, <2>2 DEF Checked, LastSync
    <3>2. KnowsCurrent(t)'
      BY <2>1, <3>1 DEF KnowsCurrent
    <3>. QED
      BY <1>e, <3>2
  <2>3. CASE ~LastSync(t)
    <3>1. ~behind /\ KnowsCurrent(t) /\ Checked(t)
      BY <1>e, <2>1, <2>3 DEF Checked
    <3>2. KnowsCurrent(t)'
      BY <2>1, <3>1 DEF KnowsCurrent, VaultKept, Named
    <3>. QED
      BY <1>e, <3>2
  <2>. QED
    BY <2>2, <2>3
<1>15. ASSUME NEW t \in Task, FetchFails(t) PROVE KnowsCurrent(u)'
  BY <1>15, <1>a DEF FetchFails
<1>16. ASSUME NEW t \in Task, StoreItems(t) PROVE KnowsCurrent(u)'
  <2>1. /\ ~behind /\ KnowsCurrent(t) /\ items' = snap[t].ciphers /\ pc'[t] = "index"
        /\ pc[t] = "items" /\ UNCHANGED <<ciphers, folders, job, copy, snap, renamed>>
    BY <1>16, <1>a, <1>b, <1>e DEF StoreItems, LocalsOK
  <2>2. Checked(t)' => Checked(t)
    BY <2>1 DEF Checked, LastSync
  <2>3. KnowsCurrent(t)'
    BY <2>1, <2>2 DEF KnowsCurrent, VaultKept, Named
  <2>. QED
    BY <1>e, <2>3
<1>17. ASSUME NEW t \in Task, StoreIndex(t) PROVE KnowsCurrent(u)'
  <2>1. /\ ~behind /\ KnowsCurrent(t) /\ pc[t] = "index" /\ index' \in Indexes(snap[t].folders)
        /\ UNCHANGED <<ciphers, folders, items, renamed>>
    BY <1>17, <1>a, <1>e DEF StoreIndex
  <2>2. items' = ciphers' /\ index' \in Indexes(folders')
    BY <2>1 DEF KnowsCurrent
  <2>3. \/ pc'[t] \in {"clear", "idle"}
        \/ pc'[t] = "read" /\ ~LastSync(t) /\ UNCHANGED job
    BY <1>17, <1>b DEF StoreIndex, AfterSync, End, LocalsOK
  <2>4. CASE pc'[t] \in {"clear", "idle"}
    <3>1. KnowsCurrent(t)'
      BY <2>2, <2>4 DEF KnowsCurrent, Checked
    <3>. QED
      BY <1>e, <3>1
  <2>5. CASE pc'[t] = "read" /\ ~LastSync(t) /\ UNCHANGED job
    <3>1. Checked(t)
      BY <2>1, <2>5 DEF Checked
    <3>2. KnowsCurrent(t)'
      BY <2>1, <2>2, <2>5, <3>1 DEF KnowsCurrent, VaultKept, Named
    <3>. QED
      BY <1>e, <3>2
  <2>. QED
    BY <2>3, <2>4, <2>5
<1>18. ASSUME NEW t \in Task, Clear(t) PROVE KnowsCurrent(u)'
  <2>1. ~behind /\ KnowsCurrent(t) /\ pc[t] \in {"mkdir", "write", "clear"} /\ End(t)
        /\ UNCHANGED <<ciphers, folders, items, index>>
    BY <1>18, <1>a, <1>e DEF Clear
  <2>2. items = ciphers /\ index \in Indexes(folders)
    BY <2>1 DEF KnowsCurrent
  <2>. QED
    BY <1>b, <1>e, <2>1, <2>2, EndCurrent
<1>19. ASSUME NEW t \in Task, Cancel(t) PROVE KnowsCurrent(u)'
  <2>1. ~behind /\ KnowsCurrent(t) /\ pc[t] \notin {"fetch", "items", "index"} /\ End(t)
        /\ UNCHANGED <<ciphers, folders, items, index>>
    BY <1>19, <1>a, <1>e DEF Cancel
  <2>2. items = ciphers /\ index \in Indexes(folders)
    BY <2>1 DEF KnowsCurrent
  <2>. QED
    BY <1>b, <1>e, <2>1, <2>2, EndCurrent
<1>20. ASSUME Cooldown PROVE KnowsCurrent(u)'
  BY <1>20, <1>a, <1>c DEF Cooldown, KnowsCurrent, VaultKept, Named, Checked,
     LastSync
<1>21. ASSUME Reload PROVE KnowsCurrent(u)'
  BY <1>21, <1>a, <1>c DEF Reload, KnowsCurrent, VaultKept, Named, Checked, LastSync
<1>22. ASSUME NEW i \in Item, NEW p \in Part, OutsideEdit(i, p)
      PROVE  KnowsCurrent(u)'
  BY <1>22, <1>a DEF OutsideEdit
<1>23. ASSUME NEW f \in Folder, NEW n \in FolderName, OutsideRename(f, n)
      PROVE  KnowsCurrent(u)'
  BY <1>23, <1>a DEF OutsideRename
<1>24. CASE UNCHANGED vars
  BY <1>24, <1>a, <1>c DEF vars, KnowsCurrent, VaultKept, Named, Checked, LastSync
<1>. QED
  BY <1>1, <1>2, <1>3, <1>4, <1>5, <1>6, <1>7, <1>8, <1>9, <1>10, <1>11, <1>12,
     <1>13, <1>14, <1>15, <1>16, <1>17, <1>18, <1>19, <1>20, <1>21, <1>22,
     <1>23, <1>24, NextCases

\* With no operation under way nothing changes that leaves the caches behind.
LEMMA CacheCurrentStep ==
  ASSUME OneAtATime
  PROVE  TypeOK /\ UnderWay /\ IdsGiven /\ VaultFound /\ ReadCurrent /\ CacheCurrent /\ [Next]_vars
         => CacheCurrent'
<1> SUFFICES ASSUME TypeOK, UnderWay, IdsGiven, VaultFound, ReadCurrent, CacheCurrent,
                    [Next]_vars, Quiet', ~behind'
    PROVE  items' = ciphers' /\ index' \in Indexes(folders')
  BY DEF CacheCurrent
<1>1. CASE \E t \in Task : TRUE
  <2>1. PICK t \in Task : TRUE
    BY <1>1
  <2>2. ReadCurrent' /\ pc'[t] = "idle"
    BY ReadCurrentStep DEF Quiet
  <2>. QED
    BY <2>1, <2>2, ReadCurrentParts DEF KnowsCurrent
<1>2. CASE ~ \E t \in Task : TRUE
  <2>1. \/ Cooldown \/ Reload \/ UNCHANGED vars
        \/ \E i \in Item, p \in Part : OutsideEdit(i, p)
        \/ \E f \in Folder, n \in FolderName : OutsideRename(f, n)
    BY <1>2, NextCases
  <2>2. UNCHANGED <<ciphers, folders, items, index, behind>>
    BY <2>1 DEF Cooldown, Reload, OutsideEdit, OutsideRename, vars
  <2>3. Quiet
    BY <1>2 DEF Quiet
  <2>. QED
    BY <2>2, <2>3 DEF CacheCurrent
<1>. QED
  BY <1>1, <1>2

\* The server and the caches when the proxy starts.
LEMMA InitTypes == Init => TypeOK
<1> SUFFICES ASSUME Init PROVE TypeOK
  OBVIOUS
<1>1. PICK name \in Name, other \in FolderName \ {Vault} :
        /\ ciphers = [i \in Item |->
             IF i > 2 THEN None
             ELSE [name |-> name, folder |-> i, secret |-> [p \in Part |-> 0]]]
        /\ folders = [f \in Folder |->
             IF f > 2 THEN None ELSE IF f = 1 THEN Vault ELSE other]
  BY Zenon DEF Init
<1>2. \A i \in Item : ~(i > 2) => i \in Folder
  BY BoundsAssumption DEF Item, Folder
<1>3. [p \in Part |-> 0] \in [Part -> Nat]
  OBVIOUS
<1>4. \A i \in Item : ~(i > 2) =>
        [name |-> name, folder |-> i, secret |-> [p \in Part |-> 0]] \in Cipher
  BY <1>1, <1>2, <1>3 DEF Cipher
<1>5. ciphers \in [Item -> Maybe(Cipher)] /\ folders \in [Folder -> Maybe(FolderName)]
  BY <1>1, <1>4
<1>6. index \in [FolderName -> Maybe(Folder)]
  BY DEF Init, Indexes
<1>7. LocalsOK
  BY DEF Init, LocalsOK, Place
<1>8. 0 \in 0..MaxJobs /\ 0 \in 0..MaxOutside /\ 0 \in Nat
  OBVIOUS
<1>9. made \in [items : Item, folders : Folder]
  BY DEF Init
<1>10. /\ items = ciphers /\ intended = ciphers /\ writes = 0 /\ cachedFolder = None
       /\ recent = FALSE /\ jobs = 0 /\ outside = 0 /\ behind = FALSE /\ renamed = FALSE
  BY DEF Init
<1>. QED
  BY <1>5, <1>6, <1>7, <1>8, <1>9, <1>10 DEF TypeOK

\* The proxy starts with caches that show what Vaultwarden has.
LEMMA InitCache == Init => CacheInv
<1> SUFFICES ASSUME Init PROVE CacheInv
  OBVIOUS
<1>1. TypeOK
  BY InitTypes
<1>2. /\ \A t \in Task : /\ pc[t] = "idle" /\ job[t] = None /\ copy[t] = None
                         /\ id[t] = None /\ snap[t] = None
      /\ made.items = 2 /\ made.folders = 2 /\ items = ciphers /\ intended = ciphers
      /\ index \in Indexes(folders) /\ cachedFolder = None
  BY DEF Init
<1>3. PICK name \in Name, other \in FolderName \ {Vault} :
        /\ ciphers = [i \in Item |->
             IF i > 2 THEN None
             ELSE [name |-> name, folder |-> i, secret |-> [p \in Part |-> 0]]]
        /\ folders = [f \in Folder |->
             IF f > 2 THEN None ELSE IF f = 1 THEN Vault ELSE other]
  BY Zenon DEF Init
<1>4. \A f \in Folder : (f > 2 => folders[f] = None) /\ (~(f > 2) => folders[f] # None)
  BY <1>3
<1>5. \A i \in Item : ciphers[i] # None => ~(i > 2) /\ ciphers[i].folder = i
  BY <1>3
<1>6. \A i \in Item : ~(i > 2) => i \in Folder
  BY BoundsAssumption DEF Item, Folder
<1>7. folders[1] = Vault
  BY <1>3
<1>8. /\ index[Vault] # None /\ folders[index[Vault]] = Vault
      /\ \A n \in FolderName : index[n] # None => index[n] \in Folder /\ folders[index[n]] = n
  BY <1>1, <1>2, <1>7, IndexesLead DEF TypeOK
<1>9. UnderWay
  BY <1>2 DEF UnderWay
<1>10. CiphersGiven
  BY <1>2, <1>3, <1>4, <1>5, <1>6 DEF CiphersGiven, FolderThere
<1>11. FoldersGiven
  BY <1>2, <1>4, <1>8 DEF FoldersGiven, Folder
<1>12. VaultFound
  BY <1>2, <1>7, <1>8 DEF VaultFound
<1>13. ReadCurrent
  BY <1>2 DEF ReadCurrent, Checked
<1>14. CacheCurrent
  BY <1>2 DEF CacheCurrent
<1>. QED
  BY <1>1, <1>9, <1>10, <1>11, <1>12, <1>13, <1>14 DEF CacheInv, IdsGiven

\* What holds however many operations run at once.
AnyTasksInv == TypeOK /\ UnderWay /\ IdsGiven /\ VaultFound

\* Any number of operations at once, beside failures, dropped handlers and
\* other clients: ciphers and folders have ids that were given out, a cipher is
\* in a folder that is there, and as long as nobody renames the proxy's folder
\* the ids kept for it lead to a folder of its name or to one that is gone.
THEOREM AnyTasks == Spec => []AnyTasksInv
<1>1. Init => AnyTasksInv
  BY InitCache DEF CacheInv, AnyTasksInv
<1>2. AnyTasksInv /\ [Next]_vars => AnyTasksInv'
  BY TypeStep, UnderWayStep, IdsGivenStep, VaultFoundStep DEF AnyTasksInv
<1>. QED
  BY <1>1, <1>2, PTL DEF Spec

\* If operations come one after the other the caches show what Vaultwarden has
\* whenever nothing is under way and nothing has left them behind. The program does
\* run handlers side by side, of which this says nothing.
LEMMA CacheInvariant == ASSUME OneAtATime PROVE Spec => []CacheInv
<1>1. Init => CacheInv
  BY InitCache
<1>2. CacheInv /\ [Next]_vars => CacheInv'
  BY TypeStep, UnderWayStep, IdsGivenStep, VaultFoundStep, ReadCurrentStep,
     CacheCurrentStep
     DEF CacheInv
<1>. QED
  BY <1>1, <1>2, PTL DEF Spec

\* A write changes its part of the cipher that Vaultwarden has.
LEMMA StepRevertsNothing ==
  ASSUME CacheInv, [Next]_vars, NEW x \in Item, ~behind, ciphers[x] = intended[x]
  PROVE  ciphers'[x] = intended'[x]
<1>. TypeOK /\ UnderWay /\ ReadCurrent
  BY DEF CacheInv
<1>a. UNCHANGED <<ciphers, intended>> => ciphers'[x] = intended'[x]
  OBVIOUS
<1>1. ASSUME NEW t \in Task, NEW j \in Jobs, Begin(t, j)
      PROVE  ciphers'[x] = intended'[x]
  BY <1>1, <1>a DEF Begin
<1>2. ASSUME NEW t \in Task, Guard(t) PROVE ciphers'[x] = intended'[x]
  BY <1>2, <1>a DEF Guard
<1>3. ASSUME NEW t \in Task, Scope(t) PROVE ciphers'[x] = intended'[x]
  BY <1>3, <1>a DEF Scope
<1>4. ASSUME NEW t \in Task, Find(t) PROVE ciphers'[x] = intended'[x]
  BY <1>4, <1>a DEF Find
<1>5. ASSUME NEW t \in Task, Read(t) PROVE ciphers'[x] = intended'[x]
  BY <1>5, <1>a DEF Read
<1>6. ASSUME NEW t \in Task, WriteFails(t) PROVE ciphers'[x] = intended'[x]
  BY <1>6, <1>a DEF WriteFails
<1>7. ASSUME NEW t \in Task, MakeFolder(t) PROVE ciphers'[x] = intended'[x]
  BY <1>7, <1>a DEF MakeFolder
<1>8. ASSUME NEW t \in Task, Put(t) PROVE ciphers'[x] = intended'[x]
  <2>1. /\ pc[t] = "write" /\ IsPut(t) /\ id[t] # None
        /\ ciphers' = [ciphers EXCEPT ![id[t]] = Edited(t, copy[t])]
        /\ intended' = [intended EXCEPT ![id[t]] = Edited(t, intended[id[t]])]
    BY <1>8 DEF Put, IsPut
  <2>2. copy[t] = ciphers[id[t]]
    BY <2>1 DEF ReadCurrent
  <2>3. CASE x = id[t]
    BY <2>1, <2>2, <2>3 DEF TypeOK
  <2>4. CASE x # id[t]
    BY <2>1, <2>4 DEF TypeOK
  <2>. QED
    BY <2>3, <2>4
<1>9. ASSUME NEW t \in Task, Post(t) PROVE ciphers'[x] = intended'[x]
  <2>1. PICK new : /\ ciphers' = [ciphers EXCEPT ![made.items + 1] = new]
                   /\ intended' = [intended EXCEPT ![made.items + 1] = new]
    BY <1>9 DEF Post
  <2>. QED
    BY <2>1 DEF TypeOK
<1>10. ASSUME NEW t \in Task, Delete(t) PROVE ciphers'[x] = intended'[x]
  BY <1>10 DEF Delete, TypeOK
<1>11. ASSUME NEW t \in Task, RemoveFolder(t) PROVE ciphers'[x] = intended'[x]
  BY <1>11, <1>a DEF RemoveFolder
<1>12. ASSUME NEW t \in Task, Load(t) PROVE ciphers'[x] = intended'[x]
  BY <1>12, <1>a DEF Load
<1>13. ASSUME NEW t \in Task, Stamp(t) PROVE ciphers'[x] = intended'[x]
  BY <1>13, <1>a DEF Stamp
<1>14. ASSUME NEW t \in Task, Fetch(t) PROVE ciphers'[x] = intended'[x]
  BY <1>14, <1>a DEF Fetch
<1>15. ASSUME NEW t \in Task, FetchFails(t) PROVE ciphers'[x] = intended'[x]
  BY <1>15, <1>a DEF FetchFails
<1>16. ASSUME NEW t \in Task, StoreItems(t) PROVE ciphers'[x] = intended'[x]
  BY <1>16, <1>a DEF StoreItems
<1>17. ASSUME NEW t \in Task, StoreIndex(t) PROVE ciphers'[x] = intended'[x]
  BY <1>17, <1>a DEF StoreIndex
<1>18. ASSUME NEW t \in Task, Clear(t) PROVE ciphers'[x] = intended'[x]
  BY <1>18, <1>a DEF Clear
<1>19. ASSUME NEW t \in Task, Cancel(t) PROVE ciphers'[x] = intended'[x]
  BY <1>19, <1>a DEF Cancel
<1>20. ASSUME Cooldown PROVE ciphers'[x] = intended'[x]
  BY <1>20, <1>a DEF Cooldown
<1>21. ASSUME Reload PROVE ciphers'[x] = intended'[x]
  BY <1>21, <1>a DEF Reload
<1>22. ASSUME NEW i \in Item, NEW p \in Part, OutsideEdit(i, p)
      PROVE  ciphers'[x] = intended'[x]
  BY <1>22 DEF OutsideEdit, TypeOK
<1>23. ASSUME NEW f \in Folder, NEW n \in FolderName, OutsideRename(f, n)
      PROVE  ciphers'[x] = intended'[x]
  BY <1>23, <1>a DEF OutsideRename
<1>24. CASE UNCHANGED vars
  BY <1>24, <1>a DEF vars
<1>. QED
  BY <1>1, <1>2, <1>3, <1>4, <1>5, <1>6, <1>7, <1>8, <1>9, <1>10, <1>11, <1>12,
     <1>13, <1>14, <1>15, <1>16, <1>17, <1>18, <1>19, <1>20, <1>21, <1>22,
     <1>23, <1>24, NextCases

\* A folder is made when Vaultwarden has none of its name.
LEMMA StepMakesNoTwin ==
  ASSUME CacheInv, [Next]_vars, ~behind, made'.folders > made.folders, NEW x \in Folder
  PROVE  folders[x] # folders'[made'.folders]
<1>. TypeOK /\ UnderWay /\ ReadCurrent
  BY DEF CacheInv
<1>a. made'.folders = made.folders => FALSE
  <2>1. made.folders \in Nat
    BY DEF TypeOK, Folder
  <2>. QED
    BY <2>1
<1>1. ASSUME NEW t \in Task, NEW j \in Jobs, Begin(t, j)
      PROVE  folders[x] # folders'[made'.folders]
  BY <1>1, <1>a DEF Begin
<1>2. ASSUME NEW t \in Task, Guard(t) PROVE folders[x] # folders'[made'.folders]
  BY <1>2, <1>a DEF Guard
<1>3. ASSUME NEW t \in Task, Scope(t) PROVE folders[x] # folders'[made'.folders]
  BY <1>3, <1>a DEF Scope
<1>4. ASSUME NEW t \in Task, Find(t) PROVE folders[x] # folders'[made'.folders]
  BY <1>4, <1>a DEF Find
<1>5. ASSUME NEW t \in Task, Read(t) PROVE folders[x] # folders'[made'.folders]
  BY <1>5, <1>a DEF Read
<1>6. ASSUME NEW t \in Task, WriteFails(t)
      PROVE  folders[x] # folders'[made'.folders]
  BY <1>6, <1>a DEF WriteFails
<1>7. ASSUME NEW t \in Task, MakeFolder(t)
      PROVE  folders[x] # folders'[made'.folders]
  <2>1. /\ pc[t] = "mkdir" /\ made.folders < MaxFolders
        /\ made'.folders = made.folders + 1
        /\ folders' = [folders EXCEPT ![made.folders + 1] = job[t].fname]
    BY <1>7 DEF MakeFolder, Accepts, TypeOK
  <2>2. index \in Indexes(folders) /\ index[job[t].fname] = None
    BY <2>1 DEF ReadCurrent
  <2>3. job[t].fname \in FolderName
    BY <2>1, JobTypes DEF UnderWay
  <2>4. folders'[made'.folders] = job[t].fname
    BY <2>1 DEF TypeOK, Folder
  <2>. QED
    BY <2>2, <2>3, <2>4, IndexesLead DEF TypeOK
<1>8. ASSUME NEW t \in Task, Put(t) PROVE folders[x] # folders'[made'.folders]
  BY <1>8, <1>a DEF Put
<1>9. ASSUME NEW t \in Task, Post(t) PROVE folders[x] # folders'[made'.folders]
  <2>1. made' = [made EXCEPT !.items = made.items + 1]
    BY <1>9 DEF Post
  <2>. QED
    BY <1>a, <2>1 DEF TypeOK
<1>10. ASSUME NEW t \in Task, Delete(t)
      PROVE  folders[x] # folders'[made'.folders]
  BY <1>10, <1>a DEF Delete
<1>11. ASSUME NEW t \in Task, RemoveFolder(t)
      PROVE  folders[x] # folders'[made'.folders]
  BY <1>11, <1>a DEF RemoveFolder
<1>12. ASSUME NEW t \in Task, Load(t) PROVE folders[x] # folders'[made'.folders]
  BY <1>12, <1>a DEF Load
<1>13. ASSUME NEW t \in Task, Stamp(t)
      PROVE  folders[x] # folders'[made'.folders]
  BY <1>13, <1>a DEF Stamp
<1>14. ASSUME NEW t \in Task, Fetch(t)
      PROVE  folders[x] # folders'[made'.folders]
  BY <1>14, <1>a DEF Fetch
<1>15. ASSUME NEW t \in Task, FetchFails(t)
      PROVE  folders[x] # folders'[made'.folders]
  BY <1>15, <1>a DEF FetchFails
<1>16. ASSUME NEW t \in Task, StoreItems(t)
      PROVE  folders[x] # folders'[made'.folders]
  BY <1>16, <1>a DEF StoreItems
<1>17. ASSUME NEW t \in Task, StoreIndex(t)
      PROVE  folders[x] # folders'[made'.folders]
  BY <1>17, <1>a DEF StoreIndex
<1>18. ASSUME NEW t \in Task, Clear(t)
      PROVE  folders[x] # folders'[made'.folders]
  BY <1>18, <1>a DEF Clear
<1>19. ASSUME NEW t \in Task, Cancel(t)
      PROVE  folders[x] # folders'[made'.folders]
  BY <1>19, <1>a DEF Cancel
<1>20. ASSUME Cooldown PROVE folders[x] # folders'[made'.folders]
  BY <1>20, <1>a DEF Cooldown
<1>21. ASSUME Reload PROVE folders[x] # folders'[made'.folders]
  BY <1>21, <1>a DEF Reload
<1>22. ASSUME NEW i \in Item, NEW p \in Part, OutsideEdit(i, p)
      PROVE  folders[x] # folders'[made'.folders]
  BY <1>22, <1>a DEF OutsideEdit
<1>23. ASSUME NEW f \in Folder, NEW n \in FolderName, OutsideRename(f, n)
      PROVE  folders[x] # folders'[made'.folders]
  BY <1>23, <1>a DEF OutsideRename
<1>24. CASE UNCHANGED vars
  BY <1>24, <1>a DEF vars
<1>. QED
  BY <1>1, <1>2, <1>3, <1>4, <1>5, <1>6, <1>7, <1>8, <1>9, <1>10, <1>11, <1>12,
     <1>13, <1>14, <1>15, <1>16, <1>17, <1>18, <1>19, <1>20, <1>21, <1>22,
     <1>23, <1>24, NextCases

\* An operation over HTTP changes a cipher of the proxy's folder.
LEMMA StepStaysInFolder ==
  ASSUME OneAtATime, CacheInv, [Next]_vars, NEW u \in Task, NEW x \in Item,
         pc[u] = "write", pc'[u] # "write", job[u].http, ~behind, VaultKept,
         ciphers[x] # None, ciphers'[x] # ciphers[x]
  PROVE  ciphers[x].folder \in Named(folders, Vault)
<1>. TypeOK /\ UnderWay /\ IdsGiven /\ ReadCurrent
  BY DEF CacheInv
<1>a. ciphers' = ciphers => FALSE
  OBVIOUS
<1>b. \A t \in Task : t = u
  BY DEF OneAtATime
<1>c. job[u].op \in {"update", "delete", "move", "file"} /\ job[u].item = x
        => ciphers[x].folder \in Named(folders, Vault)
  BY DEF ReadCurrent, Checked
<1>1. ASSUME NEW t \in Task, NEW j \in Jobs, Begin(t, j)
      PROVE  ciphers[x].folder \in Named(folders, Vault)
  BY <1>1, <1>a DEF Begin
<1>2. ASSUME NEW t \in Task, Guard(t)
      PROVE  ciphers[x].folder \in Named(folders, Vault)
  BY <1>2, <1>a DEF Guard
<1>3. ASSUME NEW t \in Task, Scope(t)
      PROVE  ciphers[x].folder \in Named(folders, Vault)
  BY <1>3, <1>a DEF Scope
<1>4. ASSUME NEW t \in Task, Find(t)
      PROVE  ciphers[x].folder \in Named(folders, Vault)
  BY <1>4, <1>a DEF Find
<1>5. ASSUME NEW t \in Task, Read(t)
      PROVE  ciphers[x].folder \in Named(folders, Vault)
  BY <1>5, <1>a DEF Read
<1>6. ASSUME NEW t \in Task, WriteFails(t)
      PROVE  ciphers[x].folder \in Named(folders, Vault)
  BY <1>6, <1>a DEF WriteFails
<1>7. ASSUME NEW t \in Task, MakeFolder(t)
      PROVE  ciphers[x].folder \in Named(folders, Vault)
  BY <1>7, <1>a DEF MakeFolder
<1>8. ASSUME NEW t \in Task, Put(t)
      PROVE  ciphers[x].folder \in Named(folders, Vault)
  <2>1. t = u /\ IsPut(t) /\ ciphers' = [ciphers EXCEPT ![id[t]] = Edited(t, copy[t])]
    BY <1>8, <1>b DEF Put
  <2>2. x = id[t]
    BY <2>1 DEF TypeOK
  <2>3. job[t].op \in {"update", "move", "file"}
    BY <2>1, JobTypes DEF IsPut
  <2>4. id[t] = job[t].item
    BY <2>1, <2>3 DEF UnderWay
  <2>. QED
    BY <1>c, <2>1, <2>2, <2>3, <2>4
<1>9. ASSUME NEW t \in Task, Post(t)
      PROVE  ciphers[x].folder \in Named(folders, Vault)
  <2>1. PICK new : ciphers' = [ciphers EXCEPT ![made.items + 1] = new]
    BY <1>9 DEF Post
  <2>2. x = made.items + 1 /\ made.items \in Nat
    BY <2>1 DEF TypeOK, Item
  <2>. QED
    BY <2>2 DEF IdsGiven, CiphersGiven
<1>10. ASSUME NEW t \in Task, Delete(t)
      PROVE  ciphers[x].folder \in Named(folders, Vault)
  <2>1. t = u /\ job[t].op = "delete" /\ ciphers' = [ciphers EXCEPT ![job[t].item] = None]
    BY <1>10, <1>b DEF Delete
  <2>2. x = job[t].item
    BY <2>1 DEF TypeOK
  <2>. QED
    BY <1>c, <2>1, <2>2
<1>11. ASSUME NEW t \in Task, RemoveFolder(t)
      PROVE  ciphers[x].folder \in Named(folders, Vault)
  BY <1>11, <1>a DEF RemoveFolder
<1>12. ASSUME NEW t \in Task, Load(t)
      PROVE  ciphers[x].folder \in Named(folders, Vault)
  BY <1>12, <1>a DEF Load
<1>13. ASSUME NEW t \in Task, Stamp(t)
      PROVE  ciphers[x].folder \in Named(folders, Vault)
  BY <1>13, <1>a DEF Stamp
<1>14. ASSUME NEW t \in Task, Fetch(t)
      PROVE  ciphers[x].folder \in Named(folders, Vault)
  BY <1>14, <1>a DEF Fetch
<1>15. ASSUME NEW t \in Task, FetchFails(t)
      PROVE  ciphers[x].folder \in Named(folders, Vault)
  BY <1>15, <1>a DEF FetchFails
<1>16. ASSUME NEW t \in Task, StoreItems(t)
      PROVE  ciphers[x].folder \in Named(folders, Vault)
  BY <1>16, <1>a DEF StoreItems
<1>17. ASSUME NEW t \in Task, StoreIndex(t)
      PROVE  ciphers[x].folder \in Named(folders, Vault)
  BY <1>17, <1>a DEF StoreIndex
<1>18. ASSUME NEW t \in Task, Clear(t)
      PROVE  ciphers[x].folder \in Named(folders, Vault)
  BY <1>18, <1>a DEF Clear
<1>19. ASSUME NEW t \in Task, Cancel(t)
      PROVE  ciphers[x].folder \in Named(folders, Vault)
  BY <1>19, <1>a DEF Cancel
<1>20. ASSUME Cooldown PROVE ciphers[x].folder \in Named(folders, Vault)
  BY <1>20, <1>a DEF Cooldown
<1>21. ASSUME Reload PROVE ciphers[x].folder \in Named(folders, Vault)
  BY <1>21, <1>a DEF Reload
<1>22. ASSUME NEW i \in Item, NEW p \in Part, OutsideEdit(i, p)
      PROVE  ciphers[x].folder \in Named(folders, Vault)
  BY <1>22 DEF OutsideEdit
<1>23. ASSUME NEW f \in Folder, NEW n \in FolderName, OutsideRename(f, n)
      PROVE  ciphers[x].folder \in Named(folders, Vault)
  BY <1>23, <1>a DEF OutsideRename
<1>24. CASE UNCHANGED vars
  BY <1>24, <1>a DEF vars
<1>. QED
  BY <1>1, <1>2, <1>3, <1>4, <1>5, <1>6, <1>7, <1>8, <1>9, <1>10, <1>11, <1>12,
     <1>13, <1>14, <1>15, <1>16, <1>17, <1>18, <1>19, <1>20, <1>21, <1>22,
     <1>23, <1>24, NextCases

\* On the same condition, and with caches that are not behind: a write changes what
\* it is about and brings no older state of the rest back, no folder is made twice,
\* and an operation that came over HTTP stays in the proxy's folder.
LEMMA WritesAreSound == ASSUME OneAtATime PROVE Spec => WritesSound
<1>1. CacheInv /\ [Next]_vars =>
        \A i \in Item : ~behind /\ ciphers[i] = intended[i] => ciphers'[i] = intended'[i]
  BY StepRevertsNothing
<1>2. CacheInv /\ [Next]_vars =>
        (~behind /\ made'.folders > made.folders =>
           \A f \in Folder : folders[f] # folders'[made'.folders])
  BY StepMakesNoTwin
<1>3. CacheInv /\ [Next]_vars =>
        \A t \in Task, i \in Item :
          /\ pc[t] = "write" /\ pc'[t] # "write" /\ job[t].http
          /\ ~behind /\ VaultKept
          /\ ciphers[i] # None /\ ciphers'[i] # ciphers[i]
          => ciphers[i].folder \in Named(folders, Vault)
  BY StepStaysInFolder
<1>4. Spec => []CacheInv
  BY CacheInvariant
<1>. QED
  BY <1>1, <1>2, <1>3, <1>4, PTL
     DEF Spec, WritesSound, NothingReverted, NoDuplicateFolder, ScopedWrites
=============================================================================
