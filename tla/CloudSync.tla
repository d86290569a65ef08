------------------------------ MODULE CloudSync -------------------------------
(***************************************************************************)
(* The mirror of a Bitwarden cloud account in Vaultwarden                  *)
(* (SyncManager in src/src/sync/mod.rs, the map in src/src/sync/mapping.rs,*)
(* the notification and polling tasks of src/src/main.rs).                 *)
(*                                                                         *)
(* A full sync fetches the whole account, creates or updates a copy of     *)
(* each item, and saves the map from items to copies.  A notification of   *)
(* the cloud's WebSocket mirrors, or deletes, one item at once and leaves  *)
(* the map file to the next full sync.  A full sync never deletes.  Two    *)
(* locks order them: cloud, held while an item or the account is fetched   *)
(* and while copies are written, and map; full syncs exclude each other    *)
(* with a permit that nobody waits for.                                    *)
(*                                                                         *)
(* Collections become folders in the same way, but are never updated: a    *)
(* Thing is an item or a collection, and its copy a cipher or a folder.    *)
(* The content of an item is the number of the change that made it.        *)
(***************************************************************************)
EXTENDS Naturals, Sequences, FiniteSets

CONSTANTS
  Item, Collection,  \* what the account may hold
  Poll,              \* the polling task; it also stands for the sync at start
  Ws,                \* the task that handles notifications
  Caller,            \* the handlers of POST /sync/trigger
  MaxEdits,          \* bound: the changes in the cloud
  MaxFaults,         \* bound: failures, crashes, deletions behind our back
  MaxCopies,         \* bound: the copies ever made
  MaxWire,           \* bound: the notifications under way
  None, Nobody

Thing == Item \union Collection
Task  == {Poll, Ws} \union Caller
Copy  == 1..MaxCopies
Maybe(S) == S \union {None}

ASSUME ThingsAssumption ==
  /\ IsFiniteSet(Thing) /\ Item \intersect Collection = {}
  /\ None \notin Thing \union Nat \union [of : Thing, content : Nat]
ASSUME TasksAssumption == Poll # Ws /\ {Poll, Ws} \intersect Caller = {} /\ Nobody \notin Task
ASSUME BoundsAssumption ==
  /\ MaxEdits \in Nat /\ MaxFaults \in Nat /\ MaxCopies \in Nat /\ MaxWire \in Nat
  /\ Cardinality(Thing) <= MaxCopies

VARIABLES
  cloud,             \* the account: the content of each thing, or None
  copies, made,      \* Vaultwarden: each copy ever made, or None; their number
  map,               \* SyncManager.map: the copy of each thing, or None
  disk, backup,      \* sync-map.json; the newest backup that has items
  cloudHolder, mapHolder, permit,
  pc,
  reply,             \* what each task has fetched
  todo,              \* the things of it that are not written yet
  note,              \* the item the notification being handled is about
  wire,              \* the notifications sent and not handled yet
  link,              \* is the WebSocket open?
  edits, faults,     \* counts, for the bounds
  orphaned,          \* may there be a copy the map does not lead to?
  missed             \* may the mirror differ from the cloud until a full sync?

lockVars  == <<cloudHolder, mapHolder, permit>>
mapVars   == <<map, disk, backup>>
copyVars  == <<copies, made>>
wireVars  == <<wire, link>>
countVars == <<edits, faults>>
noteVars  == <<orphaned, missed>>
vars == <<cloud, copyVars, mapVars, lockVars, pc, reply, todo, note, wireVars,
          countVars, noteVars>>

Note == [kind : {"change", "delete"}, item : Item] \union {[kind |-> "sync"]}

Place == {"idle", "fetch", "cloud", "map", "write", "get", "delete", "deaf"}

TypeOK ==
  /\ cloud \in [Thing -> Maybe(0..edits)]
  /\ made \in 0..MaxCopies
  /\ copies \in [Copy -> Maybe([of : Thing, content : 0..edits])]
  /\ {map, disk, backup} \subseteq [Thing -> Maybe(1..made)]
  /\ {cloudHolder, mapHolder, permit} \subseteq Task \union {Nobody}
  /\ pc \in [Task -> Place]
  /\ reply \in [Task -> [Thing -> Maybe(0..edits)]]
  /\ todo \in [Task -> SUBSET Thing] /\ note \in Maybe(Item)
  /\ wire \in Seq(Note) /\ Len(wire) <= MaxWire /\ link \in BOOLEAN
  /\ edits \in 0..MaxEdits /\ faults \in 0..MaxFaults
  /\ orphaned \in BOOLEAN /\ missed \in BOOLEAN
-----------------------------------------------------------------------------
Nothing == [x \in Thing |-> None]
There(f) == {x \in DOMAIN f : f[x] # None}

\* A map from some things to copies of their own.
Numbered(things) ==
  CHOOSE m \in [Thing -> Maybe(1..Cardinality(things))] :
    There(m) = things /\ \A x, y \in things : m[x] = m[y] => x = y

\* The account has its collections and some items; the mirror is empty, as
\* before the first sync, or complete.
Init ==
  /\ \E items \in SUBSET Item :
       cloud = [x \in Thing |-> IF x \in items \union Collection THEN 0 ELSE None]
  /\ \E first \in BOOLEAN :
       /\ map = IF first THEN Nothing ELSE Numbered(There(cloud))
       /\ made = Cardinality(There(map))
       /\ missed = first
  /\ copies = [c \in Copy |->
       IF c > made THEN None
       ELSE [of |-> CHOOSE x \in Thing : map[x] = c, content |-> 0]]
  /\ disk = map /\ backup = Nothing
  /\ cloudHolder = Nobody /\ mapHolder = Nobody /\ permit = Nobody
  /\ pc = [t \in Task |-> "idle"] /\ reply = [t \in Task |-> Nothing]
  /\ todo = [t \in Task |-> {}] /\ note = None
  /\ wire = <<>> /\ link = TRUE
  /\ edits = 0 /\ faults = 0 /\ orphaned = FALSE

Set(var, t, value) == [var EXCEPT ![t] = value]
Goto(t, place) == pc' = Set(pc, t, place)

Fault == faults < MaxFaults /\ faults' = faults + 1

\* A lock is released with the call that holds it.
Freed(lock, t) == IF lock = t THEN Nobody ELSE lock

\* The call is over.  After a full sync the notification task has dropped the
\* receiving end of its channel, and waits for the socket to close.
End(t) ==
  /\ cloudHolder' = Freed(cloudHolder, t) /\ mapHolder' = Freed(mapHolder, t)
  /\ permit' = Freed(permit, t)
  /\ Goto(t, IF t = Ws /\ permit = Ws THEN "deaf" ELSE "idle")
  /\ reply' = Set(reply, t, Nothing) /\ todo' = Set(todo, t, {})
  /\ note' = IF t = Ws THEN None ELSE note
-----------------------------------------------------------------------------
(* full_sync *)

\* A caller that finds the permit taken returns at once.
Start(t) ==
  /\ t # Ws /\ pc[t] = "idle" /\ permit = Nobody
  /\ permit' = t
  /\ Goto(t, "fetch")
  /\ UNCHANGED <<cloud, copyVars, mapVars, cloudHolder, mapHolder, reply, todo, note,
                 wireVars, countVars, noteVars>>

\* The cloud lock is held for the request, and let go before it is taken again.
Fetch(t) ==
  /\ pc[t] = "fetch" /\ cloudHolder = Nobody
  /\ reply' = Set(reply, t, cloud) /\ todo' = Set(todo, t, There(cloud))
  /\ Goto(t, "cloud")
  /\ UNCHANGED <<cloud, copyVars, mapVars, lockVars, note, wireVars, countVars, noteVars>>

FetchFails(t) ==
  /\ pc[t] = "fetch" /\ cloudHolder = Nobody /\ Fault
  /\ missed' = (missed \/ t = Ws)
  /\ End(t)
  /\ UNCHANGED <<cloud, copyVars, mapVars, wireVars, edits, orphaned>>

LockCloud(t) ==
  /\ pc[t] = "cloud" /\ cloudHolder = Nobody
  /\ cloudHolder' = t
  /\ Goto(t, "map")
  /\ UNCHANGED <<cloud, copyVars, mapVars, mapHolder, permit, reply, todo, note,
                 wireVars, countVars, noteVars>>

LockMap(t) ==
  /\ pc[t] = "map" /\ mapHolder = Nobody
  /\ mapHolder' = t
  /\ Goto(t, "write")
  /\ UNCHANGED <<cloud, copyVars, mapVars, cloudHolder, permit, reply, todo, note,
                 wireVars, countVars, noteVars>>

\* Collections come first: an item's copy goes into its collection's folder.
Due(t, x) ==
  /\ pc[t] = "write" /\ x \in todo[t]
  /\ x \in Item => todo[t] \intersect Collection = {}

Copied(t, x) == [of |-> x, content |-> reply[t][x]]

Done(t, x) == todo' = Set(todo, t, todo[t] \ {x})

\* Mutant: an item that has a copy is left alone.
UpdateSkipped(t, x) ==
  /\ Due(t, x) /\ map[x] # None
  /\ Done(t, x)
  /\ UNCHANGED <<cloud, copyVars, mapVars, lockVars, pc, reply, note, wireVars, countVars,
                 noteVars>>

\* The copy the map leads to is overwritten, if it is still there; if not,
\* the error is recorded and the map left as it is.  A folder is left alone.
Update(t, x) ==
  /\ Due(t, x) /\ map[x] # None
  /\ copies' = IF x \in Item /\ copies[map[x]] # None
               THEN Set(copies, map[x], Copied(t, x)) ELSE copies
  /\ Done(t, x)
  /\ UNCHANGED <<cloud, made, mapVars, lockVars, pc, reply, note, wireVars, countVars,
                 noteVars>>

\* Mutant: the folder of a collection is not recorded.
CreateFolderUnmapped(t, x) ==
  /\ Due(t, x) /\ map[x] = None /\ made < MaxCopies
  /\ made' = made + 1
  /\ copies' = Set(copies, made + 1, Copied(t, x))
  /\ map' = IF x \in Item THEN Set(map, x, made + 1) ELSE map
  /\ Done(t, x)
  /\ UNCHANGED <<cloud, disk, backup, lockVars, pc, reply, note, wireVars, countVars,
                 noteVars>>

Create(t, x) ==
  /\ Due(t, x) /\ map[x] = None /\ made < MaxCopies
  /\ made' = made + 1
  /\ copies' = Set(copies, made + 1, Copied(t, x))
  /\ map' = Set(map, x, made + 1)
  /\ Done(t, x)
  /\ UNCHANGED <<cloud, disk, backup, lockVars, pc, reply, note, wireVars, countVars,
                 noteVars>>

\* Vaultwarden has done what was asked, or has not, and we do not know.
Lost(t, x) ==
  \/ UNCHANGED <<copyVars, orphaned>>
  \/ /\ map[x] # None /\ x \in Item /\ copies[map[x]] # None
     /\ copies' = Set(copies, map[x], Copied(t, x))
     /\ UNCHANGED <<made, orphaned>>
  \/ /\ map[x] = None /\ made < MaxCopies
     /\ made' = made + 1
     /\ copies' = Set(copies, made + 1, Copied(t, x))
     /\ orphaned' = TRUE

\* The error is recorded and the next thing taken.
WriteFails(t, x) ==
  /\ Due(t, x) /\ Fault /\ Lost(t, x)
  /\ missed' = TRUE
  /\ Done(t, x)
  /\ UNCHANGED <<cloud, mapVars, lockVars, pc, reply, note, wireVars, edits>>

HasItems(m) == \E x \in Item : m[x] # None

\* The file is kept as a backup, if that works, and the tenth backup before it
\* goes; then the file is replaced.
RotateBackup ==
  backup' \in IF HasItems(disk) THEN {disk, backup} ELSE {backup, Nothing}

SaveFile == RotateBackup /\ disk' = map

\* The last copy of a full sync is written, and the map saved. The code keeps the permit
\* until VaultManager has read the vault anew (sync/mod.rs:188), so that a full sync called
\* in that time is none; here it starts, as one called a little later does.
Save(t) ==
  /\ pc[t] = "write" /\ todo[t] = {} /\ permit = t
  /\ SaveFile
  /\ End(t)
  /\ UNCHANGED <<cloud, copyVars, map, wireVars, countVars, noteVars>>

SaveFails(t) ==
  /\ pc[t] = "write" /\ todo[t] = {} /\ permit = t /\ Fault
  /\ RotateBackup
  /\ End(t)
  /\ UNCHANGED <<cloud, copyVars, map, disk, wireVars, edits, noteVars>>

\* The client of a caller has gone: the handler is dropped, maybe with a
\* request to Vaultwarden on the wire.
Cancel(t) ==
  /\ t \in Caller /\ pc[t] # "idle" /\ Fault
  /\ \/ UNCHANGED <<copyVars, orphaned>>
     \/ \E x \in todo[t] : Due(t, x) /\ Lost(t, x)
  /\ missed' = TRUE
  /\ End(t)
  /\ UNCHANGED <<cloud, mapVars, wireVars, edits>>
-----------------------------------------------------------------------------
(* The notification task *)

\* A request for a full sync makes it drop its channel first, and with it the
\* notifications that wait there.  If another full sync is under way that is
\* all it does.
Receive ==
  /\ pc[Ws] = "idle" /\ wire # <<>>
  /\ LET n == Head(wire) IN
       IF n.kind = "sync"
       THEN /\ wire' = <<>> /\ note' = None
            /\ missed' = (missed \/ Len(wire) > 1 \/ permit # Nobody)
            /\ IF permit = Nobody THEN permit' = Ws /\ Goto(Ws, "fetch")
                                  ELSE Goto(Ws, "deaf") /\ UNCHANGED permit
       ELSE /\ wire' = Tail(wire) /\ note' = n.item
            /\ Goto(Ws, IF n.kind = "change" THEN "get" ELSE "delete")
            /\ UNCHANGED <<permit, missed>>
  /\ UNCHANGED <<cloud, copyVars, mapVars, cloudHolder, mapHolder, reply, todo, link,
                 countVars, orphaned>>

\* The cloud lock is held from here until the copy is written.
Get ==
  /\ pc[Ws] = "get" /\ cloudHolder = Nobody
  /\ IF cloud[note] = None THEN End(Ws)
     ELSE /\ cloudHolder' = Ws
          /\ reply' = Set(reply, Ws, [Nothing EXCEPT ![note] = cloud[note]])
          /\ todo' = Set(todo, Ws, {note})
          /\ Goto(Ws, "map")
          /\ UNCHANGED <<mapHolder, permit, note>>
  /\ UNCHANGED <<cloud, copyVars, mapVars, wireVars, countVars, noteVars>>

GetFails ==
  /\ pc[Ws] = "get" /\ cloudHolder = Nobody /\ Fault
  /\ missed' = TRUE
  /\ End(Ws)
  /\ UNCHANGED <<cloud, copyVars, mapVars, wireVars, edits, orphaned>>

\* The copy is written; the map is not saved.
Mirrored ==
  /\ pc[Ws] = "write" /\ todo[Ws] = {} /\ permit # Ws
  /\ End(Ws)
  /\ UNCHANGED <<cloud, copyVars, mapVars, wireVars, countVars, noteVars>>

\* Mutant: the copy is deleted but the map still leads to it.
DeleteKept ==
  /\ pc[Ws] = "delete" /\ mapHolder = Nobody
  /\ copies' = IF map[note] = None THEN copies ELSE Set(copies, map[note], None)
  /\ End(Ws)
  /\ UNCHANGED <<cloud, made, mapVars, wireVars, countVars, noteVars>>

\* The map forgets the item, whether or not the deletion has worked.
Delete ==
  /\ pc[Ws] = "delete" /\ mapHolder = Nobody
  /\ copies' = IF map[note] = None THEN copies ELSE Set(copies, map[note], None)
  /\ map' = Set(map, note, None)
  /\ End(Ws)
  /\ UNCHANGED <<cloud, made, disk, backup, wireVars, countVars, noteVars>>

DeleteFails ==
  /\ pc[Ws] = "delete" /\ mapHolder = Nobody /\ map[note] # None /\ Fault
  /\ orphaned' = TRUE /\ missed' = TRUE
  /\ map' = Set(map, note, None)
  /\ End(Ws)
  /\ UNCHANGED <<cloud, copyVars, disk, backup, wireVars, edits>>

\* The socket has closed and what it brought is handled: connect again.
Reconnect ==
  /\ ~link /\ pc[Ws] \in {"idle", "deaf"} /\ wire = <<>>
  /\ link' = TRUE
  /\ Goto(Ws, "idle")
  /\ UNCHANGED <<cloud, copyVars, mapVars, lockVars, reply, todo, note, wire, countVars,
                 noteVars>>
-----------------------------------------------------------------------------
(* The cloud, and the rest of the world *)

\* Between a full sync's request and its last copy, what it writes is older
\* than a change made now.
Stale == \E t \in Task : permit = t /\ pc[t] \in {"cloud", "map", "write"}

\* A notification is dropped when the socket is closed or nobody listens.
Heard == link /\ pc[Ws] # "deaf" /\ permit # Ws

Notify(n) ==
  /\ IF Heard THEN Len(wire) < MaxWire /\ wire' = Append(wire, n) ELSE UNCHANGED wire
  /\ missed' = (missed \/ ~Heard \/ Stale)

\* Somebody changes an item, creates it or restores it.
Change(x) ==
  /\ edits < MaxEdits /\ edits' = edits + 1
  /\ cloud' = Set(cloud, x, edits + 1)
  /\ Notify([kind |-> "change", item |-> x])
  /\ UNCHANGED <<copyVars, mapVars, lockVars, pc, reply, todo, note, link, faults, orphaned>>

\* update_password_in_cloud: the item is found through the map, fetched and
\* put back under the cloud lock.
Push(x) ==
  /\ mapHolder = Nobody /\ cloudHolder = Nobody
  /\ map[x] # None /\ cloud[x] # None
  /\ Change(x)

Remove(x) ==
  /\ edits < MaxEdits /\ edits' = edits + 1
  /\ cloud[x] # None /\ cloud' = Set(cloud, x, None)
  /\ Notify([kind |-> "delete", item |-> x])
  /\ UNCHANGED <<copyVars, mapVars, lockVars, pc, reply, todo, note, link, faults, orphaned>>

\* Many items change at once: the cloud sends one request for a full sync.
ChangeMany(things) ==
  /\ edits < MaxEdits /\ edits' = edits + 1
  /\ cloud' = [x \in Thing |-> IF x \in things THEN edits + 1 ELSE cloud[x]]
  /\ Notify([kind |-> "sync"])
  /\ UNCHANGED <<copyVars, mapVars, lockVars, pc, reply, todo, note, link, faults, orphaned>>

Close ==
  /\ link /\ link' = FALSE
  /\ UNCHANGED <<cloud, copyVars, mapVars, lockVars, pc, reply, todo, note, wire,
                 countVars, noteVars>>

\* Another operation of the proxy deletes a copy in Vaultwarden.
DeleteCopy(c) ==
  /\ copies[c] # None /\ Fault
  /\ copies' = Set(copies, c, None)
  /\ missed' = TRUE
  /\ UNCHANGED <<cloud, made, mapVars, lockVars, pc, reply, todo, note, wireVars, edits,
                 orphaned>>

CopiesOf(x) == {c \in Copy : copies[c] # None /\ copies[c].of = x}

\* SyncMap::load prefers a backup to a map without items.
Loaded == IF HasItems(disk) \/ ~HasItems(backup) THEN disk ELSE backup

\* The program stops, and is started again.
Crash ==
  /\ Fault
  /\ map' = Loaded
  /\ orphaned' = (orphaned \/ \E x \in Thing : \E c \in CopiesOf(x) : Loaded[x] # c)
  /\ missed' = TRUE
  /\ cloudHolder' = Nobody /\ mapHolder' = Nobody /\ permit' = Nobody
  /\ pc' = [t \in Task |-> "idle"] /\ reply' = [t \in Task |-> Nothing]
  /\ todo' = [t \in Task |-> {}] /\ note' = None
  /\ wire' = <<>> /\ link' = FALSE
  /\ UNCHANGED <<cloud, copyVars, disk, backup, edits>>
-----------------------------------------------------------------------------
\* What a task does once it has begun.
Run(t) ==
  \/ Fetch(t) \/ FetchFails(t) \/ LockCloud(t) \/ LockMap(t)
  \/ \E x \in Thing : Update(t, x) \/ Create(t, x) \/ WriteFails(t, x)
  \/ Save(t) \/ SaveFails(t)

Handle == Receive \/ Get \/ GetFails \/ Mirrored \/ Delete \/ DeleteFails

Next ==
  \/ \E t \in Task : Start(t) \/ Run(t) \/ Cancel(t)
  \/ Handle \/ Reconnect
  \/ \E x \in Item : Change(x) \/ Push(x) \/ Remove(x)
  \/ \E things \in SUBSET Item : ChangeMany(things)
  \/ Close \/ Crash
  \/ \E c \in Copy : DeleteCopy(c)

Spec == Init /\ [][Next]_vars

\* Tasks run, requests have a timeout, and tokio's locks serve those who wait in
\* order; the polling task starts a full sync every 300 seconds.  The socket
\* need not close, nor open again.
Fairness ==
  /\ \A t \in Task : WF_vars(Run(t))
  /\ SF_vars(Handle)
  /\ WF_vars(Start(Poll))

FairSpec == Spec /\ Fairness
-----------------------------------------------------------------------------
(* Properties *)

\* No item or collection is copied twice: unless a created copy could not be
\* recorded, a deletion failed, or the program stopped before the map was
\* saved, the map leads to every copy there is.
OneCopy ==
  ~orphaned => \A x \in Thing : CopiesOf(x) \subseteq {map[x]}

\* How far the calls are: who is beyond the start of a full sync has the permit,
\* and what is left to write has been fetched.
UnderWay ==
  /\ \A t \in Task :
       /\ permit = t => pc[t] \in {"fetch", "cloud", "map", "write"}
       /\ permit # t => pc[t] \notin {"fetch", "cloud"}
       /\ permit # t /\ t # Ws => pc[t] = "idle"
       /\ pc[t] \notin {"cloud", "map", "write"} => todo[t] = {}
       /\ \A x \in todo[t] : reply[t][x] # None
  /\ permit # Ws /\ pc[Ws] \notin {"idle", "deaf"} => note \in Item /\ todo[Ws] \subseteq {note}

\* Until something is missed, the map leads to copies that are there, and a full
\* sync writes what the cloud has.
MapLeads ==
  /\ orphaned => missed
  /\ ~missed =>
       /\ \A x \in Thing : map[x] # None => copies[map[x]] # None /\ copies[map[x]].of = x
       /\ \A t \in Task : permit = t => \A x \in todo[t] : reply[t][x] = cloud[x]

Sent(kind, x) == [kind |-> kind, item |-> x]

\* The copy of x is to be deleted.
Doomed(x) ==
  \/ pc[Ws] = "delete" /\ note = x
  \/ \E i \in 1..Len(wire) : wire[i] = Sent("delete", x)

\* x is to be mirrored after the last deletion that waits.
Renewed(x) ==
  \E i \in 1..Len(wire) :
    /\ wire[i] \in {Sent("change", x), [kind |-> "sync"]}
    /\ \A j \in (i + 1)..Len(wire) : wire[j] # Sent("delete", x)

UpToDate(x) == map[x] # None /\ copies[map[x]].content = cloud[x]

\* The notification task is at it, and has fetched the last content if any.
BeingMirrored(x) ==
  \/ pc[Ws] = "get" /\ note = x
  \/ pc[Ws] = "fetch"
  \/ x \in todo[Ws]

\* Where the mirror differs from the cloud, a notification that repairs it is
\* waiting or being handled.
Repaired(x) ==
  IF cloud[x] = None
  THEN Doomed(x) \/ (map[x] = None /\ x \notin todo[Ws])
  ELSE \/ Renewed(x)
       \/ /\ ~Doomed(x)
          /\ UpToDate(x) \/ BeingMirrored(x)
          /\ x \in todo[Ws] => reply[Ws][x] = cloud[x]

AllRepaired == ~missed => \A x \in Item : Repaired(x)

\* The map, the copies it leads to, and what makes the mirror follow the cloud.
CopiesInv == TypeOK /\ OneCopy /\ UnderWay /\ MapLeads /\ AllRepaired

Quiet == wire = <<>> /\ \A t \in Task : pc[t] \in {"idle", "deaf"}

\* Notifications are enough: when each one was heard and handled, and no full
\* sync was applying an older reply when something changed, the mirror has
\* just the items of the cloud, with their last content.
MirrorFollows ==
  Quiet /\ ~missed =>
    \A x \in Item :
      {copies[c].content : c \in CopiesOf(x)} = {cloud[x]} \ {None}

\* Nobody waits for the locks or the permit for ever.
SyncsEnd ==
  \A t \in Task : pc[t] \notin {"idle", "deaf"} ~> pc[t] \in {"idle", "deaf"}

\* Polling repairs what notifications have missed: once the cloud is quiet,
\* every item has a copy with its last content for ever, unless the map leads
\* to a copy that somebody has deleted.  (Copies of items that are gone from
\* the cloud are not promised to go.)
Converges ==
  <>[](\A x \in Item :
         cloud[x] # None =>
           /\ map[x] # None
           /\ copies[map[x]] \in {None, [of |-> x, content |-> cloud[x]]})
=============================================================================
