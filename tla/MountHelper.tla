----------------------------- MODULE MountHelper ------------------------------
(***************************************************************************)
(* Network shares (src/src/vault/smb.rs, src/src/bin/mount_helper.rs): the *)
(* proxy has a helper that runs as root write the credentials of a share   *)
(* to a file, an entry that names the file to fstab, and mount it; or undo *)
(* all that.                                                               *)
(*                                                                         *)
(* A helper is a process of its own: nothing keeps two from running at     *)
(* once, and it goes on when the request that has started it is dropped.   *)
(* An entry is known by its share's slug, in marks around it.              *)
(***************************************************************************)
EXTENDS Naturals, FiniteSets

CONSTANTS
  Helper,
  Slug, MountPoint,
  MaxFaults,     \* bound: helpers that are killed and steps that fail
  Torn,          \* a file that is cut off
  None

VARIABLES
  pc, job,       \* where each helper is, and its request
  next, fd,      \* the fstab it is to write; the file it has opened
  fstab, tmp,    \* /etc/fstab and the temporary file, which the helpers share
  creds,         \* the slugs that have a file of credentials
  mounted,       \* the mount points in use
  meant,         \* the entries that the requests so far have asked for
  clash,         \* have two helpers run at once?
  faults

vars == <<pc, job, next, fd, fstab, tmp, creds, mounted, meant, clash, faults>>

\* The entries between marks, and the mount points of the administrator's own.
Content == [entry : [Slug -> MountPoint \union {None}], own : SUBSET MountPoint]
Place == {"idle", "creds", "dir", "umount", "fstab", "open", "write", "rename", "mount", "remove"}

TypeOK ==
  /\ pc \in [Helper -> Place]
  /\ \A h \in Helper : job[h] # None =>
       /\ job[h].action \in {"mount", "unmount"}
       /\ job[h].slug \in Slug /\ job[h].mp \in MountPoint
  /\ next \in [Helper -> Content \union {None}]
  /\ fd \in [Helper -> {"none", "tmp", "fstab", "gone"}]
  /\ fstab \in Content \union {Torn} /\ tmp \in Content \union {Torn, None}
  /\ creds \subseteq Slug /\ mounted \subseteq MountPoint
  /\ meant \in [Slug -> MountPoint \union {None}]
  /\ clash \in BOOLEAN /\ faults \in 0..MaxFaults
-----------------------------------------------------------------------------
NoEntry == [s \in Slug |-> None]

Init ==
  /\ pc = [h \in Helper |-> "idle"] /\ job = [h \in Helper |-> None]
  /\ next = [h \in Helper |-> None] /\ fd = [h \in Helper |-> "none"]
  /\ \E own \in SUBSET MountPoint : fstab = [entry |-> NoEntry, own |-> own]
  /\ tmp = None /\ creds = {} /\ mounted = {} /\ meant = NoEntry
  /\ clash = FALSE /\ faults = 0

Set(var, h, v) == [var EXCEPT ![h] = v]
Goto(h, place) == pc' = Set(pc, h, place)
Fault == faults < MaxFaults /\ faults' = faults + 1

\* The helper exits, and says whether it went well.
Exit(h) ==
  /\ Goto(h, "idle") /\ job' = Set(job, h, None)
  /\ next' = Set(next, h, None) /\ fd' = Set(fd, h, "none")
-----------------------------------------------------------------------------
(* The requests; one that the proxy or the helper finds malformed changes nothing *)

\* perform_mount: with the item's username and password.
Mount(s, m) == [action |-> "mount", slug |-> s, mp |-> m]

\* perform_unmount: the caller names the mount point once more.
Unmount(s, m) == [action |-> "unmount", slug |-> s, mp |-> m]

\* invoke_helper starts the program; parse_request lets it begin.  Bound: once two
\* have run at once, no more are started.
Start(h) ==
  /\ pc[h] = "idle" /\ ~clash
  /\ \E s \in Slug, m \in MountPoint :
       \/ job' = Set(job, h, Mount(s, m)) /\ Goto(h, "creds")
       \/ job' = Set(job, h, Unmount(s, m)) /\ Goto(h, "umount")
  /\ clash' = (clash \/ \E g \in Helper \ {h} : pc[g] # "idle")
  /\ UNCHANGED <<next, fd, fstab, tmp, creds, mounted, meant, faults>>

\* A temporary file of its own, synced and renamed.
WriteCreds(h) ==
  /\ pc[h] = "creds" /\ Goto(h, "dir") /\ creds' = creds \union {job[h].slug}
  /\ UNCHANGED <<job, next, fd, fstab, tmp, mounted, meant, clash, faults>>

EnsureDir(h) ==
  /\ pc[h] = "dir" /\ Goto(h, "fstab")
  /\ UNCHANGED <<job, next, fd, fstab, tmp, creds, mounted, meant, clash, faults>>

\* A umount that fails does not stop the helper.
Umount(h) ==
  /\ pc[h] = "umount" /\ Goto(h, "fstab")
  /\ (mounted' = mounted \ {job[h].mp} \/ UNCHANGED mounted)
  /\ UNCHANGED <<job, next, fd, fstab, tmp, creds, meant, clash, faults>>
-----------------------------------------------------------------------------
(* write_fstab_block *)

\* The mount points that have an entry, but for that of the slug itself.
Taken(s) == fstab.own \union {fstab.entry[t] : t \in Slug \ {s}}

Entered(j) == IF j.action = "mount" THEN j.mp ELSE None
Edited(j) == [entry |-> [fstab.entry EXCEPT ![j.slug] = Entered(j)], own |-> fstab.own]

\* A mount point has one entry; marks that are cut off are an error too.
ReadFstab(h) ==
  /\ pc[h] = "fstab"
  /\ IF fstab = Torn \/ (job[h].action = "mount" /\ job[h].mp \in Taken(job[h].slug))
     THEN Exit(h)
     ELSE /\ next' = Set(next, h, Edited(job[h]))
          /\ Goto(h, "open") /\ UNCHANGED <<job, fd>>
  /\ UNCHANGED <<fstab, tmp, creds, mounted, meant, clash, faults>>

OpenTmp(h) ==
  /\ pc[h] = "open" /\ Goto(h, "write") /\ tmp' = Torn /\ fd' = Set(fd, h, "tmp")
  /\ UNCHANGED <<job, next, fstab, creds, mounted, meant, clash, faults>>

\* Over what another helper has written in the meantime, a mixture.
Leaves(h, old) == IF old = Torn THEN {next[h]} ELSE {next[h], Torn}

WriteTmp(h) ==
  /\ pc[h] = "write" /\ Goto(h, "rename")
  /\ \/ fd[h] = "tmp" /\ tmp' \in Leaves(h, tmp) /\ UNCHANGED fstab
     \/ fd[h] = "fstab" /\ fstab' \in Leaves(h, fstab) /\ UNCHANGED tmp
     \/ fd[h] = "gone" /\ UNCHANGED <<fstab, tmp>>
  /\ UNCHANGED <<job, next, fd, creds, mounted, meant, clash, faults>>

\* What the helpers have open goes where its name goes.
Follows(g) == IF fd[g] = "tmp" THEN "fstab" ELSE IF fd[g] = "fstab" THEN "gone" ELSE fd[g]

Rename(h) ==
  /\ pc[h] = "rename"
  /\ IF tmp = None THEN Exit(h) /\ UNCHANGED <<fstab, tmp, meant>>
     ELSE /\ fstab' = tmp /\ tmp' = None
          /\ meant' = [meant EXCEPT ![job[h].slug] = Entered(job[h])]
          /\ fd' = [g \in Helper |-> IF g = h THEN "none" ELSE Follows(g)]
          /\ Goto(h, IF job[h].action = "mount" THEN "mount" ELSE "remove")
          /\ UNCHANGED <<job, next>>
  /\ UNCHANGED <<creds, mounted, clash, faults>>
-----------------------------------------------------------------------------
DoMount(h) ==
  /\ pc[h] = "mount" /\ Exit(h)
  /\ (mounted' = mounted \union {job[h].mp} \/ UNCHANGED mounted)
  /\ UNCHANGED <<fstab, tmp, creds, meant, clash, faults>>

RemoveCreds(h) ==
  /\ pc[h] = "remove" /\ Exit(h) /\ creds' = creds \ {job[h].slug}
  /\ UNCHANGED <<fstab, tmp, mounted, meant, clash, faults>>

\* Mutant: a mount that comes to nothing takes its credentials back.
LostTakesBack(h) ==
  creds' = IF job[h].action = "mount" THEN creds \ {job[h].slug} ELSE creds

\* Nothing is undone.
Lost(h) == UNCHANGED creds

\* A step fails, or the helper is killed.
Fail(h) ==
  /\ pc[h] # "idle" /\ Fault /\ Lost(h) /\ Exit(h)
  /\ UNCHANGED <<fstab, tmp, mounted, meant, clash>>

Run(h) ==
  \/ Start(h) \/ WriteCreds(h) \/ EnsureDir(h) \/ Umount(h) \/ ReadFstab(h)
  \/ OpenTmp(h) \/ WriteTmp(h) \/ Rename(h) \/ DoMount(h) \/ RemoveCreds(h) \/ Fail(h)

Next == \E h \in Helper : Run(h)

Spec == Init /\ [][Next]_vars
-----------------------------------------------------------------------------
(* As long as no two helpers run at once, wherever one stops: fstab has what *)
(* the requests have asked for and the administrator's own entries, no mount *)
(* point twice, and each entry the credentials it names, which the next boot *)
(* needs to mount it.                                                        *)
FstabSound ==
  ~clash =>
    /\ fstab # Torn /\ fstab.entry = meant
    /\ \A s \in Slug : meant[s] # None => s \in creds /\ meant[s] \notin Taken(s)
=============================================================================
