---------------------------- MODULE MCVaultCache -----------------------------
(* VaultCache on small instances: the operations its tasks are asked for. *)
EXTENDS VaultCache

CONSTANTS n1, other, review, p1

Update(http, i)   == [op |-> "update", http |-> http, item |-> i, part |-> p1]
DeleteItem(http, i) == [op |-> "delete", http |-> http, item |-> i]
Move(http, i, f)  == [op |-> "move", http |-> http, item |-> i, folder |-> f]
File(http, i, n)  == [op |-> "file", http |-> http, item |-> i, fname |-> n]
Clone(http, i, f) == [op |-> "clone", http |-> http, item |-> i, name |-> n1,
                      folder |-> f]
Create(http, f)   == [op |-> "create", http |-> http, name |-> n1, folder |-> f]
Upsert            == [op |-> "upsert", http |-> FALSE, name |-> n1, part |-> p1]
EnsureFolder(n)   == [op |-> "ensure", http |-> FALSE, fname |-> n]
DropFolder(f)     == [op |-> "rmdir", http |-> TRUE, folder |-> f]
Sync(http)        == [op |-> "sync", http |-> http]

\* Every operation that syncs after its write.
SyncingJobs ==
  {Update(TRUE, i) : i \in 1..3} \union {DeleteItem(TRUE, 1), Create(TRUE, None)}
  \union {Move(http, 1, 2) : http \in BOOLEAN} \union {File(http, 1, review) : http \in BOOLEAN}
  \union {Clone(TRUE, 1, None), Upsert, EnsureFolder(review), Sync(TRUE), Sync(FALSE)}
  \union {DropFolder(f) : f \in 1..3}

\* A write without a sync, then a move.
MoveJobs == {Update(FALSE, 1), Move(TRUE, 1, 2), File(TRUE, 1, review)}
=============================================================================
