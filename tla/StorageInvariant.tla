-------------------------- MODULE StorageInvariant --------------------------
(***************************************************************************)
(* The inductive invariant behind LatestWhole, PasteWhole,                 *)
(* RunningCopyIntact and OneCopyPerVersion.                                *)
(*                                                                         *)
(* All of it but the first three parts is conditional on ~rewound: once    *)
(* DropAll has removed VERSION, a lease may begin at 0 again and versions  *)
(* are no longer unique.                                                   *)
(***************************************************************************)
EXTENDS Storage

(* Requests that hold a version, the ones about to release it included.    *)
Live == Writing \union {c \in Copies : pc[c] \in {"releaseOk", "releaseErr"}}

(* A copy holds the read lock from its first to its last step.             *)
CopyLocked ==
  \A c \in Copies : pc[c] \notin {"idle", "ok", "failed"} => c \in rlocked

(* Nothing runs in a stopped process.                                      *)
DownIdle ==
  status = "down" => \A c \in Copies : pc[c] \in {"idle", "ok", "failed"}

(* What a running Sequence hands out next is above every version in use.   *)
SeqAbove == Running => seq.next >= top

VersionsBelow ==
  /\ \A k \in chunks \union todo \union dels : k.ver < top
  /\ \A c \in Live : ver[c] < top
  /\ latest # NoKey => latest.seq < top

(* Versions in use are distinct, and a running copy's is not published.    *)
VersionsDistinct ==
  /\ \A c, d \in Live : ver[c] = ver[d] => c = d
  /\ \A j, k \in chunks : j.ver = k.ver => j.copy = k.copy
  /\ latest # NoKey => \A c \in Writing : ver[c] # latest.seq

(* ULIDs increase: every chunk stored or buffered has an earlier one.      *)
UlidsBelow ==
  /\ \A k \in chunks : k.ulid < ulid
  /\ \A c \in Writing : \A k \in batch[c] \union Adding(c) :
       k.ulid < ulid /\ k.ver = ver[c]

(* A copy starts with a new batch writer.                                  *)
BatchFresh ==
  \A c \in Copies : pc[c] \in {"idle", "next"} =>
    /\ written[c] = 0
    /\ batch[c] = {}
    /\ txnCount[c] = 0
    /\ batchSize[c] = 0
    /\ ~once[c]

(* Before the first overflow the transaction of a batch writer holds no more
   than batchSize counts, so that badger does not commit it by itself.     *)
BatchFits ==
  \A c \in Writing : ~once[c] =>
    /\ pc[c] \in {"read", "seal"} => txnCount[c] <= batchSize[c]
    /\ pc[c] = "set" => txnCount[c] < batchSize[c]
    /\ pc[c] \in {"read", "seal", "set"} => batchSize[c] <= BatchLimit

(* PENDING protects a running copy before its first chunk is stored.       *)
Protected ==
  /\ \A c \in Writing : pc[c] = "flush" => once[c]
  /\ \A c \in Writing : once[c] => ver[c] \in Locked
  /\ \A c \in Writing : \A k \in chunks : k.ver = ver[c] => once[c]

(* What discard is about to delete is neither published nor being written. *)
DiscardSafe ==
  \A k \in todo \union dels :
    /\ latest # NoKey => k.ver # latest.seq
    /\ \A c \in Writing : k.ver # ver[c]

(* A running paste delivers the whole stream that its header describes.    *)
PasteIntact ==
  \A p \in Pastes :
    /\ ppc[p] \in {"idle", "open"} => out[p] = {}
    /\ ppc[p] = "send" =>
         /\ header[p] # NoKey
         /\ out[p] \subseteq snap[p]
         /\ Whole(snap[p], header[p].copy, header[p].size)

(* The parts that hold while no lease has begun anew at an old version:
   those about the database and the running copies ...                     *)
StoreSafe ==
  /\ SeqAbove
  /\ VersionsBelow
  /\ VersionsDistinct
  /\ UlidsBelow
  /\ BatchFresh
  /\ BatchFits
  /\ Protected
  /\ DiscardSafe
  /\ LatestWhole
  /\ RunningCopyIntact

(* ... and those about pastes.                                             *)
PasteSafe == PasteIntact /\ PasteWhole

(* The inductive invariant of Storage, when a batch of BatchLimit entries
   fits in a badger transaction.                                           *)
Inductive ==
  /\ TypeOK
  /\ CopyLocked
  /\ DownIdle
  /\ ~rewound => StoreSafe /\ PasteSafe

(* Without DropAll, VERSION stays in the database, at or above the end of
   the lease in memory and above every version handed out.                 *)
LeaseAhead ==
  /\ ~rewound
  /\ version \in Nat
  /\ version >= top
  /\ Running => seq.leased <= version /\ seq.next >= top
=============================================================================
