--------------------------------- MODULE Gc ---------------------------------
(***************************************************************************)
(* storage/gc.go: discard, which deletes the chunks that neither LATEST    *)
(* points to nor PENDING protects.  It reads LATEST and PENDING and        *)
(* iterates in the snapshot its first transaction sees; the deletions take *)
(* effect when a transaction commits.                                      *)
(***************************************************************************)
EXTENDS Badger, FiniteSets

CONSTANT
  DiscardMax    (* discardKeyMaxNumber                                     *)

ASSUME DiscardMaxAssumption == DiscardMax \in Nat \ {0}

VARIABLES
  todo,         (* Discardable keys of the snapshot not yet reached.       *)
  dels,         (* Deletions in the current transaction.                   *)
  deleted       (* deleted                                                 *)

gcVars == <<gcTxn, todo, dels, deleted>>

(* Mutants of Discardable: PENDING is ignored; LATEST is.                  *)
DiscardableUnpublished(k) == latest = NoKey \/ k.ver # latest.seq
DiscardableUnlocked(k) == k.ver \notin Locked

(* The test on a key in discard's loop.                                    *)
Discardable(k) ==
  /\ latest = NoKey \/ k.ver # latest.seq
  /\ k.ver \notin Locked

(* From NewTransaction to the start of the loop.                           *)
DiscardBegin ==
  /\ gcTxn = "none"
  /\ gcTxn' = "first"
  /\ conflict' = FALSE
  /\ todo' = {k \in chunks : Discardable(k)}
  /\ dels' = {}
  /\ deleted' = 0
  /\ UNCHANGED chunks

(* Mutant of DiscardKey: the count runs the wrong way.                     *)
DiscardKeyDown ==
  /\ gcTxn # "none"
  /\ deleted < DiscardMax
  /\ Cardinality(dels) < TxnCapacity
  /\ \E k \in todo : /\ dels' = dels \union {k}
                     /\ todo' = todo \ {k}
  /\ deleted' = deleted - 1
  /\ UNCHANGED <<chunks, gcTxn, conflict>>

(* One turn of the loop on a discardable key.  The scan runs in a random
   direction and may stop anywhere, so the order of the keys is left open.  *)
DiscardKey ==
  /\ gcTxn # "none"
  /\ deleted < DiscardMax
  /\ Cardinality(dels) < TxnCapacity
  /\ \E k \in todo : /\ dels' = dels \union {k}
                     /\ todo' = todo \ {k}
  /\ deleted' = deleted + 1
  /\ UNCHANGED <<chunks, gcTxn, conflict>>

(* The same when Delete reports ErrTxnTooBig: commit, and delete the key in
   a new transaction, which has read nothing.                              *)
DiscardTooBig ==
  /\ gcTxn # "none"
  /\ deleted < DiscardMax
  /\ Cardinality(dels) >= TxnCapacity
  /\ ~conflict
  /\ chunks' = chunks \ dels
  /\ gcTxn' = "later"
  /\ \E k \in todo : /\ dels' = {k}
                     /\ todo' = todo \ {k}
  /\ deleted' = deleted + 1
  /\ UNCHANGED conflict

DiscardEnd ==
  /\ gcTxn' = "none"
  /\ conflict' = FALSE
  /\ todo' = {}
  /\ dels' = {}
  /\ deleted' = 0

(* The scan ends (last key, DiscardMax or discardKeyTimeout) and the
   transaction commits, unless badger finds a conflict.                    *)
DiscardCommit ==
  /\ gcTxn # "none"
  /\ chunks' = IF conflict THEN chunks ELSE chunks \ dels
  /\ DiscardEnd

(* Any of the early error returns of discard.                              *)
DiscardError ==
  /\ gcTxn # "none"
  /\ IoErrors \/ (conflict /\ Cardinality(dels) >= TxnCapacity)
  /\ UNCHANGED chunks
  /\ DiscardEnd

GcInit ==
  /\ todo = {}
  /\ dels = {}
  /\ deleted = 0
=============================================================================
