------------------------------- MODULE Badger -------------------------------
(***************************************************************************)
(* The embedded badger database, as package storage uses it.  Badger is    *)
(* not part of the repository: this module models the keys that package    *)
(* storage keeps in it, its transactions (atomic commit, snapshot reads,   *)
(* conflict detection) and its Sequence, a counter leased in blocks.       *)
(*                                                                         *)
(* The keys are                                                            *)
(*   "<version>/<ULID>/chunk"  one per 64 KiB block of a copied stream     *)
(*   LATEST                    the header of the current clipboard (TTL)   *)
(*   PENDING                   versions that a running copy has protected  *)
(*   VERSION                   the end of the Sequence's current lease     *)
(***************************************************************************)
EXTENDS Naturals

CONSTANTS
  Copies,       (* Copy requests, each a call of WriteBatch.               *)
  NoKey,        (* What a lookup of a missing or expired key yields.       *)
  Lease,        (* Bandwidth of the Sequence (1000 in the code).           *)
  TxnCapacity,  (* Entries that fit in one badger transaction.             *)
  IoErrors      (* Whether a database operation may fail.                  *)

(* A chunk key with its value: the key is (ver, ulid), and the value is the
   idx-th block of the stream of request copy.                             *)
Chunk == [ver : Nat, ulid : Nat, copy : Copies, idx : Nat]

(* The value of LATEST (message Clipboard).  copy stands for the fields that
   describe the content (checksum, compression, nonces), size for the number
   of blocks written.                                                      *)
Header == [seq : Nat, copy : Copies, size : Nat]

(* The value of PENDING: the keys of the message's map.                    *)
LockedTransaction == [versions : SUBSET Nat]

ASSUME LeaseAssumption == Lease \in Nat \ {0}
ASSUME TxnCapacityAssumption == TxnCapacity \in Nat \ {0}
ASSUME IoErrorsAssumption == IoErrors \in BOOLEAN
ASSUME NoKeyAssumption == /\ NoKey \notin Chunk
                          /\ NoKey \notin Header
                          /\ NoKey \notin LockedTransaction
                          /\ NoKey \notin Nat

VARIABLES
  chunks,       (* The chunk keys in the database.                         *)
  latest,       (* Value of LATEST, or NoKey.                              *)
  pending,      (* Value of PENDING, or NoKey.                             *)
  version,      (* Value of VERSION, or NoKey.                             *)
  seq,          (* The Sequence in memory: next number, end of the lease.  *)
  gcTxn,        (* discard's transaction: none, its first, or a later one. *)
  conflict,     (* LATEST or PENDING was written since the first one began *)
  top,          (* History: a bound above every version handed out so far. *)
  rewound       (* History: a lease once began below top.                  *)

dbVars  == <<chunks, latest, pending, version>>

LeaseStart == IF version = NoKey THEN 0 ELSE version

(* Sequence.updateLease: the next lease begins where VERSION says, or at 0
   when the key is missing, and its end is stored before a number is used.  *)
UpdateLease(next) ==
  /\ version' = LeaseStart + Lease
  /\ seq' = [next |-> next, leased |-> LeaseStart + Lease]
  /\ rewound' = (rewound \/ LeaseStart < top)

NextVersion == IF seq.next >= seq.leased THEN LeaseStart ELSE seq.next

(* Mutant of SeqNext: a renewed lease does not count its first number.     *)
SeqNextUncounted ==
  /\ IF seq.next >= seq.leased
       THEN UpdateLease(LeaseStart)
       ELSE /\ seq' = [seq EXCEPT !.next = @ + 1]
            /\ UNCHANGED <<version, rewound>>
  /\ top' = IF NextVersion + 1 > top THEN NextVersion + 1 ELSE top

(* Sequence.Next, returning NextVersion.                                   *)
SeqNext ==
  /\ IF seq.next >= seq.leased
       THEN UpdateLease(LeaseStart + 1)
       ELSE /\ seq' = [seq EXCEPT !.next = @ + 1]
            /\ UNCHANGED <<version, rewound>>
  /\ top' = IF NextVersion + 1 > top THEN NextVersion + 1 ELSE top

(* Sequence.Release: hand the unused part of the lease back.  It fails, and
   changes nothing, when the VERSION key is missing.                       *)
SeqRelease ==
  /\ IF version = seq.leased
       THEN /\ version' = seq.next
            /\ seq' = [seq EXCEPT !.leased = seq.next]
       ELSE UNCHANGED <<version, seq>>
  /\ UNCHANGED <<top, rewound>>

(* A commit that writes LATEST or PENDING: a transaction that has read them
   before will fail with ErrConflict.                                      *)
CommitTracked == conflict' = (conflict \/ gcTxn = "first")

(* The chunk keys an iterator over the prefix "v/" meets.                  *)
WithPrefix(S, v) == {k \in S : k.ver = v}

Locked == IF pending = NoKey THEN {} ELSE pending.versions

BadgerInit ==
  /\ chunks = {}
  /\ latest = NoKey
  /\ pending = NoKey
  /\ version = Lease
  /\ seq = [next |-> 0, leased |-> Lease]
  /\ gcTxn = "none"
  /\ conflict = FALSE
  /\ top = 0
  /\ rewound = FALSE
=============================================================================
