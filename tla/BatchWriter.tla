---------------------------- MODULE BatchWriter -----------------------------
(***************************************************************************)
(* storage/batch_writer.go: a badger WriteBatch that is flushed whenever   *)
(* its estimated size passes valueLogFileSize.  Before the first such      *)
(* flush the version is recorded under PENDING, so that the garbage        *)
(* collector spares chunks no LATEST points to yet; Release removes it.    *)
(***************************************************************************)
EXTENDS Badger

CONSTANT
  BatchLimit    (* valueLogFileSize, in entries: every entry counts 1.     *)

ASSUME BatchLimitAssumption == BatchLimit \in Nat \ {0}

VARIABLES
  pc,           (* Where the WriteBatch call of a copy stands.             *)
  ver,          (* bw.version                                              *)
  written,      (* Blocks read from the stream so far.                     *)
  batch,        (* Chunk entries in the open badger transaction.           *)
  txnCount,     (* Entries in it.                                          *)
  entry,        (* The entry being added: a chunk, or NoKey for LATEST.    *)
  eof,          (* The stream has ended.                                   *)
  batchSize,    (* bw.batchSize                                            *)
  once          (* bw.once has run lockVersion.                            *)

batchVars == <<ver, written, batch, txnCount, entry, eof, batchSize, once>>

GoTo(c, label) == pc' = [pc EXCEPT ![c] = label]

(* Mutant of Validate: the size is tested before the entry is added.       *)
ValidateLate(c, e) ==
  /\ entry' = [entry EXCEPT ![c] = e]
  /\ batchSize' = [batchSize EXCEPT ![c] = @ + 1]
  /\ GoTo(c, IF batchSize[c] > BatchLimit THEN "lock" ELSE "set")

(* Validate up to the overflow test.  The flush it leads to takes two
   database transactions, the steps LockVersion and Overflow.              *)
Validate(c, e) ==
  /\ entry' = [entry EXCEPT ![c] = e]
  /\ batchSize' = [batchSize EXCEPT ![c] = @ + 1]
  /\ GoTo(c, IF batchSize[c] + 1 > BatchLimit THEN "lock" ELSE "set")

(* Mutant of LockVersion: the transaction is never committed.              *)
LockVersionLost(c) ==
  /\ pc[c] = "lock"
  /\ once' = [once EXCEPT ![c] = TRUE]
  /\ GoTo(c, "flush")
  /\ UNCHANGED <<chunks, latest, pending, conflict, ver, written, batch,
                 txnCount, entry, eof, batchSize>>

(* lockVersion: add the version to PENDING, once per batch writer.         *)
LockVersion(c) ==
  /\ pc[c] = "lock"
  /\ IF once[c]
       THEN UNCHANGED <<pending, once, conflict>>
       ELSE /\ pending' = [versions |-> Locked \union {ver[c]}]
            /\ once' = [once EXCEPT ![c] = TRUE]
            /\ CommitTracked
  /\ GoTo(c, "flush")
  /\ UNCHANGED <<chunks, latest, ver, written, batch, txnCount, entry, eof,
                 batchSize>>

(* The rest of Validate: commit what the batch holds and start a new one.
   The entry that overflowed is not counted in the new batch's size.       *)
Overflow(c) ==
  /\ pc[c] = "flush"
  /\ chunks' = chunks \union batch[c]
  /\ batch' = [batch EXCEPT ![c] = {}]
  /\ txnCount' = [txnCount EXCEPT ![c] = 0]
  /\ batchSize' = [batchSize EXCEPT ![c] = 0]
  /\ GoTo(c, "set")
  /\ UNCHANGED <<latest, pending, conflict, ver, written, entry, eof, once>>

(* SetEntry.  A badger WriteBatch whose transaction is full commits it and
   goes on with a new one.                                                 *)
SetEntry(c) ==
  LET full == txnCount[c] >= TxnCapacity
      new  == IF entry[c] = NoKey THEN {} ELSE {entry[c]}
  IN  /\ pc[c] = "set"
      /\ chunks' = IF full THEN chunks \union batch[c] ELSE chunks
      /\ batch' = [batch EXCEPT ![c] = IF full THEN new ELSE @ \union new]
      /\ txnCount' = [txnCount EXCEPT ![c] = IF full THEN 1 ELSE @ + 1]
      /\ GoTo(c, IF entry[c] = NoKey THEN "commit"
                 ELSE IF eof[c] THEN "seal" ELSE "read")
      /\ UNCHANGED <<latest, pending, conflict, ver, written, entry, eof,
                     batchSize, once>>

(* The final Flush: the chunks still buffered and LATEST, in one commit.   *)
FlushLatest(c) ==
  /\ pc[c] = "commit"
  /\ chunks' = chunks \union batch[c]
  /\ latest' = [seq |-> ver[c], copy |-> c, size |-> written[c]]
  /\ CommitTracked
  /\ batch' = [batch EXCEPT ![c] = {}]
  /\ GoTo(c, "releaseOk")
  /\ UNCHANGED <<pending, ver, written, txnCount, entry, eof, batchSize, once>>

(* Mutant of UnlockVersion: the map is read and written back as it was.    *)
UnlockVersionKept(c) ==
  IF pending = NoKey
    THEN UNCHANGED <<pending, conflict>>
    ELSE UNCHANGED pending /\ CommitTracked

(* unlockVersion: the transaction does nothing when PENDING is missing.    *)
UnlockVersion(c) ==
  IF pending = NoKey
    THEN UNCHANGED <<pending, conflict>>
    ELSE /\ pending' = [versions |-> Locked \ {ver[c]}]
         /\ CommitTracked

(* The batch writers of the requests in S go out of scope.                 *)
Forget(S) ==
  /\ ver' = [c \in Copies |-> IF c \in S THEN 0 ELSE ver[c]]
  /\ written' = [c \in Copies |-> IF c \in S THEN 0 ELSE written[c]]
  /\ batch' = [c \in Copies |-> IF c \in S THEN {} ELSE batch[c]]
  /\ txnCount' = [c \in Copies |-> IF c \in S THEN 0 ELSE txnCount[c]]
  /\ entry' = [c \in Copies |-> IF c \in S THEN NoKey ELSE entry[c]]
  /\ eof' = [c \in Copies |-> IF c \in S THEN FALSE ELSE eof[c]]
  /\ batchSize' = [c \in Copies |-> IF c \in S THEN 0 ELSE batchSize[c]]
  /\ once' = [c \in Copies |-> IF c \in S THEN FALSE ELSE once[c]]

(* Mutant of Release: the version is unlocked only after a success.        *)
ReleaseOnSuccess(c) ==
  /\ pc[c] \in {"releaseOk", "releaseErr"}
  /\ IF pc[c] = "releaseOk" THEN UnlockVersion(c)
     ELSE UNCHANGED <<pending, conflict>>
  /\ GoTo(c, IF pc[c] = "releaseOk" THEN "ok" ELSE "failed")
  /\ Forget({c})
  /\ UNCHANGED <<chunks, latest>>

(* Release: cancel the batch and unlock.  A failure to unlock is logged.   *)
Release(c) ==
  /\ pc[c] \in {"releaseOk", "releaseErr"}
  /\ \/ UnlockVersion(c)
     \/ IoErrors /\ UNCHANGED <<pending, conflict>>
  /\ GoTo(c, IF pc[c] = "releaseOk" THEN "ok" ELSE "failed")
  /\ Forget({c})
  /\ UNCHANGED <<chunks, latest>>

BatchInit ==
  /\ pc = [c \in Copies |-> "idle"]
  /\ ver = [c \in Copies |-> 0]
  /\ written = [c \in Copies |-> 0]
  /\ batch = [c \in Copies |-> {}]
  /\ txnCount = [c \in Copies |-> 0]
  /\ entry = [c \in Copies |-> NoKey]
  /\ eof = [c \in Copies |-> FALSE]
  /\ batchSize = [c \in Copies |-> 0]
  /\ once = [c \in Copies |-> FALSE]
=============================================================================
