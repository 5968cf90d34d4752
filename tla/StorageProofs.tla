---------------------------- MODULE StorageProofs ---------------------------
(***************************************************************************)
(* Proofs about Storage, for any number of requests, chunks and restarts.  *)
(***************************************************************************)
EXTENDS StorageInvariant, WellFoundedInduction, TLAPS

USE LeaseAssumption, TxnCapacityAssumption, IoErrorsAssumption,
    BatchLimitAssumption, DiscardMaxAssumption, BoundsAssumption

(* Groups of definitions that most steps expand together.                  *)
USE DEF GoTo, dbVars, batchVars, gcVars, procVars, lockVars, pasteVars

-----------------------------------------------------------------------------
(* Type correctness                                                        *)

(* The initial state of the store is type correct.                         *)
LEMMA TypeInit == Init => TypeOK
<1> SUFFICES ASSUME Init PROVE TypeOK
  OBVIOUS
<1>1. /\ version \in Nat \union {NoKey}
      /\ seq \in [next : Nat, leased : Nat]
  BY DEF Init, BadgerInit
<1>2. /\ conflict \in BOOLEAN
      /\ rewound \in BOOLEAN
      /\ eof \in [Copies -> BOOLEAN]
      /\ once \in [Copies -> BOOLEAN]
  BY DEF Init, BadgerInit, BatchInit
<1> QED
  BY <1>1, <1>2 DEF Init, BadgerInit, BatchInit, GcInit, TypeOK

(* Whatever a Sequence stores and keeps in memory is a number.             *)
LEMMA SeqTypes ==
  ASSUME TypeOK
  PROVE  /\ LeaseStart \in Nat
         /\ NextVersion \in Nat
         /\ SeqNext => /\ version' \in Nat \union {NoKey}
                       /\ seq' \in [next : Nat, leased : Nat]
                       /\ top' \in Nat
                       /\ rewound' \in BOOLEAN
<1>1. LeaseStart \in Nat /\ NextVersion \in Nat
  BY DEF TypeOK, LeaseStart, NextVersion
<1>2. ASSUME SeqNext PROVE rewound' \in BOOLEAN
  BY <1>2, Zenon DEF TypeOK, SeqNext, UpdateLease
<1>3. ASSUME SeqNext
      PROVE  /\ version' \in Nat \union {NoKey}
             /\ seq' \in [next : Nat, leased : Nat]
             /\ top' \in Nat
  BY <1>1, <1>3 DEF TypeOK, SeqNext, UpdateLease
<1> QED BY <1>1, <1>2, <1>3

(* The conflict flag stays Boolean.                                        *)
LEMMA ConflictType == CommitTracked => conflict' \in BOOLEAN
BY DEF CommitTracked

(* Locked is a set of versions.                                            *)
LEMMA LockedType == ASSUME TypeOK PROVE Locked \in SUBSET Nat
BY DEF TypeOK, Locked, LockedTransaction

(* Forgetting batch writers keeps their types.                             *)
LEMMA ForgetType ==
  ASSUME TypeOK, NEW S, Forget(S)
  PROVE  /\ ver' \in [Copies -> Nat]
         /\ written' \in [Copies -> Nat]
         /\ batch' \in [Copies -> SUBSET Chunk]
         /\ txnCount' \in [Copies -> Nat]
         /\ entry' \in [Copies -> Chunk \union {NoKey}]
         /\ eof' \in [Copies -> BOOLEAN]
         /\ batchSize' \in [Copies -> Nat]
         /\ once' \in [Copies -> BOOLEAN]
<1>1. eof' \in [Copies -> BOOLEAN] /\ once' \in [Copies -> BOOLEAN]
  BY DEF TypeOK, Forget
<1> QED BY <1>1 DEF TypeOK, Forget

(* A step of WriteBatch preserves the types.                               *)
LEMMA TypeWriteBatch ==
  ASSUME TypeOK, NEW c \in Copies, WriteBatch(c)
  PROVE  TypeOK'
<1> USE DEF TypeOK
<1>1. CASE CopyBegin(c)
  BY <1>1 DEF WriteBatch, CopyBegin, RLock
<1>2. CASE CopyVersion(c)
  BY <1>2, SeqTypes DEF WriteBatch, CopyVersion, RUnlock
<1>3. CASE CopyRead(c)
  BY <1>3 DEF WriteBatch, CopyRead, Validate, Chunk
<1>4. CASE CopyEof(c)
  BY <1>4 DEF WriteBatch, CopyEof
<1>5. CASE CopySeal(c)
  BY <1>5 DEF WriteBatch, CopySeal, Validate
<1>6. CASE CopyBatch(c)
  <2> USE DEF WriteBatch, CopyBatch
  <2>1. CASE LockVersion(c)
    <3>1. conflict' \in BOOLEAN
      BY <2>1, ConflictType DEF LockVersion
    <3>2. once' \in [Copies -> BOOLEAN]
      BY <2>1 DEF LockVersion
    <3>3. pending' \in LockedTransaction \union {NoKey}
      BY <2>1, LockedType DEF LockVersion, LockedTransaction
    <3> QED BY <1>6, <2>1, <3>1, <3>2, <3>3 DEF LockVersion
  <2>2. CASE Overflow(c)
    BY <1>6, <2>2 DEF Overflow
  <2>3. CASE SetEntry(c)
    BY <1>6, <2>3 DEF SetEntry
  <2>4. CASE FlushLatest(c)
    BY <1>6, <2>4, ConflictType DEF FlushLatest, Header
  <2> QED BY <1>6, <2>1, <2>2, <2>3, <2>4
<1>7. CASE CopyError(c)
  BY <1>7 DEF WriteBatch, CopyError
<1>8. CASE CopyEnd(c)
  <2> USE DEF CopyEnd, Release
  <2>1. conflict' \in BOOLEAN
    BY <1>8, ConflictType DEF UnlockVersion
  <2>2. pending' \in LockedTransaction \union {NoKey}
    BY <1>8, LockedType DEF UnlockVersion, LockedTransaction
  <2>3. /\ ver' \in [Copies -> Nat]
        /\ written' \in [Copies -> Nat]
        /\ batch' \in [Copies -> SUBSET Chunk]
        /\ txnCount' \in [Copies -> Nat]
        /\ entry' \in [Copies -> Chunk \union {NoKey}]
        /\ eof' \in [Copies -> BOOLEAN]
        /\ batchSize' \in [Copies -> Nat]
        /\ once' \in [Copies -> BOOLEAN]
    BY <1>8, ForgetType
  <2>4. /\ pc' \in [Copies -> {"idle", "next", "read", "lock", "flush", "set",
                              "seal", "commit", "releaseOk", "releaseErr",
                              "ok", "failed"}]
        /\ rlocked' \in SUBSET (Copies \union Pastes \union {Collector})
    BY <1>8 DEF RUnlock
  <2>5. UNCHANGED <<gcVars, procVars, pasteVars, cpc>>
    BY DEF WriteBatch
  <2> HIDE DEF CopyEnd, Release
  <2>6. UNCHANGED <<chunks, latest, version, seq, top, rewound, ulid, wlock>>
    BY <1>8 DEF CopyEnd, Release
  <2> QED BY <2>1, <2>2, <2>3, <2>4, <2>5, <2>6
<1> QED BY <1>1, <1>2, <1>3, <1>4, <1>5, <1>6, <1>7, <1>8 DEF WriteBatch

(* A step of ReadBatch preserves the types.                                *)
LEMMA TypeReadBatch ==
  ASSUME TypeOK, NEW p \in Pastes, ReadBatch(p)
  PROVE  TypeOK'
<1> USE DEF TypeOK, ReadBatch
<1>1. CASE PasteBegin(p)
  BY <1>1 DEF PasteBegin, RLock
<1>2. CASE PasteOpen(p)
  BY <1>2 DEF PasteOpen, WithPrefix
<1>3. CASE PasteNotFound(p)
  BY <1>3 DEF PasteNotFound, RUnlock
<1>4. CASE PasteSend(p)
  BY <1>4 DEF PasteSend, IterNext
<1>5. CASE PasteFlush(p)
  BY <1>5 DEF PasteFlush, RUnlock
<1>6. CASE PasteError(p)
  BY <1>6 DEF PasteError, RUnlock
<1> QED BY <1>1, <1>2, <1>3, <1>4, <1>5, <1>6

(* A step of DropAll preserves the types.                                  *)
LEMMA TypeDropAll ==
  ASSUME TypeOK, NEW l \in Clears, DropAll(l)
  PROVE  TypeOK'
BY DEF TypeOK, DropAll, ClearLock, ClearDrop

(* A step of the collector preserves the types.                            *)
LEMMA TypeCollect == ASSUME TypeOK, Collect PROVE TypeOK'
<1> USE DEF TypeOK, Collect
<1>1. CASE GcTick
  BY <1>1 DEF GcTick, DiscardBegin, RLock
<1>2. CASE GcScan
  BY <1>2 DEF GcScan, DiscardKey, DiscardTooBig
<1>3. CASE GcDone
  <2>1. chunks' \in SUBSET Chunk
    BY <1>3 DEF GcDone, DiscardCommit, DiscardError
  <2>2. DiscardEnd
    BY <1>3 DEF GcDone, DiscardCommit, DiscardError
  <2> QED BY <1>3, <2>1, <2>2 DEF GcDone, DiscardEnd, RUnlock
<1> QED BY <1>1, <1>2, <1>3

(* Expiry, Close, the end and the start of the process preserve the types.  *)
LEMMA TypeProcess ==
  ASSUME TypeOK, Expire \/ Close \/ Exit \/ Open
  PROVE  TypeOK'
<1> USE DEF TypeOK
<1>1. CASE Expire
  BY <1>1 DEF Expire
<1>2. CASE Close
  BY <1>2 DEF Close, SeqRelease
<1>3. CASE Exit
  <2>1. /\ ver' \in [Copies -> Nat]
        /\ written' \in [Copies -> Nat]
        /\ batch' \in [Copies -> SUBSET Chunk]
        /\ txnCount' \in [Copies -> Nat]
        /\ entry' \in [Copies -> Chunk \union {NoKey}]
        /\ eof' \in [Copies -> BOOLEAN]
        /\ batchSize' \in [Copies -> Nat]
        /\ once' \in [Copies -> BOOLEAN]
    BY <1>3, ForgetType DEF Exit
  <2>2. /\ status' \in {"up", "closing", "down"}
        /\ restarts' \in Nat
        /\ pc' \in [Copies -> {"idle", "next", "read", "lock", "flush", "set",
                               "seal", "commit", "releaseOk", "releaseErr",
                               "ok", "failed"}]
        /\ ppc' \in [Pastes -> {"idle", "open", "send", "done", "notFound",
                                "failed"}]
        /\ cpc' \in [Clears -> {"idle", "wait", "done", "failed"}]
    BY <1>3 DEF Exit
  <2>3. /\ gcTxn' \in {"none", "first", "later"}
        /\ conflict' \in BOOLEAN
        /\ todo' \in SUBSET Chunk
        /\ dels' \in SUBSET Chunk
        /\ deleted' \in Nat
        /\ rlocked' \in SUBSET (Copies \union Pastes \union {Collector})
        /\ wlock' \in Clears \union {NoKey}
    BY <1>3 DEF Exit, DiscardEnd
  <2> QED BY <1>3, <2>1, <2>2, <2>3 DEF Exit
<1>4. CASE Open
  <2>1. rewound' \in BOOLEAN
    BY <1>4, Zenon DEF Open, UpdateLease
  <2> QED BY <1>4, <2>1, SeqTypes DEF Open, UpdateLease
<1> QED BY <1>1, <1>2, <1>3, <1>4

(* Every step preserves the types.                                         *)
LEMMA TypeNext == TypeOK /\ [Next]_vars => TypeOK'
<1> SUFFICES ASSUME TypeOK, [Next]_vars PROVE TypeOK'
  OBVIOUS
<1>1. CASE UNCHANGED vars
  BY <1>1 DEF vars, TypeOK
<1> QED
  BY <1>1, TypeWriteBatch, TypeReadBatch, TypeDropAll, TypeCollect,
     TypeProcess
  DEF Next

(* The store keeps its types: in particular VERSION and the Sequence hold
   numbers, and PENDING is missing or a set of versions, through every crash,
   release and renewal of a lease.                                         *)
THEOREM TypeCorrect == Spec => []TypeOK
BY TypeInit, TypeNext, PTL DEF Spec

-----------------------------------------------------------------------------
(* Facts about the operators of the model                                  *)

(* A set of numbers that is not empty has a least element.                 *)
LEMMA NatHasLeast ==
  ASSUME NEW T \in SUBSET Nat, T # {}
  PROVE  \E x \in T : \A y \in T : x <= y
<1>1. \E x \in T : \A y \in T : ~ (<<y, x>> \in OpToRel(<, Nat))
  BY NatLessThanWellFounded, WFMin, Zenon
<1>2. PICK x \in T : \A y \in T : ~ (<<y, x>> \in OpToRel(<, Nat))
  BY <1>1
<1>3. ASSUME NEW y \in T PROVE ~ (y < x)
  <2>1. <<y, x>> \in Nat \X Nat
    OBVIOUS
  <2>2. ~ (<<y, x>> \in {ss \in Nat \X Nat : ss[1] < ss[2]})
    BY <1>2, Zenon DEF OpToRel
  <2> QED BY <2>1, <2>2
<1> QED BY <1>3

(* When the iterator of ReadBatch is at its end, every chunk of the snapshot
   has been written.                                                       *)
LEMMA IterAtEnd ==
  ASSUME TypeOK, NEW p \in Pastes, IterNext(p) = {}
  PROVE  snap[p] \subseteq out[p]
<1> DEFINE T == {k.ulid : k \in snap[p] \ out[p]}
<1>1. SUFFICES ASSUME snap[p] \ out[p] # {} PROVE FALSE
  OBVIOUS
<1>2. T \in SUBSET Nat /\ T # {}
  BY <1>1 DEF TypeOK, Chunk
<1>3. PICK x \in T : \A y \in T : x <= y
  BY <1>2, NatHasLeast
<1>4. PICK k \in snap[p] \ out[p] : k.ulid = x
  OBVIOUS
<1>5. \A j \in snap[p] \ out[p] : k.ulid <= j.ulid
  BY <1>3, <1>4
<1> QED BY <1>4, <1>5 DEF IterNext

(* A stream to which its next block is appended, under a ULID greater than
   the others, is still whole.                                             *)
LEMMA WholeAppend ==
  ASSUME NEW S \in SUBSET Chunk, NEW c, NEW n \in Nat, Whole(S, c, n),
         NEW k \in Chunk, k.copy = c, k.idx = n + 1,
         \A j \in S : j.ulid < k.ulid
  PROVE  Whole(S \union {k}, c, n + 1)
<1> DEFINE U == S \union {k}
<1>1. \A j \in U : j.copy = c /\ j.idx \in 1..(n + 1)
  BY DEF Whole, Chunk
<1>2. \A i \in 1..(n + 1) : \E j \in U : j.idx = i
  BY DEF Whole
<1>3. ASSUME NEW i \in U, NEW j \in U
      PROVE  i.ulid < j.ulid <=> i.idx < j.idx
  BY DEF Whole, Chunk
<1> QED BY <1>1, <1>2, <1>3 DEF Whole

-----------------------------------------------------------------------------
(* The steps of WriteBatch                                                 *)

(* A step of one copy leaves the batch writers of the others alone.        *)
LEMMA OtherCopies ==
  ASSUME TypeOK, NEW c \in Copies, WriteBatch(c), NEW d \in Copies, d # c
  PROVE  /\ pc'[d] = pc[d]
         /\ ver'[d] = ver[d]
         /\ written'[d] = written[d]
         /\ batch'[d] = batch[d]
         /\ txnCount'[d] = txnCount[d]
         /\ batchSize'[d] = batchSize[d]
         /\ once'[d] = once[d]
         /\ Adding(d)' = Adding(d)
<1> USE DEF TypeOK
<1>1. /\ pc'[d] = pc[d]
      /\ ver'[d] = ver[d]
      /\ written'[d] = written[d]
      /\ batch'[d] = batch[d]
      /\ txnCount'[d] = txnCount[d]
      /\ entry'[d] = entry[d]
      /\ batchSize'[d] = batchSize[d]
  <2>1. CASE CopyBegin(c) \/ CopyVersion(c) \/ CopyEof(c) \/ CopyError(c)
    BY <2>1 DEF CopyBegin, CopyVersion, CopyEof, CopyError
  <2>2. CASE CopyRead(c) \/ CopySeal(c)
    BY <2>2 DEF CopyRead, CopySeal, Validate
  <2>3. CASE CopyBatch(c)
    BY <2>3 DEF CopyBatch, LockVersion, Overflow, SetEntry, FlushLatest
  <2>4. CASE CopyEnd(c)
    BY <2>4 DEF CopyEnd, Release, Forget
  <2> QED BY <2>1, <2>2, <2>3, <2>4 DEF WriteBatch
<1>2. once'[d] = once[d]
  <2>1. CASE LockVersion(c)
    BY <2>1 DEF LockVersion
  <2>2. CASE CopyEnd(c)
    <3>1. once' = [e \in Copies |-> IF e \in {c} THEN FALSE ELSE once[e]]
      BY <2>2 DEF CopyEnd, Release, Forget
    <3> QED BY <3>1
  <2>3. CASE UNCHANGED once
    BY <2>3
  <2> QED
    BY <2>1, <2>2, <2>3
    DEF WriteBatch, CopyBegin, CopyVersion, CopyRead, CopyEof, CopySeal,
        CopyBatch, CopyError, Overflow, SetEntry, FlushLatest
<1> QED BY <1>1, <1>2 DEF Adding

(* The parts of StoreSafe about versions depend on the database, the numbers
   and the set of copies that hold one.                                    *)
LEMMA FrameVersions ==
  ASSUME TypeOK, StoreSafe, Writing' \subseteq Writing, Live' \subseteq Live,
         UNCHANGED <<chunks, latest, seq, top, todo, dels, status, ver>>
  PROVE  /\ SeqAbove' /\ VersionsBelow' /\ VersionsDistinct' /\ DiscardSafe'
         /\ LatestWhole'
<1>1. SeqAbove' /\ VersionsBelow' /\ VersionsDistinct' /\ DiscardSafe'
  BY DEF StoreSafe, SeqAbove, VersionsBelow, VersionsDistinct, DiscardSafe,
         Running, Live
<1>2. LatestWhole'
  BY DEF StoreSafe, LatestWhole, Whole, WithPrefix
<1> QED BY <1>1, <1>2

(* StoreSafe is about the database, the Sequence, the batch writers and what
   discard is about to delete.                                             *)
LEMMA StoreFrame ==
  ASSUME TypeOK, StoreSafe, Writing' = Writing, Live' = Live,
         UNCHANGED <<chunks, latest, pending, seq, top, status, pc, batchVars,
                     todo, dels, ulid>>
  PROVE  StoreSafe'
<1>1. /\ SeqAbove' /\ VersionsBelow' /\ VersionsDistinct' /\ DiscardSafe'
      /\ LatestWhole'
  BY FrameVersions
<1>2. \A c \in Writing : Adding(c)' = Adding(c) /\ Stream(c)' = Stream(c)
  BY DEF Adding, Stream, WithPrefix
<1>3. UlidsBelow' /\ BatchFresh' /\ BatchFits' /\ Protected'
  BY <1>2 DEF StoreSafe, UlidsBelow, BatchFresh, BatchFits, Protected, Locked
<1>4. RunningCopyIntact'
  BY <1>2 DEF StoreSafe, RunningCopyIntact, Whole
<1> QED BY <1>1, <1>3, <1>4 DEF StoreSafe

(* A copy that takes the lock, meets the end of its stream or fails changes
   nothing that StoreSafe is about.                                        *)
LEMMA SafeQuiet ==
  ASSUME TypeOK, StoreSafe, NEW c \in Copies, WriteBatch(c),
         \/ CopyBegin(c) \/ CopyEof(c) \/ CopyError(c)
  PROVE  StoreSafe'
<1> USE DEF TypeOK
<1>1. /\ UNCHANGED <<chunks, latest, pending, seq, top, todo, dels, status,
                     ver, written, batch, txnCount, batchSize, once, ulid>>
      /\ Writing' \subseteq Writing
      /\ Live' \subseteq Live
  BY DEF WriteBatch, CopyBegin, CopyEof, CopyError, Writing, Live
<1>2. \A d \in Writing' : Adding(d)' = Adding(d)
  <2>1. CASE CopyBegin(c)
    BY <2>1, OtherCopies DEF CopyBegin, GoTo, Writing, Adding, batchVars
  <2>2. CASE CopyEof(c)
    BY <2>2, OtherCopies DEF CopyEof, GoTo, Writing, Adding
  <2>3. CASE CopyError(c)
    BY <2>3, OtherCopies DEF CopyError, GoTo, Writing, Adding, batchVars
  <2> QED BY <2>1, <2>2, <2>3
<1>3. /\ SeqAbove' /\ VersionsBelow' /\ VersionsDistinct' /\ DiscardSafe'
      /\ LatestWhole'
  BY <1>1, FrameVersions
<1>4. UlidsBelow'
  BY <1>1, <1>2 DEF StoreSafe, UlidsBelow
<1>5. BatchFits'
  BY DEF StoreSafe, BatchFits, Writing, WriteBatch, CopyBegin, CopyEof,
         CopyError
<1>6. Protected'
  BY <1>1 DEF StoreSafe, Protected, Writing, Locked, WriteBatch, CopyBegin,
              CopyEof, CopyError
<1>8. BatchFresh'
  BY <1>1 DEF StoreSafe, BatchFresh, CopyBegin, CopyEof, CopyError
<1>7. RunningCopyIntact'
  <2>1. \A d \in Writing' : Stream(d)' = Stream(d)
    BY <1>1, <1>2 DEF Stream, WithPrefix, Writing
  <2> QED BY <1>1, <2>1 DEF StoreSafe, RunningCopyIntact, Whole
<1> QED BY <1>3, <1>4, <1>5, <1>6, <1>7, <1>8 DEF StoreSafe

(* A version from the Sequence is new: no chunk, no other copy and no header
   has it, unless the lease begins below the versions in use.              *)
LEMMA SafeVersion ==
  ASSUME TypeOK, DownIdle, StoreSafe, NEW c \in Copies, WriteBatch(c),
         CopyVersion(c), ~rewound'
  PROVE  StoreSafe'
<1> USE DEF TypeOK
<1>1. /\ UNCHANGED <<chunks, latest, pending, todo, dels, status, written,
                     batch, txnCount, batchSize, once, ulid>>
      /\ pc[c] = "next"
  BY DEF WriteBatch, CopyVersion
<1>2. CASE SeqNext /\ ver' = [ver EXCEPT ![c] = NextVersion] /\ GoTo(c, "read")
  <2>1. seq.next >= top
    BY <1>1 DEF DownIdle, StoreSafe, SeqAbove, Running
  <2>2. /\ NextVersion \in Nat
        /\ NextVersion >= top
        /\ top' = NextVersion + 1
        /\ seq'.next = NextVersion + 1
    BY <1>2, <2>1, SeqTypes DEF SeqNext, UpdateLease, NextVersion
  <2>3. /\ c \notin Live /\ c \notin Writing
        /\ Writing' = Writing \union {c} /\ Live' = Live \union {c}
        /\ ver'[c] = NextVersion
        /\ \A d \in Live : d # c /\ ver'[d] = ver[d]
    BY <1>1, <1>2 DEF Writing, Live
  <2>4. Adding(c)' = {} /\ \A d \in Writing : Adding(d)' = Adding(d)
    <3>1. Adding(c)' = {}
      BY <1>1, <1>2 DEF Adding
    <3>2. \A d \in Writing : Adding(d)' = Adding(d)
      BY <2>3, OtherCopies DEF Writing
    <3> QED BY <3>1, <3>2
  <2>5. SeqAbove' /\ VersionsBelow'
    <3>1. SeqAbove'
      BY <2>2 DEF SeqAbove
    <3>2. \A k \in chunks \union todo \union dels : k.ver < top'
      BY <2>2 DEF StoreSafe, VersionsBelow, Chunk
    <3>3. \A d \in Live' : ver'[d] < top'
      BY <2>2, <2>3 DEF StoreSafe, VersionsBelow, Live, Writing
    <3>4. latest # NoKey => latest.seq < top'
      BY <2>2 DEF StoreSafe, VersionsBelow, Header
    <3> QED BY <1>1, <3>1, <3>2, <3>3, <3>4 DEF VersionsBelow
  <2>6. VersionsDistinct'
    BY <1>1, <2>2, <2>3
    DEF StoreSafe, VersionsBelow, VersionsDistinct, Live, Header
  <2>7. UlidsBelow'
    BY <1>1, <2>3, <2>4 DEF StoreSafe, UlidsBelow, BatchFresh, Live
  <2>8. BatchFresh'
    BY <1>1, <1>2 DEF StoreSafe, BatchFresh
  <2>9. BatchFits'
    BY <1>1, <1>2 DEF StoreSafe, BatchFits, BatchFresh, Writing
  <2>10. Protected'
    BY <1>1, <1>2, <2>2, <2>3
    DEF StoreSafe, Protected, VersionsBelow, Writing, Live, Locked, BatchFresh,
        Chunk
  <2>11. DiscardSafe'
    BY <1>1, <2>2, <2>3
    DEF StoreSafe, DiscardSafe, VersionsBelow, Live, Chunk
  <2>12. LatestWhole'
    BY <1>1 DEF StoreSafe, LatestWhole, Whole, WithPrefix
  <2>13. RunningCopyIntact'
    <3>1. \A d \in Writing : Stream(d)' = Stream(d)
      BY <1>1, <2>3, <2>4 DEF Stream, WithPrefix, Live
    <3>2. Stream(c)' = {} /\ written'[c] = 0
      BY <1>1, <2>2, <2>3, <2>4
      DEF StoreSafe, VersionsBelow, BatchFresh, Stream, WithPrefix, Chunk
    <3> QED BY <1>1, <2>3, <3>1, <3>2 DEF StoreSafe, RunningCopyIntact, Whole
  <2> QED
    BY <2>5, <2>6, <2>7, <2>8, <2>9, <2>10, <2>11, <2>12, <2>13 DEF StoreSafe
<1>3. CASE GoTo(c, "failed") /\ UNCHANGED <<version, seq, top, rewound, ver>>
  <2>1. /\ Writing' = Writing /\ Live' = Live
        /\ \A d \in Writing : d # c
    BY <1>1, <1>3 DEF Writing, Live
  <2>2. \A d \in Writing : Adding(d)' = Adding(d)
    BY <2>1, OtherCopies DEF Writing
  <2>3. UlidsBelow' /\ Protected' /\ BatchFresh' /\ BatchFits'
    BY <1>1, <1>3, <2>1, <2>2
    DEF StoreSafe, UlidsBelow, Protected, BatchFresh, BatchFits, Locked
  <2>4. /\ SeqAbove' /\ VersionsBelow' /\ VersionsDistinct' /\ DiscardSafe'
        /\ LatestWhole'
    BY <1>1, <1>3, <2>1, FrameVersions
  <2>5. RunningCopyIntact'
    <3>1. \A d \in Writing : Stream(d)' = Stream(d)
      BY <1>1, <1>3, <2>2 DEF Stream, WithPrefix, Writing
    <3> QED BY <1>1, <2>1, <3>1 DEF StoreSafe, RunningCopyIntact, Whole
  <2> QED BY <2>3, <2>4, <2>5 DEF StoreSafe
<1> QED BY <1>2, <1>3 DEF CopyVersion

(* A block read from the stream, or the header, goes through Validate.     *)
LEMMA SafeValidate ==
  ASSUME TypeOK, StoreSafe, NEW c \in Copies, WriteBatch(c),
         CopyRead(c) \/ CopySeal(c)
  PROVE  StoreSafe'
<1> USE DEF TypeOK
<1>1. /\ UNCHANGED <<chunks, latest, pending, seq, top, todo, dels, status, ver,
                     batch, txnCount, once>>
      /\ pc[c] \in {"read", "seal"} /\ c \in Writing
      /\ pc'[c] = IF batchSize[c] + 1 > BatchLimit THEN "lock" ELSE "set"
      /\ batchSize'[c] = batchSize[c] + 1
      /\ ulid' >= ulid
  BY DEF WriteBatch, CopyRead, CopySeal, Validate, Writing
<1>2. Writing' = Writing /\ Live' = Live
  BY <1>1, OtherCopies DEF Writing, Live
<1>3. /\ SeqAbove' /\ VersionsBelow' /\ VersionsDistinct' /\ DiscardSafe'
      /\ LatestWhole'
  BY <1>1, <1>2, FrameVersions
<1>4. Adding(c) = {}
  BY <1>1 DEF Adding
<1>5. BatchFresh'
  BY <1>1, OtherCopies DEF StoreSafe, BatchFresh
<1>6. BatchFits'
  BY <1>1, <1>2, OtherCopies DEF StoreSafe, BatchFits, Writing
<1>7. Protected'
  BY <1>1, <1>2, OtherCopies DEF StoreSafe, Protected, Locked, Writing
<1>8. CASE CopyRead(c)
  <2> DEFINE k == [ver |-> ver[c], ulid |-> ulid, copy |-> c,
                   idx |-> written[c] + 1]
  <2>1. k \in Chunk /\ k # NoKey
    BY NoKeyAssumption DEF Chunk
  <2>2. /\ Adding(c)' = {k}
        /\ ulid' = ulid + 1
        /\ written'[c] = written[c] + 1
    BY <1>1, <1>8, <2>1 DEF CopyRead, Validate, Adding
  <2>3. UlidsBelow'
    <3>1. \A j \in chunks : j.ulid < ulid'
      BY <2>2 DEF StoreSafe, UlidsBelow, Chunk
    <3>2. \A d \in Writing : \A j \in batch[d] \union Adding(d) :
            j.ulid < ulid' /\ j.ver = ver[d]
      BY <2>2 DEF StoreSafe, UlidsBelow, Chunk, Writing, Adding
    <3>3. \A d \in Writing' : \A j \in batch[d] \union Adding(d)' :
            j.ulid < ulid' /\ j.ver = ver[d]
      BY <1>2, <2>2, <3>2, OtherCopies DEF Writing
    <3> QED BY <1>1, <3>1, <3>3 DEF UlidsBelow
  <2>4. RunningCopyIntact'
    <3>1. \A d \in Writing \ {c} : Stream(d)' = Stream(d)
      BY <1>1, OtherCopies DEF Stream, WithPrefix, Writing
    <3>2. Stream(c)' = Stream(c) \union {k}
      BY <1>1, <1>4, <2>2 DEF Stream, WithPrefix
    <3>3. Stream(c) \in SUBSET Chunk /\ \A j \in Stream(c) : j.ulid < k.ulid
      BY <1>1, <1>4 DEF StoreSafe, UlidsBelow, Stream, WithPrefix
    <3>4. Whole(Stream(c)', c, written'[c])
      BY <1>1, <2>1, <2>2, <3>2, <3>3, WholeAppend
      DEF StoreSafe, RunningCopyIntact
    <3> QED
      BY <1>2, <3>1, <3>4, OtherCopies DEF StoreSafe, RunningCopyIntact, Whole,
         Writing
  <2> QED BY <1>3, <1>5, <1>6, <1>7, <2>3, <2>4 DEF StoreSafe
<1>9. CASE CopySeal(c)
  <2>1. Adding(c)' = {} /\ UNCHANGED <<ulid, written>>
    BY <1>9 DEF CopySeal, Validate, Adding
  <2>2. UlidsBelow'
    BY <1>1, <1>2, <1>4, <2>1, OtherCopies DEF StoreSafe, UlidsBelow, Writing
  <2>3. RunningCopyIntact'
    <3>1. \A d \in Writing : Stream(d)' = Stream(d)
      BY <1>1, <1>4, <2>1, OtherCopies DEF Stream, WithPrefix, Writing
    <3> QED BY <1>2, <2>1, <3>1 DEF StoreSafe, RunningCopyIntact, Whole
  <2> QED BY <1>3, <1>5, <1>6, <1>7, <2>2, <2>3 DEF StoreSafe
<1> QED BY <1>8, <1>9

(* lockVersion adds to PENDING and takes nothing away from it.             *)
LEMMA SafeLockVersion ==
  ASSUME TypeOK, StoreSafe, NEW c \in Copies, WriteBatch(c), CopyBatch(c),
         LockVersion(c)
  PROVE  StoreSafe'
<1> USE DEF TypeOK
<1>1. /\ UNCHANGED <<chunks, latest, seq, top, todo, dels, status, ver, written,
                     batch, txnCount, entry, batchSize, ulid>>
      /\ pc[c] = "lock" /\ pc'[c] = "flush" /\ c \in Writing
  BY DEF WriteBatch, CopyBatch, LockVersion, Writing
<1>2. Writing' = Writing /\ Live' = Live
  BY <1>1, OtherCopies DEF Writing, Live
<1>3. /\ SeqAbove' /\ VersionsBelow' /\ VersionsDistinct' /\ DiscardSafe'
      /\ LatestWhole'
  BY <1>1, <1>2, FrameVersions
<1>4. once'[c]
  BY DEF LockVersion
<1>5. Locked \subseteq Locked' /\ ver[c] \in Locked'
  <2>1. CASE once[c]
    BY <1>1, <2>1 DEF LockVersion, StoreSafe, Protected, Locked
  <2>2. CASE ~once[c]
    <3>1. pending' = [versions |-> Locked \union {ver[c]}]
      BY <2>2 DEF LockVersion
    <3>2. pending' # NoKey
      BY <3>1, LockedType, NoKeyAssumption DEF LockedTransaction
    <3> QED BY <3>1, <3>2 DEF Locked
  <2> QED BY <2>1, <2>2
<1>6. \A d \in Writing : Adding(d)' = Adding(d)
  BY <1>1, OtherCopies DEF Adding, Writing
<1>7. UlidsBelow'
  BY <1>1, <1>2, <1>6 DEF StoreSafe, UlidsBelow
<1>8. BatchFresh' /\ BatchFits'
  BY <1>1, <1>2, <1>4, OtherCopies
  DEF StoreSafe, BatchFresh, BatchFits, Writing
<1>9. Protected'
  BY <1>1, <1>2, <1>4, <1>5, OtherCopies DEF StoreSafe, Protected, Writing
<1>10. RunningCopyIntact'
  <2>1. \A d \in Writing : Stream(d)' = Stream(d)
    BY <1>1, <1>6 DEF Stream, WithPrefix, Writing
  <2> QED BY <1>1, <1>2, <2>1 DEF StoreSafe, RunningCopyIntact, Whole
<1> QED BY <1>3, <1>7, <1>8, <1>9, <1>10 DEF StoreSafe

(* Chunks that a copy stores have its version, which no one else uses.     *)
LEMMA BatchOwned ==
  ASSUME TypeOK, StoreSafe, NEW c \in Writing
  PROVE  /\ \A k \in batch[c] : k.ver = ver[c] /\ k.copy = c /\ k.ulid < ulid
         /\ \A k \in chunks : k.ver = ver[c] => k.copy = c
         /\ \A d \in Live : d # c => ver[d] # ver[c]
         /\ latest # NoKey => ver[c] # latest.seq
         /\ ver[c] < top
<1>1. \A k \in Stream(c) : k.copy = c
  BY DEF StoreSafe, RunningCopyIntact, Whole
<1> QED
  BY <1>1 DEF StoreSafe, Stream, WithPrefix, UlidsBelow, VersionsDistinct,
              VersionsBelow, Live, Writing

(* An overflow flush, or badger's own commit of a full transaction, moves
   the batch of a protected copy to the database.                          *)
LEMMA SafeStore ==
  ASSUME TypeOK, StoreSafe, BatchLimit <= TxnCapacity,
         NEW c \in Copies, WriteBatch(c), CopyBatch(c),
         Overflow(c) \/ SetEntry(c)
  PROVE  StoreSafe'
<1> USE DEF TypeOK
<1>1. /\ UNCHANGED <<latest, pending, seq, top, todo, dels, status, ver,
                     written, entry, once, ulid>>
      /\ c \in Writing /\ pc'[c] \in {"set", "commit", "seal", "read"}
  BY DEF WriteBatch, CopyBatch, Overflow, SetEntry, Writing
<1>2. Writing' = Writing /\ Live' = Live
  BY <1>1, OtherCopies DEF Writing, Live
<1>3. \/ chunks' = chunks
      \/ chunks' = chunks \union batch[c] /\ once[c]
  <2>1. CASE Overflow(c)
    BY <1>1, <2>1 DEF Overflow, StoreSafe, Protected
  <2>2. CASE SetEntry(c)
    <3>1. ~once[c] => txnCount[c] < TxnCapacity
      BY <1>1, <2>2 DEF SetEntry, StoreSafe, BatchFits
    <3> QED BY <2>2, <3>1 DEF SetEntry
  <2> QED BY <2>1, <2>2
<1>4. /\ chunks' \union batch'[c] \union Adding(c)'
           = chunks \union batch[c] \union Adding(c)
      /\ batch'[c] \union Adding(c)' \subseteq batch[c] \union Adding(c)
  <2>1. CASE Overflow(c)
    BY <2>1 DEF Overflow, Adding
  <2>2. CASE SetEntry(c)
    BY <2>2 DEF SetEntry, Adding
  <2> QED BY <2>1, <2>2
<1>5. UlidsBelow'
  BY <1>1, <1>2, <1>3, <1>4, OtherCopies, BatchOwned
  DEF StoreSafe, UlidsBelow, Writing
<1>6. SeqAbove' /\ VersionsBelow' /\ VersionsDistinct' /\ DiscardSafe'
  BY <1>1, <1>2, <1>3, BatchOwned
  DEF StoreSafe, SeqAbove, VersionsBelow, VersionsDistinct, DiscardSafe,
      Running, Live
<1>7. LatestWhole'
  <2>1. latest # NoKey =>
          WithPrefix(chunks', latest.seq) = WithPrefix(chunks, latest.seq)
    BY <1>1, <1>3, BatchOwned DEF WithPrefix
  <2> QED BY <1>1, <2>1 DEF StoreSafe, LatestWhole
<1>8. BatchFresh'
  BY <1>1, OtherCopies DEF StoreSafe, BatchFresh
<1>9. BatchFits'
  <2>1. ASSUME ~once[c]
        PROVE  /\ pc[c] = "set"
               /\ pc'[c] # "set"
               /\ batchSize'[c] = batchSize[c]
               /\ txnCount'[c] <= batchSize[c]
               /\ batchSize[c] <= BatchLimit
    BY <1>1, <2>1
    DEF Overflow, SetEntry, StoreSafe, BatchFits, Protected
  <2> QED
    BY <1>1, <1>2, <2>1, OtherCopies DEF StoreSafe, BatchFits, Writing
<1>10. Protected'
  BY <1>1, <1>2, <1>3, OtherCopies, BatchOwned
  DEF StoreSafe, Protected, Writing, Locked, Live
<1>11. RunningCopyIntact'
  <2>1. Stream(c)' = Stream(c)
    BY <1>1, <1>3, <1>4, BatchOwned DEF Stream, WithPrefix, StoreSafe, UlidsBelow
  <2>2. \A d \in Writing \ {c} : Stream(d)' = Stream(d)
    BY <1>1, <1>3, OtherCopies, BatchOwned DEF Stream, WithPrefix, Writing, Live
  <2> QED BY <1>1, <1>2, <2>1, <2>2 DEF StoreSafe, RunningCopyIntact, Whole
<1> QED
  BY <1>5, <1>6, <1>7, <1>8, <1>9, <1>10, <1>11 DEF StoreSafe

(* The final Flush publishes a stream that is whole.                       *)
LEMMA SafeFlushLatest ==
  ASSUME TypeOK, StoreSafe, NEW c \in Copies, WriteBatch(c), CopyBatch(c),
         FlushLatest(c)
  PROVE  StoreSafe'
<1> USE DEF TypeOK
<1>1. /\ UNCHANGED <<pending, seq, top, todo, dels, status, ver, written, once,
                     ulid>>
      /\ chunks' = chunks \union batch[c]
      /\ latest' = [seq |-> ver[c], copy |-> c, size |-> written[c]]
      /\ pc[c] = "commit" /\ pc'[c] = "releaseOk" /\ c \in Writing
  BY DEF WriteBatch, CopyBatch, FlushLatest, Writing
<1>2. Writing' = Writing \ {c} /\ Live' = Live /\ c \in Live
  BY <1>1, OtherCopies DEF Writing, Live
<1>3. \A d \in Writing' : d \in Live /\ d # c /\ ver[d] # ver[c]
  BY <1>2, BatchOwned, <1>1 DEF Live, Writing
<1>4. SeqAbove' /\ VersionsBelow'
  BY <1>1, <1>2, BatchOwned DEF StoreSafe, SeqAbove, VersionsBelow, Running, Live
<1>5. VersionsDistinct'
  BY <1>1, <1>2, <1>3, BatchOwned DEF StoreSafe, VersionsDistinct, Live
<1>6. DiscardSafe'
  BY <1>1, <1>2 DEF StoreSafe, DiscardSafe
<1>7. UlidsBelow'
  BY <1>1, <1>2, <1>3, OtherCopies, BatchOwned DEF StoreSafe, UlidsBelow, Writing
<1>8. BatchFresh' /\ BatchFits'
  BY <1>1, <1>2, <1>3, OtherCopies
  DEF StoreSafe, BatchFresh, BatchFits, Writing
<1>9. Protected'
  BY <1>1, <1>2, <1>3, OtherCopies, BatchOwned
  DEF StoreSafe, Protected, Writing, Locked
<1>10. LatestWhole'
  <2>1. WithPrefix(chunks', ver[c]) = Stream(c)
    BY <1>1, BatchOwned DEF WithPrefix, Stream, Adding
  <2> QED BY <1>1, <2>1 DEF StoreSafe, RunningCopyIntact, LatestWhole
<1>11. RunningCopyIntact'
  <2>1. \A d \in Writing' : Stream(d)' = Stream(d)
    BY <1>1, <1>3, OtherCopies, BatchOwned DEF Stream, WithPrefix, Writing, Live
  <2> QED BY <1>1, <1>2, <2>1 DEF StoreSafe, RunningCopyIntact, Whole
<1> QED
  BY <1>4, <1>5, <1>6, <1>7, <1>8, <1>9, <1>10, <1>11 DEF StoreSafe

(* Release takes the version of its own copy, and no other, off PENDING.   *)
LEMMA SafeCopyEnd ==
  ASSUME TypeOK, StoreSafe, NEW c \in Copies, WriteBatch(c), CopyEnd(c)
  PROVE  StoreSafe'
<1> USE DEF TypeOK
<1>1. /\ UNCHANGED <<chunks, latest, seq, top, todo, dels, status, ulid>>
      /\ pc[c] \in {"releaseOk", "releaseErr"} /\ pc'[c] \in {"ok", "failed"}
  BY DEF WriteBatch, CopyEnd, Release
<1>2. Writing' = Writing /\ Live' = Live \ {c} /\ c \in Live /\ c \notin Writing
  BY <1>1, OtherCopies DEF Writing, Live
<1>3. \A d \in Writing : d \in Live /\ d # c /\ ver[d] # ver[c]
  BY <1>2 DEF StoreSafe, VersionsDistinct, Live
<1>4. \A d \in Live' : d \in Live /\ ver'[d] = ver[d]
  BY <1>2, OtherCopies DEF Live, Writing
<1>5. Locked \ {ver[c]} \subseteq Locked'
  <2>1. CASE UNCHANGED pending
    BY <2>1 DEF Locked
  <2>2. CASE pending' = [versions |-> Locked \ {ver[c]}]
    <3>1. pending' # NoKey
      BY <2>2, LockedType, NoKeyAssumption DEF LockedTransaction
    <3> QED BY <2>2, <3>1 DEF Locked
  <2> QED BY <2>1, <2>2 DEF CopyEnd, Release, UnlockVersion
<1>6. SeqAbove' /\ VersionsBelow'
  BY <1>1, <1>4 DEF StoreSafe, SeqAbove, VersionsBelow, Running
<1>7. VersionsDistinct' /\ DiscardSafe'
  BY <1>1, <1>2, <1>3, <1>4
  DEF StoreSafe, VersionsDistinct, DiscardSafe, Live
<1>8. UlidsBelow'
  BY <1>1, <1>2, <1>3, <1>4, OtherCopies DEF StoreSafe, UlidsBelow, Writing
<1>9. BatchFresh' /\ BatchFits'
  BY <1>1, <1>2, <1>3, OtherCopies
  DEF StoreSafe, BatchFresh, BatchFits, Writing
<1>10. Protected'
  BY <1>1, <1>2, <1>3, <1>5, OtherCopies DEF StoreSafe, Protected, Writing
<1>11. LatestWhole'
  BY <1>1 DEF StoreSafe, LatestWhole, Whole, WithPrefix
<1>12. RunningCopyIntact'
  <2>1. \A d \in Writing : Stream(d)' = Stream(d) /\ written'[d] = written[d]
    BY <1>1, <1>3, OtherCopies DEF Stream, WithPrefix, Writing
  <2> QED BY <1>2, <2>1 DEF StoreSafe, RunningCopyIntact, Whole
<1> QED
  BY <1>6, <1>7, <1>8, <1>9, <1>10, <1>11, <1>12 DEF StoreSafe

(* Every step of WriteBatch keeps the store safe, unless a lease begins below
   a version in use.                                                       *)
LEMMA SafeWriteBatch ==
  ASSUME TypeOK, DownIdle, StoreSafe, BatchLimit <= TxnCapacity,
         NEW c \in Copies, WriteBatch(c), ~rewound'
  PROVE  StoreSafe'
BY SafeQuiet, SafeVersion, SafeValidate, SafeLockVersion, SafeStore,
   SafeFlushLatest, SafeCopyEnd
DEF WriteBatch, CopyBatch

-----------------------------------------------------------------------------
(* The other steps                                                         *)

(* The collector deletes nothing that is published or being written.  The
   argument does not use conflict detection: a version that becomes LATEST
   during a scan was being written, so its chunks were not in the scan.    *)
LEMMA SafeCollect ==
  ASSUME TypeOK, StoreSafe, Collect
  PROVE  StoreSafe'
<1> USE DEF TypeOK
<1>1. /\ UNCHANGED <<latest, pending, seq, top, status, pc, batchVars, ulid>>
      /\ Writing' = Writing /\ Live' = Live
      /\ \A c \in Writing : Adding(c)' = Adding(c)
  BY DEF Collect, Writing, Live, Adding
<1>2. /\ chunks' \subseteq chunks
      /\ \A k \in chunks : k \notin dels => k \in chunks'
      /\ \A k \in todo' \union dels' :
           \/ k \in todo \union dels
           \/ k \in chunks /\ Discardable(k)
  <2>1. CASE GcTick
    BY <2>1 DEF GcTick, DiscardBegin
  <2>2. CASE GcScan
    BY <2>2 DEF GcScan, DiscardKey, DiscardTooBig
  <2>3. CASE GcDone
    BY <2>3 DEF GcDone, DiscardCommit, DiscardError, DiscardEnd
  <2> QED BY <2>1, <2>2, <2>3 DEF Collect
<1>3. \A k \in chunks : Discardable(k) =>
        /\ latest # NoKey => k.ver # latest.seq
        /\ \A c \in Writing : k.ver # ver[c]
  BY DEF StoreSafe, Protected, Discardable
<1>4. DiscardSafe'
  BY <1>1, <1>2, <1>3 DEF StoreSafe, DiscardSafe
<1>5. SeqAbove' /\ VersionsBelow' /\ VersionsDistinct'
  BY <1>1, <1>2
  DEF StoreSafe, SeqAbove, VersionsBelow, VersionsDistinct, Running
<1>6. UlidsBelow' /\ BatchFresh' /\ BatchFits' /\ Protected'
  BY <1>1, <1>2
  DEF StoreSafe, UlidsBelow, BatchFresh, BatchFits, Protected, Locked
<1>7. LatestWhole'
  <2>1. latest # NoKey =>
          WithPrefix(chunks', latest.seq) = WithPrefix(chunks, latest.seq)
    BY <1>2 DEF StoreSafe, DiscardSafe, WithPrefix
  <2> QED BY <1>1, <2>1 DEF StoreSafe, LatestWhole
<1>8. RunningCopyIntact'
  <2>1. \A c \in Writing : Stream(c)' = Stream(c)
    BY <1>1, <1>2 DEF StoreSafe, DiscardSafe, Stream, WithPrefix
  <2> QED BY <1>1, <2>1 DEF StoreSafe, RunningCopyIntact, Whole
<1> QED BY <1>4, <1>5, <1>6, <1>7, <1>8 DEF StoreSafe

(* DropAll runs when no copy does.                                         *)
LEMMA SafeDropAll ==
  ASSUME TypeOK, CopyLocked, StoreSafe, NEW l \in Clears, DropAll(l)
  PROVE  StoreSafe'
<1> USE DEF TypeOK
<1>1. /\ UNCHANGED <<seq, top, status, pc, batchVars, todo, dels, ulid>>
      /\ Writing' = Writing /\ Live' = Live
  BY DEF DropAll, Writing, Live
<1>2. CASE UNCHANGED dbVars
  BY <1>1, <1>2, StoreFrame
<1>3. CASE rlocked = {} /\ chunks' = {} /\ latest' = NoKey
  <2>1. Live = {} /\ Writing = {}
    BY <1>3 DEF CopyLocked, Live, Writing
  <2> QED
    BY <1>1, <1>3, <2>1
    DEF StoreSafe, SeqAbove, VersionsBelow, VersionsDistinct, UlidsBelow,
        BatchFresh, BatchFits, Protected, DiscardSafe, LatestWhole,
        RunningCopyIntact, Running
<1> QED BY <1>2, <1>3 DEF DropAll, ClearLock, ClearDrop

(* Expiry, Close, the end and the start of the process keep the store safe,
   unless the first lease of the new process begins below a version in use. *)
LEMMA SafeProcess ==
  ASSUME TypeOK, DownIdle, StoreSafe, Expire \/ Close \/ Exit \/ Open, ~rewound'
  PROVE  StoreSafe'
<1> USE DEF TypeOK
<1>1. CASE Exit
  <2>1. /\ UNCHANGED <<chunks, latest, top, ulid>>
        /\ todo' = {} /\ dels' = {} /\ status' = "down"
        /\ \A c \in Copies : pc'[c] \in {"idle", "ok", "failed"}
    BY <1>1 DEF Exit, DiscardEnd
  <2>2. Live' = {} /\ Writing' = {}
    BY <2>1 DEF Live, Writing
  <2>3. BatchFresh'
    <3>1. \A c \in Copies : /\ written'[c] = 0
                            /\ batch'[c] = {}
                            /\ txnCount'[c] = 0
                            /\ batchSize'[c] = 0
      BY <1>1 DEF Exit, Forget
    <3>2. \A c \in Copies : ~once'[c]
      <4>1. once' = [c \in Copies |-> IF c \in Copies THEN FALSE ELSE once[c]]
        BY <1>1 DEF Exit, Forget
      <4> QED BY <4>1
    <3> QED BY <3>1, <3>2 DEF BatchFresh
  <2>4. LatestWhole'
    BY <2>1 DEF StoreSafe, LatestWhole, Whole, WithPrefix
  <2> QED
    BY <2>1, <2>2, <2>3, <2>4
    DEF StoreSafe, SeqAbove, VersionsBelow, VersionsDistinct, UlidsBelow,
        BatchFits, Protected, DiscardSafe, RunningCopyIntact, Running
<1>2. CASE Expire \/ Close \/ Open
  <2>1. /\ UNCHANGED <<chunks, pending, top, pc, batchVars, todo, dels, ulid>>
        /\ latest' \in {latest, NoKey}
        /\ Writing' = Writing /\ Live' = Live
        /\ \A c \in Writing : Adding(c)' = Adding(c)
    BY <1>2 DEF Expire, Close, Open, SeqRelease, UpdateLease, Writing, Live,
                Adding
  <2>2. SeqAbove'
    <3>1. CASE Expire
      BY <3>1 DEF Expire, StoreSafe, SeqAbove, Running
    <3>2. CASE Close
      BY <3>2 DEF Close, SeqRelease, StoreSafe, SeqAbove, Running
    <3>3. CASE Open
      <4>1. LeaseStart >= top
        <5>1. ~ (LeaseStart < top)
          BY <3>3, Zenon DEF Open, UpdateLease
        <5> QED BY <5>1, SeqTypes
      <4>2. seq'.next = LeaseStart /\ top' = top
        BY <3>3 DEF Open, UpdateLease
      <4> QED BY <4>1, <4>2 DEF SeqAbove
    <3> QED BY <1>2, <3>1, <3>2, <3>3
  <2>3. VersionsBelow' /\ VersionsDistinct' /\ DiscardSafe'
    BY <2>1 DEF StoreSafe, VersionsBelow, VersionsDistinct, DiscardSafe
  <2>4. UlidsBelow' /\ BatchFresh' /\ BatchFits' /\ Protected'
    BY <2>1
    DEF StoreSafe, UlidsBelow, BatchFresh, BatchFits, Protected, Locked
  <2>5. LatestWhole'
    BY <2>1 DEF StoreSafe, LatestWhole, Whole, WithPrefix
  <2>6. RunningCopyIntact'
    <3>1. \A c \in Writing : Stream(c)' = Stream(c)
      BY <2>1 DEF Stream, WithPrefix
    <3> QED BY <2>1, <3>1 DEF StoreSafe, RunningCopyIntact, Whole
  <2> QED BY <2>2, <2>3, <2>4, <2>5, <2>6 DEF StoreSafe
<1> QED BY <1>1, <1>2

(* Pastes read a snapshot: nothing that happens to the database afterwards
   disturbs them.                                                          *)
LEMMA PasteReadBatch ==
  ASSUME TypeOK, LatestWhole, PasteSafe, NEW p \in Pastes, ReadBatch(p)
  PROVE  PasteSafe'
<1> USE DEF TypeOK, PasteSafe, PasteIntact, PasteWhole
<1>1. CASE PasteBegin(p) \/ PasteNotFound(p) \/ PasteError(p)
  BY <1>1 DEF PasteBegin, PasteNotFound, PasteError, Whole
<1>2. CASE PasteOpen(p)
  <2>1. /\ header'[p] # NoKey
        /\ Whole(snap'[p], header'[p].copy, header'[p].size)
    BY <1>2 DEF PasteOpen, LatestWhole
  <2>2. out'[p] \subseteq snap'[p]
    BY <1>2 DEF PasteOpen
  <2> QED BY <1>2, <2>1, <2>2 DEF PasteOpen, Whole
<1>3. CASE PasteSend(p)
  BY <1>3 DEF PasteSend, IterNext, Whole
<1>4. CASE PasteFlush(p)
  <2>1. out[p] = snap[p]
    BY <1>4, IterAtEnd DEF PasteFlush
  <2> QED BY <1>4, <2>1 DEF PasteFlush, Whole
<1> QED BY <1>1, <1>2, <1>3, <1>4 DEF ReadBatch

(* Other steps leave the pastes alone, but for the end of the process.     *)
LEMMA PasteFrame ==
  ASSUME TypeOK, PasteSafe, UNCHANGED pasteVars \/ Exit
  PROVE  PasteSafe'
<1>1. \A p \in Pastes : ppc'[p] \in {"idle", "open", "send", "done"} =>
        /\ ppc'[p] = ppc[p]
        /\ header'[p] = header[p] /\ snap'[p] = snap[p] /\ out'[p] = out[p]
  BY DEF TypeOK, Exit
<1> QED BY <1>1 DEF PasteSafe, PasteIntact, PasteWhole, Whole

-----------------------------------------------------------------------------
(* The inductive invariant                                                 *)

(* Copies hold the lock, and nothing runs in a stopped process.            *)
LEMMA LockStep ==
  ASSUME TypeOK, CopyLocked, DownIdle, [Next]_vars
  PROVE  CopyLocked' /\ DownIdle'
<1> USE DEF TypeOK, CopyLocked, DownIdle
<1>1. ASSUME NEW c \in Copies, WriteBatch(c) PROVE CopyLocked' /\ DownIdle'
  <2>1. UNCHANGED status /\ (pc[c] \in {"idle", "ok", "failed"} => status # "down")
    BY <1>1
    DEF WriteBatch, CopyBegin, CopyVersion, CopyRead, CopyEof, CopySeal,
        CopyBatch, CopyError, CopyEnd, LockVersion, Overflow, SetEntry,
        FlushLatest, Release, Running
  <2>2. /\ \A d \in Copies \ {c} : d \in rlocked => d \in rlocked'
        /\ pc'[c] \notin {"idle", "ok", "failed"} => c \in rlocked'
    <3>1. CASE CopyBegin(c) \/ CopyVersion(c)
      BY <3>1 DEF CopyBegin, CopyVersion, RLock, RUnlock
    <3>2. CASE UNCHANGED rlocked /\ pc[c] \notin {"idle", "ok", "failed"}
      BY <3>2
    <3>3. CASE CopyEnd(c)
      BY <3>3 DEF CopyEnd, Release, RUnlock
    <3> QED
      BY <1>1, <3>1, <3>2, <3>3
      DEF WriteBatch, CopyRead, CopyEof, CopySeal, CopyBatch, CopyError,
          LockVersion, Overflow, SetEntry, FlushLatest
  <2> QED BY <1>1, <2>1, <2>2, OtherCopies
<1>2. ASSUME NEW p \in Pastes, ReadBatch(p) PROVE CopyLocked' /\ DownIdle'
  BY <1>2, ActorsAssumption
  DEF ReadBatch, PasteBegin, PasteOpen, PasteNotFound, PasteSend, PasteFlush,
      PasteError, RLock, RUnlock
<1>3. ASSUME NEW l \in Clears, DropAll(l) PROVE CopyLocked' /\ DownIdle'
  BY <1>3 DEF DropAll
<1>4. CASE Collect
  BY <1>4, ActorsAssumption
  DEF Collect, GcTick, GcScan, GcDone, RLock, RUnlock
<1>5. CASE Exit
  BY <1>5 DEF Exit
<1>6. CASE Expire \/ Close \/ Open
  BY <1>6 DEF Expire, Close, Open
<1>7. CASE UNCHANGED vars
  BY <1>7 DEF vars
<1> QED BY <1>1, <1>2, <1>3, <1>4, <1>5, <1>6, <1>7 DEF Next

(* rewound is never reset.                                                 *)
LEMMA RewoundStays == [Next]_vars /\ rewound => rewound'
<1> SUFFICES ASSUME [Next]_vars, rewound PROVE rewound'
  OBVIOUS
<1>1. ASSUME NEW c \in Copies, WriteBatch(c) PROVE rewound'
  <2>1. CASE CopyVersion(c)
    BY <2>1 DEF CopyVersion, SeqNext, UpdateLease
  <2> QED
    BY <1>1, <2>1
    DEF WriteBatch, CopyBegin, CopyRead, CopyEof, CopySeal, CopyBatch,
        CopyError, CopyEnd
<1>2. ASSUME NEW p \in Pastes, ReadBatch(p) PROVE rewound'
  BY <1>2 DEF ReadBatch
<1>3. ASSUME NEW l \in Clears, DropAll(l) PROVE rewound'
  BY <1>3 DEF DropAll
<1>4. CASE Collect \/ Expire \/ Close \/ Exit \/ Open
  BY <1>4
  DEF Collect, Expire, Close, Exit, Open, SeqRelease, UpdateLease
<1>5. CASE UNCHANGED vars
  BY <1>5 DEF vars
<1> QED BY <1>1, <1>2, <1>3, <1>4, <1>5 DEF Next

(* The initial state satisfies the invariant.                              *)
LEMMA InductiveInit == Init => Inductive
<1> SUFFICES ASSUME Init PROVE Inductive
  OBVIOUS
<1>1. TypeOK
  BY TypeInit
<1>2. Live = {} /\ Writing = {}
  BY DEF Init, BatchInit, Live, Writing
<1>3. CopyLocked /\ DownIdle /\ BatchFresh
  BY DEF Init, BatchInit, CopyLocked, DownIdle, BatchFresh
<1>4. SeqAbove
  BY DEF Init, BadgerInit, SeqAbove
<1>5. /\ VersionsBelow /\ VersionsDistinct /\ UlidsBelow /\ BatchFits
      /\ Protected /\ DiscardSafe /\ LatestWhole /\ RunningCopyIntact
  BY <1>2
  DEF Init, BadgerInit, GcInit, VersionsBelow, VersionsDistinct, UlidsBelow,
      BatchFits, Protected, DiscardSafe, LatestWhole, RunningCopyIntact
<1>6. PasteSafe
  BY DEF Init, PasteSafe, PasteIntact, PasteWhole
<1> QED BY <1>1, <1>3, <1>4, <1>5, <1>6 DEF Inductive, StoreSafe

(* Every step preserves the invariant.                                     *)
LEMMA InductiveStep ==
  ASSUME BatchLimit <= TxnCapacity, Inductive, [Next]_vars
  PROVE  Inductive'
<1>1. TypeOK' /\ CopyLocked' /\ DownIdle'
  BY TypeNext, LockStep DEF Inductive
<1>2. ASSUME ~rewound' PROVE StoreSafe' /\ PasteSafe'
  <2>1. TypeOK /\ CopyLocked /\ DownIdle /\ StoreSafe /\ PasteSafe
    BY <1>2, RewoundStays DEF Inductive
  <2>2. ASSUME NEW c \in Copies, WriteBatch(c) PROVE StoreSafe' /\ PasteSafe'
    BY <1>2, <2>1, <2>2, SafeWriteBatch, PasteFrame DEF WriteBatch
  <2>3. ASSUME NEW p \in Pastes, ReadBatch(p) PROVE StoreSafe' /\ PasteSafe'
    <3>1. PasteSafe'
      BY <2>1, <2>3, PasteReadBatch DEF StoreSafe
    <3>2. /\ UNCHANGED <<chunks, latest, pending, seq, top, status, pc,
                         batchVars, todo, dels, ulid>>
          /\ Writing' = Writing /\ Live' = Live
      BY <2>3 DEF ReadBatch, Writing, Live
    <3> QED BY <2>1, <3>1, <3>2, StoreFrame
  <2>4. ASSUME NEW l \in Clears, DropAll(l) PROVE StoreSafe' /\ PasteSafe'
    BY <2>1, <2>4, SafeDropAll, PasteFrame DEF DropAll
  <2>5. CASE Collect
    BY <2>1, <2>5, SafeCollect, PasteFrame DEF Collect
  <2>6. CASE Expire \/ Close \/ Exit \/ Open
    BY <1>2, <2>1, <2>6, SafeProcess, PasteFrame DEF Expire, Close, Open
  <2>7. CASE UNCHANGED vars
    <3>1. /\ UNCHANGED <<chunks, latest, pending, seq, top, status, pc,
                         batchVars, todo, dels, ulid>>
          /\ Writing' = Writing /\ Live' = Live
      BY <2>7 DEF vars, Writing, Live
    <3> QED BY <2>1, <2>7, <3>1, StoreFrame, PasteFrame DEF vars
  <2> QED BY <2>2, <2>3, <2>4, <2>5, <2>6, <2>7 DEF Next
<1> QED BY <1>1, <1>2 DEF Inductive

(* The invariant implies that stored versions belong to one copy each.     *)
LEMMA OneCopy == ASSUME TypeOK, StoreSafe PROVE OneCopyPerVersion
BY BatchOwned
DEF OneCopyPerVersion, StoreSafe, VersionsDistinct, Live

-----------------------------------------------------------------------------
(* The theorems                                                            *)

(* If a batch of valueLogFileSize bytes fits in a badger transaction, the
   invariant holds throughout: what WriteBatch has buffered and stored, what
   PENDING protects, what discard is about to delete and what the Sequence
   hands out next agree, through database errors, crashes and restarts.    *)
THEOREM InductiveInvariant ==
  ASSUME BatchLimit <= TxnCapacity
  PROVE  Spec => []Inductive
<1>1. Init => Inductive
  BY InductiveInit
<1>2. Inductive /\ [Next]_vars => Inductive'
  BY InductiveStep
<1> QED BY <1>1, <1>2, PTL DEF Spec

(* Then, as long as no lease has begun at an old version, the clipboard and
   every delivered paste are whole, running copies lose nothing to discard,
   and no version is shared: with any number of concurrent WriteBatch,
   ReadBatch and DropAll calls.                                            *)
THEOREM SafeUnlessRewound ==
  ASSUME BatchLimit <= TxnCapacity
  PROVE  Spec => [](~rewound => /\ LatestWhole
                                /\ PasteWhole
                                /\ RunningCopyIntact
                                /\ OneCopyPerVersion)
<1>1. Inductive => (~rewound => /\ LatestWhole
                                /\ PasteWhole
                                /\ RunningCopyIntact
                                /\ OneCopyPerVersion)
  BY OneCopy DEF Inductive, StoreSafe, PasteSafe
<1> QED BY <1>1, InductiveInvariant, PTL

(* A store that is never cleared keeps VERSION ahead of its leases.        *)
LEMMA LeaseAheadStep ==
  ASSUME Clears = {}, TypeOK, DownIdle, LeaseAhead, [Next]_vars
  PROVE  LeaseAhead'
<1> USE DEF TypeOK, LeaseAhead
<1>1. LeaseStart = version /\ LeaseStart >= top
  BY NoKeyAssumption DEF LeaseStart
<1>2. ASSUME NEW c \in Copies, WriteBatch(c) PROVE LeaseAhead'
  <2>1. CASE CopyVersion(c) /\ SeqNext
    <3>1. UNCHANGED status /\ Running
      BY <1>2, <2>1 DEF WriteBatch, CopyVersion, DownIdle, Running
    <3>2. CASE seq.next >= seq.leased
      <4>1. ~rewound'
        BY <1>1, <2>1, <3>2, SMTT(20) DEF SeqNext, UpdateLease
      <4>2. /\ version' = version + Lease
            /\ seq'.leased = version + Lease
            /\ seq'.next = version + 1
            /\ top' = version + 1
        BY <1>1, <2>1, <3>2, SMTT(20) DEF SeqNext, UpdateLease, NextVersion
      <4> QED BY <4>1, <4>2
    <3>3. CASE ~(seq.next >= seq.leased)
      <4>1. version' = version /\ ~rewound'
        BY <2>1, <3>3 DEF SeqNext
      <4>2. /\ seq'.leased = seq.leased
            /\ seq'.next = seq.next + 1
            /\ top' = seq.next + 1
        BY <2>1, <3>1, <3>3, SMTT(20) DEF SeqNext, NextVersion
      <4>3. seq.next + 1 <= version
        BY <3>1, <3>3
      <4> QED BY <3>1, <4>1, <4>2, <4>3
    <3> QED BY <3>2, <3>3
  <2>2. CASE UNCHANGED <<version, seq, top, rewound, status>>
    BY <2>2 DEF Running
  <2> QED
    BY <1>2, <2>1, <2>2
    DEF WriteBatch, CopyBegin, CopyVersion, CopyRead, CopyEof, CopySeal,
        CopyBatch, CopyError, CopyEnd
<1>3. ASSUME NEW p \in Pastes, ReadBatch(p) PROVE LeaseAhead'
  BY <1>3 DEF ReadBatch, Running
<1>4. CASE Collect \/ Expire \/ Exit \/ UNCHANGED vars
  <2>1. UNCHANGED <<version, seq, top, rewound>>
    BY <1>4 DEF Collect, Expire, Exit, vars
  <2>2. Running' => Running
    BY <1>4 DEF Collect, Expire, Exit, vars, Running
  <2> QED BY <2>1, <2>2
<1>5. CASE Close
  <2>1. ~rewound' /\ top' = top /\ Running
    BY <1>5 DEF Close, SeqRelease, Running
  <2>2. /\ version' \in Nat
        /\ version' >= top
        /\ seq'.leased <= version'
        /\ seq'.next >= top
    <3>1. CASE version = seq.leased
      <4>1. version' = seq.next /\ seq' = [seq EXCEPT !.leased = seq.next]
        BY <1>5, <3>1 DEF Close, SeqRelease
      <4>2. seq'.leased = seq.next /\ seq'.next = seq.next
        BY <4>1
      <4>3. seq.next \in Nat /\ seq.next >= top
        BY <2>1
      <4> QED BY <4>1, <4>2, <4>3
    <3>2. CASE version # seq.leased
      BY <1>5, <2>1, <3>2 DEF Close, SeqRelease
    <3> QED BY <3>1, <3>2
  <2> QED BY <2>1, <2>2
<1>6. CASE Open
  <2>1. ~rewound'
    BY <1>1, <1>6 DEF Open, UpdateLease
  <2> QED BY <1>1, <1>6, <2>1 DEF Open, UpdateLease
<1> QED BY <1>2, <1>3, <1>4, <1>5, <1>6 DEF Next

(* In a store that is never cleared no lease begins at an old version.     *)
LEMMA NeverRewound ==
  ASSUME Clears = {}
  PROVE  Spec => []~rewound
<1>1. Init => TypeOK /\ CopyLocked /\ DownIdle /\ LeaseAhead
  BY InductiveInit DEF Inductive, Init, BadgerInit, LeaseAhead
<1>2. /\ TypeOK /\ CopyLocked /\ DownIdle /\ LeaseAhead
      /\ [Next]_vars
      => (TypeOK /\ CopyLocked /\ DownIdle /\ LeaseAhead)'
  BY TypeNext, LockStep, LeaseAheadStep
<1>3. LeaseAhead => ~rewound
  BY DEF LeaseAhead
<1> QED BY <1>1, <1>2, <1>3, PTL DEF Spec

(* LATEST points to the complete stream of one copy, in every store that is
   never cleared, whatever WriteBatch, ReadBatch, discard and crashes do.  *)
THEOREM LatestAlwaysWhole ==
  ASSUME Clears = {}, BatchLimit <= TxnCapacity
  PROVE  Spec => []LatestWhole
BY NeverRewound, SafeUnlessRewound, PTL

(* Every successful ReadBatch has delivered exactly one copied stream, in
   every store that is never cleared.                                      *)
THEOREM PasteAlwaysWhole ==
  ASSUME Clears = {}, BatchLimit <= TxnCapacity
  PROVE  Spec => []PasteWhole
BY NeverRewound, SafeUnlessRewound, PTL

(* discard takes no block of a copy that WriteBatch is still receiving, in
   every store that is never cleared.                                      *)
THEOREM RunningCopiesKeepBlocks ==
  ASSUME Clears = {}, BatchLimit <= TxnCapacity
  PROVE  Spec => []RunningCopyIntact
BY NeverRewound, SafeUnlessRewound, PTL

(* seq.Next never returns a version whose chunks are stored or being written,
   across leases, releases and restarts of a store that is never cleared.  *)
THEOREM VersionsNeverReused ==
  ASSUME Clears = {}, BatchLimit <= TxnCapacity
  PROVE  Spec => []OneCopyPerVersion
BY NeverRewound, SafeUnlessRewound, PTL
=============================================================================
