-------------------------- MODULE ClipboardProofs --------------------------
(***************************************************************************)
(* That the store implements the abstract clipboard, step by step, and     *)
(* that PENDING protects nobody who is gone: for any number of requests,   *)
(* chunks and restarts.                                                    *)
(***************************************************************************)
EXTENDS StorageProofs

USE LeaseAssumption, TxnCapacityAssumption, IoErrorsAssumption,
    BatchLimitAssumption, DiscardMaxAssumption, BoundsAssumption

(* Groups of definitions that most steps expand together.                  *)
USE DEF GoTo, dbVars, batchVars, gcVars, procVars, lockVars, pasteVars

-----------------------------------------------------------------------------
(* The locks of finished copies                                            *)

(* A request that has no version yet has not locked it.                    *)
FreshUnlocked == \A c \in Copies : pc[c] \in {"idle", "next"} => ~once[c]

(* A process that is never stopped stays up.                               *)
StaysUp == status = "up"

(* A step of a copy keeps the locked versions those of the copies that have
   locked one.                                                             *)
LEMMA LocksWriteBatch ==
  ASSUME ~IoErrors, TypeOK, FreshUnlocked, LocksReleased,
         NEW c \in Copies, WriteBatch(c)
  PROVE  FreshUnlocked' /\ LocksReleased'
<1> USE DEF TypeOK
<1>1. CASE LockVersion(c)
  <2>1. pc' = [pc EXCEPT ![c] = "flush"] /\ ver' = ver
        /\ once' = [once EXCEPT ![c] = TRUE]
    BY <1>1 DEF LockVersion
  <2>2. Locked' \subseteq Locked \union {ver[c]}
    BY <1>1 DEF LockVersion, Locked
  <2>3. FreshUnlocked'
    BY <2>1 DEF FreshUnlocked
  <2>4. \A d \in Copies : once[d] => once'[d]
    BY <2>1
  <2>5. once'[c]
    BY <2>1
  <2>6. LocksReleased'
    BY <2>1, <2>2, <2>4, <2>5 DEF LocksReleased
  <2> QED BY <2>3, <2>6
<1>2. CASE CopyEnd(c)
  <2>1. Locked' \subseteq Locked \ {ver[c]}
    BY <1>2 DEF CopyEnd, Release, UnlockVersion, Locked
  <2>2. ver' = [d \in Copies |-> IF d \in {c} THEN 0 ELSE ver[d]]
        /\ once' = [d \in Copies |-> IF d \in {c} THEN FALSE ELSE once[d]]
        /\ pc'[c] \in {"ok", "failed"}
    BY <1>2 DEF CopyEnd, Release, Forget
  <2>3. \A d \in Copies : d # c => /\ ver'[d] = ver[d]
                                   /\ once'[d] = once[d]
                                   /\ pc'[d] = pc[d]
    BY OtherCopies
  <2>4. FreshUnlocked'
    BY <2>2, <2>3 DEF FreshUnlocked
  <2>5. ASSUME NEW v \in Locked'
        PROVE  \E d \in Copies : once'[d] /\ v = ver'[d]
    <3>1. PICK d \in Copies : once[d] /\ v = ver[d]
      BY <2>1, <2>5 DEF LocksReleased
    <3>2. d # c
      BY <2>1, <2>5, <3>1
    <3> QED BY <2>3, <3>1, <3>2
  <2>6. LocksReleased'
    BY <2>5 DEF LocksReleased
  <2> QED BY <2>4, <2>6
<1>3. CASE CopyVersion(c)
  <2>1. pc[c] = "next" /\ pc' = [pc EXCEPT ![c] = "read"]
        /\ UNCHANGED <<pending, once>>
        /\ \A d \in Copies : d # c => ver'[d] = ver[d]
    BY <1>3 DEF CopyVersion
  <2>2. ~once[c]
    BY <2>1 DEF FreshUnlocked
  <2>3. LocksReleased'
    BY <2>1, <2>2 DEF LocksReleased, Locked
  <2> QED BY <2>1, <2>2, <2>3 DEF FreshUnlocked
<1>4. CASE /\ UNCHANGED <<pending, ver, once>>
           /\ pc[c] = "idle" \/ pc'[c] \notin {"idle", "next"}
  <2>1. LocksReleased'
    BY <1>4 DEF LocksReleased, Locked
  <2>2. FreshUnlocked'
    BY <1>4, OtherCopies DEF FreshUnlocked
  <2> QED BY <2>1, <2>2
<1> QED
  BY <1>1, <1>2, <1>3, <1>4
  DEF WriteBatch, CopyBegin, CopyRead, Validate, CopyEof, CopySeal, CopyBatch,
      CopyError, Overflow, SetEntry, FlushLatest

(* Without restarts and database errors every step does.                   *)
LEMMA LocksStep ==
  ASSUME ~IoErrors, MaxRestarts = 0, TypeOK, FreshUnlocked, StaysUp,
         LocksReleased, [Next]_vars
  PROVE  FreshUnlocked' /\ StaysUp' /\ LocksReleased'
<1>1. ~Close /\ ~Exit /\ ~Open
  BY DEF TypeOK, StaysUp, Close, Exit, Open
<1>2. ASSUME NEW c \in Copies, WriteBatch(c)
      PROVE  FreshUnlocked' /\ StaysUp' /\ LocksReleased'
  <2>1. StaysUp'
    BY <1>2 DEF StaysUp, WriteBatch
  <2> QED BY <1>2, <2>1, LocksWriteBatch
<1>3. ASSUME NEW p \in Pastes, ReadBatch(p)
      PROVE  FreshUnlocked' /\ StaysUp' /\ LocksReleased'
  BY <1>3 DEF ReadBatch, FreshUnlocked, StaysUp, LocksReleased, Locked
<1>4. ASSUME NEW l \in Clears, DropAll(l)
      PROVE  FreshUnlocked' /\ StaysUp' /\ LocksReleased'
  <2>1. UNCHANGED <<pc, ver, once, status>> /\ pending' \in {pending, NoKey}
    BY <1>4 DEF DropAll, ClearLock, ClearDrop
  <2> QED BY <2>1 DEF FreshUnlocked, StaysUp, LocksReleased, Locked
<1>5. CASE Collect \/ Expire \/ UNCHANGED vars
  BY <1>5 DEF Collect, Expire, vars, FreshUnlocked, StaysUp, LocksReleased,
              Locked
<1> QED BY <1>1, <1>2, <1>3, <1>4, <1>5 DEF Next

(* Whatever way WriteBatch is left, the deferred Release has taken its version
   out of PENDING: as long as the process is not stopped and the database
   does not fail, PENDING protects only versions of running copies.        *)
THEOREM LocksAreReleased ==
  ASSUME ~IoErrors, MaxRestarts = 0
  PROVE  Spec => []LocksReleased
<1>1. Init => TypeOK /\ FreshUnlocked /\ StaysUp /\ LocksReleased
  <2> SUFFICES ASSUME Init
               PROVE  FreshUnlocked /\ StaysUp /\ LocksReleased
    BY TypeInit
  <2> QED BY DEF Init, BadgerInit, BatchInit, FreshUnlocked, StaysUp,
                 LocksReleased, Locked
<1>2. /\ TypeOK /\ FreshUnlocked /\ StaysUp /\ LocksReleased
      /\ [Next]_vars
      => (TypeOK /\ FreshUnlocked /\ StaysUp /\ LocksReleased)'
  BY TypeNext, LocksStep
<1> QED BY <1>1, <1>2, PTL DEF Spec

-----------------------------------------------------------------------------
(* The refinement                                                          *)

(* What Board substitutes for the variables of Clipboard.                  *)
BoardNow == IF latest = NoKey THEN NoKey
            ELSE Content(WithPrefix(chunks, latest.seq))
OpenNow == {c \in Copies : pc[c] \in {"idle", "next"}} \union Writing
TakenNow == [p \in Pastes |-> IF header[p] = NoKey THEN NoKey
                              ELSE Content(snap[p])]
DeliveredNow == [p \in Pastes |-> IF ppc[p] = "done" THEN Content(out[p])
                                  ELSE NoKey]

(* Streams are bounded, and a paste has no header before it has read one.  *)
Bounded ==
  /\ \A c \in Copies : written[c] <= MaxChunks
  /\ latest # NoKey => latest.size <= MaxChunks
  /\ \A p \in Pastes : header[p] # NoKey => header[p].size <= MaxChunks
  /\ \A p \in Pastes : ppc[p] \in {"idle", "open"} => header[p] = NoKey

(* The chunks of a whole stream, read in the order of their ULIDs, are what
   the copy sent.                                                          *)
LEMMA WholeContent ==
  ASSUME NEW S \in SUBSET Chunk, NEW c, NEW n \in Nat, Whole(S, c, n)
  PROVE  Content(S) = Board!Payload(c, n)
<1> DEFINE Before(k) == {j.idx : j \in {i \in S : i.ulid < k.ulid}}
<1>1. ASSUME NEW k \in S PROVE Before(k) = 1..(k.idx - 1)
  <2>1. k.idx \in 1..n
    BY DEF Whole
  <2>2. ASSUME NEW j \in S, j.ulid < k.ulid PROVE j.idx \in 1..(k.idx - 1)
    <3>1. j.idx \in 1..n /\ j.idx < k.idx
      BY <2>2 DEF Whole
    <3> QED BY <2>1, <3>1
  <2>3. ASSUME NEW i \in 1..(k.idx - 1) PROVE i \in Before(k)
    <3>1. i \in 1..n /\ i < k.idx
      BY <2>1
    <3>2. PICK j \in S : j.idx = i
      BY <3>1 DEF Whole
    <3>3. j.ulid < k.ulid
      BY <3>1, <3>2 DEF Whole
    <3> QED BY <3>2, <3>3
  <2> QED BY <2>2, <2>3
<1>2. ASSUME NEW x \in Content(S) PROVE x \in Board!Payload(c, n)
  <2>1. PICK k \in S : x = <<k.copy, k.idx, Before(k)>>
    BY <1>2 DEF Content
  <2>2. k.copy = c /\ k.idx \in 1..n
    BY DEF Whole
  <2> QED BY <1>1, <2>1, <2>2 DEF Board!Payload
<1>3. ASSUME NEW x \in Board!Payload(c, n) PROVE x \in Content(S)
  <2>1. PICK i \in 1..n : x = <<c, i, 1..(i - 1)>>
    BY <1>3 DEF Board!Payload
  <2>2. PICK k \in S : k.idx = i
    BY DEF Whole
  <2>3. k.copy = c
    BY DEF Whole
  <2>4. x = <<k.copy, k.idx, Before(k)>>
    BY <1>1, <2>1, <2>2, <2>3
  <2> QED BY <2>4 DEF Content
<1> QED BY <1>2, <1>3

(* The next values of the substituted expressions.                         *)
LEMMA BoardNext ==
  /\ BoardNow' = IF latest' = NoKey THEN NoKey
                 ELSE Content(WithPrefix(chunks', latest'.seq))
  /\ TakenNow' = [p \in Pastes |-> IF header'[p] = NoKey THEN NoKey
                                   ELSE Content(snap'[p])]
  /\ DeliveredNow' = [p \in Pastes |-> IF ppc'[p] = "done" THEN Content(out'[p])
                                       ELSE NoKey]
BY DEF BoardNow, TakenNow, DeliveredNow, Content, WithPrefix

(* A step that changes neither the content nor the pastes, and lets no copy
   in again, is a step of the clipboard.                                   *)
LEMMA QuietStep ==
  ASSUME BoardNow' = BoardNow, TakenNow' = TakenNow,
         DeliveredNow' = DeliveredNow, OpenNow' \subseteq OpenNow
  PROVE  Board!Next
<1>1. Board!Abort
  BY DEF Board!Abort, BoardNow, TakenNow, DeliveredNow, OpenNow
<1> QED BY <1>1 DEF Board!Next

(* Overflow, SetEntry and discard leave the chunks under LATEST alone.     *)
LEMMA BoardKept ==
  ASSUME TypeOK, latest' = latest,
         latest # NoKey => WithPrefix(chunks', latest.seq)
                             = WithPrefix(chunks, latest.seq)
  PROVE  BoardNow' = BoardNow
BY BoardNext DEF BoardNow

(* Steps that leave the pastes alone leave what they take and deliver.     *)
LEMMA PastesKept ==
  ASSUME UNCHANGED pasteVars
  PROVE  TakenNow' = TakenNow /\ DeliveredNow' = DeliveredNow
BY BoardNext DEF TakenNow, DeliveredNow

(* The content of a clipboard or a paste is a stream some copy sent: it is
   told apart from no content.                                             *)
LEMMA ContentIsSome ==
  ASSUME NEW S \in SUBSET Chunk, NEW c \in Copies, NEW n \in 0..MaxChunks,
         Whole(S, c, n)
  PROVE  Content(S) # NoKey
BY WholeContent, ContentAssumption

(* The final Flush of WriteBatch publishes the whole stream of its copy; all
   the other steps of WriteBatch are invisible, or its failure.            *)
LEMMA RefineWriteBatch ==
  ASSUME TypeOK, StoreSafe, LatestWhole', Bounded,
         NEW c \in Copies, WriteBatch(c)
  PROVE  Board!Next
<1> USE DEF TypeOK
<1>1. TakenNow' = TakenNow /\ DeliveredNow' = DeliveredNow
  BY PastesKept DEF WriteBatch
<1>2. CASE FlushLatest(c)
  <2>1. /\ pc[c] = "commit" /\ pc' = [pc EXCEPT ![c] = "releaseOk"]
        /\ latest' = [seq |-> ver[c], copy |-> c, size |-> written[c]]
    BY <1>2 DEF FlushLatest
  <2>2. OpenNow' = OpenNow \ {c} /\ c \in OpenNow
    BY <2>1 DEF OpenNow, Writing
  <2>3. chunks' \in SUBSET Chunk
    BY <1>2 DEF FlushLatest
  <2>4. latest' # NoKey
    <3>1. latest' \in Header
      BY <2>1 DEF Header
    <3> QED BY <3>1, NoKeyAssumption
  <2>5. Whole(WithPrefix(chunks', ver[c]), c, written[c])
    BY <2>1, <2>4 DEF LatestWhole, Whole, WithPrefix
  <2>6. Content(WithPrefix(chunks', ver[c])) = Board!Payload(c, written[c])
    <3>1. WithPrefix(chunks', ver[c]) \in SUBSET Chunk
      BY <2>3 DEF WithPrefix
    <3> QED BY <2>5, <3>1, WholeContent
  <2>7. BoardNow' = Board!Payload(c, written[c])
    BY <2>1, <2>4, <2>6, BoardNext
  <2>8. written[c] \in 0..MaxChunks
    BY DEF Bounded
  <2>9. Board!Publish(c)
    BY <1>1, <2>2, <2>7, <2>8
    DEF Board!Publish, BoardNow, TakenNow, DeliveredNow, OpenNow
  <2> QED BY <2>9 DEF Board!Next
<1>3. CASE ~FlushLatest(c)
  <2>1. /\ latest' = latest
        /\ chunks' = chunks \/ (chunks' = chunks \union batch[c] /\ c \in Writing)
    BY <1>3
    DEF WriteBatch, CopyBegin, CopyVersion, CopyRead, CopyEof, CopySeal,
        CopyBatch, CopyError, CopyEnd, LockVersion, Overflow, SetEntry,
        Release, Writing
  <2>2. ASSUME latest # NoKey, c \in Writing
        PROVE  WithPrefix(chunks \union batch[c], latest.seq)
                 = WithPrefix(chunks, latest.seq)
    <3>1. ver[c] # latest.seq /\ \A k \in batch[c] : k.ver = ver[c]
      BY <2>2 DEF StoreSafe, VersionsDistinct, UlidsBelow
    <3> QED BY <3>1 DEF WithPrefix
  <2>3. BoardNow' = BoardNow
    BY <2>1, <2>2, BoardKept
  <2>4. OpenNow' \subseteq OpenNow
    <3> DEFINE Early == {"idle", "next", "read", "lock", "flush", "set", "seal",
                         "commit"}
    <3>1. pc'[c] \in Early => pc[c] \in Early
      BY <1>3
      DEF WriteBatch, CopyBegin, CopyVersion, CopyRead, CopyEof, CopySeal,
          CopyBatch, CopyError, CopyEnd, LockVersion, Overflow, SetEntry,
          Release, Validate
    <3>2. \A d \in Copies : pc'[d] \in Early => pc[d] \in Early
      BY <3>1, OtherCopies
    <3> QED BY <3>2 DEF OpenNow, Writing
  <2> QED BY <1>1, <2>3, <2>4, QuietStep
<1> QED BY <1>2, <1>3

(* db.View takes the content at one instant, and the last Flush of ReadBatch
   delivers it; the steps between them are invisible.                      *)
LEMMA RefineReadBatch ==
  ASSUME TypeOK, LatestWhole, PasteSafe, Bounded, NEW p \in Pastes,
         ReadBatch(p)
  PROVE  Board!Next
<1> USE DEF TypeOK
<1>1. BoardNow' = BoardNow /\ OpenNow' = OpenNow
  BY BoardKept DEF ReadBatch, OpenNow, Writing
<1>2. CASE PasteOpen(p)
  <2>1. /\ ppc[p] = "open" /\ latest # NoKey
        /\ ppc' = [ppc EXCEPT ![p] = "send"]
        /\ header' = [header EXCEPT ![p] = latest]
        /\ snap' = [snap EXCEPT ![p] = WithPrefix(chunks, latest.seq)]
        /\ out' = out
    BY <1>2 DEF PasteOpen
  <2>2. BoardNow = Content(WithPrefix(chunks, latest.seq))
    BY <2>1 DEF BoardNow
  <2>3. TakenNow' = [TakenNow EXCEPT ![p] = BoardNow]
    BY <2>1, <2>2, BoardNext DEF TakenNow
  <2>4. TakenNow[p] = NoKey
    BY <2>1 DEF TakenNow, Bounded
  <2>5. DeliveredNow' = DeliveredNow
    BY <2>1, BoardNext DEF DeliveredNow
  <2>6. BoardNow # NoKey
    <3>1. Whole(WithPrefix(chunks, latest.seq), latest.copy, latest.size)
      BY <2>1 DEF LatestWhole
    <3>2. latest.copy \in Copies /\ latest.size \in 0..MaxChunks
      BY <2>1 DEF Header, Bounded
    <3>3. WithPrefix(chunks, latest.seq) \in SUBSET Chunk
      BY DEF WithPrefix
    <3> QED BY <2>2, <3>1, <3>2, <3>3, ContentIsSome
  <2>7. Board!Take(p)
    BY <1>1, <2>3, <2>4, <2>5, <2>6
    DEF Board!Take, BoardNow, TakenNow, DeliveredNow, OpenNow
  <2> QED BY <2>7 DEF Board!Next
<1>3. CASE PasteFlush(p)
  <2>1. /\ ppc[p] = "send" /\ ppc' = [ppc EXCEPT ![p] = "done"]
        /\ UNCHANGED <<header, snap, out>>
    BY <1>3 DEF PasteFlush
  <2>2. header[p] # NoKey /\ out[p] = snap[p]
    <3>1. header[p] # NoKey /\ out[p] \subseteq snap[p]
      BY <2>1 DEF PasteSafe, PasteIntact
    <3>2. snap[p] \subseteq out[p]
      BY <1>3, IterAtEnd DEF PasteFlush
    <3> QED BY <3>1, <3>2
  <2>3. TakenNow' = TakenNow /\ TakenNow[p] = Content(out[p])
    BY <2>1, <2>2, BoardNext DEF TakenNow
  <2>4. DeliveredNow' = [DeliveredNow EXCEPT ![p] = TakenNow[p]]
    BY <2>1, <2>3, BoardNext DEF DeliveredNow
  <2>5. DeliveredNow[p] = NoKey
    BY <2>1 DEF DeliveredNow
  <2>6. TakenNow[p] # NoKey
    <3>1. Whole(out[p], header[p].copy, header[p].size)
      BY <2>1, <2>2 DEF PasteSafe, PasteIntact
    <3>2. header[p].copy \in Copies /\ header[p].size \in 0..MaxChunks
      BY <2>2 DEF Header, Bounded
    <3> QED BY <2>3, <3>1, <3>2, ContentIsSome
  <2>7. Board!Deliver(p)
    BY <1>1, <2>3, <2>4, <2>5, <2>6
    DEF Board!Deliver, BoardNow, TakenNow, DeliveredNow, OpenNow
  <2> QED BY <2>7 DEF Board!Next
<1>4. CASE PasteBegin(p) \/ PasteNotFound(p) \/ PasteSend(p) \/ PasteError(p)
  <2>1. /\ UNCHANGED <<header, snap>>
        /\ ppc[p] # "done" /\ ppc'[p] # "done"
        /\ \A q \in Pastes : q # p => ppc'[q] = ppc[q] /\ out'[q] = out[q]
    BY <1>4 DEF PasteBegin, PasteNotFound, PasteSend, PasteError
  <2>2. TakenNow' = TakenNow
    BY <2>1, BoardNext DEF TakenNow
  <2>3. DeliveredNow' = DeliveredNow
    BY <2>1, BoardNext DEF DeliveredNow
  <2> QED BY <1>1, <2>2, <2>3, QuietStep
<1> QED BY <1>2, <1>3, <1>4 DEF ReadBatch

(* The collector deletes nothing of the content.                           *)
LEMMA RefineCollect ==
  ASSUME TypeOK, StoreSafe, Collect
  PROVE  Board!Next
<1> USE DEF TypeOK
<1>1. TakenNow' = TakenNow /\ DeliveredNow' = DeliveredNow
  BY PastesKept DEF Collect
<1>2. OpenNow' = OpenNow
  BY DEF Collect, OpenNow, Writing
<1>3. latest' = latest /\ (chunks' = chunks \/ chunks' = chunks \ dels)
  BY DEF Collect, GcTick, GcScan, GcDone, DiscardBegin, DiscardKey,
         DiscardTooBig, DiscardCommit, DiscardError
<1>4. ASSUME latest # NoKey
      PROVE  WithPrefix(chunks \ dels, latest.seq)
               = WithPrefix(chunks, latest.seq)
  BY <1>4 DEF StoreSafe, DiscardSafe, WithPrefix
<1>5. BoardNow' = BoardNow
  BY <1>3, <1>4, BoardKept
<1> QED BY <1>1, <1>2, <1>5, QuietStep

(* Expiry and DropAll lose the content; Close, the end and the start of the
   process do not.                                                         *)
LEMMA RefineRest ==
  ASSUME TypeOK, Expire \/ Close \/ Exit \/ Open \/ \E l \in Clears : DropAll(l)
  PROVE  Board!Next
<1> USE DEF TypeOK
<1>1. ASSUME latest' = NoKey, UNCHANGED <<pc, pasteVars>>
      PROVE  Board!Next
  <2>1. BoardNow' = NoKey
    BY <1>1, BoardNext
  <2>2. OpenNow' = OpenNow
    BY <1>1 DEF OpenNow, Writing
  <2>3. TakenNow' = TakenNow /\ DeliveredNow' = DeliveredNow
    BY <1>1, PastesKept
  <2>4. Board!Lose
    BY <2>1, <2>2, <2>3
    DEF Board!Lose, BoardNow, TakenNow, DeliveredNow, OpenNow
  <2> QED BY <2>4 DEF Board!Next
<1>2. ASSUME UNCHANGED <<chunks, latest, pc, pasteVars>>
      PROVE  Board!Next
  <2>1. BoardNow' = BoardNow
    BY <1>2, BoardKept
  <2>2. OpenNow' = OpenNow
    BY <1>2 DEF OpenNow, Writing
  <2>3. TakenNow' = TakenNow /\ DeliveredNow' = DeliveredNow
    BY <1>2, PastesKept
  <2> QED BY <2>1, <2>2, <2>3, QuietStep
<1>3. CASE Expire
  BY <1>1, <1>3 DEF Expire
<1>4. CASE Close \/ Open
  BY <1>2, <1>4 DEF Close, Open
<1>5. CASE Exit
  <2>1. BoardNow' = BoardNow
    BY <1>5, BoardKept DEF Exit
  <2>2. OpenNow' \subseteq OpenNow
    BY <1>5 DEF Exit, OpenNow, Writing
  <2>3. TakenNow' = TakenNow
    BY <1>5, BoardNext DEF Exit, TakenNow
  <2>4. \A p \in Pastes : ppc'[p] = "done" <=> ppc[p] = "done"
    BY <1>5 DEF Exit
  <2>5. DeliveredNow' = DeliveredNow
    BY <1>5, <2>4, BoardNext DEF Exit, DeliveredNow
  <2> QED BY <2>1, <2>2, <2>3, <2>5, QuietStep
<1>6. ASSUME NEW l \in Clears, DropAll(l)
      PROVE  Board!Next
  <2>1. CASE latest' = NoKey
    BY <1>1, <1>6, <2>1 DEF DropAll
  <2>2. CASE latest' # NoKey
    BY <1>2, <1>6, <2>2 DEF DropAll, ClearLock, ClearDrop
  <2> QED BY <2>1, <2>2
<1> QED BY <1>3, <1>4, <1>5, <1>6

(* CopyRead stops at the bound, and a header is that of a bounded stream.  *)
LEMMA BoundedStep ==
  ASSUME TypeOK, Bounded, [Next]_vars
  PROVE  Bounded'
<1> USE DEF TypeOK
<1>1. \A c \in Copies : written'[c] <= MaxChunks
  <2>1. ASSUME NEW c \in Copies, WriteBatch(c)
        PROVE  \A d \in Copies : written'[d] <= MaxChunks
    <3>1. written'[c] <= MaxChunks
      <4>1. CASE CopyRead(c)
        BY <4>1 DEF CopyRead
      <4>2. CASE CopyEnd(c)
        BY <4>2 DEF CopyEnd, Release, Forget
      <4>3. CASE UNCHANGED written
        BY <4>3 DEF Bounded
      <4> QED
        BY <2>1, <4>1, <4>2, <4>3
        DEF WriteBatch, CopyBegin, CopyVersion, CopyEof, CopySeal, CopyBatch,
            CopyError, LockVersion, Overflow, SetEntry, FlushLatest
    <3> QED BY <2>1, <3>1, OtherCopies DEF Bounded
  <2>2. CASE Exit
    BY <2>2 DEF Exit, Forget
  <2>3. CASE UNCHANGED written
    BY <2>3 DEF Bounded
  <2> QED
    BY <2>1, <2>2, <2>3
    DEF Next, ReadBatch, DropAll, Collect, Expire, Close, Open, vars
<1>2. latest' # NoKey => latest'.size <= MaxChunks
  <2>1. ASSUME NEW c \in Copies, FlushLatest(c)
        PROVE  latest'.size <= MaxChunks
    BY <2>1 DEF FlushLatest, Bounded
  <2>2. CASE latest' \in {latest, NoKey}
    BY <2>2 DEF Bounded
  <2>3. ASSUME NEW c \in Copies, WriteBatch(c), ~FlushLatest(c)
        PROVE  latest' = latest
    BY <2>3
    DEF WriteBatch, CopyBegin, CopyVersion, CopyRead, CopyEof, CopySeal,
        CopyBatch, CopyError, CopyEnd, LockVersion, Overflow, SetEntry, Release
  <2>4. ASSUME ~ \E c \in Copies : WriteBatch(c)
        PROVE  latest' \in {latest, NoKey}
    BY <2>4
    DEF Next, ReadBatch, DropAll, ClearLock, ClearDrop, Collect, Expire, Close,
        Exit, Open, vars
  <2> QED BY <2>1, <2>2, <2>3, <2>4
<1>3. ASSUME NEW p \in Pastes
      PROVE  /\ header'[p] # NoKey => header'[p].size <= MaxChunks
             /\ ppc'[p] \in {"idle", "open"} => header'[p] = NoKey
  <2>1. ASSUME NEW q \in Pastes, ReadBatch(q)
        PROVE  /\ header'[p] # NoKey => header'[p].size <= MaxChunks
               /\ ppc'[p] \in {"idle", "open"} => header'[p] = NoKey
    <3>1. CASE PasteOpen(q)
      BY <3>1 DEF PasteOpen, Bounded
    <3>2. CASE ~PasteOpen(q)
      BY <2>1, <3>2
      DEF ReadBatch, PasteBegin, PasteNotFound, PasteSend, PasteFlush,
          PasteError, Bounded
    <3> QED BY <3>1, <3>2
  <2>2. CASE Exit
    BY <2>2 DEF Exit, Bounded
  <2>3. CASE UNCHANGED pasteVars
    BY <2>3 DEF Bounded
  <2> QED
    BY <2>1, <2>2, <2>3
    DEF Next, WriteBatch, DropAll, Collect, Expire, Close, Open, vars
<1> QED BY <1>1, <1>2, <1>3 DEF Bounded

(* As long as no lease begins at an old version, every step of the store is
   a step of the clipboard, or changes nothing of it.                      *)
LEMMA RefineStep ==
  ASSUME Inductive, Inductive', Bounded, ~rewound', [Next]_vars
  PROVE  [Board!Next]_(Board!abstractVars)
<1>1. TypeOK /\ StoreSafe /\ PasteSafe /\ LatestWhole'
  BY RewoundStays DEF Inductive, StoreSafe
<1>2. ASSUME NEW c \in Copies, WriteBatch(c) PROVE Board!Next
  BY <1>1, <1>2, RefineWriteBatch
<1>3. ASSUME NEW p \in Pastes, ReadBatch(p) PROVE Board!Next
  BY <1>1, <1>3, RefineReadBatch DEF StoreSafe
<1>4. CASE Collect
  BY <1>1, <1>4, RefineCollect
<1>5. CASE Expire \/ Close \/ Exit \/ Open \/ \E l \in Clears : DropAll(l)
  BY <1>1, <1>5, RefineRest
<1>6. CASE UNCHANGED vars
  <2>1. BoardNow' = BoardNow
    BY <1>1, <1>6, BoardKept DEF vars
  <2>2. OpenNow' = OpenNow
    BY <1>6 DEF OpenNow, Writing, vars
  <2>3. TakenNow' = TakenNow /\ DeliveredNow' = DeliveredNow
    BY <1>6, PastesKept DEF vars
  <2> QED BY <2>1, <2>2, <2>3, QuietStep
<1> QED BY <1>2, <1>3, <1>4, <1>5, <1>6 DEF Next

(* The store starts as an empty clipboard.                                 *)
LEMMA RefineInit == Init => Board!Init /\ Bounded
<1> SUFFICES ASSUME Init PROVE Board!Init /\ Bounded
  OBVIOUS
<1>1. Bounded
  BY DEF Init, BadgerInit, BatchInit, Bounded
<1>2. Board!Init
  BY DEF Init, BadgerInit, BatchInit, Board!Init, Writing
<1> QED BY <1>1, <1>2

(* The store implements the abstract clipboard for as long as no lease has
   begun at an old version, clears included: WriteBatch takes effect at its
   last Flush, whole and at most once, or not at all; ReadBatch delivers what
   LATEST led to when its transaction began; discard, crashes and restarts
   are invisible.                                                          *)
THEOREM StepsRefineClipboard ==
  ASSUME BatchLimit <= TxnCapacity
  PROVE  Spec => /\ Board!Init
                 /\ [][~rewound' => [Board!Next]_(Board!abstractVars)]_vars
<1> DEFINE Refined == [Board!Next]_(Board!abstractVars)
<1>1. Init => Board!Init /\ Bounded
  BY RefineInit
<1>2. Inductive /\ Bounded /\ [Next]_vars => Bounded'
  BY BoundedStep DEF Inductive
<1>3. Inductive /\ Inductive' /\ Bounded /\ [Next]_vars => (~rewound' => Refined)
  BY RefineStep
<1> HIDE DEF Refined
<1>4. Spec => Board!Init /\ [][~rewound' => Refined]_vars
  BY <1>1, <1>2, <1>3, InductiveInvariant, PTL DEF Spec
<1> QED BY <1>4 DEF Refined

(* In a store that is never cleared it always does: Storage implements
   Clipboard, for any number of copies, pastes and restarts.               *)
THEOREM StorageRefinesClipboard ==
  ASSUME Clears = {}, BatchLimit <= TxnCapacity
  PROVE  Spec => RefinesClipboard
<1>1. Init => Board!Init /\ Bounded
  BY RefineInit
<1>2. Inductive /\ Bounded /\ [Next]_vars => Bounded'
  BY BoundedStep DEF Inductive
<1>3. Inductive /\ Inductive' /\ Bounded /\ ~rewound' /\ [Next]_vars
        => [Board!Next]_(Board!abstractVars)
  BY RefineStep
<1>4. Spec => Board!Spec
  BY <1>1, <1>2, <1>3, InductiveInvariant, NeverRewound, PTL
  DEF Spec, Board!Spec
<1> QED BY <1>4 DEF RefinesClipboard
=============================================================================
