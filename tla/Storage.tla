------------------------------ MODULE Storage -------------------------------
(***************************************************************************)
(* storage/badger.go: the clipboard store.  Copy requests run WriteBatch,  *)
(* paste requests ReadBatch, clear requests DropAll and a ticker runs      *)
(* discard, all concurrently; a read-write mutex keeps DropAll apart from  *)
(* the rest.  The server process may crash, or close the store and exit,   *)
(* at any point, and be started again on the same database.                *)
(*                                                                         *)
(* A step of a request ends where another goroutine could observe or       *)
(* disturb it: at a lock, at a database transaction, at a read from or a   *)
(* write to the network.                                                   *)
(***************************************************************************)
EXTENDS BatchWriter, Gc

CONSTANTS
  Pastes,       (* Paste requests.                                         *)
  Clears,       (* Clear requests.                                         *)
  Collector,    (* The goroutine that runs the garbage collector.          *)
  MaxChunks,    (* Bound: blocks in a copied stream.                       *)
  MaxRestarts   (* Bound: how often the server process stops.              *)

ASSUME ActorsAssumption == /\ Collector \notin Copies \union Pastes
                           /\ Copies \intersect Pastes = {}
                           /\ NoKey \notin Clears
ASSUME BoundsAssumption == MaxChunks \in Nat /\ MaxRestarts \in Nat

VARIABLES
  status,       (* The process: up, closing or down.                       *)
  restarts,     (* How often the process has stopped.                      *)
  ulid,         (* The next ULID: b.t and b.entropy.                       *)
  rlocked,      (* Who holds b.RLock.                                      *)
  wlock,        (* The clear request that has called b.Lock, or NoKey.     *)
  ppc,          (* Where the ReadBatch call of a paste stands.             *)
  header,       (* cb, the LATEST it has read.                             *)
  snap,         (* Chunks of that version in its snapshot.                 *)
  out,          (* Chunks it has written to the client.                    *)
  cpc           (* Where the DropAll call of a clear stands.               *)

procVars  == <<status, restarts>>
lockVars  == <<rlocked, wlock>>
pasteVars == <<ppc, header, snap, out>>

vars == <<dbVars, seq, gcTxn, conflict, top, rewound, pc, batchVars, todo,
          dels, deleted, procVars, ulid, lockVars, pasteVars, cpc>>

Running == status # "down"

(* sync.RWMutex: RLock waits while a writer holds or awaits the lock, Lock
   waits until the readers that hold it are gone.                          *)
RLock(a) == wlock = NoKey /\ rlocked' = rlocked \union {a}
RUnlock(a) == rlocked' = rlocked \ {a}

-----------------------------------------------------------------------------
(* WriteBatch                                                              *)

CopyBegin(c) ==
  /\ Running
  /\ pc[c] = "idle"
  /\ RLock(c)
  /\ GoTo(c, "next")
  /\ UNCHANGED <<dbVars, seq, conflict, top, rewound, batchVars, ulid, wlock>>

(* seq.Next and NewBatchWriter.  An error returns before the deferred
   Release is set up.                                                      *)
CopyVersion(c) ==
  /\ pc[c] = "next"
  /\ \/ /\ SeqNext
        /\ ver' = [ver EXCEPT ![c] = NextVersion]
        /\ GoTo(c, "read")
        /\ UNCHANGED rlocked
     \/ /\ IoErrors
        /\ GoTo(c, "failed")
        /\ RUnlock(c)
        /\ UNCHANGED <<version, seq, top, rewound, ver>>
  /\ UNCHANGED <<chunks, latest, pending, conflict, written, batch, txnCount,
                 entry, eof, batchSize, once, ulid, wlock>>

(* r.Read returns a block: without an error, or the last one, with io.EOF.  *)
CopyRead(c) ==
  /\ pc[c] = "read"
  /\ written[c] < MaxChunks
  /\ Validate(c, [ver |-> ver[c], ulid |-> ulid, copy |-> c,
                  idx |-> written[c] + 1])
  /\ ulid' = ulid + 1
  /\ written' = [written EXCEPT ![c] = @ + 1]
  /\ \E last \in BOOLEAN : eof' = [eof EXCEPT ![c] = last]
  /\ UNCHANGED <<dbVars, seq, conflict, top, rewound, ver, batch, txnCount,
                 once, lockVars>>

(* r.Read returns no byte and io.EOF.                                      *)
CopyEof(c) ==
  /\ pc[c] = "read"
  /\ eof' = [eof EXCEPT ![c] = TRUE]
  /\ GoTo(c, "seal")
  /\ UNCHANGED <<dbVars, seq, conflict, top, rewound, ver, written, batch,
                 txnCount, entry, batchSize, once, ulid, lockVars>>

(* Build the header and validate its entry.                                *)
CopySeal(c) ==
  /\ pc[c] = "seal"
  /\ Validate(c, NoKey)
  /\ UNCHANGED <<dbVars, seq, conflict, top, rewound, ver, written, batch,
                 txnCount, eof, once, ulid, lockVars>>

CopyBatch(c) ==
  /\ LockVersion(c) \/ Overflow(c) \/ SetEntry(c) \/ FlushLatest(c)
  /\ UNCHANGED <<version, seq, top, rewound, ulid, lockVars>>

(* An error return: the stream breaks (the client cancels, times out or
   disconnects) or a database operation fails without effect.              *)
CopyError(c) ==
  /\ \/ pc[c] = "read"
     \/ IoErrors /\ pc[c] \in {"lock", "flush", "set", "commit"}
  /\ GoTo(c, "releaseErr")
  /\ UNCHANGED <<dbVars, seq, conflict, top, rewound, batchVars, ulid,
                 lockVars>>

(* Mutant of CopyEnd: the lock is given back only after a success.         *)
CopyEndLocked(c) ==
  /\ Release(c)
  /\ IF pc[c] = "releaseOk" THEN RUnlock(c) ELSE UNCHANGED rlocked
  /\ UNCHANGED <<version, seq, top, rewound, ulid, wlock>>

(* The deferred Release, then RUnlock.                                     *)
CopyEnd(c) ==
  /\ Release(c)
  /\ RUnlock(c)
  /\ UNCHANGED <<version, seq, top, rewound, ulid, wlock>>

WriteBatch(c) ==
  /\ \/ CopyBegin(c) \/ CopyVersion(c) \/ CopyRead(c) \/ CopyEof(c)
     \/ CopySeal(c) \/ CopyBatch(c) \/ CopyError(c) \/ CopyEnd(c)
  /\ UNCHANGED <<gcVars, procVars, pasteVars, cpc>>

-----------------------------------------------------------------------------
(* ReadBatch                                                               *)

PasteBegin(p) ==
  /\ Running
  /\ ppc[p] = "idle"
  /\ RLock(p)
  /\ ppc' = [ppc EXCEPT ![p] = "open"]
  /\ UNCHANGED <<header, snap, out>>

(* db.View starts a snapshot and reads LATEST in it; the iterator will meet
   the chunks of that version as they are in the snapshot.                 *)
PasteOpen(p) ==
  /\ ppc[p] = "open"
  /\ latest # NoKey
  /\ header' = [header EXCEPT ![p] = latest]
  /\ snap' = [snap EXCEPT ![p] = WithPrefix(chunks, latest.seq)]
  /\ ppc' = [ppc EXCEPT ![p] = "send"]
  /\ UNCHANGED <<out, rlocked>>

PasteNotFound(p) ==
  /\ ppc[p] = "open"
  /\ latest = NoKey
  /\ ppc' = [ppc EXCEPT ![p] = "notFound"]
  /\ RUnlock(p)
  /\ UNCHANGED <<header, snap, out>>

(* Mutant of IterNext: the iterator sees the database as it is now.        *)
IterNextLive(p) ==
  LET left == WithPrefix(chunks, header[p].seq) \ out[p]
  IN  {k \in left : \A j \in left : k.ulid <= j.ulid}

(* The iterator's next key: the least ULID not written yet.                *)
IterNext(p) ==
  {k \in snap[p] \ out[p] : \A j \in snap[p] \ out[p] : k.ulid <= j.ulid}

PasteSend(p) ==
  /\ ppc[p] = "send"
  /\ \E k \in IterNext(p) : out' = [out EXCEPT ![p] = @ \union {k}]
  /\ UNCHANGED <<ppc, header, snap, rlocked>>

PasteFlush(p) ==
  /\ ppc[p] = "send"
  /\ IterNext(p) = {}
  /\ ppc' = [ppc EXCEPT ![p] = "done"]
  /\ RUnlock(p)
  /\ UNCHANGED <<header, snap, out>>

(* The client goes away or a read fails.                                   *)
PasteError(p) ==
  /\ \/ ppc[p] = "send"
     \/ IoErrors /\ ppc[p] = "open"
  /\ ppc' = [ppc EXCEPT ![p] = "failed"]
  /\ RUnlock(p)
  /\ UNCHANGED <<header, snap, out>>

ReadBatch(p) ==
  /\ \/ PasteBegin(p) \/ PasteOpen(p) \/ PasteNotFound(p) \/ PasteSend(p)
     \/ PasteFlush(p) \/ PasteError(p)
  /\ UNCHANGED <<dbVars, seq, gcTxn, conflict, top, rewound, pc, batchVars,
                 todo, dels, deleted, procVars, ulid, wlock, cpc>>

-----------------------------------------------------------------------------
(* DropAll                                                                 *)

ClearLock(l) ==
  /\ Running
  /\ cpc[l] = "idle"
  /\ wlock = NoKey
  /\ wlock' = l
  /\ cpc' = [cpc EXCEPT ![l] = "wait"]
  /\ UNCHANGED dbVars

(* Mutant of ClearDrop: the readers are not waited for.                    *)
ClearDropAtOnce(l) ==
  /\ cpc[l] = "wait"
  /\ chunks' = {}
  /\ latest' = NoKey
  /\ pending' = NoKey
  /\ version' = NoKey
  /\ cpc' = [cpc EXCEPT ![l] = "done"]
  /\ wlock' = NoKey

(* With the lock held, badger drops every key.                             *)
ClearDrop(l) ==
  /\ cpc[l] = "wait"
  /\ rlocked = {}
  /\ \/ /\ chunks' = {}
        /\ latest' = NoKey
        /\ pending' = NoKey
        /\ version' = NoKey
        /\ cpc' = [cpc EXCEPT ![l] = "done"]
     \/ /\ IoErrors
        /\ UNCHANGED dbVars
        /\ cpc' = [cpc EXCEPT ![l] = "failed"]
  /\ wlock' = NoKey

DropAll(l) ==
  /\ ClearLock(l) \/ ClearDrop(l)
  /\ UNCHANGED <<seq, gcTxn, conflict, top, rewound, pc, batchVars, todo,
                 dels, deleted, procVars, ulid, rlocked, pasteVars>>

-----------------------------------------------------------------------------
(* The collector's goroutine: its ticker stops when the store is closed.   *)

GcTick ==
  /\ status = "up"
  /\ DiscardBegin
  /\ RLock(Collector)

GcScan ==
  /\ DiscardKey \/ DiscardTooBig
  /\ UNCHANGED rlocked

GcDone ==
  /\ DiscardCommit \/ DiscardError
  /\ RUnlock(Collector)

Collect ==
  /\ GcTick \/ GcScan \/ GcDone
  /\ UNCHANGED <<latest, pending, version, seq, top, rewound, pc, batchVars,
                 procVars, ulid, wlock, pasteVars, cpc>>

-----------------------------------------------------------------------------
(* The TTL of LATEST runs out: badger no longer returns the key.           *)
Expire ==
  /\ latest # NoKey
  /\ latest' = NoKey
  /\ UNCHANGED <<chunks, pending, version, seq, gcTxn, conflict, top, rewound,
                 pc, batchVars, todo, dels, deleted, procVars, ulid, lockVars,
                 pasteVars, cpc>>

(* Close, up to the release of the sequence.  The server closes the store
   after Stop, which gives up waiting for requests after five seconds.     *)
Close ==
  /\ status = "up"
  /\ restarts < MaxRestarts
  /\ status' = "closing"
  /\ SeqRelease
  /\ UNCHANGED <<chunks, latest, pending, gcTxn, conflict, pc, batchVars, todo,
                 dels, deleted, restarts, ulid, lockVars, pasteVars, cpc>>

(* The process ends, by a crash or after Close; its requests fail with it.  *)
Exit ==
  /\ Running
  /\ status = "closing" \/ restarts < MaxRestarts
  /\ status' = "down"
  /\ restarts' = restarts + 1
  /\ pc' = [c \in Copies |->
              IF pc[c] \in {"idle", "ok"} THEN pc[c] ELSE "failed"]
  /\ Forget(Copies)
  /\ ppc' = [p \in Pastes |->
               IF ppc[p] \in {"open", "send"} THEN "failed" ELSE ppc[p]]
  /\ cpc' = [l \in Clears |-> IF cpc[l] = "wait" THEN "failed" ELSE cpc[l]]
  /\ rlocked' = {}
  /\ wlock' = NoKey
  /\ DiscardEnd
  /\ UNCHANGED <<dbVars, seq, top, rewound, ulid, header, snap, out>>

(* NewBadgerDB on the existing database.  The new process starts at a later
   time, so its ULIDs are greater than the old ones.  When badger.Open or the
   first lease fails the process ends with the database as it was, which is
   no step (module Server has these ends).                                 *)
Open ==
  /\ status = "down"
  /\ status' = "up"
  /\ UpdateLease(LeaseStart)
  /\ UNCHANGED <<chunks, latest, pending, gcTxn, conflict, top, pc, batchVars,
                 todo, dels, deleted, restarts, ulid, lockVars, pasteVars, cpc>>

-----------------------------------------------------------------------------
Init ==
  /\ BadgerInit
  /\ BatchInit
  /\ GcInit
  /\ status = "up"
  /\ restarts = 0
  /\ ulid = 0
  /\ rlocked = {}
  /\ wlock = NoKey
  /\ ppc = [p \in Pastes |-> "idle"]
  /\ header = [p \in Pastes |-> NoKey]
  /\ snap = [p \in Pastes |-> {}]
  /\ out = [p \in Pastes |-> {}]
  /\ cpc = [l \in Clears |-> "idle"]

Next ==
  \/ \E c \in Copies : WriteBatch(c)
  \/ \E p \in Pastes : ReadBatch(p)
  \/ \E l \in Clears : DropAll(l)
  \/ Collect
  \/ Expire
  \/ Close
  \/ Exit
  \/ Open

Spec == Init /\ [][Next]_vars

(* What the Go runtime and the operator owe: a request that does not wait
   for its client takes its next step, Lock is granted once the readers are
   gone, the ticker ticks, discard is not always cut off by its timeout, and
   a stopped server is started again.  Clients owe nothing: a stream may
   stall for ever, since copy and paste have no timeout by default.        *)
Fairness ==
  /\ \A c \in Copies : WF_vars(WriteBatch(c) /\ pc[c] \notin {"idle", "read"})
  /\ \A p \in Pastes : WF_vars(ReadBatch(p) /\ ppc[p] = "open")
  /\ \A l \in Clears : WF_vars(DropAll(l) /\ cpc[l] = "wait")
  /\ WF_vars(Collect /\ GcTick)
  /\ SF_vars(Collect /\ GcScan)
  /\ WF_vars(Collect /\ GcDone)
  /\ WF_vars(Open)

FairSpec == Spec /\ Fairness

-----------------------------------------------------------------------------
(* Properties                                                              *)

(* Every variable keeps its type: in particular VERSION never goes below 0
   when a lease is handed back.                                            *)
TypeOK ==
  /\ chunks \in SUBSET Chunk
  /\ latest \in Header \union {NoKey}
  /\ pending \in LockedTransaction \union {NoKey}
  /\ version \in Nat \union {NoKey}
  /\ seq \in [next : Nat, leased : Nat]
  /\ gcTxn \in {"none", "first", "later"}
  /\ conflict \in BOOLEAN
  /\ top \in Nat
  /\ rewound \in BOOLEAN
  /\ pc \in [Copies -> {"idle", "next", "read", "lock", "flush", "set", "seal",
                        "commit", "releaseOk", "releaseErr", "ok", "failed"}]
  /\ ver \in [Copies -> Nat]
  /\ written \in [Copies -> Nat]
  /\ batch \in [Copies -> SUBSET Chunk]
  /\ txnCount \in [Copies -> Nat]
  /\ entry \in [Copies -> Chunk \union {NoKey}]
  /\ eof \in [Copies -> BOOLEAN]
  /\ batchSize \in [Copies -> Nat]
  /\ once \in [Copies -> BOOLEAN]
  /\ todo \in SUBSET Chunk
  /\ dels \in SUBSET Chunk
  /\ deleted \in Nat
  /\ status \in {"up", "closing", "down"}
  /\ restarts \in Nat
  /\ ulid \in Nat
  /\ rlocked \in SUBSET (Copies \union Pastes \union {Collector})
  /\ wlock \in Clears \union {NoKey}
  /\ ppc \in [Pastes -> {"idle", "open", "send", "done", "notFound", "failed"}]
  /\ header \in [Pastes -> Header \union {NoKey}]
  /\ snap \in [Pastes -> SUBSET Chunk]
  /\ out \in [Pastes -> SUBSET Chunk]
  /\ cpc \in [Clears -> {"idle", "wait", "done", "failed"}]

(* S, read in ULID order, is the stream of n blocks that request c sent.   *)
Whole(S, c, n) ==
  /\ \A k \in S : k.copy = c /\ k.idx \in 1..n
  /\ \A i \in 1..n : \E k \in S : k.idx = i
  /\ \A j, k \in S : j.ulid < k.ulid <=> j.idx < k.idx

(* LATEST always points to the complete stream of exactly one copy request,
   whatever copies, discards, failures and restarts have been going on.    *)
LatestWhole ==
  latest # NoKey =>
    Whole(WithPrefix(chunks, latest.seq), latest.copy, latest.size)

(* A paste that reports success has written to its client exactly the stream
   of the copy whose header it sent, although that copy may have been
   replaced, expired and discarded meanwhile.                              *)
PasteWhole ==
  \A p \in Pastes : ppc[p] = "done" =>
    Whole(out[p], header[p].copy, header[p].size)

(* Requests whose WriteBatch has a version and has not published it.       *)
Writing == {c \in Copies : pc[c] \in {"read", "lock", "flush", "set", "seal",
                                      "commit"}}

(* The entry that a running copy is about to add to its batch.             *)
Adding(c) == IF pc[c] \in {"lock", "flush", "set"} /\ entry[c] # NoKey
               THEN {entry[c]} ELSE {}

(* The blocks of a running copy: stored, buffered and about to be added.   *)
Stream(c) == WithPrefix(chunks, ver[c]) \union batch[c] \union Adding(c)

(* Until a copy publishes or fails, what it has read is either still in its
   batch or in the database: the collector, which runs between its flushes,
   takes nothing of it away, and no other copy adds to it.                 *)
RunningCopyIntact ==
  \A c \in Writing : Whole(Stream(c), c, written[c])

(* The Sequence never hands a version out twice, across leases, releases and
   restarts: chunks of two copies are never mixed under one prefix.        *)
OneCopyPerVersion ==
  /\ \A j, k \in chunks : j.ver = k.ver => j.copy = k.copy
  /\ \A c \in Writing : \A k \in chunks : k.ver = ver[c] => k.copy = c
  /\ \A c, d \in Writing : ver[c] = ver[d] => c = d

(* Without crashes and database errors, PENDING protects only versions whose
   WriteBatch is still running: every way out of WriteBatch unlocks.       *)
LocksReleased ==
  Locked \subseteq {ver[c] : c \in {d \in Copies : once[d]}}

(* Chunks no LATEST leads to and no running copy may still publish.        *)
Garbage ==
  {k \in chunks : /\ latest = NoKey \/ k.ver # latest.seq
                  /\ \A c \in Writing : k.ver # ver[c]}

(* No stream stalls for ever.                                              *)
ClientsKeepUp ==
  /\ \A c \in Copies : []<>(pc[c] # "read")
  /\ \A p \in Pastes : []<>(ppc[p] # "send")

(* The data of replaced, expired and failed copies does not stay: discard
   removes it, unless a client stalls (a clear that waits for it keeps the
   collector out as well).                                                 *)
GarbageCollected == ClientsKeepUp => []<>(Garbage = {})

(* A clear is not starved: DropAll gets the lock although copies, pastes and
   discards keep arriving, unless a client that it waits for stalls.       *)
ClearCompletes ==
  ClientsKeepUp => \A l \in Clears : cpc[l] = "wait" ~> cpc[l] # "wait"

(* The content that a set of chunks under one prefix stands for.           *)
Content(S) ==
  {<<k.copy, k.idx, {j.idx : j \in {i \in S : i.ulid < k.ulid}}>> : k \in S}

Board ==
  INSTANCE Clipboard WITH
    MaxBlocks <- MaxChunks,
    board <- IF latest = NoKey THEN NoKey
             ELSE Content(WithPrefix(chunks, latest.seq)),
    open <- {c \in Copies : pc[c] \in {"idle", "next"}} \union Writing,
    taken <- [p \in Pastes |-> IF header[p] = NoKey THEN NoKey
                               ELSE Content(snap[p])],
    delivered <- [p \in Pastes |-> IF ppc[p] = "done" THEN Content(out[p])
                                   ELSE NoKey]

(* What a lookup of a missing key yields is no content.                    *)
ASSUME ContentAssumption ==
  \A c \in Copies : \A n \in 0..MaxChunks : Board!Payload(c, n) # NoKey

(* The store implements the abstract clipboard: copies take effect at one
   instant, whole and at most once, and a paste delivers the clipboard as it
   was at one moment, however WriteBatch, ReadBatch, discard, DropAll, expiry
   and restarts interleave.                                                *)
RefinesClipboard == Board!Spec
=============================================================================
