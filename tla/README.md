# A TLA+ model of webcb

webcb is a clipboard over the network. `webcb serve` keeps one clipboard in a
badger database; `webcb copy` streams its standard input to it and `webcb paste`
streams it back, optionally compressed (zstd), encrypted (sio, AES-256-GCM) and
with a SHA-256 checksum. This directory holds TLA+ modules for the parts of webcb that keep
state or exchange messages, TLC configurations that check them on small
instances, and TLAPS proofs of their main safety properties for every value of
the constants.

Paths such as `storage/gc.go:96` are relative to the repository.

## 1. Inventory

| component | state | operations | talks to |
|---|---|---|---|
| store (`storage/badger.go`) | badger keys `<version>/<ULID>/chunk`, `LATEST`, `PENDING`, `VERSION`; the version `Sequence`; a ULID source; a `sync.RWMutex` | `WriteBatch`, `ReadBatch`, `DropAll`, `Close`, `NewBadgerDB`; `Size`, `Path` (read only) | called by the gRPC handlers; runs the collector in a goroutine |
| batch writer (`storage/batch_writer.go`) | a badger WriteBatch, its estimated size, the version, a `sync.Once` | `Validate` (flush on overflow), `lockVersion`, `Release`/`unlockVersion` | `PENDING`, chunk keys |
| collector (`storage/gc.go`) | a transaction, a count of deletions | `discard`, `runGC` | reads `LATEST`, `PENDING`; deletes chunk keys |
| stream reader and writer (`internal/grpc`) | one reused buffer each and indices into it | `Write`, `Flush`, `Read` | the gRPC stream, at both ends |
| gRPC service (`server/clipboard.go`) | per call: header, sender or receiver | `Copy`, `Paste`, `Clear`, `Status` | store; stream reader and writer |
| client (`client/client.go`) | per call: the layers hash, encoder, encrypter, writer | `Copy`, `Paste`, `Clear`, `Status` | gRPC service; the user's input and output |
| server lifecycle (`server/server.go`, `command/server.go`) | listener, gRPC server, signal channel | `Start`, `Stop` (graceful for 5 s, then hard), `Close` of the store | everything on the server |
| commands (`command/*.go`) | output file, context, signal channel | `copy`, `paste`, `status`, `clear`, `serve` | client or server |
| TLS (`internal/tls`) | none; root pool and key pair of a `tls.Config` | `LoadCertificate` | server and commands |
| messages and codec (`proto/cp_vtproto.pb.go`, `command/grpc_codec.go`) | none; unknown fields of a message | `SizeVT`, `MarshalVT`, `UnmarshalVT`, `skip` | gRPC, at both ends |
| key derivation, flag tables, UI | none that changes | | |

What is hard here:

* **Concurrency in the store.** Copies, pastes, the collector and clears run at
  the same time. The mutex only keeps a clear apart from the others; copies and
  the collector rely on badger's transactions, on the order `lockVersion` before
  the first flush, and on unique versions.
* **Crash and restart.** The database survives; `PENDING`, `VERSION` and
  half-written chunks survive with it.
* **Streams that break.** A broken stream must not be taken for a short one, on
  either side, although several layers hold data back.
* **Boundaries.** Two limits (`valueLogFileSize`, badger's own transaction size) decide
  when data become visible; two unrelated buffer sizes decide how bytes are
  regrouped.
* **Bytes.** Every message is measured, written from its end and read again by
  three pieces of generated code that have to agree at each varint boundary, and
  a peer may be newer, of another make, or cut off.
* **Ends.** A shutdown races running handlers, new requests, the timer and Serve
  itself; a command races its signal, its deadline and a goroutine that may be
  blocked for ever.
* **Waiting.** Handlers hold the read lock while they wait for the network; a
  waiting clear keeps everybody else out.

`PROJECT.json` lists these hazards one by one ("hazards"), each with its line
and the properties that would show it going wrong.

## 2. Modules

```
Badger <-- BatchWriter <--+
   ^-------- Gc <---------+-- Storage <-- StorageInvariant <-- StorageProofs
                                 |              ^-- MCStorage       ^
                                 +-- refines: Clipboard <-- ClipboardProofs
GrpcStream <-- GrpcStreamProofs
Transfer <-- TransferProofs
    ^-- MCTransfer
Marshal <-- Codec <-- MCCodec
    |         ^----------+
    ^-- MarshalProofs <--+-- CodecProofs
Tls <--+-- Server <-- ServerProofs
       |     ^-- MCServer
       +-- Command <-- CommandProofs
              ^-- MCCommand
```

### Badger, BatchWriter, Gc, Storage (`storage/`)

`Badger` is the external database, modelled from how package storage uses it:
the four kinds of keys, atomic commits, the `Sequence` (numbers leased in
blocks, the end of the lease stored under `VERSION`) and the conflict detection
that makes a transaction fail when a key that it has read was written since. A
chunk value is the pair (request, block number), so that a lost, repeated,
foreign or misplaced block is visible. `Header.copy` stands for the descriptive
fields of the `Clipboard` message.

`BatchWriter` has one step per database transaction. `Validate` counts the entry
and decides whether the batch overflows; `LockVersion` (once per writer) and
`Overflow` are the two transactions of an overflow; `SetEntry` includes badger's
automatic commit of a full transaction; `FlushLatest` publishes the rest of the
chunks and `LATEST` together; `Release` runs on every way out.

`Gc` is `discard`: it takes its snapshot, `LATEST` and `PENDING` at the
transaction's start (`DiscardBegin`), collects deletions (`DiscardKey`), commits in the
middle when the transaction is too big (`DiscardTooBig`; the new
transaction has read nothing, so it cannot conflict) and commits at the end
(`DiscardCommit`), where the commit is lost on a conflict.

`Storage` composes them with the mutex, `ReadBatch`, `DropAll`, TTL expiry and the
process: `Close` releases the sequence, `Exit` ends the process at any point
(with or without `Close`; `Stop` gives up on running handlers after five
seconds), and `Open` is `NewBadgerDB` on what the database holds. `sync.RWMutex` is modelled
with its writer preference: `Lock` announces itself (`ClearLock`) and waits for
the readers (`ClearDrop`); new readers wait behind it.

`top` and `rewound` are history variables; no guard reads them.

`Clipboard` is the abstract specification: one content, replaced at one instant,
whole, at most once per copy, and pastes that deliver the content of one
instant. `RefinesClipboard` in `Storage` gives the refinement mapping.

### GrpcStream (`internal/grpc/`)

`Writer` and `Reader` with their buffers, indices and loops, connected by a
window of messages. Byte *i* of the stream is the number *i*. Both
buffers are reused and keep their old values, as in Go; `Flush` sends the partial
buffer even when it is empty; `Read` may be called with a buffer of any size in
`Bufs` each time. `Break` can happen at any moment, and an error can overtake
messages in flight.

### Transfer (`client/client.go`, `server/clipboard.go`)

Both ends of Copy and Paste. A user's input is a sequence of blocks; the encoder
and the encrypter hold back their last piece until the next one or `Close` and then add an end
mark; the writer's buffer holds back what does not fill a message. A fragment
carries the key under which it was sealed; the decrypter passes on only
fragments of its own key (an authenticated cipher). A digest is the input it was
computed from. The server side has the header, the chunks, the checksum message
and the status of the RPC, with the differences that matter: an error message
followed by a successful RPC, a checksum that ends the reading before the status
is seen, a status that is the only sign of the end when there is no checksum.
The store is the one-content clipboard that `Storage` implements, and the regrouping of
bytes is `GrpcStream`'s.

### Marshal, Codec (`proto/cp_vtproto.pb.go`, `command/grpc_codec.go`)

The seven message types that travel (`ServerStatus`, `PasteOption`, `PastStream` and
`CopyStream` with the messages inside them) down to the byte. `Marshal` is the writing half,
`Codec` the reading half and a message on its way. `...Size` is
`SizeVT`, `...Marshal` is `MarshalToSizedBufferVT`, and `FillFromEnd` puts the one
into a buffer of the other, so that a disagreement shows as bytes that do not belong
there. The `UnmarshalVT` functions are one loop in many copies. Here a turn of the loop is
`Turn` with the `Take...` operators, `...Fields` is the
`switch` of each type, and `calls` is the stack of the `UnmarshalVT` calls in progress, one for the message
and one for the message in its oneof. `skip` is a recursive function on the index and the depth of groups. Integers have a width: a length is an `int` that may turn
negative, a field number an `int32`. A state of `Codec` is one message on its
way: it is sent (`Send`), perhaps by a peer that knows more fields (`SendNewer`) or by one that
encodes differently (`SendForeign`), may lose its end (`Cut`) and is
received (`Receive`): a step is one turn of the innermost loop (`Read`), an error that ends all calls
(`Refuse`) or the end of a call (`Return`). What was understood of a foreign message is sent on (`SendAgain`).
`IsMessage` says what a program of this version can send: the Go types of the fields, and no unknown ones.

### Tls, Server (`internal/tls`, `server/server.go`, `command/server.go`)

`Tls` says which files the program accepts and who can then talk to whom.
`Server` is one run of `webcb serve`. The main goroutine (`main`) checks its options, opens
the database, reads the certificates, starts the serving goroutine (`serve`), waits in the
select and runs `Stop`, whose goroutine (`stopper`) calls `GracefulStop` while the
five-second context (`timer`) runs; then come the deferred `Close` and the exit. `NewBadgerDB` fails in two ways: `badger.Open`
does, or `GetSequence` after it, which leaves badger open with nobody to close it (`db` is "leaked"). A request
is in its handler (`hand`) and in its client's eyes (`view`). Handlers keep what matters for a
shutdown: the lock of the store with its writer preference, waiting for the
client, and the database that may be closed under them. The
handler's data are in `Transfer` and `Storage`; the panic of `transfer_header` is not repeated here.

### Command (`command/copy.go`, `paste.go`, `status.go`, `clear.go`, `command.go`)

One run of a client command. `main` goes from the flags through dialling and opening the output
to the select (copy, paste) or to the unary call (status, clear); `worker` is the goroutine that
runs `Client.Copy` or `Client.Paste`. `timer` and `ctx` are
`--timeout` and the context that it ends; `--conn-timeout` limits nothing (see "Findings"). `User` groups the steps that wait
for somebody: typing the password, ending the input, taking the output. The output
file is a sequence of blocks, with `os.Create` and writes at an offset. A paste ends at the status of the call or, when the
clipboard has a checksum (`sum`), at the checksum message (`SumEnds`), whether the call is open, has succeeded or breaks afterwards; `ExitTrue`
asks for the one or the other. `late` marks an answer, message or status, that came after `--timeout`.

## 3. Runs

| run | instance | properties |
|---|---|---|
| `storage_restart` | 2 copies of up to 2 blocks, 1 paste, collector, expiry, failing database operations, 1 stop and restart | `LatestWhole`, `PasteWhole`, `RunningCopyIntact`, `OneCopyPerVersion`, `RefinesClipboard` |
| `storage_liveness` | 2 copies, a clear, the collector, fairness | `TypeOK`, `LocksReleased`, `RunningCopyIntact`, `Inductive`, `GarbageCollected`, `ClearCompletes` |
| `grpc_stream` | rates 1..4, read buffers 1..3, 9 bytes, window 2, fairness | `InOrder`, `EofComplete`, `StreamInv`, `StreamEnds` |
| `transfer` | 1 copy with every combination of options, also of a client that sends no header, or 2 copies; 1 paste | `PublishedWhole`, `CopyAcked`, `OutputSane`, `PasteAcked` |
| `transfer_ends` | the copies and the paste of the first kind, fairness | `CallsEnd` |
| `codec` | all message types, values at the varint boundaries, rates 1 to 16384, cut at every byte; all strings of up to 5 bytes over 10 bytes | `RoundTrip`, `NewerKept`, `CutNoticed`, `PasteFits`, `Canonical` |
| `server` | 51 command lines, 3 kinds of clients, 2 requests, fairness | `DbClosed`, `StatusTrue`, `CleanShutdown`, `NoCallDropped`, `ShutdownEnds` |
| `command` | 55 command lines (with and without a checksum in the clipboard), 2 chunks over a file of 3, fairness | `ExitTrue`, `FileSane`, `TimeoutFails`, `SignalEnds`, `TimeoutEnds` |
| `clear_restart`, `autocommit`, `stale_pending`, `transfer_header` | see "Findings" | violated by the code |

Every property of a passing run is accompanied by a mutated definition (in the
modules, next to the original, marked "Mutant of") under which TLC finds it violated.

**Bounds.** Two copies are what a conflict over versions, `LATEST` or
`PENDING` needs, and a third one would meet only states of the same two roles (one
published, one running). `BatchLimit = 1` makes a copy of two
blocks overflow once, so that one chunk is stored under `PENDING` and the other with `LATEST`;
`DiscardMax` and `TxnCapacity` of 2 or 3 make the collector both stop early and commit in the middle.
With `Lease = 2` a shutdown has
a part of the lease to hand back, and a copy that is still running then renews it. One stop is enough to meet old chunks, an old
`PENDING` and an old `VERSION`. In `grpc_stream` the rates and the buffers include
equal, smaller, larger and coprime sizes, and nine bytes go round every buffer at
least twice. The proofs of section 4 have none of these bounds. In
`Transfer` inputs of 0, 1 and 2 blocks are the cases of an encoder that has not
started, one that has held everything back and one that has passed something on;
beside the second copy, the first one is long enough to be replaced, or cut off by the
panic, in the middle of a paste.
In `Codec` a word has 22 bits for 64, and a field number 8 for 32: as with 64 bits, the
last group of a varint reaches beyond the word, a negative number takes the
most groups and a length can be negative or overflow the index. The lengths 0, 1,
127, 128 and 16384 are those at which a varint grows, and the nonces, digests and
error texts have the sizes of the program. Five foreign bytes are enough for a field in a group, a
repeated oneof and an overlong varint (a tag and four groups). Two requests in `Server` are a clear with a
handler in front of it, or a new request beside a running one. In `Command` the old
file is longer than the new one, which a missing truncation needs.
Copies of one instance are symmetric in the safety runs of `MCStorage`; no
symmetry is used with liveness.

**Deadlock** is checked in the storage runs (the ticker always ticks again). The
stream and transfer instances end when all their calls have ended, so there it is
switched off and `StreamEnds` and `CallsEnd` say that the calls do end; likewise a message
has arrived and the processes of `Server` and `Command` have ended, as
`ShutdownEnds`, `SignalEnds` and `TimeoutEnds` say.

**Fairness.**
* `Storage`: a request that does not wait for its client takes its next step; a waiting `Lock`
  is granted when the readers are gone (Go guarantees it); the ticker ticks; `Open`: somebody
  restarts a stopped server. Strong fairness of the scan says that `discardKeyTimeout` (100 ms)
  does not cut every `discard` before its first deletion. Nothing is assumed of
  clients, expiry, failures or crashes; `GarbageCollected` and `ClearCompletes` name
  the assumption `ClientsKeepUp` in the property itself, since without `--timeout` a
  client can stall for ever.
* `GrpcStream`: both ends are loops that call until they are told to stop.
* `Transfer`: the client's and the handler's own steps, its panic among them. An interrupt, a deadline or
  a database error of a copy is never assumed to come.
* `Server`: the goroutines of run, Start and Stop, and the timer. Handlers and
  clients may stall for ever.
* `Command`: the two goroutines and the deadline; neither the network nor the server has to
  answer. `TimeoutEnds` names in the property (`UserKeepsUp`) that the user types the password, ends the
  input and takes the output: `os.Stdin.Read` and the prompt do not look at the context.

### Findings

Four runs are expected to fail: they state what the program says of itself and
TLC shows a behaviour of the code that does otherwise.

* `clear_restart`: `DropAll` removes `VERSION` as well. After a clear, a copy, a
  restart and a second copy both copies have the same version, and a paste sends the blocks
  of both and reports success. (Without a restart the same happens when the lease of
  1000 versions runs out after a clear and an old version is still in use.)
* `autocommit`: `Validate` compares with 500 MiB, but badger commits a WriteBatch by
  itself when the transaction is full, which is earlier with an in-memory database.
  The chunks are then in the database without `PENDING`, the collector
  removes them, and the copy is published with a hole.
* `stale_pending`: a version left in `PENDING` by a crash stays there, and its chunks
  are never discarded.
* `transfer_header`: a copy stream without a header makes the handler call
  `err.Error()` on a nil error; the server panics in place of answering with its protocol error.

Seen while reading, not covered by a run: `command/server.go:59-61` tests the path flag in
a way that never creates the directory (badger creates it); `serve` exits with status 0 when
its port is in use (`command/server.go:111`). When `GetSequence` fails, `NewBadgerDB` returns without closing
badger (`storage/badger.go:265`) and `run` returns before its `defer` (`command/server.go:73-76`): the process exits with the database open.
`Server` has this end; `DbClosed` says that it is the only one, with status 1 and before any request. Two more are in the model but without a run:
`webcb status` never reads its `--timeout` flag (`command/status.go:98`), although `command/command.go:121`
calls it the "timeout after which the status request is considered to have failed", so `TimeoutFails`
is stated for copy and paste only; and the dial does not block (`command/copy.go:104`, likewise in the
other commands), so the context with `--conn-timeout` (`command/command.go:176`) limits nothing.

## 4. Proofs

`tlapm` checks them, one call for each of `StorageProofs`, `ClipboardProofs`, `GrpcStreamProofs`,
`TransferProofs`, `ServerProofs`, `CommandProofs`, `MarshalProofs` and `CodecProofs` (the longest takes some minutes). They hold for every value of
the constants that satisfies the named assumptions of the modules; what a theorem assumes beyond
them is in its statement.

**Storage.** `TypeCorrect` needs only the assumptions on the constants.
`InductiveInvariant` and `SafeUnlessRewound` assume `BatchLimit <= TxnCapacity` (the batch limit is within
badger's transaction; `autocommit` is the counterexample otherwise). The second shows
that, as long as no lease has begun below a version in use, `LatestWhole`,
`PasteWhole`, `RunningCopyIntact` and `OneCopyPerVersion` hold, for any number of copies, pastes and
clears, any chunk count, crashes, restarts and failing operations. The next four theorems
discharge the condition when there are no clears (`clear_restart` is the
counterexample otherwise).

None of the four is inductive by itself. The invariant `Inductive`
(`StorageInvariant`, an invariant of `storage_liveness` as well) adds:
* `SeqAbove`, `VersionsBelow`, `VersionsDistinct`: the sequence is ahead of every version in
  the database, in a running copy or in the collector's hands, so a new copy collides with nothing;
* `UlidsBelow`: the next block sorts behind the earlier ones;
* `BatchFresh`, `BatchFits`: before the first overflow badger's own commit does not
  happen;
* `Protected`: hence the first stored chunk of a running copy comes after its version is in `PENDING`;
* `DiscardSafe`: what the collector has picked is neither published nor being
  written. It stays so because a version that was neither at the
  snapshot cannot become either: the argument does not use badger's conflict
  detection, so the transaction that `discard` opens in the middle is harmless;
* `PasteIntact`: the snapshot of a paste stays whole, and its output is a part of it;
* `CopyLocked`, `DownIdle`: a clear meets no running copy.

`LeaseAhead` is a second invariant for the case without clears: `VERSION` is at or
above the end of the lease in memory and above every version handed out.

**Clipboard.** `StepsRefineClipboard` goes through the actions of `Storage` one by one and shows under the
refinement mapping that each is a step of `Clipboard` or leaves it as it is, up to the first lease that begins at
an old version: from there on two copies may share a version, `LATEST` leads to the blocks of both, and
no clipboard contains that. `StorageRefinesClipboard` is the full refinement for a store without
clears, where that never happens. The steps that are not stuttering are the last `Flush` of `WriteBatch`, a failure that ends it before
(`Abort`), the two steps of `ReadBatch` that begin and end it, expiry and the clear; for all others the
proof shows that the content `LATEST` leads to is the same before and after, which for
the collector is `DiscardSafe` and for a stored chunk that its version is not the published one.
`ContentAssumption` (a content is not the value that stands for none) is used here only.

`LocksAreReleased` needs a process that is not stopped and a database that does not fail:
with either, a version stays in `PENDING`, which is what `stale_pending` shows. The invariant says in
addition that a request has locked no version before it has one.

**GrpcStream.** `StreamInvariant`, `StreamInOrder` and `EofMeansComplete`, for all buffer sizes,
windows and ways to split the stream. `StreamInv` accounts for every byte:
output, then the read buffer, then the current message, the messages in flight in
order (each with the position where it starts), then the write buffer.

**Transfer.** `CopiesArePublishedWhole`, `AcknowledgedCopiesArePublished`, `OutputIsABeginning` and
`AcknowledgedPastesAreWhole`, for any number of copies and pastes, inputs of any length, every combination of options, every
way the Writer groups pieces into messages, and breaks, aborts and panics anywhere. They need `OptionsAssumption` and `NoneAssumption` (the
value that stands for "no password" or "no nonce" is neither a request nor a key). The options of a copy fix its *stream*: its blocks, then the
end mark of the encoder if it has started a frame, then that of the encrypter if there is one
(`Stream`, `Meaning`, `Size`). Every piece of it has a number, and the invariant `TransferInv` says where the pieces are:
* `Layers` and `Piped`: what the handler has got, the messages on the way, the Writer's buffer, the
  encrypter and the encoder hold adjoining ranges of the stream, from its first piece to the last one read, in
  that order (`Flow` gives each message its range);
* `Sums`: a checksum is the last message and is only sent after all the data, so that an end the
  server takes for the end of the stream is one: `up` is empty after `CloseSend`, or the checksum is at its head;
* `Answers`: an `ok` of the RPC comes from a handler that has published;
* `Contents`: every content there has been is the whole stream of one copy, under that copy's key and options;
* `Served`: what the server has sent of its snapshot and what the client has read is a range of the messages
  `Mail` of that content, and what has been decoded is the beginning of its stream that they have brought;
  the RPC's `ok` stands behind the last of them. `Silent` is a paste to which no header was sent.

A paste that succeeds has seen the checksum or the `ok`, hence all of `Mail`; that its output is then the
whole input does not use the comparison of the digests, which guards against what is
outside the model (a store that corrupts data). The seal at the end of an
encrypted stream is used for the password: a paste of it decodes at least one piece, so its
key is the copy's.

**Server.** `NilMeansClean` and `CallsAreKept`, for any number of requests and any configurations and
clients. The invariant `Shutdown` relates the goroutines to each other:
`Phases` and `StopReason` say that the server can only have been stopped by force when the
timer has expired and `Stop` has returned its error; `Drained` that
once `GracefulStop` has returned by itself nothing runs, and that nothing can
arrive any more, since an open connection needs a running request and a new one a
server that is not draining; `Handled` and `NeverServed` that a request in
progress has a handler, and a handler a server that was started. `DatabaseIsClosed` and
`StatusTellsTheTruth` add `Opened` (the database is opened once and, when `NewBadgerDB` has handed it over, closed before run is left; otherwise nothing has
been started) and `Certified` (a request needs a serving
server, and that the certificates `NewServer` asks for).

**Command.** `SuccessIsTrue`, `FileNeverMixed` and `LateAnswersFail`, for every set of command lines, clipboard
size, old file and server. `CommandInv` says where the main goroutine and the goroutine of the call can be together,
how much of the clipboard has been received and how much of that is in the file, by what the goroutine knows that the server is done
(`Answered`: the checksum of a paste that has one, else the status), and that an
answer which has been taken was there before the deadline.

**Marshal.** `BuffersAreFilledExactly`, for every message of the four types and every width up to 64 bits: the buffer of
`SizeVT` bytes that `MarshalVT` fills from its end is neither overrun nor left with bytes in front, so
that what is sent is the fields one after the other (`FieldBytes`). It rests on `VarintSize` (a varint has as many bytes as
`sov` counts), goes field by field (`WrittenFields`), and through the inner buffers of a oneof (`FilledExactly`).
`EveryPasteMessageFits` uses it to bound what a paste sends, at every transfer rate: with `sov` at
most 10 (`SovBound`), no chunk, checksum, header or error exceeds rate + 1000. What it assumes of the messages
(`PastedAt`) is what the server and `Client.Copy` put into them: chunks no longer than the rate, nonces of 32 bytes, an IV of 8, and
error texts of at most 900 bytes (the two in the code have 31 and 53).

**Codec.** `MessagesArrive` (`RoundTrip`), `CutsAreNoticed` (`CutNoticed`) and `PastesFit` (`PasteFits`), for
integers of 8 to 64 bits, every message of this version, every value and length of its fields, and a cut at
any byte. The assumptions are `CodecAssumption` (the widths; a field number has at least four bits, so that the numbers
in use stay positive), `SentAssumption` (what is sent is a message of its type, its size is an `int`, and a
paste's messages are in proportion to its rate, `PastedAt`) and `AddedAssumption` (an added field has bytes). The argument goes from the bits up:
* `VarintsAgree`: wherever `encodeVarint` has written a number, the loop of `UnmarshalVT` reads it and stops behind
  it, and a buffer that ends within it is refused. The sum of the groups is shown by an induction over their count
  (`Induction`, from the well-foundedness of the order of the natural numbers, on sets and without operators as parameters);
* `DelimitedAgree`: the same for a length and its bytes, whose conversion to `int` does not turn negative, since the
  message's own size is an `int`;
* `Laid`: the bytes of a message are its fields in the order of their numbers, one after the other, those with zero values
  left out, so there is a table of the offset behind each field (`FlatLaid`, from `BuffersAreFilledExactly`);
* `FlatRead`, `FlatReturn`: a turn at the start of a field takes this field and stands at the start of the next one, and
  at the end of the bytes what has not been taken is zero.

`RoundTrip` says nothing of a call in progress, so it is not inductive. The invariant `Inv` (`CodecInvariant`) adds
`Underway`, that the bytes are those of the message sent or a beginning of them, `Progress`, that each call on the
stack is at the start of a field of its message and has taken exactly the fields before it (the outer call stands behind the
field for which the inner one was made, `Nested`), and `Received`, what this means when the last call returns. A cut message has the same invariant: it stands
between the same fields, and the turn that meets the cut is refused. `CutsAreNoticed` is about messages without an
added field; with one, `CutNoticed` is checked by TLC.

**Only model-checked:** the liveness properties (`GarbageCollected`, `ClearCompletes`,
`StreamEnds`, `CallsEnd`, `ShutdownEnds`, `SignalEnds`, `TimeoutEnds`), which are out of the prover's reach under
fairness; and of `Codec` `NewerKept`, `Canonical` and `CutNoticed` for a message with an added field. These three
go through `skip`, whose value on arbitrary bytes is that of a recursive function: that it is defined and what it computes for groups within
groups needs an induction over the nesting that the proofs do not contain.

## 5. Not modelled

* `Size`, `Path`, `Status`: they read only. `runGC` rewrites badger's value log and changes no key.
* Sizes of entries: every entry counts 1, so the size estimate
  of `Validate` is a count.
* A crash in the middle of badger's own `DropAll`, and its manifest.
* Committing with an open iterator in `discard`'s too-big path: badger objects to
  it, but twenty thousand keys do not fill a transaction of the on-disk
  configuration.
* Cryptography, compression and hashing beyond what is said in section 2; X.509.
* `cp.pb.go` and `cp_grpc.pb.go`: generated descriptor tables, accessors and stubs without
  logic of their own. The vtproto code of `Clipboard` and `LockedTransaction`: the
  storage marshals them with `proto.Marshal`, so nothing calls it.
* A transfer rate as a number in `Transfer`: a paste's rate is above the server's limit or not, so the sizes at the limit itself
  are not compared. The clients of this repository never ask for a negative one (`client/pasteopt`), and the handler's buffer for it is not modelled.
* A start that fails in `Storage`: it ends the process and leaves the database as it was (`Server` has it).
* Flag tables and their defaults, output formatting, progress and byte counters.
* The state of the terminal when a signal interrupts the password prompt.
* Database errors of handlers in `Server` and a server that goes away in the middle of a
  process start in `Command`: they are in `Storage` and `Transfer`.

## 6. Plan

Done, in this order: `Badger`, `BatchWriter`, `Gc`, `Storage`, `Clipboard` and their
proofs; `GrpcStream` and its proofs; `Transfer`; `Codec`; `Tls`, `Server` and its proofs;
`Command`; the proofs of `Command`, the rest of `Server`, the refinement of `Clipboard`, `Transfer`, and
`Marshal`; `Codec` as a machine that reads turn by turn, and its proofs.

Left: `NewerKept` and `Canonical` for all bytes would need an induction over nested groups, and
the liveness properties a prover for fairness; both stay with TLC.
