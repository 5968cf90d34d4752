----------------------------- MODULE GrpcStream -----------------------------
(***************************************************************************)
(* internal/grpc: Writer cuts a byte stream into messages of the transfer  *)
(* rate, Reader fills buffers of another size from the messages.  The two  *)
(* ends run in different processes; the same pair carries a copy from the  *)
(* client to the server and a paste back.                                  *)
(*                                                                         *)
(* Byte i of the stream is the number i, so that a lost, repeated, swapped *)
(* or stale byte shows.                                                    *)
(***************************************************************************)
EXTENDS Naturals, Sequences

CONSTANTS
  Rates,        (* Transfer rates: sizes of the Writer's buffer.           *)
  Bufs,         (* Sizes of the buffers passed to Read.                    *)
  MaxWrite,     (* Bound: bytes passed to one Write.                       *)
  MaxBytes,     (* Bound: bytes in the stream.                             *)
  Window        (* Messages gRPC's flow control admits ahead of Recv.      *)

(* The options that set a rate ignore values below 1.                      *)
ASSUME SizesAssumption == /\ Rates \subseteq Nat \ {0}
                          /\ Bufs \subseteq Nat \ {0}
                          /\ MaxWrite \in Nat
                          /\ MaxBytes \in Nat
                          /\ Window \in Nat \ {0}

VARIABLES
  given,        (* Bytes passed to Write so far.                           *)
  wpc,          (* The Writer's side: idle, write, closed or failed.       *)
  wt, wtLen,    (* w.t and w.tLen; w.tIndex is len(w.t) - w.tLen.          *)
  wpLen,        (* w.pLen                                                  *)
  msgs,         (* Messages sent and not yet received.                     *)
  link,         (* The RPC: open, eof (ended by the sender) or broken.     *)
  rpc,          (* The Reader's side: idle, read, eof or failed.           *)
  rt, rtIndex,  (* r.t and r.tIndex                                        *)
  rtLen,        (* r.tLen                                                  *)
  rp, rpIndex,  (* p and r.pIndex                                          *)
  out           (* The bytes that Read has returned.                       *)

wVars == <<given, wpc, wt, wtLen, wpLen>>
rVars == <<rpc, rt, rtIndex, rtLen, rp, rpIndex, out>>
vars  == <<wVars, msgs, link, rVars>>

Least(a, b) == IF a < b THEN a ELSE b

(* Go's copy(dst[di:], src) of n bytes, byte i of src being b + i.         *)
Fill(dst, di, n, b) ==
  [i \in DOMAIN dst |-> IF di < i /\ i <= di + n THEN b + (i - di) ELSE dst[i]]

wtIndex == Len(wt) - wtLen

(* A message carries its bytes; from counts the bytes sent before them.    *)
Message(data) == [from |-> given - wpLen - wtIndex, data |-> data]

(* Send blocks while the receiver's window is full, and fails once the RPC
   is broken.                                                              *)
CanSend == link = "open" /\ Len(msgs) < Window
Send(m) == msgs' = Append(msgs, m)

-----------------------------------------------------------------------------
(* Writer                                                                  *)

Write(n) ==
  /\ wpc = "idle"
  /\ given + n <= MaxBytes
  /\ given' = given + n
  /\ wpLen' = n
  /\ wpc' = "write"
  /\ UNCHANGED <<wt, wtLen, msgs, link>>

(* One turn of Write's loop that does not fill w.t.                        *)
WriteCopy ==
  /\ wpc = "write"
  /\ 0 < wpLen /\ wpLen < wtLen
  /\ wt' = Fill(wt, wtIndex, wpLen, given - wpLen)
  /\ wtLen' = wtLen - wpLen
  /\ wpLen' = 0
  /\ UNCHANGED <<given, wpc, msgs, link>>

(* Mutant of WriteSend: w.tLen is not set again.                           *)
WriteSendStale ==
  /\ wpc = "write"
  /\ 0 < wpLen /\ wtLen <= wpLen
  /\ CanSend
  /\ LET full == Fill(wt, wtIndex, wtLen, given - wpLen)
     IN  /\ wt' = full
         /\ Send(Message(full))
  /\ wpLen' = wpLen - wtLen
  /\ wtLen' = 0
  /\ UNCHANGED <<given, wpc, link>>

(* One that does: SendChunk(w.t), then start over in the same buffer.      *)
WriteSend ==
  /\ wpc = "write"
  /\ 0 < wpLen /\ wtLen <= wpLen
  /\ CanSend
  /\ LET full == Fill(wt, wtIndex, wtLen, given - wpLen)
     IN  /\ wt' = full
         /\ Send(Message(full))
  /\ wpLen' = wpLen - wtLen
  /\ wtLen' = Len(wt)
  /\ UNCHANGED <<given, wpc, link>>

WriteReturn ==
  /\ wpc = "write"
  /\ wpLen = 0
  /\ wpc' = "idle"
  /\ UNCHANGED <<given, wt, wtLen, wpLen, msgs, link>>

(* Mutant of Flush: the whole buffer is sent.                              *)
FlushWhole ==
  /\ wpc = "idle"
  /\ CanSend
  /\ Send(Message(wt))
  /\ wpc' = "closed"
  /\ link' = "eof"
  /\ UNCHANGED <<given, wt, wtLen, wpLen>>

(* Flush: the partial buffer, even when it is empty, then the checksum or
   the end of the stream, both of which the receiver's Next reports as EOF. *)
Flush ==
  /\ wpc = "idle"
  /\ CanSend
  /\ Send(Message(SubSeq(wt, 1, wtIndex)))
  /\ wpc' = "closed"
  /\ link' = "eof"
  /\ UNCHANGED <<given, wt, wtLen, wpLen>>

(* SendChunk reports that the RPC is broken.                               *)
WriteError ==
  /\ wpc \in {"idle", "write"}
  /\ link = "broken"
  /\ wpc' = "failed"
  /\ UNCHANGED <<given, wt, wtLen, wpLen, msgs, link>>

Writer ==
  /\ \/ \E n \in 1..MaxWrite : Write(n)
     \/ WriteCopy \/ WriteSend \/ WriteReturn \/ Flush \/ WriteError
  /\ UNCHANGED rVars

-----------------------------------------------------------------------------
(* Reader                                                                  *)

(* Read(p) is called with a new p, or with the p of the call before.       *)
Read(n) ==
  /\ rpc = "idle"
  /\ rp' = IF Len(rp) = n THEN rp ELSE [i \in 1..n |-> 0]
  /\ rpIndex' = 0
  /\ rpc' = "read"
  /\ UNCHANGED <<rt, rtIndex, rtLen, out, msgs>>

(* copy(p[r.pIndex:], r.t[r.tIndex:])                                      *)
ReadCopy ==
  LET n == Least(Len(rp) - rpIndex, rtLen)
      p == [i \in DOMAIN rp |-> IF rpIndex < i /\ i <= rpIndex + n
                                THEN rt[rtIndex + (i - rpIndex)] ELSE rp[i]]
  IN  /\ rpc = "read"
      /\ rtLen > 0
      /\ rp' = p
      /\ rtIndex' = rtIndex + n
      /\ rtLen' = rtLen - n
      /\ IF rpIndex + n = Len(rp)
           THEN /\ out' = out \o p
                /\ rpc' = "idle"
                /\ rpIndex' = 0
           ELSE /\ rpIndex' = rpIndex + n
                /\ UNCHANGED <<out, rpc>>
      /\ UNCHANGED <<rt, msgs>>

(* r.r.Next returns a message.                                             *)
ReadNext ==
  /\ rpc = "read"
  /\ rtLen = 0
  /\ msgs # <<>>
  /\ rt' = Head(msgs).data
  /\ rtIndex' = 0
  /\ rtLen' = Len(Head(msgs).data)
  /\ msgs' = Tail(msgs)
  /\ UNCHANGED <<rpc, rp, rpIndex, out>>

(* It returns io.EOF: only the first r.pIndex bytes of p are new.          *)
ReadEof ==
  /\ rpc = "read"
  /\ rtLen = 0
  /\ msgs = <<>>
  /\ link = "eof"
  /\ out' = out \o SubSeq(rp, 1, rpIndex)
  /\ rpc' = "eof"
  /\ rpIndex' = 0
  /\ UNCHANGED <<rt, rtIndex, rtLen, rp, msgs>>

(* Mutants of ReadError: every error is taken for io.EOF; Next is tried again. *)
ReadErrorEof ==
  /\ rpc = "read"
  /\ rtLen = 0
  /\ link = "broken"
  /\ out' = out \o SubSeq(rp, 1, rpIndex)
  /\ rpc' = "eof"
  /\ rpIndex' = 0
  /\ UNCHANGED <<rt, rtIndex, rtLen, rp, msgs>>
ReadErrorRetry ==
  /\ rpc = "read"
  /\ rtLen = 0
  /\ link = "broken"
  /\ UNCHANGED <<rpc, rt, rtIndex, rtLen, rp, rpIndex, out, msgs>>

(* It returns another error, which may overtake messages in flight.        *)
ReadError ==
  /\ rpc = "read"
  /\ rtLen = 0
  /\ link = "broken"
  /\ rpc' = "failed"
  /\ UNCHANGED <<rt, rtIndex, rtLen, rp, rpIndex, out, msgs>>

Reader ==
  /\ \/ \E n \in Bufs : Read(n)
     \/ ReadCopy \/ ReadNext \/ ReadEof \/ ReadError
  /\ UNCHANGED <<wVars, link>>

(* A cancellation, a deadline, a lost connection or an error at either end. *)
Break ==
  /\ link \in {"open", "eof"}
  /\ rpc \notin {"eof", "failed"}
  /\ link' = "broken"
  /\ UNCHANGED <<wVars, msgs, rVars>>

Init ==
  /\ given = 0
  /\ wpc = "idle"
  /\ \E n \in Rates : wt = [i \in 1..n |-> 0]
  /\ wtLen = Len(wt)
  /\ wpLen = 0
  /\ msgs = <<>>
  /\ link = "open"
  /\ rpc = "idle"
  /\ rt = <<>>
  /\ rtIndex = 0
  /\ rtLen = 0
  /\ rp = <<>>
  /\ rpIndex = 0
  /\ out = <<>>

Next == Writer \/ Reader \/ Break

Spec == Init /\ [][Next]_vars

(* Both ends are loops that call Write and Read until they are told to stop:
   copy and paste go on to Flush, and a Reader reads until EOF or an error. *)
FairSpec == Spec /\ WF_vars(Writer) /\ WF_vars(Reader)

-----------------------------------------------------------------------------
(* Properties                                                              *)

(* Buffers hold bytes, indices and lengths are never negative.             *)
TypeOK ==
  /\ given \in Nat
  /\ wpc \in {"idle", "write", "closed", "failed"}
  /\ wt \in Seq(Nat) /\ wtLen \in Nat /\ wpLen \in Nat
  /\ msgs \in Seq([from : Nat, data : Seq(Nat)])
  /\ link \in {"open", "eof", "broken"}
  /\ rpc \in {"idle", "read", "eof", "failed"}
  /\ rt \in Seq(Nat) /\ rtIndex \in Nat /\ rtLen \in Nat
  /\ rp \in Seq(Nat) /\ rpIndex \in Nat
  /\ out \in Seq(Nat)

(* What Read has returned is a prefix of what was written, byte for byte,
   although both buffers are used again and again and old values stay in
   them beyond the valid part.                                             *)
InOrder == \A i \in 1..Len(out) : out[i] = i

(* A Reader that reports EOF has returned every byte: an RPC that breaks is
   never taken for the end of the stream.                                  *)
EofComplete == rpc = "eof" => wpc = "closed" /\ Len(out) = given

(* Both ends come to an end: neither waits for the other for ever, however
   small the window is, and no turn of a loop goes round without progress. *)
StreamEnds ==
  <>(rpc \in {"eof", "failed"} /\ wpc \in {"closed", "failed"})

-----------------------------------------------------------------------------
(* The inductive invariant behind InOrder and EofComplete: every byte given
   is in exactly one place, and the places follow each other.              *)

(* Bytes in messages so far, and bytes taken out of messages so far.       *)
Sent == IF wpc = "closed" THEN given ELSE given - wpLen - wtIndex
Got == Len(out) + rpIndex + rtLen

WriterInv ==
  /\ 0 < wtLen /\ wtLen <= Len(wt)
  /\ wtIndex + wpLen <= given
  /\ wpc \in {"idle", "closed"} => wpLen = 0
  /\ \A i \in 1..wtIndex : wt[i] = (given - wpLen - wtIndex) + i

LinkInv ==
  /\ link = "eof" => wpc = "closed"
  /\ \A k \in 1..Len(msgs) : \A j \in 1..Len(msgs[k].data) :
       msgs[k].data[j] = msgs[k].from + j
  /\ \A k \in 1..Len(msgs) :
       msgs[k].from + Len(msgs[k].data) =
         IF k = Len(msgs) THEN Sent ELSE msgs[k + 1].from
  /\ Got = IF msgs = <<>> THEN Sent ELSE msgs[1].from

ReaderInv ==
  /\ rtIndex + rtLen <= Len(rt)
  /\ \A j \in 1..rtLen : rt[rtIndex + j] = Len(out) + rpIndex + j
  /\ rpIndex <= Len(rp)
  /\ rpc = "read" => rpIndex < Len(rp)
  /\ rpc \in {"idle", "eof"} => rpIndex = 0
  /\ \A i \in 1..rpIndex : rp[i] = Len(out) + i

(* Every byte passed to Write is in exactly one of w.t, a message, r.t, p and
   the output, in this order, and the indices of both loops agree with it. *)
StreamInv ==
  /\ TypeOK
  /\ WriterInv
  /\ LinkInv
  /\ ReaderInv
  /\ InOrder
  /\ EofComplete
=============================================================================
