-------------------------- MODULE GrpcStreamProofs --------------------------
(***************************************************************************)
(* Proofs about GrpcStream, for any sizes of buffers and messages.         *)
(***************************************************************************)
EXTENDS GrpcStream, SequenceTheorems, TLAPS

USE DEF wVars, rVars

(* Go's copy keeps the length of its destination, writes n bytes and leaves
   the others.                                                             *)
LEMMA FillFacts ==
  ASSUME NEW dst \in Seq(Nat), NEW di \in Nat, NEW n \in Nat, NEW b \in Nat
  PROVE  /\ Fill(dst, di, n, b) \in Seq(Nat)
         /\ Len(Fill(dst, di, n, b)) = Len(dst)
         /\ \A i \in 1..Len(dst) :
              Fill(dst, di, n, b)[i] =
                IF di < i /\ i <= di + n THEN b + (i - di) ELSE dst[i]
<1> DEFINE f == [i \in 1..Len(dst) |->
                   IF di < i /\ i <= di + n THEN b + (i - di) ELSE dst[i]]
<1>1. Fill(dst, di, n, b) = f
  BY DEF Fill
<1>2. \A i \in 1..Len(dst) :
        (IF di < i /\ i <= di + n THEN b + (i - di) ELSE dst[i]) \in Nat
  OBVIOUS
<1>3. f \in Seq(Nat) /\ Len(f) = Len(dst)
  BY <1>2
<1> QED BY <1>1, <1>3

(* The initial state satisfies the invariant.                              *)
LEMMA StreamInit == Init => StreamInv
<1> SUFFICES ASSUME Init PROVE StreamInv
  OBVIOUS
<1>1. PICK n \in Rates : wt = [i \in 1..n |-> 0]
  BY DEF Init
<1>2. wt \in Seq(Nat) /\ Len(wt) = n /\ n > 0
  BY <1>1, SizesAssumption
<1> QED
  BY <1>2, SizesAssumption DEF Init, StreamInv, TypeOK, WriterInv, LinkInv, ReaderInv, InOrder,
              EofComplete, Sent, Got, wtIndex

(* The types and the arithmetic of the Writer's state.                     *)
LEMMA WriterFacts ==
  ASSUME StreamInv
  PROVE  /\ wt \in Seq(Nat) /\ Len(wt) \in Nat /\ wtLen \in Nat
         /\ wpLen \in Nat /\ given \in Nat
         /\ wtIndex \in Nat /\ wtIndex = Len(wt) - wtLen
         /\ given - wpLen \in Nat /\ given - wpLen - wtIndex \in Nat
         /\ 0 < wtLen /\ wtLen <= Len(wt)
BY DEF StreamInv, TypeOK, WriterInv, wtIndex

(* A turn of Write's loop copies n bytes into w.t.                         *)
LEMMA BufferFilled ==
  ASSUME StreamInv, NEW n \in Nat, n <= wpLen, n <= wtLen,
         NEW t, t = Fill(wt, wtIndex, n, given - wpLen)
  PROVE  /\ t \in Seq(Nat)
         /\ Len(t) = Len(wt)
         /\ \A i \in 1..(wtIndex + n) :
              t[i] = (given - wpLen - wtIndex) + i
<1>1. /\ Fill(wt, wtIndex, n, given - wpLen) \in Seq(Nat)
      /\ Len(Fill(wt, wtIndex, n, given - wpLen)) = Len(wt)
      /\ \A i \in 1..Len(wt) :
           Fill(wt, wtIndex, n, given - wpLen)[i] =
             IF wtIndex < i /\ i <= wtIndex + n
               THEN (given - wpLen) + (i - wtIndex) ELSE wt[i]
  <2>1. wt \in Seq(Nat) /\ wtIndex \in Nat /\ given - wpLen \in Nat
    BY WriterFacts
  <2> QED BY <2>1, FillFacts
<1>2. \A i \in 1..wtIndex : wt[i] = (given - wpLen - wtIndex) + i
  BY DEF StreamInv, WriterInv
<1>3. ASSUME NEW i \in 1..(wtIndex + n)
      PROVE  t[i] = (given - wpLen - wtIndex) + i
  <2>1. i \in 1..Len(wt) /\ i \in Nat
    BY WriterFacts, SMTT(20)
  <2>2. t[i] = IF wtIndex < i /\ i <= wtIndex + n
                 THEN (given - wpLen) + (i - wtIndex) ELSE wt[i]
    BY <1>1, <2>1, Zenon
  <2>3. CASE i <= wtIndex
    <3>1. i \in 1..wtIndex
      BY <2>1, <2>3, WriterFacts
    <3> QED BY <3>1, <2>2, <2>3, <2>1, <1>2, WriterFacts, SMTT(20)
  <2>4. CASE wtIndex < i
    BY <2>1, <2>2, <2>4, WriterFacts, SMTT(20)
  <2> QED BY <2>1, <2>3, <2>4, WriterFacts, SMTT(20)
<1> QED BY <1>1, <1>3

LEMMA WriteCopyStep ==
  ASSUME StreamInv, WriteCopy, UNCHANGED rVars
  PROVE  StreamInv'
<1>1. /\ wt' = Fill(wt, wtIndex, wpLen, given - wpLen)
      /\ wtLen' = wtLen - wpLen /\ wpLen' = 0 /\ given' = given
      /\ 0 < wpLen /\ wpLen < wtLen
      /\ wpc = "write" /\ wpc' = "write"
      /\ UNCHANGED <<msgs, link>>
  BY DEF WriteCopy
<1>2. /\ wt' \in Seq(Nat) /\ Len(wt') = Len(wt)
      /\ \A i \in 1..(wtIndex + wpLen) :
           wt'[i] = (given - wpLen - wtIndex) + i
  <2>1. wpLen \in Nat /\ wpLen <= wpLen /\ wpLen <= wtLen
    BY <1>1, WriterFacts, SMTT(20)
  <2> QED BY <1>1, <2>1, BufferFilled
<1>3. wtIndex' = wtIndex + wpLen
  <2>1. wtIndex' = Len(wt') - wtLen'
    BY DEF wtIndex
  <2>2. Len(wt') = Len(wt)
    BY <1>2
  <2>3. wtLen' = wtLen - wpLen
    BY <1>1
  <2> QED BY <2>1, <2>2, <2>3, WriterFacts
<1>4. given' - wpLen' - wtIndex' = given - wpLen - wtIndex
  BY <1>1, <1>3, WriterFacts, SMTT(20)
<1>5. TypeOK'
  BY <1>1, <1>2, WriterFacts DEF StreamInv, TypeOK
<1>6. WriterInv'
  <2>1. 0 < wtLen' /\ wtLen' <= Len(wt') /\ wtIndex' + wpLen' <= given'
    <3>1. Len(wt') = Len(wt)
      BY <1>2
    <3>2. wtLen' = wtLen - wpLen /\ wpLen' = 0 /\ given' = given
      BY <1>1
    <3>3. 0 < wpLen /\ wpLen < wtLen
      BY <1>1
    <3>4. 0 < wtLen' /\ wtLen' <= Len(wt')
      BY <3>1, <3>2, <3>3, WriterFacts, SMTT(20)
    <3>5. wtIndex + wpLen <= given
      BY WriterFacts
    <3> QED BY <3>2, <3>4, <3>5, <1>3, WriterFacts
  <2>2. \A i \in 1..wtIndex' : wt'[i] = (given' - wpLen' - wtIndex') + i
    <3> SUFFICES ASSUME NEW i \in 1..wtIndex'
                 PROVE  wt'[i] = (given' - wpLen' - wtIndex') + i
      OBVIOUS
    <3>1. i \in 1..(wtIndex + wpLen)
      BY <1>3
    <3>2. wt'[i] = (given - wpLen - wtIndex) + i
      BY <1>2, <3>1
    <3> QED BY <3>2, <1>4
  <2> QED BY <1>1, <2>1, <2>2 DEF WriterInv
<1>7. Sent' = Sent
  BY <1>1, <1>4 DEF Sent
<1>8. LinkInv'
  BY <1>1, <1>7 DEF StreamInv, LinkInv, Got
<1>9. ReaderInv' /\ InOrder' /\ EofComplete'
  BY <1>1 DEF StreamInv, ReaderInv, InOrder, EofComplete
<1> QED BY <1>5, <1>6, <1>8, <1>9 DEF StreamInv

(* A message that continues the ones before it is sent.                    *)
LEMMA SendStep ==
  ASSUME StreamInv, UNCHANGED rVars,
         NEW m \in [from : Nat, data : Seq(Nat)],
         msgs' = Append(msgs, m),
         m.from = Sent,
         \A j \in 1..Len(m.data) : m.data[j] = m.from + j,
         Sent' = m.from + Len(m.data),
         link' = "eof" => wpc' = "closed"
  PROVE  LinkInv' /\ msgs' \in Seq([from : Nat, data : Seq(Nat)])
<1>1. msgs \in Seq([from : Nat, data : Seq(Nat)]) /\ LinkInv
  BY DEF StreamInv, TypeOK
<1>2. /\ msgs' \in Seq([from : Nat, data : Seq(Nat)])
      /\ Len(msgs) \in Nat
      /\ Len(msgs') = Len(msgs) + 1
      /\ \A k \in 1..Len(msgs) : msgs'[k] = msgs[k]
      /\ msgs'[Len(msgs) + 1] = m
  BY <1>1
<1>3. ASSUME NEW k \in 1..Len(msgs')
      PROVE  \A j \in 1..Len(msgs'[k].data) :
               msgs'[k].data[j] = msgs'[k].from + j
  <2>1. CASE k = Len(msgs) + 1
    BY <2>1, <1>2
  <2>2. CASE k \in 1..Len(msgs)
    BY <2>2, <1>1, <1>2 DEF LinkInv
  <2> QED BY <2>1, <2>2, <1>2
<1>4. ASSUME NEW k \in 1..Len(msgs')
      PROVE  msgs'[k].from + Len(msgs'[k].data) =
               IF k = Len(msgs') THEN Sent' ELSE msgs'[k + 1].from
  <2>1. CASE k = Len(msgs) + 1
    BY <2>1, <1>2
  <2>2. CASE k = Len(msgs)
    BY <2>2, <1>1, <1>2 DEF LinkInv
  <2>3. CASE k \in 1..Len(msgs) /\ k # Len(msgs)
    <3>1. k + 1 \in 1..Len(msgs)
      BY <2>3, <1>2
    <3>2. msgs'[k] = msgs[k] /\ msgs'[k + 1] = msgs[k + 1] /\ k # Len(msgs')
      BY <2>3, <3>1, <1>2
    <3> QED BY <2>3, <3>2, <1>1 DEF LinkInv
  <2> QED BY <2>1, <2>2, <2>3, <1>2
<1>5. Got' = IF msgs' = <<>> THEN Sent' ELSE msgs'[1].from
  <2>1. Got' = Got
    BY DEF Got
  <2>2. msgs' # <<>>
    <3>1. Len(msgs') # 0
      BY <1>2
    <3> QED BY <3>1
  <2>3. CASE msgs = <<>>
    BY <2>1, <2>2, <2>3, <1>1, <1>2 DEF LinkInv
  <2>4. CASE msgs # <<>>
    <3>1. 1 \in 1..Len(msgs)
      BY <2>4, <1>1
    <3> QED BY <2>1, <2>2, <2>4, <3>1, <1>1, <1>2 DEF LinkInv
  <2> QED BY <2>3, <2>4
<1> QED BY <1>2, <1>3, <1>4, <1>5 DEF LinkInv

LEMMA WriteSendStep ==
  ASSUME StreamInv, WriteSend, UNCHANGED rVars
  PROVE  StreamInv'
<1> DEFINE full == Fill(wt, wtIndex, wtLen, given - wpLen)
           m == [from |-> given - wpLen - wtIndex, data |-> full]
<1>1. /\ wt' = full /\ msgs' = Append(msgs, m)
      /\ wpLen' = wpLen - wtLen /\ wtLen' = Len(wt) /\ given' = given
      /\ 0 < wpLen /\ wtLen <= wpLen
      /\ wpc = "write" /\ wpc' = "write"
      /\ link = "open" /\ link' = "open"
  BY DEF WriteSend, Send, Message, CanSend
<1>2. /\ full \in Seq(Nat) /\ Len(full) = Len(wt)
      /\ \A i \in 1..Len(full) : full[i] = (given - wpLen - wtIndex) + i
  <2>1. wtLen \in Nat /\ wtLen <= wpLen /\ wtLen <= wtLen
    BY <1>1, WriterFacts
  <2>2. wtIndex + wtLen = Len(wt)
    BY WriterFacts
  <2> HIDE DEF full
  <2>3. full = Fill(wt, wtIndex, wtLen, given - wpLen)
    BY DEF full
  <2>4. /\ full \in Seq(Nat) /\ Len(full) = Len(wt)
        /\ \A i \in 1..(wtIndex + wtLen) :
             full[i] = (given - wpLen - wtIndex) + i
    BY <2>1, <2>3, BufferFilled
  <2> QED BY <2>2, <2>4
<1> HIDE DEF full
<1>3. wtIndex' = 0
  <2>1. wtIndex' = Len(wt') - wtLen'
    BY DEF wtIndex
  <2> QED BY <2>1, <1>1, <1>2, WriterFacts
<1>4. /\ Sent = given - wpLen - wtIndex
      /\ Sent' = given' - wpLen' - wtIndex'
      /\ Sent' = given - wpLen - wtIndex + Len(wt)
  <2>1. Sent = given - wpLen - wtIndex
    BY <1>1 DEF Sent
  <2>2. Sent' = given' - wpLen' - wtIndex'
    BY <1>1 DEF Sent
  <2>3. given' = given /\ wpLen' = wpLen - wtLen
    BY <1>1
  <2>4. given - (wpLen - wtLen) - 0 = given - wpLen - wtIndex + Len(wt)
    BY WriterFacts
  <2> QED BY <2>1, <2>2, <2>3, <2>4, <1>3
<1>5. m \in [from : Nat, data : Seq(Nat)] /\ m.from = Sent /\ m.data = full
  BY <1>2, <1>4, WriterFacts
<1>6. LinkInv' /\ msgs' \in Seq([from : Nat, data : Seq(Nat)])
  <2>1. \A j \in 1..Len(m.data) : m.data[j] = m.from + j
    BY <1>2
  <2>2. Sent' = m.from + Len(m.data)
    BY <1>2, <1>4
  <2>3. link' = "eof" => wpc' = "closed"
    BY <1>1
  <2>4. msgs' = Append(msgs, m)
    BY <1>1
  <2> HIDE DEF m
  <2> QED BY <1>5, <2>1, <2>2, <2>3, <2>4, SendStep
<1>7. TypeOK'
  <2>1. wt' \in Seq(Nat) /\ wtLen' \in Nat
    BY <1>1, <1>2, WriterFacts
  <2>2. wpLen' \in Nat /\ given' \in Nat
    <3>1. wpLen' = wpLen - wtLen /\ wtLen <= wpLen /\ given' = given
      BY <1>1
    <3> QED BY <3>1, WriterFacts, SMTT(20)
  <2>3. wpc' = "write" /\ link' = "open"
    BY <1>1
  <2> QED BY <2>1, <2>2, <2>3, <1>6 DEF StreamInv, TypeOK
<1>8. WriterInv'
  <2>1. Len(wt') = Len(wt) /\ wtLen' = Len(wt)
    BY <1>1, <1>2
  <2>3. wpc' = "write"
    BY <1>1
  <2>4. 0 < wtLen' /\ wtLen' <= Len(wt')
    BY <2>1, WriterFacts
  <2>5. wtIndex' + wpLen' <= given'
    <3>1. 0 + (wpLen - wtLen) <= given
      BY WriterFacts
    <3>2. wpLen' = wpLen - wtLen /\ given' = given
      BY <1>1
    <3> QED BY <3>1, <3>2, <1>3
  <2>6. \A i \in 1..wtIndex' : wt'[i] = (given' - wpLen' - wtIndex') + i
    BY <1>3
  <2> QED BY <2>3, <2>4, <2>5, <2>6 DEF WriterInv
<1>9. ReaderInv' /\ InOrder' /\ EofComplete'
  BY <1>1 DEF StreamInv, ReaderInv, InOrder, EofComplete
<1> QED BY <1>6, <1>7, <1>8, <1>9 DEF StreamInv

LEMMA FlushStep ==
  ASSUME StreamInv, Flush, UNCHANGED rVars
  PROVE  StreamInv'
<1> DEFINE rest == SubSeq(wt, 1, wtIndex)
           m == [from |-> given - wpLen - wtIndex, data |-> rest]
<1>1. /\ UNCHANGED <<given, wt, wtLen, wpLen>> /\ msgs' = Append(msgs, m)
      /\ wpc = "idle" /\ wpc' = "closed" /\ link = "open" /\ link' = "eof"
  BY DEF Flush, Send, Message, CanSend
<1>2. wpLen = 0
  BY <1>1 DEF StreamInv, WriterInv
<1>3. rest \in Seq(Nat) /\ Len(rest) = wtIndex
  <2>1. wt \in Seq(Nat) /\ 1 \in 1..(Len(wt) + 1) /\ wtIndex \in 0..Len(wt)
    BY WriterFacts
  <2> QED BY <2>1, SubSeqProperties, SMT
<1>4. \A i \in 1..Len(rest) : rest[i] = (given - wpLen - wtIndex) + i
  <2>1. \A i \in 1..wtIndex : wt[i] = (given - wpLen - wtIndex) + i
    BY DEF StreamInv, WriterInv
  <2>2. \A i \in 1..wtIndex : rest[i] = wt[i]
    BY WriterFacts
  <2> QED BY <1>3, <2>1, <2>2
<1>5. Sent = given - wpLen - wtIndex /\ Sent' = given
  BY <1>1 DEF Sent
<1> HIDE DEF rest
<1>6. m \in [from : Nat, data : Seq(Nat)] /\ m.from = Sent /\ m.data = rest
  BY <1>3, <1>5, WriterFacts
<1>7. LinkInv' /\ msgs' \in Seq([from : Nat, data : Seq(Nat)])
  <2>1. \A j \in 1..Len(m.data) : m.data[j] = m.from + j
    BY <1>4
  <2>2. Sent' = m.from + Len(m.data)
    BY <1>2, <1>3, <1>5, WriterFacts
  <2>3. link' = "eof" => wpc' = "closed"
    BY <1>1
  <2>4. msgs' = Append(msgs, m)
    BY <1>1
  <2> HIDE DEF m
  <2> QED BY <1>6, <2>1, <2>2, <2>3, <2>4, SendStep
<1>8. TypeOK'
  BY <1>1, <1>7 DEF StreamInv, TypeOK
<1>9. wtIndex' = wtIndex
  BY <1>1 DEF wtIndex
<1>10. WriterInv'
  BY <1>1, <1>2, <1>9 DEF StreamInv, WriterInv
<1>11. ReaderInv' /\ InOrder'
  BY DEF StreamInv, ReaderInv, InOrder
<1>12. rpc # "eof"
  BY <1>1 DEF StreamInv, EofComplete
<1> QED BY <1>7, <1>8, <1>10, <1>11, <1>12 DEF StreamInv, EofComplete

(* The other steps of the Writer's side.                                   *)
LEMMA WriteStep ==
  ASSUME StreamInv, NEW n \in 1..MaxWrite, Write(n), UNCHANGED rVars
  PROVE  StreamInv'
<1>1. /\ wpc = "idle" /\ wpc' = "write" /\ given' = given + n /\ wpLen' = n
      /\ UNCHANGED <<wt, wtLen, msgs, link>>
  BY DEF Write
<1>2. n \in Nat /\ wpLen = 0
  BY <1>1, SizesAssumption DEF StreamInv, WriterInv
<1>3. wtIndex' = wtIndex
  BY <1>1 DEF wtIndex
<1>4. given' - wpLen' - wtIndex' = given - wpLen - wtIndex
  <2>1. (given + n) - n - wtIndex = given - 0 - wtIndex
    BY <1>2, WriterFacts
  <2> QED BY <1>1, <1>2, <1>3, <2>1
<1>5. TypeOK'
  BY <1>1, <1>2 DEF StreamInv, TypeOK
<1>6. WriterInv'
  <2>1. wtIndex' + wpLen' <= given'
    <3>1. wtIndex + n <= given + n
      BY <1>2, WriterFacts
    <3> QED BY <1>1, <1>3, <3>1
  <2>2. \A i \in 1..wtIndex' : wt'[i] = (given' - wpLen' - wtIndex') + i
    BY <1>1, <1>3, <1>4 DEF StreamInv, WriterInv
  <2> QED BY <1>1, <2>1, <2>2, WriterFacts DEF WriterInv
<1>7. Sent' = Sent
  BY <1>1, <1>4 DEF Sent
<1>8. LinkInv'
  BY <1>1, <1>7 DEF StreamInv, LinkInv, Got
<1>9. ReaderInv' /\ InOrder' /\ EofComplete'
  BY <1>1 DEF StreamInv, ReaderInv, InOrder, EofComplete
<1> QED BY <1>5, <1>6, <1>8, <1>9 DEF StreamInv

LEMMA WriteRestStep ==
  ASSUME StreamInv, WriteReturn \/ WriteError, UNCHANGED rVars
  PROVE  StreamInv'
<1>1. /\ UNCHANGED <<given, wt, wtLen, wpLen, msgs, link>>
      /\ wpc # "closed" /\ wpc' \in {"idle", "failed"}
      /\ wpc' = "idle" => wpLen = 0
  BY DEF WriteReturn, WriteError
<1>2. wtIndex' = wtIndex
  BY <1>1 DEF wtIndex
<1>3. Sent' = Sent
  BY <1>1, <1>2 DEF Sent
<1>4. TypeOK'
  BY <1>1 DEF StreamInv, TypeOK
<1>5. WriterInv'
  BY <1>1, <1>2 DEF StreamInv, WriterInv
<1>6. LinkInv'
  BY <1>1, <1>3 DEF StreamInv, LinkInv, Got
<1>7. ReaderInv' /\ InOrder' /\ EofComplete'
  BY <1>1 DEF StreamInv, ReaderInv, InOrder, EofComplete
<1> QED BY <1>4, <1>5, <1>6, <1>7 DEF StreamInv

LEMMA BreakStep ==
  ASSUME StreamInv, Break
  PROVE  StreamInv'
<1>1. UNCHANGED <<wVars, msgs, rVars>> /\ link' = "broken"
  BY DEF Break
<1>2. wtIndex' = wtIndex /\ Sent' = Sent /\ Got' = Got
  BY <1>1 DEF wtIndex, Sent, Got
<1>3. TypeOK'
  BY <1>1 DEF StreamInv, TypeOK
<1>4. WriterInv'
  BY <1>1, <1>2 DEF StreamInv, WriterInv
<1>5. LinkInv'
  BY <1>1, <1>2 DEF StreamInv, LinkInv
<1>6. ReaderInv' /\ InOrder' /\ EofComplete'
  BY <1>1 DEF StreamInv, ReaderInv, InOrder, EofComplete
<1> QED BY <1>3, <1>4, <1>5, <1>6 DEF StreamInv

(* A step of the Reader leaves the Writer's part alone.                    *)
LEMMA WriterKept ==
  ASSUME StreamInv, UNCHANGED <<wVars, link>>
  PROVE  WriterInv' /\ wtIndex' = wtIndex /\ Sent' = Sent
<1>1. wtIndex' = wtIndex
  BY DEF wtIndex
<1>2. Sent' = Sent
  BY <1>1 DEF Sent
<1>3. WriterInv'
  BY <1>1 DEF StreamInv, WriterInv
<1> QED BY <1>1, <1>2, <1>3

LEMMA ReadStep ==
  ASSUME StreamInv, NEW n \in Bufs, Read(n), UNCHANGED <<wVars, link>>
  PROVE  StreamInv'
<1>1. /\ rpc = "idle" /\ rpc' = "read" /\ rpIndex' = 0
      /\ rp' = IF Len(rp) = n THEN rp ELSE [i \in 1..n |-> 0]
      /\ UNCHANGED <<rt, rtIndex, rtLen, out, msgs>>
  BY DEF Read
<1>2. rp \in Seq(Nat) /\ rpIndex = 0
  BY <1>1 DEF StreamInv, TypeOK, ReaderInv
<1>3. n \in Nat /\ 0 < n
  BY SizesAssumption
<1>4. rp' \in Seq(Nat) /\ Len(rp') = n
  <2>1. [i \in 1..n |-> 0] \in Seq(Nat) /\ Len([i \in 1..n |-> 0]) = n
    BY <1>3
  <2> QED BY <1>1, <1>2, <2>1
<1>5. TypeOK'
  BY <1>1, <1>4 DEF StreamInv, TypeOK
<1>6. Got' = Got
  BY <1>1, <1>2 DEF Got
<1>7. LinkInv'
  BY <1>1, <1>6, WriterKept DEF StreamInv, LinkInv
<1>8. ReaderInv'
  <2>1. rtIndex' + rtLen' <= Len(rt')
    BY <1>1 DEF StreamInv, ReaderInv
  <2>2. \A j \in 1..rtLen' : rt'[rtIndex' + j] = Len(out') + rpIndex' + j
    BY <1>1, <1>2 DEF StreamInv, ReaderInv
  <2>3. rpIndex' <= Len(rp') /\ rpIndex' < Len(rp')
    BY <1>1, <1>3, <1>4
  <2>4. \A i \in 1..rpIndex' : rp'[i] = Len(out') + i
    <3>1. 1..rpIndex' = {}
      BY <1>1
    <3> QED BY <3>1
  <2>5. rpc' = "read"
    BY <1>1
  <2> QED BY <2>1, <2>2, <2>3, <2>4, <2>5 DEF ReaderInv
<1>9. InOrder' /\ EofComplete'
  BY <1>1 DEF StreamInv, InOrder, EofComplete
<1> QED BY <1>5, <1>7, <1>8, <1>9, WriterKept DEF StreamInv

LEMMA ReadNextStep ==
  ASSUME StreamInv, ReadNext, UNCHANGED <<wVars, link>>
  PROVE  StreamInv'
<1> DEFINE M == [from : Nat, data : Seq(Nat)]
<1>1. /\ rpc = "read" /\ rtLen = 0 /\ msgs # <<>>
      /\ rt' = Head(msgs).data /\ rtIndex' = 0 /\ rtLen' = Len(Head(msgs).data)
      /\ msgs' = Tail(msgs)
      /\ UNCHANGED <<rpc, rp, rpIndex, out>>
  BY DEF ReadNext
<1>2. msgs \in Seq(M) /\ Len(out) \in Nat /\ rpIndex \in Nat
  BY DEF StreamInv, TypeOK
<1>3. /\ Head(msgs) = msgs[1] /\ 1 \in 1..Len(msgs) /\ msgs[1] \in M
      /\ Tail(msgs) \in Seq(M) /\ Len(Tail(msgs)) = Len(msgs) - 1
      /\ \A k \in 1..(Len(msgs) - 1) : Tail(msgs)[k] = msgs[k + 1]
  <2> HIDE DEF M
  <2>1. msgs # <<>>
    BY <1>1
  <2>2. /\ Head(msgs) \in M /\ Tail(msgs) \in Seq(M)
        /\ Len(Tail(msgs)) = Len(msgs) - 1
        /\ \A i \in 1..Len(Tail(msgs)) : Tail(msgs)[i] = msgs[i + 1]
    BY <1>2, <2>1, HeadTailProperties
  <2>3. Len(msgs) \in Nat \ {0} /\ Head(msgs) = msgs[1]
    BY <1>2, <2>1, EmptySeq
  <2> QED BY <2>2, <2>3
<1>4. /\ rt' = msgs[1].data /\ rtLen' = Len(msgs[1].data)
      /\ rt' \in Seq(Nat) /\ rtLen' \in Nat /\ msgs[1].from \in Nat
  BY <1>1, <1>3
<1>5. msgs[1].from = Len(out) + rpIndex
  <2>1. msgs[1].from = Got
    BY <1>1 DEF StreamInv, LinkInv
  <2>2. Got = Len(out) + rpIndex + 0
    BY <1>1 DEF Got
  <2>3. Len(out) + rpIndex + 0 = Len(out) + rpIndex
    BY <1>2
  <2> QED BY <2>1, <2>2, <2>3
<1>6. Got' = msgs[1].from + Len(msgs[1].data)
  BY <1>1, <1>4, <1>5 DEF Got
<1>7. TypeOK'
  BY <1>1, <1>3, <1>4 DEF StreamInv, TypeOK
<1>8. LinkInv'
  <2>1. link' = "eof" => wpc' = "closed"
    BY DEF StreamInv, LinkInv
  <2>2. Len(msgs') = Len(msgs) - 1 /\ Len(msgs) \in Nat
    BY <1>1, <1>2, <1>3
  <2>3. \A k \in 1..Len(msgs') : msgs'[k] = msgs[k + 1] /\ k + 1 \in 1..Len(msgs)
    BY <1>1, <1>3, <2>2
  <2>4. \A k \in 1..Len(msgs') : \A j \in 1..Len(msgs'[k].data) :
          msgs'[k].data[j] = msgs'[k].from + j
    BY <2>3, SMTT(20) DEF StreamInv, LinkInv
  <2>5. ASSUME NEW k \in 1..Len(msgs')
        PROVE  msgs'[k].from + Len(msgs'[k].data) =
                 IF k = Len(msgs') THEN Sent' ELSE msgs'[k + 1].from
    <3>1. msgs[k + 1].from + Len(msgs[k + 1].data) =
            IF k + 1 = Len(msgs) THEN Sent ELSE msgs[(k + 1) + 1].from
      BY <2>3 DEF StreamInv, LinkInv
    <3>2. CASE k = Len(msgs')
      BY <3>1, <3>2, <2>2, <2>3, WriterKept
    <3>3. CASE k # Len(msgs')
      <4>1. k + 1 \in 1..Len(msgs') /\ k + 1 # Len(msgs)
        BY <2>2, <3>3
      <4>2. msgs'[k + 1] = msgs[(k + 1) + 1] /\ msgs'[k] = msgs[k + 1]
        BY <4>1, <2>3
      <4> QED BY <3>1, <3>3, <4>1, <4>2
    <3> QED BY <3>2, <3>3
  <2>6. msgs[1].from + Len(msgs[1].data) =
          IF 1 = Len(msgs) THEN Sent ELSE msgs[1 + 1].from
    BY <1>3 DEF StreamInv, LinkInv
  <2>7. Got' = IF msgs' = <<>> THEN Sent' ELSE msgs'[1].from
    <3>1. CASE Len(msgs) = 1
      <4>1. msgs' = <<>>
        <5>1. msgs' \in Seq(M) /\ Len(msgs') = 0
          BY <3>1, <2>2, <1>1, <1>3
        <5> HIDE DEF M
        <5> QED BY <5>1, EmptySeq
      <4> QED BY <3>1, <4>1, <1>6, <2>6, WriterKept
    <3>2. CASE Len(msgs) # 1
      <4>1. 1 \in 1..Len(msgs') /\ Len(msgs') # 0
        BY <3>2, <2>2, <1>3
      <4>2. msgs' # <<>> /\ msgs'[1] = msgs[1 + 1]
        BY <4>1, <2>3
      <4> QED BY <3>2, <4>2, <1>6, <2>6
    <3> QED BY <3>1, <3>2
  <2> QED BY <2>1, <2>4, <2>5, <2>7 DEF LinkInv
<1>9. ReaderInv'
  <2>1. rtIndex' + rtLen' <= Len(rt')
    BY <1>1, <1>4
  <2>2. \A j \in 1..rtLen' : rt'[rtIndex' + j] = Len(out') + rpIndex' + j
    <3> SUFFICES ASSUME NEW j \in 1..rtLen'
                 PROVE  rt'[rtIndex' + j] = Len(out') + rpIndex' + j
      OBVIOUS
    <3>1. j \in 1..Len(msgs[1].data) /\ 0 + j = j
      BY <1>4
    <3>2. msgs[1].data[j] = msgs[1].from + j
      BY <1>3, <3>1 DEF StreamInv, LinkInv
    <3>3. rt'[rtIndex' + j] = msgs[1].data[j]
      BY <1>1, <1>4, <3>1
    <3>4. Len(out') = Len(out) /\ rpIndex' = rpIndex
      BY <1>1
    <3> QED BY <3>2, <3>3, <3>4, <1>5
  <2> QED BY <1>1, <2>1, <2>2 DEF StreamInv, ReaderInv
<1>10. InOrder' /\ EofComplete'
  BY <1>1 DEF StreamInv, InOrder, EofComplete
<1> QED BY <1>7, <1>8, <1>9, <1>10, WriterKept DEF StreamInv

LEMMA ReadErrorStep ==
  ASSUME StreamInv, ReadError, UNCHANGED <<wVars, link>>
  PROVE  StreamInv'
<1>1. /\ rpc = "read" /\ rpc' = "failed"
      /\ UNCHANGED <<rt, rtIndex, rtLen, rp, rpIndex, out, msgs>>
  BY DEF ReadError
<1>2. TypeOK'
  BY <1>1 DEF StreamInv, TypeOK
<1>3. LinkInv'
  BY <1>1, WriterKept DEF StreamInv, LinkInv, Got
<1>4. ReaderInv' /\ InOrder' /\ EofComplete'
  BY <1>1 DEF StreamInv, ReaderInv, InOrder, EofComplete
<1> QED BY <1>2, <1>3, <1>4, WriterKept DEF StreamInv

(* Bytes that continue out are appended to it.                             *)
LEMMA OutStep ==
  ASSUME StreamInv, NEW p \in Seq(Nat), out' = out \o p,
         \A i \in 1..Len(p) : p[i] = Len(out) + i
  PROVE  /\ out' \in Seq(Nat)
         /\ Len(out') = Len(out) + Len(p)
         /\ InOrder'
<1>1. out \in Seq(Nat) /\ \A i \in 1..Len(out) : out[i] = i
  BY DEF StreamInv, TypeOK, InOrder
<1>2. /\ out' \in Seq(Nat) /\ Len(out') = Len(out) + Len(p)
      /\ Len(out) \in Nat /\ Len(p) \in Nat
      /\ \A i \in 1..Len(out') :
           out'[i] = IF i <= Len(out) THEN out[i] ELSE p[i - Len(out)]
  BY <1>1
<1>3. ASSUME NEW i \in 1..Len(out') PROVE out'[i] = i
  <2>1. CASE i <= Len(out)
    BY <2>1, <1>1, <1>2
  <2>2. CASE i > Len(out)
    <3>1. i - Len(out) \in 1..Len(p)
      BY <2>2, <1>2
    <3>2. out'[i] = p[i - Len(out)]
      BY <2>2, <1>2
    <3>3. Len(out) + (i - Len(out)) = i
      BY <1>2
    <3> QED BY <3>1, <3>2, <3>3
  <2> QED BY <2>1, <2>2, <1>2
<1> QED BY <1>2, <1>3 DEF InOrder

LEMMA ReadEofStep ==
  ASSUME StreamInv, ReadEof, UNCHANGED <<wVars, link>>
  PROVE  StreamInv'
<1> DEFINE p == SubSeq(rp, 1, rpIndex)
<1>1. /\ rpc = "read" /\ rpc' = "eof" /\ rtLen = 0 /\ msgs = <<>>
      /\ link = "eof" /\ rpIndex' = 0 /\ out' = out \o p
      /\ UNCHANGED <<rt, rtIndex, rtLen, rp, msgs>>
  BY DEF ReadEof
<1>2. rp \in Seq(Nat) /\ rpIndex \in 0..Len(rp) /\ Len(out) \in Nat
  BY DEF StreamInv, TypeOK, ReaderInv
<1>3. p \in Seq(Nat) /\ Len(p) = rpIndex /\ \A i \in 1..rpIndex : p[i] = rp[i]
  BY <1>2
<1>4. \A i \in 1..Len(p) : p[i] = Len(out) + i
  BY <1>3 DEF StreamInv, ReaderInv
<1>5. out' \in Seq(Nat) /\ Len(out') = Len(out) + rpIndex /\ InOrder'
  <2> HIDE DEF p
  <2> QED BY <1>1, <1>3, <1>4, OutStep
<1>6. Got' = Got
  <2>1. Len(out') + 0 + rtLen = Len(out) + rpIndex + rtLen
    BY <1>2, <1>5, <1>1
  <2> QED BY <2>1, <1>1 DEF Got
<1>7. TypeOK'
  BY <1>1, <1>5 DEF StreamInv, TypeOK
<1>8. LinkInv'
  BY <1>1, <1>6, WriterKept DEF StreamInv, LinkInv
<1>9. ReaderInv'
  <2>1. 1..rpIndex' = {} /\ 1..rtLen' = {} /\ rpIndex' <= Len(rp')
    BY <1>1, <1>2
  <2>2. rtIndex' + rtLen' <= Len(rt')
    BY <1>1 DEF StreamInv, ReaderInv
  <2> QED BY <1>1, <2>1, <2>2 DEF ReaderInv
<1>10. EofComplete'
  <2>1. wpc = "closed" /\ Sent = given
    BY <1>1 DEF StreamInv, LinkInv, Sent
  <2>2. Got = Sent
    BY <1>1 DEF StreamInv, LinkInv
  <2>3. Got = Len(out) + rpIndex + 0
    BY <1>1 DEF Got
  <2>4. Len(out) + rpIndex + 0 = Len(out')
    BY <1>2, <1>5
  <2> QED BY <2>1, <2>2, <2>3, <2>4 DEF EofComplete
<1> QED BY <1>5, <1>7, <1>8, <1>9, <1>10, WriterKept DEF StreamInv

LEMMA ReadCopyStep ==
  ASSUME StreamInv, ReadCopy, UNCHANGED <<wVars, link>>
  PROVE  StreamInv'
<1> DEFINE n == Least(Len(rp) - rpIndex, rtLen)
           p == [i \in DOMAIN rp |-> IF rpIndex < i /\ i <= rpIndex + n
                                     THEN rt[rtIndex + (i - rpIndex)] ELSE rp[i]]
           full == rpIndex + n = Len(rp)
           L == Len(out) + rpIndex + n
<1>1. /\ rpc = "read" /\ rtLen > 0 /\ rp' = p
      /\ rtIndex' = rtIndex + n /\ rtLen' = rtLen - n
      /\ UNCHANGED <<rt, msgs>>
  BY DEF ReadCopy
<1>2. /\ full => out' = out \o p /\ rpc' = "idle" /\ rpIndex' = 0
      /\ ~full => rpIndex' = rpIndex + n /\ UNCHANGED <<out, rpc>>
  BY DEF ReadCopy
<1>3. /\ rp \in Seq(Nat) /\ rt \in Seq(Nat) /\ rpIndex \in Nat /\ rtIndex \in Nat
      /\ rtLen \in Nat /\ Len(rp) \in Nat /\ Len(rt) \in Nat /\ Len(out) \in Nat
      /\ rpIndex < Len(rp) /\ rtIndex + rtLen <= Len(rt)
  BY <1>1, SMTT(20) DEF StreamInv, TypeOK, ReaderInv
<1>4. n \in Nat /\ n <= rtLen /\ n <= Len(rp) - rpIndex
  BY <1>3 DEF Least
<1> HIDE DEF n
<1>5. p \in Seq(Nat) /\ Len(p) = Len(rp)
  <2>1. \A i \in 1..Len(rp) : (IF rpIndex < i /\ i <= rpIndex + n
                             THEN rt[rtIndex + (i - rpIndex)] ELSE rp[i]) \in Nat
    <3> SUFFICES ASSUME NEW i \in 1..Len(rp), rpIndex < i, i <= rpIndex + n
                 PROVE  rt[rtIndex + (i - rpIndex)] \in Nat
      BY <1>3
    <3>1. rtIndex + (i - rpIndex) \in 1..Len(rt)
      BY <1>3, <1>4
    <3> QED BY <3>1, <1>3
  <2>2. DOMAIN rp = 1..Len(rp)
    BY <1>3
  <2> QED BY <2>1, <2>2, <1>3, SMTT(20)
<1>6. \A j \in 1..rtLen : rt[rtIndex + j] = Len(out) + rpIndex + j
  BY DEF StreamInv, ReaderInv
<1>7. ASSUME NEW i \in 1..(rpIndex + n) PROVE p[i] = Len(out) + i
  <2>1. i \in DOMAIN rp /\ i \in Nat
    BY <1>3, <1>4
  <2>2. CASE i <= rpIndex
    <3>1. p[i] = rp[i]
      BY <2>1, <2>2, <1>3
    <3>2. i \in 1..rpIndex
      BY <2>1, <2>2, <1>3
    <3> QED BY <3>1, <3>2 DEF StreamInv, ReaderInv
  <2>3. CASE rpIndex < i
    <3>1. p[i] = rt[rtIndex + (i - rpIndex)]
      BY <2>1, <2>3, <1>3, <1>4
    <3>2. i - rpIndex \in 1..rtLen
      BY <2>3, <1>3, <1>4
    <3>3. rt[rtIndex + (i - rpIndex)] = Len(out) + rpIndex + (i - rpIndex)
      BY <3>2, <1>6
    <3> QED BY <3>1, <3>3, <1>3
  <2> QED BY <2>2, <2>3, <1>3
<1> HIDE DEF p
<1>8. /\ out' \in Seq(Nat) /\ InOrder'
      /\ rpIndex' \in Nat /\ Len(out') \in Nat
      /\ Len(out') + rpIndex' = L
      /\ rpIndex' <= Len(rp')
      /\ rpc' = "read" => rpIndex' < Len(rp')
      /\ rpc' = "idle" => rpIndex' = 0
      /\ rpc' \in {"read", "idle"}
      /\ \A i \in 1..rpIndex' : rp'[i] = Len(out') + i
  <2>1. CASE full
    <3>1. out' \in Seq(Nat) /\ Len(out') = Len(out) + Len(p) /\ InOrder'
      <4>1. \A i \in 1..Len(p) : p[i] = Len(out) + i
        BY <2>1, <1>5, <1>7
      <4> QED BY <4>1, <2>1, <1>2, <1>5, OutStep
    <3>2. rpIndex' = 0 /\ rpc' = "idle"
      BY <2>1, <1>2
    <3>3. Len(out') + 0 = L
      <4>1. rpIndex + n = Len(p)
        BY <2>1, <1>5
      <4>2. (Len(out) + (rpIndex + n)) + 0 = L
        BY <1>3, <1>4
      <4> QED BY <3>1, <4>1, <4>2
    <3>4. Len(rp') \in Nat
      BY <1>1, <1>3, <1>5
    <3>5. 1..rpIndex' = {}
      BY <3>2
    <3> QED BY <3>1, <3>2, <3>3, <3>4, <3>5, <1>3, <1>5
  <2>2. CASE ~full
    <3>1. rpIndex' = rpIndex + n /\ out' = out /\ rpc' = "read"
      BY <2>2, <1>1, <1>2
    <3>2. out \in Seq(Nat) /\ InOrder
      BY DEF StreamInv, TypeOK
    <3>3. InOrder'
      BY <3>1, <3>2 DEF InOrder
    <3>4. rpIndex + n < Len(rp) /\ Len(rp') = Len(rp)
      BY <2>2, <1>1, <1>3, <1>4, <1>5
    <3>5. Len(out) + (rpIndex + n) = L /\ rpIndex + n \in Nat
      BY <1>3, <1>4
    <3>6. \A i \in 1..(rpIndex + n) : rp'[i] = Len(out) + i
      BY <1>1, <1>7
    <3> QED BY <3>1, <3>2, <3>3, <3>4, <3>5, <3>6, <1>3
  <2> QED BY <2>1, <2>2
<1>9. rtIndex + n \in Nat /\ rtLen - n \in Nat /\ L \in Nat
  BY <1>3, <1>4
<1>10. TypeOK'
  <2>1. rp' \in Seq(Nat)
    BY <1>1, <1>5
  <2> QED BY <2>1, <1>1, <1>8, <1>9 DEF StreamInv, TypeOK
<1>11. Got' = Got
  <2>1. Got' = L + (rtLen - n)
    BY <1>1, <1>8 DEF Got
  <2>2. L + (rtLen - n) = Len(out) + rpIndex + rtLen
    BY <1>3, <1>4
  <2> QED BY <2>1, <2>2 DEF Got
<1>12. LinkInv'
  BY <1>1, <1>11, WriterKept DEF StreamInv, LinkInv
<1>13. ReaderInv'
  <2>1. rtIndex' + rtLen' <= Len(rt')
    <3>1. (rtIndex + n) + (rtLen - n) <= Len(rt)
      BY <1>3, <1>4
    <3>2. rtIndex' = rtIndex + n /\ rtLen' = rtLen - n /\ rt' = rt
      BY <1>1
    <3> QED BY <3>1, <3>2
  <2>2. \A j \in 1..rtLen' : rt'[rtIndex' + j] = Len(out') + rpIndex' + j
    <3> SUFFICES ASSUME NEW j \in 1..rtLen'
                 PROVE  rt'[rtIndex' + j] = Len(out') + rpIndex' + j
      OBVIOUS
    <3>1. n + j \in 1..rtLen /\ j \in Nat
      BY <1>1, <1>3, <1>4
    <3>2. rt[rtIndex + (n + j)] = Len(out) + rpIndex + (n + j)
      BY <3>1, <1>6
    <3>3. rtIndex + (n + j) = (rtIndex + n) + j
      BY <3>1, <1>3, <1>4
    <3>4. Len(out) + rpIndex + (n + j) = L + j
      BY <3>1, <1>3, <1>4
    <3> QED BY <3>2, <3>3, <3>4, <1>1, <1>8
  <2>3. rpc' # "eof"
    BY <1>8
  <2> QED BY <2>1, <2>2, <2>3, <1>8 DEF ReaderInv
<1>14. EofComplete'
  BY <1>8 DEF EofComplete
<1> QED BY <1>8, <1>10, <1>12, <1>13, <1>14, WriterKept DEF StreamInv

(* Every step preserves the invariant.                                     *)
LEMMA StreamNext == StreamInv /\ [Next]_vars => StreamInv'
<1> SUFFICES ASSUME StreamInv, [Next]_vars PROVE StreamInv'
  OBVIOUS
<1>1. CASE Writer
  <2>1. ASSUME NEW n \in 1..MaxWrite, Write(n) PROVE StreamInv'
    BY <1>1, <2>1, WriteStep DEF Writer
  <2> QED BY <1>1, <2>1, WriteCopyStep, WriteSendStep, WriteRestStep, FlushStep
          DEF Writer
<1>2. CASE Reader
  <2>1. ASSUME NEW n \in Bufs, Read(n) PROVE StreamInv'
    BY <1>2, <2>1, ReadStep DEF Reader
  <2> QED BY <1>2, <2>1, ReadCopyStep, ReadNextStep, ReadEofStep, ReadErrorStep
          DEF Reader
<1>3. CASE Break
  BY <1>3, BreakStep
<1>4. CASE UNCHANGED vars
  <2>1. wtIndex' = wtIndex /\ Sent' = Sent /\ Got' = Got
    BY <1>4 DEF vars, wtIndex, Sent, Got
  <2>2. TypeOK'
    BY <1>4 DEF vars, StreamInv, TypeOK
  <2>3. WriterInv' /\ LinkInv'
    BY <1>4, <2>1 DEF vars, StreamInv, WriterInv, LinkInv
  <2>4. ReaderInv' /\ InOrder' /\ EofComplete'
    BY <1>4 DEF vars, StreamInv, ReaderInv, InOrder, EofComplete
  <2> QED BY <2>2, <2>3, <2>4 DEF StreamInv
<1> QED BY <1>1, <1>2, <1>3, <1>4 DEF Next

(* The invariant that accounts for every byte holds throughout.            *)
THEOREM StreamInvariant == Spec => []StreamInv
<1> QED BY StreamInit, StreamNext, PTL DEF Spec

(* For every transfer rate, buffer size and split into writes, Read returns
   the bytes given to Write, in order, none lost, repeated or stale.       *)
THEOREM StreamInOrder == Spec => []InOrder
<1>1. StreamInv => InOrder
  BY DEF StreamInv
<1> QED BY <1>1, StreamInvariant, PTL

(* Read reports io.EOF only after the last byte of a stream that the sender
   has ended: a broken RPC is never taken for the end.                     *)
THEOREM EofMeansComplete == Spec => []EofComplete
<1>1. StreamInv => EofComplete
  BY DEF StreamInv
<1> QED BY <1>1, StreamInvariant, PTL
=============================================================================
