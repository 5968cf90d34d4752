--------------------------- MODULE MarshalProofs ---------------------------
(***************************************************************************)
(* That SizeVT counts exactly what MarshalToSizedBufferVT writes, for all  *)
(* messages and at the 64 bits of the code, and that no message of a paste *)
(* is above the limit its client sets, at any transfer rate.               *)
(***************************************************************************)
EXTENDS Marshal, FiniteSetTheorems, SequenceTheorems, TLAPS

-----------------------------------------------------------------------------
(* Sequences of bytes                                                      *)

Bytes(s) == \E S : s \in Seq(S)

(* What is written one after the other.                                    *)
LEMMA Joined ==
  ASSUME NEW a, NEW b, Bytes(a), Bytes(b)
  PROVE  Bytes(a \o b) /\ Len(a \o b) = Len(a) + Len(b) /\ Len(a \o b) \in Nat
<1>1. PICK S, T : a \in Seq(S) /\ b \in Seq(T)
  BY DEF Bytes
<1>2. PICK U : U = S \union T
  OBVIOUS
<1>3. a \in Seq(U) /\ b \in Seq(U)
  BY <1>1, <1>2
<1>4. a \o b \in Seq(U) /\ Len(a \o b) = Len(a) + Len(b)
  BY <1>3, ConcatProperties
<1>5. Len(a \o b) \in Nat
  BY <1>4
<1> QED BY <1>4, <1>5 DEF Bytes

(* The bytes of a field that is left out, of a tag, and of a truth value.  *)
LEMMA ShortBytes ==
  /\ Bytes(<<>>) /\ Len(<<>>) = 0
  /\ \A t : Bytes(<<t>>) /\ Len(<<t>>) = 1
  /\ \A t, u : Bytes(<<t, u>>) /\ Len(<<t, u>>) = 2
<1>1. <<>> \in Seq({}) /\ Len(<<>>) = 0
  OBVIOUS
<1>2. ASSUME NEW t PROVE <<t>> \in Seq({t}) /\ Len(<<t>>) = 1
  OBVIOUS
<1>3. ASSUME NEW t, NEW u PROVE <<t, u>> \in Seq({t, u}) /\ Len(<<t, u>>) = 2
  OBVIOUS
<1> QED BY <1>1, <1>2, <1>3 DEF Bytes

(* A varint of 64 bits takes one to ten bytes (sov).                       *)
LEMMA SovBound ==
  ASSUME NEW v
  PROVE  Sov(v) \in 1..10
<1>1. PICK S : S = {n \in 1..(WordBits - 1) : v >= 2^n}
  OBVIOUS
<1>2. 1 \in Int /\ WordBits - 1 \in Int /\ WordBits - 1 \in Nat /\ WordBits - 1 <= 63
  BY WordAssumption
<1>3. IsFiniteSet(1..(WordBits - 1)) /\ Cardinality(1..(WordBits - 1)) = WordBits - 1
  BY <1>2, FS_Interval
<1>4. S \subseteq 1..(WordBits - 1)
  BY <1>1
<1>5. IsFiniteSet(S) /\ Cardinality(S) <= Cardinality(1..(WordBits - 1))
  BY <1>3, <1>4, FS_Subset
<1>6. Cardinality(S) \in Nat
  BY <1>5, FS_CardinalityType
<1>7. PICK k \in Nat : k = Cardinality(S) /\ k <= 63
  BY <1>2, <1>3, <1>5, <1>6
<1>8. Sov(v) = ((1 + k) + 6) \div 7
  BY <1>1, <1>7 DEF Sov, Len64
<1>9. ((1 + k) + 6) \div 7 \in 1..10
  BY <1>7
<1> QED BY <1>8, <1>9

(* encodeVarint writes as many bytes as sov counts.                        *)
LEMMA VarintSize ==
  ASSUME NEW v
  PROVE  Bytes(EncodeVarint(v)) /\ Len(EncodeVarint(v)) = Sov(v)
<1>1. PICK k \in Nat : k = Sov(v)
  BY SovBound
<1>2. PICK f : f = EncodeVarint(v)
  OBVIOUS
<1>3. DOMAIN f = 1..k
  BY <1>1, <1>2 DEF EncodeVarint
<1>4. f = [j \in 1..k |-> f[j]]
  BY <1>1, <1>2, <1>3 DEF EncodeVarint
<1>5. PICK S : S = {f[j] : j \in 1..k}
  OBVIOUS
<1>6. f \in Seq(S) /\ Len(f) = k
  BY <1>3, <1>4, <1>5
<1> QED BY <1>1, <1>2, <1>6 DEF Bytes

-----------------------------------------------------------------------------
(* Fields                                                                  *)

(* A length and the bytes, after their tag.                                *)
LEMMA DelimitedSize ==
  ASSUME NEW tag, NEW s, Bytes(s)
  PROVE  /\ Bytes(PutDelimited(tag, s))
         /\ Len(PutDelimited(tag, s)) = SizeDelimited(Len(s))
<1>1. PICK a, b : a = <<tag>> /\ b = EncodeVarint(Len(s))
  OBVIOUS
<1>2. Bytes(a) /\ Len(a) = 1
  BY <1>1, ShortBytes
<1>3. Bytes(b) /\ Len(b) = Sov(Len(s))
  BY <1>1, VarintSize
<1>4. Bytes(a \o b) /\ Len(a \o b) = 1 + Sov(Len(s))
  BY <1>2, <1>3, Joined
<1>5. Bytes((a \o b) \o s) /\ Len((a \o b) \o s) = Len(a \o b) + Len(s)
  BY <1>4, Joined
<1>6. Sov(Len(s)) \in Nat /\ Len(s) \in Nat
  BY SovBound DEF Bytes
<1> QED BY <1>1, <1>4, <1>5, <1>6 DEF PutDelimited, SizeDelimited

(* A number, a truth value and a byte string, each left out when zero.     *)
LEMMA FieldSizes ==
  ASSUME NEW tag
  PROVE  /\ \A v : Bytes(PutInt(tag, v)) /\ Len(PutInt(tag, v)) = SizeInt(v)
         /\ \A b \in BOOLEAN :
              Bytes(PutBool(tag, b)) /\ Len(PutBool(tag, b)) = SizeBool(b)
         /\ \A s : Bytes(s) =>
              Bytes(PutBytes(tag, s)) /\ Len(PutBytes(tag, s)) = SizeBytes(s)
<1>1. ASSUME NEW v
      PROVE  Bytes(PutInt(tag, v)) /\ Len(PutInt(tag, v)) = SizeInt(v)
  <2>1. CASE v = 0
    BY <2>1, ShortBytes DEF PutInt, SizeInt
  <2>2. CASE v # 0
    <3>1. PICK a, b : a = <<tag>> /\ b = EncodeVarint(Unsigned(v))
      OBVIOUS
    <3>2. Bytes(a) /\ Len(a) = 1
      BY <3>1, ShortBytes
    <3>3. Bytes(b) /\ Len(b) = Sov(Unsigned(v))
      BY <3>1, VarintSize
    <3>4. Bytes(a \o b) /\ Len(a \o b) = Len(a) + Len(b)
      BY <3>2, <3>3, Joined
    <3> QED BY <2>2, <3>1, <3>2, <3>3, <3>4 DEF PutInt, SizeInt
  <2> QED BY <2>1, <2>2
<1>2. ASSUME NEW b \in BOOLEAN
      PROVE  Bytes(PutBool(tag, b)) /\ Len(PutBool(tag, b)) = SizeBool(b)
  BY ShortBytes DEF PutBool, SizeBool
<1>3. ASSUME NEW s, Bytes(s)
      PROVE  Bytes(PutBytes(tag, s)) /\ Len(PutBytes(tag, s)) = SizeBytes(s)
  <2>1. CASE s = <<>>
    BY <2>1, ShortBytes DEF PutBytes, SizeBytes
  <2>2. CASE s # <<>>
    BY <1>3, <2>2, DelimitedSize DEF PutBytes, SizeBytes
  <2> QED BY <2>1, <2>2
<1> QED BY <1>1, <1>2, <1>3

(* The size of a field is a natural number.                                *)
LEMMA SizesAreNumbers ==
  /\ \A v : SizeInt(v) \in 0..11
  /\ \A b : SizeBool(b) \in 0..2
  /\ \A s : Bytes(s) => SizeBytes(s) \in Nat /\ SizeBytes(s) <= Len(s) + 11
  /\ \A l \in Nat : SizeDelimited(l) \in Nat /\ SizeDelimited(l) <= l + 11
<1>1. ASSUME NEW v PROVE SizeInt(v) \in 0..11
  <2>1. PICK k \in 1..10 : k = Sov(Unsigned(v))
    BY SovBound
  <2> QED BY <2>1 DEF SizeInt
<1>2. ASSUME NEW b PROVE SizeBool(b) \in 0..2
  BY DEF SizeBool
<1>3. ASSUME NEW l \in Nat
      PROVE  SizeDelimited(l) \in Nat /\ SizeDelimited(l) <= l + 11
  <2>1. PICK k \in 1..10 : k = Sov(l)
    BY SovBound
  <2> QED BY <2>1 DEF SizeDelimited
<1>4. ASSUME NEW s, Bytes(s)
      PROVE  SizeBytes(s) \in Nat /\ SizeBytes(s) <= Len(s) + 11
  <2>1. Len(s) \in Nat
    BY <1>4 DEF Bytes
  <2>2. CASE s = <<>>
    <3>1. SizeBytes(s) = 0
      BY <2>2 DEF SizeBytes
    <3> QED BY <2>1, <3>1
  <2>3. CASE s # <<>>
    <3>1. SizeBytes(s) = SizeDelimited(Len(s))
      BY <2>3 DEF SizeBytes
    <3> QED BY <1>3, <2>1, <3>1
  <2> QED BY <2>2, <2>3
<1> QED BY <1>1, <1>2, <1>3, <1>4

-----------------------------------------------------------------------------
(* Messages                                                                *)

(* The bytes s, of which there are n.                                      *)
Written(s, n) == Bytes(s) /\ n \in Nat /\ Len(s) = n

(* Sizes add up as fields follow each other.                               *)
LEMMA WrittenJoined ==
  ASSUME NEW a, NEW b, NEW m, NEW n, Written(a, m), Written(b, n)
  PROVE  Written(a \o b, m + n)
<1>1. Bytes(a \o b) /\ Len(a \o b) = Len(a) + Len(b)
  BY Joined DEF Written
<1>2. m + n \in Nat /\ Len(a) + Len(b) = m + n
  BY DEF Written
<1> QED BY <1>1, <1>2 DEF Written

(* Each field is as long as its size says.                                 *)
LEMMA WrittenFields ==
  ASSUME NEW tag
  PROVE  /\ \A v : Written(PutInt(tag, v), SizeInt(v))
         /\ \A b \in BOOLEAN : Written(PutBool(tag, b), SizeBool(b))
         /\ \A s : Bytes(s) => Written(PutBytes(tag, s), SizeBytes(s))
         /\ \A s, n : Written(s, n) =>
              Written(PutDelimited(tag, s), SizeDelimited(n))
<1>1. ASSUME NEW v PROVE Written(PutInt(tag, v), SizeInt(v))
  <2>1. PICK k \in 0..11 : k = SizeInt(v)
    BY SizesAreNumbers
  <2> QED BY <2>1, FieldSizes DEF Written
<1>2. ASSUME NEW b \in BOOLEAN PROVE Written(PutBool(tag, b), SizeBool(b))
  <2>1. PICK k \in 0..2 : k = SizeBool(b)
    BY SizesAreNumbers
  <2> QED BY <2>1, FieldSizes DEF Written
<1>3. ASSUME NEW s, Bytes(s) PROVE Written(PutBytes(tag, s), SizeBytes(s))
  <2>1. SizeBytes(s) \in Nat
    BY <1>3, SizesAreNumbers
  <2> QED BY <1>3, <2>1, FieldSizes DEF Written
<1>4. ASSUME NEW s, NEW n, Written(s, n)
      PROVE  Written(PutDelimited(tag, s), SizeDelimited(n))
  <2>1. Bytes(s) /\ n \in Nat /\ Len(s) = n
    BY <1>4 DEF Written
  <2>2. SizeDelimited(n) \in Nat
    BY <2>1, SizesAreNumbers
  <2>3. Bytes(PutDelimited(tag, s)) /\ Len(PutDelimited(tag, s)) = SizeDelimited(n)
    BY <2>1, DelimitedSize
  <2> QED BY <2>2, <2>3 DEF Written
<1> QED BY <1>1, <1>2, <1>3, <1>4

(* Bytes that are written as they are.                                     *)
LEMMA WrittenBytes ==
  ASSUME NEW s, Bytes(s)
  PROVE  Written(s, Len(s))
BY DEF Written, Bytes

(* The Go types of the messages.                                           *)
IsServerStatus(m) ==
  /\ Bytes(m.DbPath) /\ Bytes(m.unknown)
  /\ m.DevMode \in BOOLEAN /\ m.GrpcMTls \in BOOLEAN

IsPasteOption(m) == Bytes(m.unknown)

IsPastInfo(m) ==
  /\ m.Checksum \in BOOLEAN /\ m.Compressed \in BOOLEAN
  /\ Bytes(m.MasterKeyNonce) /\ Bytes(m.KeyNonce) /\ Bytes(m.Iv)
  /\ Bytes(m.unknown)

IsPastError(m) == Bytes(m.Message) /\ Bytes(m.unknown)

IsCopyInfo(m) ==
  /\ m.Compressed \in BOOLEAN
  /\ Bytes(m.MasterKeyNonce) /\ Bytes(m.KeyNonce) /\ Bytes(m.Iv)
  /\ Bytes(m.unknown)

IsPastData(c, v) ==
  \/ c = "Info" /\ IsPastInfo(v)
  \/ c = "Error" /\ IsPastError(v)
  \/ c \in {"Chunk", "Checksum"} /\ Bytes(v)

IsCopyData(c, v) ==
  \/ c = "Info" /\ IsCopyInfo(v)
  \/ c \in {"Chunk", "Checksum"} /\ Bytes(v)

IsPastStream(m) ==
  Bytes(m.unknown) /\ (m.Data # <<>> => IsPastData(m.Data[1], m.Data[2]))

IsCopyStream(m) ==
  Bytes(m.unknown) /\ (m.Data # <<>> => IsCopyData(m.Data[1], m.Data[2]))

(* ServerStatus.                                                           *)
LEMMA ServerStatusWritten ==
  ASSUME NEW m, IsServerStatus(m)
  PROVE  Written(ServerStatusMarshal(m), ServerStatusSize(m))
<1>1. PICK a, b, c, d, e, f :
        /\ a = PutInt(8, m.DbSize) /\ b = PutBytes(18, m.DbPath)
        /\ c = PutInt(24, m.GrpcMaxReceiveBytes) /\ d = PutInt(32, m.GcInterval)
        /\ e = PutBool(40, m.DevMode) /\ f = PutBool(48, m.GrpcMTls)
  OBVIOUS
<1>2. PICK p, q, r, s, t, u :
        /\ p = SizeInt(m.DbSize) /\ q = SizeBytes(m.DbPath)
        /\ r = SizeInt(m.GrpcMaxReceiveBytes) /\ s = SizeInt(m.GcInterval)
        /\ t = SizeBool(m.DevMode) /\ u = SizeBool(m.GrpcMTls)
  OBVIOUS
<1>3. /\ Written(a, p) /\ Written(b, q) /\ Written(c, r) /\ Written(d, s)
      /\ Written(e, t) /\ Written(f, u) /\ Written(m.unknown, Len(m.unknown))
  BY <1>1, <1>2, WrittenFields, WrittenBytes DEF IsServerStatus
<1>4. Written(a \o b \o c \o d \o e \o f \o m.unknown,
              p + q + r + s + t + u + Len(m.unknown))
  BY <1>3, WrittenJoined, Zenon
<1> QED BY <1>1, <1>2, <1>4 DEF ServerStatusMarshal, ServerStatusSize

(* PasteOption.                                                            *)
LEMMA PasteOptionWritten ==
  ASSUME NEW m, IsPasteOption(m)
  PROVE  Written(PasteOptionMarshal(m), PasteOptionSize(m))
BY WrittenFields, WrittenBytes, WrittenJoined
   DEF IsPasteOption, PasteOptionMarshal, PasteOptionSize

(* The header of a paste.                                                  *)
LEMMA PastInfoWritten ==
  ASSUME NEW m, IsPastInfo(m)
  PROVE  Written(PastInfoMarshal(m), PastInfoSize(m))
<1>1. PICK a, b, c, d, e :
        /\ a = PutBool(8, m.Checksum) /\ b = PutBool(16, m.Compressed)
        /\ c = PutBytes(26, m.MasterKeyNonce) /\ d = PutBytes(34, m.KeyNonce)
        /\ e = PutBytes(42, m.Iv)
  OBVIOUS
<1>2. PICK p, q, r, s, t :
        /\ p = SizeBool(m.Checksum) /\ q = SizeBool(m.Compressed)
        /\ r = SizeBytes(m.MasterKeyNonce) /\ s = SizeBytes(m.KeyNonce)
        /\ t = SizeBytes(m.Iv)
  OBVIOUS
<1>3. /\ Written(a, p) /\ Written(b, q) /\ Written(c, r) /\ Written(d, s)
      /\ Written(e, t) /\ Written(m.unknown, Len(m.unknown))
  BY <1>1, <1>2, WrittenFields, WrittenBytes DEF IsPastInfo
<1>4. Written(a \o b \o c \o d \o e \o m.unknown,
              p + q + r + s + t + Len(m.unknown))
  BY <1>3, WrittenJoined, Zenon
<1> QED BY <1>1, <1>2, <1>4 DEF PastInfoMarshal, PastInfoSize

(* The error of a paste.                                                   *)
LEMMA PastErrorWritten ==
  ASSUME NEW m, IsPastError(m)
  PROVE  Written(PastErrorMarshal(m), PastErrorSize(m))
<1>1. PICK a, b, p, q :
        /\ a = PutInt(8, m.Type) /\ b = PutBytes(18, m.Message)
        /\ p = SizeInt(m.Type) /\ q = SizeBytes(m.Message)
  OBVIOUS
<1>2. Written(a, p) /\ Written(b, q) /\ Written(m.unknown, Len(m.unknown))
  BY <1>1, WrittenFields, WrittenBytes DEF IsPastError
<1>3. Written(a \o b \o m.unknown, p + q + Len(m.unknown))
  BY <1>2, WrittenJoined, Zenon
<1> QED BY <1>1, <1>3 DEF PastErrorMarshal, PastErrorSize

(* The header of a copy.                                                   *)
LEMMA CopyInfoWritten ==
  ASSUME NEW m, IsCopyInfo(m)
  PROVE  Written(CopyInfoMarshal(m), CopyInfoSize(m))
<1>1. PICK a, b, c, d, e :
        /\ a = PutInt(8, m.Ttl) /\ b = PutBool(16, m.Compressed)
        /\ c = PutBytes(26, m.MasterKeyNonce) /\ d = PutBytes(34, m.KeyNonce)
        /\ e = PutBytes(42, m.Iv)
  OBVIOUS
<1>2. PICK p, q, r, s, t :
        /\ p = SizeInt(m.Ttl) /\ q = SizeBool(m.Compressed)
        /\ r = SizeBytes(m.MasterKeyNonce) /\ s = SizeBytes(m.KeyNonce)
        /\ t = SizeBytes(m.Iv)
  OBVIOUS
<1>3. /\ Written(a, p) /\ Written(b, q) /\ Written(c, r) /\ Written(d, s)
      /\ Written(e, t) /\ Written(m.unknown, Len(m.unknown))
  BY <1>1, <1>2, WrittenFields, WrittenBytes DEF IsCopyInfo
<1>4. Written(a \o b \o c \o d \o e \o m.unknown,
              p + q + r + s + t + Len(m.unknown))
  BY <1>3, WrittenJoined, Zenon
<1> QED BY <1>1, <1>2, <1>4 DEF CopyInfoMarshal, CopyInfoSize

-----------------------------------------------------------------------------
(* Streams and buffers                                                     *)

(* A buffer of the right size is filled to its first byte.                 *)
LEMMA FilledExactly ==
  ASSUME NEW s, NEW n, Written(s, n)
  PROVE  FillFromEnd(n, s) = s
<1>1. PICK S : s \in Seq(S)
  BY DEF Written, Bytes
<1>2. PICK z : z = [j \in 1..(n - Len(s)) |-> 0]
  OBVIOUS
<1>3. n \in Nat /\ Len(s) = n
  BY DEF Written
<1>4. z = <<>>
  BY <1>2, <1>3
<1>5. <<>> \o s = s
  BY <1>1, ConcatEmptySeq
<1>6. FillFromEnd(n, s) = z \o s
  BY <1>2, <1>3 DEF FillFromEnd
<1> QED BY <1>4, <1>5, <1>6

(* The buffer counted from its front.                                      *)
LEMMA WholeBuffer ==
  ASSUME NEW s, Bytes(s)
  PROVE  SubSeq(s, 1, Len(s)) = s
<1>1. PICK S : s \in Seq(S)
  BY DEF Bytes
<1> QED BY <1>1, SubSeqFull

(* The members of the oneof of a paste.                                    *)
LEMMA PastDataWritten ==
  ASSUME NEW c, NEW v, IsPastData(c, v)
  PROVE  Written(PastDataMarshal(c, v), PastDataSize(c, v))
<1>1. CASE c = "Info" /\ IsPastInfo(v)
  <2>1. Written(PutDelimited(10, PastInfoMarshal(v)), SizeDelimited(PastInfoSize(v)))
    BY <1>1, PastInfoWritten, WrittenFields
  <2> QED BY <1>1, <2>1 DEF PastDataMarshal, PastDataSize
<1>2. CASE c = "Error" /\ IsPastError(v)
  <2>1. Written(PutDelimited(34, PastErrorMarshal(v)), SizeDelimited(PastErrorSize(v)))
    BY <1>2, PastErrorWritten, WrittenFields
  <2> QED BY <1>2, <2>1 DEF PastDataMarshal, PastDataSize
<1>3. CASE c = "Chunk" /\ Bytes(v)
  <2>1. Written(PutDelimited(18, v), SizeDelimited(Len(v)))
    BY <1>3, WrittenBytes, WrittenFields
  <2> QED BY <1>3, <2>1 DEF PastDataMarshal, PastDataSize
<1>4. CASE c = "Checksum" /\ Bytes(v)
  <2>1. Written(PutDelimited(26, v), SizeDelimited(Len(v)))
    BY <1>4, WrittenBytes, WrittenFields
  <2> QED BY <1>4, <2>1 DEF PastDataMarshal, PastDataSize
<1> QED BY <1>1, <1>2, <1>3, <1>4 DEF IsPastData

(* The members of the oneof of a copy.                                     *)
LEMMA CopyDataWritten ==
  ASSUME NEW c, NEW v, IsCopyData(c, v)
  PROVE  Written(CopyDataMarshal(c, v), CopyDataSize(c, v))
<1>1. CASE c = "Info" /\ IsCopyInfo(v)
  <2>1. Written(PutDelimited(10, CopyInfoMarshal(v)), SizeDelimited(CopyInfoSize(v)))
    BY <1>1, CopyInfoWritten, WrittenFields
  <2> QED BY <1>1, <2>1 DEF CopyDataMarshal, CopyDataSize
<1>2. CASE c = "Chunk" /\ Bytes(v)
  <2>1. Written(PutDelimited(18, v), SizeDelimited(Len(v)))
    BY <1>2, WrittenBytes, WrittenFields
  <2> QED BY <1>2, <2>1 DEF CopyDataMarshal, CopyDataSize
<1>3. CASE c = "Checksum" /\ Bytes(v)
  <2>1. Written(PutDelimited(26, v), SizeDelimited(Len(v)))
    BY <1>3, WrittenBytes, WrittenFields
  <2> QED BY <1>3, <2>1 DEF CopyDataMarshal, CopyDataSize
<1> QED BY <1>1, <1>2, <1>3 DEF IsCopyData

(* The fields of the streams' messages, one after the other.               *)
PastStreamFieldBytes(m) ==
  IF m.Data = <<>> THEN m.unknown
  ELSE PastDataMarshal(m.Data[1], m.Data[2]) \o m.unknown

CopyStreamFieldBytes(m) ==
  IF m.Data = <<>> THEN m.unknown
  ELSE CopyDataMarshal(m.Data[1], m.Data[2]) \o m.unknown

(* PastStream: the buffer of its oneof is filled exactly, too.             *)
LEMMA PastStreamWritten ==
  ASSUME NEW m, IsPastStream(m)
  PROVE  /\ PastStreamMarshal(m) = PastStreamFieldBytes(m)
         /\ Written(PastStreamFieldBytes(m), PastStreamSize(m))
<1>1. Written(m.unknown, Len(m.unknown)) /\ Len(m.unknown) \in Nat
  BY WrittenBytes DEF IsPastStream, Written
<1>2. CASE m.Data = <<>>
  <2>1. PastStreamSize(m) = Len(m.unknown)
    BY <1>1, <1>2 DEF PastStreamSize
  <2> QED BY <1>1, <1>2, <2>1 DEF PastStreamMarshal, PastStreamFieldBytes
<1>3. CASE m.Data # <<>>
  <2>1. PICK d, n : d = PastDataMarshal(m.Data[1], m.Data[2]) /\
                    n = PastDataSize(m.Data[1], m.Data[2])
    OBVIOUS
  <2>2. Written(d, n)
    BY <1>3, <2>1, PastDataWritten DEF IsPastStream
  <2>3. FillFromEnd(n, d) = d
    BY <2>2, FilledExactly
  <2>4. Written(d \o m.unknown, n + Len(m.unknown))
    BY <1>1, <2>2, WrittenJoined
  <2>5. n \in Nat
    BY <2>2 DEF Written
  <2>6. PastStreamSize(m) = n + Len(m.unknown)
    BY <1>1, <1>3, <2>1, <2>5 DEF PastStreamSize
  <2> QED BY <1>3, <2>1, <2>3, <2>4, <2>6 DEF PastStreamMarshal, PastStreamFieldBytes
<1> QED BY <1>2, <1>3

(* CopyStream, likewise.                                                   *)
LEMMA CopyStreamWritten ==
  ASSUME NEW m, IsCopyStream(m)
  PROVE  /\ CopyStreamMarshal(m) = CopyStreamFieldBytes(m)
         /\ Written(CopyStreamFieldBytes(m), CopyStreamSize(m))
<1>1. Written(m.unknown, Len(m.unknown)) /\ Len(m.unknown) \in Nat
  BY WrittenBytes DEF IsCopyStream, Written
<1>2. CASE m.Data = <<>>
  <2>1. CopyStreamSize(m) = Len(m.unknown)
    BY <1>1, <1>2 DEF CopyStreamSize
  <2> QED BY <1>1, <1>2, <2>1 DEF CopyStreamMarshal, CopyStreamFieldBytes
<1>3. CASE m.Data # <<>>
  <2>1. PICK d, n : d = CopyDataMarshal(m.Data[1], m.Data[2]) /\
                    n = CopyDataSize(m.Data[1], m.Data[2])
    OBVIOUS
  <2>2. Written(d, n)
    BY <1>3, <2>1, CopyDataWritten DEF IsCopyStream
  <2>3. FillFromEnd(n, d) = d
    BY <2>2, FilledExactly
  <2>4. Written(d \o m.unknown, n + Len(m.unknown))
    BY <1>1, <2>2, WrittenJoined
  <2>5. n \in Nat
    BY <2>2 DEF Written
  <2>6. CopyStreamSize(m) = n + Len(m.unknown)
    BY <1>1, <1>3, <2>1, <2>5 DEF CopyStreamSize
  <2> QED BY <1>3, <2>1, <2>3, <2>4, <2>6 DEF CopyStreamMarshal, CopyStreamFieldBytes
<1> QED BY <1>2, <1>3

-----------------------------------------------------------------------------
(* Theorems                                                                *)

(* A message m of type k, as the Go types have it.                         *)
Message(k, m) ==
  \/ k = "ServerStatus" /\ IsServerStatus(m)
  \/ k = "PasteOption" /\ IsPasteOption(m)
  \/ k = "PastStream" /\ IsPastStream(m)
  \/ k = "CopyStream" /\ IsCopyStream(m)

(* Its fields, one after the other, whatever the size of any buffer.       *)
FieldBytes(k, m) ==
  CASE k = "ServerStatus" -> ServerStatusMarshal(m)
    [] k = "PasteOption"  -> PasteOptionMarshal(m)
    [] k = "PastStream"   -> PastStreamFieldBytes(m)
    [] k = "CopyStream"   -> CopyStreamFieldBytes(m)

(* What is written into the buffer, and that its size was foreseen.        *)
LEMMA MessageWritten ==
  ASSUME NEW k, NEW m, Message(k, m)
  PROVE  /\ MarshalToSizedBufferVT(k, m) = FieldBytes(k, m)
         /\ Written(FieldBytes(k, m), SizeVT(k, m))
<1>1. CASE k = "ServerStatus" /\ IsServerStatus(m)
  BY <1>1, ServerStatusWritten DEF MarshalToSizedBufferVT, FieldBytes, SizeVT
<1>2. CASE k = "PasteOption" /\ IsPasteOption(m)
  BY <1>2, PasteOptionWritten DEF MarshalToSizedBufferVT, FieldBytes, SizeVT
<1>3. CASE k = "PastStream" /\ IsPastStream(m)
  BY <1>3, PastStreamWritten DEF MarshalToSizedBufferVT, FieldBytes, SizeVT
<1>4. CASE k = "CopyStream" /\ IsCopyStream(m)
  BY <1>4, CopyStreamWritten DEF MarshalToSizedBufferVT, FieldBytes, SizeVT
<1> QED BY <1>1, <1>2, <1>3, <1>4 DEF Message

(* SizeVT counts exactly what MarshalToSizedBufferVT writes, for every message
   and up to the 64 bits of the code: MarshalVT, which fills a buffer of that
   size from its end, never indexes outside it and leaves no byte of it
   unwritten, the buffers of the oneof's members included.                 *)
THEOREM BuffersAreFilledExactly ==
  ASSUME NEW k, NEW m, Message(k, m)
  PROVE  /\ MarshalVT(k, m) = FieldBytes(k, m)
         /\ Len(MarshalVT(k, m)) = SizeVT(k, m)
<1>1. PICK s : s = FieldBytes(k, m)
  OBVIOUS
<1>2. MarshalToSizedBufferVT(k, m) = s /\ Written(s, SizeVT(k, m))
  BY <1>1, MessageWritten
<1>3. FillFromEnd(SizeVT(k, m), s) = s
  BY <1>2, FilledExactly
<1>4. Bytes(s) /\ Len(s) = SizeVT(k, m)
  BY <1>2 DEF Written
<1>5. SubSeq(s, 1, Len(s)) = s
  BY <1>4, WholeBuffer
<1>6. MarshalVT(k, m) = s
  BY <1>2, <1>3, <1>5 DEF MarshalVT
<1> QED BY <1>1, <1>4, <1>6

(* The sizes of a header's fields, two flags and three byte strings.       *)
LEMMA HeaderSum ==
  ASSUME NEW a \in 0..2, NEW b \in 0..2, NEW d \in Nat, NEW e \in Nat,
         NEW f \in Nat, d <= 43, e <= 43, f <= 19
  PROVE  \E l \in Nat : l = a + b + d + e + f + 0 /\ l <= 109
OBVIOUS

(* What the member of the oneof takes, before its own tag and length.      *)
LEMMA PastDataBound ==
  ASSUME NEW r \in Nat, NEW c, NEW v, IsPastData(c, v),
         c = "Chunk" => Len(v) <= r,
         c = "Checksum" => Len(v) <= 32,
         c = "Info" => /\ Len(v.MasterKeyNonce) <= 32 /\ Len(v.KeyNonce) <= 32
                       /\ Len(v.Iv) <= 8 /\ v.unknown = <<>>,
         c = "Error" => Len(v.Message) <= 900 /\ v.unknown = <<>>
  PROVE  \E l \in Nat : PastDataSize(c, v) = SizeDelimited(l) /\ l <= r + 980
<1>1. CASE c = "Info" /\ IsPastInfo(v)
  <2>1. PICK a \in 0..2, b \in 0..2 :
          a = SizeBool(v.Checksum) /\ b = SizeBool(v.Compressed)
    BY SizesAreNumbers
  <2>2. PICK x \in Nat, y \in Nat, z \in Nat :
          /\ x = Len(v.MasterKeyNonce) /\ y = Len(v.KeyNonce) /\ z = Len(v.Iv)
    BY <1>1, WrittenBytes DEF IsPastInfo, Written
  <2>3. PICK d \in Nat, e \in Nat, f \in Nat :
          /\ d = SizeBytes(v.MasterKeyNonce) /\ d <= x + 11
          /\ e = SizeBytes(v.KeyNonce) /\ e <= y + 11
          /\ f = SizeBytes(v.Iv) /\ f <= z + 11
    BY <1>1, <2>2, SizesAreNumbers DEF IsPastInfo
  <2>4. Len(v.unknown) = 0
    BY <1>1, ShortBytes
  <2>5. PastInfoSize(v) = a + b + d + e + f + 0
    BY <2>1, <2>3, <2>4 DEF PastInfoSize
  <2>6. x <= 32 /\ y <= 32 /\ z <= 8
    BY <1>1, <2>2
  <2>7. d <= 43 /\ e <= 43 /\ f <= 19
    BY <2>3, <2>6
  <2>8. PICK l \in Nat : l = a + b + d + e + f + 0 /\ l <= 109
    BY <2>7, HeaderSum
  <2>9. l <= r + 980
    BY <2>8
  <2>10. PastDataSize(c, v) = SizeDelimited(l)
    BY <1>1, <2>5, <2>8 DEF PastDataSize
  <2> QED BY <2>9, <2>10
<1>2. CASE c = "Error" /\ IsPastError(v)
  <2>1. PICK a \in 0..11 : a = SizeInt(v.Type)
    BY SizesAreNumbers
  <2>2. PICK x \in Nat : x = Len(v.Message)
    BY <1>2, WrittenBytes DEF IsPastError, Written
  <2>3. PICK d \in Nat : d = SizeBytes(v.Message) /\ d <= x + 11
    BY <1>2, <2>2, SizesAreNumbers DEF IsPastError
  <2>4. Len(v.unknown) = 0
    BY <1>2, ShortBytes
  <2>5. PastErrorSize(v) = a + d + 0
    BY <2>1, <2>3, <2>4 DEF PastErrorSize
  <2>6. x <= 900
    BY <1>2, <2>2
  <2>7. PastErrorSize(v) \in Nat /\ PastErrorSize(v) <= r + 980
    BY <2>1, <2>3, <2>5, <2>6
  <2>8. PastDataSize(c, v) = SizeDelimited(PastErrorSize(v))
    BY <1>2 DEF PastDataSize
  <2> QED BY <2>7, <2>8
<1>3. CASE c \in {"Chunk", "Checksum"} /\ Bytes(v)
  <2>1. PICK x \in Nat : x = Len(v)
    BY <1>3, WrittenBytes DEF Written
  <2>2. x <= r + 980
    BY <1>3, <2>1
  <2>3. PastDataSize(c, v) = SizeDelimited(x)
    BY <1>3, <2>1 DEF PastDataSize
  <2> QED BY <2>2, <2>3
<1> QED BY <1>1, <1>2, <1>3 DEF IsPastData

(* The limit that Client.Paste sets on received messages is enough at every
   transfer rate: the thousand bytes it adds to the rate cover the tag and
   the length of a full chunk, and at the smallest rates a whole header, the
   checksum or an error, which do not depend on the rate.                  *)
THEOREM EveryPasteMessageFits ==
  ASSUME NEW r \in Nat, NEW m, IsPastStream(m), PastedAt(r, m)
  PROVE  Len(MarshalVT("PastStream", m)) <= MaxRecv(r)
<1>1. Message("PastStream", m)
  BY DEF Message
<1>2. Len(MarshalVT("PastStream", m)) = PastStreamSize(m)
  BY <1>1, BuffersAreFilledExactly DEF SizeVT
<1>3. Len(m.unknown) = 0
  BY ShortBytes DEF PastedAt
<1>4. CASE m.Data = <<>>
  <2>1. PastStreamSize(m) = 0
    BY <1>3, <1>4 DEF PastStreamSize
  <2> QED BY <1>2, <2>1 DEF MaxRecv
<1>5. CASE m.Data # <<>>
  <2>1. PICK c, v : c = m.Data[1] /\ v = m.Data[2]
    OBVIOUS
  <2>2. IsPastData(c, v)
    BY <1>5, <2>1 DEF IsPastStream
  <2>3. /\ c = "Chunk" => Len(v) <= r
        /\ c = "Checksum" => Len(v) <= 32
        /\ c = "Info" => /\ Len(v.MasterKeyNonce) <= 32 /\ Len(v.KeyNonce) <= 32
                         /\ Len(v.Iv) <= 8 /\ v.unknown = <<>>
        /\ c = "Error" => Len(v.Message) <= 900 /\ v.unknown = <<>>
    BY <1>5, <2>1 DEF PastedAt
  <2>4. PICK l \in Nat : PastDataSize(c, v) = SizeDelimited(l) /\ l <= r + 980
    BY <2>2, <2>3, PastDataBound
  <2>5. PICK n \in Nat : n = SizeDelimited(l) /\ n <= l + 11
    BY SizesAreNumbers
  <2>6. PastStreamSize(m) = n
    BY <1>3, <1>5, <2>1, <2>4, <2>5 DEF PastStreamSize
  <2> QED BY <1>2, <2>4, <2>5, <2>6 DEF MaxRecv
<1> QED BY <1>4, <1>5
=============================================================================
