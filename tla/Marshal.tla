------------------------------ MODULE Marshal ------------------------------
(***************************************************************************)
(* The writing half of proto/cp_vtproto.pb.go: the size of the messages of *)
(* the WebClipboard service and the bytes they become, with the integers   *)
(* of a machine of WordBits bits (64 in the code).                         *)
(***************************************************************************)
EXTENDS Integers, Sequences, FiniteSets

CONSTANT WordBits   (* The width of int and uint64.                        *)

ASSUME WordAssumption == WordBits \in 1..64

-----------------------------------------------------------------------------
(* Integers                                                                *)

Unsigned(v) == v % 2^WordBits

(* bits.Len64(x|1), the number of bits up to the highest one that is set, in
   groups of seven.                                                        *)
Len64(v) == 1 + Cardinality({n \in 1..(WordBits - 1) : v >= 2^n})
Sov(v) == (Len64(v) + 6) \div 7

(* Seven bits to a byte, the lowest first, and 0x80 on all but the last.   *)
EncodeVarint(v) ==
  [j \in 1..Sov(v) |-> LET r == v \div 2^(7 * (j - 1))
                       IN  (r % 128) + (IF r >= 128 THEN 128 ELSE 0)]

-----------------------------------------------------------------------------
(* Writing: fields with their zero value are left out, but for the members
   of a oneof.                                                             *)

PutDelimited(tag, s) == <<tag>> \o EncodeVarint(Len(s)) \o s
PutInt(tag, v)   == IF v = 0 THEN <<>>
                    ELSE <<tag>> \o EncodeVarint(Unsigned(v))
PutBool(tag, b)  == IF b THEN <<tag, 1>> ELSE <<>>
PutBytes(tag, s) == IF s = <<>> THEN <<>> ELSE PutDelimited(tag, s)

(* Mutant of SizeDelimited: the byte count of a length that takes two bytes. *)
SizeDelimitedShort(l) == 2 + l

(* SizeVT counts what MarshalToSizedBufferVT writes.                       *)
SizeDelimited(l) == 1 + l + Sov(l)
SizeInt(v)   == IF v = 0 THEN 0 ELSE 1 + Sov(Unsigned(v))
SizeBool(b)  == IF b THEN 2 ELSE 0
SizeBytes(s) == IF s = <<>> THEN 0 ELSE SizeDelimited(Len(s))

(* A buffer of the computed size is filled from its end: what does not fit
   is an index out of range (bytes of -1), and what is too short leaves
   zeros in front.                                                         *)
FillFromEnd(size, s) ==
  IF Len(s) > size THEN [n \in 1..Len(s) |-> -1]
  ELSE [n \in 1..(size - Len(s)) |-> 0] \o s

ServerStatusMarshal(m) ==
  PutInt(8, m.DbSize) \o PutBytes(18, m.DbPath) \o
  PutInt(24, m.GrpcMaxReceiveBytes) \o PutInt(32, m.GcInterval) \o
  PutBool(40, m.DevMode) \o PutBool(48, m.GrpcMTls) \o m.unknown

ServerStatusSize(m) ==
  SizeInt(m.DbSize) + SizeBytes(m.DbPath) + SizeInt(m.GrpcMaxReceiveBytes) +
  SizeInt(m.GcInterval) + SizeBool(m.DevMode) + SizeBool(m.GrpcMTls) +
  Len(m.unknown)

PasteOptionMarshal(m) == PutInt(8, m.TransferRate) \o m.unknown
PasteOptionSize(m) == SizeInt(m.TransferRate) + Len(m.unknown)

(* Mutant of PastInfoMarshal: the unknown fields of the header are lost.   *)
PastInfoMarshalKnown(m) ==
  PutBool(8, m.Checksum) \o PutBool(16, m.Compressed) \o
  PutBytes(26, m.MasterKeyNonce) \o PutBytes(34, m.KeyNonce) \o
  PutBytes(42, m.Iv)

PastInfoMarshal(m) ==
  PutBool(8, m.Checksum) \o PutBool(16, m.Compressed) \o
  PutBytes(26, m.MasterKeyNonce) \o PutBytes(34, m.KeyNonce) \o
  PutBytes(42, m.Iv) \o m.unknown

PastInfoSize(m) ==
  SizeBool(m.Checksum) + SizeBool(m.Compressed) + SizeBytes(m.MasterKeyNonce) +
  SizeBytes(m.KeyNonce) + SizeBytes(m.Iv) + Len(m.unknown)

PastErrorMarshal(m) ==
  PutInt(8, m.Type) \o PutBytes(18, m.Message) \o m.unknown
PastErrorSize(m) == SizeInt(m.Type) + SizeBytes(m.Message) + Len(m.unknown)

CopyInfoMarshal(m) ==
  PutInt(8, m.Ttl) \o PutBool(16, m.Compressed) \o
  PutBytes(26, m.MasterKeyNonce) \o PutBytes(34, m.KeyNonce) \o
  PutBytes(42, m.Iv) \o m.unknown

CopyInfoSize(m) ==
  SizeInt(m.Ttl) + SizeBool(m.Compressed) + SizeBytes(m.MasterKeyNonce) +
  SizeBytes(m.KeyNonce) + SizeBytes(m.Iv) + Len(m.unknown)

(* The oneof m.Data is <<>> when unset, else its case and value; each case
   has a wrapper type with methods of its own.                             *)
PastDataSize(c, v) ==
  SizeDelimited(CASE c = "Info" -> PastInfoSize(v)
                  [] c = "Error" -> PastErrorSize(v)
                  [] c \in {"Chunk", "Checksum"} -> Len(v))

PastDataMarshal(c, v) ==
  CASE c = "Info"     -> PutDelimited(10, PastInfoMarshal(v))
    [] c = "Chunk"    -> PutDelimited(18, v)
    [] c = "Checksum" -> PutDelimited(26, v)
    [] c = "Error"    -> PutDelimited(34, PastErrorMarshal(v))

PastStreamSize(m) ==
  Len(m.unknown) +
  IF m.Data = <<>> THEN 0 ELSE PastDataSize(m.Data[1], m.Data[2])

PastStreamMarshal(m) ==
  IF m.Data = <<>> THEN m.unknown
  ELSE FillFromEnd(PastDataSize(m.Data[1], m.Data[2]),
                   PastDataMarshal(m.Data[1], m.Data[2])) \o m.unknown

CopyDataSize(c, v) ==
  SizeDelimited(CASE c = "Info" -> CopyInfoSize(v)
                  [] c \in {"Chunk", "Checksum"} -> Len(v))

CopyDataMarshal(c, v) ==
  CASE c = "Info"     -> PutDelimited(10, CopyInfoMarshal(v))
    [] c = "Chunk"    -> PutDelimited(18, v)
    [] c = "Checksum" -> PutDelimited(26, v)

CopyStreamSize(m) ==
  Len(m.unknown) +
  IF m.Data = <<>> THEN 0 ELSE CopyDataSize(m.Data[1], m.Data[2])

CopyStreamMarshal(m) ==
  IF m.Data = <<>> THEN m.unknown
  ELSE FillFromEnd(CopyDataSize(m.Data[1], m.Data[2]),
                   CopyDataMarshal(m.Data[1], m.Data[2])) \o m.unknown

(* SizeVT and MarshalToSizedBufferVT, by the type of the message.          *)
SizeVT(k, m) ==
  CASE k = "ServerStatus" -> ServerStatusSize(m)
    [] k = "PasteOption"  -> PasteOptionSize(m)
    [] k = "PastStream"   -> PastStreamSize(m)
    [] k = "CopyStream"   -> CopyStreamSize(m)

MarshalToSizedBufferVT(k, m) ==
  CASE k = "ServerStatus" -> ServerStatusMarshal(m)
    [] k = "PasteOption"  -> PasteOptionMarshal(m)
    [] k = "PastStream"   -> PastStreamMarshal(m)
    [] k = "CopyStream"   -> CopyStreamMarshal(m)

(* vtProtoCodec.Marshal and MarshalVT: the bytes written, counted from the
   front of the buffer.                                                    *)
MarshalVT(k, m) ==
  LET s == MarshalToSizedBufferVT(k, m)
  IN  SubSeq(FillFromEnd(SizeVT(k, m), s), 1, Len(s))

-----------------------------------------------------------------------------
(* What the server sends in a paste at the rate r: chunks of at most r bytes,
   a SHA-256 digest, a header with the nonces of 32 bytes and the IV of 8
   that Client.Copy makes, or an error with a text of at most 900 bytes (the
   texts are short constants).                                             *)
PastedAt(r, m) ==
  /\ m.unknown = <<>>
  /\ m.Data # <<>> =>
       LET v == m.Data[2]
       IN  /\ m.Data[1] = "Chunk" => Len(v) <= r
           /\ m.Data[1] = "Checksum" => Len(v) <= 32
           /\ m.Data[1] = "Info" =>
                /\ Len(v.MasterKeyNonce) <= 32 /\ Len(v.KeyNonce) <= 32
                /\ Len(v.Iv) <= 8 /\ v.unknown = <<>>
           /\ m.Data[1] = "Error" => Len(v.Message) <= 900 /\ v.unknown = <<>>

(* Mutant of MaxRecv: the framing is forgotten.                            *)
MaxRecvBare(r) == r

(* The limit that Client.Paste sets on received messages.                  *)
MaxRecv(r) == r + 1000
=============================================================================
