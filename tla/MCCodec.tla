------------------------------ MODULE MCCodec ------------------------------
EXTENDS Codec

Zeros(n) == [i \in 1..n |-> 0]

(* Numbers and lengths at which a byte more is needed, the extreme ones and
   those of the program: nonces of 32 bytes, an IV of 8, digests of 32.    *)
Ints   == {0, 1, 128, 2^(WordBits - 1) - 1, -1}
Nonces == {<<>>, Zeros(32)}
Ivs    == {<<>>, Zeros(8)}
Paths  == {<<>>, <<47>>, Zeros(128)}
Texts  == {<<>>, Zeros(31), Zeros(53)}
Stream(c, v) == [Data |-> <<c, v>>, unknown |-> <<>>]
Sequels(r) == {Stream("Chunk", Zeros(n)) : n \in {0, 1, r}} \union
              {Stream("Checksum", Zeros(32)), [Data |-> <<>>, unknown |-> <<>>]}

PastInfos  == [Checksum : BOOLEAN, Compressed : BOOLEAN,
               MasterKeyNonce : Nonces, KeyNonce : Nonces, Iv : Ivs,
               unknown : {<<>>}]
PastErrors == [Type : {0, 1}, Message : Texts, unknown : {<<>>}]
CopyInfos  == [Ttl : Ints, Compressed : BOOLEAN, MasterKeyNonce : Nonces,
               KeyNonce : Nonces, Iv : Ivs, unknown : {<<>>}]
Statuses   == [DbSize : {0, 128, -1}, DbPath : Paths,
               GrpcMaxReceiveBytes : {0, 1}, GcInterval : {0, 128}, DevMode : BOOLEAN, GrpcMTls : BOOLEAN,
               unknown : {<<>>}]

MCSent(r) ==
  {<<"PastStream", Stream("Info", v)>> : v \in PastInfos} \union
  {<<"PastStream", Stream("Error", v)>> : v \in PastErrors} \union
  {<<"CopyStream", Stream("Info", v)>> : v \in CopyInfos} \union
  ({"PastStream", "CopyStream"} \X Sequels(r)) \union
  {<<"PasteOption", [TransferRate |-> v, unknown |-> <<>>]>> :
     v \in Ints \union {r}} \union
  {<<"ServerStatus", v>> : v \in Statuses}

(* A number, eight bytes, some bytes, a group with a number in it, four
   bytes, and a field number that takes two bytes.                         *)
MCAdded == {<<120, 5>>, <<73>> \o Zeros(8), <<82, 2, 8, 8>>, <<91, 8, 1, 92>>,
            <<93>> \o Zeros(4), <<130, 1, 1, 9>>}

(* Every string of at most five bytes among: 0, 1, 2, the tags 8, 10 and 18
   of fields 1 and 2, both ends of a group that nobody knows (59, 60), and
   128 and 255, which go on.                                               *)
Alphabet == {0, 1, 2, 8, 10, 18, 59, 60, 128, 255}
MCForeign == BoundedSeq(Alphabet, 5)
=============================================================================
