------------------------------- MODULE Codec -------------------------------
(***************************************************************************)
(* proto/cp_vtproto.pb.go behind command/grpc_codec.go: how the messages   *)
(* of the WebClipboard service become bytes and messages again, byte by    *)
(* byte, with the integers of a machine of WordBits bits (64 in the code)  *)
(* and field numbers of FieldBits bits (int32).                            *)
(*                                                                         *)
(* google.protobuf.Empty goes through proto.Marshal and has no bytes.      *)
(* Clipboard and LockedTransaction have such code too, which nothing calls *)
(* (the storage uses the reflection of google.golang.org/protobuf).        *)
(***************************************************************************)
EXTENDS Marshal, FiniteSetsExt, SequencesExt

CONSTANTS
  FieldBits,             (* The width of int32.                            *)
  Sent(_),               (* <<kind, message>>, by the rate of the call.    *)
  Rates,                 (* The transfer rates clients ask for.            *)
  Added,                 (* Fields that only a newer peer knows.           *)
  Foreign,               (* Byte strings by a peer of another make.        *)
  Longest                (* No longer message is cut.                      *)

ASSUME CodecAssumption == WordBits \in 8..64 /\ FieldBits \in 4..WordBits

VARIABLES
  rate,    (* The transfer rate of the call.                               *)
  kind,    (* The type of the message.                                     *)
  msg,     (* The message that was sent, or None.                          *)
  added,   (* The fields a newer peer has added to it.                     *)
  state,   (* idle, or what the bytes are: whole, cut, foreign, again.     *)
  wire,    (* The bytes.                                                   *)
  calls,   (* The UnmarshalVT calls in progress, the innermost last.       *)
  got      (* What the receiver makes of them, or Failed.                  *)

vars == <<rate, kind, msg, added, state, wire, calls, got>>

None   == [none |-> TRUE]
Failed == [failed |-> TRUE]

-----------------------------------------------------------------------------
(* Integers                                                                *)

Signed(v, bits) == LET u == v % 2^bits
                   IN  IF u < 2^(bits - 1) THEN u ELSE u - 2^bits

(* The groups of seven bits after offset i of d, up to the one that ends.  *)
Accumulate(d, i, last) ==
  LET acc[n \in 0..last] ==
        IF n = 0 THEN 0
        ELSE acc[n - 1] + (d[i + n] % 128) * 2^(7 * (n - 1))
  IN  acc[last]

(* The loop over b at offset i of d: it fails at the end of the bytes, or
   when the shift has reached the width of the integer.                    *)
MaxGroups == (WordBits + 6) \div 7
Varint(d, i) ==
  LET ends == {n \in 1..MaxGroups : i + n <= Len(d) /\ d[i + n] < 128}
  IN  IF ends = {} THEN [ok |-> FALSE]
      ELSE [ok |-> TRUE, i |-> i + Min(ends),
            v |-> Unsigned(Accumulate(d, i, Min(ends)))]

-----------------------------------------------------------------------------
(* Reading                                                                 *)

(* The switch of each UnmarshalVT: the name and type of field 1, 2, ...    *)
ServerStatusFields ==
  << <<"DbSize", "int">>, <<"DbPath", "bytes">>,
     <<"GrpcMaxReceiveBytes", "int">>, <<"GcInterval", "int">>,
     <<"DevMode", "bool">>, <<"GrpcMTls", "bool">> >>
PasteOptionFields == << <<"TransferRate", "int">> >>
PastInfoFields ==
  << <<"Checksum", "bool">>, <<"Compressed", "bool">>,
     <<"MasterKeyNonce", "bytes">>, <<"KeyNonce", "bytes">>, <<"Iv", "bytes">> >>
PastErrorFields == << <<"Type", "enum">>, <<"Message", "bytes">> >>
PastStreamFields ==
  << <<"Info", "PastInfo">>, <<"Chunk", "oneof">>, <<"Checksum", "oneof">>,
     <<"Error", "PastError">> >>
CopyInfoFields ==
  << <<"Ttl", "int">>, <<"Compressed", "bool">>,
     <<"MasterKeyNonce", "bytes">>, <<"KeyNonce", "bytes">>, <<"Iv", "bytes">> >>
CopyStreamFields ==
  << <<"Info", "CopyInfo">>, <<"Chunk", "oneof">>, <<"Checksum", "oneof">> >>

Fields(k) ==
  CASE k = "ServerStatus" -> ServerStatusFields
    [] k = "PasteOption"  -> PasteOptionFields
    [] k = "PastInfo"     -> PastInfoFields
    [] k = "PastError"    -> PastErrorFields
    [] k = "PastStream"   -> PastStreamFields
    [] k = "CopyInfo"     -> CopyInfoFields
    [] k = "CopyStream"   -> CopyStreamFields

Streams == {"PastStream", "CopyStream"}

Names(k) == {Fields(k)[n][1] : n \in DOMAIN Fields(k)}
TypeOf(k, x) == Fields(k)[CHOOSE n \in DOMAIN Fields(k) : Fields(k)[n][1] = x][2]

(* new(T): every field has its zero value.                                 *)
ZeroOf(type) ==
  CASE type = "bytes" -> <<>>
    [] type = "bool" -> FALSE
    [] type \in {"int", "enum"} -> 0

Zero(k) ==
  IF k \in Streams THEN [Data |-> <<>>, unknown |-> <<>>]
  ELSE [x \in {"unknown"} \union Names(k) |->
          IF x = "unknown" THEN <<>> ELSE ZeroOf(TypeOf(k, x))]

Stop == [ok |-> FALSE]

(* Mutant of Delimited: what is missing is not noticed.                    *)
DelimitedUnchecked(d, i) ==
  LET n == Varint(d, i)
      post == Min({Signed(n.i + Signed(n.v, WordBits), WordBits), Len(d)})
  IN  IF ~n.ok \/ post < n.i THEN Stop
      ELSE [ok |-> TRUE, i |-> post, s |-> SubSeq(d, n.i + 1, post)]

(* A length and that many bytes: neither the length nor the index after
   them may be negative, nor the index be beyond the end.                  *)
Delimited(d, i) ==
  LET n == Varint(d, i)
      l == Signed(n.v, WordBits)
      post == Signed(n.i + l, WordBits)
  IN  IF ~n.ok \/ l < 0 \/ post < 0 \/ post > Len(d) THEN Stop
      ELSE [ok |-> TRUE, i |-> post, s |-> SubSeq(d, n.i + 1, post)]

(* One turn of the loop in skip: past a tag and the value after it, if it has
   one; what is returned may be beyond the end. A group is open from its start
   to its end.                                                             *)
SkipTurn(d, i, depth) ==
  LET tag  == Varint(d, i)
      type == tag.v % 8
      n    == Varint(d, tag.i)
      l    == Signed(n.v, WordBits)
      Past(to, deep) == [ok |-> TRUE, i |-> to, depth |-> deep]
  IN  CASE ~tag.ok -> Stop
        [] tag.ok /\ type = 0 /\ n.ok -> Past(n.i, depth)
        [] tag.ok /\ type = 1 -> Past(tag.i + 8, depth)
        [] tag.ok /\ type = 2 /\ n.ok /\ l >= 0 /\ Signed(n.i + l, WordBits) >= 0 ->
             Past(n.i + l, depth)
        [] tag.ok /\ type = 3 -> Past(tag.i, depth + 1)
        [] tag.ok /\ type = 4 /\ depth > 0 -> Past(tag.i, depth - 1)
        [] tag.ok /\ type = 5 -> Past(tag.i + 4, depth)
        [] OTHER -> Stop

(* skip: past a field of any type, groups within groups included.          *)
Skip(d, i) ==
  LET rest[p \in Nat \X Nat] ==
        LET t == SkipTurn(d, p[1], p[2])
        IN  IF t.ok /\ t.depth > 0 THEN rest[<<t.i, t.depth>>] ELSE t
  IN  rest[<<i, 0>>]

(* What a turn of UnmarshalVT's loop does: it goes on at i with the message m,
   after the call sub if there is one.                                     *)
Took(i, m) == [ok |-> TRUE, i |-> i, m |-> m, sub |-> <<>>]

(* UnmarshalVT(d) of the message m of type k, the value of the oneof member
   into.                                                                   *)
Call(k, d, m, into) == [k |-> k, d |-> d, i |-> 0, m |-> m, into |-> into]

(* The case of a number or a truth value, f being <<name, type>>.          *)
TakeVarint(f, type, d, i, m) ==
  LET n == Varint(d, i)
  IN  IF type # 0 \/ ~n.ok THEN Stop
      ELSE Took(n.i, [m EXCEPT ![f[1]] =
                        CASE f[2] = "int"  -> Signed(n.v, WordBits)
                          [] f[2] = "enum" -> Signed(n.v, FieldBits)
                          [] f[2] = "bool" -> n.v # 0])

(* The case of bytes, which replace those of an earlier field.             *)
TakeBytes(f, type, d, i, m) ==
  LET s == Delimited(d, i)
  IN  IF type # 2 \/ ~s.ok THEN Stop
      ELSE Took(s.i, IF f[2] = "bytes" THEN [m EXCEPT ![f[1]] = s.s]
                     ELSE [m EXCEPT !.Data = <<f[1], s.s>>])

(* The case of a message in a oneof, which is merged into one of its kind. *)
TakeMessage(f, type, d, i, m) ==
  LET s == Delimited(d, i)
      v == IF m.Data # <<>> /\ Head(m.Data) = f[1] THEN m.Data[2]
           ELSE Zero(f[2])
  IN  IF type # 2 \/ ~s.ok THEN Stop
      ELSE [Took(s.i, m) EXCEPT !.sub = <<Call(f[2], s.s, v, f[1])>>]

(* Mutant of TakeUnknown: the unknown field is passed over.                *)
TakeUnknownDropped(d, i, m) ==
  LET skip == Skip(d, i)
  IN  IF ~skip.ok \/ skip.i > Len(d) THEN Stop ELSE Took(skip.i, m)

(* The default case keeps the field as it is, its tag included.            *)
TakeUnknown(d, i, m) ==
  LET skip == Skip(d, i)
  IN  IF ~skip.ok \/ skip.i > Len(d) THEN Stop
      ELSE Took(skip.i, [m EXCEPT !.unknown = @ \o SubSeq(d, i + 1, skip.i)])

(* One turn of the loop: the tag at i, and the field it announces.         *)
Turn(k, d, i, m) ==
  LET tag  == Varint(d, i)
      num  == Signed(tag.v \div 8, FieldBits)
      type == tag.v % 8
      f    == Fields(k)[num]
  IN  IF ~tag.ok \/ type = 4 \/ num <= 0 THEN Stop
      ELSE CASE num > Len(Fields(k)) -> TakeUnknown(d, i, m)
             [] num <= Len(Fields(k)) /\ f[2] \in {"int", "enum", "bool"} ->
                  TakeVarint(f, type, d, tag.i, m)
             [] num <= Len(Fields(k)) /\ f[2] \in {"bytes", "oneof"} ->
                  TakeBytes(f, type, d, tag.i, m)
             [] OTHER -> TakeMessage(f, type, d, tag.i, m)

-----------------------------------------------------------------------------
(* A message on its way                                                    *)

Kinds == {"ServerStatus", "PasteOption"} \union Streams

(* The values of a Go field of each type; the enumeration has two.         *)
ValuesOf(type) ==
  CASE type = "int"  -> -(2^(WordBits - 1))..(2^(WordBits - 1) - 1)
    [] type = "enum" -> {0, 1}
    [] type = "bool" -> BOOLEAN
    [] type \in {"bytes", "oneof"} -> Seq(0..255)

IsFlat(k, m) ==
  /\ m = [x \in DOMAIN Zero(k) |-> m[x]] /\ m.unknown = <<>>
  /\ \A n \in DOMAIN Fields(k) : m[Fields(k)[n][1]] \in ValuesOf(Fields(k)[n][2])

(* A message that a program of this version has made.                      *)
IsMessage(k, m) ==
  IF k \notin Streams THEN IsFlat(k, m)
  ELSE /\ m = [Data |-> m.Data, unknown |-> <<>>]
       /\ \/ m.Data = <<>>
          \/ \E n \in DOMAIN Fields(k) :
               LET f == Fields(k)[n]
                   v == m.Data[2]
               IN  /\ m.Data = <<f[1], v>>
                   /\ IF f[2] = "oneof" THEN v \in ValuesOf("oneof")
                      ELSE IsFlat(f[2], v)

(* Messages are such, and what a paste sends is in proportion to its rate; the
   size of a message is an int.                                            *)
ASSUME SentAssumption ==
  /\ Rates \subseteq Nat
  /\ \A r \in Rates : \A p \in Sent(r) :
       /\ p[1] \in Kinds /\ IsMessage(p[1], p[2])
       /\ SizeVT(p[1], p[2]) < 2^(WordBits - 1)
       /\ p[1] = "PastStream" => PastedAt(r, p[2])

ASSUME AddedAssumption == <<>> \notin Added

Send ==
  /\ state = "idle"
  /\ rate' \in Rates
  /\ \E p \in Sent(rate') :
       kind' = p[1] /\ msg' = p[2] /\ wire' = MarshalVT(p[1], p[2])
  /\ state' = "whole"
  /\ UNCHANGED <<added, calls, got>>

(* The sender is newer and has a field more, before or after the others.   *)
SendNewer ==
  /\ state = "whole" /\ added = <<>> /\ calls = <<>> /\ got = None
  /\ \E f \in Added : added' = f /\ wire' \in {f \o wire, wire \o f}
  /\ UNCHANGED <<rate, kind, msg, state, calls, got>>

(* Bytes are missing at the end.                                           *)
Cut ==
  /\ state = "whole" /\ Len(wire) <= Longest /\ calls = <<>> /\ got = None
  /\ \E n \in 0..(Len(wire) - 1) : wire' = SubSeq(wire, 1, n)
  /\ state' = "cut"
  /\ UNCHANGED <<rate, kind, msg, added, calls, got>>

(* A peer that does not encode as this one does.                           *)
SendForeign ==
  /\ state = "idle"
  /\ kind' \in Kinds
  /\ wire' \in Foreign
  /\ state' = "foreign"
  /\ UNCHANGED <<rate, msg, added, calls, got>>

(* What such a peer has sent, once understood, is sent on.                 *)
SendAgain ==
  /\ state = "foreign" /\ got \notin {None, Failed}
  /\ msg' = got /\ wire' = MarshalVT(kind, got)
  /\ state' = "again" /\ got' = None
  /\ UNCHANGED <<rate, kind, added, calls>>

(* vtProtoCodec.Unmarshal, into the new message gRPC provides.             *)
Receive ==
  /\ state # "idle" /\ calls = <<>> /\ got = None
  /\ calls' = <<Call(kind, wire, Zero(kind), "none")>>
  /\ UNCHANGED <<rate, kind, msg, added, state, wire, got>>

Top == calls[Len(calls)]
Reading == calls # <<>> /\ Top.i < Len(Top.d)
TopTurn == Turn(Top.k, Top.d, Top.i, Top.m)

(* A turn of the innermost loop, and the call that it makes.               *)
Read ==
  /\ Reading /\ TopTurn.ok
  /\ calls' = Append(Front(calls), [Top EXCEPT !.i = TopTurn.i, !.m = TopTurn.m])
                \o TopTurn.sub
  /\ UNCHANGED <<rate, kind, msg, added, state, wire, got>>

(* An error, which all callers return.                                     *)
Refuse ==
  /\ Reading /\ ~TopTurn.ok
  /\ calls' = <<>> /\ got' = Failed
  /\ UNCHANGED <<rate, kind, msg, added, state, wire>>

(* The end of the bytes: the value of the oneof is there, or the message.  *)
Return ==
  /\ calls # <<>> /\ Top.i = Len(Top.d)
  /\ IF Len(calls) = 1
       THEN calls' = <<>> /\ got' = Top.m
       ELSE /\ calls' = [Front(calls) EXCEPT
                           ![Len(calls) - 1].m.Data = <<Top.into, Top.m>>]
            /\ UNCHANGED got
  /\ UNCHANGED <<rate, kind, msg, added, state, wire>>

Init ==
  /\ rate = 0
  /\ kind = "none" /\ msg = None /\ added = <<>>
  /\ state = "idle" /\ wire = <<>> /\ calls = <<>> /\ got = None

Next ==
  \/ Send \/ SendNewer \/ Cut \/ SendForeign \/ SendAgain
  \/ Receive \/ Read \/ Refuse \/ Return

Spec == Init /\ [][Next]_vars

-----------------------------------------------------------------------------
(* Properties                                                              *)

(* A message arrives as it was sent, whatever its values (a length of 128, a
   negative rate, an empty chunk, no data at all): SizeVT, MarshalVT and
   UnmarshalVT agree with each other.                                      *)
RoundTrip ==
  state = "whole" /\ added = <<>> /\ got # None => got = msg

(* A field that only the sender knows changes nothing in what is received, and
   is kept.                                                                *)
NewerKept ==
  state = "whole" /\ added # <<>> /\ got # None =>
    got = [msg EXCEPT !.unknown = added]

(* A message that has lost its end is refused, or lacks the lost fields: no
   field of it ever has a value that was not sent, such as the beginning of
   a chunk.                                                                *)
CutNoticed ==
  state = "cut" /\ got \notin {None, Failed} =>
    \A x \in DOMAIN got \ {"unknown"} : got[x] \in {msg[x], Zero(kind)[x]}

(* Whatever bytes UnmarshalVT accepts, it has understood all of them: what it
   makes of them can be sent on and is understood in the same way, unknown
   fields included.                                                        *)
Canonical ==
  state = "again" /\ got # None => got = msg

(* No message of a paste is above the limit its client sets, at any transfer
   rate: neither a full chunk, nor a header with all its nonces, a checksum
   or an error when the rate is one byte.                                  *)
PasteFits ==
  kind = "PastStream" /\ state = "whole" /\ added = <<>> =>
    Len(wire) <= MaxRecv(rate)
=============================================================================
