--------------------------- MODULE TransferProofs ---------------------------
(***************************************************************************)
(* That a copy is published whole and a paste delivers it whole, whatever  *)
(* breaks in between: for any number of calls, any length of the inputs,   *)
(* every combination of options and every grouping into messages.          *)
(*                                                                         *)
(* The argument gives every piece of a stream a number.  What the layers   *)
(* of the client, the connection and the server hold is always a range of  *)
(* consecutive numbers, and the ranges adjoin each other.                  *)
(***************************************************************************)
EXTENDS Transfer, FiniteSetTheorems, SequenceTheorems, TLAPS

-----------------------------------------------------------------------------
(* Slices of a function on the numbers                                     *)

(* The values of f after the m-th up to the n-th.                          *)
Slice(f, m, n) == [i \in 1..(n - m) |-> f[m + i]]
Values(f) == {f[i] : i \in Nat}

(* A slice is a sequence of values of f.                                  *)
LEMMA SliceFacts ==
  ASSUME NEW f, NEW m \in Nat, NEW n \in Nat, m <= n
  PROVE  /\ Slice(f, m, n) \in Seq(Values(f))
         /\ Len(Slice(f, m, n)) = n - m
         /\ \A i \in 1..(n - m) : Slice(f, m, n)[i] = f[m + i]
<1>1. n - m \in Nat /\ \A i \in 1..(n - m) : m + i \in Nat
  OBVIOUS
<1>2. \A i \in 1..(n - m) : f[m + i] \in Values(f)
  BY <1>1 DEF Values
<1>3. Slice(f, m, n) \in [1..(n - m) -> Values(f)]
  BY <1>2 DEF Slice
<1>4. Slice(f, m, n) \in Seq(Values(f))
  BY <1>1, <1>3
<1>5. \A i \in 1..(n - m) : Slice(f, m, n)[i] = f[m + i]
  BY DEF Slice
<1> QED BY <1>1, <1>3, <1>4, <1>5

(* A sequence of the right values is that slice.                           *)
LEMMA IsSlice ==
  ASSUME NEW f, NEW m \in Nat, NEW n \in Nat, m <= n,
         NEW s \in Seq(Values(f)), Len(s) = n - m,
         \A i \in 1..(n - m) : s[i] = f[m + i]
  PROVE  s = Slice(f, m, n)
<1>1. s = [i \in 1..(n - m) |-> s[i]]
  OBVIOUS
<1> QED BY <1>1 DEF Slice

(* Adjoining slices make one slice.                                        *)
LEMMA SliceConcat ==
  ASSUME NEW f, NEW m \in Nat, NEW n \in Nat, NEW k \in Nat,
         m <= n, n <= k
  PROVE  Slice(f, m, n) \o Slice(f, n, k) = Slice(f, m, k)
<1> SUFFICES ASSUME NEW s, s = Slice(f, m, n),
                    NEW t, t = Slice(f, n, k)
             PROVE  s \o t = Slice(f, m, k)
  OBVIOUS
<1>1. /\ s \in Seq(Values(f)) /\ Len(s) = n - m
      /\ \A i \in 1..(n - m) : s[i] = f[m + i]
  BY SliceFacts
<1>2. /\ t \in Seq(Values(f)) /\ Len(t) = k - n
      /\ \A i \in 1..(k - n) : t[i] = f[n + i]
  BY SliceFacts
<1>3. /\ s \o t \in Seq(Values(f))
      /\ Len(s \o t) = Len(s) + Len(t)
      /\ \A i \in 1..(Len(s) + Len(t)) :
           (s \o t)[i] = IF i <= Len(s) THEN s[i] ELSE t[i - Len(s)]
  <2>1. PICK S : S = Values(f)
    OBVIOUS
  <2>2. s \in Seq(S) /\ t \in Seq(S)
    BY <1>1, <1>2, <2>1
  <2>3. /\ s \o t \in Seq(S)
        /\ Len(s \o t) = Len(s) + Len(t)
        /\ \A i \in 1..(Len(s) + Len(t)) :
             (s \o t)[i] = IF i <= Len(s) THEN s[i] ELSE t[i - Len(s)]
    BY <2>2, ConcatProperties
  <2> QED BY <2>1, <2>3
<1>4. s \o t \in Seq(Values(f)) /\ Len(s \o t) = k - m
  BY <1>1, <1>2, <1>3
<1>5. ASSUME NEW i \in 1..(k - m) PROVE (s \o t)[i] = f[m + i]
  <2>0. (s \o t)[i] = IF i <= n - m THEN s[i] ELSE t[i - (n - m)]
    BY <1>1, <1>2, <1>3
  <2>1. CASE i <= n - m
    BY <1>1, <2>0, <2>1
  <2>2. CASE i > n - m
    <3>1. i - (n - m) \in 1..(k - n) /\ n + (i - (n - m)) = m + i
      BY <2>2
    <3>2. (s \o t)[i] = t[i - (n - m)]
      BY <2>0, <2>2
    <3>3. t[i - (n - m)] = f[n + (i - (n - m))]
      BY <1>2, <3>1
    <3> QED BY <3>1, <3>2, <3>3
  <2>3. i <= n - m \/ i > n - m
    OBVIOUS
  <2> QED BY <2>1, <2>2, <2>3, Zenon
<1>6. m <= k
  OBVIOUS
<1> QED BY <1>4, <1>5, <1>6, IsSlice

(* Slices of no piece and of one.                                          *)
LEMMA SliceSmall ==
  ASSUME NEW f, NEW m \in Nat
  PROVE  /\ Slice(f, m, m) = << >>
         /\ Slice(f, m, m + 1) = <<f[m + 1]>>
<1>1. Slice(f, m, m) = << >>
  <2> SUFFICES ASSUME NEW s, s = Slice(f, m, m) PROVE s = << >>
    OBVIOUS
  <2>1. m <= m /\ m - m = 0
    OBVIOUS
  <2>2. s \in Seq(Values(f)) /\ Len(s) = 0
    BY <2>1, SliceFacts
  <2> QED BY <2>2, EmptySeq
<1>2. Slice(f, m, m + 1) = <<f[m + 1]>>
  <2> SUFFICES ASSUME NEW x, x = f[m + 1]
               PROVE  <<x>> = Slice(f, m, m + 1)
    OBVIOUS
  <2>1. x \in Values(f)
    BY DEF Values
  <2>2. <<x>> \in Seq(Values(f)) /\ Len(<<x>>) = 1 /\ <<x>>[1] = x
    BY <2>1
  <2>3. m + 1 \in Nat /\ m <= m + 1 /\ (m + 1) - m = 1
    OBVIOUS
  <2>4. \A i \in 1..((m + 1) - m) : <<x>>[i] = f[m + i]
    BY <2>2, <2>3
  <2> QED BY <2>2, <2>3, <2>4, IsSlice
<1> QED BY <1>1, <1>2

(* A slice without its last piece, and that piece.                         *)
LEMMA SliceLast ==
  ASSUME NEW f, NEW m \in Nat, NEW n \in Nat, m <= n
  PROVE  /\ Slice(f, m, n) = << >> <=> m = n
         /\ m < n => /\ Front(Slice(f, m, n)) = Slice(f, m, n - 1)
                     /\ <<Last(Slice(f, m, n))>> = Slice(f, n - 1, n)
<1> SUFFICES ASSUME NEW s, s = Slice(f, m, n)
             PROVE  /\ s = << >> <=> m = n
                    /\ m < n => /\ Front(s) = Slice(f, m, n - 1)
                                /\ <<Last(s)>> = Slice(f, n - 1, n)
  OBVIOUS
<1>1. /\ s \in Seq(Values(f)) /\ Len(s) = n - m
      /\ \A i \in 1..(n - m) : s[i] = f[m + i]
  BY SliceFacts
<1>2. s = << >> <=> m = n
  BY <1>1, EmptySeq
<1>3. ASSUME m < n PROVE Front(s) = Slice(f, m, n - 1)
  <2>1. Front(s) = SubSeq(s, 1, n - m - 1)
    BY <1>1 DEF Front
  <2>2. /\ SubSeq(s, 1, n - m - 1) \in Seq(Values(f))
        /\ Len(SubSeq(s, 1, n - m - 1)) = n - m - 1
        /\ \A i \in 1..(n - m - 1) : SubSeq(s, 1, n - m - 1)[i] = s[i]
    BY <1>1, <1>3
  <2>3. n - 1 \in Nat /\ m <= n - 1 /\ (n - 1) - m = n - m - 1
    BY <1>3
  <2>4. \A i \in 1..((n - 1) - m) : SubSeq(s, 1, n - m - 1)[i] = f[m + i]
    BY <1>1, <2>2, <2>3
  <2> QED BY <2>1, <2>2, <2>3, <2>4, IsSlice
<1>4. ASSUME m < n PROVE <<Last(s)>> = Slice(f, n - 1, n)
  <2>1. Last(s) = f[n]
    BY <1>1, <1>4 DEF Last
  <2>2. n - 1 \in Nat /\ (n - 1) + 1 = n
    BY <1>4
  <2>3. Slice(f, n - 1, (n - 1) + 1) = <<f[(n - 1) + 1]>>
    BY <2>2, SliceSmall
  <2> QED BY <2>1, <2>2, <2>3
<1> QED BY <1>2, <1>3, <1>4

(* A slice grows by its next piece.                                        *)
LEMMA SliceAppend ==
  ASSUME NEW f, NEW m \in Nat, NEW n \in Nat, m <= n
  PROVE  Append(Slice(f, m, n), f[n + 1]) = Slice(f, m, n + 1)
<1> SUFFICES ASSUME NEW s, s = Slice(f, m, n),
                    NEW x, x = f[n + 1]
             PROVE  Append(s, x) = Slice(f, m, n + 1)
  OBVIOUS
<1>1. s \in Seq(Values(f)) /\ x \in Values(f)
  BY SliceFacts DEF Values
<1>2. Append(s, x) = s \o <<x>>
  BY <1>1, AppendIsConcat
<1>3. n + 1 \in Nat /\ n <= n + 1
  OBVIOUS
<1>4. <<x>> = Slice(f, n, n + 1)
  BY SliceSmall
<1>5. s \o Slice(f, n, n + 1) = Slice(f, m, n + 1)
  BY <1>3, SliceConcat
<1> QED BY <1>2, <1>4, <1>5

-----------------------------------------------------------------------------
(* The stream of a copy c with the options o                               *)

(* The encoder has started a frame, so that it ends it.                    *)
Zips(o) == o.zip /\ o.blocks > 0

(* Pieces that leave the encoder, and the encrypter.                       *)
Frames(o) == IF Zips(o) THEN o.blocks + 1 ELSE o.blocks
Size(o) == IF o.pwd = None THEN Frames(o) ELSE Frames(o) + 1

(* The i-th piece: a block of the input, or one of the marks after them.   *)
Meaning(o, c, i) == IF i <= o.blocks THEN <<c, i>>
                    ELSE IF Zips(o) /\ i = Frames(o) THEN ZipEnd ELSE SealEnd
Meanings(o, c) == [i \in Nat |-> Meaning(o, c, i)]
Stream(o, c) ==
  [i \in Nat |-> [zip |-> o.zip, of |-> Meaning(o, c, i), key |-> Key(o.pwd, c)]]

(* What the client sends.                                                  *)
Header(o, c) == [kind |-> "info", zip |-> o.zip,
                 nonce |-> IF o.pwd = None THEN None ELSE c]
Checksum(o, c) == [kind |-> "sum", sum |-> Input(c, o.blocks)]
Chunk(o, c, full, a, b) ==
  [kind |-> "chunk", full |-> full, data |-> Slice(Stream(o, c), a, b)]
Messages(o, c) ==
  {Header(o, c), Checksum(o, c)} \union
  {Chunk(o, c, full, a, b) : full \in BOOLEAN, a \in Nat, b \in Nat}

(* A message takes the stream from its a-th to its b-th piece, and so do the
   messages u one after the other.                                         *)
Carries(o, c, m, a, b) ==
  \/ m \in {Header(o, c), Checksum(o, c)} /\ a = b
  \/ a <= b /\ \E full \in BOOLEAN : m = Chunk(o, c, full, a, b)
Flow(o, c, u, a, b) ==
  \E cut \in [0..Len(u) -> Nat] :
    /\ cut[0] = a
    /\ cut[Len(u)] = b
    /\ \A i \in 1..Len(u) : Carries(o, c, u[i], cut[i - 1], cut[i])

-----------------------------------------------------------------------------
(* The invariant of a copy                                                 *)

(* A layer that delays the last of the n pieces it was given.              *)
Delayed(yes, n) == IF yes /\ n > 0 THEN n - 1 ELSE n

(* Pieces the encoder, and the encrypter, have passed on.                  *)
Encoded(c) == IF cpc[c] = "read" THEN Delayed(copt[c].zip, nread[c])
              ELSE Frames(copt[c])
Sealed(c) == IF cpc[c] = "flush" THEN Size(copt[c])
             ELSE Delayed(copt[c].pwd # None, Encoded(c))

(* Nothing has happened before the call.                                   *)
Unused(c) ==
  /\ nread[c] = 0
  /\ <<>> = zbuf[c] /\ <<>> = ebuf[c] /\ <<>> = held[c]
  /\ <<>> = up[c] /\ <<>> = got[c]
  /\ upEnd[c] = FALSE /\ hpc[c] = "idle" /\ crpc[c] = "none"

Writing(c) == cpc[c] \in {"read", "seal", "flush"}

(* What the encoder and the encrypter hold back.                           *)
Layers(c) ==
  /\ Writing(c) => ~upEnd[c] /\ nread[c] <= copt[c].blocks
  /\ cpc[c] = "read" =>
       zbuf[c] = Slice(Stream(copt[c], c), Encoded(c), nread[c])
  /\ cpc[c] \in {"seal", "flush"} => nread[c] = copt[c].blocks
  /\ cpc[c] \in {"read", "seal"} =>
       ebuf[c] = Slice(Stream(copt[c], c), Sealed(c), Encoded(c))

(* What the server has got, what is on the way, what the Writer holds.     *)
Piped(c, a, h) ==
  /\ got[c] = Slice(Stream(copt[c], c), 0, a)
  /\ Flow(copt[c], c, up[c], a, h)
  /\ Writing(c) => /\ h <= Sealed(c)
                   /\ held[c] = Slice(Stream(copt[c], c), h, Sealed(c))
  /\ upEnd[c] => h = Size(copt[c])

(* The checksum comes last, after all the data.                            *)
Sums(c) ==
  /\ \A i \in 1..Len(up[c]) :
       up[c][i].kind = "sum" => upEnd[c] /\ i = Len(up[c])
  /\ upEnd[c] /\ copt[c].sum =>
       up[c] # <<>> /\ up[c][Len(up[c])].kind = "sum"

(* The server answers what it has done.                                    *)
Answers(c) ==
  /\ hpc[c] = "write" => info[c] = Header(copt[c], c)
  /\ crpc[c] = "ok" \/ cpc[c] = "ok" => \E x \in published : x.by = c

CopyInv(c) ==
  IF cpc[c] = "idle" THEN Unused(c)
  ELSE /\ copt[c] # None
       /\ up[c] \in Seq(Messages(copt[c], c))
       /\ Layers(c)
       /\ \E a \in Nat, h \in Nat : Piped(c, a, h)
       /\ Sums(c)
       /\ Answers(c)

(* A content is the whole stream of one copy.                              *)
Genuine(x) ==
  LET o == copt[x.by]
  IN  /\ x.by \in Copies /\ cpc[x.by] # "idle" /\ o # None
      /\ x.zip = o.zip
      /\ x.nonce = Header(o, x.by).nonce
      /\ x.data = Slice(Stream(o, x.by), 0, Size(o))
      /\ x.sum \in {None, Input(x.by, o.blocks)}
      /\ o.sum => x.sum = Input(x.by, o.blocks)

Contents == (\A x \in published : Genuine(x)) /\ clip \in published \union {None}

-----------------------------------------------------------------------------
(* The invariant of a paste                                                *)

(* The messages in which the server sends the content x.                   *)
Mail(x) ==
  [i \in Nat |->
     IF i = 1 THEN [kind |-> "info", zip |-> x.zip, nonce |-> x.nonce,
                    hasSum |-> x.sum # None]
     ELSE IF i <= Len(x.data) + 1 THEN [kind |-> "chunk",
                                        data |-> <<x.data[i - 1]>>]
     ELSE IF i = Len(x.data) + 2 THEN [kind |-> "chunk", data |-> <<>>]
     ELSE [kind |-> "sum", sum |-> x.sum]]
Letters(x) == IF x.sum = None THEN Len(x.data) + 2 ELSE Len(x.data) + 3

(* How much of the content the first r messages have brought.              *)
Brought(x, r) == IF r = 0 THEN 0
                 ELSE IF r <= Len(x.data) + 1 THEN r - 1 ELSE Len(x.data)

(* The server has sent no header.                                          *)
Silent(p) ==
  /\ decoded[p] = <<>>
  /\ ppc[p] \in {"idle", "header", "failed"}
  /\ spc[p] \in {"idle", "open", "done"}
  /\ down[p] # <<>> => spc[p] = "done" /\ down[p] = <<[kind |-> "error"]>>
  /\ ppc[p] = "idle" => spc[p] = "idle"
  /\ prpc[p] = "ok" => spc[p] = "done"
  /\ pos[p] = 0

(* It has sent s messages of the content x, and the client has read r.     *)
Served(p, x, r, s) ==
  /\ sclip[p] = x
  /\ r <= s /\ s <= Letters(x)
  /\ down[p] = Slice(Mail(x), r, s)
  /\ decoded[p] = Slice(Meanings(copt[x.by], x.by), 0, Brought(x, r))
  /\ spc[p] \in {"send", "done"}
  /\ spc[p] = "send" => s = pos[p] + 1 /\ pos[p] <= Len(x.data)
  /\ prpc[p] = "ok" => s = Letters(x)
  /\ ppc[p] \in {"header", "read", "ok", "failed"}
  /\ ppc[p] = "header" => r = 0
  /\ ppc[p] \in {"read", "ok"} => r > 0 /\ pinfo[p] = Mail(x)[1]
  /\ decoded[p] # <<>> => Key(copt[x.by].pwd, x.by) = PasteKey(p)
  /\ ppc[p] = "ok" => /\ Brought(x, r) = Len(x.data)
                      /\ x.nonce # None => decoded[p] # <<>>

PasteInv(p) ==
  \/ Silent(p)
  \/ \E x \in published, r \in Nat, s \in Nat : Served(p, x, r, s)

(* The functions of the state.                                             *)
Shapes ==
  /\ copt \in CopyOpts
  /\ DOMAIN cpc = Copies /\ DOMAIN zbuf = Copies /\ DOMAIN ebuf = Copies
  /\ DOMAIN held = Copies /\ DOMAIN up = Copies /\ DOMAIN crpc = Copies
  /\ DOMAIN hpc = Copies /\ DOMAIN info = Copies /\ DOMAIN got = Copies
  /\ nread \in [Copies -> Nat] /\ upEnd \in [Copies -> BOOLEAN]
  /\ DOMAIN popt = Pastes /\ DOMAIN ppc = Pastes /\ DOMAIN pinfo = Pastes
  /\ DOMAIN decoded = Pastes /\ DOMAIN down = Pastes /\ DOMAIN prpc = Pastes
  /\ DOMAIN spc = Pastes /\ DOMAIN sclip = Pastes
  /\ pos \in [Pastes -> Nat]

TransferInv ==
  /\ Shapes
  /\ \A c \in Copies : CopyInv(c)
  /\ Contents
  /\ \A p \in Pastes : PasteInv(p)

-----------------------------------------------------------------------------
(* Messages                                                                *)

(* A slice without its first value, and that value.                        *)
LEMMA SliceTail ==
  ASSUME NEW f, NEW m \in Nat, NEW n \in Nat, m < n
  PROVE  /\ Head(Slice(f, m, n)) = f[m + 1]
         /\ Tail(Slice(f, m, n)) = Slice(f, m + 1, n)
<1> SUFFICES ASSUME NEW s, s = Slice(f, m, n)
             PROVE  Head(s) = f[m + 1] /\ Tail(s) = Slice(f, m + 1, n)
  OBVIOUS
<1>0. m <= n
  OBVIOUS
<1>1. /\ s \in Seq(Values(f)) /\ Len(s) = n - m
      /\ \A i \in 1..(n - m) : s[i] = f[m + i]
  BY <1>0, SliceFacts
<1>2. s # << >> /\ Len(s) > 0
  BY <1>1
<1>3. Head(s) = f[m + 1]
  BY <1>1, <1>2
<1>4. /\ Tail(s) \in Seq(Values(f)) /\ Len(Tail(s)) = Len(s) - 1
      /\ \A i \in 1..Len(Tail(s)) : Tail(s)[i] = s[i + 1]
  BY <1>1, <1>2, HeadTailProperties
<1>5. m + 1 \in Nat /\ m + 1 <= n /\ n - (m + 1) = Len(Tail(s))
  BY <1>1, <1>4
<1>6. ASSUME NEW i \in 1..(n - (m + 1)) PROVE Tail(s)[i] = f[(m + 1) + i]
  <2>1. i + 1 \in 1..(n - m) /\ m + (i + 1) = (m + 1) + i
    OBVIOUS
  <2>2. s[i + 1] = f[m + (i + 1)]
    BY <1>1, <2>1
  <2> QED BY <1>4, <1>5, <2>1, <2>2
<1>7. Tail(s) = Slice(f, m + 1, n)
  BY <1>4, <1>5, <1>6, IsSlice
<1> QED BY <1>3, <1>7

(* No messages carry nothing.                                              *)
LEMMA FlowEmpty ==
  ASSUME NEW o, NEW c, NEW a \in Nat, NEW b \in Nat
  PROVE  Flow(o, c, << >>, a, b) <=> a = b
<1>1. Len(<< >>) = 0 /\ \A i \in 1..0 : FALSE
  OBVIOUS
<1>2. ASSUME Flow(o, c, << >>, a, b) PROVE a = b
  BY <1>1, <1>2 DEF Flow
<1>3. ASSUME a = b PROVE Flow(o, c, << >>, a, b)
  <2>1. [i \in 0..0 |-> a] \in [0..0 -> Nat] /\ [i \in 0..0 |-> a][0] = a
    OBVIOUS
  <2>2. /\ [i \in 0..0 |-> a] \in [0..Len(<< >>) -> Nat]
        /\ [i \in 0..0 |-> a][Len(<< >>)] = b
    BY <1>1, <1>3, <2>1
  <2> QED BY <1>1, <2>1, <2>2 DEF Flow
<1> QED BY <1>2, <1>3

(* What a message carries joins what the earlier ones do.                  *)
LEMMA FlowAppend ==
  ASSUME NEW o, NEW c, NEW a \in Nat, NEW b \in Nat, NEW d \in Nat,
         NEW u \in Seq(Messages(o, c)), NEW m \in Messages(o, c),
         Flow(o, c, u, a, b), Carries(o, c, m, b, d)
  PROVE  /\ Append(u, m) \in Seq(Messages(o, c))
         /\ Flow(o, c, Append(u, m), a, d)
<1>1. PICK cut \in [0..Len(u) -> Nat] :
        /\ cut[0] = a
        /\ cut[Len(u)] = b
        /\ \A i \in 1..Len(u) : Carries(o, c, u[i], cut[i - 1], cut[i])
  BY DEF Flow
<1>2. Len(u) \in Nat
  BY LenProperties
<1> SUFFICES ASSUME NEW v, v = Append(u, m)
             PROVE  v \in Seq(Messages(o, c)) /\ Flow(o, c, v, a, d)
  OBVIOUS
<1>3. /\ v \in Seq(Messages(o, c)) /\ Len(v) = Len(u) + 1
      /\ \A i \in 1..Len(u) : v[i] = u[i]
      /\ v[Len(u) + 1] = m
  BY AppendProperties
<1>4. PICK new : new = [i \in 0..(Len(u) + 1) |-> IF i <= Len(u) THEN cut[i] ELSE d]
  OBVIOUS
<1>5. /\ new \in [0..Len(v) -> Nat]
      /\ new[0] = a /\ new[Len(v)] = d
      /\ \A i \in 0..Len(u) : new[i] = cut[i]
  BY <1>1, <1>2, <1>3, <1>4
<1>6. ASSUME NEW i \in 1..Len(v)
      PROVE  Carries(o, c, v[i], new[i - 1], new[i])
  <2>1. CASE i \in 1..Len(u)
    <3>1. i - 1 \in 0..Len(u) /\ i \in 0..Len(u)
      BY <1>2, <2>1
    <3>2. new[i - 1] = cut[i - 1] /\ new[i] = cut[i] /\ v[i] = u[i]
      BY <1>3, <1>5, <2>1, <3>1
    <3> QED BY <1>1, <2>1, <3>2
  <2>2. CASE i = Len(u) + 1
    <3>1. i - 1 = Len(u) /\ Len(u) \in 0..Len(u)
      BY <1>2, <2>2
    <3>2. new[i - 1] = b /\ new[i] = d /\ v[i] = m
      BY <1>1, <1>3, <1>5, <2>2, <3>1
    <3> QED BY <3>2
  <2> QED BY <1>2, <1>3, <2>1, <2>2
<1> QED BY <1>3, <1>5, <1>6 DEF Flow

(* What the first message carries comes before what the others do.         *)
LEMMA FlowTail ==
  ASSUME NEW o, NEW c, NEW a \in Nat, NEW b \in Nat,
         NEW u \in Seq(Messages(o, c)), u # << >>, Flow(o, c, u, a, b)
  PROVE  /\ Head(u) = u[1] /\ Head(u) \in Messages(o, c)
         /\ Tail(u) \in Seq(Messages(o, c))
         /\ \E d \in Nat : /\ Carries(o, c, Head(u), a, d)
                           /\ Flow(o, c, Tail(u), d, b)
<1>1. PICK cut \in [0..Len(u) -> Nat] :
        /\ cut[0] = a
        /\ cut[Len(u)] = b
        /\ \A i \in 1..Len(u) : Carries(o, c, u[i], cut[i - 1], cut[i])
  BY DEF Flow
<1>2. Len(u) \in Nat \ {0}
  BY EmptySeq
<1>3. Head(u) = u[1]
  BY <1>2
<1> SUFFICES ASSUME NEW v, v = Tail(u)
             PROVE  /\ Head(u) \in Messages(o, c)
                    /\ v \in Seq(Messages(o, c))
                    /\ \E d \in Nat : /\ Carries(o, c, Head(u), a, d)
                                      /\ Flow(o, c, v, d, b)
  BY <1>3
<1>4. /\ Head(u) \in Messages(o, c)
      /\ v \in Seq(Messages(o, c)) /\ Len(v) = Len(u) - 1
      /\ \A i \in 1..Len(v) : v[i] = u[i + 1]
  BY HeadTailProperties
<1>5. Len(v) \in Nat
  BY <1>2, <1>4
<1>6. PICK new : new = [i \in 0..Len(v) |-> cut[i + 1]]
  OBVIOUS
<1>7. \A i \in 0..Len(v) : i + 1 \in 0..Len(u)
  BY <1>2, <1>4
<1>8. new \in [0..Len(v) -> Nat] /\ \A i \in 0..Len(v) : new[i] = cut[i + 1]
  BY <1>1, <1>6, <1>7
<1>9. new[0] = cut[1] /\ cut[1] \in Nat /\ new[Len(v)] = b
  <2>1. 0 \in 0..Len(v) /\ Len(v) \in 0..Len(v) /\ Len(v) + 1 = Len(u)
    BY <1>2, <1>4
  <2>2. new[0] = cut[0 + 1] /\ new[Len(v)] = cut[Len(v) + 1]
    BY <1>8, <2>1
  <2> QED BY <1>1, <1>2, <2>1, <2>2
<1>10. Carries(o, c, Head(u), a, cut[1])
  <2>1. 1 \in 1..Len(u)
    BY <1>2
  <2>2. Carries(o, c, u[1], cut[1 - 1], cut[1])
    BY <1>1, <2>1
  <2> QED BY <1>1, <1>3, <2>2
<1>11. ASSUME NEW i \in 1..Len(v)
       PROVE  Carries(o, c, v[i], new[i - 1], new[i])
  <2>1. i + 1 \in 1..Len(u) /\ i - 1 \in 0..Len(v) /\ i \in 0..Len(v)
    BY <1>2, <1>4
  <2>2. (i + 1) - 1 = i /\ (i - 1) + 1 = i
    OBVIOUS
  <2>3. Carries(o, c, u[i + 1], cut[(i + 1) - 1], cut[i + 1])
    BY <1>1, <2>1
  <2>4. new[i - 1] = cut[i] /\ new[i] = cut[i + 1] /\ v[i] = u[i + 1]
    BY <1>4, <1>8, <2>1, <2>2
  <2> QED BY <2>2, <2>3, <2>4
<1>12. Flow(o, c, v, cut[1], b)
  BY <1>8, <1>9, <1>11 DEF Flow
<1> QED BY <1>4, <1>9, <1>10, <1>12

(* A message is one of those that Client.Copy sends ...                    *)
LEMMA MessageSent ==
  ASSUME NEW o, NEW c, NEW m, NEW a \in Nat, NEW b \in Nat,
         Carries(o, c, m, a, b)
  PROVE  m \in Messages(o, c)
<1>1. CASE m \in {Header(o, c), Checksum(o, c)}
  BY <1>1 DEF Messages
<1>2. ASSUME NEW full \in BOOLEAN, m = Chunk(o, c, full, a, b)
      PROVE  m \in Messages(o, c)
  BY <1>2 DEF Messages
<1> QED BY <1>1, <1>2 DEF Carries

(* ... and its kind tells which.                                           *)
LEMMA InfoMessage ==
  ASSUME NEW o, NEW c, NEW m, NEW a \in Nat, NEW b \in Nat,
         Carries(o, c, m, a, b), m.kind = "info"
  PROVE  m = Header(o, c) /\ a = b
<1>1. m # Checksum(o, c)
  BY DEF Checksum
<1>2. ASSUME NEW full \in BOOLEAN PROVE m # Chunk(o, c, full, a, b)
  BY DEF Chunk
<1> QED BY <1>1, <1>2 DEF Carries

(* The same for the checksum ...                                           *)
LEMMA SumMessage ==
  ASSUME NEW o, NEW c, NEW m, NEW a \in Nat, NEW b \in Nat,
         Carries(o, c, m, a, b), m.kind = "sum"
  PROVE  m = Checksum(o, c) /\ a = b
<1>1. m # Header(o, c)
  BY DEF Header
<1>2. ASSUME NEW full \in BOOLEAN PROVE m # Chunk(o, c, full, a, b)
  BY DEF Chunk
<1> QED BY <1>1, <1>2 DEF Carries

(* ... and for a chunk.                                                    *)
LEMMA ChunkMessage ==
  ASSUME NEW o, NEW c, NEW m, NEW a \in Nat, NEW b \in Nat,
         Carries(o, c, m, a, b), m.kind = "chunk"
  PROVE  a <= b /\ m.data = Slice(Stream(o, c), a, b)
<1>1. m # Header(o, c) /\ m # Checksum(o, c)
  BY DEF Header, Checksum
<1>2. ASSUME NEW full \in BOOLEAN, m = Chunk(o, c, full, a, b)
      PROVE  m.data = Slice(Stream(o, c), a, b)
  BY <1>2 DEF Chunk
<1> QED BY <1>1, <1>2 DEF Carries

(* Two messages sent at once are sent one after the other.                 *)
LEMMA AppendTwo ==
  ASSUME NEW S, NEW u \in Seq(S), NEW x \in S, NEW y \in S
  PROVE  u \o <<x, y>> = Append(Append(u, x), y)
<1> SUFFICES ASSUME NEW v, v = Append(u, x), NEW w, w = Append(v, y),
                    NEW z, z = <<x, y>>
             PROVE  u \o z = w
  OBVIOUS
<1>1. /\ v \in Seq(S) /\ Len(v) = Len(u) + 1
      /\ \A i \in 1..Len(u) : v[i] = u[i]
      /\ v[Len(u) + 1] = x
  BY AppendProperties
<1>2. /\ w \in Seq(S) /\ Len(w) = Len(v) + 1
      /\ \A i \in 1..Len(v) : w[i] = v[i]
      /\ w[Len(v) + 1] = y
  BY <1>1, AppendProperties
<1>3. z \in Seq(S) /\ Len(z) = 2 /\ z[1] = x /\ z[2] = y
  OBVIOUS
<1>4. /\ u \o z \in Seq(S) /\ Len(u \o z) = Len(u) + Len(z)
      /\ \A i \in 1..(Len(u) + Len(z)) :
           (u \o z)[i] = IF i <= Len(u) THEN u[i] ELSE z[i - Len(u)]
  BY <1>3, ConcatProperties
<1>5. Len(u) \in Nat
  BY LenProperties
<1>6. ASSUME NEW i \in 1..(Len(u) + 2) PROVE (u \o z)[i] = w[i]
  <2>0. (u \o z)[i] = IF i <= Len(u) THEN u[i] ELSE z[i - Len(u)]
    BY <1>3, <1>4
  <2>1. CASE i \in 1..Len(u)
    BY <1>1, <1>2, <1>5, <2>0, <2>1
  <2>2. CASE i = Len(u) + 1
    <3>1. ~(i <= Len(u)) /\ i - Len(u) = 1 /\ i \in 1..Len(v)
      BY <1>1, <1>5, <2>2
    <3> QED BY <1>1, <1>2, <1>3, <2>0, <2>2, <3>1
  <2>3. CASE i = Len(u) + 2
    <3>1. ~(i <= Len(u)) /\ i - Len(u) = 2 /\ i = Len(v) + 1
      BY <1>1, <1>5, <2>3
    <3> QED BY <1>2, <1>3, <2>0, <3>1
  <2> QED BY <1>5, <2>1, <2>2, <2>3
<1>7. Len(u \o z) = Len(u) + 2 /\ Len(w) = Len(u) + 2
  BY <1>1, <1>2, <1>3, <1>4, <1>5
<1> QED BY <1>2, <1>4, <1>6, <1>7, SeqEqual

-----------------------------------------------------------------------------
(* The layers of the client                                                *)

(* Types of the options of a call.                                         *)
LEMMA Options ==
  ASSUME Shapes, NEW c \in Copies, copt[c] # None
  PROVE  /\ copt[c].blocks \in Nat
         /\ copt[c].zip \in BOOLEAN /\ copt[c].sum \in BOOLEAN
         /\ Frames(copt[c]) \in Nat /\ copt[c].blocks <= Frames(copt[c])
         /\ Size(copt[c]) \in Nat /\ Frames(copt[c]) <= Size(copt[c])
<1>1. /\ copt[c].blocks \in Nat
      /\ copt[c].zip \in BOOLEAN /\ copt[c].sum \in BOOLEAN
  BY OptionsAssumption DEF Shapes
<1>2. Frames(copt[c]) \in Nat /\ copt[c].blocks <= Frames(copt[c])
  BY <1>1 DEF Frames
<1>3. Size(copt[c]) \in Nat /\ Frames(copt[c]) <= Size(copt[c])
  BY <1>2 DEF Size
<1> QED BY <1>1, <1>2, <1>3

(* The fragments that Client.Copy makes are the pieces of its stream.      *)
LEMMA FragmentIsPiece ==
  ASSUME NEW c, NEW i \in Nat, NEW of, of = Meaning(copt[c], c, i)
  PROVE  Fragment(c, copt[c].zip, of) = Stream(copt[c], c)[i]
BY DEF Fragment, Stream

(* gw.Write adjoins the pieces it is given to what the Writer holds.       *)
LEMMA GwStep ==
  ASSUME Shapes, NEW c \in Copies,
         NEW a \in Nat, NEW h \in Nat, NEW e \in Nat, NEW k \in Nat,
         h <= e, e <= k,
         up[c] \in Seq(Messages(copt[c], c)),
         Flow(copt[c], c, up[c], a, h),
         held[c] = Slice(Stream(copt[c], c), h, e),
         \A i \in 1..Len(up[c]) : up[c][i].kind # "sum",
         GwWrite(c, Slice(Stream(copt[c], c), e, k))
  PROVE  /\ DOMAIN held' = Copies /\ DOMAIN up' = Copies
         /\ \A d \in Copies : d # c => held'[d] = held[d] /\ up'[d] = up[d]
         /\ up'[c] \in Seq(Messages(copt[c], c))
         /\ \A i \in 1..Len(up'[c]) : up'[c][i].kind # "sum"
         /\ \E g \in Nat : /\ g <= k
                           /\ held'[c] = Slice(Stream(copt[c], c), g, k)
                           /\ Flow(copt[c], c, up'[c], a, g)
<1> DEFINE f == Stream(copt[c], c)
<1>0. DOMAIN held = Copies /\ DOMAIN up = Copies
  BY DEF Shapes
<1>1. h <= k /\ Slice(f, h, e) \o Slice(f, e, k) = Slice(f, h, k)
  <2>1. h <= k
    OBVIOUS
  <2>2. Slice(f, h, e) \o Slice(f, e, k) = Slice(f, h, k)
    BY SliceConcat, Zenon
  <2> QED BY <2>1, <2>2
<1>2. CASE held' = [held EXCEPT ![c] = @ \o Slice(f, e, k)] /\ up' = up
  <2>1. held'[c] = Slice(f, h, k) /\ up'[c] = up[c]
    BY <1>0, <1>1, <1>2
  <2>2. \E g \in Nat : g <= k /\ held'[c] = Slice(f, g, k)
                       /\ Flow(copt[c], c, up'[c], a, g)
    BY <1>1, <2>1
  <2> QED BY <1>0, <1>2, <2>1, <2>2
<1>3. CASE /\ up' = [up EXCEPT ![c] =
                       Append(@, [kind |-> "chunk", full |-> TRUE,
                                  data |-> held[c] \o Slice(f, e, k)])]
           /\ held' = [held EXCEPT ![c] = << >>]
  <2> DEFINE m == Chunk(copt[c], c, TRUE, h, k)
  <2>1. up'[c] = Append(up[c], m)
    BY <1>0, <1>1, <1>3 DEF Chunk
  <2>2. held'[c] = Slice(f, k, k)
    BY <1>0, <1>3, SliceSmall
  <2>3. Carries(copt[c], c, m, h, k) /\ m \in Messages(copt[c], c)
    <3>1. Carries(copt[c], c, m, h, k)
      BY <1>1, Zenon DEF Carries
    <3> HIDE DEF m
    <3> QED BY <3>1, MessageSent
  <2>4. m.kind = "chunk"
    BY DEF Chunk
  <2> HIDE DEF m
  <2>5. /\ Append(up[c], m) \in Seq(Messages(copt[c], c))
        /\ Flow(copt[c], c, Append(up[c], m), a, k)
    BY <2>3, FlowAppend
  <2>6. \A i \in 1..Len(up'[c]) : up'[c][i].kind # "sum"
    <3>1. /\ Len(Append(up[c], m)) = Len(up[c]) + 1
          /\ \A i \in 1..Len(up[c]) : Append(up[c], m)[i] = up[c][i]
          /\ Append(up[c], m)[Len(up[c]) + 1] = m
      BY <2>3, AppendProperties
    <3>2. Len(up[c]) \in Nat
      BY LenProperties
    <3> QED BY <2>1, <2>4, <3>1, <3>2
  <2>7. \E g \in Nat : g <= k /\ held'[c] = Slice(f, g, k)
                       /\ Flow(copt[c], c, up'[c], a, g)
    <3>1. k <= k
      OBVIOUS
    <3> QED BY <2>1, <2>2, <2>5, <3>1
  <2> QED BY <1>0, <1>3, <2>1, <2>5, <2>6, <2>7
<1> QED BY <1>2, <1>3 DEF GwWrite

(* encrypter.Write keeps the last piece, and passes the others on.         *)
LEMMA EncStep ==
  ASSUME Shapes, NEW c \in Copies,
         NEW w \in Nat, NEW k \in Nat, w <= k,
         NEW e, e = Delayed(copt[c].pwd # None, w),
         NEW j, j = Delayed(copt[c].pwd # None, k),
         ebuf[c] = Slice(Stream(copt[c], c), e, w),
         EncWrite(c, Slice(Stream(copt[c], c), w, k))
  PROVE  /\ e \in Nat /\ j \in Nat /\ e <= j /\ j <= k
         /\ DOMAIN ebuf' = Copies
         /\ \A d \in Copies : d # c => ebuf'[d] = ebuf[d]
         /\ ebuf'[c] = Slice(Stream(copt[c], c), j, k)
         /\ GwWrite(c, Slice(Stream(copt[c], c), e, j))
<1> DEFINE f == Stream(copt[c], c)
<1>0. DOMAIN ebuf = Copies
  BY DEF Shapes
<1>1. CASE copt[c].pwd = None
  <2>1. e = w /\ j = k
    BY <1>1 DEF Delayed
  <2>2. GwWrite(c, Slice(f, w, k)) /\ ebuf' = ebuf
    BY <1>1 DEF EncWrite
  <2>3. Slice(f, w, w) = << >> /\ Slice(f, k, k) = << >>
    BY SliceSmall
  <2>4. k <= k
    OBVIOUS
  <2> QED BY <1>0, <2>1, <2>2, <2>3, <2>4
<1>2. CASE copt[c].pwd # None
  <2>1. /\ GwWrite(c, Passed(ebuf[c], Slice(f, w, k)))
        /\ ebuf' = [ebuf EXCEPT ![c] = Kept(@, Slice(f, w, k))]
    BY <1>2 DEF EncWrite
  <2>2. /\ e = IF w > 0 THEN w - 1 ELSE w
        /\ j = IF k > 0 THEN k - 1 ELSE k
    BY <1>2 DEF Delayed
  <2>3. /\ e \in Nat /\ j \in Nat /\ e <= w /\ e <= j /\ j <= k /\ e <= k
        /\ e = k => e = 0 /\ k = 0 /\ j = 0
        /\ e < k => j = k - 1
    BY <2>2
  <2>4. ebuf[c] \o Slice(f, w, k) = Slice(f, e, k)
    <3>1. e \in Nat /\ e <= w
      BY <2>3
    <3>2. ASSUME NEW g, NEW q \in Nat, q <= w
          PROVE  Slice(g, q, w) \o Slice(g, w, k) = Slice(g, q, k)
      BY <3>2, SliceConcat
    <3> QED BY <3>1, <3>2
  <2>5. /\ Passed(ebuf[c], Slice(f, w, k)) = Slice(f, e, j)
        /\ Kept(ebuf[c], Slice(f, w, k)) = Slice(f, j, k)
    <3>1. /\ Slice(f, e, k) = << >> <=> e = k
          /\ e < k => /\ Front(Slice(f, e, k)) = Slice(f, e, k - 1)
                      /\ <<Last(Slice(f, e, k))>> = Slice(f, k - 1, k)
      BY <2>3, SliceLast
    <3>2. /\ Passed(ebuf[c], Slice(f, w, k)) = Front(Slice(f, e, k))
          /\ Kept(ebuf[c], Slice(f, w, k)) =
               IF Slice(f, e, k) = << >> THEN << >>
               ELSE <<Last(Slice(f, e, k))>>
      BY <2>4 DEF Passed, Kept
    <3>3. CASE e = k
      <4>1. Slice(f, e, k) = << >> /\ Slice(f, e, j) = << >>
            /\ Slice(f, j, k) = << >>
        BY <2>3, <3>1, <3>3, SliceSmall
      <4>2. Front(<< >>) = << >>
        BY SubSeqEmpty DEF Front
      <4> QED BY <3>2, <4>1, <4>2
    <3>4. CASE e < k
      BY <2>3, <3>1, <3>2, <3>4
    <3> QED BY <2>3, <3>3, <3>4
  <2> QED BY <1>0, <2>1, <2>3, <2>5
<1> QED BY <1>1, <1>2

-----------------------------------------------------------------------------
(* The steps of Client.Copy                                                *)

(* While Client.Copy writes, what reaches the Writer goes on towards the
   server in order and without a gap.                                      *)
LEMMA Written ==
  ASSUME Shapes, NEW c \in Copies, CopyInv(c), Writing(c),
         NEW e \in Nat, e = Sealed(c), NEW k \in Nat, e <= k,
         GwWrite(c, Slice(Stream(copt[c], c), e, k)),
         UNCHANGED <<copt, upEnd, got>>
  PROVE  /\ DOMAIN held' = Copies /\ DOMAIN up' = Copies
         /\ \A d \in Copies : d # c => held'[d] = held[d] /\ up'[d] = up[d]
         /\ up'[c] \in Seq(Messages(copt[c], c))
         /\ Sums(c)'
         /\ \E a \in Nat, g \in Nat :
              /\ g <= k
              /\ got'[c] = Slice(Stream(copt[c], c), 0, a)
              /\ Flow(copt[c], c, up'[c], a, g)
              /\ held'[c] = Slice(Stream(copt[c], c), g, k)
<1>1. cpc[c] # "idle"
  BY DEF Writing
<1>2. /\ up[c] \in Seq(Messages(copt[c], c)) /\ Sums(c) /\ Layers(c)
      /\ \E a \in Nat, h \in Nat : Piped(c, a, h)
  BY <1>1 DEF CopyInv
<1>3. PICK a \in Nat, h \in Nat : Piped(c, a, h)
  BY <1>2
<1>4. /\ got[c] = Slice(Stream(copt[c], c), 0, a)
      /\ Flow(copt[c], c, up[c], a, h)
      /\ h <= e /\ held[c] = Slice(Stream(copt[c], c), h, e)
  BY <1>3 DEF Piped
<1>5. ~upEnd[c] /\ \A i \in 1..Len(up[c]) : up[c][i].kind # "sum"
  BY <1>2 DEF Layers, Sums
<1>6. /\ DOMAIN held' = Copies /\ DOMAIN up' = Copies
      /\ \A d \in Copies : d # c => held'[d] = held[d] /\ up'[d] = up[d]
      /\ up'[c] \in Seq(Messages(copt[c], c))
      /\ \A i \in 1..Len(up'[c]) : up'[c][i].kind # "sum"
      /\ \E g \in Nat : /\ g <= k
                        /\ held'[c] = Slice(Stream(copt[c], c), g, k)
                        /\ Flow(copt[c], c, up'[c], a, g)
  BY <1>2, <1>4, <1>5, GwStep, Zenon
<1>7. Sums(c)'
  BY <1>5, <1>6 DEF Sums
<1> QED BY <1>4, <1>6, <1>7

(* A turn of the loop of Client.Copy.                                      *)
LEMMA CopyBlockKeeps ==
  ASSUME Shapes, NEW c \in Copies, CopyInv(c), CopyBlock(c),
         UNCHANGED published
  PROVE  /\ CopyInv(c)'
         /\ DOMAIN zbuf' = Copies /\ DOMAIN ebuf' = Copies
         /\ DOMAIN held' = Copies /\ DOMAIN up' = Copies
         /\ \A d \in Copies : d # c => /\ zbuf'[d] = zbuf[d]
                                       /\ ebuf'[d] = ebuf[d]
                                       /\ held'[d] = held[d]
                                       /\ up'[d] = up[d]
<1> DEFINE f == Stream(copt[c], c)
           n == nread[c]
           w == Encoded(c)
           s == <<Fragment(c, copt[c].zip, <<c, n + 1>>)>>
<1>1. /\ cpc[c] = "read" /\ n < copt[c].blocks
      /\ nread' = [nread EXCEPT ![c] = @ + 1]
      /\ IF copt[c].zip
           THEN /\ zbuf' = [zbuf EXCEPT ![c] = Kept(@, s)]
                /\ EncWrite(c, Passed(zbuf[c], s))
           ELSE UNCHANGED zbuf /\ EncWrite(c, s)
      /\ UNCHANGED <<copt, cpc, upEnd, crpc, hpc, info, got>>
  BY DEF CopyBlock, receiveVars
<1>2. /\ copt[c] # None /\ Layers(c) /\ Answers(c)
      /\ Writing(c)
  BY <1>1 DEF CopyInv, Writing
<1>3. copt[c].blocks \in Nat /\ copt[c].zip \in BOOLEAN
  BY <1>2, Options
<1>4. n \in Nat /\ n + 1 \in Nat /\ n + 1 <= copt[c].blocks
  BY <1>1, <1>3 DEF Shapes
<1>5. s = Slice(f, n, n + 1)
  <2>1. Meaning(copt[c], c, n + 1) = <<c, n + 1>>
    BY <1>4 DEF Meaning
  <2>2. Fragment(c, copt[c].zip, <<c, n + 1>>) = f[n + 1]
    BY <1>4, <2>1, FragmentIsPiece
  <2> QED BY <1>4, <2>2, SliceSmall
<1>6. PICK v \in Nat :
        /\ v = Delayed(copt[c].zip, n + 1)
        /\ w \in Nat /\ w <= v /\ v <= n + 1
        /\ EncWrite(c, Slice(f, w, v))
        /\ zbuf'[c] = Slice(f, v, n + 1)
        /\ DOMAIN zbuf' = Copies
        /\ \A d \in Copies : d # c => zbuf'[d] = zbuf[d]
  <2>0. w = Delayed(copt[c].zip, n) /\ zbuf[c] = Slice(f, w, n)
        /\ DOMAIN zbuf = Copies
    BY <1>1, <1>2 DEF Encoded, Layers, Shapes
  <2>1. CASE copt[c].zip
    <3>1. /\ w \in Nat /\ w <= n /\ w < n + 1
          /\ n = Delayed(copt[c].zip, n + 1) /\ (n + 1) - 1 = n
          /\ w <= n + 1 /\ n <= n + 1
      BY <1>4, <2>0, <2>1 DEF Delayed
    <3>2. zbuf[c] \o s = Slice(f, w, n + 1)
      <4>1. Slice(f, w, n) \o Slice(f, n, n + 1) = Slice(f, w, n + 1)
        BY <1>4, <3>1, SliceConcat, Zenon
      <4> QED BY <1>5, <2>0, <4>1, Zenon
    <3>3. /\ Slice(f, w, n + 1) # << >>
          /\ Front(Slice(f, w, n + 1)) = Slice(f, w, n)
          /\ <<Last(Slice(f, w, n + 1))>> = Slice(f, n, n + 1)
      BY <1>4, <3>1, SliceLast
    <3>4. /\ Passed(zbuf[c], s) = Slice(f, w, n)
          /\ Kept(zbuf[c], s) = Slice(f, n, n + 1)
      BY <3>2, <3>3 DEF Passed, Kept
    <3>5. /\ EncWrite(c, Slice(f, w, n))
          /\ zbuf'[c] = Slice(f, n, n + 1)
          /\ DOMAIN zbuf' = Copies
          /\ \A d \in Copies : d # c => zbuf'[d] = zbuf[d]
      BY <1>1, <2>0, <2>1, <3>4
    <3> QED BY <1>4, <3>1, <3>5
  <2>2. CASE ~copt[c].zip
    <3>1. /\ w = n /\ n + 1 = Delayed(copt[c].zip, n + 1)
          /\ n <= n + 1 /\ n + 1 <= n + 1
      BY <1>4, <2>0, <2>2 DEF Delayed
    <3>2. zbuf[c] = Slice(f, n + 1, n + 1)
      BY <1>4, <2>0, <3>1, SliceSmall
    <3>3. EncWrite(c, Slice(f, n, n + 1)) /\ zbuf' = zbuf
      BY <1>1, <1>5, <2>2
    <3> QED BY <1>4, <2>0, <3>1, <3>2, <3>3
  <2> QED BY <1>3, <2>1, <2>2
<1>7. PICK e, j : /\ e = Delayed(copt[c].pwd # None, w)
                  /\ j = Delayed(copt[c].pwd # None, v)
  OBVIOUS
<1>8. e = Sealed(c) /\ ebuf[c] = Slice(f, e, w)
  BY <1>1, <1>2, <1>7 DEF Sealed, Layers
<1> HIDE DEF w, f, s, n
<1>9. /\ e \in Nat /\ j \in Nat /\ e <= j /\ j <= v
      /\ DOMAIN ebuf' = Copies
      /\ \A d \in Copies : d # c => ebuf'[d] = ebuf[d]
      /\ ebuf'[c] = Slice(f, j, v)
      /\ GwWrite(c, Slice(f, e, j))
  BY <1>6, <1>7, <1>8, EncStep DEF f
<1>10. /\ DOMAIN held' = Copies /\ DOMAIN up' = Copies
       /\ \A d \in Copies : d # c => held'[d] = held[d] /\ up'[d] = up[d]
       /\ up'[c] \in Seq(Messages(copt[c], c))
       /\ Sums(c)'
       /\ \E a \in Nat, g \in Nat :
            /\ g <= j
            /\ got'[c] = Slice(f, 0, a)
            /\ Flow(copt[c], c, up'[c], a, g)
            /\ held'[c] = Slice(f, g, j)
  BY <1>1, <1>2, <1>8, <1>9, Written DEF f
<1>11. /\ cpc'[c] = "read" /\ copt' = copt /\ nread'[c] = n + 1
       /\ Encoded(c)' = v /\ Sealed(c)' = j
  BY <1>1, <1>6, <1>7 DEF Encoded, Sealed, Shapes, n
<1>12. Layers(c)'
  BY <1>1, <1>2, <1>4, <1>6, <1>9, <1>11 DEF Layers, Writing, f
<1>13. \E a \in Nat, g \in Nat : Piped(c, a, g)'
  BY <1>1, <1>2, <1>10, <1>11 DEF Piped, Layers, f
<1>14. Answers(c)'
  BY <1>1, <1>2 DEF Answers
<1>15. CopyInv(c)'
  BY <1>2, <1>10, <1>11, <1>12, <1>13, <1>14 DEF CopyInv
<1> QED BY <1>6, <1>9, <1>10, <1>15

(* enc.Close: the encoder lets go of the last block and ends its frame.    *)
LEMMA CloseEncoderKeeps ==
  ASSUME Shapes, NEW c \in Copies, CopyInv(c), CloseEncoder(c),
         UNCHANGED published
  PROVE  /\ CopyInv(c)'
         /\ DOMAIN ebuf' = Copies /\ DOMAIN held' = Copies /\ DOMAIN up' = Copies
         /\ \A d \in Copies : d # c => /\ ebuf'[d] = ebuf[d]
                                       /\ held'[d] = held[d]
                                       /\ up'[d] = up[d]
<1> DEFINE f == Stream(copt[c], c)
           n == copt[c].blocks
           w == Encoded(c)
           v == Frames(copt[c])
           s == IF zbuf[c] = << >> THEN << >>
                ELSE Append(zbuf[c], Fragment(c, TRUE, ZipEnd))
<1>1. /\ cpc[c] = "read" /\ nread[c] = n
      /\ EncWrite(c, s)
      /\ cpc' = [cpc EXCEPT ![c] = "seal"]
      /\ UNCHANGED <<copt, nread, upEnd, crpc, hpc, info, got>>
  BY DEF CloseEncoder, receiveVars, At
<1>2. /\ copt[c] # None /\ Layers(c) /\ Answers(c)
      /\ Writing(c)
  BY <1>1 DEF CopyInv, Writing
<1>3. n \in Nat /\ v \in Nat /\ n <= v /\ copt[c].zip \in BOOLEAN
  BY <1>2, Options
<1>4. w = Delayed(copt[c].zip, n) /\ zbuf[c] = Slice(f, w, n)
  BY <1>1, <1>2 DEF Encoded, Layers
<1>5. w \in Nat /\ w <= v /\ s = Slice(f, w, v)
  <2>1. CASE Zips(copt[c])
    <3>1. /\ w = n - 1 /\ v = n + 1 /\ n - 1 \in Nat /\ n - 1 < n
          /\ n - 1 <= n /\ w <= v /\ copt[c].zip = TRUE
      BY <1>3, <1>4, <2>1 DEF Zips, Frames, Delayed
    <3>2. zbuf[c] # << >>
      <4>1. Slice(f, n - 1, n) = << >> <=> n - 1 = n
        BY <1>3, <3>1, SliceLast
      <4>2. n - 1 # n
        BY <1>3
      <4> QED BY <1>4, <3>1, <4>1, <4>2, Zenon
    <3>3. Fragment(c, TRUE, ZipEnd) = f[n + 1]
      <4>1. Meaning(copt[c], c, n + 1) = ZipEnd
        BY <1>3, <2>1, <3>1 DEF Meaning
      <4>2. n + 1 \in Nat
        BY <1>3
      <4> QED BY <3>1, <4>1, <4>2, FragmentIsPiece
    <3>4. Append(Slice(f, n - 1, n), f[n + 1]) = Slice(f, n - 1, n + 1)
      BY <1>3, <3>1, SliceAppend, Zenon
    <3>5. s = Slice(f, n - 1, n + 1)
      BY <1>4, <3>1, <3>2, <3>3, <3>4, Zenon
    <3> QED BY <3>1, <3>5
  <2>2. CASE ~Zips(copt[c])
    <3>1. w = n /\ v = n /\ n <= n
      BY <1>3, <1>4, <2>2 DEF Zips, Frames, Delayed
    <3>2. Slice(f, n, n) = << >>
      BY <1>3, SliceSmall
    <3>3. s = << >>
      BY <1>4, <3>1, <3>2
    <3> QED BY <1>3, <3>1, <3>2, <3>3
  <2> QED BY <2>1, <2>2
<1>6. EncWrite(c, Slice(f, w, v))
  BY <1>1, <1>5
<1>7. PICK e, j : /\ e = Delayed(copt[c].pwd # None, w)
                  /\ j = Delayed(copt[c].pwd # None, v)
  OBVIOUS
<1>8. e = Sealed(c) /\ ebuf[c] = Slice(f, e, w)
  BY <1>1, <1>2, <1>7 DEF Sealed, Layers
<1> HIDE DEF w, f, s, v
<1>9. /\ e \in Nat /\ j \in Nat /\ e <= j /\ j <= v
      /\ DOMAIN ebuf' = Copies
      /\ \A d \in Copies : d # c => ebuf'[d] = ebuf[d]
      /\ ebuf'[c] = Slice(f, j, v)
      /\ GwWrite(c, Slice(f, e, j))
  BY <1>3, <1>5, <1>6, <1>7, <1>8, EncStep DEF f
<1>10. /\ DOMAIN held' = Copies /\ DOMAIN up' = Copies
       /\ \A d \in Copies : d # c => held'[d] = held[d] /\ up'[d] = up[d]
       /\ up'[c] \in Seq(Messages(copt[c], c))
       /\ Sums(c)'
       /\ \E a \in Nat, g \in Nat :
            /\ g <= j
            /\ got'[c] = Slice(f, 0, a)
            /\ Flow(copt[c], c, up'[c], a, g)
            /\ held'[c] = Slice(f, g, j)
  BY <1>1, <1>2, <1>8, <1>9, Written DEF f
<1>11. /\ cpc'[c] = "seal" /\ copt' = copt /\ nread'[c] = n
       /\ Encoded(c)' = v /\ Sealed(c)' = j
  BY <1>1, <1>7 DEF Encoded, Sealed, Shapes, v
<1>12. Layers(c)'
  BY <1>1, <1>2, <1>3, <1>9, <1>11 DEF Layers, Writing, f
<1>13. \E a \in Nat, g \in Nat : Piped(c, a, g)'
  BY <1>1, <1>2, <1>10, <1>11 DEF Piped, Layers, f
<1>14. Answers(c)'
  BY <1>1, <1>2, <1>11 DEF Answers
<1>15. CopyInv(c)'
  BY <1>2, <1>10, <1>11, <1>12, <1>13, <1>14 DEF CopyInv
<1> QED BY <1>9, <1>10, <1>15

(* encrypter.Close: the last piece, and the mark after it.                 *)
LEMMA CloseEncrypterKeeps ==
  ASSUME Shapes, NEW c \in Copies, CopyInv(c), CloseEncrypter(c),
         UNCHANGED published
  PROVE  /\ CopyInv(c)'
         /\ DOMAIN held' = Copies /\ DOMAIN up' = Copies
         /\ \A d \in Copies : d # c => held'[d] = held[d] /\ up'[d] = up[d]
<1> DEFINE f == Stream(copt[c], c)
           e == Sealed(c)
           v == Frames(copt[c])
           k == Size(copt[c])
           s == IF copt[c].pwd = None THEN << >>
                ELSE Append(ebuf[c], Fragment(c, copt[c].zip, SealEnd))
<1>1. /\ cpc[c] = "seal" /\ GwWrite(c, s)
      /\ cpc' = [cpc EXCEPT ![c] = "flush"]
      /\ UNCHANGED <<copt, nread, upEnd, crpc, hpc, info, got>>
  BY DEF CloseEncrypter, receiveVars, At
<1>2. /\ copt[c] # None /\ Layers(c) /\ Answers(c)
      /\ Writing(c)
  BY <1>1 DEF CopyInv, Writing
<1>3. /\ copt[c].blocks \in Nat /\ v \in Nat /\ copt[c].blocks <= v
      /\ k \in Nat
  BY <1>2, Options
<1>4. e = Delayed(copt[c].pwd # None, v) /\ ebuf[c] = Slice(f, e, v)
  BY <1>1, <1>2 DEF Encoded, Sealed, Layers
<1>5. e \in Nat /\ e <= k /\ s = Slice(f, e, k)
  <2>1. CASE copt[c].pwd = None
    <3>1. e = v /\ k = v /\ v <= v
      BY <1>3, <1>4, <2>1 DEF Delayed, Size
    <3>2. Slice(f, v, v) = << >>
      BY <1>3, SliceSmall
    <3> QED BY <1>3, <2>1, <3>1, <3>2
  <2>2. CASE copt[c].pwd # None
    <3>1. e \in Nat /\ e <= v /\ k = v + 1 /\ e <= v + 1 /\ v + 1 \in Nat
      BY <1>3, <1>4, <2>2 DEF Delayed, Size
    <3>2. Meaning(copt[c], c, v + 1) = SealEnd
      BY <1>3 DEF Meaning
    <3>3. Fragment(c, copt[c].zip, SealEnd) = f[v + 1]
      BY <3>1, <3>2, FragmentIsPiece
    <3>4. Append(Slice(f, e, v), f[v + 1]) = Slice(f, e, v + 1)
      BY <1>3, <3>1, SliceAppend, Zenon
    <3>5. s = Slice(f, e, v + 1)
      BY <1>4, <2>2, <3>3, <3>4, Zenon
    <3> QED BY <3>1, <3>5
  <2> QED BY <2>1, <2>2
<1>6. GwWrite(c, Slice(f, e, k))
  BY <1>1, <1>5
<1> HIDE DEF e, f, s, v, k
<1>7. /\ DOMAIN held' = Copies /\ DOMAIN up' = Copies
      /\ \A d \in Copies : d # c => held'[d] = held[d] /\ up'[d] = up[d]
      /\ up'[c] \in Seq(Messages(copt[c], c))
      /\ Sums(c)'
      /\ \E a \in Nat, g \in Nat :
           /\ g <= k
           /\ got'[c] = Slice(f, 0, a)
           /\ Flow(copt[c], c, up'[c], a, g)
           /\ held'[c] = Slice(f, g, k)
  BY <1>1, <1>2, <1>3, <1>5, <1>6, Written DEF f, e
<1>8. /\ cpc'[c] = "flush" /\ copt' = copt /\ Sealed(c)' = k
  BY <1>1 DEF Sealed, Shapes, k
<1>9. Layers(c)'
  BY <1>1, <1>2, <1>8 DEF Layers, Writing
<1>10. \E a \in Nat, g \in Nat : Piped(c, a, g)'
  BY <1>1, <1>2, <1>7, <1>8 DEF Piped, Layers, f
<1>11. Answers(c)'
  BY <1>1, <1>2, <1>8 DEF Answers
<1>12. CopyInv(c)'
  BY <1>2, <1>7, <1>8, <1>9, <1>10, <1>11 DEF CopyInv
<1> QED BY <1>7, <1>12

(* gw.Flush and CloseAndRecv: the rest of the data, then the checksum.     *)
LEMMA CopyFlushKeeps ==
  ASSUME Shapes, NEW c \in Copies, CopyInv(c), CopyFlush(c),
         UNCHANGED published
  PROVE  /\ CopyInv(c)'
         /\ DOMAIN held' = Copies /\ DOMAIN up' = Copies
         /\ \A d \in Copies : d # c => held'[d] = held[d] /\ up'[d] = up[d]
<1> DEFINE o == copt[c]
           f == Stream(copt[c], c)
           k == Size(copt[c])
           rest == [kind |-> "chunk", full |-> FALSE, data |-> held[c]]
           sum == [kind |-> "sum", sum |-> Input(c, nread[c])]
<1>1. /\ cpc[c] = "flush"
      /\ up' = [up EXCEPT ![c] = @ \o IF o.sum THEN <<rest, sum>> ELSE <<rest>>]
      /\ held' = [held EXCEPT ![c] = << >>]
      /\ upEnd' = [upEnd EXCEPT ![c] = TRUE]
      /\ cpc' = [cpc EXCEPT ![c] = "reply"]
      /\ UNCHANGED <<copt, nread, crpc, hpc, info, got>>
  BY DEF CopyFlush, receiveVars, At
<1>2. /\ copt[c] # None /\ Layers(c) /\ Answers(c) /\ Sums(c) /\ Writing(c)
      /\ up[c] \in Seq(Messages(o, c))
      /\ \E a \in Nat, h \in Nat : Piped(c, a, h)
  BY <1>1 DEF CopyInv, Writing
<1>3. k \in Nat /\ o.sum \in BOOLEAN
  BY <1>2, Options
<1>4. Sealed(c) = k /\ ~upEnd[c] /\ nread[c] = o.blocks
  BY <1>1, <1>2 DEF Sealed, Layers
<1>5. PICK a \in Nat, h \in Nat : Piped(c, a, h)
  BY <1>2
<1>6. /\ got[c] = Slice(f, 0, a) /\ Flow(o, c, up[c], a, h)
      /\ h <= k /\ held[c] = Slice(f, h, k)
  BY <1>2, <1>4, <1>5 DEF Piped
<1>7. rest = Chunk(o, c, FALSE, h, k) /\ sum = Checksum(o, c)
  BY <1>4, <1>6 DEF Chunk, Checksum
<1>8. Carries(o, c, rest, h, k) /\ Carries(o, c, sum, k, k)
  BY <1>6, <1>7, Zenon DEF Carries
<1>9. rest.kind = "chunk" /\ sum.kind = "sum"
  OBVIOUS
<1>10. /\ DOMAIN held' = Copies /\ DOMAIN up' = Copies
       /\ \A d \in Copies : d # c => held'[d] = held[d] /\ up'[d] = up[d]
       /\ up'[c] = up[c] \o IF o.sum THEN <<rest, sum>> ELSE <<rest>>
       /\ upEnd'[c] = TRUE /\ cpc'[c] = "reply"
  BY <1>1 DEF Shapes
<1> HIDE DEF rest, sum, o, f, k
<1>11. rest \in Messages(o, c) /\ sum \in Messages(o, c)
  BY <1>3, <1>8, MessageSent
<1>12. \A i \in 1..Len(up[c]) : up[c][i].kind # "sum"
  BY <1>2, <1>4 DEF Sums
<1>13. Len(up[c]) \in Nat
  BY <1>2, LenProperties
<1>14. PICK v : v = Append(up[c], rest)
  OBVIOUS
<1>15. /\ v \in Seq(Messages(o, c)) /\ Len(v) = Len(up[c]) + 1
       /\ \A i \in 1..Len(up[c]) : v[i] = up[c][i]
       /\ v[Len(up[c]) + 1] = rest /\ v # << >>
  BY <1>2, <1>11, <1>14, AppendProperties
<1>16. Flow(o, c, v, a, k)
  BY <1>2, <1>3, <1>6, <1>8, <1>11, <1>14, FlowAppend
<1>17. \A i \in 1..Len(v) : v[i].kind # "sum"
  BY <1>9, <1>12, <1>13, <1>15
<1>18. /\ up'[c] \in Seq(Messages(o, c))
       /\ Flow(o, c, up'[c], a, k)
       /\ \A i \in 1..Len(up'[c]) : up'[c][i].kind = "sum" => i = Len(up'[c])
       /\ o.sum => up'[c] # << >> /\ up'[c][Len(up'[c])].kind = "sum"
  <2>1. CASE o.sum
    <3>1. up'[c] = Append(v, sum)
      BY <1>2, <1>10, <1>11, <1>14, <2>1, AppendTwo
    <3>2. PICK z : z = Append(v, sum)
      OBVIOUS
    <3>3. /\ z \in Seq(Messages(o, c)) /\ Len(z) = Len(v) + 1
          /\ \A i \in 1..Len(v) : z[i] = v[i]
          /\ z[Len(v) + 1] = sum /\ z # << >>
      BY <1>11, <1>15, <3>2, AppendProperties
    <3>4. Flow(o, c, z, a, k)
      BY <1>3, <1>8, <1>11, <1>15, <1>16, <3>2, FlowAppend
    <3>5. ASSUME NEW i \in 1..Len(z), z[i].kind = "sum" PROVE i = Len(z)
      <4>1. i \in 1..Len(v) \/ i = Len(z)
        BY <1>13, <1>15, <3>3
      <4> QED BY <1>17, <3>3, <3>5, <4>1
    <3>6. z[Len(z)].kind = "sum"
      BY <1>9, <3>3
    <3> QED BY <3>1, <3>2, <3>3, <3>4, <3>5, <3>6
  <2>2. CASE ~o.sum
    <3>1. up'[c] = up[c] \o <<rest>>
      BY <1>10, <2>2
    <3>2. up'[c] = v
      BY <1>2, <1>11, <1>14, <3>1, AppendIsConcat
    <3> QED BY <1>15, <1>16, <1>17, <2>2, <3>2
  <2> QED BY <1>3, <2>1, <2>2
<1>19. Sums(c)'
  BY <1>1, <1>10, <1>18 DEF Sums, o
<1>20. Piped(c, a, k)'
  BY <1>1, <1>6, <1>10, <1>18 DEF Piped, Writing, o, f, k
<1>21. Layers(c)' /\ Answers(c)'
  BY <1>1, <1>2, <1>10 DEF Layers, Writing, Answers
<1>22. CopyInv(c)'
  <2>1. \E b \in Nat, g \in Nat : Piped(c, b, g)'
    <3>1. k' \in Nat
      BY <1>1, <1>3 DEF k
    <3> QED BY <1>20, <3>1
  <2> QED BY <1>1, <1>2, <1>10, <1>18, <1>19, <1>21, <2>1 DEF CopyInv, o
<1> QED BY <1>10, <1>22

(* The call: Client.Copy sends its header.                                 *)
LEMMA CopyCallKeeps ==
  ASSUME Shapes, NEW c \in Copies, CopyInv(c), CopyCall(c),
         UNCHANGED published
  PROVE  CopyInv(c)'
<1> DEFINE o == copt[c]
           f == Stream(copt[c], c)
<1>1. /\ cpc[c] = "idle" /\ o # None
      /\ up'[c] = IF ~o.header THEN << >> ELSE <<Header(o, c)>>
      /\ cpc'[c] = "read"
      /\ crpc'[c] \in {"open", "broken"}
      /\ hpc'[c] \in {hpc[c], "recv"}
      /\ UNCHANGED <<copt, nread, zbuf, ebuf, held, upEnd, info, got>>
  BY DEF CopyCall, Shapes, Header, At
<1>2. Unused(c)
  BY <1>1 DEF CopyInv
<1>3. o.blocks \in Nat
  BY <1>1, Options
<1>4. Slice(f, 0, 0) = << >>
  BY SliceSmall
<1>5. Delayed(o.zip, 0) = 0 /\ Delayed(o.pwd # None, 0) = 0
  BY DEF Delayed
<1>6. Encoded(c)' = 0 /\ Sealed(c)' = 0
  BY <1>1, <1>2, <1>5 DEF Unused, Encoded, Sealed
<1> HIDE DEF o, f
<1>7. /\ up'[c] \in Seq(Messages(o, c))
      /\ Flow(o, c, up'[c], 0, 0)
      /\ \A i \in 1..Len(up'[c]) : up'[c][i].kind # "sum"
  <2>1. << >> \in Seq(Messages(o, c)) /\ Len(<< >>) = 0
    BY EmptySeq
  <2>2. Flow(o, c, << >>, 0, 0)
    BY FlowEmpty
  <2>3. CASE up'[c] = << >>
    BY <2>1, <2>2, <2>3
  <2>4. CASE up'[c] = <<Header(o, c)>>
    <3>1. Carries(o, c, Header(o, c), 0, 0) /\ Header(o, c) \in Messages(o, c)
      BY DEF Carries, Messages
    <3>2. up'[c] = Append(<< >>, Header(o, c))
      BY <2>4
    <3>3. Len(up'[c]) = 1 /\ up'[c][1] = Header(o, c)
      BY <2>4
    <3>4. Header(o, c).kind # "sum"
      BY DEF Header
    <3>5. /\ Append(<< >>, Header(o, c)) \in Seq(Messages(o, c))
          /\ Flow(o, c, Append(<< >>, Header(o, c)), 0, 0)
      BY <2>1, <2>2, <3>1, FlowAppend
    <3> QED BY <3>2, <3>3, <3>4, <3>5
  <2> QED BY <1>1, <2>3, <2>4
<1>8. Piped(c, 0, 0)'
  BY <1>1, <1>2, <1>4, <1>6, <1>7 DEF Piped, Unused, o, f
<1>9. Layers(c)'
  BY <1>1, <1>2, <1>3, <1>4, <1>6 DEF Layers, Unused, Writing, o, f
<1>10. Sums(c)'
  BY <1>1, <1>2, <1>7 DEF Sums, Unused
<1>11. Answers(c)'
  BY <1>1, <1>2 DEF Answers, Unused
<1> QED BY <1>1, <1>7, <1>8, <1>9, <1>10, <1>11 DEF CopyInv, o

(* The call returns, with or without an error.                             *)
LEMMA CopyEndKeeps ==
  ASSUME NEW c \in Copies, CopyInv(c), cpc[c] # "idle",
         cpc'[c] \in {"ok", "failed"}, cpc'[c] = "ok" => crpc[c] = "ok",
         crpc'[c] \in {crpc[c], "broken"},
         UNCHANGED <<copt, nread, zbuf, ebuf, held, upEnd, up, hpc, info, got,
                     published>>
  PROVE  CopyInv(c)'
<1>1. /\ copt[c] # None /\ up[c] \in Seq(Messages(copt[c], c))
      /\ Layers(c) /\ Sums(c) /\ Answers(c)
      /\ \E a \in Nat, h \in Nat : Piped(c, a, h)
  BY DEF CopyInv
<1>2. Layers(c)' /\ Sums(c)' /\ Answers(c)'
  BY <1>1 DEF Layers, Writing, Sums, Answers
<1>3. PICK a \in Nat, h \in Nat : Piped(c, a, h)
  BY <1>1
<1>4. Piped(c, a, h)'
  BY <1>3 DEF Piped, Writing
<1> QED BY <1>1, <1>2, <1>4 DEF CopyInv

(* Steps of others, and the end of the handler or of the RPC.              *)
LEMMA CopyKept ==
  ASSUME NEW c \in Copies, CopyInv(c), copt' = copt,
         published \subseteq published',
         cpc'[c] = cpc[c], nread'[c] = nread[c], zbuf'[c] = zbuf[c],
         ebuf'[c] = ebuf[c], held'[c] = held[c], up'[c] = up[c],
         upEnd'[c] = upEnd[c], got'[c] = got[c],
         \/ hpc'[c] = hpc[c] /\ info'[c] = info[c]
         \/ hpc'[c] = "done" /\ hpc[c] # "idle",
         \/ crpc'[c] = crpc[c]
         \/ crpc'[c] # "ok" /\ cpc[c] # "idle"
  PROVE  CopyInv(c)'
<1>1. CASE cpc[c] = "idle"
  BY <1>1 DEF CopyInv, Unused
<1>2. CASE cpc[c] # "idle"
  <2>1. /\ copt[c] # None /\ up[c] \in Seq(Messages(copt[c], c))
        /\ Layers(c) /\ Sums(c) /\ Answers(c)
        /\ \E a \in Nat, h \in Nat : Piped(c, a, h)
    BY <1>2 DEF CopyInv
  <2>2. Layers(c)'
    BY <2>1 DEF Layers, Writing, Encoded, Sealed
  <2>3. Sums(c)'
    BY <2>1 DEF Sums
  <2>4. Answers(c)'
    BY <2>1 DEF Answers
  <2>5. PICK a \in Nat, h \in Nat : Piped(c, a, h)
    BY <2>1
  <2>6. Piped(c, a, h)'
    BY <2>5 DEF Piped, Writing, Encoded, Sealed
  <2> QED BY <1>2, <2>1, <2>2, <2>3, <2>4, <2>6 DEF CopyInv
<1> QED BY <1>1, <1>2

-----------------------------------------------------------------------------
(* The steps of the Copy handler                                           *)

(* The handler's Recv takes a message other than the checksum.             *)
LEMMA Received ==
  ASSUME NEW c \in Copies, NEW a \in Nat, NEW h \in Nat,
         up[c] \in Seq(Messages(copt[c], c)), Sums(c), up[c] # << >>,
         Flow(copt[c], c, up[c], a, h), Head(up[c]).kind # "sum",
         up'[c] = Tail(up[c]), UNCHANGED <<copt, upEnd>>
  PROVE  /\ up'[c] \in Seq(Messages(copt[c], c)) /\ Sums(c)'
         /\ \E d \in Nat : /\ Carries(copt[c], c, Head(up[c]), a, d)
                           /\ Flow(copt[c], c, up'[c], d, h)
<1>0. PICK o, u, v : o = copt[c] /\ u = up[c] /\ v = up'[c]
  OBVIOUS
<1>1. /\ u \in Seq(Messages(o, c)) /\ u # << >> /\ v = Tail(u)
      /\ Flow(o, c, u, a, h) /\ Head(u).kind # "sum"
      /\ \A i \in 1..Len(u) : u[i].kind = "sum" => upEnd[c] /\ i = Len(u)
      /\ upEnd[c] /\ o.sum => u # << >> /\ u[Len(u)].kind = "sum"
  BY <1>0 DEF Sums
<1>2. /\ Head(u) = u[1] /\ v \in Seq(Messages(o, c))
      /\ \E d \in Nat : Carries(o, c, Head(u), a, d) /\ Flow(o, c, v, d, h)
  BY <1>1, FlowTail
<1>3. /\ Len(v) = Len(u) - 1
      /\ \A i \in 1..Len(v) : v[i] = u[i + 1]
  BY <1>1, HeadTailProperties
<1>4. Len(u) \in Nat \ {0}
  BY <1>1, EmptySeq
<1>5. ASSUME NEW i \in 1..Len(v), v[i].kind = "sum"
      PROVE  upEnd[c] /\ i = Len(v)
  <2>1. i + 1 \in 1..Len(u) /\ u[i + 1].kind = "sum"
    BY <1>3, <1>4, <1>5
  <2>2. upEnd[c] /\ i + 1 = Len(u)
    BY <1>1, <2>1
  <2> QED BY <1>3, <1>4, <2>2
<1>6. ASSUME upEnd[c], o.sum PROVE v # << >> /\ v[Len(v)].kind = "sum"
  <2>1. u[Len(u)].kind = "sum"
    BY <1>1, <1>6
  <2>2. Len(u) # 1
    BY <1>1, <1>2, <2>1
  <2>3. Len(v) \in 1..Len(v) /\ Len(v) + 1 = Len(u)
    BY <1>3, <1>4, <2>2
  <2>4. v[Len(v)] = u[Len(u)]
    BY <1>3, <2>3
  <2>5. v # << >>
    BY <1>2, <2>3, EmptySeq
  <2> QED BY <2>1, <2>4, <2>5
<1>7. Sums(c)'
  BY <1>0, <1>5, <1>6 DEF Sums
<1> QED BY <1>0, <1>2, <1>7

(* The header.                                                             *)
LEMMA HandleInfoKeeps ==
  ASSUME Shapes, NEW c \in Copies, CopyInv(c), HandleInfo(c),
         UNCHANGED copyVars
  PROVE  CopyInv(c)'
<1>1. /\ hpc[c] = "recv" /\ up[c] # << >> /\ Head(up[c]).kind = "info"
      /\ info'[c] = Head(up[c]) /\ up'[c] = Tail(up[c]) /\ hpc'[c] = "write"
      /\ UNCHANGED <<copt, cpc, nread, zbuf, ebuf, held, upEnd, got, crpc,
                     published>>
  BY DEF HandleInfo, Shapes, At, clipVars, copyVars
<1>2. cpc[c] # "idle"
  BY <1>1 DEF CopyInv, Unused
<1>3. /\ copt[c] # None /\ up[c] \in Seq(Messages(copt[c], c))
      /\ Layers(c) /\ Sums(c) /\ Answers(c)
      /\ \E a \in Nat, h \in Nat : Piped(c, a, h)
  BY <1>2 DEF CopyInv
<1>4. PICK a \in Nat, h \in Nat : Piped(c, a, h)
  BY <1>3
<1>5. Flow(copt[c], c, up[c], a, h)
  BY <1>4 DEF Piped
<1>6. /\ up'[c] \in Seq(Messages(copt[c], c)) /\ Sums(c)'
      /\ \E d \in Nat : /\ Carries(copt[c], c, Head(up[c]), a, d)
                        /\ Flow(copt[c], c, up'[c], d, h)
  BY <1>1, <1>3, <1>5, Received
<1>7. Head(up[c]) = Header(copt[c], c) /\ Flow(copt[c], c, up'[c], a, h)
  <2>1. PICK d \in Nat : /\ Carries(copt[c], c, Head(up[c]), a, d)
                         /\ Flow(copt[c], c, up'[c], d, h)
    BY <1>6
  <2>2. Head(up[c]) = Header(copt[c], c) /\ a = d
    BY <1>1, <2>1, InfoMessage, Zenon
  <2> QED BY <2>1, <2>2
<1>8. Piped(c, a, h)'
  BY <1>1, <1>4, <1>7 DEF Piped, Writing, Encoded, Sealed
<1>9. Layers(c)'
  BY <1>1, <1>3 DEF Layers, Writing, Encoded, Sealed
<1>10. Answers(c)'
  BY <1>1, <1>3, <1>7 DEF Answers
<1> QED BY <1>1, <1>2, <1>3, <1>6, <1>8, <1>9, <1>10 DEF CopyInv

(* A chunk: what has been read and what is still on the way stay adjoining. *)
LEMMA HandleChunkKeeps ==
  ASSUME Shapes, NEW c \in Copies, CopyInv(c), HandleChunk(c),
         UNCHANGED copyVars
  PROVE  CopyInv(c)'
<1> DEFINE f == Stream(copt[c], c)
<1>1. /\ hpc[c] = "write" /\ up[c] # << >> /\ Head(up[c]).kind = "chunk"
      /\ got'[c] = got[c] \o Head(up[c]).data /\ up'[c] = Tail(up[c])
      /\ UNCHANGED <<copt, cpc, nread, zbuf, ebuf, held, upEnd, hpc, info, crpc,
                     published>>
  BY DEF HandleChunk, Shapes, clipVars, copyVars
<1>2. cpc[c] # "idle"
  BY <1>1 DEF CopyInv, Unused
<1>3. /\ copt[c] # None /\ up[c] \in Seq(Messages(copt[c], c))
      /\ Layers(c) /\ Sums(c) /\ Answers(c)
      /\ \E a \in Nat, h \in Nat : Piped(c, a, h)
  BY <1>2 DEF CopyInv
<1>4. PICK a \in Nat, h \in Nat : Piped(c, a, h)
  BY <1>3
<1>5. Flow(copt[c], c, up[c], a, h) /\ got[c] = Slice(f, 0, a)
  BY <1>4 DEF Piped
<1>6. /\ up'[c] \in Seq(Messages(copt[c], c)) /\ Sums(c)'
      /\ \E d \in Nat : /\ Carries(copt[c], c, Head(up[c]), a, d)
                        /\ Flow(copt[c], c, up'[c], d, h)
  BY <1>1, <1>3, <1>5, Received
<1>7. PICK d \in Nat : /\ Carries(copt[c], c, Head(up[c]), a, d)
                       /\ Flow(copt[c], c, up'[c], d, h)
  BY <1>6
<1>8. a <= d /\ Head(up[c]).data = Slice(f, a, d)
  <2>1. PICK o, m : o = copt[c] /\ m = Head(up[c])
    OBVIOUS
  <2>2. Carries(o, c, m, a, d) /\ m.kind = "chunk"
    BY <1>1, <1>7, <2>1
  <2>3. a <= d /\ m.data = Slice(Stream(o, c), a, d)
    BY <2>2, ChunkMessage
  <2> QED BY <2>1, <2>3
<1>9. got'[c] = Slice(f, 0, d)
  <2>1. 0 \in Nat /\ 0 <= a
    OBVIOUS
  <2>2. Slice(f, 0, a) \o Slice(f, a, d) = Slice(f, 0, d)
    BY <1>8, <2>1, SliceConcat, Zenon
  <2> QED BY <1>1, <1>5, <1>8, <2>2
<1>10. Piped(c, d, h)'
  BY <1>1, <1>4, <1>7, <1>9 DEF Piped, Writing, Encoded, Sealed
<1>11. Layers(c)'
  BY <1>1, <1>3 DEF Layers, Writing, Encoded, Sealed
<1>12. Answers(c)'
  BY <1>1, <1>3 DEF Answers
<1> QED BY <1>1, <1>2, <1>3, <1>6, <1>10, <1>11, <1>12 DEF CopyInv

(* At the end of the stream everything has been read: what WriteBatch puts in
   the place of the clipboard is the whole of one copy.                    *)
LEMMA HandlePublishKeeps ==
  ASSUME Shapes, NEW c \in Copies, CopyInv(c), Contents, HandlePublish(c),
         UNCHANGED copyVars
  PROVE  CopyInv(c)' /\ Contents' /\ published \subseteq published'
<1> DEFINE o == copt[c]
           f == Stream(copt[c], c)
           new == [by |-> c, zip |-> info[c].zip, nonce |-> info[c].nonce,
                   data |-> got[c],
                   sum |-> IF up[c] = << >> THEN None ELSE Head(up[c]).sum]
<1>1. /\ hpc[c] = "write" /\ NextEof(c)
      /\ clip' = new /\ published' = published \union {new}
      /\ hpc'[c] = "done"
      /\ UNCHANGED <<copt, cpc, nread, zbuf, ebuf, held, upEnd, up, info, got>>
  BY DEF HandlePublish, Shapes, At, copyVars
<1>2. cpc[c] # "idle"
  BY <1>1 DEF CopyInv, Unused
<1>3. /\ copt[c] # None /\ up[c] \in Seq(Messages(o, c))
      /\ Layers(c) /\ Sums(c) /\ Answers(c)
      /\ \E a \in Nat, h \in Nat : Piped(c, a, h)
  BY <1>2 DEF CopyInv
<1>4. PICK a \in Nat, h \in Nat : Piped(c, a, h)
  BY <1>3
<1>5. /\ Flow(o, c, up[c], a, h) /\ got[c] = Slice(f, 0, a)
      /\ upEnd[c] => h = Size(o)
  BY <1>4 DEF Piped
<1>6. info[c] = Header(o, c) /\ o.sum \in BOOLEAN
  BY <1>1, <1>3, Options DEF Answers
<1>7. /\ upEnd[c] /\ a = h
      /\ new.sum \in {None, Input(c, o.blocks)}
      /\ o.sum => new.sum = Input(c, o.blocks)
  <2> HIDE DEF o
  <2>1. CASE up[c] = << >> /\ upEnd[c]
    <3>1. a = h
      BY <1>5, <2>1, FlowEmpty
    <3>2. ~o.sum
      BY <1>3, <2>1 DEF Sums, o
    <3> QED BY <2>1, <3>1, <3>2
  <2>2. CASE up[c] # << >> /\ Head(up[c]).kind = "sum"
    <3>1. PICK u : u = up[c]
      OBVIOUS
    <3>2. /\ u \in Seq(Messages(o, c)) /\ u # << >> /\ Flow(o, c, u, a, h)
          /\ Head(u).kind = "sum"
      BY <1>3, <1>5, <2>2, <3>1
    <3>3. /\ Head(u) = u[1] /\ Tail(u) \in Seq(Messages(o, c))
          /\ \E d \in Nat : /\ Carries(o, c, Head(u), a, d)
                            /\ Flow(o, c, Tail(u), d, h)
      BY <3>2, FlowTail
    <3>4. PICK d \in Nat : /\ Carries(o, c, Head(u), a, d)
                           /\ Flow(o, c, Tail(u), d, h)
      BY <3>3
    <3>5. Head(u) = Checksum(o, c) /\ a = d
      BY <3>2, <3>4, SumMessage, Zenon
    <3>6. Len(u) \in Nat \ {0} /\ 1 \in 1..Len(u)
      BY <3>2, EmptySeq
    <3>7. upEnd[c] /\ 1 = Len(u)
      BY <1>3, <3>1, <3>2, <3>3, <3>6 DEF Sums
    <3>8. Tail(u) = << >>
      <4>1. Len(Tail(u)) = Len(u) - 1
        BY <3>2, HeadTailProperties
      <4> QED BY <3>3, <3>7, <4>1, EmptySeq
    <3>9. d = h
      <4>1. Flow(o, c, << >>, d, h)
        BY <3>4, <3>8
      <4> QED BY <4>1, FlowEmpty
    <3>10. new.sum = Input(c, o.blocks)
      BY <2>2, <3>1, <3>5 DEF Checksum
    <3> QED BY <3>5, <3>7, <3>9, <3>10
  <2> QED BY <1>1, <2>1, <2>2 DEF NextEof
<1>8. PICK x : x = new
  OBVIOUS
<1>9. /\ x.by = c /\ x.zip = Header(o, c).zip /\ x.nonce = Header(o, c).nonce
      /\ x.data = Slice(f, 0, Size(o)) /\ x.sum = new.sum
  BY <1>5, <1>6, <1>7, <1>8
<1>10. clip' = x /\ published' = published \union {x}
  BY <1>1, <1>8
<1> HIDE DEF new
<1>11. Contents' /\ published \subseteq published'
  <2>1. Genuine(x)'
    BY <1>1, <1>2, <1>3, <1>7, <1>9 DEF Genuine, Header
  <2>2. \A y \in published : Genuine(y)'
    BY <1>1 DEF Contents, Genuine
  <2> QED BY <1>10, <2>1, <2>2 DEF Contents
<1>12. Answers(c)'
  BY <1>1, <1>9, <1>10 DEF Answers
<1>13. Layers(c)' /\ Sums(c)'
  BY <1>1, <1>3 DEF Layers, Sums, Writing, Encoded, Sealed
<1>14. Piped(c, a, h)'
  BY <1>1, <1>4 DEF Piped, Writing, Encoded, Sealed
<1>15. CopyInv(c)'
  BY <1>1, <1>2, <1>3, <1>12, <1>13, <1>14 DEF CopyInv
<1> QED BY <1>11, <1>15

-----------------------------------------------------------------------------
(* What a stream decodes to                                                *)

(* When the marks come last, what remains without them is what is before
   them.                                                                   *)
LEMMA UnmarkedPrefix ==
  ASSUME NEW s, NEW n \in Nat, NEW m \in Nat, m <= n, DOMAIN s = 1..n,
         \A i \in 1..n : IsMark(s[i]) <=> i > m
  PROVE  Unmarked(s) = [i \in 1..m |-> s[i]]
<1>1. {i \in DOMAIN s : ~IsMark(s[i])} = 1..m
  OBVIOUS
<1>2. Cardinality(1..m) = m
  BY FS_Interval
<1>3. ASSUME NEW j \in 1..m
      PROVE  (CHOOSE i \in 1..m : Cardinality({k \in 1..m : k <= i}) = j) = j
  <2>1. ASSUME NEW i \in 1..m PROVE Cardinality({k \in 1..m : k <= i}) = i
    <3>1. {k \in 1..m : k <= i} = 1..i
      OBVIOUS
    <3>2. Cardinality(1..i) = i
      BY FS_Interval
    <3> QED BY <3>1, <3>2
  <2>2. \A i \in 1..m : Cardinality({k \in 1..m : k <= i}) = j <=> i = j
    BY <2>1
  <2> QED BY <2>2
<1>4. Unmarked(s) =
        [j \in 1..m |->
           s[CHOOSE i \in 1..m : Cardinality({k \in 1..m : k <= i}) = j]]
  <2>1. PICK K : K = {i \in DOMAIN s : ~IsMark(s[i])}
    OBVIOUS
  <2>2. Unmarked(s) =
          [j \in 1..Cardinality(K) |->
             s[CHOOSE i \in K : Cardinality({k \in K : k <= i}) = j]]
    BY <2>1 DEF Unmarked
  <2>3. K = 1..m /\ Cardinality(K) = m
    BY <1>1, <1>2, <2>1
  <2> QED BY <2>2, <2>3, ZenonT(30)
<1> QED BY <1>3, <1>4

(* The marks of a stream come last, for a copy is not None.                *)
LEMMA MarksLast ==
  ASSUME NEW o, NEW c \in Copies, o.blocks \in Nat, NEW i \in Nat
  PROVE  IsMark(Meaning(o, c, i)) <=> i > o.blocks
<1>1. c # None
  BY NoneAssumption
<1>2. CASE i <= o.blocks
  BY <1>1, <1>2 DEF Meaning, IsMark, ZipEnd, SealEnd
<1>3. CASE i > o.blocks
  BY <1>3 DEF Meaning, IsMark
<1> QED BY <1>2, <1>3

(* What the decoder has written of the first k pieces.                     *)
LEMMA Decoded ==
  ASSUME NEW o, NEW c \in Copies, o.blocks \in Nat, NEW k \in Nat,
         NEW s, DOMAIN s = 1..k,
         \A i \in 1..k : s[i] = Meaning(o, c, i)
  PROVE  /\ k >= o.blocks => Unmarked(s) = Input(c, o.blocks)
         /\ k <= o.blocks => Unmarked(s) = Input(c, k)
<1>1. \A i \in 1..k : IsMark(s[i]) <=> i > o.blocks
  BY MarksLast
<1>2. \A i \in 1..k : i <= o.blocks => s[i] = <<c, i>>
  BY DEF Meaning
<1>3. ASSUME k >= o.blocks PROVE Unmarked(s) = Input(c, o.blocks)
  <2>1. Unmarked(s) = [i \in 1..o.blocks |-> s[i]]
    BY <1>1, <1>3, UnmarkedPrefix
  <2>2. \A i \in 1..o.blocks : s[i] = <<c, i>>
    BY <1>2, <1>3
  <2> QED BY <2>1, <2>2 DEF Input
<1>4. ASSUME k <= o.blocks PROVE Unmarked(s) = Input(c, k)
  <2>1. \A i \in 1..k : IsMark(s[i]) <=> i > k
    BY <1>1, <1>4
  <2>2. k <= k
    OBVIOUS
  <2>3. Unmarked(s) = [i \in 1..k |-> s[i]]
    BY <2>1, <2>2, UnmarkedPrefix
  <2>4. \A i \in 1..k : s[i] = <<c, i>>
    BY <1>2, <1>4
  <2> QED BY <2>3, <2>4 DEF Input
<1> QED BY <1>3, <1>4

(* The length and the pieces of a content.                                 *)
LEMMA ContentFacts ==
  ASSUME Shapes, NEW x, Genuine(x)
  PROVE  /\ x.by \in Copies /\ copt[x.by] # None
         /\ copt[x.by].blocks \in Nat /\ Size(copt[x.by]) \in Nat
         /\ copt[x.by].blocks <= Size(copt[x.by])
         /\ Len(x.data) = Size(copt[x.by])
         /\ DOMAIN x.data = 1..Size(copt[x.by])
         /\ \A i \in 1..Len(x.data) : x.data[i] = Stream(copt[x.by], x.by)[i]
<1>1. /\ x.by \in Copies /\ copt[x.by] # None
      /\ x.data = Slice(Stream(copt[x.by], x.by), 0, Size(copt[x.by]))
  BY DEF Genuine
<1>2. /\ copt[x.by].blocks \in Nat /\ Size(copt[x.by]) \in Nat
      /\ copt[x.by].blocks <= Size(copt[x.by])
  <2>1. PICK c \in Copies : c = x.by
    BY <1>1
  <2>2. /\ copt[c].blocks \in Nat /\ Size(copt[c]) \in Nat
        /\ Frames(copt[c]) \in Nat /\ copt[c].blocks <= Frames(copt[c])
        /\ Frames(copt[c]) <= Size(copt[c])
    BY <1>1, <2>1, Options
  <2> QED BY <2>1, <2>2
<1>3. PICK n, f, d : /\ n = Size(copt[x.by]) /\ n \in Nat
                     /\ f = Stream(copt[x.by], x.by) /\ d = x.data
  BY <1>2
<1>4. d = Slice(f, 0, n) /\ 0 <= n /\ n - 0 = n
  BY <1>1, <1>3
<1>5. /\ d \in Seq(Values(f)) /\ Len(d) = n - 0
      /\ \A i \in 1..(n - 0) : d[i] = f[0 + i]
  <2>1. n \in Nat /\ 0 \in Nat
    BY <1>3
  <2> QED BY <2>1, <1>4, SliceFacts, Zenon
<1>6. /\ Len(d) = n /\ DOMAIN d = 1..n
      /\ \A i \in 1..n : d[i] = f[i]
  BY <1>3, <1>4, <1>5
<1> QED BY <1>1, <1>2, <1>3, <1>6

-----------------------------------------------------------------------------
(* The steps of a paste                                                    *)

(* The messages in which a content is sent: the header.                    *)
LEMMA MailHeader ==
  ASSUME NEW x
  PROVE  Mail(x)[1] = [kind |-> "info", zip |-> x.zip, nonce |-> x.nonce,
                       hasSum |-> x.sum # None]
BY DEF Mail

(* One piece of the content in each of the messages after the header.      *)
LEMMA MailPiece ==
  ASSUME NEW x, NEW n \in Nat, n = Len(x.data), NEW i \in 1..n
  PROVE  Mail(x)[i + 1] = [kind |-> "chunk", data |-> <<x.data[i]>>]
<1>1. i + 1 \in Nat /\ i + 1 # 1 /\ i + 1 <= n + 1 /\ (i + 1) - 1 = i
  OBVIOUS
<1> QED BY <1>1 DEF Mail

(* The last chunk, which is empty.                                         *)
LEMMA MailRest ==
  ASSUME NEW x, NEW n \in Nat, n = Len(x.data)
  PROVE  Mail(x)[n + 2] = [kind |-> "chunk", data |-> << >>]
<1>1. n + 2 \in Nat /\ n + 2 # 1 /\ ~(n + 2 <= n + 1)
  OBVIOUS
<1> QED BY <1>1 DEF Mail

(* The checksum, which the messages of a content without one leave out.    *)
LEMMA MailSum ==
  ASSUME NEW x, NEW n \in Nat, n = Len(x.data)
  PROVE  Mail(x)[n + 3] = [kind |-> "sum", sum |-> x.sum]
<1>1. n + 3 \in Nat /\ n + 3 # 1 /\ ~(n + 3 <= n + 1) /\ n + 3 # n + 2
  OBVIOUS
<1> QED BY <1>1 DEF Mail

(* Steps of others, and the end of a call, of its handler or of the RPC.   *)
LEMMA PasteKept ==
  ASSUME NEW p \in Pastes, PasteInv(p), copt' = copt,
         published \subseteq published',
         popt'[p] = popt[p], pinfo'[p] = pinfo[p], decoded'[p] = decoded[p],
         down'[p] = down[p], sclip'[p] = sclip[p], pos'[p] = pos[p],
         ppc'[p] = ppc[p] \/ (ppc'[p] = "failed" /\ ppc[p] # "idle"),
         spc'[p] = spc[p] \/ (spc'[p] = "done" /\ spc[p] # "idle"),
         prpc'[p] = prpc[p] \/ prpc'[p] # "ok"
  PROVE  PasteInv(p)'
<1>1. CASE Silent(p)
  <2>1. Silent(p)'
    BY <1>1 DEF Silent
  <2> QED BY <2>1 DEF PasteInv
<1>2. ASSUME NEW x \in published, NEW r \in Nat, NEW s \in Nat,
             Served(p, x, r, s)
      PROVE  PasteInv(p)'
  <2>1. PasteKey(p)' = PasteKey(p)
    BY DEF PasteKey
  <2>2. Served(p, x, r, s)'
    BY <1>2, <2>1 DEF Served
  <2> QED BY <1>2, <2>2 DEF PasteInv
<1> QED BY <1>1, <1>2 DEF PasteInv

(* The call.                                                               *)
LEMMA PasteCallKeeps ==
  ASSUME Shapes, NEW p \in Pastes, PasteInv(p), PasteCall(p),
         UNCHANGED <<sclip, pos>>
  PROVE  PasteInv(p)'
<1>1. /\ ppc[p] = "idle" /\ ppc'[p] = "header"
      /\ spc'[p] \in {spc[p], "open"} /\ prpc'[p] # "ok"
      /\ UNCHANGED <<decoded, down>>
  BY DEF PasteCall, Shapes, At
<1>2. Silent(p)
  BY <1>1 DEF PasteInv, Served
<1>3. Silent(p)'
  BY <1>1, <1>2 DEF Silent
<1> QED BY <1>3 DEF PasteInv

(* An error message is all that a refused paste is sent.                   *)
LEMMA PasteRefuseKeeps ==
  ASSUME Shapes, NEW p \in Pastes, PasteInv(p), PasteRefuse(p),
         UNCHANGED pasteVars
  PROVE  PasteInv(p)'
<1>1. /\ spc[p] = "open" /\ spc'[p] = "done"
      /\ down'[p] = down[p] \o <<[kind |-> "error"]>>
      /\ UNCHANGED <<sclip, pos, popt, ppc, pinfo, decoded>>
  BY DEF PasteRefuse, Post, Shapes, At, pasteVars
<1>2. Silent(p)
  BY <1>1 DEF PasteInv, Served
<1>3. down[p] = << >>
  BY <1>1, <1>2 DEF Silent
<1>4. down'[p] = <<[kind |-> "error"]>>
  BY <1>1, <1>3
<1>5. Silent(p)'
  BY <1>1, <1>2, <1>4 DEF Silent
<1> QED BY <1>5 DEF PasteInv

(* The header begins the sending of the clipboard's content.               *)
LEMMA PasteHeaderKeeps ==
  ASSUME Shapes, Contents, NEW p \in Pastes, PasteInv(p), PasteHeader(p),
         UNCHANGED <<copt, published, pasteVars>>
  PROVE  PasteInv(p)'
<1> DEFINE h == [kind |-> "info", zip |-> clip.zip, nonce |-> clip.nonce,
                 hasSum |-> clip.sum # None]
<1>1. /\ spc[p] = "open" /\ spc'[p] = "send" /\ clip # None
      /\ sclip'[p] = clip /\ down'[p] = down[p] \o <<h>>
      /\ UNCHANGED <<copt, published, pos, prpc, popt, ppc, pinfo, decoded>>
  BY DEF PasteHeader, Post, Shapes, At, pasteVars
<1>2. PICK x \in published : x = clip
  BY <1>1 DEF Contents
<1>3. Silent(p)
  BY <1>1 DEF PasteInv, Served
<1>4. /\ down[p] = << >> /\ decoded[p] = << >> /\ pos[p] = 0
      /\ prpc[p] # "ok" /\ ppc[p] \in {"header", "failed"}
  BY <1>1, <1>3 DEF Silent
<1>5. Genuine(x)
  BY DEF Contents
<1>6. PICK n \in Nat : n = Len(x.data)
  BY <1>5, ContentFacts
<1>7. down'[p] = Slice(Mail(x), 0, 1)
  <2>1. down'[p] = <<h>>
    BY <1>1, <1>4
  <2>2. h = Mail(x)[1]
    BY <1>2, <1>6, MailHeader
  <2>3. Slice(Mail(x), 0, 0 + 1) = <<Mail(x)[0 + 1]>>
    BY SliceSmall, Zenon
  <2>4. 0 + 1 = 1
    OBVIOUS
  <2> QED BY <2>1, <2>2, <2>3, <2>4, Zenon
<1>8. decoded'[p] = Slice(Meanings(copt[x.by], x.by), 0, Brought(x, 0))
  <2>1. Brought(x, 0) = 0
    BY DEF Brought
  <2> QED BY <1>1, <1>4, <2>1, SliceSmall
<1>9. Letters(x) \in Nat /\ 1 <= Letters(x) /\ 0 <= n
  BY <1>6 DEF Letters
<1> HIDE DEF h
<1>10. Served(p, x, 0, 1)'
  <2>1. /\ sclip'[p] = x /\ 0 <= 1 /\ 1 <= Letters(x)
        /\ spc'[p] = "send" /\ prpc'[p] # "ok" /\ ppc'[p] \in {"header", "failed"}
        /\ decoded'[p] = << >> /\ copt' = copt
    BY <1>1, <1>2, <1>4, <1>9
  <2>2. 1 = pos'[p] + 1 /\ pos'[p] <= Len(x.data)
    BY <1>1, <1>4, <1>6, <1>9
  <2> QED BY <1>7, <1>8, <2>1, <2>2 DEF Served
<1> QED BY <1>1, <1>10 DEF PasteInv

(* What the handler appends to what it has sent.                           *)
LEMMA ServedMore ==
  ASSUME Shapes, NEW p \in Pastes, NEW x \in published,
         NEW r \in Nat, NEW s \in Nat, NEW k \in Nat, s <= k, k <= Letters(x),
         Len(x.data) \in Nat, Served(p, x, r, s), spc[p] = "send",
         Post(p, Slice(Mail(x), s, k)),
         \/ spc'[p] = "send" /\ pos'[p] + 1 = k /\ pos'[p] <= Len(x.data)
            /\ prpc'[p] = prpc[p]
         \/ spc'[p] = "done" /\ k = Letters(x),
         UNCHANGED <<copt, published, pasteVars, sclip>>
  PROVE  PasteInv(p)'
<1>1. UNCHANGED <<copt, published, popt, ppc, pinfo, decoded, sclip>>
  BY DEF pasteVars
<1>2. r <= s /\ down[p] = Slice(Mail(x), r, s)
  BY DEF Served
<1>3. down'[p] = Slice(Mail(x), r, k)
  <2>1. down'[p] = down[p] \o Slice(Mail(x), s, k)
    BY DEF Post, Shapes
  <2>2. Slice(Mail(x), r, s) \o Slice(Mail(x), s, k) = Slice(Mail(x), r, k)
    BY <1>2, SliceConcat, Zenon
  <2> QED BY <1>2, <2>1, <2>2
<1>4. r <= k
  BY <1>2
<1>5. PasteKey(p)' = PasteKey(p)
  BY <1>1 DEF PasteKey
<1>6. Len(x.data) + 1 < Letters(x) /\ Letters(x) \in Nat
  BY DEF Letters
<1>7. prpc[p] # "ok"
  BY <1>6 DEF Served, Shapes
<1>8. Served(p, x, r, k)'
  BY <1>1, <1>3, <1>4, <1>5, <1>7 DEF Served
<1> QED BY <1>1, <1>8 DEF PasteInv

(* A chunk of the content.                                                 *)
LEMMA PasteChunkKeeps ==
  ASSUME Shapes, Contents, NEW p \in Pastes, PasteInv(p), PasteChunk(p),
         UNCHANGED <<copt, published, pasteVars>>
  PROVE  PasteInv(p)'
<1>1. /\ spc[p] = "send" /\ spc'[p] = "send" /\ pos[p] < Len(sclip[p].data)
      /\ pos'[p] = pos[p] + 1
      /\ Post(p, <<[kind |-> "chunk", data |-> <<sclip[p].data[pos[p] + 1]>>]>>)
      /\ UNCHANGED <<sclip, prpc>>
  BY DEF PasteChunk, Shapes
<1>2. PICK x \in published, r \in Nat, s \in Nat : Served(p, x, r, s)
  BY <1>1 DEF PasteInv, Silent
<1>3. PICK n \in Nat : n = Len(x.data)
  BY ContentFacts DEF Contents
<1>4. sclip[p] = x /\ s = pos[p] + 1 /\ pos[p] \in Nat /\ pos[p] < n
  BY <1>1, <1>2, <1>3 DEF Served, Shapes
<1>5. s \in 1..n /\ s <= s + 1 /\ s + 1 \in Nat /\ s + 1 <= Letters(x)
  BY <1>3, <1>4 DEF Letters
<1>6. Mail(x)[s + 1] = [kind |-> "chunk", data |-> <<x.data[s]>>]
  BY <1>3, <1>5, MailPiece
<1>7. Slice(Mail(x), s, s + 1) = <<Mail(x)[s + 1]>>
  BY SliceSmall
<1>8. Post(p, Slice(Mail(x), s, s + 1))
  BY <1>1, <1>4, <1>6, <1>7
<1>9. pos'[p] + 1 = s + 1 /\ pos'[p] <= Len(x.data)
  BY <1>1, <1>3, <1>4
<1> QED BY <1>1, <1>2, <1>3, <1>5, <1>8, <1>9, ServedMore

(* The end of the content.                                                 *)
LEMMA PasteFlushKeeps ==
  ASSUME Shapes, Contents, NEW p \in Pastes, PasteInv(p), PasteFlush(p),
         UNCHANGED <<copt, published, pasteVars>>
  PROVE  PasteInv(p)'
<1>1. /\ spc[p] = "send" /\ spc'[p] = "done" /\ pos[p] = Len(sclip[p].data)
      /\ Post(p, <<[kind |-> "chunk", data |-> << >>]>> \o
                 IF sclip[p].sum = None THEN << >>
                 ELSE <<[kind |-> "sum", sum |-> sclip[p].sum]>>)
      /\ UNCHANGED sclip
  BY DEF PasteFlush, Shapes, At
<1>2. PICK x \in published, r \in Nat, s \in Nat : Served(p, x, r, s)
  BY <1>1 DEF PasteInv, Silent
<1>3. PICK n \in Nat : n = Len(x.data)
  BY ContentFacts DEF Contents
<1>4. sclip[p] = x /\ s = n + 1
  BY <1>1, <1>2, <1>3 DEF Served
<1>5. PICK f : f = Mail(x)
  OBVIOUS
<1>6. /\ f[s + 1] = [kind |-> "chunk", data |-> << >>]
      /\ f[(s + 1) + 1] = [kind |-> "sum", sum |-> x.sum]
  <2>1. s + 1 = n + 2 /\ (s + 1) + 1 = n + 3
    BY <1>4
  <2>2. Mail(x)[n + 2] = [kind |-> "chunk", data |-> << >>]
    BY <1>3, MailRest
  <2>3. Mail(x)[n + 3] = [kind |-> "sum", sum |-> x.sum]
    BY <1>3, MailSum
  <2> QED BY <1>5, <2>1, <2>2, <2>3
<1>7. /\ Slice(f, s, s + 1) = <<f[s + 1]>>
      /\ Slice(f, s + 1, (s + 1) + 1) = <<f[(s + 1) + 1]>>
  <2>1. s + 1 \in Nat
    OBVIOUS
  <2>2. Slice(f, s, s + 1) = <<f[s + 1]>>
    BY SliceSmall
  <2>3. Slice(f, s + 1, (s + 1) + 1) = <<f[(s + 1) + 1]>>
    BY <2>1, SliceSmall, Zenon
  <2> QED BY <2>2, <2>3
<1>8. /\ s + 1 \in Nat /\ s <= s + 1 /\ (s + 1) + 1 \in Nat
      /\ s + 1 <= (s + 1) + 1 /\ s <= (s + 1) + 1
  OBVIOUS
<1>9. PICK k \in Nat : k = Letters(x) /\ s <= k /\ k <= Letters(x)
  BY <1>3, <1>4 DEF Letters
<1>10. Post(p, Slice(f, s, k))
  <2>1. CASE x.sum = None
    <3>1. k = s + 1
      BY <1>3, <1>4, <1>9, <2>1 DEF Letters
    <3>2. Post(p, <<f[s + 1]>> \o << >>)
      BY <1>1, <1>4, <1>6, <2>1
    <3>3. <<f[s + 1]>> \o << >> = <<f[s + 1]>>
      <4>1. PICK S : S = {f[s + 1]}
        OBVIOUS
      <4>2. <<f[s + 1]>> \in Seq(S)
        BY <4>1
      <4> QED BY <4>2, ConcatEmptySeq
    <3> QED BY <1>7, <3>1, <3>2, <3>3
  <2>2. CASE x.sum # None
    <3>1. k = (s + 1) + 1
      BY <1>3, <1>4, <1>9, <2>2 DEF Letters
    <3>2. Post(p, <<f[s + 1]>> \o <<f[(s + 1) + 1]>>)
      BY <1>1, <1>4, <1>6, <2>2
    <3>3. Slice(f, s, s + 1) \o Slice(f, s + 1, (s + 1) + 1)
            = Slice(f, s, (s + 1) + 1)
      BY <1>8, SliceConcat, ZenonT(30)
    <3>4. <<f[s + 1]>> \o <<f[(s + 1) + 1]>> = Slice(f, s, k)
      BY <1>7, <3>1, <3>3, Zenon
    <3> QED BY <3>2, <3>4, Zenon
  <2> QED BY <2>1, <2>2
<1> QED BY <1>1, <1>2, <1>3, <1>5, <1>9, <1>10, ServedMore

(* The first message tells whether there is something to paste.            *)
LEMMA PasteFirstKeeps ==
  ASSUME Shapes, Contents, NEW p \in Pastes, PasteInv(p), PasteFirst(p),
         UNCHANGED <<copt, published, sclip, pos>>
  PROVE  PasteInv(p)'
<1>1. /\ ppc[p] = "header" /\ down[p] # << >> /\ down'[p] = Tail(down[p])
      /\ IF Head(down[p]).kind = "info"
           THEN pinfo'[p] = Head(down[p]) /\ ppc'[p] = "read"
           ELSE ppc'[p] = "failed"
      /\ UNCHANGED <<copt, published, sclip, pos, popt, decoded, prpc, spc>>
  BY DEF PasteFirst, Shapes, At
<1>2. CASE Silent(p)
  <2>1. down[p] = <<[kind |-> "error"]>> /\ spc[p] = "done"
    BY <1>1, <1>2 DEF Silent
  <2>2. Head(down[p]).kind = "error" /\ Tail(down[p]) = << >>
    BY <2>1
  <2>3. ppc'[p] = "failed" /\ down'[p] = << >>
    BY <1>1, <2>2
  <2>4. Silent(p)'
    BY <1>1, <1>2, <2>1, <2>3 DEF Silent
  <2> QED BY <2>4 DEF PasteInv
<1>3. ASSUME NEW x \in published, NEW r \in Nat, NEW s \in Nat,
             Served(p, x, r, s)
      PROVE  PasteInv(p)'
  <2>1. PICK n \in Nat : n = Len(x.data)
    BY ContentFacts DEF Contents
  <2>2. r = 0 /\ down[p] = Slice(Mail(x), 0, s)
    BY <1>1, <1>3 DEF Served
  <2>3. 0 < s /\ 1 <= s
    <3>1. CASE s = 0
      BY <1>1, <2>2, <3>1, SliceSmall
    <3> QED BY <3>1
  <2>4. Head(down[p]) = Mail(x)[1] /\ down'[p] = Slice(Mail(x), 1, s)
    <3>1. /\ Head(Slice(Mail(x), 0, s)) = Mail(x)[0 + 1]
          /\ Tail(Slice(Mail(x), 0, s)) = Slice(Mail(x), 0 + 1, s)
      BY <2>3, SliceTail, Zenon
    <3>2. 0 + 1 = 1
      OBVIOUS
    <3> QED BY <1>1, <2>2, <3>1, <3>2
  <2>5. Mail(x)[1].kind = "info"
    <3>1. Mail(x)[1] = [kind |-> "info", zip |-> x.zip, nonce |-> x.nonce,
                        hasSum |-> x.sum # None]
      BY MailHeader
    <3> QED BY <3>1
  <2>6. pinfo'[p] = Mail(x)[1] /\ ppc'[p] = "read"
    BY <1>1, <2>4, <2>5
  <2>7. Brought(x, 0) = 0 /\ Brought(x, 1) = 0
    BY <2>1 DEF Brought
  <2>8. decoded[p] = << >>
    BY <1>3, <2>2, <2>7, SliceSmall DEF Served
  <2>9. Served(p, x, 1, s)'
    BY <1>1, <1>3, <2>2, <2>3, <2>4, <2>6, <2>7, <2>8 DEF Served
  <2> QED BY <1>1, <2>9 DEF PasteInv
<1> QED BY <1>2, <1>3 DEF PasteInv

(* What the kind of the next message says about its place.                 *)
LEMMA NextMail ==
  ASSUME NEW x, NEW n \in Nat, n = Len(x.data),
         NEW r \in Nat, NEW s \in Nat, r > 0, r <= s, s <= Letters(x),
         NEW d, d = Slice(Mail(x), r, s), d # << >>
  PROVE  /\ r < s /\ r + 1 \in Nat /\ r + 1 <= s
         /\ Tail(d) = Slice(Mail(x), r + 1, s)
         /\ Head(d).kind = "sum" => r >= n + 2
         /\ Head(d).kind = "chunk" => r <= n + 1
         /\ r <= n => Head(d) = [kind |-> "chunk", data |-> <<x.data[r]>>]
         /\ r > n /\ Head(d).kind = "chunk" =>
              Head(d) = [kind |-> "chunk", data |-> << >>]
<1>1. r # s
  BY SliceSmall
<1>2. r < s /\ r + 1 \in Nat /\ r + 1 <= s
  BY <1>1
<1>3. Head(d) = Mail(x)[r + 1] /\ Tail(d) = Slice(Mail(x), r + 1, s)
  BY <1>2, SliceTail
<1>4. s <= n + 3
  BY DEF Letters
<1>5. ASSUME r <= n
      PROVE  Head(d) = [kind |-> "chunk", data |-> <<x.data[r]>>]
  <2>1. r \in 1..n
    BY <1>5
  <2>2. Mail(x)[r + 1] = [kind |-> "chunk", data |-> <<x.data[r]>>]
    BY <2>1, MailPiece
  <2> QED BY <1>3, <2>2
<1>6. ASSUME r = n + 1 PROVE Head(d) = [kind |-> "chunk", data |-> << >>]
  <2>1. Mail(x)[n + 2] = [kind |-> "chunk", data |-> << >>]
    BY MailRest
  <2>2. r + 1 = n + 2
    BY <1>6
  <2> QED BY <1>3, <2>1, <2>2
<1>7. ASSUME r = n + 2 PROVE Head(d).kind = "sum"
  <2>1. Mail(x)[n + 3] = [kind |-> "sum", sum |-> x.sum]
    BY MailSum
  <2>2. r + 1 = n + 3
    BY <1>7
  <2> QED BY <1>3, <2>1, <2>2
<1>8. r <= n \/ r = n + 1 \/ r = n + 2
  BY <1>2, <1>4
<1>9. CASE r <= n
  <2>1. Head(d).kind = "chunk" /\ r <= n + 1 /\ ~(r > n)
    BY <1>5, <1>9
  <2> QED BY <1>2, <1>3, <1>5, <2>1
<1>10. CASE r = n + 1
  <2>1. Head(d).kind = "chunk" /\ r <= n + 1 /\ ~(r <= n)
    BY <1>6, <1>10
  <2> QED BY <1>2, <1>3, <1>6, <1>10, <2>1
<1>11. CASE r = n + 2
  <2>1. Head(d).kind = "sum" /\ r >= n + 2 /\ ~(r <= n)
    BY <1>7, <1>11
  <2> QED BY <1>2, <1>3, <2>1
<1> QED BY <1>8, <1>9, <1>10, <1>11

(* Data that are authentic continue what has been decoded.                 *)
LEMMA PasteReadKeeps ==
  ASSUME Shapes, Contents, NEW p \in Pastes, PasteInv(p), PasteRead(p),
         UNCHANGED <<copt, published, sclip, pos>>
  PROVE  PasteInv(p)'
<1>1. /\ ppc[p] = "read" /\ down[p] # << >> /\ Head(down[p]).kind = "chunk"
      /\ Authentic(p, Head(down[p]).data)
      /\ decoded'[p] = decoded[p] \o
           [i \in DOMAIN Head(down[p]).data |-> Decode(p, Head(down[p]).data[i])]
      /\ down'[p] = Tail(down[p])
      /\ UNCHANGED <<copt, published, sclip, pos, popt, ppc, pinfo, prpc, spc>>
  BY DEF PasteRead, Shapes
<1>2. PICK x \in published, r \in Nat, s \in Nat : Served(p, x, r, s)
  BY <1>1 DEF PasteInv, Silent
<1>3. Genuine(x)
  BY DEF Contents
<1>4. PICK n \in Nat : n = Len(x.data)
  BY <1>3, ContentFacts
<1>5. PICK f : f = Meanings(copt[x.by], x.by)
  OBVIOUS
<1>6. /\ r > 0 /\ r <= s /\ s <= Letters(x) /\ down[p] = Slice(Mail(x), r, s)
      /\ decoded[p] = Slice(f, 0, Brought(x, r))
  BY <1>1, <1>2, <1>5 DEF Served
<1>7. /\ r < s /\ r + 1 \in Nat /\ r + 1 <= s
      /\ down'[p] = Slice(Mail(x), r + 1, s) /\ r <= n + 1
      /\ r <= n => Head(down[p]).data = <<x.data[r]>>
      /\ r = n + 1 => Head(down[p]).data = << >>
  <2>1. PICK d : d = down[p]
    OBVIOUS
  <2>2. d = Slice(Mail(x), r, s) /\ d # << >> /\ Head(d).kind = "chunk"
    BY <1>1, <1>6, <2>1
  <2>3. d = Slice(Mail(x), r, s) /\ d # << >>
    BY <2>2
  <2>4. /\ r < s /\ r + 1 \in Nat /\ r + 1 <= s
        /\ Tail(d) = Slice(Mail(x), r + 1, s)
        /\ Head(d).kind = "chunk" => r <= n + 1
        /\ r <= n => Head(d) = [kind |-> "chunk", data |-> <<x.data[r]>>]
        /\ r > n /\ Head(d).kind = "chunk" =>
             Head(d) = [kind |-> "chunk", data |-> << >>]
    BY <1>4, <1>6, <2>3, NextMail
  <2>5. r <= n => Head(d).data = <<x.data[r]>>
    BY <2>4
  <2>6. r = n + 1 => Head(d).data = << >>
    BY <2>2, <2>4
  <2> QED BY <1>1, <2>1, <2>2, <2>4, <2>5, <2>6
<1>8. PasteKey(p)' = PasteKey(p)
  BY <1>1 DEF PasteKey
<1>9. CASE r <= n
  <2>1. r \in 1..n /\ r - 1 \in Nat /\ 0 <= r - 1 /\ r - 1 <= r /\ (r - 1) + 1 = r
    BY <1>6, <1>9
  <2>2. Brought(x, r) = r - 1 /\ Brought(x, r + 1) = r
    BY <1>4, <1>6, <1>9 DEF Brought
  <2>3. x.data[r] = Stream(copt[x.by], x.by)[r]
    BY <1>3, <1>4, <2>1, ContentFacts
  <2>4. /\ x.data[r].key = Key(copt[x.by].pwd, x.by)
        /\ x.data[r].of = f[r]
    BY <1>5, <2>3 DEF Stream, Meanings
  <2>5. x.data[r].key = PasteKey(p)
    BY <1>1, <1>7, <1>9 DEF Authentic
  <2>6. decoded'[p] = decoded[p] \o <<f[r]>>
    <3>1. PICK e : e = x.data[r]
      OBVIOUS
    <3>2. Decode(p, e) = f[r]
      BY <2>4, <2>5, <3>1 DEF Decode
    <3>3. [i \in DOMAIN <<e>> |-> Decode(p, <<e>>[i])] = <<f[r]>>
      BY <3>2
    <3> QED BY <1>1, <1>7, <1>9, <3>1, <3>3
  <2>7. decoded'[p] = Slice(f, 0, r)
    <3>1. Slice(f, r - 1, (r - 1) + 1) = <<f[(r - 1) + 1]>>
      BY <2>1, SliceSmall, Zenon
    <3>2. Slice(f, 0, r - 1) \o Slice(f, r - 1, r) = Slice(f, 0, r)
      BY <2>1, SliceConcat, Zenon
    <3> QED BY <1>6, <2>1, <2>2, <2>6, <3>1, <3>2
  <2>8. Served(p, x, r + 1, s)'
    <3>1. /\ decoded'[p] = Slice(Meanings(copt'[x.by], x.by), 0, Brought(x, r + 1))
          /\ Key(copt'[x.by].pwd, x.by) = PasteKey(p)' /\ r + 1 > 0
      <4>1. copt' = copt /\ r + 1 > 0
        BY <1>1
      <4>2. Slice(f, 0, r) = Slice(Meanings(copt[x.by], x.by), 0, Brought(x, r + 1))
        BY <1>5, <2>2
      <4>3. Key(copt[x.by].pwd, x.by) = PasteKey(p)
        BY <2>4, <2>5
      <4> QED BY <1>8, <2>7, <4>1, <4>2, <4>3
    <3> QED BY <1>1, <1>2, <1>7, <3>1 DEF Served
  <2> QED BY <1>1, <1>7, <2>8 DEF PasteInv
<1>10. CASE r = n + 1
  <2>1. Brought(x, r) = n /\ Brought(x, r + 1) = n
    BY <1>4, <1>6, <1>10 DEF Brought
  <2>2. decoded'[p] = decoded[p]
    <3>1. [i \in DOMAIN << >> |-> Decode(p, << >>[i])] = << >>
      OBVIOUS
    <3>2. decoded'[p] = decoded[p] \o << >>
      BY <1>1, <1>7, <1>10, <3>1
    <3>3. decoded[p] \in Seq(Values(f))
      <4>1. 0 \in Nat /\ 0 <= n
        OBVIOUS
      <4>2. Slice(f, 0, n) \in Seq(Values(f))
        BY <4>1, SliceFacts, Zenon
      <4> QED BY <1>6, <2>1, <4>2
    <3> QED BY <3>2, <3>3, ConcatEmptySeq
  <2>3. Served(p, x, r + 1, s)'
    <3>1. /\ ppc[p] = "read"
          /\ UNCHANGED <<copt, published, sclip, pos, ppc, pinfo, prpc, spc>>
      BY <1>1
    <3>2. /\ decoded'[p] = Slice(Meanings(copt[x.by], x.by), 0, Brought(x, r + 1))
          /\ decoded'[p] # << >> => Key(copt[x.by].pwd, x.by) = PasteKey(p)
      BY <1>2, <2>1, <2>2 DEF Served
    <3>3. /\ r + 1 > 0 /\ r + 1 <= s /\ down'[p] = Slice(Mail(x), r + 1, s)
      BY <1>7
    <3> QED BY <1>2, <1>8, <3>1, <3>2, <3>3 DEF Served
  <2> QED BY <1>1, <1>7, <2>3 DEF PasteInv
<1> QED BY <1>7, <1>9, <1>10

(* At the end everything has been decoded.                                 *)
LEMMA PasteVerifyKeeps ==
  ASSUME Shapes, Contents, NEW p \in Pastes, PasteInv(p), PasteVerify(p),
         UNCHANGED <<copt, published, sclip, pos>>
  PROVE  PasteInv(p)'
<1>1. /\ ppc[p] = "read" /\ PasteEof(p)
      /\ ppc'[p] \in {"ok", "failed"} /\ (ppc'[p] = "ok" => Complete(p))
      /\ UNCHANGED <<copt, published, sclip, pos, popt, pinfo, decoded, down,
                     prpc, spc>>
  BY DEF PasteVerify, Shapes, At
<1>2. PICK x \in published, r \in Nat, s \in Nat : Served(p, x, r, s)
  BY <1>1 DEF PasteInv, Silent
<1>3. Genuine(x)
  BY DEF Contents
<1>4. PICK n \in Nat : n = Len(x.data)
  BY <1>3, ContentFacts
<1>5. /\ r > 0 /\ r <= s /\ s <= Letters(x) /\ down[p] = Slice(Mail(x), r, s)
      /\ pinfo[p] = Mail(x)[1]
      /\ prpc[p] = "ok" => s = Letters(x)
  BY <1>1, <1>2 DEF Served
<1>6. r >= n + 2
  <2>1. CASE down[p] # << >> /\ Head(down[p]).kind = "sum"
    <3>1. PICK d : d = down[p]
      OBVIOUS
    <3>2. d = Slice(Mail(x), r, s) /\ d # << >> /\ Head(d).kind = "sum"
      BY <1>5, <2>1, <3>1
    <3>3. Head(d).kind = "sum" => r >= n + 2
      BY <1>4, <1>5, <3>2, NextMail
    <3> QED BY <3>2, <3>3
  <2>2. CASE down[p] = << >> /\ prpc[p] = "ok"
    <3>1. r = s
      <4>1. Slice(Mail(x), r, s) = << >> <=> r = s
        BY <1>5, SliceLast
      <4> QED BY <1>5, <2>2, <4>1
    <3>2. Letters(x) >= n + 2
      BY <1>4 DEF Letters
    <3> QED BY <1>5, <2>2, <3>1, <3>2
  <2> QED BY <1>1, <2>1, <2>2 DEF PasteEof
<1>7. Brought(x, r) = n
  BY <1>4, <1>6 DEF Brought
<1>8. pinfo[p].nonce = x.nonce
  <2>1. Mail(x)[1] = [kind |-> "info", zip |-> x.zip, nonce |-> x.nonce,
                      hasSum |-> x.sum # None]
    BY MailHeader
  <2> QED BY <1>5, <2>1
<1>9. ppc'[p] = "ok" /\ x.nonce # None => decoded[p] # << >>
  BY <1>1, <1>8 DEF Complete
<1>10. PasteKey(p)' = PasteKey(p)
  BY <1>1 DEF PasteKey
<1>11. Served(p, x, r, s)'
  BY <1>1, <1>2, <1>4, <1>5, <1>7, <1>9, <1>10 DEF Served
<1> QED BY <1>1, <1>11 DEF PasteInv

-----------------------------------------------------------------------------
(* Every step keeps the invariant                                          *)

(* A step leaves the copy d, or the paste p, alone.                        *)
CopyStill(d) ==
  /\ cpc'[d] = cpc[d] /\ nread'[d] = nread[d] /\ zbuf'[d] = zbuf[d]
  /\ ebuf'[d] = ebuf[d] /\ held'[d] = held[d] /\ up'[d] = up[d]
  /\ upEnd'[d] = upEnd[d] /\ crpc'[d] = crpc[d] /\ hpc'[d] = hpc[d]
  /\ info'[d] = info[d] /\ got'[d] = got[d]
PasteStill(p) ==
  /\ popt'[p] = popt[p] /\ ppc'[p] = ppc[p] /\ pinfo'[p] = pinfo[p]
  /\ decoded'[p] = decoded[p] /\ down'[p] = down[p] /\ prpc'[p] = prpc[p]
  /\ spc'[p] = spc[p] /\ sclip'[p] = sclip[p] /\ pos'[p] = pos[p]

(* A step of one copy leaves the others alone.                             *)
LEMMA OtherCopies ==
  ASSUME NEW c \in Copies, \A d \in Copies : CopyInv(d), CopyInv(c)',
         copt' = copt, published \subseteq published',
         \A d \in Copies : d # c => CopyStill(d)
  PROVE  \A d \in Copies : CopyInv(d)'
<1>1. ASSUME NEW d \in Copies, d # c PROVE CopyInv(d)'
  BY <1>1, CopyKept DEF CopyStill
<1> QED BY <1>1

(* A step of one paste leaves the others alone.                            *)
LEMMA OtherPastes ==
  ASSUME NEW p \in Pastes, \A q \in Pastes : PasteInv(q), PasteInv(p)',
         copt' = copt, published' = published,
         \A q \in Pastes : q # p => PasteStill(q)
  PROVE  \A q \in Pastes : PasteInv(q)'
<1>1. ASSUME NEW q \in Pastes, q # p PROVE PasteInv(q)'
  <2>1. PasteInv(q) /\ PasteStill(q) /\ published \subseteq published'
    BY <1>1
  <2> QED BY <2>1, PasteKept DEF PasteStill
<1> QED BY <1>1

(* What a copy does does not concern the pastes.                           *)
LEMMA AllPastesKept ==
  ASSUME \A p \in Pastes : PasteInv(p), copt' = copt,
         published \subseteq published',
         UNCHANGED <<pasteVars, down, prpc, sendVars>>
  PROVE  \A p \in Pastes : PasteInv(p)'
<1>1. UNCHANGED <<popt, ppc, pinfo, decoded, down, prpc, spc, sclip, pos>>
  BY DEF pasteVars, sendVars
<1>2. ASSUME NEW p \in Pastes PROVE PasteInv(p)'
  <2>1. PasteInv(p) /\ PasteStill(p)
    BY <1>1 DEF PasteStill
  <2> QED BY <2>1, PasteKept DEF PasteStill
<1> QED BY <1>2

(* What a paste does never concerns the copies.                            *)
LEMMA AllCopiesKept ==
  ASSUME \A c \in Copies : CopyInv(c), UNCHANGED published,
         UNCHANGED <<copyVars, up, crpc, receiveVars>>
  PROVE  \A c \in Copies : CopyInv(c)'
<1>1. UNCHANGED <<copt, cpc, nread, zbuf, ebuf, held, upEnd, up, crpc, hpc,
                  info, got>>
  BY DEF copyVars, receiveVars
<1>2. ASSUME NEW c \in Copies PROVE CopyInv(c)'
  BY <1>1, CopyKept
<1> QED BY <1>2

(* A content stays what it is.                                             *)
LEMMA ContentsKept ==
  ASSUME Contents, UNCHANGED <<copt, published>>, clip' \in {clip, None},
         \A c \in Copies : cpc[c] # "idle" => cpc'[c] # "idle"
  PROVE  Contents'
<1>1. \A x \in published : Genuine(x)'
  BY DEF Contents, Genuine
<1> QED BY <1>1 DEF Contents

(* The steps of Client.Copy.                                               *)
LEMMA ClientCopyStep ==
  ASSUME TransferInv, NEW c \in Copies, ClientCopy(c)
  PROVE  TransferInv'
<1>1. /\ Shapes /\ Contents /\ \A d \in Copies : CopyInv(d)
      /\ \A p \in Pastes : PasteInv(p)
  BY DEF TransferInv
<1>2. /\ UNCHANGED <<clip, published>>
      /\ UNCHANGED <<pasteVars, down, prpc, sendVars>>
      /\ CopyCall(c) \/ CopyRuns(c) \/ CopyAbort(c)
  BY DEF ClientCopy, clipVars
<1>3. UNCHANGED <<popt, ppc, pinfo, decoded, down, prpc, spc, sclip, pos>>
  BY <1>2 DEF pasteVars, sendVars
<1>4. /\ CopyInv(c)' /\ copt' = copt /\ Shapes'
      /\ cpc'[c] # "idle"
      /\ \A d \in Copies : d # c => CopyStill(d)
  <2>1. CASE CopyCall(c)
    <3>1. CopyInv(c)'
      BY <1>1, <1>2, <2>1, CopyCallKeeps
    <3>2. copt' = copt /\ Shapes' /\ cpc'[c] # "idle"
      BY <1>1, <1>3, <2>1 DEF CopyCall, Shapes, At
    <3>3. \A d \in Copies : d # c => CopyStill(d)
      BY <1>1, <2>1 DEF CopyCall, Shapes, At, CopyStill
    <3> QED BY <3>1, <3>2, <3>3
  <2>2. CASE CopyBlock(c)
    <3>1. /\ CopyInv(c)'
          /\ DOMAIN zbuf' = Copies /\ DOMAIN ebuf' = Copies
          /\ DOMAIN held' = Copies /\ DOMAIN up' = Copies
          /\ \A d \in Copies : d # c => /\ zbuf'[d] = zbuf[d]
                                        /\ ebuf'[d] = ebuf[d]
                                        /\ held'[d] = held[d]
                                        /\ up'[d] = up[d]
      BY <1>1, <1>2, <2>2, CopyBlockKeeps
    <3>2. /\ cpc[c] = "read" /\ nread' = [nread EXCEPT ![c] = @ + 1]
          /\ UNCHANGED <<copt, cpc, upEnd, crpc, hpc, info, got>>
      BY <2>2 DEF CopyBlock, receiveVars
    <3>3. Shapes'
      BY <1>1, <1>3, <3>1, <3>2 DEF Shapes
    <3>4. \A d \in Copies : d # c => CopyStill(d)
      BY <1>1, <3>1, <3>2 DEF Shapes, CopyStill
    <3> QED BY <3>1, <3>2, <3>3, <3>4
  <2>3. CASE CloseEncoder(c)
    <3>1. /\ CopyInv(c)'
          /\ DOMAIN ebuf' = Copies
          /\ DOMAIN held' = Copies /\ DOMAIN up' = Copies
          /\ \A d \in Copies : d # c => /\ ebuf'[d] = ebuf[d]
                                        /\ held'[d] = held[d]
                                        /\ up'[d] = up[d]
      BY <1>1, <1>2, <2>3, CloseEncoderKeeps
    <3>2. /\ cpc' = [cpc EXCEPT ![c] = "seal"]
          /\ zbuf' = [zbuf EXCEPT ![c] = << >>]
          /\ UNCHANGED <<copt, nread, upEnd, crpc, hpc, info, got>>
      BY <2>3 DEF CloseEncoder, receiveVars, At
    <3>3. Shapes' /\ cpc'[c] # "idle"
      BY <1>1, <1>3, <3>1, <3>2 DEF Shapes
    <3>4. \A d \in Copies : d # c => CopyStill(d)
      BY <1>1, <3>1, <3>2 DEF Shapes, CopyStill
    <3> QED BY <3>1, <3>2, <3>3, <3>4
  <2>4. CASE CloseEncrypter(c)
    <3>1. /\ CopyInv(c)'
          /\ DOMAIN held' = Copies /\ DOMAIN up' = Copies
          /\ \A d \in Copies : d # c => held'[d] = held[d] /\ up'[d] = up[d]
      BY <1>1, <1>2, <2>4, CloseEncrypterKeeps
    <3>2. /\ cpc' = [cpc EXCEPT ![c] = "flush"]
          /\ ebuf' = [ebuf EXCEPT ![c] = << >>]
          /\ UNCHANGED <<copt, nread, zbuf, upEnd, crpc, hpc, info, got>>
      BY <2>4 DEF CloseEncrypter, receiveVars, At
    <3>3. Shapes' /\ cpc'[c] # "idle"
      BY <1>1, <1>3, <3>1, <3>2 DEF Shapes
    <3>4. \A d \in Copies : d # c => CopyStill(d)
      BY <1>1, <3>1, <3>2 DEF Shapes, CopyStill
    <3> QED BY <3>1, <3>2, <3>3, <3>4
  <2>5. CASE CopyFlush(c)
    <3>1. /\ CopyInv(c)'
          /\ DOMAIN held' = Copies /\ DOMAIN up' = Copies
          /\ \A d \in Copies : d # c => held'[d] = held[d] /\ up'[d] = up[d]
      BY <1>1, <1>2, <2>5, CopyFlushKeeps
    <3>2. /\ cpc' = [cpc EXCEPT ![c] = "reply"]
          /\ upEnd' = [upEnd EXCEPT ![c] = TRUE]
          /\ UNCHANGED <<copt, nread, zbuf, ebuf, crpc, hpc, info, got>>
      BY <2>5 DEF CopyFlush, receiveVars, At
    <3>3. Shapes' /\ cpc'[c] # "idle"
      BY <1>1, <1>3, <3>1, <3>2 DEF Shapes
    <3>4. \A d \in Copies : d # c => CopyStill(d)
      BY <1>1, <3>1, <3>2 DEF Shapes, CopyStill
    <3> QED BY <3>1, <3>2, <3>3, <3>4
  <2>6. CASE CopyReply(c) \/ CopyFail(c) \/ CopyAbort(c)
    <3>1. PICK code \in {"ok", "failed"} :
            /\ cpc[c] # "idle" /\ cpc' = [cpc EXCEPT ![c] = code]
            /\ code = "ok" => crpc[c] = "ok"
            /\ crpc' = crpc \/ crpc' = [crpc EXCEPT ![c] = "broken"]
            /\ UNCHANGED <<copt, nread, zbuf, ebuf, held, upEnd, up, hpc, info,
                           got>>
      BY <2>6 DEF CopyReply, CopyFail, CopyAbort, Active, receiveVars, At
    <3>2. Shapes' /\ cpc'[c] = code /\ crpc'[c] \in {crpc[c], "broken"}
      BY <1>1, <1>3, <3>1 DEF Shapes
    <3>3. CopyInv(c)'
      BY <1>1, <1>2, <3>1, <3>2, CopyEndKeeps
    <3>4. \A d \in Copies : d # c => CopyStill(d)
      BY <1>1, <3>1 DEF Shapes, CopyStill
    <3> QED BY <3>1, <3>2, <3>3, <3>4
  <2> QED BY <1>2, <2>1, <2>2, <2>3, <2>4, <2>5, <2>6 DEF CopyRuns
<1>5. \A d \in Copies : CopyInv(d)'
  BY <1>1, <1>2, <1>4, OtherCopies
<1>6. \A p \in Pastes : PasteInv(p)'
  BY <1>1, <1>2, <1>4, AllPastesKept
<1>7. Contents'
  <2>1. \A d \in Copies : cpc[d] # "idle" => cpc'[d] # "idle"
    BY <1>4 DEF CopyStill
  <2> QED BY <1>1, <1>2, <1>4, <2>1, ContentsKept
<1> QED BY <1>4, <1>5, <1>6, <1>7 DEF TransferInv

(* The steps of the server's Copy handler.                                 *)
LEMMA ServeCopyStep ==
  ASSUME TransferInv, NEW c \in Copies, ServeCopy(c)
  PROVE  TransferInv'
<1>1. /\ Shapes /\ Contents /\ \A d \in Copies : CopyInv(d)
      /\ \A p \in Pastes : PasteInv(p)
  BY DEF TransferInv
<1>2. /\ UNCHANGED copyVars
      /\ UNCHANGED <<copt, cpc, nread, zbuf, ebuf, held, upEnd>>
      /\ UNCHANGED <<pasteVars, down, prpc, sendVars>>
      /\ HandlerRuns(c) \/ HandleDbError(c)
  BY DEF ServeCopy, copyVars
<1>3. UNCHANGED <<popt, ppc, pinfo, decoded, down, prpc, spc, sclip, pos>>
  BY <1>2 DEF pasteVars, sendVars
<1>4. /\ CopyInv(c)' /\ Contents' /\ published \subseteq published' /\ Shapes'
      /\ \A d \in Copies : d # c => CopyStill(d)
  <2>1. CASE HandleInfo(c)
    <3>1. CopyInv(c)'
      BY <1>1, <1>2, <2>1, HandleInfoKeeps
    <3>2. UNCHANGED <<clip, published>>
      BY <2>1 DEF HandleInfo, clipVars
    <3>3. Shapes'
      BY <1>1, <1>2, <1>3, <2>1 DEF HandleInfo, Shapes, At
    <3>4. \A d \in Copies : d # c => CopyStill(d)
      BY <1>1, <1>2, <2>1 DEF HandleInfo, Shapes, At, CopyStill
    <3>5. Contents'
      BY <1>1, <1>2, <3>2, ContentsKept
    <3> QED BY <3>1, <3>2, <3>3, <3>4, <3>5
  <2>2. CASE HandleChunk(c)
    <3>1. CopyInv(c)'
      BY <1>1, <1>2, <2>2, HandleChunkKeeps
    <3>2. UNCHANGED <<clip, published>>
      BY <2>2 DEF HandleChunk, clipVars
    <3>3. Shapes'
      BY <1>1, <1>2, <1>3, <2>2 DEF HandleChunk, Shapes
    <3>4. \A d \in Copies : d # c => CopyStill(d)
      BY <1>1, <1>2, <2>2 DEF HandleChunk, Shapes, CopyStill
    <3>5. Contents'
      BY <1>1, <1>2, <3>2, ContentsKept
    <3> QED BY <3>1, <3>2, <3>3, <3>4, <3>5
  <2>3. CASE HandlePublish(c)
    <3>1. CopyInv(c)' /\ Contents' /\ published \subseteq published'
      BY <1>1, <1>2, <2>3, HandlePublishKeeps
    <3>2. Shapes'
      BY <1>1, <1>2, <1>3, <2>3 DEF HandlePublish, Shapes, At, Return
    <3>3. \A d \in Copies : d # c => CopyStill(d)
      BY <1>1, <1>2, <2>3 DEF HandlePublish, Shapes, At, Return, CopyStill
    <3> QED BY <3>1, <3>2, <3>3
  <2>4. CASE HandleError(c) \/ HandleDbError(c)
    <3>1. /\ hpc[c] # "idle" /\ hpc' = [hpc EXCEPT ![c] = "done"]
          /\ crpc' = [crpc EXCEPT ![c] = IF @ = "open" THEN "error" ELSE @]
          /\ UNCHANGED <<up, info, got, clip, published>>
      BY <2>4 DEF HandleError, HandleDbError, At, Return, clipVars
    <3>2. Shapes'
      BY <1>1, <1>2, <1>3, <3>1 DEF Shapes
    <3>3. \A d \in Copies : d # c => CopyStill(d)
      BY <1>1, <1>2, <3>1 DEF Shapes, CopyStill
    <3>4. hpc'[c] = "done" /\ (crpc'[c] = crpc[c] \/ crpc'[c] # "ok")
      BY <1>1, <3>1 DEF Shapes
    <3>5. cpc[c] # "idle"
      BY <1>1, <3>1 DEF CopyInv, Unused
    <3>6. CopyInv(c)'
      BY <1>1, <1>2, <3>1, <3>4, <3>5, CopyKept
    <3>7. Contents'
      BY <1>1, <1>2, <3>1, ContentsKept
    <3> QED BY <3>1, <3>2, <3>3, <3>6, <3>7
  <2> QED BY <1>2, <2>1, <2>2, <2>3, <2>4 DEF HandlerRuns
<1>5. \A d \in Copies : CopyInv(d)'
  BY <1>1, <1>2, <1>4, OtherCopies
<1>6. \A p \in Pastes : PasteInv(p)'
  BY <1>1, <1>2, <1>4, AllPastesKept
<1> QED BY <1>4, <1>5, <1>6 DEF TransferInv

(* A panic of the handler ends every call of the server process.           *)
LEMMA PanicStep ==
  ASSUME TransferInv, NEW c \in Copies, HandlePanic(c)
  PROVE  TransferInv'
<1>1. /\ Shapes /\ Contents /\ \A d \in Copies : CopyInv(d)
      /\ \A p \in Pastes : PasteInv(p)
  BY DEF TransferInv
<1>2. /\ UNCHANGED <<copt, cpc, nread, zbuf, ebuf, held, upEnd, up, info, got,
                     clip, published, popt, ppc, pinfo, decoded, down, sclip,
                     pos>>
      /\ hpc' = [d \in Copies |-> IF hpc[d] = "idle" THEN "idle" ELSE "done"]
      /\ spc' = [p \in Pastes |-> IF spc[p] = "idle" THEN "idle" ELSE "done"]
      /\ crpc' = [d \in Copies |-> IF crpc[d] = "open" THEN "broken"
                                   ELSE crpc[d]]
      /\ prpc' = [p \in Pastes |-> IF prpc[p] = "open" THEN "broken"
                                   ELSE prpc[p]]
  BY DEF HandlePanic, copyVars, clipVars, pasteVars
<1>3. Shapes'
  BY <1>1, <1>2 DEF Shapes
<1>4. ASSUME NEW d \in Copies PROVE CopyInv(d)'
  <2>1. CopyInv(d)
    BY <1>1
  <2>2. \/ hpc'[d] = hpc[d] /\ info'[d] = info[d]
        \/ hpc'[d] = "done" /\ hpc[d] # "idle"
    BY <1>2
  <2>3. crpc'[d] = crpc[d] \/ (crpc'[d] # "ok" /\ cpc[d] # "idle")
    BY <1>2, <2>1 DEF CopyInv, Unused
  <2> QED BY <1>2, <2>1, <2>2, <2>3, CopyKept
<1>5. ASSUME NEW p \in Pastes PROVE PasteInv(p)'
  <2>1. PasteInv(p)
    BY <1>1
  <2>2. /\ spc'[p] = spc[p] \/ (spc'[p] = "done" /\ spc[p] # "idle")
        /\ prpc'[p] = prpc[p] \/ prpc'[p] # "ok"
    BY <1>2
  <2> QED BY <1>2, <2>1, <2>2, PasteKept
<1>6. Contents'
  BY <1>1, <1>2, ContentsKept
<1> QED BY <1>3, <1>4, <1>5, <1>6 DEF TransferInv

(* The steps of Client.Paste.                                              *)
LEMMA ClientPasteStep ==
  ASSUME TransferInv, NEW p \in Pastes, ClientPaste(p)
  PROVE  TransferInv'
<1>1. /\ Shapes /\ Contents /\ \A c \in Copies : CopyInv(c)
      /\ \A q \in Pastes : PasteInv(q)
  BY DEF TransferInv
<1>2. /\ UNCHANGED <<copyVars, up, crpc, receiveVars>>
      /\ UNCHANGED <<clip, published, sclip, pos>>
      /\ PasteCall(p) \/ PasteRuns(p) \/ PasteAbort(p)
  BY DEF ClientPaste, clipVars
<1>3. UNCHANGED <<copt, cpc, nread, zbuf, ebuf, held, upEnd, up, crpc, hpc,
                  info, got>>
  BY <1>2 DEF copyVars, receiveVars
<1>4. /\ PasteInv(p)' /\ Shapes'
      /\ \A q \in Pastes : q # p => PasteStill(q)
  <2>1. CASE PasteCall(p)
    <3>1. PasteInv(p)'
      BY <1>1, <1>2, <2>1, PasteCallKeeps
    <3>2. Shapes'
      BY <1>1, <1>2, <1>3, <2>1 DEF PasteCall, Shapes, At
    <3>3. \A q \in Pastes : q # p => PasteStill(q)
      BY <1>1, <1>2, <2>1 DEF PasteCall, Shapes, At, PasteStill
    <3> QED BY <3>1, <3>2, <3>3
  <2>2. CASE PasteFirst(p)
    <3>1. PasteInv(p)'
      BY <1>1, <1>2, <1>3, <2>2, PasteFirstKeeps
    <3>2. Shapes'
      BY <1>1, <1>2, <1>3, <2>2 DEF PasteFirst, Shapes, At
    <3>3. \A q \in Pastes : q # p => PasteStill(q)
      BY <1>1, <1>2, <2>2 DEF PasteFirst, Shapes, At, PasteStill
    <3> QED BY <3>1, <3>2, <3>3
  <2>3. CASE PasteRead(p)
    <3>1. PasteInv(p)'
      BY <1>1, <1>2, <1>3, <2>3, PasteReadKeeps
    <3>2. Shapes'
      BY <1>1, <1>2, <1>3, <2>3 DEF PasteRead, Shapes
    <3>3. \A q \in Pastes : q # p => PasteStill(q)
      BY <1>1, <1>2, <2>3 DEF PasteRead, Shapes, PasteStill
    <3> QED BY <3>1, <3>2, <3>3
  <2>4. CASE PasteVerify(p)
    <3>1. PasteInv(p)'
      BY <1>1, <1>2, <1>3, <2>4, PasteVerifyKeeps
    <3>2. Shapes'
      BY <1>1, <1>2, <1>3, <2>4 DEF PasteVerify, Shapes, At
    <3>3. \A q \in Pastes : q # p => PasteStill(q)
      BY <1>1, <1>2, <2>4 DEF PasteVerify, Shapes, At, PasteStill
    <3> QED BY <3>1, <3>2, <3>3
  <2>5. CASE PasteFail(p) \/ PasteAbort(p)
    <3>1. /\ ppc[p] # "idle" /\ ppc' = [ppc EXCEPT ![p] = "failed"]
          /\ prpc' = [prpc EXCEPT ![p] = IF @ = "open" THEN "broken" ELSE @]
          /\ UNCHANGED <<popt, pinfo, decoded, down, spc>>
      BY <2>5 DEF PasteFail, PasteAbort, Active, At, Return
    <3>2. Shapes'
      BY <1>1, <1>2, <1>3, <3>1 DEF Shapes
    <3>3. \A q \in Pastes : q # p => PasteStill(q)
      BY <1>1, <1>2, <3>1 DEF Shapes, PasteStill
    <3>4. ppc'[p] = "failed" /\ (prpc'[p] = prpc[p] \/ prpc'[p] # "ok")
      BY <1>1, <3>1 DEF Shapes
    <3>5. PasteInv(p)'
      BY <1>1, <1>2, <1>3, <3>1, <3>4, PasteKept
    <3> QED BY <3>2, <3>3, <3>5
  <2> QED BY <1>2, <2>1, <2>2, <2>3, <2>4, <2>5 DEF PasteRuns
<1>5. \A q \in Pastes : PasteInv(q)'
  BY <1>1, <1>2, <1>3, <1>4, OtherPastes
<1>6. \A c \in Copies : CopyInv(c)'
  BY <1>1, <1>2, AllCopiesKept
<1>7. Contents'
  BY <1>1, <1>2, <1>3, ContentsKept
<1> QED BY <1>4, <1>5, <1>6, <1>7 DEF TransferInv

(* The steps of the server's Paste handler.                                *)
LEMMA ServePasteStep ==
  ASSUME TransferInv, NEW p \in Pastes, ServePaste(p)
  PROVE  TransferInv'
<1>1. /\ Shapes /\ Contents /\ \A c \in Copies : CopyInv(c)
      /\ \A q \in Pastes : PasteInv(q)
  BY DEF TransferInv
<1>2. /\ UNCHANGED <<copyVars, up, crpc, receiveVars>>
      /\ UNCHANGED <<clip, published>> /\ UNCHANGED pasteVars
      /\ \/ PasteRefuse(p) \/ PasteHeader(p) \/ PasteChunk(p)
         \/ PasteFlush(p) \/ PasteHandleError(p)
  BY DEF ServePaste, clipVars
<1>3. UNCHANGED <<copt, cpc, nread, zbuf, ebuf, held, upEnd, up, crpc, hpc,
                  info, got, popt, ppc, pinfo, decoded>>
  BY <1>2 DEF copyVars, receiveVars, pasteVars
<1>4. /\ PasteInv(p)' /\ Shapes'
      /\ \A q \in Pastes : q # p => PasteStill(q)
  <2>1. CASE PasteRefuse(p)
    <3>1. PasteInv(p)'
      BY <1>1, <1>2, <2>1, PasteRefuseKeeps
    <3>2. Shapes'
      BY <1>1, <1>3, <2>1 DEF PasteRefuse, Shapes, At, Post, Return
    <3>3. \A q \in Pastes : q # p => PasteStill(q)
      BY <1>1, <1>3, <2>1 DEF PasteRefuse, Shapes, At, Post, Return, PasteStill
    <3> QED BY <3>1, <3>2, <3>3
  <2>2. CASE PasteHeader(p)
    <3>1. PasteInv(p)'
      BY <1>1, <1>2, <1>3, <2>2, PasteHeaderKeeps
    <3>2. Shapes'
      BY <1>1, <1>3, <2>2 DEF PasteHeader, Shapes, At, Post
    <3>3. \A q \in Pastes : q # p => PasteStill(q)
      BY <1>1, <1>3, <2>2 DEF PasteHeader, Shapes, At, Post, PasteStill
    <3> QED BY <3>1, <3>2, <3>3
  <2>3. CASE PasteChunk(p)
    <3>1. PasteInv(p)'
      BY <1>1, <1>2, <1>3, <2>3, PasteChunkKeeps
    <3>2. Shapes'
      BY <1>1, <1>3, <2>3 DEF PasteChunk, Shapes, Post
    <3>3. \A q \in Pastes : q # p => PasteStill(q)
      BY <1>1, <1>3, <2>3 DEF PasteChunk, Shapes, Post, PasteStill
    <3> QED BY <3>1, <3>2, <3>3
  <2>4. CASE PasteFlush(p)
    <3>1. PasteInv(p)'
      BY <1>1, <1>2, <1>3, <2>4, PasteFlushKeeps
    <3>2. Shapes'
      BY <1>1, <1>3, <2>4 DEF PasteFlush, Shapes, At, Post, Return
    <3>3. \A q \in Pastes : q # p => PasteStill(q)
      BY <1>1, <1>3, <2>4 DEF PasteFlush, Shapes, At, Post, Return, PasteStill
    <3> QED BY <3>1, <3>2, <3>3
  <2>5. CASE PasteHandleError(p)
    <3>1. /\ spc[p] # "idle" /\ spc' = [spc EXCEPT ![p] = "done"]
          /\ prpc' = [prpc EXCEPT ![p] = IF @ = "open" THEN "error" ELSE @]
          /\ UNCHANGED <<down, sclip, pos>>
      BY <2>5 DEF PasteHandleError, At, Return
    <3>2. Shapes'
      BY <1>1, <1>3, <3>1 DEF Shapes
    <3>3. \A q \in Pastes : q # p => PasteStill(q)
      BY <1>1, <1>3, <3>1 DEF Shapes, PasteStill
    <3>4. spc'[p] = "done" /\ (prpc'[p] = prpc[p] \/ prpc'[p] # "ok")
      BY <1>1, <3>1 DEF Shapes
    <3>5. PasteInv(p)'
      BY <1>1, <1>2, <1>3, <3>1, <3>4, PasteKept
    <3> QED BY <3>2, <3>3, <3>5
  <2> QED BY <1>2, <2>1, <2>2, <2>3, <2>4, <2>5
<1>5. \A q \in Pastes : PasteInv(q)'
  BY <1>1, <1>2, <1>3, <1>4, OtherPastes
<1>6. \A c \in Copies : CopyInv(c)'
  BY <1>1, <1>2, AllCopiesKept
<1>7. Contents'
  BY <1>1, <1>2, <1>3, ContentsKept
<1> QED BY <1>4, <1>5, <1>6, <1>7 DEF TransferInv

(* The clipboard is emptied, or nothing happens.                           *)
LEMMA EmptiedStep ==
  ASSUME TransferInv, clip' \in {clip, None},
         UNCHANGED <<copyVars, up, crpc, receiveVars, published, pasteVars,
                     down, prpc, sendVars>>
  PROVE  TransferInv'
<1>1. /\ Shapes /\ Contents /\ \A c \in Copies : CopyInv(c)
      /\ \A p \in Pastes : PasteInv(p)
  BY DEF TransferInv
<1>2. /\ UNCHANGED <<copyVars, up, crpc, receiveVars>>
      /\ UNCHANGED <<pasteVars, down, prpc, sendVars>>
      /\ published' = published /\ published \subseteq published'
  OBVIOUS
<1>3. UNCHANGED <<copt, cpc, nread, zbuf, ebuf, held, upEnd, up, crpc, hpc,
                  info, got, popt, ppc, pinfo, decoded, down, prpc, spc, sclip,
                  pos>>
  BY <1>2 DEF copyVars, receiveVars, pasteVars, sendVars
<1>4. Shapes'
  BY <1>1, <1>3 DEF Shapes
<1>5. \A c \in Copies : CopyInv(c)'
  BY <1>1, <1>2, AllCopiesKept
<1>6. \A p \in Pastes : PasteInv(p)'
  BY <1>1, <1>2, <1>3, AllPastesKept
<1>7. Contents'
  BY <1>1, <1>2, <1>3, ContentsKept
<1> QED BY <1>4, <1>5, <1>6, <1>7 DEF TransferInv

(* A connection is lost: the client's RPC is broken, and the data on the way
   are as if they arrived late.                                            *)
LEMMA BreakStep ==
  ASSUME TransferInv, Break
  PROVE  TransferInv'
<1>1. /\ Shapes /\ Contents /\ \A c \in Copies : CopyInv(c)
      /\ \A p \in Pastes : PasteInv(p)
  BY DEF TransferInv
<1>2. UNCHANGED <<copt, cpc, nread, zbuf, ebuf, held, upEnd, up, hpc, info, got,
                  clip, published, popt, ppc, pinfo, decoded, down, spc, sclip,
                  pos>>
  BY DEF Break, copyVars, receiveVars, clipVars, pasteVars, sendVars
<1>3. /\ Shapes'
      /\ \A c \in Copies : \/ crpc'[c] = crpc[c]
                           \/ crpc'[c] # "ok" /\ cpc[c] # "idle"
      /\ \A p \in Pastes : prpc'[p] = prpc[p] \/ prpc'[p] # "ok"
  <2>1. CASE \E c \in Copies : /\ Active(cpc, c)
                               /\ crpc' = [crpc EXCEPT ![c] = "broken"]
                               /\ UNCHANGED prpc
    BY <1>1, <1>2, <2>1 DEF Shapes, Active
  <2>2. CASE \E p \in Pastes : /\ prpc' = [prpc EXCEPT ![p] = "broken"]
                               /\ UNCHANGED crpc
    BY <1>1, <1>2, <2>2 DEF Shapes
  <2> QED BY <2>1, <2>2 DEF Break, At
<1>4. ASSUME NEW c \in Copies PROVE CopyInv(c)'
  <2>1. CopyInv(c) /\ published \subseteq published'
    BY <1>1, <1>2
  <2>2. crpc'[c] = crpc[c] \/ (crpc'[c] # "ok" /\ cpc[c] # "idle")
    BY <1>3
  <2> QED BY <1>2, <2>1, <2>2, CopyKept
<1>5. ASSUME NEW p \in Pastes PROVE PasteInv(p)'
  <2>1. PasteInv(p) /\ published \subseteq published'
    BY <1>1, <1>2
  <2>2. prpc'[p] = prpc[p] \/ prpc'[p] # "ok"
    BY <1>3
  <2> QED BY <1>2, <2>1, <2>2, PasteKept
<1>6. Contents'
  BY <1>1, <1>2, ContentsKept
<1> QED BY <1>3, <1>4, <1>5, <1>6 DEF TransferInv

(* The invariant of the transfers: whatever the interleaving of the clients,
   the handlers, the broken streams and the panics, a copy's stream lies in
   order and without a gap in the layers of Client.Copy, on the way and in
   WriteBatch; the clipboard only ever holds whole streams; and a Paste has
   decoded a beginning of one of them.                                     *)
THEOREM TransferInvariant == Spec => []TransferInv
<1>1. Init => TransferInv
  <2> SUFFICES ASSUME Init PROVE TransferInv
    OBVIOUS
  <2>1. Shapes
    BY DEF Init, Shapes
  <2>2. \A c \in Copies : CopyInv(c)
    BY DEF Init, CopyInv, Unused
  <2>3. Contents
    BY DEF Init, Contents
  <2>4. \A p \in Pastes : PasteInv(p)
    BY DEF Init, PasteInv, Silent
  <2> QED BY <2>1, <2>2, <2>3, <2>4 DEF TransferInv
<1>2. TransferInv /\ [Next]_vars => TransferInv'
  <2> SUFFICES ASSUME TransferInv, [Next]_vars PROVE TransferInv'
    OBVIOUS
  <2>1. ASSUME NEW c \in Copies, ClientCopy(c) PROVE TransferInv'
    BY <2>1, ClientCopyStep
  <2>2. ASSUME NEW c \in Copies, ServeCopy(c) PROVE TransferInv'
    BY <2>2, ServeCopyStep
  <2>3. ASSUME NEW c \in Copies, HandlePanic(c) PROVE TransferInv'
    BY <2>3, PanicStep
  <2>4. ASSUME NEW p \in Pastes, ClientPaste(p) PROVE TransferInv'
    BY <2>4, ClientPasteStep
  <2>5. ASSUME NEW p \in Pastes, ServePaste(p) PROVE TransferInv'
    BY <2>5, ServePasteStep
  <2>6. CASE Clear \/ Expire
    BY <2>6, EmptiedStep DEF Clear, Expire
  <2>7. CASE Break
    BY <2>7, BreakStep
  <2>8. CASE UNCHANGED vars
    BY <2>8, EmptiedStep DEF vars, clipVars
  <2> QED BY <2>1, <2>2, <2>3, <2>4, <2>5, <2>6, <2>7, <2>8 DEF Next
<1> QED BY <1>1, <1>2, PTL DEF Spec

-----------------------------------------------------------------------------
(* What the users see                                                      *)

(* A piece of a copy's stream.                                             *)
LEMMA StreamPiece ==
  ASSUME NEW o, NEW c, NEW i \in Nat
  PROVE  /\ Stream(o, c)[i].of = Meaning(o, c, i)
         /\ Stream(o, c)[i].key = Key(o.pwd, c)
<1>1. PICK m, k : m = Meaning(o, c, i) /\ k = Key(o.pwd, c)
  OBVIOUS
<1>2. Stream(o, c)[i] = [zip |-> o.zip, of |-> m, key |-> k]
  BY <1>1 DEF Stream
<1> QED BY <1>1, <1>2

(* What the k first pieces of a copy's stream decode to.                   *)
LEMMA DecodedSlice ==
  ASSUME NEW o, NEW c \in Copies, o.blocks \in Nat, NEW k \in Nat
  PROVE  LET s == Slice(Meanings(o, c), 0, k)
         IN  /\ k >= o.blocks => Unmarked(s) = Input(c, o.blocks)
             /\ k <= o.blocks => Unmarked(s) = Input(c, k)
<1>1. PICK s : s = Slice(Meanings(o, c), 0, k)
  OBVIOUS
<1>2. DOMAIN s = 1..k /\ \A i \in 1..k : s[i] = Meaning(o, c, i)
  BY <1>1 DEF Slice, Meanings
<1> QED BY <1>1, <1>2, Decoded

(* A content decodes to the input of its copy, under one key.              *)
LEMMA ContentDecoded ==
  ASSUME Shapes, NEW x, Genuine(x)
  PROVE  /\ Blocks(x) = Original(x.by)
         /\ \A i \in DOMAIN x.data : x.data[i].key = Key(copt[x.by].pwd, x.by)
<1>1. PICK o, k : o = copt[x.by] /\ k = Size(o)
  OBVIOUS
<1>2. /\ x.by \in Copies /\ o.blocks \in Nat /\ k \in Nat /\ o.blocks <= k
      /\ DOMAIN x.data = 1..k
      /\ \A i \in 1..k : x.data[i] = Stream(o, x.by)[i]
  BY <1>1, ContentFacts
<1>3. \A i \in 1..k : /\ x.data[i].of = Meaning(o, x.by, i)
                      /\ x.data[i].key = Key(o.pwd, x.by)
  BY <1>2, StreamPiece
<1>4. PICK s : s = [i \in DOMAIN x.data |-> x.data[i].of]
  OBVIOUS
<1>5. DOMAIN s = 1..k /\ \A i \in 1..k : s[i] = Meaning(o, x.by, i)
  BY <1>2, <1>3, <1>4
<1>6. k >= o.blocks => Unmarked(s) = Input(x.by, o.blocks)
  BY <1>2, <1>5, Decoded
<1> QED BY <1>1, <1>2, <1>3, <1>4, <1>6 DEF Blocks, Original

(* A copy is published whole or not at all: HandlePublish stores the complete
   input, ended by the marks its decoders ask for, and no other digest than
   its own, whenever the client dies or its stream breaks.                 *)
THEOREM CopiesArePublishedWhole == Spec => []PublishedWhole
<1>1. TransferInv => PublishedWhole
  <2> SUFFICES ASSUME TransferInv, NEW x \in published
               PROVE  /\ Blocks(x) = Original(x.by)
                      /\ x.sum \in {None, Original(x.by)}
                      /\ x.nonce # None =>
                           x.data # << >> /\ Last(x.data).of = SealEnd
    BY DEF PublishedWhole
  <2>1. Shapes /\ Genuine(x)
    BY DEF TransferInv, Contents
  <2>2. Blocks(x) = Original(x.by)
    BY <2>1, ContentDecoded
  <2>3. x.sum \in {None, Original(x.by)}
    BY <2>1 DEF Genuine, Original
  <2>4. ASSUME x.nonce # None
        PROVE  x.data # << >> /\ Last(x.data).of = SealEnd
    <3>1. PICK o, k : o = copt[x.by] /\ k = Size(o)
      OBVIOUS
    <3>2. /\ o.blocks \in Nat /\ k \in Nat /\ Len(x.data) = k
          /\ DOMAIN x.data = 1..k
          /\ \A i \in 1..Len(x.data) : x.data[i] = Stream(o, x.by)[i]
      BY <2>1, <3>1, ContentFacts
    <3>3. o.pwd # None
      BY <2>1, <2>4, <3>1 DEF Genuine, Header
    <3>4. k = Frames(o) + 1 /\ k > o.blocks /\ k # Frames(o) /\ k > 0
      BY <3>1, <3>2, <3>3 DEF Size, Frames
    <3>5. Meaning(o, x.by, k) = SealEnd
      BY <3>2, <3>4 DEF Meaning
    <3>6. x.data[k].of = SealEnd
      BY <3>2, <3>4, <3>5, StreamPiece
    <3>7. x.data # << >>
      BY <3>2, <3>4
    <3> QED BY <3>2, <3>6, <3>7 DEF Last
  <2> QED BY <2>2, <2>3, <2>4
<1> QED BY <1>1, TransferInvariant, PTL

(* "Successfully copied data to web clipboard!" is the truth: when
   Client.Copy returns without an error its whole input has been published,
   with the checksum and under the key that were asked for.                *)
THEOREM AcknowledgedCopiesArePublished == Spec => []CopyAcked
<1>1. TransferInv => CopyAcked
  <2> SUFFICES ASSUME TransferInv, NEW c \in Copies, cpc[c] = "ok"
               PROVE  \E x \in published :
                        /\ x.by = c
                        /\ Blocks(x) = Original(c)
                        /\ copt[c].sum => x.sum = Original(c)
                        /\ \A i \in DOMAIN x.data :
                             x.data[i].key = Key(copt[c].pwd, c)
    BY DEF CopyAcked
  <2>1. PICK x \in published : x.by = c
    BY DEF TransferInv, CopyInv, Answers
  <2>2. Shapes /\ Genuine(x)
    BY DEF TransferInv, Contents
  <2>3. /\ Blocks(x) = Original(x.by)
        /\ \A i \in DOMAIN x.data : x.data[i].key = Key(copt[x.by].pwd, x.by)
    BY <2>2, ContentDecoded
  <2>4. copt[c].sum => x.sum = Original(c)
    BY <2>1, <2>2 DEF Genuine, Original
  <2> QED BY <2>1, <2>3, <2>4
<1> QED BY <1>1, TransferInvariant, PTL

(* What a paste that is being served has written.                          *)
LEMMA OutputServed ==
  ASSUME Shapes, NEW p \in Pastes, NEW x, Genuine(x), NEW r \in Nat,
         NEW s \in Nat, Served(p, x, r, s)
  PROVE  \E k \in Nat :
           /\ k <= copt[x.by].blocks /\ Output(p) = Input(x.by, k)
           /\ Brought(x, r) = Len(x.data) => k = copt[x.by].blocks
<1>1. PICK o, n, b : /\ o = copt[x.by] /\ n = Len(x.data)
                     /\ b = Brought(x, r)
  OBVIOUS
<1>2. /\ x.by \in Copies /\ o.blocks \in Nat /\ n \in Nat /\ o.blocks <= n
  BY <1>1, ContentFacts
<1>3. b \in Nat
  BY <1>1, <1>2 DEF Brought
<1>4. Output(p) = Unmarked(Slice(Meanings(o, x.by), 0, b))
  BY <1>1 DEF Output, Served
<1>5. /\ b >= o.blocks => Output(p) = Input(x.by, o.blocks)
      /\ b <= o.blocks => Output(p) = Input(x.by, b)
  BY <1>2, <1>3, <1>4, DecodedSlice
<1>6. CASE b >= o.blocks
  BY <1>1, <1>2, <1>5, <1>6
<1>7. CASE b < o.blocks
  BY <1>1, <1>2, <1>3, <1>5, <1>7
<1> QED BY <1>2, <1>3, <1>6, <1>7

(* Paste writes to its output before it has seen the end and the checksum:
   whatever happens afterwards, what it has written is a beginning of the
   input of one copy that was made.                                        *)
THEOREM OutputIsABeginning == Spec => []OutputSane
<1>1. TransferInv => OutputSane
  <2> SUFFICES ASSUME TransferInv, NEW p \in Pastes, Output(p) # << >>
               PROVE  \E c \in Copies : /\ cpc[c] # "idle"
                                        /\ IsPrefix(Output(p), Original(c))
    BY DEF OutputSane
  <2>1. CASE Silent(p)
    <3>1. 0 \in Nat /\ 0 <= 0 /\ DOMAIN << >> = 1..0
      OBVIOUS
    <3>2. Unmarked(<< >>) = [i \in 1..0 |-> << >>[i]]
      BY <3>1, UnmarkedPrefix
    <3>3. Output(p) = << >>
      BY <2>1, <3>2 DEF Silent, Output
    <3> QED BY <3>3
  <2>2. ASSUME NEW x \in published, NEW r \in Nat, NEW s \in Nat,
               Served(p, x, r, s)
        PROVE  \E c \in Copies : /\ cpc[c] # "idle"
                                 /\ IsPrefix(Output(p), Original(c))
    <3>1. Shapes /\ Genuine(x)
      BY DEF TransferInv, Contents
    <3>2. PICK k \in Nat : /\ k <= copt[x.by].blocks
                           /\ Output(p) = Input(x.by, k)
      BY <2>2, <3>1, OutputServed
    <3>3. x.by \in Copies /\ cpc[x.by] # "idle" /\ copt[x.by].blocks \in Nat
      BY <3>1, ContentFacts DEF Genuine
    <3>4. IsPrefix(Input(x.by, k), Input(x.by, copt[x.by].blocks))
      BY <3>2, <3>3 DEF IsPrefix, Input
    <3> QED BY <3>2, <3>3, <3>4 DEF Original
  <2> QED BY <2>1, <2>2 DEF TransferInv, PasteInv
<1> QED BY <1>1, TransferInvariant, PTL

(* "All data has been copied from remote clipboard" is the truth: a Paste
   that returns without an error has written all of one copy's input and
   nothing else, and only with the password of that copy, if it had one.   *)
THEOREM AcknowledgedPastesAreWhole == Spec => []PasteAcked
<1>1. TransferInv => PasteAcked
  <2> SUFFICES ASSUME TransferInv, NEW p \in Pastes, ppc[p] = "ok"
               PROVE  \E c \in Copies :
                        /\ cpc[c] # "idle"
                        /\ Output(p) = Original(c)
                        /\ copt[c].pwd \in {None, popt[p].pwd}
    BY DEF PasteAcked
  <2>1. PICK x \in published, r \in Nat, s \in Nat : Served(p, x, r, s)
    BY DEF TransferInv, PasteInv, Silent
  <2>2. Shapes /\ Genuine(x)
    BY DEF TransferInv, Contents
  <2>3. PICK o, c, n : o = copt[x.by] /\ c = x.by /\ n = Len(x.data)
    OBVIOUS
  <2>4. c \in Copies /\ cpc[c] # "idle" /\ o # None /\ n \in Nat
    BY <2>2, <2>3, ContentFacts DEF Genuine
  <2>5. Brought(x, r) = Len(x.data)
    BY <2>1 DEF Served
  <2>6. Output(p) = Original(c)
    BY <2>1, <2>2, <2>3, <2>5, OutputServed DEF Original
  <2>7. ASSUME o.pwd # None PROVE o.pwd = popt[p].pwd
    <3>1. x.nonce = c /\ c # None
      BY <2>2, <2>3, <2>4, <2>7, NoneAssumption DEF Genuine, Header
    <3>2. Key(o.pwd, c) = PasteKey(p)
      BY <2>1, <2>3, <3>1 DEF Served
    <3>3. pinfo[p].nonce = c
      <4>1. Mail(x)[1] = [kind |-> "info", zip |-> x.zip, nonce |-> x.nonce,
                          hasSum |-> x.sum # None]
        BY MailHeader
      <4>2. pinfo[p] = Mail(x)[1]
        BY <2>1 DEF Served
      <4> QED BY <3>1, <4>1, <4>2
    <3>4. Key(o.pwd, c) = <<o.pwd, c>> /\ <<o.pwd, c>> # None
      <4>1. copt \in CopyOpts /\ copt[c] # None /\ o = copt[c]
        BY <2>2, <2>3, <2>4 DEF Shapes
      <4>2. <<copt[c].pwd, c>> # None
        BY <2>4, <4>1, NoneAssumption
      <4> QED BY <2>7, <4>1, <4>2 DEF Key
    <3>5. PasteKey(p) = Key(popt[p].pwd, c)
      BY <3>1, <3>3 DEF PasteKey
    <3>6. Key(popt[p].pwd, c) = <<popt[p].pwd, c>>
      BY <3>2, <3>4, <3>5 DEF Key
    <3>7. <<o.pwd, c>> = <<popt[p].pwd, c>>
      BY <3>2, <3>4, <3>5, <3>6
    <3> QED BY <3>7
  <2> QED BY <2>3, <2>4, <2>6, <2>7
<1> QED BY <1>1, TransferInvariant, PTL
=============================================================================
