---------------------------- MODULE CodecProofs ----------------------------
(***************************************************************************)
(* Theorems about module Codec: what one program of this version marshals, *)
(* another unmarshals, for all messages and at all widths of the integers. *)
(* The argument goes up from bits to bytes, to varints, to fields, to      *)
(* messages, and to the calls of UnmarshalVT that read them.               *)
(***************************************************************************)
EXTENDS Codec, MarshalProofs, WellFoundedInduction

-----------------------------------------------------------------------------
(* Natural numbers                                                         *)

(* A set of natural numbers has a least one.                               *)
LEMMA Least ==
  ASSUME NEW T, T \subseteq Nat, T # {}
  PROVE  \E x \in T : \A y \in T : x <= y
<1>1. PICK R : R = OpToRel(<,Nat)
  OBVIOUS
<1>2. IsWellFoundedOn(R, Nat)
  BY <1>1, NatLessThanWellFounded
<1>3. PICK x \in T : \A y \in T : ~(<<y, x>> \in R)
  BY <1>2, WFMin
<1>4. ASSUME NEW y \in T PROVE x <= y
  <2>1. x \in Nat /\ y \in Nat
    OBVIOUS
  <2>2. y < x => <<y, x>> \in R
    BY <1>1, <2>1 DEF OpToRel
  <2>3. ~(y < x)
    BY <1>3, <2>2
  <2> QED BY <2>1, <2>3
<1> QED BY <1>4

(* What holds at zero and at the successor of each number where it holds.  *)
LEMMA Induction ==
  ASSUME NEW S, 0 \in S, \A n \in Nat : n \in S => n + 1 \in S
  PROVE  Nat \subseteq S
<1> SUFFICES ASSUME Nat \ S # {} PROVE FALSE
  OBVIOUS
<1>1. PICK x \in Nat \ S : \A y \in Nat \ S : x <= y
  <2>1. PICK T : T = Nat \ S
    OBVIOUS
  <2>2. T \subseteq Nat /\ T # {}
    BY <2>1
  <2> QED BY <2>1, <2>2, Least
<1>2. x # 0
  OBVIOUS
<1>3. x - 1 \in Nat /\ ~(x <= x - 1) /\ (x - 1) + 1 = x
  BY <1>2
<1>4. x - 1 \in S
  BY <1>1, <1>3
<1> QED BY <1>3, <1>4

(* Powers of two, which count the subsets of a finite set.                 *)
LEMMA PowerStep ==
  ASSUME NEW n \in Nat
  PROVE  2^n \in Nat /\ 2^n >= 1 /\ 2^(n + 1) = 2 * 2^n
<1>1. PICK A, B, C : A = SUBSET (1..n) /\ B = SUBSET (1..(n + 1)) /\
                     C = {X \in B : n + 1 \in X}
  OBVIOUS
<1>2. /\ IsFiniteSet(1..n) /\ Cardinality(1..n) = n
      /\ IsFiniteSet(1..(n + 1)) /\ Cardinality(1..(n + 1)) = n + 1
  <2>1. n + 1 \in Int /\ n \in Int /\ 1 \in Int /\ n + 1 - 1 + 1 = n + 1 /\ n - 1 + 1 = n
    OBVIOUS
  <2>2. IsFiniteSet(1..n) /\ Cardinality(1..n) = IF 1 > n THEN 0 ELSE n - 1 + 1
    BY <2>1, FS_Interval
  <2>3. IsFiniteSet(1..(n + 1)) /\
        Cardinality(1..(n + 1)) = IF 1 > n + 1 THEN 0 ELSE n + 1 - 1 + 1
    BY <2>1, FS_Interval
  <2> QED BY <2>1, <2>2, <2>3
<1>3. /\ IsFiniteSet(A) /\ Cardinality(A) = 2^n
      /\ IsFiniteSet(B) /\ Cardinality(B) = 2^(n + 1)
  BY <1>1, <1>2, FS_SUBSET
<1>4. A \cap C = {} /\ B = A \cup C
  <2>1. \A X \in B : n + 1 \notin X => X \in A
    BY <1>1
  <2>2. \A X \in A : X \in B /\ n + 1 \notin X
    BY <1>1
  <2> QED BY <1>1, <2>1, <2>2
<1>5. PICK f : f = [X \in A |-> X \cup {n + 1}]
  OBVIOUS
<1>6. f \in Bijection(A, C)
  <2>1. f \in [A -> C]
    BY <1>1, <1>5
  <2>2. \A X, Y \in A : f[X] = f[Y] => X = Y
    <3> SUFFICES ASSUME NEW X \in A, NEW Y \in A, f[X] = f[Y] PROVE X = Y
      OBVIOUS
    <3>1. n + 1 \notin X /\ n + 1 \notin Y
      BY <1>1
    <3>2. X \cup {n + 1} = Y \cup {n + 1}
      BY <1>5
    <3> QED BY <3>1, <3>2
  <2>3. \A Z \in C : \E X \in A : f[X] = Z
    <3> SUFFICES ASSUME NEW Z \in C PROVE \E X \in A : f[X] = Z
      OBVIOUS
    <3>1. PICK X : X = Z \ {n + 1}
      OBVIOUS
    <3>2. X \in A /\ X \cup {n + 1} = Z
      BY <1>1, <3>1
    <3> QED BY <1>5, <3>2
  <2> QED BY <2>1, <2>2, <2>3 DEF Bijection, Injection, Surjection, IsInjective
<1>7. IsFiniteSet(C) /\ Cardinality(C) = Cardinality(A)
  <2>1. ExistsBijection(A, C)
    BY <1>6 DEF ExistsBijection
  <2> QED BY <1>3, <2>1, FS_Bijection
<1>8. Cardinality(B) = Cardinality(A) + Cardinality(C) - Cardinality({})
  BY <1>3, <1>4, <1>7, FS_Union
<1>9. Cardinality({}) = 0 /\ Cardinality(A) # 0
  <2>1. {} \in A
    BY <1>1
  <2> QED BY <1>3, <2>1, FS_EmptySet
<1>10. PICK k \in Nat : k = Cardinality(A)
  BY <1>3, FS_CardinalityType
<1> QED BY <1>3, <1>7, <1>8, <1>9, <1>10

(* A higher power is not smaller.                                          *)
LEMMA PowerMonotone ==
  ASSUME NEW m \in Nat, NEW n \in Nat, m <= n
  PROVE  2^m <= 2^n
<1>1. PICK S : S = {k \in Nat : 2^m <= 2^(m + k)}
  OBVIOUS
<1>2. 0 \in S
  <2>1. m + 0 = m
    OBVIOUS
  <2> QED BY <1>1, <2>1, PowerStep
<1>3. ASSUME NEW k \in Nat, k \in S PROVE k + 1 \in S
  <2>1. m + k \in Nat /\ m + (k + 1) = (m + k) + 1
    OBVIOUS
  <2>2. PICK p \in Nat, q \in Nat : p = 2^m /\ q = 2^(m + k) /\ 2^((m + k) + 1) = 2 * q
    BY <2>1, PowerStep
  <2>3. p <= 2 * q
    BY <1>1, <1>3, <2>2
  <2> QED BY <1>1, <2>1, <2>2, <2>3
<1>4. Nat \subseteq S
  BY <1>2, <1>3, Induction
<1>5. n - m \in Nat /\ m + (n - m) = n
  OBVIOUS
<1> QED BY <1>1, <1>4, <1>5

(* Seven bits more.                                                        *)
LEMMA PowerSeven ==
  ASSUME NEW n \in Nat
  PROVE  2^(n + 7) = 128 * 2^n
<1>1. PICK p \in Nat : p = 2^n
  BY PowerStep
<1>2. /\ n + 1 \in Nat /\ n + 2 \in Nat /\ n + 3 \in Nat /\ n + 4 \in Nat
      /\ n + 5 \in Nat /\ n + 6 \in Nat
      /\ (n + 1) + 1 = n + 2 /\ (n + 2) + 1 = n + 3 /\ (n + 3) + 1 = n + 4
      /\ (n + 4) + 1 = n + 5 /\ (n + 5) + 1 = n + 6 /\ (n + 6) + 1 = n + 7
  OBVIOUS
<1>3. 2^(n + 1) = 2 * p /\ 2^(n + 2) = 4 * p
  BY <1>1, <1>2, PowerStep
<1>4. 2^(n + 3) = 8 * p /\ 2^(n + 4) = 16 * p
  BY <1>2, <1>3, PowerStep
<1>5. 2^(n + 5) = 32 * p /\ 2^(n + 6) = 64 * p
  BY <1>2, <1>4, PowerStep
<1> QED BY <1>1, <1>2, <1>5, PowerStep

-----------------------------------------------------------------------------
(* Varints                                                                 *)

(* Division with a remainder.                                              *)
LEMMA Quotient ==
  ASSUME NEW v \in Nat, NEW d \in Nat, d >= 1
  PROVE  /\ v \div d \in Nat /\ v % d \in Nat /\ v % d < d
         /\ v = d * (v \div d) + (v % d)
         /\ \A q \in Nat, r \in Nat : v = d * q + r /\ r < d => r = v % d
<1>1. PICK a \in Nat, b \in Nat : a = v \div d /\ b = v % d /\ b < d /\ v = d * a + b
  OBVIOUS
<1>2. ASSUME NEW q \in Nat, NEW r \in Nat, v = d * q + r, r < d PROVE r = b
  <2>1. b < d /\ v = d * a + b
    BY <1>1
  <2>2. CASE q >= a + 1
    <3>1. d * q >= d * (a + 1)
      BY <2>2
    <3>2. d * (a + 1) = d * a + d
      OBVIOUS
    <3> QED BY <1>2, <2>1, <3>1, <3>2
  <2>3. CASE a >= q + 1
    <3>1. d * a >= d * (q + 1)
      BY <2>3
    <3>2. d * (q + 1) = d * q + d
      OBVIOUS
    <3> QED BY <1>2, <2>1, <3>1, <3>2
  <2>4. CASE q = a
    BY <1>2, <2>1, <2>4
  <2> QED BY <2>2, <2>3, <2>4
<1> QED BY <1>1, <1>2

(* The seven bits of v above those below P, a power of two.                *)
LEMMA SplitBits ==
  ASSUME NEW v \in Nat, NEW P \in Nat, P >= 1
  PROVE  /\ v % (128 * P) = (v % P) + ((v \div P) % 128) * P
         /\ v \div P >= 128 <=> v >= 128 * P
         /\ v \div P \in Nat /\ v % P \in Nat
<1>1. PICK q \in Nat, r \in Nat : q = v \div P /\ r = v % P
  BY Quotient
<1>2. v = P * q + r /\ r < P
  BY <1>1, Quotient
<1>3. PICK a \in Nat, b \in Nat : b = q % 128 /\ q = 128 * a + b /\ b <= 127
  OBVIOUS
<1>4. q = 128 * a + b /\ b <= 127
  BY <1>3
<1>5. PICK x \in Nat, y \in Nat : x = P * a /\ y = P * b
  OBVIOUS
<1>6. P * q = 128 * x + y
  <2>1. P * (128 * a + b) = 128 * (P * a) + P * b
    OBVIOUS
  <2> QED BY <1>4, <1>5, <2>1
<1>7. y <= 127 * P
  <2>1. P * b <= P * 127
    BY <1>4
  <2> QED BY <1>5, <2>1
<1>8. y + r \in Nat /\ y + r < 128 * P /\ 128 * P \in Nat /\ 128 * P >= 1
  BY <1>2, <1>7
<1>9. v = (128 * P) * a + (y + r)
  <2>1. (128 * P) * a = 128 * x
    BY <1>5
  <2> QED BY <1>2, <1>6, <2>1
<1>10. v % (128 * P) = y + r
  BY <1>8, <1>9, Quotient
<1>11. q >= 128 <=> v >= 128 * P
  <2>1. q >= 128 => P * q >= P * 128
    OBVIOUS
  <2>2. q <= 127 => P * q <= P * 127
    OBVIOUS
  <2>3. P * 128 = 128 * P /\ P * 127 = 127 * P /\ P * q \in Nat
    OBVIOUS
  <2> QED BY <1>2, <2>1, <2>2, <2>3
<1>12. b * P = y
  BY <1>5
<1> QED BY <1>1, <1>3, <1>10, <1>11, <1>12

(* bits.Len64: the powers of two that v reaches are those below its length. *)
LEMMA BitLength ==
  ASSUME NEW v \in Nat, v < 2^WordBits
  PROVE  /\ Len64(v) \in 1..WordBits /\ v < 2^Len64(v)
         /\ Len64(v) > 1 => 2^(Len64(v) - 1) <= v
<1>1. PICK T : T = {n \in Nat : n >= 1 /\ v < 2^n}
  OBVIOUS
<1>2. WordBits \in T /\ WordBits \in Nat
  BY <1>1, WordAssumption
<1>3. PICK L \in T : \A n \in T : L <= n
  BY <1>1, <1>2, Least
<1>4. L \in Nat /\ L >= 1 /\ v < 2^L /\ L <= WordBits
  BY <1>1, <1>2, <1>3
<1>5. PICK S : S = {n \in 1..(WordBits - 1) : v >= 2^n}
  OBVIOUS
<1>6. S = 1..(L - 1)
  <2>1. ASSUME NEW n \in S PROVE n \in 1..(L - 1)
    <3>1. n \in Nat /\ n >= 1 /\ v >= 2^n
      BY <1>2, <1>5
    <3>2. CASE L <= n
      <4>1. 2^L <= 2^n
        BY <1>4, <3>1, <3>2, PowerMonotone
      <4>2. 2^L \in Nat /\ 2^n \in Nat
        BY <1>4, <3>1, PowerStep
      <4> QED BY <1>4, <3>1, <4>1, <4>2
    <3> QED BY <1>4, <3>1, <3>2
  <2>2. ASSUME NEW n \in 1..(L - 1) PROVE n \in S
    <3>1. n \in Nat /\ n >= 1 /\ n < L /\ n \in 1..(WordBits - 1)
      BY <1>2, <1>4
    <3>2. n \notin T
      BY <1>3, <1>4, <3>1
    <3>3. 2^n \in Nat /\ ~(v < 2^n)
      BY <1>1, <3>1, <3>2, PowerStep
    <3> QED BY <1>5, <3>1, <3>3
  <2> QED BY <2>1, <2>2
<1>7. Cardinality(S) = L - 1
  <2>1. L - 1 \in Int /\ 1 \in Int
    BY <1>4
  <2>2. Cardinality(1..(L - 1)) = IF 1 > L - 1 THEN 0 ELSE L - 1 - 1 + 1
    BY <2>1, FS_Interval
  <2> QED BY <1>4, <1>6, <2>2
<1>8. Len64(v) = L
  BY <1>4, <1>5, <1>7 DEF Len64
<1>9. L > 1 => 2^(L - 1) <= v
  <2> SUFFICES ASSUME L > 1 PROVE 2^(L - 1) <= v
    OBVIOUS
  <2>1. L - 1 \in Nat /\ L - 1 >= 1 /\ L - 1 \in 1..(L - 1)
    BY <1>4
  <2>2. L - 1 \in S
    BY <1>6, <2>1
  <2>3. v >= 2^(L - 1) /\ 2^(L - 1) \in Nat
    BY <1>5, <2>1, <2>2, PowerStep
  <2> QED BY <2>3
<1> QED BY <1>4, <1>8, <1>9

(* sov: as many groups of seven bits as v needs, and no more.              *)
LEMMA GroupCount ==
  ASSUME NEW v \in Nat, v < 2^WordBits
  PROVE  /\ Sov(v) \in 1..MaxGroups /\ v < 2^(7 * Sov(v))
         /\ \A j \in 1..(Sov(v) - 1) : 2^(7 * j) <= v
<1>1. PICK L \in 1..WordBits : L = Len64(v) /\ v < 2^L /\ (L > 1 => 2^(L - 1) <= v)
  BY BitLength
<1>2. WordBits \in Nat /\ WordBits <= 64 /\ L \in Nat /\ L >= 1 /\ L <= WordBits
  BY WordAssumption
<1>3. PICK n \in Nat : n = (L + 6) \div 7 /\ 7 * n >= L /\ 7 * n <= L + 6 /\ n >= 1
  BY <1>2
<1>4. Sov(v) = n
  BY <1>1, <1>3 DEF Sov
<1>5. n \in 1..MaxGroups
  BY <1>2, <1>3 DEF MaxGroups
<1>6. v < 2^(7 * n)
  <2>1. 7 * n \in Nat
    BY <1>3
  <2>2. 2^L <= 2^(7 * n) /\ 2^L \in Nat /\ 2^(7 * n) \in Nat
    BY <1>2, <1>3, <2>1, PowerMonotone, PowerStep
  <2> QED BY <1>1, <2>2
<1>7. ASSUME NEW j \in 1..(n - 1) PROVE 2^(7 * j) <= v
  <2>1. 7 * j \in Nat /\ L - 1 \in Nat /\ 7 * j <= L - 1 /\ L > 1
    BY <1>2, <1>3
  <2>2. 2^(7 * j) <= 2^(L - 1) /\ 2^(7 * j) \in Nat /\ 2^(L - 1) \in Nat
    BY <2>1, PowerMonotone, PowerStep
  <2>3. 2^(L - 1) <= v
    BY <1>1, <2>1
  <2> QED BY <2>2, <2>3
<1> QED BY <1>4, <1>5, <1>6, <1>7

(* The byte j of a varint: the group j, and whether more follow.           *)
LEMMA VarintByte ==
  ASSUME NEW v \in Nat, v < 2^WordBits, NEW j \in 1..Sov(v)
  PROVE  /\ EncodeVarint(v)[j] \in 0..255
         /\ EncodeVarint(v)[j] % 128 = (v \div 2^(7 * (j - 1))) % 128
         /\ EncodeVarint(v)[j] < 128 <=> j = Sov(v)
<1>1. PICK n \in Nat : n = Sov(v) /\ v < 2^(7 * n) /\ \A k \in 1..(n - 1) : 2^(7 * k) <= v
  <2>1. Sov(v) \in Nat
    BY SovBound
  <2> QED BY <2>1, GroupCount
<1>2. j \in Nat /\ j >= 1 /\ j <= n /\ 7 * (j - 1) \in Nat
  BY <1>1
<1>3. PICK P \in Nat : P = 2^(7 * (j - 1)) /\ P >= 1
  BY <1>2, PowerStep
<1>4. 2^(7 * j) = 128 * P
  <2>1. 7 * (j - 1) + 7 = 7 * j
    BY <1>2
  <2> QED BY <1>2, <1>3, <2>1, PowerSeven
<1>5. PICK r \in Nat : r = v \div P /\ (r >= 128 <=> v >= 128 * P)
  <2>1. v \div P \in Nat /\ (v \div P >= 128 <=> v >= 128 * P)
    BY <1>3, SplitBits
  <2> QED BY <2>1
<1>6. EncodeVarint(v)[j] = (r % 128) + (IF r >= 128 THEN 128 ELSE 0)
  BY <1>3, <1>5 DEF EncodeVarint
<1>7. r >= 128 <=> j # n
  <2>1. CASE j = n
    BY <1>1, <1>3, <1>4, <1>5, <2>1
  <2>2. CASE j # n
    <3>1. j \in 1..(n - 1)
      BY <1>2, <2>2
    <3>2. 2^(7 * j) <= v
      BY <1>1, <3>1
    <3> QED BY <1>3, <1>4, <1>5, <2>2, <3>2
  <2> QED BY <2>1, <2>2
<1>8. r % 128 \in 0..127
  BY <1>5
<1>9. PICK e : e = EncodeVarint(v)[j] /\ e = (r % 128) + (IF j # n THEN 128 ELSE 0)
  BY <1>6, <1>7
<1>10. e \in 0..255 /\ e % 128 = r % 128 /\ (e < 128 <=> j = n)
  BY <1>8, <1>9
<1> QED BY <1>1, <1>3, <1>5, <1>9, <1>10

(* The values of the reading loop, one for each group.                     *)
IsSums(g, d, i, m) ==
  /\ g \in [0..m -> Nat] /\ g[0] = 0
  /\ \A n \in 1..m : g[n] = g[n - 1] + (d[i + n] % 128) * 2^(7 * (n - 1))

(* What the reading loop accumulates is determined by its bytes.           *)
LEMMA Accumulated ==
  ASSUME NEW d, NEW i \in Nat, NEW m \in Nat, NEW g, IsSums(g, d, i, m)
  PROVE  Accumulate(d, i, m) = g[m]
<1> DEFINE Sums(a) == [n \in 0..m |->
                         IF n = 0 THEN 0
                         ELSE a[n - 1] + (d[i + n] % 128) * 2^(7 * (n - 1))]
<1>1. g = Sums(g)
  <2>1. \A n \in 0..m : g[n] = Sums(g)[n]
    <3> SUFFICES ASSUME NEW n \in 0..m PROVE g[n] = Sums(g)[n]
      OBVIOUS
    <3>1. CASE n = 0
      BY <3>1 DEF IsSums
    <3>2. CASE n # 0
      <4>1. n \in 1..m
        BY <3>2
      <4> QED BY <3>2, <4>1 DEF IsSums
    <3> QED BY <3>1, <3>2
  <2> QED BY <2>1 DEF IsSums
<1>2. PICK acc : acc = CHOOSE a : a = Sums(a)
  OBVIOUS
<1>3. acc = Sums(acc)
  BY <1>1, <1>2
<1>4. Accumulate(d, i, m) = acc[m]
  BY <1>2 DEF Accumulate
<1> HIDE DEF Sums
<1>5. PICK S : S = {n \in Nat : n <= m => acc[n] = g[n]}
  OBVIOUS
<1>6. 0 \in S
  BY <1>1, <1>3, <1>5 DEF Sums
<1>7. ASSUME NEW n \in Nat, n \in S PROVE n + 1 \in S
  <2> SUFFICES ASSUME n + 1 <= m PROVE acc[n + 1] = g[n + 1]
    BY <1>5
  <2>1. acc[n] = g[n]
    BY <1>5, <1>7
  <2>2. n + 1 \in 0..m /\ n + 1 # 0 /\ (n + 1) - 1 = n
    OBVIOUS
  <2>3. /\ Sums(acc)[n + 1] = acc[n] + (d[i + (n + 1)] % 128) * 2^(7 * ((n + 1) - 1))
        /\ Sums(g)[n + 1] = g[n] + (d[i + (n + 1)] % 128) * 2^(7 * ((n + 1) - 1))
    BY <2>2 DEF Sums
  <2> QED BY <1>1, <1>3, <2>1, <2>3
<1>8. Nat \subseteq S
  BY <1>6, <1>7, Induction
<1>9. acc[m] = g[m]
  BY <1>5, <1>8
<1> QED BY <1>4, <1>9

(* The bytes s are at offset i of d, as far as d goes.                     *)
At(d, i, s) ==
  /\ i \in Nat /\ Len(d) \in Nat /\ i <= Len(d)
  /\ \A j \in 1..Len(s) : i + j <= Len(d) => d[i + j] = s[j]

(* A varint is read as it was written when all of it is there, and is refused
   when some of it is missing, at every width up to 64 bits.               *)
THEOREM VarintsAgree ==
  ASSUME NEW v \in Nat, v < 2^WordBits, NEW d, NEW i, At(d, i, EncodeVarint(v))
  PROVE  Varint(d, i) = IF i + Sov(v) <= Len(d)
                          THEN [ok |-> TRUE, i |-> i + Sov(v), v |-> v]
                          ELSE [ok |-> FALSE]
<1>1. PICK n \in Nat : /\ n = Sov(v) /\ n >= 1 /\ n \in 1..MaxGroups
                       /\ v < 2^(7 * n)
  <2>1. Sov(v) \in Nat /\ Sov(v) >= 1
    BY SovBound
  <2> QED BY <2>1, GroupCount
<1>2. i \in Nat /\ Len(d) \in Nat /\ i <= Len(d)
  BY DEF At
<1>3. ASSUME NEW j \in 1..n, i + j <= Len(d)
      PROVE  /\ d[i + j] \in 0..255 /\ (d[i + j] < 128 <=> j = n)
             /\ d[i + j] % 128 = (v \div 2^(7 * (j - 1))) % 128
  <2>1. Len(EncodeVarint(v)) = n
    BY <1>1, VarintSize
  <2>2. d[i + j] = EncodeVarint(v)[j]
    BY <1>3, <2>1 DEF At
  <2> QED BY <1>1, <2>2, VarintByte
<1>4. PICK ends : ends = {k \in 1..MaxGroups : i + k <= Len(d) /\ d[i + k] < 128}
  OBVIOUS
<1>5. MaxGroups \in Nat
  BY WordAssumption DEF MaxGroups
<1>6. ASSUME NEW k \in ends PROVE k >= n
  <2>1. k \in Nat /\ k >= 1 /\ i + k <= Len(d) /\ d[i + k] < 128
    BY <1>4, <1>5
  <2>2. CASE k \in 1..n
    BY <1>1, <1>3, <2>1, <2>2
  <2> QED BY <1>1, <2>1, <2>2
<1>7. CASE i + n <= Len(d)
  <2>1. n \in ends
    <3>1. n \in 1..n /\ d[i + n] < 128
      BY <1>1, <1>3, <1>7
    <3> QED BY <1>1, <1>4, <1>7, <3>1
  <2>2. ends \subseteq Nat
    BY <1>4, <1>5
  <2>3. Min(ends) = n
    <3>1. \A x \in ends : (\A y \in ends : x <= y) => x = n
      BY <1>6, <2>1, <2>2
    <3>2. n \in ends /\ \A y \in ends : n <= y
      BY <1>1, <1>6, <2>1, <2>2
    <3> QED BY <3>1, <3>2 DEF Min
  <2>4. PICK g : g = [k \in 0..n |-> v % 2^(7 * k)]
    OBVIOUS
  <2>5. \A k \in 0..n : 7 * k \in Nat /\ 2^(7 * k) \in Nat /\ 2^(7 * k) >= 1
    BY <1>1, PowerStep
  <2>6. g \in [0..n -> Nat]
    BY <2>4, <2>5, Quotient
  <2>7. g[0] = 0
    <3>1. 7 * 0 = 0 /\ 2^0 = 1 /\ v % 1 = 0
      OBVIOUS
    <3> QED BY <1>1, <2>4, <3>1
  <2>8. ASSUME NEW k \in 1..n
        PROVE  g[k] = g[k - 1] + (d[i + k] % 128) * 2^(7 * (k - 1))
    <3>1. k \in 0..n /\ k - 1 \in 0..n /\ i + k <= Len(d)
      BY <1>1, <1>2, <1>7
    <3>2. PICK P \in Nat : P = 2^(7 * (k - 1)) /\ P >= 1
      BY <2>5, <3>1
    <3>3. 2^(7 * k) = 128 * P
      <4>1. 7 * (k - 1) \in Nat /\ 7 * (k - 1) + 7 = 7 * k
        BY <3>1
      <4> QED BY <3>2, <4>1, PowerSeven
    <3>4. v % (128 * P) = (v % P) + ((v \div P) % 128) * P
      BY <3>2, SplitBits
    <3>5. d[i + k] % 128 = (v \div P) % 128
      BY <1>3, <3>1, <3>2
    <3>6. g[k] = v % (128 * P) /\ g[k - 1] = v % P
      BY <2>4, <3>1, <3>2, <3>3
    <3> QED BY <3>2, <3>4, <3>5, <3>6
  <2>9. Accumulate(d, i, n) = g[n]
    <3>1. IsSums(g, d, i, n)
      BY <2>6, <2>7, <2>8 DEF IsSums
    <3> QED BY <1>1, <1>2, <3>1, Accumulated
  <2>10. g[n] = v
    <3>1. n \in 0..n /\ g[n] = v % 2^(7 * n)
      BY <1>1, <2>4
    <3>2. v % 2^(7 * n) = v
      BY <1>1, <2>5, <3>1
    <3> QED BY <3>1, <3>2
  <2>11. Unsigned(v) = v
    <3>1. 2^WordBits \in Nat /\ 2^WordBits >= 1
      BY WordAssumption, PowerStep
    <3> QED BY <3>1 DEF Unsigned
  <2>12. Varint(d, i) = [ok |-> TRUE, i |-> i + n, v |-> v]
    BY <1>4, <2>1, <2>3, <2>9, <2>10, <2>11 DEF Varint
  <2> QED BY <1>1, <1>7, <2>12
<1>8. CASE ~(i + n <= Len(d))
  <2>1. ends = {}
    <3> SUFFICES ASSUME NEW k \in ends PROVE FALSE
      OBVIOUS
    <3>1. k \in Nat /\ i + k <= Len(d) /\ k >= n
      BY <1>4, <1>5, <1>6
    <3> QED BY <1>1, <1>2, <1>8, <3>1
  <2>2. Varint(d, i) = [ok |-> FALSE]
    BY <1>4, <2>1 DEF Varint
  <2> QED BY <1>1, <1>8, <2>2
<1> QED BY <1>7, <1>8

-----------------------------------------------------------------------------
(* Bytes in their place                                                    *)

(* What is at an offset of d, piece by piece.                              *)
LEMMA AtParts ==
  ASSUME NEW d, NEW i, NEW a, NEW b, Bytes(a), Bytes(b), At(d, i, a \o b)
  PROVE  /\ At(d, i, a)
         /\ i + Len(a) <= Len(d) => At(d, i + Len(a), b)
<1>1. PICK m \in Nat, n \in Nat : m = Len(a) /\ n = Len(b)
  BY DEF Bytes
<1>2. PICK S, T : a \in Seq(S) /\ b \in Seq(T)
  BY DEF Bytes
<1>3. PICK U : U = S \union T
  OBVIOUS
<1>4. a \in Seq(U) /\ b \in Seq(U)
  BY <1>2, <1>3
<1>5. /\ Len(a \o b) = m + n
      /\ \A j \in 1..m : (a \o b)[j] = a[j]
      /\ \A j \in 1..n : (a \o b)[m + j] = b[j]
  <2>1. Len(a \o b) = Len(a) + Len(b) /\
        \A k \in 1..(Len(a) + Len(b)) :
          (a \o b)[k] = IF k <= Len(a) THEN a[k] ELSE b[k - Len(a)]
    BY <1>4, ConcatProperties
  <2>2. \A j \in 1..n : m + j \in 1..(m + n) /\ ~(m + j <= m) /\ (m + j) - m = j
    BY <1>1
  <2>3. \A j \in 1..m : j \in 1..(m + n) /\ j <= m
    BY <1>1
  <2> QED BY <1>1, <2>1, <2>2, <2>3
<1>6. PICK l \in Nat : l = Len(d) /\ i \in Nat /\ i <= l
  BY DEF At
<1>7. \A j \in 1..(m + n) : i + j <= l => d[i + j] = (a \o b)[j]
  BY <1>5, <1>6 DEF At
<1>8. At(d, i, a)
  BY <1>1, <1>5, <1>6, <1>7 DEF At
<1>9. ASSUME i + m <= l PROVE At(d, i + m, b)
  <2>1. ASSUME NEW j \in 1..n, (i + m) + j <= l PROVE d[(i + m) + j] = b[j]
    <3>1. m + j \in 1..(m + n) /\ i + (m + j) = (i + m) + j
      BY <1>1, <1>6
    <3> QED BY <1>5, <1>7, <2>1, <3>1
  <2> QED BY <1>1, <1>6, <1>9, <2>1 DEF At
<1> QED BY <1>1, <1>6, <1>8, <1>9

(* Sequences of one and of two.                                            *)
LEMMA Stacked ==
  ASSUME NEW a, NEW b
  PROVE  /\ <<a>> \o <<b>> = <<a, b>> /\ <<a>> \o <<>> = <<a>> /\ <<a, b>> \o <<>> = <<a, b>>
         /\ Front(<<a>>) = <<>> /\ Front(<<a, b>>) = <<a>>
         /\ Append(<<>>, a) = <<a>> /\ Append(<<a>>, b) = <<a, b>>
<1>1. PICK S : <<a>> \in Seq(S) /\ <<b>> \in Seq(S) /\ <<a, b>> \in Seq(S)
  <2>1. <<a>> \in Seq({a, b}) /\ <<b>> \in Seq({a, b}) /\ <<a, b>> \in Seq({a, b})
    OBVIOUS
  <2> QED BY <2>1
<1>2. Len(<<a>>) = 1 /\ Len(<<b>>) = 1 /\ Len(<<a, b>>) = 2
  OBVIOUS
<1>3. <<a>> \o <<b>> = <<a, b>>
  <2>1. /\ <<a>> \o <<b>> \in Seq(S) /\ Len(<<a>> \o <<b>>) = Len(<<a>>) + Len(<<b>>)
        /\ \A n \in 1..(Len(<<a>>) + Len(<<b>>)) : (<<a>> \o <<b>>)[n] =
              IF n <= Len(<<a>>) THEN <<a>>[n] ELSE <<b>>[n - Len(<<a>>)]
    BY <1>1, ConcatProperties
  <2>2. \A n \in 1..2 : (<<a>> \o <<b>>)[n] = <<a, b>>[n]
    <3>1. (<<a>> \o <<b>>)[1] = <<a>>[1] /\ (<<a>> \o <<b>>)[2] = <<b>>[1]
      BY <1>2, <2>1
    <3> QED BY <3>1
  <2>3. Len(<<a>> \o <<b>>) = 2
    BY <1>2, <2>1
  <2> QED BY <1>1, <1>2, <2>1, <2>2, <2>3, SeqEqual
<1>4. <<a>> \o <<>> = <<a>> /\ <<a, b>> \o <<>> = <<a, b>>
  BY <1>1, ConcatEmptySeq
<1>5. Front(<<a>>) = <<>>
  <2>1. SubSeq(<<a>>, 1, 0) = <<>>
    OBVIOUS
  <2> QED BY <1>2, <2>1 DEF Front
<1>6. Front(<<a, b>>) = <<a>>
  <2>1. /\ SubSeq(<<a, b>>, 1, 1) \in Seq(S) /\ Len(SubSeq(<<a, b>>, 1, 1)) = 1
        /\ SubSeq(<<a, b>>, 1, 1)[1] = a
    BY <1>1, <1>2
  <2>2. SubSeq(<<a, b>>, 1, 1) = <<a>>
    <3>1. \A n \in 1..1 : SubSeq(<<a, b>>, 1, 1)[n] = <<a>>[n]
      BY <2>1
    <3> QED BY <1>1, <1>2, <2>1, <3>1, SeqEqual
  <2> QED BY <1>2, <2>2 DEF Front
<1>7. Append(<<>>, a) = <<a>> /\ Append(<<a>>, b) = <<a, b>>
  <2>1. <<>> \in Seq({a, b}) /\ <<a>> \in Seq({a, b}) /\ a \in {a, b} /\ b \in {a, b}
    OBVIOUS
  <2>2. Append(<<>>, a) = <<>> \o <<a>> /\ Append(<<a>>, b) = <<a>> \o <<b>>
    BY <2>1, AppendIsConcat
  <2>3. <<>> \o <<a>> = <<a>>
    BY <1>1, ConcatEmptySeq
  <2> QED BY <1>3, <2>2, <2>3
<1> QED BY <1>3, <1>4, <1>5, <1>6, <1>7

(* A number that has its sign bit clear.                                   *)
LEMMA SignedNatural ==
  ASSUME NEW v \in Nat, NEW bits \in Nat, bits >= 1, v < 2^(bits - 1)
  PROVE  Signed(v, bits) = v
<1>1. bits - 1 \in Nat /\ (bits - 1) + 1 = bits
  OBVIOUS
<1>2. PICK h \in Nat : h = 2^(bits - 1) /\ h >= 1 /\ 2^bits = 2 * h
  BY <1>1, PowerStep
<1>3. v % (2 * h) = v
  BY <1>2
<1> QED BY <1>2, <1>3 DEF Signed

(* The widths of the code's integers.                                      *)
LEMMA Widths ==
  /\ WordBits \in Nat /\ WordBits >= 8 /\ FieldBits \in Nat /\ FieldBits >= 4
  /\ FieldBits <= WordBits
  /\ 2^(WordBits - 1) \in Nat /\ 2^WordBits = 2 * 2^(WordBits - 1)
  /\ 128 <= 2^(WordBits - 1) /\ 8 <= 2^(FieldBits - 1)
<1>1. /\ WordBits \in Nat /\ WordBits >= 8 /\ FieldBits \in Nat /\ FieldBits >= 4
      /\ FieldBits <= WordBits
  BY CodecAssumption
<1>2. WordBits - 1 \in Nat /\ (WordBits - 1) + 1 = WordBits /\ 7 <= WordBits - 1 /\ 7 \in Nat
  BY <1>1
<1>3. 2^(WordBits - 1) \in Nat /\ 2^WordBits = 2 * 2^(WordBits - 1)
  BY <1>2, PowerStep
<1>4. 2^7 <= 2^(WordBits - 1)
  BY <1>2, PowerMonotone
<1>5. FieldBits - 1 \in Nat /\ 3 <= FieldBits - 1 /\ 3 \in Nat
  BY <1>1
<1>6. 2^3 <= 2^(FieldBits - 1)
  BY <1>5, PowerMonotone
<1>7. 2^7 = 128 /\ 2^3 = 8
  OBVIOUS
<1> QED BY <1>1, <1>3, <1>4, <1>6, <1>7

(* A number below the sign bit survives Unsigned and is below the width.   *)
LEMMA Positive ==
  ASSUME NEW v \in Nat, v < 2^(WordBits - 1)
  PROVE  v < 2^WordBits /\ Unsigned(v) = v /\ Signed(v, WordBits) = v
<1>1. PICK h \in Nat : h = 2^(WordBits - 1) /\ 2^WordBits = 2 * h
  BY Widths
<1>2. v < 2 * h /\ v % (2 * h) = v
  BY <1>1
<1> QED BY <1>1, <1>2, Widths, SignedNatural DEF Unsigned

(* A length and that many bytes are read as they were written when all are
   there, and refused when some are missing.                               *)
THEOREM DelimitedAgree ==
  ASSUME NEW s, Bytes(s), NEW d, Bytes(d), NEW i, At(d, i, EncodeVarint(Len(s)) \o s),
         i + Sov(Len(s)) + Len(s) < 2^(WordBits - 1)
  PROVE  Delimited(d, i) =
           IF i + Sov(Len(s)) + Len(s) <= Len(d)
             THEN [ok |-> TRUE, i |-> i + Sov(Len(s)) + Len(s), s |-> s]
             ELSE Stop
<1>1. PICK l \in Nat, n \in Nat, k \in Nat :
        l = Len(s) /\ n = Sov(Len(s)) /\ k = Len(d)
  BY SovBound DEF Bytes
<1>2. i \in Nat /\ i <= k
  BY <1>1 DEF At
<1>3. l < 2^(WordBits - 1) /\ l < 2^WordBits /\ Signed(l, WordBits) = l
  BY <1>1, <1>2, Widths, Positive
<1>4. /\ At(d, i, EncodeVarint(l))
      /\ i + n <= k => At(d, i + n, s)
  BY <1>1, AtParts, VarintSize
<1>5. Varint(d, i) = IF i + n <= k THEN [ok |-> TRUE, i |-> i + n, v |-> l]
                     ELSE [ok |-> FALSE]
  BY <1>1, <1>3, <1>4, VarintsAgree
<1>6. Signed(i + n + l, WordBits) = i + n + l
  BY <1>1, <1>2, Positive
<1>7. CASE ~(i + n <= k)
  <2>1. Delimited(d, i) = Stop
    BY <1>5, <1>7 DEF Delimited
  <2> QED BY <1>1, <1>2, <1>7, <2>1
<1>8. CASE i + n <= k
  <2>1. Varint(d, i) = [ok |-> TRUE, i |-> i + n, v |-> l]
    BY <1>5, <1>8
  <2>2. PICK a \in Nat, p \in Nat : a = i + n /\ p = a + l /\ a <= k
    BY <1>1, <1>2, <1>8
  <2>3. Signed(a + l, WordBits) = p /\ ~(l < 0) /\ ~(p < 0)
    BY <1>1, <1>6, <2>2
  <2>4. Varint(d, i) = [ok |-> TRUE, i |-> a, v |-> l]
    BY <2>1, <2>2
  <2>5. Delimited(d, i) = IF p > k THEN Stop
                          ELSE [ok |-> TRUE, i |-> p, s |-> SubSeq(d, a + 1, p)]
    <3>1. /\ Varint(d, i).ok /\ Varint(d, i).i = a /\ Varint(d, i).v = l
      BY <2>4
    <3>2. Signed(l, WordBits) = l /\ Len(d) = k
      BY <1>1, <1>3
    <3> QED BY <2>3, <3>1, <3>2 DEF Delimited
  <2>6. ASSUME p <= k PROVE SubSeq(d, a + 1, p) = s
    <3>1. PICK S, T : d \in Seq(S) /\ s \in Seq(T)
      BY DEF Bytes
    <3>2. At(d, a, s)
      BY <1>4, <1>8, <2>2
    <3>3. \A j \in 1..l : d[a + j] = s[j]
      <4>1. \A j \in 1..l : a + j <= k => d[a + j] = s[j]
        BY <1>1, <3>2 DEF At
      <4>2. \A j \in 1..l : a + j <= k
        BY <1>1, <2>2, <2>6
      <4> QED BY <4>1, <4>2
    <3>4. Len(SubSeq(d, a + 1, p)) = l /\
          \A j \in 1..l : SubSeq(d, a + 1, p)[j] = d[a + j]
      <4>1. a + 1 \in Int /\ p \in Int /\ p - (a + 1) + 1 = l /\
            (a + 1 <= p <=> l >= 1)
        BY <1>1, <2>2
      <4>2. \A j \in (a + 1)..p : d[j] \in S
        BY <1>1, <2>2, <2>6, <3>1
      <4>3. /\ Len(SubSeq(d, a + 1, p)) = IF a + 1 <= p THEN p - (a + 1) + 1 ELSE 0
            /\ \A j \in 1..(p - (a + 1) + 1) :
                 SubSeq(d, a + 1, p)[j] = d[(a + 1) + j - 1]
        BY <4>1, <4>2, SubSeqProperties
      <4>4. \A j \in 1..l : (a + 1) + j - 1 = a + j
        BY <1>1, <2>2
      <4> QED BY <1>1, <4>1, <4>3, <4>4
    <3>5. SubSeq(d, a + 1, p) \in Seq(S)
      BY <1>1, <2>2, <2>6, <3>1
    <3> QED BY <1>1, <3>1, <3>3, <3>4, <3>5, SeqEqual
  <2>7. i + Sov(Len(s)) + Len(s) = p
    BY <1>1, <2>2
  <2>8. CASE p <= k
    <3>1. SubSeq(d, a + 1, p) = s
      BY <2>6, <2>8
    <3>2. ~(p > k)
      BY <1>1, <2>2, <2>8
    <3>3. Delimited(d, i) = [ok |-> TRUE, i |-> p, s |-> s]
      BY <2>5, <3>1, <3>2
    <3> QED BY <1>1, <2>7, <2>8, <3>3
  <2>9. CASE ~(p <= k)
    BY <1>1, <2>2, <2>5, <2>7, <2>9
  <2> QED BY <2>8, <2>9
<1> QED BY <1>7, <1>8

-----------------------------------------------------------------------------
(* Fields in their place                                                   *)

(* A number of one byte.                                                   *)
LEMMA SmallVarint ==
  ASSUME NEW tag \in 0..127
  PROVE  /\ tag \in Nat /\ tag < 2^WordBits /\ Sov(tag) = 1
         /\ EncodeVarint(tag) = <<tag>>
<1>1. tag \in Nat /\ tag < 128 /\ tag < 2^WordBits
  <2>1. tag \in Nat /\ tag < 128
    OBVIOUS
  <2>2. tag < 2^(WordBits - 1)
    BY <2>1, Widths
  <2> QED BY <2>1, <2>2, Positive
<1>2. Sov(tag) = 1
  <2>1. PICK n \in Nat : n = Sov(tag) /\ n >= 1
    BY SovBound
  <2>2. \A j \in 1..(n - 1) : 2^(7 * j) <= tag
    BY <1>1, <2>1, GroupCount
  <2>3. CASE n >= 2
    <3>1. 1 \in 1..(n - 1)
      BY <2>1, <2>3
    <3>2. 2^(7 * 1) <= tag
      BY <2>2, <3>1
    <3>3. 2^(7 * 1) = 128
      OBVIOUS
    <3> QED BY <1>1, <3>2, <3>3
  <2> QED BY <2>1, <2>3
<1>3. EncodeVarint(tag) = <<tag>>
  <2>1. PICK e : e = EncodeVarint(tag)
    OBVIOUS
  <2>2. DOMAIN e = 1..1 /\ e = [j \in 1..1 |-> e[j]]
    BY <1>2, <2>1 DEF EncodeVarint
  <2>3. e[1] = tag
    <3>1. 7 * (1 - 1) = 0 /\ 2^0 = 1 /\ tag \div 1 = tag /\ tag % 128 = tag /\ ~(tag >= 128)
      BY <1>1
    <3>2. e[1] = LET r == tag \div 2^(7 * (1 - 1)) IN (r % 128) + (IF r >= 128 THEN 128 ELSE 0)
      BY <1>2, <2>1 DEF EncodeVarint
    <3>3. tag \div 2^(7 * (1 - 1)) = tag
      BY <3>1
    <3>4. e[1] = (tag % 128) + (IF tag >= 128 THEN 128 ELSE 0)
      BY <3>2, <3>3
    <3> QED BY <1>1, <3>1, <3>4
  <2> QED BY <2>1, <2>2, <2>3
<1> QED BY <1>1, <1>2, <1>3

(* A tag of one byte.                                                      *)
LEMMA TagRead ==
  ASSUME NEW tag \in 0..127, NEW d, NEW i, At(d, i, <<tag>>), i + 1 <= Len(d)
  PROVE  Varint(d, i) = [ok |-> TRUE, i |-> i + 1, v |-> tag]
<1>1. At(d, i, EncodeVarint(tag))
  BY SmallVarint
<1>2. Varint(d, i) = IF i + 1 <= Len(d)
                       THEN [ok |-> TRUE, i |-> i + 1, v |-> tag]
                       ELSE [ok |-> FALSE]
  BY <1>1, SmallVarint, VarintsAgree
<1> QED BY <1>2

(* The tag of field j of a message of type k, of a wire type.              *)
TagAt(k, f, j, type, d, i) ==
  /\ Len(Fields(k)) \in Nat /\ j \in 1..7 /\ j <= Len(Fields(k)) /\ f = Fields(k)[j]
  /\ type \in {0, 2} /\ At(d, i, <<8 * j + type>>) /\ i + 1 <= Len(d)

(* UnmarshalVT's switch finds the field of a tag.                          *)
LEMMA TurnTag ==
  ASSUME NEW k, NEW f, NEW j, NEW type, NEW d, NEW i, NEW m, TagAt(k, f, j, type, d, i)
  PROVE  /\ f[2] \in {"int", "enum", "bool"} =>
              Turn(k, d, i, m) = TakeVarint(f, type, d, i + 1, m)
         /\ f[2] \in {"bytes", "oneof"} =>
              Turn(k, d, i, m) = TakeBytes(f, type, d, i + 1, m)
         /\ f[2] \in {"PastInfo", "PastError", "CopyInfo"} =>
              Turn(k, d, i, m) = TakeMessage(f, type, d, i + 1, m)
<1> USE DEF TagAt
<1>1. PICK tag \in 0..127 : tag = 8 * j + type
  OBVIOUS
<1>2. Varint(d, i) = [ok |-> TRUE, i |-> i + 1, v |-> tag]
  BY <1>1, TagRead
<1>3. tag \div 8 = j /\ tag % 8 = type
  BY <1>1
<1>4. Signed(j, FieldBits) = j
  BY Widths, SignedNatural
<1>5. /\ Varint(d, i).ok /\ Varint(d, i).i = i + 1
      /\ Signed(Varint(d, i).v \div 8, FieldBits) = j /\ Varint(d, i).v % 8 = type
  BY <1>2, <1>3, <1>4
<1>6. ~(~TRUE \/ type = 4 \/ j <= 0) /\ ~(j > Len(Fields(k)))
  OBVIOUS
<1>7. CASE f[2] \in {"int", "enum", "bool"}
  <2>1. Turn(k, d, i, m) = TakeVarint(f, type, d, i + 1, m)
    BY <1>5, <1>6, <1>7 DEF Turn
  <2>2. f[2] \notin {"bytes", "oneof"} /\ f[2] \notin {"PastInfo", "PastError", "CopyInfo"}
    BY <1>7
  <2> QED BY <2>1, <2>2
<1>8. CASE f[2] \in {"bytes", "oneof"}
  <2>1. Turn(k, d, i, m) = TakeBytes(f, type, d, i + 1, m)
    BY <1>5, <1>6, <1>8 DEF Turn
  <2>2. f[2] \notin {"int", "enum", "bool"} /\ f[2] \notin {"PastInfo", "PastError", "CopyInfo"}
    BY <1>8
  <2> QED BY <2>1, <2>2
<1>9. CASE f[2] \in {"PastInfo", "PastError", "CopyInfo"}
  <2>1. f[2] \notin {"int", "enum", "bool"} /\ f[2] \notin {"bytes", "oneof"}
    BY <1>9
  <2>2. Turn(k, d, i, m) = TakeMessage(f, type, d, i + 1, m)
    BY <1>5, <1>6, <2>1 DEF Turn
  <2> QED BY <2>1, <2>2
<1> QED BY <1>7, <1>8, <1>9

(* The bytes of field j of the message v of type k.                        *)
PutField(k, v, j) ==
  LET x == Fields(k)[j][1]
      type == Fields(k)[j][2]
  IN  CASE type \in {"int", "enum"} -> PutInt(8 * j, v[x])
        [] type = "bool"  -> PutBool(8 * j, v[x])
        [] type = "bytes" -> PutBytes(8 * j + 2, v[x])

(* The integer of a field is what its 64 bits are read as.                 *)
LEMMA IntRead ==
  ASSUME NEW v \in ValuesOf("int")
  PROVE  /\ Unsigned(v) \in Nat /\ Unsigned(v) < 2^WordBits
         /\ Signed(Unsigned(v), WordBits) = v
<1>1. PICK h \in Nat : h = 2^(WordBits - 1) /\ 2^WordBits = 2 * h /\ h >= 128
  BY Widths
<1>2. v \in Int /\ -h <= v /\ v <= h - 1
  BY <1>1 DEF ValuesOf
<1>3. PICK u : u = Unsigned(v)
  OBVIOUS
<1>4. u = v % (2 * h)
  BY <1>1, <1>3 DEF Unsigned
<1>5. u = IF v >= 0 THEN v ELSE v + 2 * h
  <2>1. CASE v >= 0
    BY <1>1, <1>2, <1>4, <2>1
  <2>2. CASE v < 0
    BY <1>1, <1>2, <1>4, <2>2
  <2> QED BY <1>2, <2>1, <2>2
<1>6. u \in Nat /\ u < 2 * h /\ u % (2 * h) = u
  <2>1. h \in Nat /\ h >= 128
    BY <1>1
  <2>2. u \in Nat /\ u < 2 * h
    BY <1>2, <1>5, <2>1
  <2> QED BY <2>1, <2>2
<1>7. Signed(u, WordBits) = IF u < h THEN u ELSE u - 2 * h
  BY <1>1, <1>6 DEF Signed
<1>8. Signed(u, WordBits) = v
  BY <1>1, <1>2, <1>5, <1>7
<1> QED BY <1>1, <1>3, <1>6, <1>8

(* A turn at a field that is there: it takes the whole field or, when some of
   it is missing, nothing.                                                 *)
Takes(t, n, d, m, x, value) ==
  IF n <= Len(d) THEN t = Took(n, [m EXCEPT ![x] = value]) ELSE ~t.ok

(* The field of a tag, where it is one of bytes.                           *)
LEMMA BytesTag ==
  ASSUME NEW k, NEW f, NEW j, NEW d, NEW i, NEW m, TagAt(k, f, j, 2, d, i),
         f[2] \in {"bytes", "oneof"}
  PROVE  Turn(k, d, i, m) = TakeBytes(f, 2, d, i + 1, m)
BY TurnTag

(* The field of a tag, where it is a message.                              *)
LEMMA MessageTag ==
  ASSUME NEW k, NEW f, NEW j, NEW d, NEW i, NEW m, TagAt(k, f, j, 2, d, i),
         f[2] \in {"PastInfo", "PastError", "CopyInfo"}
  PROVE  Turn(k, d, i, m) = TakeMessage(f, 2, d, i + 1, m)
BY TurnTag

(* The field j of a message of type k, a number or a truth value, as the varint
   of u.                                                                   *)
VarintAt(k, f, j, u, d, i) ==
  /\ j \in 1..7 /\ Len(Fields(k)) \in Nat /\ j <= Len(Fields(k)) /\ f = Fields(k)[j]
  /\ f[2] \in {"int", "enum", "bool"} /\ u \in Nat /\ u < 2^WordBits
  /\ At(d, i, <<8 * j>> \o EncodeVarint(u)) /\ i + 1 <= Len(d)

(* What it is read as.                                                     *)
ValueRead(type, u) == CASE type = "int"  -> Signed(u, WordBits)
                        [] type = "enum" -> Signed(u, FieldBits)
                        [] type = "bool" -> u # 0

(* A turn at a number or a truth value.                                    *)
LEMMA VarintTurn ==
  ASSUME NEW k, NEW j, NEW d, NEW i, NEW m, NEW f, NEW u, VarintAt(k, f, j, u, d, i)
  PROVE  Takes(Turn(k, d, i, m), i + 1 + Sov(u), d, m, f[1], ValueRead(f[2], u))
<1> USE DEF VarintAt
<1>1. Bytes(<<8 * j>>) /\ Len(<<8 * j>>) = 1 /\ Bytes(EncodeVarint(u))
  BY ShortBytes, VarintSize
<1>2. At(d, i, <<8 * j>>) /\ At(d, i + 1, EncodeVarint(u))
  BY <1>1, AtParts
<1>3. 0 \in {0, 2} /\ At(d, i, <<8 * j + 0>>)
  <2>1. 8 * j + 0 = 8 * j
    OBVIOUS
  <2> QED BY <1>2, <2>1
<1>4. Turn(k, d, i, m) = TakeVarint(f, 0, d, i + 1, m)
  <2>1. TagAt(k, f, j, 0, d, i)
    BY <1>3 DEF TagAt
  <2> QED BY <2>1, TurnTag
<1>5. PICK n : n = i + 1 + Sov(u)
  OBVIOUS
<1>6. Varint(d, i + 1) = IF n <= Len(d)
                           THEN [ok |-> TRUE, i |-> n, v |-> u]
                           ELSE [ok |-> FALSE]
  BY <1>2, <1>5, VarintsAgree
<1>7. CASE n <= Len(d)
  <2>1. /\ Varint(d, i + 1).ok /\ Varint(d, i + 1).i = n /\ Varint(d, i + 1).v = u
    BY <1>6, <1>7
  <2>2. TakeVarint(f, 0, d, i + 1, m) =
          Took(n, [m EXCEPT ![f[1]] = CASE f[2] = "int"  -> Signed(u, WordBits)
                                       [] f[2] = "enum" -> Signed(u, FieldBits)
                                       [] f[2] = "bool" -> u # 0])
    BY <2>1 DEF TakeVarint
  <2>3. TakeVarint(f, 0, d, i + 1, m) = Took(n, [m EXCEPT ![f[1]] = ValueRead(f[2], u)])
    BY <2>2 DEF ValueRead
  <2> QED BY <1>4, <1>5, <1>7, <2>3 DEF Takes
<1>8. CASE ~(n <= Len(d))
  <2>1. ~Varint(d, i + 1).ok
    BY <1>6, <1>8
  <2>2. TakeVarint(f, 0, d, i + 1, m) = Stop
    BY <2>1 DEF TakeVarint
  <2>3. ~Stop.ok
    BY DEF Stop
  <2> QED BY <1>4, <1>5, <1>8, <2>2, <2>3 DEF Takes
<1> QED BY <1>7, <1>8

(* A length and bytes, after the tag.                                      *)
LEMMA DelimitedTurn ==
  ASSUME NEW tag, NEW s, Bytes(s), NEW d, Bytes(d), NEW i, NEW n,
         At(d, i, PutDelimited(tag, s)), i + 1 <= Len(d),
         n = i + Len(PutDelimited(tag, s)), n < 2^(WordBits - 1)
  PROVE  /\ At(d, i, <<tag>>)
         /\ Delimited(d, i + 1) = IF n <= Len(d)
                                    THEN [ok |-> TRUE, i |-> n, s |-> s]
                                    ELSE Stop
<1>1. PICK e : e = EncodeVarint(Len(s))
  OBVIOUS
<1>2. Bytes(<<tag>>) /\ Len(<<tag>>) = 1 /\ Bytes(e) /\ Len(e) = Sov(Len(s))
  BY <1>1, ShortBytes, VarintSize
<1>3. PutDelimited(tag, s) = (<<tag>> \o e) \o s
  BY <1>1 DEF PutDelimited
<1>4. (<<tag>> \o e) \o s = <<tag>> \o (e \o s)
  <2>1. PICK S, T : e \in Seq(S) /\ s \in Seq(T)
    BY <1>2 DEF Bytes
  <2>2. PICK U : U = (S \union T) \union {tag}
    OBVIOUS
  <2>3. e \in Seq(U) /\ s \in Seq(U) /\ <<tag>> \in Seq(U)
    BY <2>1, <2>2
  <2> QED BY <2>3, ConcatAssociative
<1>5. Bytes(e \o s) /\ Len(PutDelimited(tag, s)) = 1 + Len(s) + Sov(Len(s))
  BY <1>2, Joined, DelimitedSize DEF SizeDelimited
<1>6. At(d, i, <<tag>>) /\ At(d, i + 1, e \o s)
  BY <1>2, <1>3, <1>4, <1>5, AtParts
<1>7. i \in Nat /\ Len(s) \in Nat /\ Sov(Len(s)) \in Nat
  <2>1. Sov(Len(s)) \in Nat
    BY SovBound
  <2> QED BY <2>1 DEF At, Bytes
<1>8. n = (i + 1) + Sov(Len(s)) + Len(s)
  BY <1>5, <1>7
<1> QED BY <1>1, <1>6, <1>8, DelimitedAgree

(* The types of message that hold no other.                                *)
FlatKinds == {"ServerStatus", "PasteOption", "PastInfo", "PastError", "CopyInfo"}

(* The tables of fields.                                                   *)
LEMMA FieldTable ==
  ASSUME NEW k \in FlatKinds
  PROVE  /\ Len(Fields(k)) \in Nat /\ 1 <= Len(Fields(k)) /\ Len(Fields(k)) <= 6
         /\ DOMAIN Fields(k) = 1..Len(Fields(k))
         /\ \A n \in 1..Len(Fields(k)) :
              /\ Fields(k)[n][2] \in {"int", "enum", "bool", "bytes"}
              /\ Fields(k)[n][1] # "unknown"
<1>1. CASE k = "ServerStatus"
  BY <1>1 DEF Fields, ServerStatusFields
<1>2. CASE k = "PasteOption"
  BY <1>2 DEF Fields, PasteOptionFields
<1>3. CASE k = "PastInfo"
  BY <1>3 DEF Fields, PastInfoFields
<1>4. CASE k = "PastError"
  BY <1>4 DEF Fields, PastErrorFields
<1>5. CASE k = "CopyInfo"
  BY <1>5 DEF Fields, CopyInfoFields
<1> QED BY <1>1, <1>2, <1>3, <1>4, <1>5 DEF FlatKinds

(* No two fields of a message have the same name.                          *)
LEMMA FieldNames ==
  ASSUME NEW k \in FlatKinds, NEW a \in 1..Len(Fields(k)), NEW b \in 1..Len(Fields(k)),
         Fields(k)[a][1] = Fields(k)[b][1]
  PROVE  a = b
<1>1. CASE k = "ServerStatus"
  BY <1>1 DEF Fields, ServerStatusFields
<1>2. CASE k = "PasteOption"
  BY <1>2 DEF Fields, PasteOptionFields
<1>3. CASE k = "PastInfo"
  BY <1>3 DEF Fields, PastInfoFields
<1>4. CASE k = "PastError"
  BY <1>4 DEF Fields, PastErrorFields
<1>5. CASE k = "CopyInfo"
  BY <1>5 DEF Fields, CopyInfoFields
<1> QED BY <1>1, <1>2, <1>3, <1>4, <1>5 DEF FlatKinds

(* A new message.                                                          *)
LEMMA ZeroFields ==
  ASSUME NEW k \in FlatKinds
  PROVE  /\ Zero(k) = [x \in DOMAIN Zero(k) |-> Zero(k)[x]]
         /\ DOMAIN Zero(k) = {"unknown"} \union Names(k)
         /\ Zero(k)["unknown"] = <<>>
         /\ \A n \in 1..Len(Fields(k)) :
              Zero(k)[Fields(k)[n][1]] = ZeroOf(Fields(k)[n][2])
<1>1. DOMAIN Fields(k) = 1..Len(Fields(k))
  BY FieldTable
<1>2. k \notin Streams
  BY DEF FlatKinds, Streams
<1>3. Zero(k) = [x \in {"unknown"} \union Names(k) |->
                  IF x = "unknown" THEN <<>> ELSE ZeroOf(TypeOf(k, x))]
  BY <1>2 DEF Zero
<1>4. ASSUME NEW n \in 1..Len(Fields(k))
      PROVE  Zero(k)[Fields(k)[n][1]] = ZeroOf(Fields(k)[n][2])
  <2>1. /\ Fields(k)[n][2] \in {"int", "enum", "bool", "bytes"}
        /\ Fields(k)[n][1] # "unknown" /\ Fields(k)[n][1] \in Names(k)
    BY <1>1, FieldTable DEF Names
  <2>2. PICK x, type : x = Fields(k)[n][1] /\ type = Fields(k)[n][2]
    OBVIOUS
  <2>3. TypeOf(k, x) = type
    <3>1. PICK b : b = CHOOSE a \in DOMAIN Fields(k) : Fields(k)[a][1] = x
      OBVIOUS
    <3>2. b \in DOMAIN Fields(k) /\ Fields(k)[b][1] = x
      BY <1>1, <2>2, <3>1
    <3>3. b = n
      BY <1>1, <2>2, <3>2, FieldNames
    <3> QED BY <2>2, <3>1, <3>3 DEF TypeOf
  <2> QED BY <1>3, <2>1, <2>2, <2>3
<1>5. Zero(k)["unknown"] = <<>>
  BY <1>3
<1>6. Zero(k) = [x \in DOMAIN Zero(k) |-> Zero(k)[x]] /\ DOMAIN Zero(k) = {"unknown"} \union Names(k)
  BY <1>3
<1> QED BY <1>4, <1>5, <1>6

(* A turn of the loop at a field of a message.                             *)
LEMMA FieldTurn ==
  ASSUME NEW k \in FlatKinds, NEW v, IsFlat(k, v), NEW j \in 1..Len(Fields(k)),
         PutField(k, v, j) # <<>>, NEW d, Bytes(d), NEW i, NEW m,
         At(d, i, PutField(k, v, j)), i + 1 <= Len(d),
         i + Len(PutField(k, v, j)) < 2^(WordBits - 1)
  PROVE  Takes(Turn(k, d, i, m), i + Len(PutField(k, v, j)), d, m,
               Fields(k)[j][1], v[Fields(k)[j][1]])
<1>1. PICK f, x, type : f = Fields(k)[j] /\ x = f[1] /\ type = f[2]
  OBVIOUS
<1>2. /\ type \in {"int", "enum", "bool", "bytes"} /\ v[x] \in ValuesOf(type)
      /\ Len(Fields(k)) \in Nat /\ j \in 1..7 /\ j <= Len(Fields(k))
  BY <1>1, FieldTable DEF IsFlat
<1>3. PICK p : p = PutField(k, v, j)
  OBVIOUS
<1>4. i \in Nat
  BY DEF At
<1>5. CASE type \in {"int", "enum"}
  <2>1. p = PutInt(8 * j, v[x]) /\ v[x] # 0
    BY <1>1, <1>3, <1>5 DEF PutField, PutInt
  <2>2. PICK u \in Nat : u = Unsigned(v[x]) /\ u < 2^WordBits
    <3>1. CASE type = "int"
      BY <1>2, <3>1, IntRead
    <3>2. CASE type = "enum"
      <4>1. v[x] \in Nat /\ v[x] < 2^(WordBits - 1)
        <5>1. v[x] \in {0, 1}
          BY <1>2, <3>2 DEF ValuesOf
        <5>2. 2^(WordBits - 1) \in Nat /\ 128 <= 2^(WordBits - 1)
          BY Widths
        <5> QED BY <5>1, <5>2
      <4> QED BY <4>1, Positive
    <3> QED BY <1>5, <3>1, <3>2
  <2>3. p = <<8 * j>> \o EncodeVarint(u)
    BY <2>1, <2>2 DEF PutInt
  <2>4. Len(p) = 1 + Sov(u)
    BY <2>3, ShortBytes, VarintSize, Joined
  <2>5. Takes(Turn(k, d, i, m), i + 1 + Sov(u), d, m, f[1], ValueRead(f[2], u))
    <3>1. VarintAt(k, f, j, u, d, i)
      BY <1>1, <1>2, <1>3, <1>5, <2>2, <2>3 DEF VarintAt
    <3> QED BY <3>1, VarintTurn
  <2>6. i + 1 + Sov(u) = i + Len(p)
    <3>1. Sov(u) \in Nat
      BY SovBound
    <3> QED BY <1>4, <2>4, <3>1
  <2>7. CASE type = "int"
    <3>1. Signed(u, WordBits) = v[x]
      BY <1>2, <2>2, <2>7, IntRead
    <3>2. ValueRead(f[2], u) = v[x]
      BY <1>1, <2>7, <3>1 DEF ValueRead
    <3> QED BY <1>1, <1>3, <2>5, <2>6, <3>2
  <2>8. CASE type = "enum"
    <3>1. v[x] = 1
      BY <1>2, <2>1, <2>8 DEF ValuesOf
    <3>2. 1 \in Nat /\ 1 < 2^(WordBits - 1) /\ 1 < 2^(FieldBits - 1)
      BY Widths
    <3>3. u = 1 /\ Signed(u, FieldBits) = 1
      BY <2>2, <3>1, <3>2, Positive, SignedNatural, Widths
    <3>4. ValueRead(f[2], u) = v[x]
      BY <1>1, <2>8, <3>1, <3>3 DEF ValueRead
    <3> QED BY <1>1, <1>3, <2>5, <2>6, <3>4
  <2> QED BY <1>5, <2>7, <2>8
<1>6. CASE type = "bool"
  <2>1. p = PutBool(8 * j, v[x])
    BY <1>1, <1>3, <1>6 DEF PutField
  <2>2. v[x] = TRUE /\ p = <<8 * j, 1>>
    BY <1>2, <1>3, <1>6, <2>1 DEF PutBool, ValuesOf
  <2>3. EncodeVarint(1) = <<1>> /\ Sov(1) = 1 /\ 1 \in Nat /\ 1 < 2^WordBits
    BY SmallVarint
  <2>4. p = <<8 * j>> \o EncodeVarint(1) /\ Len(p) = 2
    <3>1. PICK a, b : a = 8 * j /\ b = 1
      OBVIOUS
    <3>2. <<a>> \o <<b>> = <<a, b>> /\ Len(<<a, b>>) = 2
      BY Stacked, ShortBytes
    <3> QED BY <2>2, <2>3, <3>1, <3>2
  <2>5. Takes(Turn(k, d, i, m), i + 1 + Sov(1), d, m, f[1], ValueRead(f[2], 1))
    <3>1. VarintAt(k, f, j, 1, d, i)
      BY <1>1, <1>2, <1>3, <1>6, <2>3, <2>4 DEF VarintAt
    <3> QED BY <3>1, VarintTurn
  <2>6. i + 1 + Sov(1) = i + Len(p) /\ (1 # 0) = TRUE
    BY <1>4, <2>3, <2>4
  <2>7. ValueRead(f[2], 1) = v[x]
    BY <1>1, <1>6, <2>2, <2>6 DEF ValueRead
  <2> QED BY <1>1, <1>3, <2>5, <2>6, <2>7
<1>7. CASE type = "bytes"
  <2>1. PICK s : s = v[x]
    OBVIOUS
  <2>2. s \in Seq(0..255)
    BY <1>2, <1>7, <2>1 DEF ValuesOf
  <2>3. Bytes(s)
    BY <2>2 DEF Bytes
  <2>4. p = PutDelimited(8 * j + 2, s)
    BY <1>1, <1>3, <1>7, <2>1 DEF PutField, PutBytes
  <2>5. PICK n : n = i + Len(p)
    OBVIOUS
  <2>6. At(d, i, <<8 * j + 2>>) /\
        Delimited(d, i + 1) = IF n <= Len(d) THEN [ok |-> TRUE, i |-> n, s |-> s] ELSE Stop
    BY <1>3, <2>3, <2>4, <2>5, DelimitedTurn
  <2>7. TagAt(k, f, j, 2, d, i)
    BY <1>1, <1>2, <2>6 DEF TagAt
  <2>8. Turn(k, d, i, m) = TakeBytes(f, 2, d, i + 1, m)
    <3>1. f[2] \in {"bytes", "oneof"}
      BY <1>1, <1>7
    <3> QED BY <2>7, <3>1, BytesTag
  <2>9. CASE n <= Len(d)
    <3>1. Delimited(d, i + 1).ok /\ Delimited(d, i + 1).i = n /\ Delimited(d, i + 1).s = s
      BY <2>6, <2>9
    <3>2. TakeBytes(f, 2, d, i + 1, m) = Took(n, [m EXCEPT ![x] = s])
      BY <1>1, <1>7, <3>1 DEF TakeBytes
    <3> QED BY <1>1, <1>3, <2>1, <2>5, <2>8, <2>9, <3>2 DEF Takes
  <2>10. CASE ~(n <= Len(d))
    <3>1. ~Delimited(d, i + 1).ok /\ ~Stop.ok
      BY <2>6, <2>10 DEF Stop
    <3>2. TakeBytes(f, 2, d, i + 1, m) = Stop
      BY <3>1 DEF TakeBytes
    <3> QED BY <1>3, <2>5, <2>8, <2>10, <3>1, <3>2 DEF Takes
  <2> QED BY <2>9, <2>10
<1> QED BY <1>2, <1>5, <1>6, <1>7
-----------------------------------------------------------------------------
(* Messages without others in them                                         *)

(* XMarshal of these types.                                                *)
FlatBytes(k, v) ==
  CASE k = "ServerStatus" -> ServerStatusMarshal(v)
    [] k = "PasteOption"  -> PasteOptionMarshal(v)
    [] k = "PastInfo"     -> PastInfoMarshal(v)
    [] k = "PastError"    -> PastErrorMarshal(v)
    [] k = "CopyInfo"     -> CopyInfoMarshal(v)

(* The bytes s are those of the fields up to j, each after the others, and o
   has the offset after each.                                              *)
Laid(k, v, j, s, o) ==
  /\ Bytes(s) /\ Len(s) = o[j] /\ o \in [0..j -> Nat] /\ o[0] = 0
  /\ \A n \in 0..j : o[n] <= o[j]
  /\ \A n \in 1..j : o[n] = o[n - 1] + Len(PutField(k, v, n))
  /\ \A d : At(d, 0, s) =>
       \A n \in 1..j : o[n - 1] <= Len(d) => At(d, o[n - 1], PutField(k, v, n))

(* A field after the others.                                               *)
LEMMA LaidNext ==
  ASSUME NEW k, NEW v, NEW j \in Nat, NEW s, \E o : Laid(k, v, j, s, o),
         Bytes(PutField(k, v, j + 1))
  PROVE  \E o : Laid(k, v, j + 1, s \o PutField(k, v, j + 1), o)
<1>1. PICK o : Laid(k, v, j, s, o)
  OBVIOUS
<1>2. PICK f : f = PutField(k, v, j + 1)
  OBVIOUS
<1>3. /\ Bytes(s) /\ Bytes(f) /\ Bytes(s \o f) /\ Len(s \o f) = Len(s) + Len(f)
      /\ Len(f) \in Nat /\ Len(s) = o[j] /\ Len(s) \in Nat
  <2>1. Bytes(s) /\ Len(s) = o[j] /\ o[j] \in Nat
    BY <1>1 DEF Laid
  <2>2. Len(f) \in Nat
    BY <1>2 DEF Bytes
  <2> QED BY <1>2, <2>1, <2>2, Joined
<1>4. PICK q : q = [n \in 0..(j + 1) |-> IF n <= j THEN o[n] ELSE o[j] + Len(f)]
  OBVIOUS
<1>5. /\ o \in [0..j -> Nat] /\ o[0] = 0 /\ \A n \in 0..j : o[n] <= o[j]
      /\ \A n \in 1..j : o[n] = o[n - 1] + Len(PutField(k, v, n))
  BY <1>1 DEF Laid
<1>6. /\ q \in [0..(j + 1) -> Nat] /\ q[j + 1] = o[j] + Len(f)
      /\ \A n \in 0..j : q[n] = o[n]
  BY <1>3, <1>4, <1>5
<1>7. ASSUME NEW n \in 0..(j + 1) PROVE q[n] <= q[j + 1]
  <2>1. q[n] \in Nat /\ o[j] \in Nat
    BY <1>5, <1>6
  <2>2. CASE n = j + 1
    BY <2>1, <2>2
  <2>3. CASE n # j + 1
    <3>1. n \in 0..j
      BY <2>3
    <3>2. q[n] = o[n] /\ o[n] <= o[j]
      BY <1>5, <1>6, <3>1
    <3> QED BY <1>3, <1>6, <2>1, <3>2
  <2> QED BY <2>2, <2>3
<1>8. ASSUME NEW n \in 1..(j + 1)
      PROVE  q[n] = q[n - 1] + Len(PutField(k, v, n))
  <2>1. CASE n = j + 1
    BY <1>2, <1>6, <2>1
  <2>2. CASE n # j + 1
    <3>1. n \in 1..j /\ n \in 0..j /\ n - 1 \in 0..j
      BY <2>2
    <3> QED BY <1>5, <1>6, <3>1
  <2> QED BY <2>1, <2>2
<1>9. ASSUME NEW d, At(d, 0, s \o f), NEW n \in 1..(j + 1), q[n - 1] <= Len(d)
      PROVE  At(d, q[n - 1], PutField(k, v, n))
  <2>1. At(d, 0, s) /\ (0 + Len(s) <= Len(d) => At(d, 0 + Len(s), f))
    BY <1>3, <1>9, AtParts
  <2>2. CASE n = j + 1
    <3>1. q[n - 1] = Len(s) /\ 0 + Len(s) = Len(s)
      BY <1>3, <1>6, <2>2
    <3> QED BY <1>2, <1>9, <2>1, <2>2, <3>1
  <2>3. CASE n # j + 1
    <3>1. n \in 1..j /\ n - 1 \in 0..j
      BY <2>3
    <3>2. q[n - 1] = o[n - 1]
      BY <1>6, <3>1
    <3> QED BY <1>1, <1>9, <2>1, <3>1, <3>2 DEF Laid
  <2> QED BY <2>2, <2>3
<1>10. Len(s \o f) = q[j + 1] /\ q[0] = 0
  BY <1>3, <1>5, <1>6
<1>11. Laid(k, v, j + 1, s \o f, q)
  BY <1>3, <1>6, <1>7, <1>8, <1>9, <1>10 DEF Laid
<1> QED BY <1>2, <1>11

(* The first field.                                                        *)
LEMMA LaidFirst ==
  ASSUME NEW k, NEW v, Bytes(PutField(k, v, 1))
  PROVE  \E o : Laid(k, v, 1, PutField(k, v, 1), o)
<1>1. PICK q : q = [n \in 0..0 |-> 0]
  OBVIOUS
<1>2. q \in [0..0 -> Nat] /\ q[0] = 0 /\ Len(<<>>) = 0 /\ Bytes(<<>>)
  BY <1>1, ShortBytes
<1>3. Laid(k, v, 0, <<>>, q)
  BY <1>2 DEF Laid
<1>4. \E o : Laid(k, v, 0 + 1, <<>> \o PutField(k, v, 0 + 1), o)
  <2>1. 0 \in Nat /\ 0 + 1 = 1
    OBVIOUS
  <2> QED BY <1>3, <2>1, LaidNext
<1>5. <<>> \o PutField(k, v, 1) = PutField(k, v, 1)
  BY ConcatEmptySeq DEF Bytes
<1>6. 0 + 1 = 1
  OBVIOUS
<1> QED BY <1>4, <1>5, <1>6

(* The fields of a message are bytes.                                      *)
LEMMA FieldBytesOf ==
  ASSUME NEW k \in FlatKinds, NEW v, IsFlat(k, v), NEW j \in 1..Len(Fields(k))
  PROVE  /\ Bytes(PutField(k, v, j)) /\ Len(PutField(k, v, j)) \in Nat
         /\ PutField(k, v, j) = <<>> => v[Fields(k)[j][1]] = ZeroOf(Fields(k)[j][2])
<1>1. PICK x, type : x = Fields(k)[j][1] /\ type = Fields(k)[j][2]
  OBVIOUS
<1>2. type \in {"int", "enum", "bool", "bytes"} /\ v[x] \in ValuesOf(type)
  BY <1>1, FieldTable DEF IsFlat
<1>3. CASE type \in {"int", "enum"}
  <2>1. PutField(k, v, j) = PutInt(8 * j, v[x])
    BY <1>1, <1>3 DEF PutField
  <2>2. Bytes(PutField(k, v, j))
    BY <2>1, FieldSizes
  <2>3. v[x] # 0 => Len(PutField(k, v, j)) = 1 + Sov(Unsigned(v[x]))
    BY <2>1, FieldSizes DEF SizeInt
  <2>4. Sov(Unsigned(v[x])) \in 1..10 /\ Len(<<>>) = 0
    BY SovBound, ShortBytes
  <2>5. PutField(k, v, j) = <<>> => v[x] = 0
    BY <2>3, <2>4
  <2> QED BY <1>1, <1>3, <2>2, <2>5 DEF ZeroOf, Bytes
<1>4. CASE type = "bool"
  <2>1. PutField(k, v, j) = PutBool(8 * j, v[x]) /\ v[x] \in BOOLEAN
    BY <1>1, <1>2, <1>4 DEF PutField, ValuesOf
  <2>2. Bytes(PutField(k, v, j))
    BY <2>1, FieldSizes
  <2>3. PutField(k, v, j) = <<>> => v[x] = FALSE
    BY <2>1 DEF PutBool
  <2>4. ZeroOf(type) = FALSE
    BY <1>4 DEF ZeroOf
  <2>5. Len(PutField(k, v, j)) \in Nat
    BY <2>2 DEF Bytes
  <2> QED BY <1>1, <2>2, <2>3, <2>4, <2>5
<1>5. CASE type = "bytes"
  <2>1. PutField(k, v, j) = PutBytes(8 * j + 2, v[x]) /\ v[x] \in Seq(0..255)
    BY <1>1, <1>2, <1>5 DEF PutField, ValuesOf
  <2>2. Bytes(v[x])
    BY <2>1 DEF Bytes
  <2>3. Bytes(PutField(k, v, j))
    BY <2>1, <2>2, FieldSizes
  <2>4. Len(PutDelimited(8 * j + 2, v[x])) = 1 + Len(v[x]) + Sov(Len(v[x]))
    BY <2>2, DelimitedSize DEF SizeDelimited
  <2>5. Sov(Len(v[x])) \in 1..10 /\ Len(<<>>) = 0 /\ Len(v[x]) \in Nat
    BY <2>1, SovBound, ShortBytes
  <2>6. PutDelimited(8 * j + 2, v[x]) # <<>>
    <3>1. PICK p : p = PutDelimited(8 * j + 2, v[x]) /\ Len(p) = 1 + Len(v[x]) + Sov(Len(v[x]))
      BY <2>4
    <3>2. PICK l \in Nat, g \in 1..10 : Len(p) = 1 + l + g
      BY <2>5, <3>1
    <3>3. Len(p) # 0
      BY <3>2
    <3>4. p # <<>>
      BY <2>5, <3>3
    <3> QED BY <3>1, <3>4
  <2>7. PutField(k, v, j) = <<>> => v[x] = <<>>
    BY <2>1, <2>6 DEF PutBytes
  <2> QED BY <1>1, <1>5, <2>3, <2>7 DEF ZeroOf, Bytes
<1> QED BY <1>2, <1>3, <1>4, <1>5

(* The fields of each type of message, one after the other.                *)
LEMMA FlatLaid ==
  ASSUME NEW k \in FlatKinds, NEW v, IsFlat(k, v)
  PROVE  \E o : Laid(k, v, Len(Fields(k)), FlatBytes(k, v), o)
<1>1. PICK P : P = [n \in 1..6 |-> PutField(k, v, n)]
  OBVIOUS
<1>2. ASSUME NEW j \in 1..6, j <= Len(Fields(k))
      PROVE  P[j] = PutField(k, v, j) /\ Bytes(P[j])
  <2>1. j \in 1..Len(Fields(k))
    BY <1>2, FieldTable
  <2> QED BY <1>1, <2>1, FieldBytesOf
<1>3. ASSUME NEW j \in 1..5, j + 1 <= Len(Fields(k)), NEW s, \E o : Laid(k, v, j, s, o)
      PROVE  (\E o : Laid(k, v, j + 1, s \o P[j + 1], o)) /\ Bytes(s \o P[j + 1])
  <2>1. j \in Nat /\ j + 1 \in 1..6
    OBVIOUS
  <2>2. Bytes(PutField(k, v, j + 1)) /\ P[j + 1] = PutField(k, v, j + 1)
    BY <1>2, <1>3, <2>1
  <2>3. \E o : Laid(k, v, j + 1, s \o P[j + 1], o)
    BY <1>3, <2>1, <2>2, LaidNext
  <2> QED BY <2>3 DEF Laid
<1>4. (\E o : Laid(k, v, 1, P[1], o)) /\ Bytes(P[1])
  <2>1. Bytes(PutField(k, v, 1)) /\ P[1] = PutField(k, v, 1)
    BY <1>2, FieldTable
  <2> QED BY <2>1, LaidFirst
<1>5. v.unknown = <<>> /\ \A s : Bytes(s) => s \o <<>> = s
  BY ConcatEmptySeq DEF IsFlat, Bytes
<1>6. CASE k = "ServerStatus"
  <2>1. Len(Fields(k)) = 6 /\ Fields(k) = ServerStatusFields
    BY <1>6 DEF Fields, ServerStatusFields
  <2>2. \E o : Laid(k, v, 2, P[1] \o P[2], o)
    BY <1>3, <1>4, <2>1
  <2>3. \E o : Laid(k, v, 3, P[1] \o P[2] \o P[3], o)
    BY <1>3, <2>1, <2>2
  <2>4. \E o : Laid(k, v, 4, P[1] \o P[2] \o P[3] \o P[4], o)
    BY <1>3, <2>1, <2>3
  <2>5. \E o : Laid(k, v, 5, P[1] \o P[2] \o P[3] \o P[4] \o P[5], o)
    BY <1>3, <2>1, <2>4
  <2>6. PICK s : /\ s = P[1] \o P[2] \o P[3] \o P[4] \o P[5] \o P[6] /\ Bytes(s)
                 /\ \E o : Laid(k, v, 6, s, o)
    <3>1. (\E o : Laid(k, v, 6, P[1] \o P[2] \o P[3] \o P[4] \o P[5] \o P[6], o)) /\ Bytes(P[1] \o P[2] \o P[3] \o P[4] \o P[5] \o P[6])
      BY <1>3, <2>1, <2>5
    <3> QED BY <3>1
  <2>7. /\ P[1] = PutInt(8, v.DbSize) /\ P[2] = PutBytes(18, v.DbPath)
        /\ P[3] = PutInt(24, v.GrpcMaxReceiveBytes) /\ P[4] = PutInt(32, v.GcInterval)
        /\ P[5] = PutBool(40, v.DevMode) /\ P[6] = PutBool(48, v.GrpcMTls)
    BY <1>1, <2>1 DEF PutField, ServerStatusFields
  <2>8. FlatBytes(k, v) = s \o v.unknown
    BY <1>6, <2>6, <2>7 DEF FlatBytes, ServerStatusMarshal
  <2> QED BY <1>5, <2>1, <2>6, <2>8
<1>7. CASE k = "PasteOption"
  <2>1. Len(Fields(k)) = 1 /\ Fields(k) = PasteOptionFields
    BY <1>7 DEF Fields, PasteOptionFields
  <2>2. P[1] = PutInt(8, v.TransferRate)
    BY <1>1, <2>1 DEF PutField, PasteOptionFields
  <2>3. FlatBytes(k, v) = P[1] \o v.unknown
    BY <1>7, <2>2 DEF FlatBytes, PasteOptionMarshal
  <2> QED BY <1>4, <1>5, <2>1, <2>3
<1>8. CASE k = "PastInfo"
  <2>1. Len(Fields(k)) = 5 /\ Fields(k) = PastInfoFields
    BY <1>8 DEF Fields, PastInfoFields
  <2>2. \E o : Laid(k, v, 2, P[1] \o P[2], o)
    BY <1>3, <1>4, <2>1
  <2>3. \E o : Laid(k, v, 3, P[1] \o P[2] \o P[3], o)
    BY <1>3, <2>1, <2>2
  <2>4. \E o : Laid(k, v, 4, P[1] \o P[2] \o P[3] \o P[4], o)
    BY <1>3, <2>1, <2>3
  <2>5. PICK s : /\ s = P[1] \o P[2] \o P[3] \o P[4] \o P[5] /\ Bytes(s)
                 /\ \E o : Laid(k, v, 5, s, o)
    <3>1. (\E o : Laid(k, v, 5, P[1] \o P[2] \o P[3] \o P[4] \o P[5], o)) /\ Bytes(P[1] \o P[2] \o P[3] \o P[4] \o P[5])
      BY <1>3, <2>1, <2>4
    <3> QED BY <3>1
  <2>6. /\ P[1] = PutBool(8, v.Checksum) /\ P[2] = PutBool(16, v.Compressed)
        /\ P[3] = PutBytes(26, v.MasterKeyNonce) /\ P[4] = PutBytes(34, v.KeyNonce)
        /\ P[5] = PutBytes(42, v.Iv)
    BY <1>1, <2>1 DEF PutField, PastInfoFields
  <2>7. FlatBytes(k, v) = s \o v.unknown
    BY <1>8, <2>5, <2>6 DEF FlatBytes, PastInfoMarshal
  <2> QED BY <1>5, <2>1, <2>5, <2>7
<1>9. CASE k = "PastError"
  <2>1. Len(Fields(k)) = 2 /\ Fields(k) = PastErrorFields
    BY <1>9 DEF Fields, PastErrorFields
  <2>2. PICK s : /\ s = P[1] \o P[2] /\ Bytes(s)
                 /\ \E o : Laid(k, v, 2, s, o)
    <3>1. (\E o : Laid(k, v, 2, P[1] \o P[2], o)) /\ Bytes(P[1] \o P[2])
      BY <1>3, <1>4, <2>1
    <3> QED BY <3>1
  <2>3. P[1] = PutInt(8, v.Type) /\ P[2] = PutBytes(18, v.Message)
    BY <1>1, <2>1 DEF PutField, PastErrorFields
  <2>4. FlatBytes(k, v) = s \o v.unknown
    BY <1>9, <2>2, <2>3 DEF FlatBytes, PastErrorMarshal
  <2> QED BY <1>5, <2>1, <2>2, <2>4
<1>10. CASE k = "CopyInfo"
  <2>1. Len(Fields(k)) = 5 /\ Fields(k) = CopyInfoFields
    BY <1>10 DEF Fields, CopyInfoFields
  <2>2. \E o : Laid(k, v, 2, P[1] \o P[2], o)
    BY <1>3, <1>4, <2>1
  <2>3. \E o : Laid(k, v, 3, P[1] \o P[2] \o P[3], o)
    BY <1>3, <2>1, <2>2
  <2>4. \E o : Laid(k, v, 4, P[1] \o P[2] \o P[3] \o P[4], o)
    BY <1>3, <2>1, <2>3
  <2>5. PICK s : /\ s = P[1] \o P[2] \o P[3] \o P[4] \o P[5] /\ Bytes(s)
                 /\ \E o : Laid(k, v, 5, s, o)
    <3>1. (\E o : Laid(k, v, 5, P[1] \o P[2] \o P[3] \o P[4] \o P[5], o)) /\ Bytes(P[1] \o P[2] \o P[3] \o P[4] \o P[5])
      BY <1>3, <2>1, <2>4
    <3> QED BY <3>1
  <2>6. /\ P[1] = PutInt(8, v.Ttl) /\ P[2] = PutBool(16, v.Compressed)
        /\ P[3] = PutBytes(26, v.MasterKeyNonce) /\ P[4] = PutBytes(34, v.KeyNonce)
        /\ P[5] = PutBytes(42, v.Iv)
    BY <1>1, <2>1 DEF PutField, CopyInfoFields
  <2>7. FlatBytes(k, v) = s \o v.unknown
    BY <1>10, <2>5, <2>6 DEF FlatBytes, CopyInfoMarshal
  <2> QED BY <1>5, <2>1, <2>5, <2>7
<1> QED BY <1>6, <1>7, <1>8, <1>9, <1>10 DEF FlatKinds

(* What the loop has made of the fields up to j: those have their values, the
   others are still zero.                                                  *)
Parsed(k, v, j, m) ==
  /\ m = [x \in DOMAIN Zero(k) |-> m[x]] /\ m["unknown"] = <<>>
  /\ \A n \in 1..Len(Fields(k)) :
       m[Fields(k)[n][1]] = IF n <= j THEN v[Fields(k)[n][1]] ELSE ZeroOf(Fields(k)[n][2])

(* The loop begins with a new message.                                     *)
LEMMA ParsedFirst ==
  ASSUME NEW k \in FlatKinds, NEW v
  PROVE  Parsed(k, v, 0, Zero(k))
<1>1. \A n \in 1..Len(Fields(k)) : ~(n <= 0)
  BY FieldTable
<1>2. Zero(k)["unknown"] = <<>> /\ Zero(k) = [x \in DOMAIN Zero(k) |-> Zero(k)[x]]
  BY ZeroFields
<1>3. \A n \in 1..Len(Fields(k)) :
        Zero(k)[Fields(k)[n][1]] = ZeroOf(Fields(k)[n][2])
  BY ZeroFields
<1>4. PICK z : z = Zero(k)
  OBVIOUS
<1> QED BY <1>1, <1>2, <1>3, <1>4 DEF Parsed

(* A field more.                                                           *)
LEMMA ParsedNext ==
  ASSUME NEW k \in FlatKinds, NEW v, NEW j \in 1..Len(Fields(k)), NEW m,
         Parsed(k, v, j - 1, m)
  PROVE  /\ Parsed(k, v, j, [m EXCEPT ![Fields(k)[j][1]] = v[Fields(k)[j][1]]])
         /\ v[Fields(k)[j][1]] = ZeroOf(Fields(k)[j][2]) => Parsed(k, v, j, m)
<1>1. PICK x, w : x = Fields(k)[j][1] /\ w = [m EXCEPT ![x] = v[x]]
  OBVIOUS
<1>2. /\ x # "unknown" /\ x \in DOMAIN Zero(k) /\ DOMAIN m = DOMAIN Zero(k)
      /\ "unknown" \in DOMAIN Zero(k) /\ Len(Fields(k)) \in Nat
      /\ DOMAIN Fields(k) = 1..Len(Fields(k))
  BY <1>1, FieldTable, ZeroFields DEF Parsed, Names
<1>3. w = [z \in DOMAIN Zero(k) |-> w[z]] /\ w["unknown"] = <<>> /\ w[x] = v[x]
  BY <1>1, <1>2 DEF Parsed
<1>4. ASSUME NEW n \in 1..Len(Fields(k))
      PROVE  /\ n # j => w[Fields(k)[n][1]] = m[Fields(k)[n][1]]
             /\ n # j => (n <= j <=> n <= j - 1)
  <2>1. n # j => Fields(k)[n][1] # x
    BY <1>1, FieldNames
  <2>2. Fields(k)[n][1] \in DOMAIN m
    <3>1. Fields(k)[n][1] \in Names(k)
      BY <1>2 DEF Names
    <3> QED BY <1>2, <3>1, ZeroFields
  <2> QED BY <1>1, <1>2, <2>1, <2>2
<1>5. ASSUME NEW n \in 1..Len(Fields(k))
      PROVE  w[Fields(k)[n][1]] =
               IF n <= j THEN v[Fields(k)[n][1]] ELSE ZeroOf(Fields(k)[n][2])
  <2>1. CASE n = j
    BY <1>1, <1>2, <1>3, <2>1
  <2>2. CASE n # j
    BY <1>4, <2>2 DEF Parsed
  <2> QED BY <2>1, <2>2
<1>6. Parsed(k, v, j, w)
  BY <1>3, <1>5 DEF Parsed
<1>7. ASSUME v[x] = ZeroOf(Fields(k)[j][2])
      PROVE  Parsed(k, v, j, m)
  <2>1. ASSUME NEW n \in 1..Len(Fields(k))
        PROVE  m[Fields(k)[n][1]] =
                 IF n <= j THEN v[Fields(k)[n][1]] ELSE ZeroOf(Fields(k)[n][2])
    <3>1. m[Fields(k)[n][1]] =
            IF n <= j - 1 THEN v[Fields(k)[n][1]] ELSE ZeroOf(Fields(k)[n][2])
      BY DEF Parsed
    <3>2. CASE n = j
      BY <1>1, <1>2, <1>7, <3>1, <3>2
    <3>3. CASE n # j
      BY <1>4, <3>1, <3>3
    <3> QED BY <3>2, <3>3
  <2> QED BY <2>1 DEF Parsed
<1> QED BY <1>1, <1>6, <1>7

(* The loop of a message v in the bytes d, which are its own or the beginning
   of them: it stands after a field.                                       *)
Begins(d, s) == Bytes(d) /\ Len(d) <= Len(s) /\ At(d, 0, s)

StandsAfter(k, v, o, j, i, m) ==
  /\ k \in FlatKinds /\ IsFlat(k, v)
  /\ Laid(k, v, Len(Fields(k)), FlatBytes(k, v), o)
  /\ j \in 0..Len(Fields(k)) /\ i = o[j] /\ Parsed(k, v, j, m)

FlatProgress(k, v, d, i, m) ==
  /\ k \in FlatKinds /\ IsFlat(k, v) /\ Begins(d, FlatBytes(k, v))
  /\ Len(FlatBytes(k, v)) < 2^(WordBits - 1) /\ i <= Len(d)
  /\ \E o : \E j \in 0..Len(Fields(k)) :
       /\ Laid(k, v, Len(Fields(k)), FlatBytes(k, v), o)
       /\ i = o[j] /\ Parsed(k, v, j, m)

(* The loop begins before the first field.                                 *)
LEMMA FlatStart ==
  ASSUME NEW k \in FlatKinds, NEW v, IsFlat(k, v), NEW d,
         Begins(d, FlatBytes(k, v)), Len(FlatBytes(k, v)) < 2^(WordBits - 1)
  PROVE  FlatProgress(k, v, d, 0, Zero(k))
<1>1. PICK o : Laid(k, v, Len(Fields(k)), FlatBytes(k, v), o)
  BY FlatLaid
<1>2. 0 = o[0] /\ 0 \in 0..Len(Fields(k)) /\ 0 <= Len(d)
  BY <1>1, FieldTable DEF Laid, Begins, At
<1>3. Parsed(k, v, 0, Zero(k))
  BY ParsedFirst
<1> QED BY <1>1, <1>2, <1>3 DEF FlatProgress

(* It stands at the next field that has bytes, if there is one.            *)
LEMMA FlatAhead ==
  ASSUME NEW k, NEW v, NEW o, NEW m, NEW i, NEW j, StandsAfter(k, v, o, j, i, m)
  PROVE  \/ i = o[Len(Fields(k))] /\ Parsed(k, v, Len(Fields(k)), m)
         \/ \E n \in 1..Len(Fields(k)) :
              /\ PutField(k, v, n) # <<>>
              /\ i = o[n - 1] /\ Parsed(k, v, n - 1, m)
<1> USE DEF StandsAfter
<1>1. PICK N \in Nat : N = Len(Fields(k))
  BY FieldTable
<1>2. PICK T : T = {a \in 0..N : o[N - a] = i /\ Parsed(k, v, N - a, m)}
  OBVIOUS
<1>3. PICK a \in T : \A b \in T : a <= b
  <2>1. T \subseteq Nat
    BY <1>2
  <2>2. N - j \in T
    <3>1. N - j \in 0..N /\ N - (N - j) = j
      BY <1>1
    <3> QED BY <1>2, <3>1
  <2> QED BY <2>1, <2>2, Least
<1>4. PICK n : n = N - a
  OBVIOUS
<1>5. n \in 0..N /\ o[n] = i /\ Parsed(k, v, n, m)
  BY <1>1, <1>2, <1>3, <1>4
<1>6. CASE n = N
  BY <1>1, <1>5, <1>6
<1>7. CASE n # N
  <2>1. n + 1 \in 1..N /\ (n + 1) - 1 = n /\ a >= 1 /\ a \in 0..N /\ N - (a - 1) = n + 1
    BY <1>1, <1>2, <1>3, <1>4, <1>5, <1>7
  <2>2. ASSUME PutField(k, v, n + 1) = <<>> PROVE FALSE
    <3>1. o[n + 1] = o[n] + Len(PutField(k, v, n + 1)) /\ o[n] \in Nat
      BY <1>1, <1>5, <2>1 DEF Laid
    <3>2. o[n + 1] = i
      BY <1>5, <2>2, <3>1, ShortBytes
    <3>3. v[Fields(k)[n + 1][1]] = ZeroOf(Fields(k)[n + 1][2])
      BY <1>1, <2>1, <2>2, FieldBytesOf
    <3>4. Parsed(k, v, n + 1, m)
      BY <1>1, <1>5, <2>1, <3>3, ParsedNext
    <3>5. a - 1 \in T
      BY <1>2, <2>1, <3>2, <3>4
    <3> QED BY <1>3, <2>1, <3>5
  <2> QED BY <1>1, <1>5, <2>1, <2>2
<1> QED BY <1>6, <1>7

(* A turn takes the next field, or fails because some of it is missing.    *)
LEMMA FlatRead ==
  ASSUME NEW k, NEW v, NEW d, NEW i, NEW m, NEW t,
         FlatProgress(k, v, d, i, m), i < Len(d), t = Turn(k, d, i, m)
  PROVE  /\ t.ok => t.sub = <<>> /\ FlatProgress(k, v, d, t.i, t.m)
         /\ Len(d) = Len(FlatBytes(k, v)) => t.ok
<1>1. /\ k \in FlatKinds /\ IsFlat(k, v) /\ Begins(d, FlatBytes(k, v))
      /\ Len(FlatBytes(k, v)) < 2^(WordBits - 1)
  BY DEF FlatProgress
<1>2. PICK N \in Nat : N = Len(Fields(k))
  BY <1>1, FieldTable
<1>3. PICK o, j : /\ j \in 0..N /\ Laid(k, v, N, FlatBytes(k, v), o)
                  /\ i = o[j] /\ Parsed(k, v, j, m)
  BY <1>2 DEF FlatProgress
<1>4. /\ Len(FlatBytes(k, v)) = o[N] /\ o \in [0..N -> Nat] /\ Len(d) \in Nat
      /\ Len(d) <= o[N] /\ At(d, 0, FlatBytes(k, v)) /\ Bytes(d)
      /\ \A n \in 0..N : o[n] <= o[N]
      /\ \A n \in 1..N : o[n] = o[n - 1] + Len(PutField(k, v, n))
      /\ \A n \in 1..N : o[n - 1] <= Len(d) => At(d, o[n - 1], PutField(k, v, n))
  BY <1>1, <1>3 DEF Laid, Begins, At
<1>5. PICK n : /\ n \in 1..N /\ PutField(k, v, n) # <<>>
               /\ i = o[n - 1] /\ Parsed(k, v, n - 1, m)
  <2>1. i # o[N]
    BY <1>3, <1>4
  <2>2. \/ i = o[N] /\ Parsed(k, v, N, m)
        \/ \E n \in 1..N : /\ PutField(k, v, n) # <<>>
                           /\ i = o[n - 1] /\ Parsed(k, v, n - 1, m)
    <3>1. StandsAfter(k, v, o, j, i, m)
      BY <1>1, <1>2, <1>3 DEF StandsAfter
    <3>2. \/ i = o[Len(Fields(k))] /\ Parsed(k, v, Len(Fields(k)), m)
          \/ \E n \in 1..Len(Fields(k)) :
               /\ PutField(k, v, n) # <<>>
               /\ i = o[n - 1] /\ Parsed(k, v, n - 1, m)
      BY <3>1, FlatAhead
    <3> QED BY <1>2, <3>2
  <2> QED BY <2>1, <2>2
<1>6. PICK p : p = PutField(k, v, n)
  OBVIOUS
<1>7. /\ i \in Nat /\ At(d, i, p) /\ i + 1 <= Len(d)
      /\ o[n] = i + Len(p) /\ o[n] <= o[N] /\ o[n] \in Nat /\ o[N] \in Nat
  BY <1>3, <1>4, <1>5, <1>6
<1>8. i + Len(p) < 2^(WordBits - 1)
  BY <1>1, <1>4, <1>7, Widths
<1>9. PICK x : x = Fields(k)[n][1]
  OBVIOUS
<1>10. Takes(t, o[n], d, m, x, v[x])
  BY <1>1, <1>2, <1>4, <1>5, <1>6, <1>7, <1>8, <1>9, FieldTurn
<1>11. CASE o[n] <= Len(d)
  <2>1. t = Took(o[n], [m EXCEPT ![x] = v[x]])
    BY <1>10, <1>11 DEF Takes
  <2>2. t.ok /\ t.sub = <<>> /\ t.i = o[n] /\ t.m = [m EXCEPT ![x] = v[x]]
    BY <2>1 DEF Took
  <2>3. Parsed(k, v, n, t.m)
    BY <1>1, <1>2, <1>5, <1>9, <2>2, ParsedNext
  <2>4. n \in 0..Len(Fields(k))
    BY <1>2, <1>5
  <2> QED BY <1>1, <1>2, <1>3, <1>11, <2>2, <2>3, <2>4 DEF FlatProgress
<1>12. CASE ~(o[n] <= Len(d))
  <2>1. ~t.ok
    BY <1>10, <1>12 DEF Takes
  <2>2. Len(d) # Len(FlatBytes(k, v))
    BY <1>4, <1>7, <1>12
  <2> QED BY <2>1, <2>2
<1> QED BY <1>11, <1>12

(* At the end of all the bytes the message is there, and at the end of some
   each field of it is there or zero.                                      *)
LEMMA FlatReturn ==
  ASSUME NEW k, NEW v, NEW d, NEW i, NEW m, FlatProgress(k, v, d, i, m), i = Len(d)
  PROVE  /\ Len(d) = Len(FlatBytes(k, v)) => m = v
         /\ \A x \in DOMAIN m \ {"unknown"} : m[x] \in {v[x], Zero(k)[x]}
<1>1. k \in FlatKinds /\ IsFlat(k, v)
  BY DEF FlatProgress
<1>2. PICK N \in Nat : N = Len(Fields(k)) /\ DOMAIN Fields(k) = 1..N
  BY <1>1, FieldTable
<1>3. PICK o, j : /\ j \in 0..N /\ Laid(k, v, N, FlatBytes(k, v), o)
                  /\ i = o[j] /\ Parsed(k, v, j, m)
  BY <1>2 DEF FlatProgress
<1>4. DOMAIN m = {"unknown"} \union Names(k) /\ m["unknown"] = <<>>
  <2>1. DOMAIN m = DOMAIN Zero(k) /\ m["unknown"] = <<>>
    BY <1>3 DEF Parsed
  <2> QED BY <1>1, <2>1, ZeroFields
<1>5. ASSUME NEW x \in DOMAIN m \ {"unknown"}
      PROVE  m[x] \in {v[x], Zero(k)[x]}
  <2>1. PICK n \in 1..N : x = Fields(k)[n][1]
    BY <1>2, <1>4 DEF Names
  <2>2. m[x] = IF n <= j THEN v[x] ELSE ZeroOf(Fields(k)[n][2])
    BY <1>2, <1>3, <2>1 DEF Parsed
  <2>3. Zero(k)[x] = ZeroOf(Fields(k)[n][2])
    BY <1>1, <1>2, <2>1, ZeroFields
  <2> QED BY <2>2, <2>3
<1>6. ASSUME Len(d) = Len(FlatBytes(k, v))
      PROVE  m = v
  <2>1. /\ i = o[N] /\ o \in [0..N -> Nat] /\ \A n \in 0..N : o[n] <= o[N]
        /\ \A n \in 1..N : o[n] = o[n - 1] + Len(PutField(k, v, n))
    BY <1>3, <1>6 DEF Laid
  <2>2. Parsed(k, v, N, m)
    <3>1. ASSUME NEW n \in 1..N, PutField(k, v, n) # <<>>, i = o[n - 1] PROVE FALSE
      <4>1. Bytes(PutField(k, v, n)) /\ Len(PutField(k, v, n)) \in Nat
        BY <1>1, <1>2, FieldBytesOf
      <4>2. Len(PutField(k, v, n)) # 0
        BY <3>1, <4>1, EmptySeq DEF Bytes
      <4>3. o[n] <= o[N] /\ o[n] = i + Len(PutField(k, v, n)) /\ o[N] \in Nat
        BY <2>1, <3>1
      <4> QED BY <2>1, <4>1, <4>2, <4>3
    <3>2. \/ i = o[N] /\ Parsed(k, v, N, m)
          \/ \E n \in 1..N : /\ PutField(k, v, n) # <<>>
                             /\ i = o[n - 1] /\ Parsed(k, v, n - 1, m)
      <4>1. StandsAfter(k, v, o, j, i, m)
        BY <1>1, <1>2, <1>3 DEF StandsAfter
      <4>2. \/ i = o[Len(Fields(k))] /\ Parsed(k, v, Len(Fields(k)), m)
            \/ \E n \in 1..Len(Fields(k)) :
                 /\ PutField(k, v, n) # <<>>
                 /\ i = o[n - 1] /\ Parsed(k, v, n - 1, m)
        BY <4>1, FlatAhead
      <4> QED BY <1>2, <4>2
    <3> QED BY <3>1, <3>2
  <2>3. /\ DOMAIN v = DOMAIN m /\ v["unknown"] = <<>>
        /\ v = [x \in DOMAIN m |-> v[x]] /\ m = [x \in DOMAIN m |-> m[x]]
    <3>1. v = [x \in DOMAIN Zero(k) |-> v[x]] /\ v["unknown"] = <<>>
      BY <1>1 DEF IsFlat
    <3>2. m = [x \in DOMAIN Zero(k) |-> m[x]]
      BY <1>3 DEF Parsed
    <3> QED BY <3>1, <3>2
  <2>4. ASSUME NEW x \in DOMAIN m PROVE m[x] = v[x]
    <3>1. CASE x = "unknown"
      BY <1>4, <2>3, <3>1
    <3>2. CASE x # "unknown"
      <4>1. PICK n \in 1..N : x = Fields(k)[n][1]
        BY <1>2, <1>4, <3>2 DEF Names
      <4> QED BY <1>2, <2>2, <4>1 DEF Parsed
    <3> QED BY <3>1, <3>2
  <2> QED BY <2>3, <2>4
<1> QED BY <1>5, <1>6

-----------------------------------------------------------------------------
(* Messages with others in them                                            *)

(* A message as UnmarshalVT's switch has it, and as MarshalVT needs it.    *)
LEMMA FlatFields ==
  ASSUME NEW k \in FlatKinds, NEW v, IsFlat(k, v)
  PROVE  /\ k = "ServerStatus" => IsServerStatus(v)
         /\ k = "PasteOption" => IsPasteOption(v)
         /\ k = "PastInfo" => IsPastInfo(v)
         /\ k = "PastError" => IsPastError(v)
         /\ k = "CopyInfo" => IsCopyInfo(v)
<1>1. /\ v.unknown = <<>> /\ Bytes(v.unknown)
      /\ \A n \in 1..Len(Fields(k)) : v[Fields(k)[n][1]] \in ValuesOf(Fields(k)[n][2])
  BY FieldTable, ShortBytes DEF IsFlat
<1>2. \A s \in ValuesOf("bytes") : Bytes(s)
  BY DEF ValuesOf, Bytes
<1>3. \A b \in ValuesOf("bool") : b \in BOOLEAN
  BY DEF ValuesOf
<1>4. CASE k = "ServerStatus"
  <2>1. /\ v.DbPath \in ValuesOf("bytes")
        /\ v.DevMode \in ValuesOf("bool") /\ v.GrpcMTls \in ValuesOf("bool")
    BY <1>1, <1>4 DEF Fields, ServerStatusFields
  <2> QED BY <1>1, <1>2, <1>3, <1>4, <2>1 DEF IsServerStatus
<1>5. CASE k = "PasteOption"
  BY <1>1, <1>5 DEF IsPasteOption
<1>6. CASE k = "PastInfo"
  <2>1. /\ v.Checksum \in ValuesOf("bool") /\ v.Compressed \in ValuesOf("bool")
        /\ v.MasterKeyNonce \in ValuesOf("bytes")
        /\ v.KeyNonce \in ValuesOf("bytes") /\ v.Iv \in ValuesOf("bytes")
    BY <1>1, <1>6 DEF Fields, PastInfoFields
  <2> QED BY <1>1, <1>2, <1>3, <1>6, <2>1 DEF IsPastInfo
<1>7. CASE k = "PastError"
  <2>1. v.Message \in ValuesOf("bytes")
    BY <1>1, <1>7 DEF Fields, PastErrorFields
  <2> QED BY <1>1, <1>2, <1>7, <2>1 DEF IsPastError
<1>8. CASE k = "CopyInfo"
  <2>1. /\ v.Compressed \in ValuesOf("bool") /\ v.MasterKeyNonce \in ValuesOf("bytes")
        /\ v.KeyNonce \in ValuesOf("bytes") /\ v.Iv \in ValuesOf("bytes")
    BY <1>1, <1>8 DEF Fields, CopyInfoFields
  <2> QED BY <1>1, <1>2, <1>3, <1>8, <2>1 DEF IsCopyInfo
<1> QED BY <1>4, <1>5, <1>6, <1>7, <1>8 DEF FlatKinds

(* The tables of fields of the streams.                                    *)
LEMMA StreamTable ==
  ASSUME NEW k \in Streams
  PROVE  /\ Len(Fields(k)) \in Nat /\ DOMAIN Fields(k) = 1..Len(Fields(k))
         /\ \A n \in DOMAIN Fields(k) :
              /\ n \in 1..4 /\ n <= Len(Fields(k))
              /\ \/ Fields(k)[n][2] = "oneof"
                 \/ /\ Fields(k)[n][2] \in {"PastInfo", "PastError", "CopyInfo"}
                    /\ Fields(k)[n][2] \in FlatKinds
<1>1. CASE k = "PastStream"
  BY <1>1 DEF Fields, PastStreamFields, FlatKinds
<1>2. CASE k = "CopyStream"
  BY <1>2 DEF Fields, CopyStreamFields, FlatKinds
<1> QED BY <1>1, <1>2 DEF Streams

(* The message m of the stream k has the value v in the oneof member n, whose
   bytes are s.                                                            *)
Holds(k, m, n, v, s) ==
  /\ n \in DOMAIN Fields(k) /\ m = [Data |-> <<Fields(k)[n][1], v>>, unknown |-> <<>>]
  /\ IF Fields(k)[n][2] = "oneof" THEN v \in Seq(0..255) /\ s = v
     ELSE IsFlat(Fields(k)[n][2], v) /\ s = FlatBytes(Fields(k)[n][2], v)

(* A message of a stream is empty, or has one member.                      *)
LEMMA StreamHolds ==
  ASSUME NEW k \in Streams, NEW m, IsMessage(k, m)
  PROVE  \/ m = Zero(k)
         \/ \E n, v, s : Holds(k, m, n, v, s)
<1>1. m = [Data |-> m.Data, unknown |-> <<>>]
  BY DEF IsMessage
<1>2. CASE m.Data = <<>>
  BY <1>1, <1>2 DEF Zero
<1>3. CASE m.Data # <<>>
  <2>1. PICK n \in DOMAIN Fields(k) :
          /\ m.Data = <<Fields(k)[n][1], m.Data[2]>>
          /\ IF Fields(k)[n][2] = "oneof" THEN m.Data[2] \in ValuesOf("oneof")
             ELSE IsFlat(Fields(k)[n][2], m.Data[2])
    BY <1>3 DEF IsMessage
  <2>2. PICK v : v = m.Data[2]
    OBVIOUS
  <2>3. m = [Data |-> <<Fields(k)[n][1], v>>, unknown |-> <<>>]
    BY <1>1, <2>1, <2>2
  <2>4. CASE Fields(k)[n][2] = "oneof"
    <3>1. v \in Seq(0..255)
      BY <2>1, <2>2, <2>4 DEF ValuesOf
    <3>2. Holds(k, m, n, v, v)
      BY <2>3, <2>4, <3>1 DEF Holds
    <3> QED BY <3>2
  <2>5. CASE Fields(k)[n][2] # "oneof"
    <3>1. Holds(k, m, n, v, FlatBytes(Fields(k)[n][2], v))
      BY <2>1, <2>2, <2>3, <2>5 DEF Holds
    <3> QED BY <3>1
  <2> QED BY <2>4, <2>5
<1> QED BY <1>2, <1>3

(* Its bytes are the member's, after their tag and their length.           *)
LEMMA StreamBytes ==
  ASSUME NEW k \in Streams, NEW m, NEW n, NEW v, NEW s, Holds(k, m, n, v, s)
  PROVE  /\ Message(k, m) /\ Bytes(s)
         /\ FieldBytes(k, m) = PutDelimited(8 * n + 2, s)
<1>1. PICK c, f : f = Fields(k)[n] /\ c = f[1]
  OBVIOUS
<1>2. /\ n \in DOMAIN Fields(k) /\ m.Data[1] = c /\ m.Data[2] = v /\ m.Data # <<>>
      /\ m.unknown = <<>> /\ Bytes(m.unknown)
      /\ IF f[2] = "oneof" THEN v \in Seq(0..255) /\ s = v
         ELSE IsFlat(f[2], v) /\ s = FlatBytes(f[2], v)
  <2>1. m = [Data |-> <<c, v>>, unknown |-> <<>>]
    BY <1>1 DEF Holds
  <2>2. m.Data = <<c, v>> /\ m.unknown = <<>>
    BY <2>1
  <2> QED BY <1>1, <2>2, ShortBytes DEF Holds
<1>3. \A a : Bytes(a) => a \o <<>> = a
  BY ConcatEmptySeq DEF Bytes
<1>4. CASE k = "PastStream"
  <2>1. \/ n = 1 /\ c = "Info" /\ f[2] = "PastInfo"
        \/ n = 2 /\ c = "Chunk" /\ f[2] = "oneof"
        \/ n = 3 /\ c = "Checksum" /\ f[2] = "oneof"
        \/ n = 4 /\ c = "Error" /\ f[2] = "PastError"
    BY <1>1, <1>2, <1>4 DEF Fields, PastStreamFields
  <2>2. /\ IsPastData(c, v) /\ Bytes(s)
        /\ PastDataMarshal(c, v) = PutDelimited(8 * n + 2, s)
    <3>1. CASE n = 1 /\ c = "Info" /\ f[2] = "PastInfo"
      <4>1. IsPastInfo(v) /\ s = PastInfoMarshal(v)
        BY <1>2, <3>1, FlatFields DEF FlatKinds, FlatBytes
      <4> QED BY <3>1, <4>1, PastInfoWritten DEF IsPastData, PastDataMarshal, Written
    <3>2. CASE n = 2 /\ c = "Chunk" /\ f[2] = "oneof"
      BY <1>2, <3>2 DEF IsPastData, PastDataMarshal, Bytes
    <3>3. CASE n = 3 /\ c = "Checksum" /\ f[2] = "oneof"
      BY <1>2, <3>3 DEF IsPastData, PastDataMarshal, Bytes
    <3>4. CASE n = 4 /\ c = "Error" /\ f[2] = "PastError"
      <4>1. IsPastError(v) /\ s = PastErrorMarshal(v)
        BY <1>2, <3>4, FlatFields DEF FlatKinds, FlatBytes
      <4> QED BY <3>4, <4>1, PastErrorWritten DEF IsPastData, PastDataMarshal, Written
    <3> QED BY <2>1, <3>1, <3>2, <3>3, <3>4
  <2>3. FieldBytes(k, m) = PutDelimited(8 * n + 2, s) \o <<>>
    BY <1>2, <1>4, <2>2 DEF FieldBytes, PastStreamFieldBytes
  <2>4. Bytes(PutDelimited(8 * n + 2, s))
    BY <2>2, DelimitedSize
  <2>5. Message(k, m)
    BY <1>2, <1>4, <2>2 DEF Message, IsPastStream
  <2> QED BY <1>3, <2>2, <2>3, <2>4, <2>5
<1>5. CASE k = "CopyStream"
  <2>1. \/ n = 1 /\ c = "Info" /\ f[2] = "CopyInfo"
        \/ n = 2 /\ c = "Chunk" /\ f[2] = "oneof"
        \/ n = 3 /\ c = "Checksum" /\ f[2] = "oneof"
    BY <1>1, <1>2, <1>5 DEF Fields, CopyStreamFields
  <2>2. /\ IsCopyData(c, v) /\ Bytes(s)
        /\ CopyDataMarshal(c, v) = PutDelimited(8 * n + 2, s)
    <3>1. CASE n = 1 /\ c = "Info" /\ f[2] = "CopyInfo"
      <4>1. IsCopyInfo(v) /\ s = CopyInfoMarshal(v)
        BY <1>2, <3>1, FlatFields DEF FlatKinds, FlatBytes
      <4> QED BY <3>1, <4>1, CopyInfoWritten DEF IsCopyData, CopyDataMarshal, Written
    <3>2. CASE n = 2 /\ c = "Chunk" /\ f[2] = "oneof"
      BY <1>2, <3>2 DEF IsCopyData, CopyDataMarshal, Bytes
    <3>3. CASE n = 3 /\ c = "Checksum" /\ f[2] = "oneof"
      BY <1>2, <3>3 DEF IsCopyData, CopyDataMarshal, Bytes
    <3> QED BY <2>1, <3>1, <3>2, <3>3
  <2>3. FieldBytes(k, m) = PutDelimited(8 * n + 2, s) \o <<>>
    BY <1>2, <1>5, <2>2 DEF FieldBytes, CopyStreamFieldBytes
  <2>4. Bytes(PutDelimited(8 * n + 2, s))
    BY <2>2, DelimitedSize
  <2>5. Message(k, m)
    BY <1>2, <1>5, <2>2 DEF Message, IsCopyStream
  <2> QED BY <1>3, <2>2, <2>3, <2>4, <2>5
<1> QED BY <1>4, <1>5 DEF Streams

(* What a message of the service becomes.                                  *)
LEMMA SentBytes ==
  ASSUME NEW k \in Kinds, NEW m, IsMessage(k, m)
  PROVE  /\ Message(k, m) /\ MarshalVT(k, m) = FieldBytes(k, m)
         /\ Bytes(MarshalVT(k, m)) /\ Len(MarshalVT(k, m)) = SizeVT(k, m)
         /\ Len(MarshalVT(k, m)) \in Nat
         /\ k \notin Streams =>
              k \in FlatKinds /\ IsFlat(k, m) /\ MarshalVT(k, m) = FlatBytes(k, m)
         /\ k \in Streams /\ m = Zero(k) => Len(MarshalVT(k, m)) = 0
<1>1. Message(k, m)
  <2>1. CASE k \notin Streams
    <3>1. IsFlat(k, m) /\ k \in FlatKinds /\ k \in {"ServerStatus", "PasteOption"}
      BY <2>1 DEF IsMessage, Kinds, FlatKinds
    <3> QED BY <3>1, FlatFields DEF Message
  <2>2. CASE k \in Streams /\ m = Zero(k)
    <3>1. m.Data = <<>> /\ m.unknown = <<>>
      BY <2>2 DEF Zero
    <3> QED BY <2>2, <3>1, ShortBytes DEF Message, IsPastStream, IsCopyStream, Streams
  <2>3. CASE k \in Streams /\ m # Zero(k)
    BY <2>3, StreamHolds, StreamBytes
  <2> QED BY <2>1, <2>2, <2>3
<1>2. MarshalVT(k, m) = FieldBytes(k, m) /\ Len(MarshalVT(k, m)) = SizeVT(k, m)
  BY <1>1, BuffersAreFilledExactly
<1>3. Bytes(MarshalVT(k, m)) /\ Len(MarshalVT(k, m)) \in Nat
  <2>1. Bytes(FieldBytes(k, m))
    BY <1>1, MessageWritten DEF Written
  <2> QED BY <1>2, <2>1 DEF Bytes
<1>4. ASSUME k \notin Streams
      PROVE  k \in FlatKinds /\ IsFlat(k, m) /\ MarshalVT(k, m) = FlatBytes(k, m)
  BY <1>2, <1>4 DEF IsMessage, Kinds, FlatKinds, FieldBytes, FlatBytes
<1>5. ASSUME k \in Streams, m = Zero(k)
      PROVE  Len(MarshalVT(k, m)) = 0
  <2>1. m.Data = <<>> /\ m.unknown = <<>>
    BY <1>5 DEF Zero
  <2>2. FieldBytes(k, m) = <<>>
    BY <1>5, <2>1 DEF FieldBytes, PastStreamFieldBytes, CopyStreamFieldBytes, Streams
  <2> QED BY <1>2, <2>2, ShortBytes
<1> QED BY <1>1, <1>2, <1>3, <1>4, <1>5

(* A call of UnmarshalVT on its way.                                       *)
CallAt(k, d, i, m, into) == [k |-> k, d |-> d, i |-> i, m |-> m, into |-> into]

(* The turn of a stream's loop, of which there is at most one.             *)
LEMMA StreamTurn ==
  ASSUME NEW k \in Streams, NEW m, NEW n, NEW v, NEW s, Holds(k, m, n, v, s),
         NEW d, Begins(d, PutDelimited(8 * n + 2, s)), Len(d) > 0,
         Len(PutDelimited(8 * n + 2, s)) < 2^(WordBits - 1),
         NEW t, t = Turn(k, d, 0, Zero(k))
  PROVE  /\ Len(d) = Len(PutDelimited(8 * n + 2, s)) => t.ok
         /\ t.ok => t.i = Len(d)
         /\ t.ok /\ Fields(k)[n][2] = "oneof" => t.sub = <<>> /\ t.m = m
         /\ t.ok /\ Fields(k)[n][2] # "oneof" =>
              /\ t.m = Zero(k)
              /\ t.sub = <<CallAt(Fields(k)[n][2], s, 0, Zero(Fields(k)[n][2]),
                                  Fields(k)[n][1])>>
<1>1. PICK f, l, z : /\ f = Fields(k)[n] /\ l = Len(PutDelimited(8 * n + 2, s))
                     /\ z = Zero(k)
  OBVIOUS
<1>2. /\ n \in 1..4 /\ n <= Len(Fields(k)) /\ Len(Fields(k)) \in Nat
      /\ (f[2] = "oneof" \/ f[2] \in {"PastInfo", "PastError", "CopyInfo"})
      /\ Bytes(s) /\ m = [Data |-> <<f[1], v>>, unknown |-> <<>>]
      /\ (f[2] = "oneof" => s = v)
      /\ z = [Data |-> <<>>, unknown |-> <<>>]
  BY <1>1, StreamTable, StreamBytes DEF Holds, Zero
<1>3. l \in Nat /\ Bytes(d) /\ Len(d) \in Nat /\ Len(d) <= l /\ 0 + 1 <= Len(d)
  <2>1. l \in Nat
    BY <1>1, <1>2, DelimitedSize DEF Bytes
  <2>2. Bytes(d) /\ Len(d) \in Nat /\ Len(d) <= l
    BY <1>1 DEF Begins, Bytes
  <2> QED BY <2>1, <2>2
<1>4. /\ At(d, 0, <<8 * n + 2>>)
      /\ Delimited(d, 0 + 1) = IF l <= Len(d) THEN [ok |-> TRUE, i |-> l, s |-> s] ELSE Stop
  <2>1. At(d, 0, PutDelimited(8 * n + 2, s))
    BY DEF Begins
  <2>2. PICK i, tag : i = 0 /\ tag = 8 * n + 2
    OBVIOUS
  <2>3. /\ At(d, i, PutDelimited(tag, s)) /\ i + 1 <= Len(d) /\ l < 2^(WordBits - 1)
        /\ l = i + Len(PutDelimited(tag, s))
    BY <1>1, <1>3, <2>1, <2>2
  <2>4. /\ At(d, i, <<tag>>)
        /\ Delimited(d, i + 1) = IF l <= Len(d) THEN [ok |-> TRUE, i |-> l, s |-> s] ELSE Stop
    BY <1>2, <1>3, <2>3, DelimitedTurn
  <2> QED BY <2>2, <2>4
<1>5. TagAt(k, f, n, 2, d, 0)
  <2>1. n \in 1..7
    BY <1>2
  <2> QED BY <1>1, <1>2, <1>3, <1>4, <2>1 DEF TagAt
<1>6. PICK e : e = Delimited(d, 0 + 1)
  OBVIOUS
<1>7. CASE l <= Len(d)
  <2>1. e.ok /\ e.i = l /\ e.s = s /\ l = Len(d)
    BY <1>3, <1>4, <1>6, <1>7
  <2>2. CASE f[2] = "oneof"
    <3>1. t = TakeBytes(f, 2, d, 0 + 1, z)
      BY <1>1, <1>5, <2>2, BytesTag
    <3>2. t = Took(l, [z EXCEPT !.Data = <<f[1], s>>])
      BY <1>6, <2>1, <2>2, <3>1 DEF TakeBytes
    <3>3. [z EXCEPT !.Data = <<f[1], s>>] = m
      BY <1>2, <2>2
    <3>4. t.ok /\ t.i = l /\ t.m = m /\ t.sub = <<>>
      BY <3>2, <3>3 DEF Took
    <3> QED BY <1>1, <2>1, <2>2, <3>4
  <2>3. CASE f[2] # "oneof"
    <3>1. t = TakeMessage(f, 2, d, 0 + 1, z)
      BY <1>1, <1>2, <1>5, <2>3, MessageTag
    <3>2. z.Data = <<>>
      BY <1>2
    <3>3. t = [Took(l, z) EXCEPT !.sub = <<Call(f[2], s, Zero(f[2]), f[1])>>]
      BY <1>6, <2>1, <3>1, <3>2 DEF TakeMessage
    <3>4. /\ t.ok /\ t.i = l /\ t.m = z
          /\ t.sub = <<CallAt(f[2], s, 0, Zero(f[2]), f[1])>>
      BY <3>3 DEF Took, Call, CallAt
    <3> QED BY <1>1, <2>1, <2>3, <3>4
  <2> QED BY <2>2, <2>3
<1>8. CASE ~(l <= Len(d))
  <2>1. ~e.ok /\ ~Stop.ok
    BY <1>4, <1>6, <1>8 DEF Stop
  <2>2. t = Stop
    <3>1. CASE f[2] = "oneof"
      <4>1. t = TakeBytes(f, 2, d, 0 + 1, z)
        BY <1>1, <1>5, <3>1, BytesTag
      <4> QED BY <1>6, <2>1, <4>1 DEF TakeBytes
    <3>2. CASE f[2] # "oneof"
      <4>1. t = TakeMessage(f, 2, d, 0 + 1, z)
        BY <1>1, <1>2, <1>5, <3>2, MessageTag
      <4> QED BY <1>6, <2>1, <4>1 DEF TakeMessage
    <3> QED BY <3>1, <3>2
  <2>3. ~t.ok /\ Len(d) # l
    BY <1>3, <1>8, <2>1, <2>2
  <2> QED BY <1>1, <2>3
<1> QED BY <1>7, <1>8

-----------------------------------------------------------------------------
(* The invariant                                                           *)

(* The call of a stream that waits, and that of the message it waits for.  *)
Nested(k, m, d, cs, n, v, s, i, w) ==
  /\ Holds(k, m, n, v, s) /\ Fields(k)[n][2] # "oneof"
  /\ cs = <<CallAt(k, d, Len(d), Zero(k), "none"),
            CallAt(Fields(k)[n][2], s, i, w, Fields(k)[n][1])>>
  /\ FlatProgress(Fields(k)[n][2], v, s, i, w)

(* The calls that read the message m of type k in the bytes d. A stream's call
   is at the beginning, at the end, or waits there for the call of the message
   in it, which has all the bytes of that message.                         *)
Progress(k, m, d, cs) ==
  IF k \notin Streams
    THEN \E i, w : cs = <<CallAt(k, d, i, w, "none")>> /\ FlatProgress(k, m, d, i, w)
    ELSE \/ cs = <<CallAt(k, d, 0, Zero(k), "none")>>
         \/ cs = <<CallAt(k, d, Len(d), m, "none")>>
         \/ \E n, v, s, i, w : Nested(k, m, d, cs, n, v, s, i, w)

(* The message that is on its way, and as much of its bytes as there is.   *)
Underway ==
  /\ rate \in Rates /\ kind \in Kinds /\ IsMessage(kind, msg)
  /\ SizeVT(kind, msg) < 2^(WordBits - 1)
  /\ kind = "PastStream" => PastedAt(rate, msg)
  /\ Begins(wire, MarshalVT(kind, msg))
  /\ state = "whole" => Len(wire) = Len(MarshalVT(kind, msg))

(* What the receiver may make of them.                                     *)
Received(k, m, g, s) ==
  /\ s = "whole" => g = m
  /\ s = "cut" => \/ g = Failed
                  \/ \A x \in DOMAIN g \ {"unknown"} : g[x] \in {m[x], Zero(k)[x]}

(* The inductive invariant, about the messages of this version.            *)
Inv ==
  /\ state = "idle" => added = <<>> /\ calls = <<>> /\ got = None
  /\ state \in {"whole", "cut"} /\ added = <<>> =>
       /\ Underway
       /\ calls # <<>> => Progress(kind, msg, wire, calls)
       /\ got # None => Received(kind, msg, got, state)

(* All the bytes of a message are a beginning of it.                       *)
LEMMA BeginsItself ==
  ASSUME NEW s, Bytes(s)
  PROVE  Begins(s, s) /\ Len(s) \in Nat
BY DEF Begins, At, Bytes

(* What is left of the beginning is a beginning.                           *)
LEMMA BeginsCut ==
  ASSUME NEW s, Bytes(s), NEW d, Begins(d, s), NEW n \in 0..(Len(d) - 1)
  PROVE  Begins(SubSeq(d, 1, n), s)
<1>1. PICK S : d \in Seq(S)
  BY DEF Begins, Bytes
<1>2. /\ SubSeq(d, 1, n) \in Seq(S) /\ Len(SubSeq(d, 1, n)) = n
      /\ \A j \in 1..n : SubSeq(d, 1, n)[j] = d[j]
  BY <1>1
<1>3. /\ Len(d) \in Nat /\ Len(d) <= Len(s)
      /\ \A j \in 1..Len(s) : 0 + j <= Len(d) => d[0 + j] = s[j]
  BY DEF Begins, At
<1>4. Bytes(SubSeq(d, 1, n)) /\ n <= Len(s) /\ Len(s) \in Nat
  <2>1. Bytes(SubSeq(d, 1, n))
    BY <1>2 DEF Bytes
  <2>2. Len(s) \in Nat
    BY DEF Bytes
  <2> QED BY <1>3, <2>1, <2>2
<1> QED BY <1>2, <1>3, <1>4 DEF Begins, At

(* The bytes d are those of the message m, or the beginning of them.       *)
BytesOf(k, m, d) ==
  /\ k \in Kinds /\ IsMessage(k, m) /\ SizeVT(k, m) < 2^(WordBits - 1)
  /\ Begins(d, MarshalVT(k, m))

(* The parts of a call.                                                    *)
LEMMA CallFields ==
  ASSUME NEW k, NEW d, NEW i, NEW m, NEW into, NEW c, c = CallAt(k, d, i, m, into)
  PROVE  c.k = k /\ c.d = d /\ c.i = i /\ c.m = m /\ c.into = into
BY DEF CallAt

(* A call that has gone on, as Read writes it.                             *)
GoesOn(b, c, j, w) == b = [c EXCEPT !.i = j, !.m = w]

(* A call goes on with the index and the message of a turn.                *)
LEMMA CallGoesOn ==
  ASSUME NEW k, NEW d, NEW i, NEW m, NEW into, NEW c, c = CallAt(k, d, i, m, into),
         NEW j, NEW w, NEW b, GoesOn(b, c, j, w)
  PROVE  b = CallAt(k, d, j, w, into)
<1>1. c = [k |-> k, d |-> d, i |-> i, m |-> m, into |-> into]
  BY DEF CallAt
<1>2. b.k = k /\ b.d = d /\ b.i = j /\ b.m = w /\ b.into = into
  BY <1>1 DEF GoesOn
<1>3. b = [x \in {"k", "d", "i", "m", "into"} |-> b[x]]
  BY <1>1 DEF GoesOn
<1>4. b = [k |-> k, d |-> d, i |-> j, m |-> w, into |-> into]
  BY <1>2, <1>3
<1> QED BY <1>4 DEF CallAt

(* The calls begin.                                                        *)
LEMMA ProgressFirst ==
  ASSUME NEW k, NEW m, NEW d, BytesOf(k, m, d)
  PROVE  Progress(k, m, d, <<Call(k, d, Zero(k), "none")>>)
<1>1. Call(k, d, Zero(k), "none") = CallAt(k, d, 0, Zero(k), "none")
  BY DEF Call, CallAt
<1>2. CASE k \in Streams
  BY <1>1, <1>2 DEF Progress
<1>3. CASE k \notin Streams
  <2>1. /\ k \in FlatKinds /\ IsFlat(k, m) /\ MarshalVT(k, m) = FlatBytes(k, m)
        /\ Begins(d, FlatBytes(k, m)) /\ Len(FlatBytes(k, m)) < 2^(WordBits - 1)
    BY <1>3, SentBytes DEF BytesOf
  <2>2. FlatProgress(k, m, d, 0, Zero(k))
    BY <2>1, FlatStart
  <2> QED BY <1>1, <1>3, <2>2 DEF Progress
<1> QED BY <1>2, <1>3

(* The innermost call c is about to do the turn t.                         *)
AboutTo(cs, c, t) ==
  c = cs[Len(cs)] /\ c.i < Len(c.d) /\ t = Turn(c.k, c.d, c.i, c.m)

(* They go on with a turn, which succeeds when no bytes are missing.       *)
LEMMA ProgressTurn ==
  ASSUME NEW k, NEW m, NEW d, BytesOf(k, m, d), NEW cs, Progress(k, m, d, cs),
         NEW c, NEW t, AboutTo(cs, c, t)
  PROVE  /\ t.ok =>
              Progress(k, m, d, Append(Front(cs), [c EXCEPT !.i = t.i, !.m = t.m]) \o t.sub)
         /\ Len(d) = Len(MarshalVT(k, m)) => t.ok
<1> USE DEF AboutTo
<1>1. PICK e : e = [c EXCEPT !.i = t.i, !.m = t.m]
  OBVIOUS
<1>1a. GoesOn(e, c, t.i, t.m)
  BY <1>1 DEF GoesOn
<1>2. CASE k \notin Streams
  <2>1. PICK i, w : /\ cs = <<CallAt(k, d, i, w, "none")>>
                    /\ FlatProgress(k, m, d, i, w)
    BY <1>2 DEF Progress
  <2>2. c = CallAt(k, d, i, w, "none") /\ cs = <<c>>
    BY <2>1
  <2>3. /\ c.k = k /\ c.d = d /\ c.i = i /\ c.m = w
        /\ e = CallAt(k, d, t.i, t.m, "none")
    <3>1. c.k = k /\ c.d = d /\ c.i = i /\ c.m = w
      BY <2>2, CallFields
    <3>2. e = CallAt(k, d, t.i, t.m, "none")
      BY <1>1a, <2>2, CallGoesOn
    <3> QED BY <3>1, <3>2
  <2>4. /\ t.ok => t.sub = <<>> /\ FlatProgress(k, m, d, t.i, t.m)
        /\ Len(d) = Len(FlatBytes(k, m)) => t.ok
    BY <2>1, <2>3, FlatRead
  <2>5. MarshalVT(k, m) = FlatBytes(k, m)
    BY <1>2, SentBytes DEF BytesOf
  <2>6. Append(Front(cs), e) = <<e>> /\ <<e>> \o <<>> = <<e>>
    BY <2>2, Stacked
  <2>7. ASSUME t.ok PROVE Progress(k, m, d, Append(Front(cs), e) \o t.sub)
    <3>1. Append(Front(cs), e) \o t.sub = <<CallAt(k, d, t.i, t.m, "none")>>
      BY <2>3, <2>4, <2>6, <2>7
    <3> QED BY <1>2, <2>4, <2>7, <3>1 DEF Progress
  <2> QED BY <1>1, <2>4, <2>5, <2>7
<1>3. CASE k \in Streams /\ cs = <<CallAt(k, d, 0, Zero(k), "none")>>
  <2>1. c = CallAt(k, d, 0, Zero(k), "none") /\ cs = <<c>>
    BY <1>3
  <2>2. /\ c.k = k /\ c.d = d /\ c.i = 0 /\ c.m = Zero(k)
        /\ e = CallAt(k, d, t.i, t.m, "none")
    <3>1. c.k = k /\ c.d = d /\ c.i = 0 /\ c.m = Zero(k)
      BY <2>1, CallFields
    <3>2. e = CallAt(k, d, t.i, t.m, "none")
      BY <1>1a, <2>1, CallGoesOn
    <3> QED BY <3>1, <3>2
  <2>3. k \in Kinds /\ IsMessage(k, m) /\ Begins(d, MarshalVT(k, m)) /\ Len(d) \in Nat
    BY DEF BytesOf, Begins, Bytes
  <2>4. m # Zero(k)
    <3>1. m = Zero(k) => Len(MarshalVT(k, m)) = 0
      BY <1>3, <2>3, SentBytes
    <3> QED BY <2>2, <2>3, <3>1 DEF Begins
  <2>5. PICK n, v, s : Holds(k, m, n, v, s)
    BY <1>3, <2>3, <2>4, StreamHolds
  <2>6. /\ MarshalVT(k, m) = PutDelimited(8 * n + 2, s) /\ Bytes(s)
        /\ Len(MarshalVT(k, m)) < 2^(WordBits - 1)
    BY <1>3, <2>3, <2>5, SentBytes, StreamBytes DEF BytesOf
  <2>7. t = Turn(k, d, 0, Zero(k)) /\ Len(d) > 0
    BY <2>2, <2>3
  <2>8. /\ Len(d) = Len(PutDelimited(8 * n + 2, s)) => t.ok
        /\ t.ok => t.i = Len(d)
        /\ t.ok /\ Fields(k)[n][2] = "oneof" => t.sub = <<>> /\ t.m = m
        /\ t.ok /\ Fields(k)[n][2] # "oneof" =>
             /\ t.m = Zero(k)
             /\ t.sub = <<CallAt(Fields(k)[n][2], s, 0, Zero(Fields(k)[n][2]),
                                 Fields(k)[n][1])>>
    BY <1>3, <2>3, <2>5, <2>6, <2>7, StreamTurn
  <2>9. Append(Front(cs), e) = <<e>> /\ <<e>> \o <<>> = <<e>>
    BY <2>1, Stacked
  <2>10. ASSUME t.ok, Fields(k)[n][2] = "oneof"
         PROVE  Progress(k, m, d, Append(Front(cs), e) \o t.sub)
    <3>1. Append(Front(cs), e) \o t.sub = <<CallAt(k, d, Len(d), m, "none")>>
      BY <2>2, <2>8, <2>9, <2>10
    <3> QED BY <1>3, <3>1 DEF Progress
  <2>11. ASSUME t.ok, Fields(k)[n][2] # "oneof"
         PROVE  Progress(k, m, d, Append(Front(cs), e) \o t.sub)
    <3>1. PICK b : b = CallAt(Fields(k)[n][2], s, 0, Zero(Fields(k)[n][2]), Fields(k)[n][1])
      OBVIOUS
    <3>2. Append(Front(cs), e) \o t.sub = <<e, b>>
      BY <2>8, <2>9, <2>11, <3>1, Stacked
    <3>3. e = CallAt(k, d, Len(d), Zero(k), "none")
      BY <2>2, <2>8, <2>11
    <3>4. /\ Fields(k)[n][2] \in FlatKinds /\ IsFlat(Fields(k)[n][2], v)
          /\ s = FlatBytes(Fields(k)[n][2], v)
      BY <1>3, <2>5, <2>11, StreamTable DEF Holds
    <3>5. Len(s) < 2^(WordBits - 1)
      <4>1. Len(PutDelimited(8 * n + 2, s)) = 1 + Len(s) + Sov(Len(s))
        BY <2>6, DelimitedSize DEF SizeDelimited
      <4>2. Len(s) \in Nat /\ Sov(Len(s)) \in 1..10
        BY <2>6, SovBound DEF Bytes
      <4>3. PICK h \in Nat : h = 2^(WordBits - 1)
        BY Widths
      <4>4. PICK l, g : l = Len(s) /\ g = Sov(Len(s)) /\ 1 + l + g < h
        BY <2>6, <4>1, <4>3
      <4> QED BY <4>2, <4>3, <4>4
    <3>6. FlatProgress(Fields(k)[n][2], v, s, 0, Zero(Fields(k)[n][2]))
      BY <2>6, <3>4, <3>5, FlatStart, BeginsItself
    <3>7. Nested(k, m, d, Append(Front(cs), e) \o t.sub, n, v, s, 0, Zero(Fields(k)[n][2]))
      BY <2>5, <2>11, <3>1, <3>2, <3>3, <3>6 DEF Nested
    <3> QED BY <1>3, <3>7 DEF Progress
  <2> QED BY <1>1, <2>6, <2>8, <2>10, <2>11
<1>4. CASE k \in Streams /\ cs = <<CallAt(k, d, Len(d), m, "none")>>
  <2>1. c = CallAt(k, d, Len(d), m, "none")
    BY <1>4
  <2>2. c.i = Len(d) /\ c.d = d
    BY <2>1, CallFields
  <2>3. Len(d) \in Nat
    BY DEF BytesOf, Begins, Bytes
  <2> QED BY <2>2, <2>3
<1>5. ASSUME k \in Streams, NEW n, NEW v, NEW s, NEW i, NEW w,
             Holds(k, m, n, v, s), Fields(k)[n][2] # "oneof",
             cs = <<CallAt(k, d, Len(d), Zero(k), "none"),
                    CallAt(Fields(k)[n][2], s, i, w, Fields(k)[n][1])>>,
             FlatProgress(Fields(k)[n][2], v, s, i, w)
      PROVE  /\ t.ok => Progress(k, m, d, Append(Front(cs), e) \o t.sub)
             /\ t.ok
  <2>1. PICK f, a : f = Fields(k)[n] /\ a = CallAt(k, d, Len(d), Zero(k), "none")
    OBVIOUS
  <2>2. c = CallAt(f[2], s, i, w, f[1]) /\ cs = <<a, c>>
    BY <1>5, <2>1
  <2>3. /\ c.k = f[2] /\ c.d = s /\ c.i = i /\ c.m = w
        /\ e = CallAt(f[2], s, t.i, t.m, f[1])
    <3>1. c.k = f[2] /\ c.d = s /\ c.i = i /\ c.m = w
      BY <2>2, CallFields
    <3>2. e = CallAt(f[2], s, t.i, t.m, f[1])
      <4>1. PICK q, x : q = f[2] /\ x = f[1] /\ c = CallAt(q, s, i, w, x)
        BY <2>2
      <4>2. e = CallAt(q, s, t.i, t.m, x)
        BY <1>1a, <4>1, CallGoesOn
      <4> QED BY <4>1, <4>2
    <3> QED BY <3>1, <3>2
  <2>4. /\ t.ok => t.sub = <<>> /\ FlatProgress(f[2], v, s, t.i, t.m)
        /\ Len(s) = Len(FlatBytes(f[2], v)) => t.ok
    <3>1. PICK q : q = f[2] /\ FlatProgress(q, v, s, i, w) /\ i < Len(s) /\ t = Turn(q, s, i, w)
      BY <1>5, <2>1, <2>3
    <3>2. /\ t.ok => t.sub = <<>> /\ FlatProgress(q, v, s, t.i, t.m)
          /\ Len(s) = Len(FlatBytes(q, v)) => t.ok
      BY <3>1, FlatRead
    <3> QED BY <3>1, <3>2
  <2>5. s = FlatBytes(f[2], v)
    BY <1>5, <2>1 DEF Holds
  <2>6. Append(Front(cs), e) = <<a, e>> /\ <<a, e>> \o <<>> = <<a, e>>
    <3>1. Front(<<a, c>>) = <<a>> /\ Append(<<a>>, e) = <<a, e>> /\ <<a, e>> \o <<>> = <<a, e>>
      BY Stacked
    <3> QED BY <2>2, <3>1
  <2>7. t.ok
    BY <2>4, <2>5
  <2>8. /\ Append(Front(cs), e) \o t.sub =
             <<CallAt(k, d, Len(d), Zero(k), "none"),
               CallAt(Fields(k)[n][2], s, t.i, t.m, Fields(k)[n][1])>>
        /\ FlatProgress(Fields(k)[n][2], v, s, t.i, t.m)
    BY <2>1, <2>3, <2>4, <2>6, <2>7
  <2>9. Nested(k, m, d, Append(Front(cs), e) \o t.sub, n, v, s, t.i, t.m)
    BY <1>5, <2>8 DEF Nested
  <2>10. Progress(k, m, d, Append(Front(cs), e) \o t.sub)
    <3>1. PICK b : b = Append(Front(cs), e) \o t.sub
      OBVIOUS
    <3>2. \E n2, v2, s2, i2, w2 : Nested(k, m, d, b, n2, v2, s2, i2, w2)
      BY <2>9, <3>1
    <3>3. Progress(k, m, d, b)
      BY <1>5, <3>2 DEF Progress
    <3> QED BY <3>1, <3>3
  <2> QED BY <2>7, <2>10
<1>6. CASE /\ k \in Streams
           /\ \E n, v, s, i, w : Nested(k, m, d, cs, n, v, s, i, w)
  BY <1>1, <1>5, <1>6 DEF Nested
<1> QED BY <1>2, <1>3, <1>4, <1>6 DEF Progress

(* The caller has the value of its oneof.                                  *)
Assigned(b, cs, n, x) == b = [cs EXCEPT ![n].m.Data = x]

(* It does so in the message of the only caller there is.                  *)
LEMMA CallAssigned ==
  ASSUME NEW k, NEW d, NEW i, NEW into, NEW c, NEW x, NEW b,
         c = CallAt(k, d, i, [Data |-> <<>>, unknown |-> <<>>], into),
         Assigned(b, <<c>>, 1, x)
  PROVE  b = <<CallAt(k, d, i, [Data |-> x, unknown |-> <<>>], into)>>
<1>1. PICK y, z : y = [Data |-> <<>>, unknown |-> <<>>] /\ z = [Data |-> x, unknown |-> <<>>]
  OBVIOUS
<1>2. c = [k |-> k, d |-> d, i |-> i, m |-> y, into |-> into]
  BY <1>1 DEF CallAt
<1>3. PICK e : e = [c EXCEPT !.m.Data = x]
  OBVIOUS
<1>4. e = [c EXCEPT !.m = z]
  <2>1. [y EXCEPT !.Data = x] = z /\ c.m = y
    BY <1>1, <1>2
  <2>2. e = [c EXCEPT !.m = [c.m EXCEPT !.Data = x]]
    BY <1>3
  <2> QED BY <2>1, <2>2
<1>5. e = [k |-> k, d |-> d, i |-> i, m |-> z, into |-> into]
  BY <1>2, <1>4
<1>6. b = <<e>>
  BY <1>3 DEF Assigned
<1> QED BY <1>1, <1>5, <1>6 DEF CallAt

(* The return of the outermost call yields the message, or what there is of it;
   that of the inner call its value in the caller's message.               *)
LEMMA ProgressReturn ==
  ASSUME NEW k, NEW m, NEW d, BytesOf(k, m, d), NEW cs, Progress(k, m, d, cs),
         NEW c, c = cs[Len(cs)], c.i = Len(c.d)
  PROVE  /\ Len(cs) = 1 =>
              \A s : (s = "whole" => Len(d) = Len(MarshalVT(k, m))) => Received(k, m, c.m, s)
         /\ Len(cs) # 1 =>
              Progress(k, m, d,
                       [Front(cs) EXCEPT ![Len(cs) - 1].m.Data = <<c.into, c.m>>])
<1>1. CASE k \notin Streams
  <2>1. PICK i, w : /\ cs = <<CallAt(k, d, i, w, "none")>>
                    /\ FlatProgress(k, m, d, i, w)
    BY <1>1 DEF Progress
  <2>2. c = CallAt(k, d, i, w, "none") /\ Len(cs) = 1
    BY <2>1
  <2>3. c.d = d /\ c.i = i /\ c.m = w
    BY <2>2, CallFields
  <2>4. /\ Len(d) = Len(FlatBytes(k, m)) => w = m
        /\ \A x \in DOMAIN w \ {"unknown"} : w[x] \in {m[x], Zero(k)[x]}
    BY <2>1, <2>3, FlatReturn
  <2>5. MarshalVT(k, m) = FlatBytes(k, m)
    BY <1>1, SentBytes DEF BytesOf
  <2> QED BY <2>2, <2>3, <2>4, <2>5 DEF Received
<1>2. CASE k \in Streams /\ cs = <<CallAt(k, d, 0, Zero(k), "none")>>
  <2>1. c = CallAt(k, d, 0, Zero(k), "none") /\ Len(cs) = 1
    BY <1>2
  <2>2. c.d = d /\ c.i = 0 /\ c.m = Zero(k)
    BY <2>1, CallFields
  <2>3. ASSUME Len(d) = Len(MarshalVT(k, m)) PROVE m = Zero(k)
    <3>1. ASSUME NEW n, NEW v, NEW s, Holds(k, m, n, v, s) PROVE FALSE
      <4>1. MarshalVT(k, m) = PutDelimited(8 * n + 2, s) /\ Bytes(s)
        BY <1>2, <3>1, SentBytes, StreamBytes DEF BytesOf
      <4>2. Len(PutDelimited(8 * n + 2, s)) = 1 + Len(s) + Sov(Len(s))
        BY <4>1, DelimitedSize DEF SizeDelimited
      <4>3. Len(s) \in Nat /\ Sov(Len(s)) \in 1..10
        BY <4>1, SovBound DEF Bytes
      <4> QED BY <2>2, <2>3, <4>1, <4>2, <4>3
    <3> QED BY <1>2, <3>1, StreamHolds DEF BytesOf
  <2> QED BY <2>1, <2>2, <2>3 DEF Received
<1>3. CASE k \in Streams /\ cs = <<CallAt(k, d, Len(d), m, "none")>>
  <2>1. c = CallAt(k, d, Len(d), m, "none") /\ Len(cs) = 1
    BY <1>3
  <2>2. c.m = m
    BY <2>1, CallFields
  <2> QED BY <2>1, <2>2 DEF Received
<1>4. ASSUME k \in Streams, NEW n, NEW v, NEW s, NEW i, NEW w,
             Holds(k, m, n, v, s), Fields(k)[n][2] # "oneof",
             cs = <<CallAt(k, d, Len(d), Zero(k), "none"),
                    CallAt(Fields(k)[n][2], s, i, w, Fields(k)[n][1])>>,
             FlatProgress(Fields(k)[n][2], v, s, i, w)
      PROVE  /\ Len(cs) # 1
             /\ Progress(k, m, d,
                         [Front(cs) EXCEPT ![Len(cs) - 1].m.Data = <<c.into, c.m>>])
  <2>1. PICK f, a, q : /\ f = Fields(k)[n] /\ q = f[2]
                       /\ a = CallAt(k, d, Len(d), Zero(k), "none")
    OBVIOUS
  <2>2. c = CallAt(q, s, i, w, f[1]) /\ cs = <<a, c>> /\ Len(cs) = 2
    BY <1>4, <2>1
  <2>3. c.d = s /\ c.i = i /\ c.m = w /\ c.into = f[1]
    BY <2>2, CallFields
  <2>4. w = v
    <3>1. FlatProgress(q, v, s, i, w) /\ i = Len(s) /\ s = FlatBytes(q, v)
      BY <1>4, <2>1, <2>3 DEF Holds
    <3> QED BY <3>1, FlatReturn
  <2>5. Front(cs) = <<a>> /\ Len(cs) - 1 = 1
    <3>1. Front(<<a, c>>) = <<a>>
      BY Stacked
    <3> QED BY <2>2, <3>1
  <2>6. PICK b : b = [Front(cs) EXCEPT ![Len(cs) - 1].m.Data = <<c.into, c.m>>]
    OBVIOUS
  <2>7. Assigned(b, <<a>>, 1, <<f[1], v>>)
    BY <2>3, <2>4, <2>5, <2>6 DEF Assigned
  <2>8. a = CallAt(k, d, Len(d), [Data |-> <<>>, unknown |-> <<>>], "none")
    BY <1>4, <2>1 DEF Zero
  <2>9. b = <<CallAt(k, d, Len(d), [Data |-> <<f[1], v>>, unknown |-> <<>>], "none")>>
    BY <2>7, <2>8, CallAssigned
  <2>10. m = [Data |-> <<f[1], v>>, unknown |-> <<>>]
    BY <1>4, <2>1 DEF Holds
  <2>11. Progress(k, m, d, b)
    BY <1>4, <2>9, <2>10 DEF Progress
  <2> QED BY <2>2, <2>6, <2>11
<1>5. CASE /\ k \in Streams
           /\ \E n, v, s, i, w : Nested(k, m, d, cs, n, v, s, i, w)
  BY <1>4, <1>5 DEF Nested
<1> QED BY <1>1, <1>2, <1>3, <1>5 DEF Progress

-----------------------------------------------------------------------------
(* Theorems                                                                *)

(* Inv is inductive: a message of this version, or what is left of it, is read
   field by field, whatever its type and its values.                       *)
THEOREM CodecInvariant == Spec => []Inv
<1>1. Init => Inv
  BY DEF Init, Inv
<1>2. ASSUME Inv, [Next]_vars PROVE Inv'
  <2>1. CASE Send
    <3>1. PICK p \in Sent(rate') : kind' = p[1] /\ msg' = p[2] /\ wire' = MarshalVT(p[1], p[2])
      BY <2>1 DEF Send
    <3>2. /\ rate' \in Rates /\ state' = "whole" /\ calls' = <<>> /\ got' = None
      BY <1>2, <2>1 DEF Send, Inv
    <3>3. /\ kind' \in Kinds /\ IsMessage(kind', msg')
          /\ SizeVT(kind', msg') < 2^(WordBits - 1)
          /\ kind' = "PastStream" => PastedAt(rate', msg')
      BY <3>1, <3>2, SentAssumption
    <3>4. Begins(wire', MarshalVT(kind', msg')) /\ wire' = MarshalVT(kind', msg')
      BY <3>1, <3>3, SentBytes, BeginsItself
    <3>5. Underway'
      BY <3>2, <3>3, <3>4 DEF Underway
    <3> QED BY <3>2, <3>5 DEF Inv
  <2>2. CASE SendNewer
    <3>1. added' # <<>> /\ state' = "whole"
      BY <2>2, AddedAssumption DEF SendNewer
    <3> QED BY <3>1 DEF Inv
  <2>3. CASE Cut
    <3>1. PICK n \in 0..(Len(wire) - 1) : wire' = SubSeq(wire, 1, n)
      BY <2>3 DEF Cut
    <3>2. /\ UNCHANGED <<rate, kind, msg, added>> /\ state = "whole" /\ state' = "cut"
          /\ calls' = <<>> /\ got' = None
      BY <2>3 DEF Cut
    <3>3. ASSUME added = <<>> PROVE Underway'
      <4>1. Underway
        BY <1>2, <3>2, <3>3 DEF Inv
      <4>2. Begins(wire', MarshalVT(kind, msg))
        BY <3>1, <4>1, BeginsCut, SentBytes DEF Underway
      <4> QED BY <3>2, <4>1, <4>2 DEF Underway
    <3> QED BY <3>2, <3>3 DEF Inv
  <2>4. CASE SendForeign
    BY <2>4 DEF SendForeign, Inv
  <2>5. CASE SendAgain
    BY <2>5 DEF SendAgain, Inv
  <2>6. CASE UNCHANGED vars
    BY <1>2, <2>6 DEF vars, Inv, Underway
  <2>7. CASE Receive \/ Read \/ Refuse \/ Return
    <3>1. UNCHANGED <<rate, kind, msg, added, state, wire>>
      BY <2>7 DEF Receive, Read, Refuse, Return
    <3>2. state # "idle"
      BY <1>2, <2>7 DEF Inv, Receive, Read, Refuse, Return, Reading
    <3>3. ASSUME state \in {"whole", "cut"}, added = <<>>
          PROVE  /\ Underway'
                 /\ calls' # <<>> => Progress(kind, msg, wire, calls')
                 /\ got' # None => Received(kind, msg, got', state)
      <4>1. /\ Underway /\ (calls # <<>> => Progress(kind, msg, wire, calls))
            /\ got # None => Received(kind, msg, got, state)
        BY <1>2, <3>3 DEF Inv
      <4>2. Underway' /\ BytesOf(kind, msg, wire)
        BY <3>1, <4>1 DEF Underway, BytesOf
      <4>3. state = "whole" => Len(wire) = Len(MarshalVT(kind, msg))
        BY <4>1 DEF Underway
      <4>4. CASE Receive
        <5>1. /\ calls' = <<Call(kind, wire, Zero(kind), "none")>>
              /\ got' = None
          BY <4>4 DEF Receive
        <5> QED BY <4>2, <5>1, ProgressFirst
      <4>5. CASE Read
        <5>1. PICK c, t : c = Top /\ t = TopTurn
          OBVIOUS
        <5>2. /\ calls # <<>> /\ c = calls[Len(calls)] /\ c.i < Len(c.d)
              /\ t = Turn(c.k, c.d, c.i, c.m) /\ t.ok /\ got' = got
              /\ calls' = Append(Front(calls), [c EXCEPT !.i = t.i, !.m = t.m]) \o t.sub
          BY <4>5, <5>1 DEF Read, Reading, Top, TopTurn
        <5>3. Progress(kind, msg, wire, calls) /\ AboutTo(calls, c, t)
          BY <4>1, <5>2 DEF AboutTo
        <5>4. Progress(kind, msg, wire, calls')
          <6>1. t.ok => Progress(kind, msg, wire,
                          Append(Front(calls), [c EXCEPT !.i = t.i, !.m = t.m]) \o t.sub)
            BY <4>2, <5>3, ProgressTurn
          <6> QED BY <5>2, <6>1
        <5> QED BY <4>1, <4>2, <5>2, <5>4
      <4>6. CASE Refuse
        <5>1. PICK c, t : c = Top /\ t = TopTurn
          OBVIOUS
        <5>2. /\ calls # <<>> /\ c = calls[Len(calls)] /\ c.i < Len(c.d)
              /\ t = Turn(c.k, c.d, c.i, c.m) /\ ~t.ok /\ got' = Failed /\ calls' = <<>>
          BY <4>6, <5>1 DEF Refuse, Reading, Top, TopTurn
        <5>3. Progress(kind, msg, wire, calls) /\ AboutTo(calls, c, t)
          BY <4>1, <5>2 DEF AboutTo
        <5>4. Len(wire) # Len(MarshalVT(kind, msg))
          BY <4>2, <5>2, <5>3, ProgressTurn
        <5>5. Received(kind, msg, got', state)
          BY <4>3, <5>2, <5>4 DEF Received
        <5> QED BY <4>2, <5>2, <5>5
      <4>7. CASE Return
        <5>1. PICK c : c = Top
          OBVIOUS
        <5>2. /\ calls # <<>> /\ c = calls[Len(calls)] /\ c.i = Len(c.d)
              /\ IF Len(calls) = 1 THEN calls' = <<>> /\ got' = c.m
                 ELSE /\ calls' = [Front(calls) EXCEPT
                                     ![Len(calls) - 1].m.Data = <<c.into, c.m>>]
                      /\ got' = got
          BY <4>7, <5>1 DEF Return, Top
        <5>3. /\ Len(calls) = 1 =>
                   \A s : (s = "whole" => Len(wire) = Len(MarshalVT(kind, msg))) =>
                            Received(kind, msg, c.m, s)
              /\ Len(calls) # 1 =>
                   Progress(kind, msg, wire,
                            [Front(calls) EXCEPT ![Len(calls) - 1].m.Data = <<c.into, c.m>>])
          BY <4>1, <4>2, <5>2, ProgressReturn
        <5>4. CASE Len(calls) = 1
          <6>1. Received(kind, msg, c.m, state)
            BY <4>3, <5>3, <5>4
          <6> QED BY <4>2, <5>2, <5>4, <6>1
        <5>5. CASE Len(calls) # 1
          BY <4>1, <4>2, <5>2, <5>3, <5>5
        <5> QED BY <5>4, <5>5
      <4> QED BY <2>7, <4>4, <4>5, <4>6, <4>7
    <3> QED BY <3>1, <3>2, <3>3 DEF Inv
  <2> QED BY <1>2, <2>1, <2>2, <2>3, <2>4, <2>5, <2>6, <2>7 DEF Next
<1> QED BY <1>1, <1>2, PTL DEF Spec

(* A message of this version arrives as it was sent, at every width of the
   integers and for all the values of its fields: a length of one byte or of
   several, negative numbers, empty fields, messages in messages.          *)
THEOREM MessagesArrive == Spec => []RoundTrip
<1>1. Inv => RoundTrip
  BY DEF Inv, Received, RoundTrip
<1> QED BY <1>1, CodecInvariant, PTL

(* However many bytes are missing at the end of a message of this version, no
   field of it gets a value that was not sent.                             *)
THEOREM CutsAreNoticed == Spec => [](added = <<>> => CutNoticed)
<1>1. Inv => (added = <<>> => CutNoticed)
  BY DEF Inv, Received, CutNoticed
<1> QED BY <1>1, CodecInvariant, PTL

(* At every transfer rate, each message of a paste is below the limit that the
   client has set.                                                         *)
THEOREM PastesFit == Spec => []PasteFits
<1>1. ASSUME Inv, kind = "PastStream", state = "whole", added = <<>>
      PROVE  Len(wire) <= MaxRecv(rate)
  <2>1. /\ rate \in Nat /\ kind \in Kinds /\ IsMessage(kind, msg) /\ PastedAt(rate, msg)
        /\ Len(wire) = Len(MarshalVT(kind, msg))
    BY <1>1, SentAssumption DEF Inv, Underway
  <2>2. IsPastStream(msg)
    BY <1>1, <2>1, SentBytes DEF Message
  <2> QED BY <1>1, <2>1, <2>2, EveryPasteMessageFits
<1>2. Inv => PasteFits
  BY <1>1 DEF PasteFits
<1> QED BY <1>2, CodecInvariant, PTL
=============================================================================
