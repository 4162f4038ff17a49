-------------------------- MODULE RelayClient_proofs --------------------------
(***************************************************************************)
(* The relay client, proved for any field widths, ids, payloads, batches   *)
(* and interleavings: the codec inverts the relay's layout and the relay   *)
(* inverts ours, and from that every datagram is delivered once and in     *)
(* order and every challenge and ping gets its one answer.                 *)
(***************************************************************************)
EXTENDS RelayClient, SequenceTheorems, WellFoundedInduction, TLAPS

LessThan == OpToRel(<, Nat)

\* A non-empty set of natural numbers has a minimal element ...
LEMMA Minimal ==
    ASSUME NEW T, T \subseteq Nat, T # {}
    PROVE  \E x \in T : \A y \in T : ~(<<y, x>> \in LessThan)
<1>1. IsWellFoundedOn(LessThan, Nat)
  BY NatLessThanWellFounded DEF LessThan
<1>2. QED
  BY <1>1, WFMin

\* ... which is its least.
LEMMA Least ==
    ASSUME NEW T, T \subseteq Nat, T # {}
    PROVE  \E i \in T : \A j \in T : i <= j
<1>1. PICK i \in T : \A j \in T : ~(<<j, i>> \in LessThan)
  BY Minimal
<1>2. \A x, y \in Nat : x < y => <<x, y>> \in LessThan
  BY DEF LessThan, OpToRel
<1>3. \A j \in T : j \in Nat /\ i \in Nat /\ ~(j < i)
  BY <1>1, <1>2
<1>4. QED
  BY <1>3

-----------------------------------------------------------------------------
(***************************************************************************)
(* Sequences                                                               *)
(***************************************************************************)

\* The rest of a sequence.
LEMMA FromProperties ==
    ASSUME NEW S, NEW s \in Seq(S), NEW i \in 1..(Len(s) + 1)
    PROVE  /\ From(s, i) \in Seq(S)
           /\ Len(From(s, i)) = Len(s) - i + 1
           /\ \A j \in 1..(Len(s) - i + 1) : From(s, i)[j] = s[i + j - 1]
<1>1. \A j \in i..Len(s) : s[j] \in S
  BY ElementOfSeq, LenProperties
<1>2. i \in Int /\ Len(s) \in Int
  BY LenProperties
<1>3. /\ SubSeq(s, i, Len(s)) \in Seq(S)
      /\ Len(SubSeq(s, i, Len(s))) = IF i <= Len(s) THEN Len(s) - i + 1 ELSE 0
      /\ \A j \in 1..(Len(s) - i + 1) : SubSeq(s, i, Len(s))[j] = s[i + j - 1]
  BY <1>1, <1>2, SubSeqProperties
<1>4. QED
  BY <1>2, <1>3 DEF From

\* A sequence cut where two were put together.
LEMMA TakeConcat ==
    ASSUME NEW S, NEW s \in Seq(S), NEW t \in Seq(S)
    PROVE  SubSeq(s \o t, 1, Len(s)) = s
<1> DEFINE u == SubSeq(s \o t, 1, Len(s))
<1>1. /\ s \o t \in Seq(S) /\ Len(s) \in Nat /\ Len(t) \in Nat
      /\ \A i \in 1..Len(s) : (s \o t)[i] = s[i]
  BY ConcatProperties, LenProperties
<1>2. \A i \in 1..Len(s) : (s \o t)[i] \in S
  BY <1>1, ElementOfSeq
<1>3. u \in Seq(S) /\ Len(u) = Len(s) /\ \A i \in 1..Len(s) : u[i] = (s \o t)[i]
  BY <1>1, <1>2, SubSeqProperties
<1> HIDE DEF u
<1>4. QED
  BY <1>1, <1>3, SeqEqual DEF u

\* A suffix is known by its length and its elements.
LEMMA FromIs ==
    ASSUME NEW S, NEW v \in Seq(S), NEW t \in Seq(S), NEW n \in 1..(Len(v) + 1),
           Len(v) - n + 1 = Len(t), \A j \in 1..Len(t) : v[n + j - 1] = t[j]
    PROVE  From(v, n) = t
<1> DEFINE u == From(v, n)
<1>1. /\ u \in Seq(S) /\ Len(u) = Len(v) - n + 1
      /\ \A j \in 1..(Len(v) - n + 1) : u[j] = v[n + j - 1]
  BY FromProperties
<1> HIDE DEF u
<1>2. Len(u) = Len(t) /\ \A j \in 1..Len(u) : u[j] = t[j]
  BY <1>1
<1>3. u = t
  BY <1>1, <1>2, SeqEqual
<1>4. QED
  BY <1>3 DEF u

\* What follows the first of two joined sequences is the second.
LEMMA DropConcat ==
    ASSUME NEW S, NEW s \in Seq(S), NEW t \in Seq(S)
    PROVE  From(s \o t, Len(s) + 1) = t
<1> DEFINE v == s \o t
           n == Len(s) + 1
<1>1. /\ v \in Seq(S) /\ Len(s) \in Nat /\ Len(t) \in Nat
      /\ Len(v) = Len(s) + Len(t)
      /\ \A i \in 1..Len(t) : v[Len(s) + i] = t[i]
  BY ConcatProperties, LenProperties
<1> HIDE DEF v
<1>2. n \in 1..(Len(v) + 1) /\ Len(v) - n + 1 = Len(t) /\ \A j \in 1..Len(t) : n + j - 1 = Len(s) + j
  BY <1>1
<1> HIDE DEF n
<1>3. \A j \in 1..Len(t) : v[n + j - 1] = t[j]
  BY <1>1, <1>2
<1>4. From(v, n) = t
  BY <1>1, <1>2, <1>3, FromIs
<1>5. QED
  BY <1>4 DEF v, n

-----------------------------------------------------------------------------
(***************************************************************************)
(* Frame types                                                             *)
(***************************************************************************)

\* What a sequence of bytes consists of.
LEMMA BytesOf ==
    ASSUME NEW b \in Seq(Byte)
    PROVE  Len(b) \in Nat /\ \A i \in 1..Len(b) : b[i] \in Byte /\ b[i] \in Nat
<1>1. Len(b) \in Nat /\ \A i \in 1..Len(b) : b[i] \in Byte
  BY LenProperties, ElementOfSeq
<1>2. \A x \in Byte : x \in Nat
  BY DEF Byte
<1>3. QED
  BY <1>1, <1>2

\* The values split_tag's loop goes through.
IsVarInt(f, b, k) ==
    /\ f \in [1..k -> Nat]
    /\ f = [i \in 1..k |-> IF i = 1 THEN b[1] % 64 ELSE 256 * f[i - 1] + b[i]]

\* They exist, whatever the length.
LEMMA VarIntExists ==
    ASSUME NEW b \in Seq(Byte), NEW k \in 1..Len(b)
    PROVE  \E f : IsVarInt(f, b, k)
<1> DEFINE T == {j \in 1..k : ~ \E f : IsVarInt(f, b, j)}
<1>0. Len(b) \in Nat /\ \A i \in 1..Len(b) : b[i] \in Nat
  BY BytesOf
<1>1. SUFFICES ASSUME T # {} PROVE FALSE
  <2>1. k \in 1..k
    BY <1>0
  <2>2. QED
    BY <2>1
<1>2. PICK j \in T : \A i \in T : j <= i
  <2>1. T \subseteq Nat
    BY <1>0
  <2>2. QED
    BY <1>1, <2>1, Least
<1>3. j # 1
  <2>1. b[1] \in Nat
    BY <1>0
  <2>2. b[1] % 64 \in Nat
    BY <2>1
  <2>3. IsVarInt([i \in 1..1 |-> b[1] % 64], b, 1)
    BY <2>2 DEF IsVarInt
  <2>4. QED
    BY <2>3
<1>4. j - 1 \in 1..k /\ j - 1 \notin T
  BY <1>2, <1>3
<1>5. PICK g : IsVarInt(g, b, j - 1)
  BY <1>4
<1> DEFINE f == [i \in 1..j |-> IF i = j THEN 256 * g[j - 1] + b[j] ELSE g[i]]
<1>6. j \in 1..Len(b) /\ g[j - 1] \in Nat /\ b[j] \in Nat
  <2>1. j \in 1..Len(b) /\ j - 1 \in 1..(j - 1)
    BY <1>0, <1>3
  <2>2. g \in [1..(j - 1) -> Nat]
    BY <1>5 DEF IsVarInt
  <2>3. QED
    BY <1>0, <2>1, <2>2
<1>7. 256 * g[j - 1] + b[j] \in Nat
  BY <1>6
<1>8. f \in [1..j -> Nat]
  <2>1. g \in [1..(j - 1) -> Nat]
    BY <1>5 DEF IsVarInt
  <2>2. \A i \in 1..j : i # j => i \in 1..(j - 1)
    BY <1>6
  <2>3. QED
    BY <1>7, <2>1, <2>2
<1>9. \A i \in 1..j : f[i] = IF i = 1 THEN b[1] % 64 ELSE 256 * f[i - 1] + b[i]
  <2>1. TAKE i \in 1..j
  <2>2. CASE i = j
    BY <1>3, <1>6, <2>2
  <2>3. CASE i # j
    <3>1. i \in 1..(j - 1) /\ f[i] = g[i]
      BY <1>6, <2>3
    <3>2. g[i] = IF i = 1 THEN b[1] % 64 ELSE 256 * g[i - 1] + b[i]
      BY <1>5, <3>1 DEF IsVarInt
    <3>3. i # 1 => i - 1 \in 1..j /\ i - 1 # j /\ f[i - 1] = g[i - 1]
      BY <1>6, <3>1
    <3>4. QED
      BY <3>1, <3>2, <3>3
  <2>4. QED
    BY <2>2, <2>3
<1> HIDE DEF f
<1>10. f = [i \in 1..j |-> IF i = 1 THEN b[1] % 64 ELSE 256 * f[i - 1] + b[i]]
  BY <1>8, <1>9
<1>11. IsVarInt(f, b, j)
  BY <1>8, <1>10 DEF IsVarInt
<1>12. QED
  BY <1>11

\* One byte more makes a number still.
LEMMA VarIntStep == \A x \in Nat : x % 64 \in Nat /\ \A y \in Nat : 256 * y + x \in Nat
OBVIOUS

\* f satisfies the recursive equation of VarInt; then its values are numbers.
Unfolds(f, b, k) == f = [i \in 1..k |-> IF i = 1 THEN b[1] % 64 ELSE 256 * f[i - 1] + b[i]]
LEMMA VarIntTyped ==
    ASSUME NEW b \in Seq(Byte), NEW k \in 1..Len(b), NEW f, Unfolds(f, b, k)
    PROVE  IsVarInt(f, b, k)
<1> DEFINE T == {i \in 1..k : f[i] \notin Nat}
<1>0. Len(b) \in Nat /\ \A i \in 1..Len(b) : b[i] \in Nat
  BY BytesOf
<1>1. \A i \in 1..k : f[i] = IF i = 1 THEN b[1] % 64 ELSE 256 * f[i - 1] + b[i]
  BY DEF Unfolds
<1>2. ASSUME T # {} PROVE FALSE
  <2>1. T \subseteq Nat
    BY <1>0
  <2>2. PICK j \in T : \A i \in T : j <= i
    BY <1>2, <2>1, Least
  <2>0. j \in 1..k /\ f[j] \notin Nat
    BY <2>2
  <2>3. j # 1
    <3>1. b[1] \in Nat
      BY <1>0
    <3>2. b[1] % 64 \in Nat
      BY <3>1, VarIntStep, Zenon
    <3>3. f[1] = b[1] % 64
      BY <1>1
    <3>4. QED
      BY <2>0, <3>2, <3>3, Zenon
  <2>4. j - 1 \in 1..k /\ ~(j <= j - 1) /\ j \in 1..Len(b)
    BY <1>0, <2>2, <2>3
  <2>5. f[j - 1] \in Nat /\ b[j] \in Nat
    BY <1>0, <2>2, <2>4
  <2>6. 256 * f[j - 1] + b[j] \in Nat
    BY <2>5, VarIntStep, Zenon
  <2>7. f[j] = 256 * f[j - 1] + b[j]
    BY <1>1, <2>0, <2>3
  <2>8. QED
    BY <2>0, <2>6, <2>7, Zenon
<1>3. \A i \in 1..k : f[i] \in Nat
  BY <1>2
<1>4. f \in [1..k -> Nat]
  BY <1>3 DEF Unfolds
<1>5. QED
  BY <1>4 DEF IsVarInt, Unfolds

\* So the recursive definition is what it says.
LEMMA VarIntIs ==
    ASSUME NEW b \in Seq(Byte), NEW k \in 1..Len(b)
    PROVE  \E f : IsVarInt(f, b, k) /\ VarInt(b, k) = f[k]
<1> DEFINE P(f) == f = [i \in 1..k |-> IF i = 1 THEN b[1] % 64 ELSE 256 * f[i - 1] + b[i]]
           g == CHOOSE f : P(f)
<1>1. \E f : P(f)
  BY VarIntExists DEF IsVarInt
<1>2. P(CHOOSE f : P(f))
  BY <1>1
<1>3. VarInt(b, k) = (CHOOSE f : P(f))[k]
  BY DEF VarInt
<1>4. Unfolds(g, b, k)
  BY <1>2 DEF Unfolds
<1> HIDE DEF g
<1>5. IsVarInt(g, b, k)
  BY <1>4, VarIntTyped
<1>6. QED
  BY <1>3, <1>5 DEF g

\* A type below 64 is one byte.
LEMMA SplitOne ==
    ASSUME NEW t \in 0..63, NEW rest \in Seq(Byte)
    PROVE  SplitTag(<<t>> \o rest) = <<t, rest>>
<1> DEFINE b == <<t>> \o rest
<1>1. <<t>> \in Seq(Byte) /\ Len(<<t>>) = 1
  BY DEF Byte
<1>2. b \in Seq(Byte) /\ Len(b) = 1 + Len(rest) /\ b[1] = t
  BY <1>1, ConcatProperties, BytesOf
<1>3. From(b, 2) = rest
  <2>1. From(b, Len(<<t>>) + 1) = rest
    BY <1>1, DropConcat
  <2>2. Len(<<t>>) + 1 = 2
    BY <1>1
  <2>3. QED
    BY <2>1, <2>2
<1> HIDE DEF b
<1>4. Len(rest) \in Nat /\ 1 \in 1..Len(b) /\ b # <<>> /\ ~(Len(b) < 1)
  BY <1>2, BytesOf
<1>5. t \div 64 = 0 /\ t % 64 = t
  <2>1. t \in Int /\ 0 <= t /\ t < 64
    OBVIOUS
  <2>2. QED
    BY <2>1
<1>6. VarInt(b, 1) = t
  <2>1. PICK f : IsVarInt(f, b, 1) /\ VarInt(b, 1) = f[1]
    BY <1>2, <1>4, VarIntIs
  <2>2. QED
    BY <1>2, <1>5, <2>1 DEF IsVarInt
<1>7. SplitTag(b) = <<VarInt(b, 1), From(b, 2)>>
  <2>1. 2 ^ (b[1] \div 64) = 1
    <3>1. 2 ^ 0 = 1
      OBVIOUS
    <3>2. QED
      BY <1>2, <1>5, <3>1
  <2>2. QED
    BY <1>4, <2>1 DEF SplitTag
<1>8. QED
  BY <1>3, <1>6, <1>7 DEF b

\* A longer one ends in its lowest byte.
LEMMA VarIntEnd ==
    ASSUME NEW b \in Seq(Byte), NEW k \in 2..Len(b)
    PROVE  VarInt(b, k) \in Nat /\ \E high \in Nat : VarInt(b, k) = 256 * high + b[k]
<1>1. Len(b) \in Nat
  BY BytesOf
<1>2. k \in 1..Len(b) /\ k # 1 /\ k - 1 \in 1..k /\ k \in 1..k
  BY <1>1
<1>3. PICK f : IsVarInt(f, b, k) /\ VarInt(b, k) = f[k]
  BY <1>2, VarIntIs
<1>4. f[k - 1] \in Nat /\ f[k] \in Nat
  BY <1>2, <1>3 DEF IsVarInt
<1>5. f[k] = 256 * f[k - 1] + b[k]
  BY <1>2, <1>3 DEF IsVarInt
<1>6. QED
  BY <1>3, <1>4, <1>5

\* The lengths a type may have.
LEMMA Widths == \A x \in Byte : 2 ^ (x \div 64) \in {1, 2, 4, 8} /\ (2 ^ (x \div 64) = 1 <=> x < 64)
<1>1. 2 ^ 0 = 1 /\ 2 ^ 1 = 2 /\ 2 ^ 2 = 4
  OBVIOUS
<1>2. 2 ^ 3 = 8
  OBVIOUS
<1>3. ASSUME NEW x \in Byte PROVE 2 ^ (x \div 64) \in {1, 2, 4, 8} /\ (2 ^ (x \div 64) = 1 <=> x < 64)
  <2> DEFINE w == 2 ^ (x \div 64)
  <2>0. SUFFICES w \in {1, 2, 4, 8} /\ (w = 1 <=> x < 64)
    OBVIOUS
  <2> HIDE DEF w
  <2>1. x \in Int /\ 0 <= x /\ x < 256
    BY DEF Byte
  <2>2. CASE x < 64
    <3>1. x \div 64 = 0
      BY <2>1, <2>2
    <3>2. w = 1
      BY <1>1, <3>1 DEF w
    <3>3. QED
      BY <2>1, <2>2, <3>2
  <2>3. CASE 64 <= x /\ x < 128
    <3>1. x \div 64 = 1
      BY <2>1, <2>3
    <3>2. w = 2
      BY <1>1, <3>1 DEF w
    <3>3. QED
      BY <2>1, <2>3, <3>2
  <2>4. CASE 128 <= x /\ x < 192
    <3>1. x \div 64 = 2
      BY <2>1, <2>4
    <3>2. w = 4
      BY <1>1, <3>1 DEF w
    <3>3. QED
      BY <2>1, <2>4, <3>2
  <2>5. CASE 192 <= x
    <3>1. x \div 64 = 3
      BY <2>1, <2>5
    <3>2. w = 8
      BY <1>2, <3>1 DEF w
    <3>3. QED
      BY <2>1, <2>5, <3>2
  <2>6. QED
    BY <2>1, <2>2, <2>3, <2>4, <2>5
<1>4. QED
  BY <1>3

-----------------------------------------------------------------------------
(***************************************************************************)
(* Batches                                                                 *)
(***************************************************************************)

\* Quotient and remainder are unique.
LEMMA DivMul ==
    ASSUME NEW n \in Nat \ {0}, NEW q \in Nat, NEW r \in 0..(n - 1)
    PROVE  (q * n + r) \div n = q /\ (q * n + r) % n = r
<1> DEFINE x == q * n + r
           d == x \div n
           e == x % n
<1>1. x \in Nat /\ n \in Nat /\ n > 0
  OBVIOUS
<1>2. d \in Int /\ e \in 0..(n - 1) /\ x = n * d + e
  BY <1>1
<1>3. x = n * q + r
  OBVIOUS
<1> HIDE DEF x, d, e
<1>4. n * (d - q) = r - e
  BY <1>1, <1>2, <1>3
<1>5. ~(d - q >= 1)
  <2>1. SUFFICES ASSUME d - q >= 1 PROVE FALSE
    OBVIOUS
  <2>2. n * (d - q) >= n
    BY <1>1, <1>2, <2>1
  <2>3. QED
    BY <1>1, <1>2, <1>4, <2>2
<1>6. ~(d - q <= -1)
  <2>1. SUFFICES ASSUME d - q <= -1 PROVE FALSE
    OBVIOUS
  <2>2. n * (d - q) <= -n
    BY <1>1, <1>2, <2>1
  <2>3. QED
    BY <1>1, <1>2, <1>4, <2>2
<1>7. d = q
  BY <1>2, <1>5, <1>6
<1>8. e = r
  BY <1>1, <1>2, <1>3, <1>7
<1>9. QED
  BY <1>7, <1>8 DEF x, d, e

\* A body of a batch: non-empty segments, as long as the first but for the last.
LEMMA BodyOf ==
    ASSUME NEW b \in Bodies
    PROVE  /\ Len(b) \in Nat \ {0} /\ b \in Seq(Seq(Byte))
           /\ \A i \in 1..Len(b) : b[i] \in Seq(Byte) /\ Len(b[i]) \in Nat \ {0}
           /\ Len(b[1]) < 65536
           /\ \A i \in 1..Len(b) : Len(b[i]) <= Len(b[1]) /\ (i < Len(b) => Len(b[i]) = Len(b[1]))
<1>1. PICK k \in 1..MaxSegments : b \in [1..k -> Payloads \ {<<>>}]
  BY DEF Bodies
<1>2. k \in Nat /\ k >= 1
  BY <1>1, ClientAssumption
<1>3. \A p \in Payloads \ {<<>>} : p \in Seq(Byte) /\ Len(p) \in Nat \ {0}
  BY EmptySeq, ClientAssumption
<1>4. b \in Seq(Payloads \ {<<>>}) /\ Len(b) = k
  BY <1>1, <1>2
<1>5. \A i \in 1..k : b[i] \in Payloads \ {<<>>}
  BY <1>1
<1>6. b \in Seq(Seq(Byte))
  <2>1. Payloads \ {<<>>} \subseteq Seq(Byte)
    BY <1>3
  <2>2. QED
    BY <1>4, <2>1, SeqMonotonic
<1>7. /\ Len(b[1]) < 65536
      /\ \A i \in 1..Len(b) : Len(b[i]) <= Len(b[1]) /\ (i < Len(b) => Len(b[i]) = Len(b[1]))
  BY DEF Bodies
<1>8. QED
  BY <1>2, <1>3, <1>4, <1>5, <1>6, <1>7

\* The contents, seen from the segments.
LEMMA ContentsOf ==
    ASSUME NEW b \in Bodies
    PROVE  /\ Contents(b) \in Seq(Byte)
           /\ Len(Contents(b)) = (Len(b) - 1) * Len(b[1]) + Len(b[Len(b)])
           /\ \A i \in 1..Len(b) : \A j \in 1..Len(b[i]) :
                 /\ (i - 1) * Len(b[1]) + j \in 1..Len(Contents(b))
                 /\ Contents(b)[(i - 1) * Len(b[1]) + j] = b[i][j]
<1> DEFINE n == Len(b[1])
           k == Len(b)
           r == Len(b[k])
           total == (k - 1) * n + r
           c == Contents(b)
<1>1. /\ k \in Nat \ {0} /\ n \in Nat \ {0} /\ r \in 1..n
      /\ \A i \in 1..k : b[i] \in Seq(Byte) /\ Len(b[i]) \in 1..n /\ (i < k => Len(b[i]) = n)
  <2>1. k \in Nat \ {0} /\ 1 \in 1..k /\ k \in 1..k
    BY BodyOf
  <2>2. \A i \in 1..k : /\ b[i] \in Seq(Byte) /\ Len(b[i]) \in Nat \ {0}
                        /\ Len(b[i]) <= Len(b[1]) /\ (i < k => Len(b[i]) = Len(b[1]))
    BY BodyOf
  <2>3. Len(b[1]) \in Nat \ {0}
    BY <2>1, <2>2
  <2>4. QED
    BY <2>1, <2>2, <2>3
<1>2. c = [p \in 1..total |-> b[((p - 1) \div n) + 1][((p - 1) % n) + 1]]
  BY DEF Contents
<1> HIDE DEF n, k, r, c
<1>3. total \in Nat
  <2>1. (k - 1) * n \in Nat
    BY <1>1
  <2>2. QED
    BY <1>1, <2>1
<1>4. ASSUME NEW p \in 1..total PROVE b[((p - 1) \div n) + 1][((p - 1) % n) + 1] \in Byte
  <2> DEFINE q == (p - 1) \div n
             e == (p - 1) % n
  <2>1. p - 1 \in Nat /\ p - 1 < (k - 1) * n + r
    BY <1>1, <1>3
  <2>2. q \in Int /\ e \in 0..(n - 1) /\ p - 1 = n * q + e
    BY <1>1, <2>1
  <2> HIDE DEF q, e
  <2>3. q >= 0
    <3>1. SUFFICES ASSUME q <= -1 PROVE FALSE
      BY <2>2
    <3>2. n * q <= -n
      BY <1>1, <2>2, <3>1
    <3>3. QED
      BY <1>1, <2>1, <2>2, <3>2
  <2>4. q <= k - 1
    <3>1. SUFFICES ASSUME q >= k PROVE FALSE
      BY <1>1, <2>2
    <3>2. n * q >= n * k
      BY <1>1, <2>2, <3>1
    <3>3. n * k = (k - 1) * n + n
      BY <1>1
    <3>4. QED
      BY <1>1, <2>1, <2>2, <3>2, <3>3
  <2>5. q + 1 \in 1..k
    BY <1>1, <2>2, <2>3, <2>4
  <2>6. e + 1 \in 1..Len(b[q + 1])
    <3>1. CASE q + 1 < k
      BY <1>1, <2>2, <2>5, <3>1
    <3>2. CASE q + 1 = k
      <4>1. n * q = (k - 1) * n
        BY <1>1, <2>2, <3>2
      <4>2. e < r
        BY <1>1, <2>1, <2>2, <4>1
      <4>3. QED
        BY <1>1, <2>2, <3>2, <4>2, SMTT(30) DEF r
    <3>3. QED
      BY <1>1, <2>5, <3>1, <3>2
  <2>7. b[q + 1][e + 1] \in Byte
    BY <1>1, <2>5, <2>6, BytesOf
  <2>8. QED
    BY <2>7 DEF q, e
<1>5. c \in Seq(Byte) /\ Len(c) = total /\ DOMAIN c = 1..total
  <2>1. c \in [1..total -> Byte]
    BY <1>2, <1>4
  <2> HIDE DEF total
  <2>2. QED
    BY <1>3, <2>1
<1>6. ASSUME NEW i \in 1..k, NEW j \in 1..Len(b[i])
      PROVE  (i - 1) * n + j \in 1..total /\ c[(i - 1) * n + j] = b[i][j]
  <2> DEFINE p == (i - 1) * n + j
  <2>1. i - 1 \in Nat /\ j - 1 \in 0..(n - 1) /\ j \in 1..n
    BY <1>1
  <2>2. (i - 1) * n \in Nat
    BY <1>1, <2>1
  <2>3. p - 1 = (i - 1) * n + (j - 1)
    BY <2>1, <2>2
  <2>4. (p - 1) \div n = i - 1 /\ (p - 1) % n = j - 1
    <3>1. ((i - 1) * n + (j - 1)) \div n = i - 1 /\ ((i - 1) * n + (j - 1)) % n = j - 1
      BY <1>1, <2>1, DivMul
    <3>2. QED
      BY <2>3, <3>1
  <2>5. p \in 1..total
    <3> DEFINE before == (i - 1) * n
               full == (k - 1) * n
    <3>1. before \in Nat /\ full \in Nat
      BY <1>1, <2>2
    <3>2. i * n = before + n
      BY <1>1
    <3>3. i = k => before = full /\ j <= r
      BY <2>1, <1>1 DEF r
    <3>4. i < k => full >= i * n
      BY <1>1
    <3>5. p = before + j /\ total = full + r
      OBVIOUS
    <3> HIDE DEF before, full, p, total
    <3>6. CASE i = k
      BY <1>1, <2>1, <3>1, <3>3, <3>5, <3>6
    <3>7. CASE i < k
      BY <1>1, <2>1, <3>1, <3>2, <3>4, <3>5, <3>7
    <3>8. QED
      BY <1>1, <3>6, <3>7
  <2> HIDE DEF p
  <2>6. c[p] = b[((p - 1) \div n) + 1][((p - 1) % n) + 1]
    BY <1>2, <2>5
  <2>7. (i - 1) + 1 = i /\ (j - 1) + 1 = j
    BY <2>1, <1>1
  <2>8. c[p] = b[i][j]
    BY <2>4, <2>6, <2>7
  <2>9. QED
    BY <2>5, <2>8 DEF p
<1>7. QED
  BY <1>5, <1>6 DEF n, k, r, c

\* Cutting the contents gives the segments back, the short last one included.
LEMMA ChunksOfContents ==
    ASSUME NEW b \in Bodies
    PROVE  Chunks(Contents(b), Len(b[1])) = b
<1> DEFINE n == Len(b[1])
           k == Len(b)
           r == Len(b[k])
           c == Contents(b)
           full == (k - 1) * n
           end(i) == IF i * n < Len(c) THEN i * n ELSE Len(c)
           chunk(i) == SubSeq(c, (i - 1) * n + 1, end(i))
<1>1. /\ k \in Nat \ {0} /\ n \in Nat \ {0} /\ r \in 1..n /\ b \in Seq(Seq(Byte))
      /\ \A i \in 1..k : b[i] \in Seq(Byte) /\ Len(b[i]) \in 1..n /\ (i < k => Len(b[i]) = n)
  <2>1. k \in Nat \ {0} /\ 1 \in 1..k /\ k \in 1..k /\ b \in Seq(Seq(Byte))
    BY BodyOf
  <2>2. \A i \in 1..k : /\ b[i] \in Seq(Byte) /\ Len(b[i]) \in Nat \ {0}
                        /\ Len(b[i]) <= Len(b[1]) /\ (i < k => Len(b[i]) = Len(b[1]))
    BY BodyOf
  <2>3. Len(b[1]) \in Nat \ {0}
    BY <2>1, <2>2
  <2>4. QED
    BY <2>1, <2>2, <2>3
<1>2. /\ c \in Seq(Byte) /\ Len(c) = full + r
      /\ \A i \in 1..k : \A j \in 1..Len(b[i]) :
            (i - 1) * n + j \in 1..Len(c) /\ c[(i - 1) * n + j] = b[i][j]
  BY ContentsOf
<1>3. Chunks(c, n) = [i \in 1..((Len(c) + n - 1) \div n) |-> chunk(i)]
  BY DEF Chunks
<1> HIDE DEF n, k, r, c
<1>4. full \in Nat /\ k * n = full + n
  BY <1>1
<1>5. (Len(c) + n - 1) \div n = k
  <2>1. r - 1 \in 0..(n - 1) /\ k \in Nat
    BY <1>1
  <2>2. (k * n + (r - 1)) \div n = k
    BY <1>1, <2>1, DivMul
  <2>3. Len(c) + n - 1 = k * n + (r - 1)
    <3> HIDE DEF full
    <3>1. QED
      BY <1>1, <1>2, <1>4
  <2>4. QED
    BY <2>2, <2>3
<1>6. ASSUME NEW i \in 1..k PROVE chunk(i) = b[i]
  <2> DEFINE before == (i - 1) * n
  <2>1. before \in Nat /\ i * n = before + n
    BY <1>1
  <2>2. i = k => before = full /\ Len(b[i]) = r
    BY DEF r
  <2>3. i < k => i * n <= full
    BY <1>1
  <2>4. end(i) = before + Len(b[i])
    <3> DEFINE m == i * n
               l == Len(b[i])
    <3>1. /\ before \in Nat /\ full \in Nat /\ m = before + n /\ Len(c) = full + r
          /\ n \in Nat /\ r \in 1..n /\ l \in 1..n /\ (i < k => l = n)
      BY <1>1, <1>2, <1>4, <2>1
    <3>2. (i = k => before = full /\ l = r) /\ (i < k => m <= full)
      BY <2>2, <2>3
    <3>3. end(i) = IF m < Len(c) THEN m ELSE Len(c)
      OBVIOUS
    <3>4. i = k \/ i < k
      BY <1>1
    <3> HIDE DEF m, l, before, full, end
    <3>5. end(i) = before + l
      BY <3>1, <3>2, <3>3, <3>4
    <3>6. QED
      BY <3>5 DEF l
  <2>5. \A j \in 1..Len(b[i]) : before + j \in 1..Len(c) /\ c[before + j] = b[i][j] /\ b[i][j] \in Byte
    BY <1>1, <1>2, BytesOf
  <2> HIDE DEF before, end
  <2>6. \A p \in (before + 1)..end(i) : c[p] \in Byte
    <3>1. TAKE p \in (before + 1)..end(i)
    <3>2. p - before \in 1..Len(b[i]) /\ before + (p - before) = p
      BY <1>1, <2>1, <2>4
    <3>3. c[before + (p - before)] \in Byte
      BY <2>5, <3>2
    <3>4. QED
      BY <3>2, <3>3
  <2>7. before + 1 \in Int /\ end(i) \in Int
    BY <1>1, <2>1, <2>4
  <2> DEFINE u == SubSeq(c, before + 1, end(i))
  <2>8. /\ u \in Seq(Byte)
        /\ Len(u) = IF before + 1 <= end(i) THEN end(i) - (before + 1) + 1 ELSE 0
        /\ \A j \in 1..(end(i) - (before + 1) + 1) : u[j] = c[(before + 1) + j - 1]
    BY <2>6, <2>7, SubSeqProperties
  <2> HIDE DEF u
  <2>9. Len(u) = Len(b[i]) /\ \A j \in 1..Len(b[i]) : u[j] = c[before + j]
    <3>1. end(i) - (before + 1) + 1 = Len(b[i])
      BY <1>1, <2>1, <2>4
    <3>2. before + 1 <= end(i)
      BY <1>1, <2>1, <2>4
    <3>3. \A j \in 1..Len(b[i]) : (before + 1) + j - 1 = before + j
      BY <1>1, <2>1
    <3>4. Len(u) = Len(b[i])
      BY <2>8, <3>1, <3>2
    <3>5. QED
      BY <2>8, <3>1, <3>3, <3>4
  <2>10. u = b[i]
    <3>1. b[i] \in Seq(Byte)
      BY <1>1
    <3>2. \A j \in 1..Len(u) : u[j] = b[i][j]
      BY <2>5, <2>9
    <3>3. QED
      BY <2>8, <2>9, <3>1, <3>2, SeqEqual
  <2>11. QED
    BY <2>10 DEF u, before
<1> HIDE DEF chunk
<1>7. [i \in 1..k |-> chunk(i)] = b
  <2>1. b \in [1..k -> Seq(Byte)]
    BY <1>1, LenProperties DEF k
  <2>2. QED
    BY <1>6, <2>1
<1>8. QED
  BY <1>3, <1>5, <1>7 DEF n, c

-----------------------------------------------------------------------------
(***************************************************************************)
(* Frames                                                                  *)
(***************************************************************************)

\* A field of a fixed width is a sequence.
LEMMA FieldSeq ==
    ASSUME NEW n \in Nat, NEW f \in [1..n -> Byte] PROVE f \in Seq(Byte) /\ Len(f) = n
OBVIOUS

\* Concatenation is associative; named so that it can be cited for given parts.
Joined(s, t, u) == (s \o t) \o u = s \o (t \o u)
LEMMA Regroup ==
    ASSUME NEW S, NEW s \in Seq(S), NEW t \in Seq(S), NEW u \in Seq(S) PROVE Joined(s, t, u)
BY ConcatAssociative DEF Joined

\* Three parts of a frame after its type.
LEMMA Parts ==
    ASSUME NEW s \in Seq(Byte), NEW t \in Seq(Byte), NEW u \in Seq(Byte)
    PROVE  s \o (t \o u) \in Seq(Byte)
<1>1. t \o u \in Seq(Byte)
  BY ConcatProperties
<1>2. QED
  BY <1>1, ConcatProperties

\* The sender's id comes off the front of a payload.
LEMMA SourceOff ==
    ASSUME NEW src \in [1..KeyLen -> Byte], NEW rest \in Seq(Byte)
    PROVE  /\ SubSeq(src \o rest, 1, KeyLen) = src
           /\ From(src \o rest, KeyLen + 1) = rest
           /\ ~(Len(src \o rest) < KeyLen)
<1>1. src \in Seq(Byte) /\ Len(src) = KeyLen /\ KeyLen \in Nat
  BY FieldSeq, WidthsAssumption
<1>2. SubSeq(src \o rest, 1, Len(src)) = src /\ From(src \o rest, Len(src) + 1) = rest
  BY <1>1, TakeConcat, DropConcat
<1>3. Len(src \o rest) = Len(src) + Len(rest) /\ Len(rest) \in Nat
  BY <1>1, ConcatProperties, LenProperties
<1>4. QED
  BY <1>1, <1>2, <1>3

\* decode_relay_datagrams of a single datagram.
LEMMA DecodeSingle ==
    ASSUME NEW src \in [1..KeyLen -> Byte], NEW p \in Seq(Byte)
    PROVE  DecodeRelayDatagrams(src \o (<<3>> \o p), FALSE)
              = [i \in 1..1 |-> [source |-> src, payload |-> p]]
<1> DEFINE rest == <<3>> \o p
           payload == src \o rest
<1>1. <<3>> \in Seq(Byte) /\ Len(<<3>>) = 1
  BY DEF Byte
<1>2. rest \in Seq(Byte) /\ Len(rest) = 1 + Len(p) /\ Len(p) \in Nat
  BY <1>1, ConcatProperties, LenProperties
<1>3. rest # <<>>
  BY <1>2
<1>4. From(rest, 2) = p
  <2>1. From(rest, Len(<<3>>) + 1) = p
    BY <1>1, DropConcat
  <2>2. Len(<<3>>) + 1 = 2
    BY <1>1
  <2>3. QED
    BY <2>1, <2>2
<1> HIDE DEF rest
<1>5. SubSeq(payload, 1, KeyLen) = src /\ From(payload, KeyLen + 1) = rest /\ ~(Len(payload) < KeyLen)
  BY <1>2, SourceOff
<1> HIDE DEF payload
<1>6. DecodeRelayDatagrams(payload, FALSE)
         = [i \in 1..Len(<<p>>) |-> [source |-> src, payload |-> <<p>>[i]]]
  BY <1>3, <1>4, <1>5 DEF DecodeRelayDatagrams
<1>7. Len(<<p>>) = 1 /\ \A i \in 1..1 : <<p>>[i] = p
  OBVIOUS
<1>8. QED
  BY <1>6, <1>7 DEF payload, rest

\* decode_relay_datagrams of a batch.
LEMMA DecodeBatch ==
    ASSUME NEW src \in [1..KeyLen -> Byte], NEW b \in Bodies
    PROVE  DecodeRelayDatagrams(
               src \o (<<3, Len(b[1]) \div 256, Len(b[1]) % 256>> \o Contents(b)), TRUE)
              = [i \in 1..Len(b) |-> [source |-> src, payload |-> b[i]]]
<1> DEFINE n == Len(b[1])
           head == <<3, n \div 256, n % 256>>
           c == Contents(b)
           rest == head \o c
           payload == src \o rest
<1>1. n \in Nat /\ n # 0 /\ n < 65536
  BY BodyOf
<1>2. c \in Seq(Byte)
  BY ContentsOf
<1>3. n \div 256 \in Byte /\ n % 256 \in Byte /\ 256 * (n \div 256) + (n % 256) = n
  <2> HIDE DEF n
  <2>1. n \div 256 \in Byte /\ n % 256 \in Byte
    BY <1>1 DEF Byte
  <2>2. QED
    BY <1>1, <2>1
<1> HIDE DEF n, c
<1>4. head \in Seq(Byte) /\ Len(head) = 3 /\ head[2] = n \div 256 /\ head[3] = n % 256
  <2>1. 3 \in Byte
    BY DEF Byte
  <2>2. QED
    BY <1>3, <2>1
<1> HIDE DEF head
<1>5. /\ rest \in Seq(Byte) /\ Len(rest) = 3 + Len(c) /\ Len(c) \in Nat
      /\ rest[2] = head[2] /\ rest[3] = head[3]
  <2>1. Len(c) \in Nat
    BY <1>2, LenProperties
  <2>2. /\ rest \in Seq(Byte) /\ Len(rest) = Len(head) + Len(c)
        /\ \A i \in 1..(Len(head) + Len(c)) :
              rest[i] = IF i <= Len(head) THEN head[i] ELSE c[i - Len(head)]
    <3>1. head \in Seq(Byte)
      BY <1>4
    <3>2. QED
      BY <1>2, <3>1, ConcatProperties, Zenon
  <2>3. 2 \in 1..(Len(head) + Len(c)) /\ 3 \in 1..(Len(head) + Len(c)) /\ 2 <= Len(head) /\ 3 <= Len(head)
    BY <1>4, <2>1
  <2>4. QED
    BY <1>4, <2>1, <2>2, <2>3
<1>6. From(rest, 4) = c
  <2>1. From(rest, Len(head) + 1) = c
    BY <1>2, <1>4, DropConcat
  <2>2. Len(head) + 1 = 4
    BY <1>4
  <2>3. QED
    BY <2>1, <2>2
<1>7. ~(Len(rest) < 3) /\ 256 * rest[2] + rest[3] = n
  BY <1>3, <1>4, <1>5
<1>8. Chunks(c, n) = b
  BY ChunksOfContents DEF c, n
<1> HIDE DEF rest
<1>9. SubSeq(payload, 1, KeyLen) = src /\ From(payload, KeyLen + 1) = rest /\ ~(Len(payload) < KeyLen)
  BY <1>5, SourceOff
<1> HIDE DEF payload
<1>10. DecodeRelayDatagrams(payload, TRUE)
         = [i \in 1..Len(b) |-> [source |-> src, payload |-> b[i]]]
  <2>1. DecodeRelayDatagrams(payload, TRUE)
           = [i \in 1..Len(Chunks(c, n)) |-> [source |-> src, payload |-> Chunks(c, n)[i]]]
    <3> DEFINE after == From(payload, KeyLen + 1)
               size == 256 * after[2] + after[3]
               segments == Chunks(From(after, 4), size)
    <3>1. after = rest /\ size = n /\ segments = Chunks(c, n)
      BY <1>6, <1>7, <1>9
    <3>2. ~(Len(after) < 3) /\ size # 0
      BY <1>1, <1>7, <3>1
    <3>3. DecodeRelayDatagrams(payload, TRUE)
             = [i \in 1..Len(segments) |-> [source |-> SubSeq(payload, 1, KeyLen), payload |-> segments[i]]]
      BY <1>9, <3>2 DEF DecodeRelayDatagrams
    <3> HIDE DEF segments
    <3>4. QED
      BY <1>9, <3>1, <3>3
  <2>2. QED
    BY <1>8, <2>1
<1>11. QED
  BY <1>10 DEF payload, rest, head, n, c

-----------------------------------------------------------------------------
\* The fields of a message.
LEMMA Fields ==
    ASSUME NEW m \in Messages
    PROVE  /\ m.kind \in {"text", "confirm", "deny", "challenge", "ping", "junk", "datagram", "batch"}
           /\ m.kind = "challenge" => m.bytes \in Challenges
           /\ m.kind = "ping" => m.bytes \in Pings
           /\ m.kind = "junk" => m.bytes \in Junk
           /\ m.kind = "datagram" => m.source \in Peers /\ \E p \in Payloads : m.body = <<p>>
           /\ m.kind = "batch" => m.source \in Peers /\ m.body \in Bodies
BY DEF Messages

\* What split_tag makes of the relay's messages.
LEMMA SplitMessage ==
    ASSUME NEW m \in Messages
    PROVE  /\ m.kind = "challenge" => SplitTag(RelayBytes(m)) = <<SERVER_CHALLENGE, m.bytes>>
           /\ m.kind = "confirm" => SplitTag(RelayBytes(m)) = <<SERVER_CONFIRMS_AUTH, <<>>>>
           /\ m.kind = "deny" => SplitTag(RelayBytes(m)) = <<SERVER_DENIES_AUTH, <<0>>>>
           /\ m.kind = "ping" => SplitTag(RelayBytes(m)) = <<PING, m.bytes>>
<1>1. CASE m.kind = "challenge"
  <2>1. m.bytes \in Seq(Byte)
    BY <1>1, Fields, FieldSeq, ClientAssumption, WidthsAssumption
  <2>2. RelayBytes(m) = <<SERVER_CHALLENGE>> \o m.bytes
    BY <1>1 DEF RelayBytes
  <2>3. SERVER_CHALLENGE \in 0..63
    BY DEF SERVER_CHALLENGE
  <2>4. QED
    BY <1>1, <2>1, <2>2, <2>3, SplitOne
<1>2. CASE m.kind = "confirm"
  <2>1. RelayBytes(m) = <<SERVER_CONFIRMS_AUTH>>
    BY <1>2 DEF RelayBytes
  <2>2. SERVER_CONFIRMS_AUTH \in 0..63 /\ <<>> \in Seq(Byte)
    BY DEF SERVER_CONFIRMS_AUTH
  <2>3. <<SERVER_CONFIRMS_AUTH>> \in Seq(Int)
    BY DEF SERVER_CONFIRMS_AUTH
  <2>4. <<SERVER_CONFIRMS_AUTH>> = <<SERVER_CONFIRMS_AUTH>> \o <<>>
    BY <2>3, ConcatEmptySeq
  <2>5. QED
    BY <1>2, <2>1, <2>2, <2>4, SplitOne
<1>3. CASE m.kind = "deny"
  <2>1. RelayBytes(m) = <<SERVER_DENIES_AUTH, 0>>
    BY <1>3 DEF RelayBytes
  <2>2. SERVER_DENIES_AUTH \in 0..63 /\ <<0>> \in Seq(Byte)
    BY DEF SERVER_DENIES_AUTH, Byte
  <2>3. <<SERVER_DENIES_AUTH, 0>> = <<SERVER_DENIES_AUTH>> \o <<0>>
    OBVIOUS
  <2>4. QED
    BY <1>3, <2>1, <2>2, <2>3, SplitOne
<1>4. CASE m.kind = "ping"
  <2>1. m.bytes \in Seq(Byte)
    BY <1>4, Fields, FieldSeq, ClientAssumption, WidthsAssumption
  <2>2. RelayBytes(m) = <<PING>> \o m.bytes
    BY <1>4 DEF RelayBytes
  <2>3. PING \in 0..63
    BY DEF PING
  <2>4. QED
    BY <1>4, <2>1, <2>2, <2>3, SplitOne
<1>5. QED
  BY <1>1, <1>2, <1>3, <1>4

\* The datagrams of a message.
LEMMA SplitData ==
    ASSUME NEW m \in Messages, m.kind \in {"datagram", "batch"}
    PROVE  \E t \in {RELAY_TO_CLIENT_DATAGRAM, RELAY_TO_CLIENT_DATAGRAM_BATCH}, rest \in Seq(Byte) :
              /\ SplitTag(RelayBytes(m)) = <<t, rest>>
              /\ DecodeRelayDatagrams(rest, t = RELAY_TO_CLIENT_DATAGRAM_BATCH) = DatagramsOf(m)
              /\ DatagramsOf(m) \in Seq(Datagram)
<1>0. m.source \in [1..KeyLen -> Byte] /\ m.source \in Seq(Byte)
  BY Fields, FieldSeq, ClientAssumption, WidthsAssumption
<1>1. DatagramsOf(m) = [i \in 1..Len(m.body) |-> [source |-> m.source, payload |-> m.body[i]]]
  BY DEF DatagramsOf
<1>2. CASE m.kind = "datagram"
  <2>1. PICK p \in Payloads : m.body = <<p>>
    BY <1>2, Fields
  <2>2. p \in Seq(Byte) /\ m.body[1] = p /\ Len(m.body) = 1
    BY <2>1, ClientAssumption
  <2> DEFINE t == RELAY_TO_CLIENT_DATAGRAM
             rest == m.source \o (<<3>> \o p)
  <2>3. t \in 0..63 /\ <<t>> \in Seq(Byte) /\ <<3>> \in Seq(Byte) /\ t # RELAY_TO_CLIENT_DATAGRAM_BATCH
    BY DEF RELAY_TO_CLIENT_DATAGRAM, RELAY_TO_CLIENT_DATAGRAM_BATCH, Byte
  <2>4. RelayBytes(m) = ((<<t>> \o m.source) \o <<3>>) \o p
    BY <1>2, <2>2 DEF RelayBytes
  <2>5. RelayBytes(m) = <<t>> \o rest /\ rest \in Seq(Byte)
    <3> DEFINE tag == <<t>>
               mid == <<3>>
               end == p
               src == m.source
    <3>1. tag \in Seq(Byte) /\ src \in Seq(Byte) /\ mid \in Seq(Byte) /\ end \in Seq(Byte)
      BY <1>0, <2>2, <2>3
    <3>2. RelayBytes(m) = ((tag \o src) \o mid) \o end /\ rest = src \o (mid \o end)
      BY <2>4
    <3> HIDE DEF tag, mid, end, src, rest, t
    <3>3. /\ ((tag \o src) \o mid) \o end = tag \o (src \o (mid \o end))
          /\ src \o (mid \o end) \in Seq(Byte)
      <4>1. ((tag \o src) \o mid) \o end = tag \o (src \o (mid \o end))
        <5>1. tag \o src \in Seq(Byte) /\ mid \o end \in Seq(Byte)
          BY <3>1, ConcatProperties
        <5>2. Joined(tag \o src, mid, end) /\ Joined(tag, src, mid \o end)
          BY <3>1, <5>1, Regroup, Zenon
        <5>3. QED
          BY <5>2, Zenon DEF Joined
      <4>2. src \o (mid \o end) \in Seq(Byte)
        BY <3>1, Parts, Zenon
      <4>3. QED
        BY <4>1, <4>2
    <3>4. RelayBytes(m) = tag \o rest /\ rest \in Seq(Byte)
      BY <3>2, <3>3
    <3>5. QED
      BY <3>4 DEF tag, t, rest
  <2>6. SplitTag(RelayBytes(m)) = <<t, rest>>
    BY <2>3, <2>5, SplitOne
  <2>7. DecodeRelayDatagrams(rest, FALSE) = [i \in 1..1 |-> [source |-> m.source, payload |-> p]]
    BY <1>0, <2>2, DecodeSingle
  <2>8. DatagramsOf(m) = [i \in 1..1 |-> [source |-> m.source, payload |-> p]]
    BY <1>1, <2>2
  <2>9. DatagramsOf(m) \in Seq(Datagram)
    BY <1>0, <2>2, <2>8 DEF Datagram
  <2>10. (t = RELAY_TO_CLIENT_DATAGRAM_BATCH) = FALSE
    BY <2>3
  <2>11. QED
    BY <2>5, <2>6, <2>7, <2>8, <2>9, <2>10
<1>3. CASE m.kind = "batch"
  <2>1. m.body \in Bodies
    BY <1>3, Fields
  <2> DEFINE b == m.body
             n == Len(b[1])
             head == <<3, n \div 256, n % 256>>
             t == RELAY_TO_CLIENT_DATAGRAM_BATCH
             rest == m.source \o (head \o Contents(b))
  <2>2. head \in Seq(Byte) /\ Contents(b) \in Seq(Byte)
    <3>1. n \in Nat /\ n < 65536
      BY <2>1, BodyOf
    <3> HIDE DEF n
    <3>2. n \div 256 \in Byte /\ n % 256 \in Byte /\ 3 \in Byte
      BY <3>1 DEF Byte
    <3>3. head \in Seq(Byte)
      BY <3>2
    <3>4. QED
      BY <2>1, <3>3, ContentsOf
  <2>3. t \in 0..63 /\ <<t>> \in Seq(Byte)
    BY DEF RELAY_TO_CLIENT_DATAGRAM_BATCH, Byte
  <2>4. RelayBytes(m) = ((<<t>> \o m.source) \o head) \o Contents(b)
    BY <1>3 DEF RelayBytes
  <2>5. RelayBytes(m) = <<t>> \o rest /\ rest \in Seq(Byte)
    <3> DEFINE tag == <<t>>
               mid == head
               end == Contents(b)
               src == m.source
    <3>1. tag \in Seq(Byte) /\ src \in Seq(Byte) /\ mid \in Seq(Byte) /\ end \in Seq(Byte)
      BY <1>0, <2>2, <2>3
    <3>2. RelayBytes(m) = ((tag \o src) \o mid) \o end /\ rest = src \o (mid \o end)
      BY <2>4
    <3> HIDE DEF tag, mid, end, src, rest, t, head
    <3>3. /\ ((tag \o src) \o mid) \o end = tag \o (src \o (mid \o end))
          /\ src \o (mid \o end) \in Seq(Byte)
      <4>1. ((tag \o src) \o mid) \o end = tag \o (src \o (mid \o end))
        <5>1. tag \o src \in Seq(Byte) /\ mid \o end \in Seq(Byte)
          BY <3>1, ConcatProperties
        <5>2. Joined(tag \o src, mid, end) /\ Joined(tag, src, mid \o end)
          BY <3>1, <5>1, Regroup, Zenon
        <5>3. QED
          BY <5>2, Zenon DEF Joined
      <4>2. src \o (mid \o end) \in Seq(Byte)
        BY <3>1, Parts, Zenon
      <4>3. QED
        BY <4>1, <4>2
    <3>4. RelayBytes(m) = tag \o rest /\ rest \in Seq(Byte)
      BY <3>2, <3>3
    <3>5. QED
      BY <3>4 DEF tag, t, rest, head
  <2>6. DecodeRelayDatagrams(rest, TRUE) = [i \in 1..Len(b) |-> [source |-> m.source, payload |-> b[i]]]
    BY <1>0, <2>1, DecodeBatch, ZenonT(60)
  <2> HIDE DEF n, head, rest
  <2>7. SplitTag(RelayBytes(m)) = <<t, rest>>
    BY <2>3, <2>5, SplitOne
  <2>8. DatagramsOf(m) \in Seq(Datagram)
    <3>1. Len(b) \in Nat /\ \A i \in 1..Len(b) : b[i] \in Seq(Byte)
      BY <2>1, BodyOf
    <3>2. \A i \in 1..Len(b) : [source |-> m.source, payload |-> b[i]] \in Datagram
      BY <1>0, <3>1 DEF Datagram
    <3>3. QED
      BY <1>1, <3>1, <3>2
  <2>9. DecodeRelayDatagrams(rest, TRUE) = DatagramsOf(m)
    BY <1>1, <2>6, Zenon
  <2>10. QED
    BY <2>5, <2>7, <2>8, <2>9
<1>4. QED
  BY <1>2, <1>3

\* Messages that are neither datagrams nor anything else a client acts on.
Harmless(split) ==
    \/ split = None
    \/ \E t \in Nat, rest \in Seq(Byte) :
          /\ split = <<t, rest>>
          /\ t = SERVER_CHALLENGE => Len(rest) # ChallengeLen
          /\ t # SERVER_CONFIRMS_AUTH
          /\ t = PING => Len(rest) # PingLen
          /\ t = RELAY_TO_CLIENT_DATAGRAM => DecodeRelayDatagrams(rest, FALSE) = None
          /\ t = RELAY_TO_CLIENT_DATAGRAM_BATCH => DecodeRelayDatagrams(rest, TRUE) = None

\* A payload too short for a datagram decodes to none.
LEMMA DecodeShort ==
    ASSUME NEW s \in Seq(Byte)
    PROVE  /\ Len(s) < KeyLen + 1 => DecodeRelayDatagrams(s, FALSE) = None
           /\ Len(s) < KeyLen + 3 => DecodeRelayDatagrams(s, TRUE) = None
           /\ Len(s) >= KeyLen + 3 /\ s[KeyLen + 2] = 0 /\ s[KeyLen + 3] = 0
                 => DecodeRelayDatagrams(s, TRUE) = None
<1> DEFINE rest == From(s, KeyLen + 1)
<1>1. Len(s) \in Nat /\ KeyLen \in Nat
  BY LenProperties, WidthsAssumption
<1>2. CASE Len(s) < KeyLen
  BY <1>1, <1>2 DEF DecodeRelayDatagrams
<1>3. CASE ~(Len(s) < KeyLen)
  <2>1. KeyLen + 1 \in 1..(Len(s) + 1)
    BY <1>1, <1>3
  <2>2. /\ rest \in Seq(Byte) /\ Len(rest) = Len(s) - (KeyLen + 1) + 1
        /\ \A j \in 1..(Len(s) - (KeyLen + 1) + 1) : rest[j] = s[(KeyLen + 1) + j - 1]
    BY <2>1, FromProperties
  <2>3. ASSUME Len(s) < KeyLen + 1 PROVE DecodeRelayDatagrams(s, FALSE) = None
    <3>1. Len(rest) = 0
      BY <1>1, <1>3, <2>2, <2>3
    <3>2. rest = <<>>
      BY <2>2, <3>1, EmptySeq
    <3>3. QED
      BY <1>3, <3>2 DEF DecodeRelayDatagrams
  <2>4. ASSUME Len(s) < KeyLen + 3 PROVE DecodeRelayDatagrams(s, TRUE) = None
    <3>1. Len(rest) < 3
      BY <1>1, <2>2, <2>4
    <3>2. QED
      BY <1>3, <3>1 DEF DecodeRelayDatagrams
  <2>5. ASSUME Len(s) >= KeyLen + 3, s[KeyLen + 2] = 0, s[KeyLen + 3] = 0
        PROVE  DecodeRelayDatagrams(s, TRUE) = None
    <3>1. 2 \in 1..(Len(s) - (KeyLen + 1) + 1) /\ 3 \in 1..(Len(s) - (KeyLen + 1) + 1)
      BY <1>1, <2>5
    <3>2. (KeyLen + 1) + 2 - 1 = KeyLen + 2 /\ (KeyLen + 1) + 3 - 1 = KeyLen + 3
      BY <1>1
    <3>3. rest[2] = 0 /\ rest[3] = 0
      BY <2>2, <2>5, <3>1, <3>2
    <3>4. 256 * rest[2] + rest[3] = 0
      BY <3>3
    <3>5. ~(Len(rest) < 3)
      BY <1>1, <2>2, <2>5
    <3>6. QED
      BY <1>3, <3>4, <3>5 DEF DecodeRelayDatagrams
  <2>6. QED
    BY <2>3, <2>4, <2>5
<1>4. QED
  BY <1>1, <1>2, <1>3

\* Junk is harmless, at every boundary the decoder tests.
LEMMA SplitJunk == \A b \in Junk : Harmless(SplitTag(b))
<1> SUFFICES ASSUME NEW b \in Junk PROVE Harmless(SplitTag(b))
  OBVIOUS
<1>1. b \in Seq(Byte) /\ Malformed(b)
  BY ClientAssumption
<1>2. Len(b) \in Nat /\ \A i \in 1..Len(b) : b[i] \in Byte /\ b[i] \in Nat
  BY <1>1, BytesOf
<1>3. CASE b = <<>>
  BY <1>3 DEF SplitTag, Harmless
<1> DEFINE w == 2 ^ (b[1] \div 64)
<1>4. ASSUME b # <<>> PROVE Harmless(SplitTag(b))
  <2>1. Len(b) >= 1 /\ 1 \in 1..Len(b) /\ b[1] \in Byte
    <3>1. Len(b) \in Nat \ {0}
      BY <1>1, <1>4, EmptySeq
    <3>2. QED
      BY <1>2, <3>1
  <2>2. w \in {1, 2, 4, 8} /\ (w = 1 <=> b[1] < 64)
    BY <2>1, Widths
  <2>3. SplitTag(b) = IF Len(b) < w THEN None ELSE <<VarInt(b, w), From(b, w + 1)>>
    BY <1>4 DEF SplitTag
  <2>4. \/ Len(b) < w
        \/ b[w] \notin {0, 2, 3, 6, 7, 9}
        \/ b[1] = 0 /\ Len(b) # ChallengeLen + 1
        \/ b[1] = 9 /\ Len(b) # PingLen + 1
        \/ b[1] = 6 /\ Len(b) < KeyLen + 2
        \/ b[1] = 7 /\ (Len(b) < KeyLen + 4 \/ (b[KeyLen + 3] = 0 /\ b[KeyLen + 4] = 0))
    BY <1>1, <1>4 DEF Malformed, SERVER_CHALLENGE, SERVER_CONFIRMS_AUTH, SERVER_DENIES_AUTH,
       RELAY_TO_CLIENT_DATAGRAM, RELAY_TO_CLIENT_DATAGRAM_BATCH, PING
  <2> HIDE DEF w
  <2>5. CASE Len(b) < w
    BY <2>3, <2>5 DEF Harmless
  <2>6. CASE ~(Len(b) < w)
    <3> DEFINE t == VarInt(b, w)
               rest == From(b, w + 1)
    <3>1. w \in 1..Len(b) /\ w + 1 \in 1..(Len(b) + 1)
      BY <1>2, <2>2, <2>6
    <3>2. /\ rest \in Seq(Byte) /\ Len(rest) = Len(b) - (w + 1) + 1
          /\ \A j \in 1..(Len(b) - (w + 1) + 1) : rest[j] = b[(w + 1) + j - 1]
      BY <1>1, <3>1, FromProperties
    <3>3. SplitTag(b) = <<t, rest>>
      BY <2>3, <2>6
    <3>4. CASE w = 1
      <4>1. PICK f : IsVarInt(f, b, 1) /\ VarInt(b, 1) = f[1]
        BY <1>1, <2>1, VarIntIs
      <4>2. t = b[1] % 64
        <5>1. f[1] = b[1] % 64
          BY <4>1 DEF IsVarInt
        <5>2. QED
          BY <3>4, <4>1, <5>1
      <4>3. b[1] \in Nat /\ b[1] < 64
        BY <1>2, <2>1, <2>2, <3>4
      <4>4. t = b[1] /\ t \in Nat
        BY <4>2, <4>3
      <4> HIDE DEF t, rest
      <4>5. Len(rest) = Len(b) - 1 /\ \A j \in 1..(Len(b) - 1) : rest[j] = b[j + 1]
        <5>1. Len(b) - (w + 1) + 1 = Len(b) - 1 /\ \A j \in 1..(Len(b) - 1) : (w + 1) + j - 1 = j + 1
          BY <1>2, <3>4
        <5>2. QED
          BY <3>2, <5>1
      <4>6. KeyLen \in Nat /\ ChallengeLen \in Nat /\ PingLen \in Nat
        BY WidthsAssumption
      <4>7. \/ t \notin {0, 2, 3, 6, 7, 9}
            \/ t = 0 /\ Len(rest) # ChallengeLen
            \/ t = 9 /\ Len(rest) # PingLen
            \/ t = 6 /\ Len(rest) < KeyLen + 1
            \/ t = 7 /\ (Len(rest) < KeyLen + 3 \/ (b[KeyLen + 3] = 0 /\ b[KeyLen + 4] = 0))
        BY <1>2, <2>4, <2>6, <3>4, <4>4, <4>5, <4>6
      <4>8. t = 7 => \/ Len(rest) < KeyLen + 3
                     \/ Len(rest) >= KeyLen + 3 /\ rest[KeyLen + 2] = 0 /\ rest[KeyLen + 3] = 0
        <5>1. ASSUME t = 7, ~(Len(rest) < KeyLen + 3)
              PROVE  Len(rest) >= KeyLen + 3 /\ rest[KeyLen + 2] = 0 /\ rest[KeyLen + 3] = 0
          <6>1. b[KeyLen + 3] = 0 /\ b[KeyLen + 4] = 0
            BY <4>7, <5>1
          <6>2. KeyLen + 2 \in 1..(Len(b) - 1) /\ KeyLen + 3 \in 1..(Len(b) - 1)
            BY <1>2, <4>5, <4>6, <5>1
          <6>3. (KeyLen + 2) + 1 = KeyLen + 3 /\ (KeyLen + 3) + 1 = KeyLen + 4
            BY <4>6
          <6>4. QED
            BY <1>2, <4>5, <4>6, <5>1, <6>1, <6>2, <6>3
        <5>2. QED
          BY <5>1
      <4>9. /\ t = 6 => DecodeRelayDatagrams(rest, FALSE) = None
            /\ t = 7 => DecodeRelayDatagrams(rest, TRUE) = None
        <5>1. /\ Len(rest) < KeyLen + 1 => DecodeRelayDatagrams(rest, FALSE) = None
              /\ Len(rest) < KeyLen + 3 => DecodeRelayDatagrams(rest, TRUE) = None
              /\ Len(rest) >= KeyLen + 3 /\ rest[KeyLen + 2] = 0 /\ rest[KeyLen + 3] = 0
                    => DecodeRelayDatagrams(rest, TRUE) = None
          BY <3>2, DecodeShort, Zenon
        <5>2. t = 6 => Len(rest) < KeyLen + 1
          BY <4>7
        <5>3. QED
          BY <4>8, <5>1, <5>2
      <4>10. (t = 0 => Len(rest) # ChallengeLen) /\ t # 2 /\ (t = 9 => Len(rest) # PingLen)
        BY <4>7
      <4>11. QED
        BY <3>2, <3>3, <4>4, <4>9, <4>10 DEF Harmless, SERVER_CHALLENGE, SERVER_CONFIRMS_AUTH,
           RELAY_TO_CLIENT_DATAGRAM, RELAY_TO_CLIENT_DATAGRAM_BATCH, PING
    <3>5. CASE w # 1
      <4>1. w \in 2..Len(b)
        BY <1>2, <2>2, <2>6, <3>5
      <4>2. t \in Nat /\ \E high \in Nat : t = 256 * high + b[w]
        BY <1>1, <4>1, VarIntEnd
      <4>3. b[w] \in Nat /\ b[w] \notin {0, 2, 3, 6, 7, 9}
        <5>1. b[1] \in Nat /\ ~(b[1] < 64)
          BY <1>2, <2>1, <2>2, <3>5
        <5>2. QED
          BY <1>2, <2>4, <2>6, <3>1, <5>1
      <4> HIDE DEF t, rest
      <4>4. t \notin {0, 2, 3, 6, 7, 9}
        <5>1. PICK high \in Nat : t = 256 * high + b[w]
          BY <4>2
        <5>2. high = 0 \/ 256 * high >= 256
          OBVIOUS
        <5>3. QED
          BY <4>3, <5>1, <5>2
      <4>5. QED
        BY <3>2, <3>3, <4>2, <4>4 DEF Harmless, SERVER_CHALLENGE, SERVER_CONFIRMS_AUTH,
           RELAY_TO_CLIENT_DATAGRAM, RELAY_TO_CLIENT_DATAGRAM_BATCH, PING
    <3>6. QED
      BY <3>4, <3>5
  <2>7. QED
    BY <2>5, <2>6
<1>5. QED
  BY <1>3, <1>4

-----------------------------------------------------------------------------
\* A frame with an id in it.
Keyed(t, key, x, p) == <<t>> \o key \o <<x>> \o p

\* The relay finds its fields.
LEMMA KeyedFrame ==
    ASSUME NEW t \in Byte, NEW x \in Byte, NEW key \in [1..KeyLen -> Byte], NEW p \in Seq(Byte)
    PROVE  /\ Keyed(t, key, x, p) \in Seq(Byte) /\ Keyed(t, key, x, p)[1] = t
           /\ SubSeq(Keyed(t, key, x, p), 2, KeyLen + 1) = key
           /\ From(Keyed(t, key, x, p), KeyLen + 3) = p
<1> DEFINE frame == Keyed(t, key, x, p)
           tag == <<t>>
           mid == <<x>>
           a == tag \o key
           b == a \o mid
<1>1. /\ tag \in Seq(Byte) /\ Len(tag) = 1 /\ tag[1] = t /\ mid \in Seq(Byte) /\ Len(mid) = 1
      /\ key \in Seq(Byte) /\ Len(key) = KeyLen /\ KeyLen \in Nat /\ KeyLen >= 1
  BY FieldSeq, WidthsAssumption
<1>2. frame = b \o p
  BY DEF Keyed
<1> HIDE DEF tag, mid, frame
<1>3. a \in Seq(Byte) /\ Len(a) = KeyLen + 1 /\ a[1] = t
  <2>1. /\ a \in Seq(Byte) /\ Len(a) = Len(tag) + Len(key)
        /\ \A i \in 1..(Len(tag) + Len(key)) : a[i] = IF i <= Len(tag) THEN tag[i] ELSE key[i - Len(tag)]
    BY <1>1, ConcatProperties
  <2>2. 1 \in 1..(Len(tag) + Len(key)) /\ 1 <= Len(tag)
    BY <1>1
  <2>3. QED
    BY <1>1, <2>1, <2>2
<1>4. From(a, 2) = key
  <2>1. From(a, Len(tag) + 1) = key
    BY <1>1, DropConcat
  <2>2. Len(tag) + 1 = 2
    BY <1>1
  <2>3. QED
    BY <2>1, <2>2
<1> HIDE DEF a
<1>5. b \in Seq(Byte) /\ Len(b) = KeyLen + 2 /\ b[1] = a[1]
  <2>1. /\ b \in Seq(Byte) /\ Len(b) = Len(a) + Len(mid)
        /\ \A i \in 1..(Len(a) + Len(mid)) : b[i] = IF i <= Len(a) THEN a[i] ELSE mid[i - Len(a)]
    <3>1. a \in Seq(Byte) /\ mid \in Seq(Byte)
      BY <1>1, <1>3
    <3>2. QED
      BY <3>1, ConcatProperties
  <2>2. 1 \in 1..(Len(a) + Len(mid)) /\ 1 <= Len(a)
    BY <1>1, <1>3
  <2>3. QED
    BY <1>1, <1>3, <2>1, <2>2
<1>6. SubSeq(b, 2, KeyLen + 1) = SubSeq(a, 2, KeyLen + 1)
  <2>1. 2 \in 1..Len(a) /\ KeyLen + 1 \in 1..Len(a)
    BY <1>1, <1>3
  <2>2. QED
    BY <1>1, <1>3, <2>1, SubSeqOfConcat1
<1> HIDE DEF b
<1>7. frame \in Seq(Byte) /\ frame[1] = b[1]
  <2>1. /\ b \o p \in Seq(Byte) /\ Len(p) \in Nat
        /\ \A i \in 1..(Len(b) + Len(p)) : (b \o p)[i] = IF i <= Len(b) THEN b[i] ELSE p[i - Len(b)]
    BY <1>5, ConcatProperties, LenProperties
  <2>2. 1 \in 1..(Len(b) + Len(p)) /\ 1 <= Len(b)
    BY <1>1, <1>5, <2>1
  <2>3. QED
    BY <1>2, <2>1, <2>2
<1>8. SubSeq(frame, 2, KeyLen + 1) = SubSeq(b, 2, KeyLen + 1)
  <2>1. 2 \in 1..Len(b) /\ KeyLen + 1 \in 1..Len(b)
    BY <1>1, <1>5
  <2>2. QED
    BY <1>2, <1>5, <2>1, SubSeqOfConcat1
<1>9. From(frame, KeyLen + 3) = p
  <2>1. From(b \o p, Len(b) + 1) = p
    BY <1>5, DropConcat
  <2>2. Len(b) + 1 = KeyLen + 3
    BY <1>1, <1>5
  <2>3. QED
    BY <1>2, <2>1, <2>2
<1>10. SubSeq(a, 2, KeyLen + 1) = key
  BY <1>3, <1>4 DEF From
<1>11. QED
  BY <1>3, <1>5, <1>6, <1>7, <1>8, <1>9, <1>10 DEF frame

\* ... and of one without.
LEMMA PlainFrame ==
    ASSUME NEW t \in Byte, NEW p \in Seq(Byte), NEW frame, frame = <<t>> \o p
    PROVE  frame \in Seq(Byte) /\ frame[1] = t /\ From(frame, 2) = p
<1> DEFINE tag == <<t>>
<1>1. tag \in Seq(Byte) /\ Len(tag) = 1 /\ tag[1] = t /\ frame = tag \o p
  OBVIOUS
<1> HIDE DEF tag
<1>2. /\ tag \o p \in Seq(Byte) /\ Len(p) \in Nat
      /\ \A i \in 1..(Len(tag) + Len(p)) : (tag \o p)[i] = IF i <= Len(tag) THEN tag[i] ELSE p[i - Len(tag)]
  BY <1>1, ConcatProperties, LenProperties
<1>3. 1 \in 1..(Len(tag) + Len(p)) /\ 1 <= Len(tag)
  BY <1>1, <1>2
<1>4. From(tag \o p, Len(tag) + 1) = p
  BY <1>1, DropConcat
<1>5. Len(tag) + 1 = 2
  BY <1>1
<1>6. QED
  BY <1>1, <1>2, <1>3, <1>4, <1>5

\* The relay reads each of our frames as it was meant.
LEMMA ReadsAuth ==
    ASSUME NEW sig \in Seq(Byte)
    PROVE  /\ EncodeClientAuth(Us, sig) \in Seq(Byte)
           /\ Understood(EncodeClientAuth(Us, sig)) = [kind |-> "auth", key |-> Us, signature |-> sig]
<1> DEFINE frame == EncodeClientAuth(Us, sig)
<1>1. frame = Keyed(CLIENT_AUTH, Us, SigLen, sig)
  BY DEF EncodeClientAuth, Keyed
<1>2. CLIENT_AUTH \in Byte /\ SigLen \in Byte /\ Us \in [1..KeyLen -> Byte]
  <2>1. CLIENT_AUTH \in Byte /\ SigLen \in Byte
    BY WidthsAssumption DEF CLIENT_AUTH, Byte
  <2>2. Us \in [1..KeyLen -> Byte]
    BY ClientAssumption
  <2>3. QED
    BY <2>1, <2>2
<1> HIDE DEF frame
<1>3. /\ frame \in Seq(Byte) /\ frame[1] = CLIENT_AUTH
      /\ SubSeq(frame, 2, KeyLen + 1) = Us /\ From(frame, KeyLen + 3) = sig
  <2>1. /\ Keyed(CLIENT_AUTH, Us, SigLen, sig) \in Seq(Byte) /\ Keyed(CLIENT_AUTH, Us, SigLen, sig)[1] = CLIENT_AUTH
        /\ SubSeq(Keyed(CLIENT_AUTH, Us, SigLen, sig), 2, KeyLen + 1) = Us
        /\ From(Keyed(CLIENT_AUTH, Us, SigLen, sig), KeyLen + 3) = sig
    BY <1>2, KeyedFrame, ZenonT(60)
  <2>2. QED
    BY <1>1, <2>1, Zenon
<1>4. Understood(frame) = [kind |-> "auth", key |-> Us, signature |-> sig]
  <2>1. Understood(frame) = [kind |-> "auth", key |-> SubSeq(frame, 2, KeyLen + 1),
                             signature |-> From(frame, KeyLen + 3)]
    BY <1>3 DEF Understood, CLIENT_AUTH, CLIENT_TO_RELAY_DATAGRAM, PING, PONG
  <2>2. QED
    BY <1>3, <2>1
<1>5. QED
  BY <1>3, <1>4 DEF frame

\* A datagram keeps its addressee and its payload.
LEMMA ReadsDatagram ==
    ASSUME NEW to \in [1..KeyLen -> Byte], NEW p \in Seq(Byte)
    PROVE  /\ EncodeClientDatagram(to, p) \in Seq(Byte)
           /\ Understood(EncodeClientDatagram(to, p)) = [kind |-> "datagram", to |-> to, payload |-> p]
<1> DEFINE frame == EncodeClientDatagram(to, p)
<1>1. frame = Keyed(CLIENT_TO_RELAY_DATAGRAM, to, 0, p)
  BY DEF EncodeClientDatagram, Keyed
<1>2. CLIENT_TO_RELAY_DATAGRAM \in Byte /\ 0 \in Byte
  BY DEF CLIENT_TO_RELAY_DATAGRAM, Byte
<1> HIDE DEF frame
<1>3. /\ frame \in Seq(Byte) /\ frame[1] = CLIENT_TO_RELAY_DATAGRAM
      /\ SubSeq(frame, 2, KeyLen + 1) = to /\ From(frame, KeyLen + 3) = p
  <2>1. /\ Keyed(CLIENT_TO_RELAY_DATAGRAM, to, 0, p) \in Seq(Byte) /\ Keyed(CLIENT_TO_RELAY_DATAGRAM, to, 0, p)[1] = CLIENT_TO_RELAY_DATAGRAM
        /\ SubSeq(Keyed(CLIENT_TO_RELAY_DATAGRAM, to, 0, p), 2, KeyLen + 1) = to
        /\ From(Keyed(CLIENT_TO_RELAY_DATAGRAM, to, 0, p), KeyLen + 3) = p
    BY <1>2, KeyedFrame, ZenonT(60)
  <2>2. QED
    BY <1>1, <2>1, Zenon
<1>4. Understood(frame) = [kind |-> "datagram", to |-> to, payload |-> p]
  <2>1. Understood(frame) = [kind |-> "datagram", to |-> SubSeq(frame, 2, KeyLen + 1),
                             payload |-> From(frame, KeyLen + 3)]
    BY <1>3 DEF Understood, CLIENT_AUTH, CLIENT_TO_RELAY_DATAGRAM, PING, PONG
  <2>2. QED
    BY <1>3, <2>1
<1>5. QED
  BY <1>3, <1>4 DEF frame

\* A ping keeps its payload ...
LEMMA ReadsPing ==
    ASSUME NEW p \in Seq(Byte)
    PROVE  /\ EncodePing(p) \in Seq(Byte)
           /\ Understood(EncodePing(p)) = [kind |-> "ping", bytes |-> p]
<1> DEFINE frame == EncodePing(p)
<1>1. frame = <<PING>> \o p /\ PING \in Byte
  BY DEF EncodePing, PING, Byte
<1> HIDE DEF frame
<1>2. frame \in Seq(Byte) /\ frame[1] = PING /\ From(frame, 2) = p
  BY <1>1, PlainFrame
<1>3. Understood(frame) = [kind |-> "ping", bytes |-> p]
  BY <1>2 DEF Understood, CLIENT_AUTH, CLIENT_TO_RELAY_DATAGRAM, PING, PONG
<1>4. QED
  BY <1>2, <1>3 DEF frame

\* ... and a pong the payload it returns.
LEMMA ReadsPong ==
    ASSUME NEW p \in Seq(Byte)
    PROVE  /\ EncodePong(p) \in Seq(Byte)
           /\ Understood(EncodePong(p)) = [kind |-> "pong", bytes |-> p]
<1> DEFINE frame == EncodePong(p)
<1>1. frame = <<PONG>> \o p /\ PONG \in Byte
  BY DEF EncodePong, PONG, Byte
<1> HIDE DEF frame
<1>2. frame \in Seq(Byte) /\ frame[1] = PONG /\ From(frame, 2) = p
  BY <1>1, PlainFrame
<1>3. Understood(frame) = [kind |-> "pong", bytes |-> p]
  BY <1>2 DEF Understood, CLIENT_AUTH, CLIENT_TO_RELAY_DATAGRAM, PING, PONG
<1>4. QED
  BY <1>2, <1>3 DEF frame

-----------------------------------------------------------------------------
(***************************************************************************)
(* What the client makes of a message                                      *)
(***************************************************************************)

Data(split) == IsTagged(split, RELAY_TO_CLIENT_DATAGRAM_BATCH) \/ IsTagged(split, RELAY_TO_CLIENT_DATAGRAM)

\* The client tells the messages apart as the relay meant them.
Recognised(m, split) ==
    /\ IsTagged(split, SERVER_CONFIRMS_AUTH) <=> m.kind = "confirm"
    /\ IsTagged(split, SERVER_CHALLENGE) /\ Len(split[2]) = ChallengeLen <=> m.kind = "challenge"
    /\ IsTagged(split, PING) /\ Len(split[2]) = PingLen <=> m.kind = "ping"
    /\ m.kind \in {"challenge", "ping"} => split[2] = m.bytes
    /\ m.kind = "ping" => ~Data(split)
    /\ m.kind \in {"datagram", "batch"} => Data(split)
    /\ Data(split) =>
          DecodeRelayDatagrams(split[2], IsTagged(split, RELAY_TO_CLIENT_DATAGRAM_BATCH)) = DatagramsOf(m)

\* split_tag and decode_relay_datagrams recognise every message of the relay.
LEMMA Recognition ==
    ASSUME NEW m \in Messages, m.kind # "text"
    PROVE  Recognised(m, SplitTag(RelayBytes(m)))
<1> DEFINE split == SplitTag(RelayBytes(m))
<1> USE DEF SERVER_CHALLENGE, SERVER_CONFIRMS_AUTH, SERVER_DENIES_AUTH,
        RELAY_TO_CLIENT_DATAGRAM, RELAY_TO_CLIENT_DATAGRAM_BATCH, PING
<1>0. \A t, rest : <<t, rest>> # None /\ <<t, rest>>[1] = t /\ <<t, rest>>[2] = rest
  BY DEF None
<1>1. CASE m.kind \in {"challenge", "ping", "confirm", "deny"}
  <2>1. PICK t, rest : /\ split = <<t, rest>>
                       /\ \/ m.kind = "challenge" /\ t = 0 /\ rest = m.bytes /\ Len(rest) = ChallengeLen
                          \/ m.kind = "ping" /\ t = 9 /\ rest = m.bytes /\ Len(rest) = PingLen
                          \/ m.kind = "confirm" /\ t = 2
                          \/ m.kind = "deny" /\ t = 3
    <3>1. CASE m.kind = "challenge"
      <4>1. Len(m.bytes) = ChallengeLen
        BY <3>1, Fields, FieldSeq, ClientAssumption, WidthsAssumption
      <4>2. split = <<0, m.bytes>>
        BY <3>1, SplitMessage
      <4>3. QED
        BY <3>1, <4>1, <4>2, Zenon
    <3>2. CASE m.kind = "ping"
      <4>1. Len(m.bytes) = PingLen
        BY <3>2, Fields, FieldSeq, ClientAssumption, WidthsAssumption
      <4>2. split = <<9, m.bytes>>
        BY <3>2, SplitMessage
      <4>3. QED
        BY <3>2, <4>1, <4>2, Zenon
    <3>3. CASE m.kind = "confirm"
      <4>1. split = <<2, <<>>>>
        BY <3>3, SplitMessage
      <4>2. QED
        BY <3>3, <4>1, Zenon
    <3>4. CASE m.kind = "deny"
      <4>1. split = <<3, <<0>>>>
        BY <3>4, SplitMessage
      <4>2. QED
        BY <3>4, <4>1, Zenon
    <3>5. QED
      BY <1>1, <3>1, <3>2, <3>3, <3>4
  <2> HIDE DEF split
  <2>2. split # None /\ split[1] = t /\ split[2] = rest
    BY <1>0, <2>1
  <2>3. Recognised(m, split)
    BY <2>1, <2>2 DEF Recognised, IsTagged, Data
  <2>4. QED
    BY <2>3 DEF split
<1>2. CASE m.kind \in {"datagram", "batch"}
  <2>1. PICK t \in {6, 7}, rest \in Seq(Byte) :
              split = <<t, rest>> /\ DecodeRelayDatagrams(rest, t = 7) = DatagramsOf(m)
    BY <1>2, SplitData
  <2> HIDE DEF split
  <2>2. split # None /\ split[1] = t /\ split[2] = rest
    BY <1>0, <2>1
  <2>3. IsTagged(split, RELAY_TO_CLIENT_DATAGRAM_BATCH) = (t = 7)
    BY <2>2 DEF IsTagged
  <2>4. Data(split) /\ DecodeRelayDatagrams(split[2], IsTagged(split, RELAY_TO_CLIENT_DATAGRAM_BATCH)) = DatagramsOf(m)
    <3>1. Data(split)
      BY <2>1, <2>2 DEF Data, IsTagged
    <3>2. QED
      BY <2>1, <2>2, <2>3, <3>1
  <2>5. ~IsTagged(split, 2) /\ ~IsTagged(split, 0) /\ ~IsTagged(split, 9)
    BY <2>1, <2>2 DEF IsTagged
  <2>6. Recognised(m, split)
    BY <1>2, <2>4, <2>5 DEF Recognised
  <2>7. QED
    BY <2>6 DEF split
<1>3. CASE m.kind = "junk"
  <2>1. RelayBytes(m) = m.bytes
    BY <1>3 DEF RelayBytes
  <2>2. Harmless(split)
    BY <1>3, <2>1, Fields, SplitJunk
  <2> HIDE DEF split
  <2>3. DatagramsOf(m) = None
    BY <1>3 DEF DatagramsOf, None
  <2>4. CASE split = None
    BY <1>3, <2>4 DEF Recognised, IsTagged, Data, split
  <2>5. CASE split # None
    <3>1. PICK t \in Nat, rest \in Seq(Byte) :
              /\ split = <<t, rest>>
              /\ t = 0 => Len(rest) # ChallengeLen
              /\ t # 2
              /\ t = 9 => Len(rest) # PingLen
              /\ t = 6 => DecodeRelayDatagrams(rest, FALSE) = None
              /\ t = 7 => DecodeRelayDatagrams(rest, TRUE) = None
      BY <2>2, <2>5 DEF Harmless
    <3>2. split[1] = t /\ split[2] = rest
      BY <1>0, <3>1
    <3>3. /\ ~IsTagged(split, 2)
          /\ ~(IsTagged(split, 0) /\ Len(split[2]) = ChallengeLen)
          /\ ~(IsTagged(split, 9) /\ Len(split[2]) = PingLen)
      BY <3>1, <3>2 DEF IsTagged
    <3>4. Data(split) => DecodeRelayDatagrams(split[2], IsTagged(split, 7)) = None
      <4>1. CASE t = 7
        <5>1. IsTagged(split, 7) = TRUE
          BY <2>5, <3>2, <4>1 DEF IsTagged
        <5>2. QED
          BY <3>1, <3>2, <4>1, <5>1
      <4>2. CASE t = 6
        <5>1. IsTagged(split, 7) = FALSE
          BY <2>5, <3>2, <4>2 DEF IsTagged
        <5>2. QED
          BY <3>1, <3>2, <4>2, <5>1
      <4>3. CASE t # 6 /\ t # 7
        BY <3>2, <4>3 DEF Data, IsTagged
      <4>4. QED
        BY <4>1, <4>2, <4>3
    <3>5. Recognised(m, split)
      BY <1>3, <2>3, <3>3, <3>4 DEF Recognised
    <3>6. QED
      BY <3>5 DEF split
  <2>6. QED
    BY <2>4, <2>5
<1>4. QED
  BY <1>1, <1>2, <1>3, Fields

-----------------------------------------------------------------------------
(***************************************************************************)
(* The inductive invariant                                                 *)
(***************************************************************************)

\* A receive runs on an authenticated connection only, and nothing is received
\* before that.  On a failed websocket it still empties the queue, and sends
\* nothing.
Stage ==
    /\ rx # "idle" \/ phase = "up" \/ pending # <<>> => confirmed
    /\ rx = "ponging" => phase = "up"
    /\ phase \in {"handshake", "signing"} =>
          ~confirmed /\ delivered = <<>> /\ pending = <<>> /\ offered = <<>>

\* A future that is about to answer answers what was asked last.
LastAsked(kind) ==
    asked # <<>> /\ asked[Len(asked)].kind = kind /\ reply = asked[Len(asked)].bytes
Replying ==
    /\ phase = "signing" => LastAsked("challenge")
    /\ rx = "ponging" => LastAsked("ping")

\* DatagramsInOrder, from the beginning on.
InOrder == phase # "failed" \/ confirmed => delivered \o pending = offered

\* The parts of RelayUnderstands.
FramesRead == \A i \in 1..Len(sent) : Understood(sent[i]) = meant[i]
AnswersFit == Len(answers) <= Len(asked) /\ \A i \in 1..Len(answers) : answers[i] = Answer(asked[i])
NoneOwed == phase # "failed" => Len(asked) - Len(answers) = Due

IInv ==
    /\ TypeOK /\ Stage /\ Replying /\ InOrder
    /\ FramesRead /\ AnswersFit /\ NoneOwed

\* The datagrams of a message.
LEMMA DatagramsTyped ==
    ASSUME NEW m \in Messages
    PROVE  /\ DatagramsOf(m) \in Seq(Datagram) /\ Len(DatagramsOf(m)) <= MaxSegments
           /\ m.kind \notin {"datagram", "batch"} => DatagramsOf(m) = <<>>
<1>1. CASE m.kind \in {"datagram", "batch"}
  <2>1. DatagramsOf(m) \in Seq(Datagram)
    BY <1>1, SplitData
  <2>2. Len(m.body) \in Nat /\ Len(m.body) <= MaxSegments
    <3>1. CASE m.kind = "datagram"
      <4>1. PICK p \in Payloads : m.body = <<p>>
        BY <3>1, Fields
      <4>2. QED
        BY <4>1, ClientAssumption
    <3>2. CASE m.kind = "batch"
      <4>1. PICK k \in 1..MaxSegments : m.body \in [1..k -> Payloads]
        BY <3>2, Fields DEF Bodies
      <4>2. QED
        BY <4>1, ClientAssumption
    <3>3. QED
      BY <1>1, <3>1, <3>2
  <2>3. Len(DatagramsOf(m)) = Len(m.body)
    BY <1>1, <2>2 DEF DatagramsOf
  <2>4. QED
    BY <1>1, <2>1, <2>2, <2>3
<1>2. CASE m.kind \notin {"datagram", "batch"}
  <2>1. DatagramsOf(m) = <<>>
    BY <1>2 DEF DatagramsOf
  <2>2. Len(DatagramsOf(m)) = 0 /\ MaxSegments \in Nat
    BY <2>1, ClientAssumption
  <2>3. QED
    BY <1>2, <2>1, <2>2
<1>3. QED
  BY <1>1, <1>2

\* Taking the first of a queue.
LEMMA PopFront ==
    ASSUME NEW S, NEW d \in Seq(S), NEW p \in Seq(S), p # <<>>
    PROVE  /\ Append(d, p[1]) \in Seq(S) /\ From(p, 2) \in Seq(S)
           /\ Len(From(p, 2)) = Len(p) - 1 /\ Len(p) \in Nat
           /\ Append(d, p[1]) \o From(p, 2) = d \o p
<1> DEFINE e == Append(d, p[1])
           q == From(p, 2)
<1>1. Len(p) \in Nat \ {0} /\ Len(d) \in Nat
  BY EmptySeq, LenProperties
<1>2. p[1] \in S
  BY <1>1, ElementOfSeq
<1>3. /\ e \in Seq(S) /\ Len(e) = Len(d) + 1 /\ e[Len(d) + 1] = p[1]
      /\ \A i \in 1..Len(d) : e[i] = d[i]
  BY <1>2, AppendProperties
<1>4. 2 \in 1..(Len(p) + 1)
  BY <1>1
<1>5. q \in Seq(S) /\ Len(q) = Len(p) - 1 /\ \A j \in 1..(Len(p) - 1) : q[j] = p[j + 1]
  <2>1. /\ q \in Seq(S) /\ Len(q) = Len(p) - 2 + 1
        /\ \A j \in 1..(Len(p) - 2 + 1) : q[j] = p[2 + j - 1]
    BY <1>4, FromProperties
  <2>2. Len(p) - 2 + 1 = Len(p) - 1 /\ \A j \in 1..(Len(p) - 1) : 2 + j - 1 = j + 1
    BY <1>1
  <2>3. QED
    BY <2>1, <2>2
<1> HIDE DEF e, q
<1>6. /\ e \o q \in Seq(S) /\ Len(e \o q) = Len(e) + Len(q)
      /\ \A i \in 1..(Len(e) + Len(q)) : (e \o q)[i] = IF i <= Len(e) THEN e[i] ELSE q[i - Len(e)]
  BY <1>3, <1>5, ConcatProperties
<1>7. /\ d \o p \in Seq(S) /\ Len(d \o p) = Len(d) + Len(p)
      /\ \A i \in 1..(Len(d) + Len(p)) : (d \o p)[i] = IF i <= Len(d) THEN d[i] ELSE p[i - Len(d)]
  BY ConcatProperties
<1>8. Len(e) + Len(q) = Len(d) + Len(p)
  BY <1>1, <1>3, <1>5
<1>9. ASSUME NEW i \in 1..(Len(d) + Len(p)) PROVE (e \o q)[i] = (d \o p)[i]
  <2>1. CASE i <= Len(d)
    BY <1>1, <1>3, <1>6, <1>7, <1>8, <2>1
  <2>2. CASE i = Len(d) + 1
    <3>1. (d \o p)[i] = p[1]
      <4>1. ~(i <= Len(d)) /\ i - Len(d) = 1
        BY <1>1, <2>2
      <4>2. QED
        BY <1>7, <4>1
    <3>2. (e \o q)[i] = e[i]
      BY <1>1, <1>3, <1>6, <1>8, <2>2
    <3>3. QED
      BY <1>3, <2>2, <3>1, <3>2
  <2>3. CASE i > Len(d) + 1
    <3>1. (d \o p)[i] = p[i - Len(d)]
      BY <1>1, <1>7, <2>3
    <3>2. (e \o q)[i] = q[i - Len(e)]
      BY <1>1, <1>3, <1>6, <1>8, <2>3
    <3>3. i - Len(e) \in 1..(Len(p) - 1) /\ (i - Len(e)) + 1 = i - Len(d)
      BY <1>1, <1>3, <2>3
    <3>4. q[i - Len(e)] = p[(i - Len(e)) + 1]
      BY <1>5, <3>3
    <3>5. QED
      BY <3>1, <3>2, <3>3, <3>4
  <2>4. i <= Len(d) \/ i = Len(d) + 1 \/ i > Len(d) + 1
    BY <1>1
  <2>5. QED
    BY <2>1, <2>2, <2>3, <2>4, Zenon
<1>10. e \o q = d \o p
  BY <1>6, <1>7, <1>8, <1>9, SeqEqual
<1>11. QED
  BY <1>1, <1>3, <1>5, <1>10 DEF e, q

\* The invariant holds of an open websocket on which nothing was said yet.
LEMMA InitIInv == Init => IInv
<1> SUFFICES ASSUME Init PROVE IInv
  OBVIOUS
<1> USE DEF Init
<1>1. TypeOK
  <2>1. \A S : <<>> \in Seq(S)
    OBVIOUS
  <2>2. 0 \in 0..MaxRead /\ Len(meant) = Len(sent) /\ Len(pending) <= MaxSegments
    BY ClientAssumption
  <2>3. QED
    BY <2>1, <2>2, Zenon DEF TypeOK
<1>2. Stage /\ Replying /\ InOrder
  BY DEF Stage, Replying, InOrder
<1>3. FramesRead /\ AnswersFit /\ NoneOwed
  BY DEF FramesRead, AnswersFit, NoneOwed, Due
<1>4. QED
  BY <1>1, <1>2, <1>3 DEF IInv

\* Whether the relay wants an answer to m.
Asks(m) == m.kind = (IF confirmed THEN "ping" ELSE "challenge")

\* What appending does to a sequence.
LEMMA Appended ==
    ASSUME NEW S, NEW s \in Seq(S), NEW x \in S, NEW t, t = Append(s, x)
    PROVE  /\ t \in Seq(S) /\ t # <<>> /\ Len(t) = Len(s) + 1 /\ t[Len(t)] = x
           /\ Len(s) \in Nat /\ \A i \in 1..Len(s) : t[i] = s[i]
<1>1. /\ t \in Seq(S) /\ Len(t) = Len(s) + 1 /\ t[Len(s) + 1] = x
      /\ \A i \in 1..Len(s) : t[i] = s[i]
  BY AppendProperties
<1>2. Len(s) \in Nat
  BY LenProperties
<1>3. t # <<>>
  BY <1>1, <1>2, EmptySeq
<1>4. QED
  BY <1>1, <1>2, <1>3

\* Reading a message only adds to what the relay asked and offered.
LEMMA ReadKeeps ==
    ASSUME IInv, NEW m \in Messages, Reads(m), UNCHANGED relayGot
    PROVE  /\ reads' \in 0..MaxRead /\ confirmed' \in BOOLEAN
           /\ offered' \in Seq(Datagram) /\ asked' \in Seq(Messages)
           /\ sent' \in Seq(Seq(Byte)) /\ meant' \in Seq(Meanings) /\ Len(meant') = Len(sent')
           /\ answers' \in Seq(Meanings)
           /\ FramesRead' /\ AnswersFit'
           /\ Asks(m) => asked' # <<>> /\ asked'[Len(asked')] = m /\ Len(asked') = Len(asked) + 1
           /\ ~Asks(m) => asked' = asked
<1>1. /\ reads \in 0..MaxRead /\ confirmed \in BOOLEAN /\ asked \in Seq(Messages)
      /\ offered \in Seq(Datagram) /\ answers \in Seq(Meanings)
      /\ sent \in Seq(Seq(Byte)) /\ meant \in Seq(Meanings) /\ Len(meant) = Len(sent)
      /\ MaxRead \in Nat
  BY ClientAssumption DEF IInv, TypeOK
<1>2. sent' = sent /\ meant' = meant /\ answers' = answers
  BY DEF relayGot
<1>3. reads' \in 0..MaxRead /\ confirmed' \in BOOLEAN
  BY <1>1 DEF Reads
<1>4. offered' \in Seq(Datagram)
  <2>1. offered' = offered \o DatagramsOf(m)
    BY DEF Reads
  <2>2. QED
    BY <1>1, <2>1, DatagramsTyped, ConcatProperties
<1>5. FramesRead'
  BY <1>2 DEF IInv, FramesRead
<1>6. Len(answers) <= Len(asked) /\ \A i \in 1..Len(answers) : answers[i] = Answer(asked[i])
  BY DEF IInv, AnswersFit
<1>7. CASE Asks(m)
  <2>1. asked' = Append(asked, m)
    BY <1>7 DEF Reads, Asks
  <2>2. /\ asked' \in Seq(Messages) /\ asked' # <<>> /\ asked'[Len(asked')] = m
        /\ Len(asked') = Len(asked) + 1 /\ Len(asked) \in Nat
        /\ \A i \in 1..Len(asked) : asked'[i] = asked[i]
    BY <1>1, <2>1, Appended
  <2>3. Len(answers) \in Nat
    BY <1>1, LenProperties
  <2>4. Len(answers') <= Len(asked')
    BY <1>2, <1>6, <2>2, <2>3
  <2>5. ASSUME NEW i \in 1..Len(answers) PROVE answers[i] = Answer(asked'[i])
    <3>1. i \in 1..Len(asked)
      BY <1>6, <2>2, <2>3
    <3>2. QED
      BY <1>6, <2>2, <3>1
  <2>6. \A i \in 1..Len(answers') : answers'[i] = Answer(asked'[i])
    BY <1>2, <2>5
  <2>7. AnswersFit'
    BY <2>4, <2>6 DEF AnswersFit, Answer
  <2>8. QED
    BY <1>1, <1>2, <1>3, <1>4, <1>5, <1>7, <2>2, <2>7
<1>8. CASE ~Asks(m)
  <2>1. asked' = asked
    BY <1>8 DEF Reads, Asks
  <2>2. AnswersFit'
    BY <1>2, <1>6, <2>1 DEF AnswersFit, Answer
  <2>3. QED
    BY <1>1, <1>2, <1>3, <1>4, <1>5, <1>8, <2>1, <2>2
<1>9. QED
  BY <1>7, <1>8

\* A frame the relay reads as it was meant keeps the histories in step.
LEMMA SendKeeps ==
    ASSUME IInv, NEW frame \in Seq(Byte), NEW meaning \in Meanings,
           Understood(frame) = meaning, Sends(frame, meaning)
    PROVE  /\ sent' \in Seq(Seq(Byte)) /\ meant' \in Seq(Meanings) /\ Len(meant') = Len(sent')
           /\ FramesRead'
           /\ meaning.kind \in {"auth", "pong"} => answers' = Append(answers, meaning)
           /\ meaning.kind \notin {"auth", "pong"} => answers' = answers
<1>1. sent \in Seq(Seq(Byte)) /\ meant \in Seq(Meanings) /\ Len(meant) = Len(sent)
  BY DEF IInv, TypeOK
<1>2. sent' = Append(sent, frame) /\ meant' = Append(meant, meaning)
  BY DEF Sends
<1>3. /\ sent' \in Seq(Seq(Byte)) /\ Len(sent') = Len(sent) + 1 /\ sent'[Len(sent')] = frame
      /\ Len(sent) \in Nat /\ \A i \in 1..Len(sent) : sent'[i] = sent[i]
  BY <1>1, <1>2, Appended
<1>4. /\ meant' \in Seq(Meanings) /\ Len(meant') = Len(meant) + 1 /\ meant'[Len(meant')] = meaning
      /\ \A i \in 1..Len(meant) : meant'[i] = meant[i]
  BY <1>1, <1>2, Appended
<1>5. ASSUME NEW i \in 1..Len(sent') PROVE Understood(sent'[i]) = meant'[i]
  <2>1. CASE i \in 1..Len(sent)
    BY <1>1, <1>3, <1>4, <2>1 DEF IInv, FramesRead
  <2>2. CASE i = Len(sent')
    BY <1>1, <1>3, <1>4, <2>2
  <2>3. i \in 1..Len(sent) \/ i = Len(sent')
    BY <1>3
  <2>4. QED
    BY <2>1, <2>2, <2>3
<1>6. FramesRead'
  BY <1>5 DEF FramesRead, Understood
<1>7. QED
  BY <1>1, <1>3, <1>4, <1>6 DEF Sends

\* An answer to what was asked last.
LEMMA AnswerKeeps ==
    ASSUME IInv, UNCHANGED asked, Len(asked) - Len(answers) = 1,
           NEW a \in Meanings, a = Answer(asked[Len(asked)]), answers' = Append(answers, a)
    PROVE  answers' \in Seq(Meanings) /\ AnswersFit' /\ Len(asked') - Len(answers') = 0
<1>1. answers \in Seq(Meanings) /\ asked \in Seq(Messages)
  BY DEF IInv, TypeOK
<1>2. /\ answers' \in Seq(Meanings) /\ Len(answers') = Len(answers) + 1 /\ answers'[Len(answers')] = a
      /\ Len(answers) \in Nat /\ \A i \in 1..Len(answers) : answers'[i] = answers[i]
  BY <1>1, Appended
<1>3. Len(asked) \in Nat /\ Len(answers') = Len(asked)
  BY <1>1, <1>2, LenProperties
<1>4. ASSUME NEW i \in 1..Len(answers') PROVE answers'[i] = Answer(asked[i])
  <2>1. CASE i \in 1..Len(answers)
    BY <1>2, <2>1 DEF IInv, AnswersFit
  <2>2. CASE i = Len(answers')
    BY <1>2, <1>3, <2>2
  <2>3. i \in 1..Len(answers) \/ i = Len(answers')
    BY <1>2
  <2>4. QED
    BY <2>1, <2>2, <2>3
<1>5. AnswersFit'
  <2>1. Len(answers') <= Len(asked')
    BY <1>3
  <2>2. \A i \in 1..Len(answers') : answers'[i] = Answer(asked'[i])
    BY <1>4
  <2>3. QED
    BY <2>1, <2>2 DEF AnswersFit, Answer
<1>6. QED
  BY <1>2, <1>3, <1>5

\* The handshake loop goes by what the relay meant.
LEMMA HandshakeMeans ==
    ASSUME NEW m \in Messages, HandshakeReceives(m)
    PROVE  \/ m.kind = "text" /\ phase' = phase /\ reply' = reply
           \/ m.kind = "challenge" /\ phase' = "signing" /\ reply' = m.bytes
           \/ m.kind = "confirm" /\ phase' = "up" /\ reply' = reply
           \/ m.kind \notin {"text", "challenge", "confirm"} /\ phase' = "failed" /\ reply' = reply
<1>1. CASE m.kind = "text"
  BY <1>1 DEF HandshakeReceives
<1>2. CASE m.kind # "text"
  <2> DEFINE split == SplitTag(RelayBytes(m))
             challenge == IsTagged(split, SERVER_CHALLENGE) /\ Len(split[2]) = ChallengeLen
             confirm == IsTagged(split, SERVER_CONFIRMS_AUTH)
  <2>1. \/ challenge /\ phase' = "signing" /\ reply' = split[2]
        \/ confirm /\ phase' = "up" /\ reply' = reply
        \/ ~challenge /\ ~confirm /\ phase' = "failed" /\ reply' = reply
    BY <1>2, Zenon DEF HandshakeReceives
  <2>2. Recognised(m, split)
    BY <1>2, Recognition
  <2> HIDE DEF split
  <2>3. /\ confirm <=> m.kind = "confirm"
        /\ challenge <=> m.kind = "challenge"
        /\ m.kind = "challenge" => split[2] = m.bytes
    BY <2>2 DEF Recognised
  <2> HIDE DEF challenge, confirm
  <2>4. QED
    BY <1>2, <2>1, <2>3
<1>3. QED
  BY <1>1, <1>2

\* So does the receive.
LEMMA ReceiveMeans ==
    ASSUME NEW m \in Messages, Receive(m)
    PROVE  \/ m.kind = "ping" /\ rx' = "ponging" /\ reply' = m.bytes /\ pending' = pending
           \/ m.kind # "ping" /\ rx' = rx /\ reply' = reply
              /\ ((pending' = pending /\ DatagramsOf(m) = <<>>) \/ pending' = pending \o DatagramsOf(m))
<1> DEFINE split == IF m.kind = "text" THEN None ELSE SplitTag(RelayBytes(m))
           batch == IsTagged(split, RELAY_TO_CLIENT_DATAGRAM_BATCH)
           ping == IsTagged(split, PING) /\ Len(split[2]) = PingLen
<1>1. \/ Data(split) /\ pending' = pending \o DecodeRelayDatagrams(split[2], batch) /\ rx' = rx /\ reply' = reply
      \/ ping /\ rx' = "ponging" /\ reply' = split[2] /\ pending' = pending
      \/ ~Data(split) /\ ~ping /\ rx' = rx /\ reply' = reply /\ pending' = pending
  BY Zenon DEF Receive, Data
<1>2. m.kind \notin {"datagram", "batch"} => DatagramsOf(m) = <<>>
  BY DatagramsTyped
<1>3. CASE m.kind = "text"
  <2>1. ~Data(split) /\ ~ping
    BY <1>3 DEF Data, IsTagged
  <2> HIDE DEF split, ping
  <2>2. QED
    BY <1>1, <1>2, <1>3, <2>1
<1>4. CASE m.kind # "text"
  <2>1. Recognised(m, split)
    BY <1>4, Recognition
  <2> HIDE DEF split
  <2>2. /\ ping <=> m.kind = "ping"
        /\ m.kind = "ping" => split[2] = m.bytes /\ ~Data(split)
        /\ m.kind \in {"datagram", "batch"} => Data(split)
        /\ Data(split) => DecodeRelayDatagrams(split[2], batch) = DatagramsOf(m)
    BY <2>1 DEF Recognised
  <2> HIDE DEF ping, batch
  <2>3. CASE m.kind = "ping"
    BY <1>1, <2>2, <2>3
  <2>4. CASE m.kind # "ping"
    <3>1. CASE Data(split)
      BY <1>1, <2>2, <2>4, <3>1
    <3>2. CASE ~Data(split)
      BY <1>1, <1>2, <2>2, <2>4, <3>2
    <3>3. QED
      BY <3>1, <3>2
  <2>5. QED
    BY <2>3, <2>4
<1>5. QED
  BY <1>3, <1>4

\* The bytes of a challenge or a ping.
LEMMA AskedBytes ==
    ASSUME NEW m \in Messages, m.kind \in {"challenge", "ping"}
    PROVE  m.bytes \in Seq(Byte) /\ m.bytes # <<>> /\ m.bytes[1] \in Byte
<1>1. PICK n \in Nat \ {0} : m.bytes \in [1..n -> Byte]
  BY Fields, ClientAssumption, WidthsAssumption
<1>2. m.bytes \in Seq(Byte) /\ Len(m.bytes) = n
  BY <1>1, FieldSeq
<1>3. QED
  BY <1>1, <1>2
-----------------------------------------------------------------------------
(***************************************************************************)
(* Every step keeps the invariant                                          *)
(***************************************************************************)

\* connect's loop: a challenge becomes the reply to sign, the confirmation opens
\* the connection, anything else but text ends it.
LEMMA HandshakeStep ==
    ASSUME IInv, NEW m \in Messages, HandshakeReceives(m)
    PROVE  IInv'
<1>1. /\ phase = "handshake" /\ rx = "idle" /\ ~confirmed
      /\ delivered = <<>> /\ pending = <<>> /\ offered = <<>>
      /\ reply \in Seq(Byte) /\ asked \in Seq(Messages) /\ answers \in Seq(Meanings)
  BY DEF IInv, TypeOK, Stage, HandshakeReceives
<1>2. Reads(m) /\ UNCHANGED relayGot /\ rx' = rx /\ pending' = pending /\ delivered' = delivered
  BY DEF HandshakeReceives
<1>3. /\ confirmed' = (m.kind = "confirm") /\ offered' = offered \o DatagramsOf(m)
      /\ answers' = answers
  BY <1>1, <1>2 DEF Reads, relayGot
<1>4. /\ reads' \in 0..MaxRead /\ confirmed' \in BOOLEAN
      /\ offered' \in Seq(Datagram) /\ asked' \in Seq(Messages)
      /\ sent' \in Seq(Seq(Byte)) /\ meant' \in Seq(Meanings) /\ Len(meant') = Len(sent')
      /\ answers' \in Seq(Meanings)
      /\ FramesRead' /\ AnswersFit'
      /\ Asks(m) => asked' # <<>> /\ asked'[Len(asked')] = m /\ Len(asked') = Len(asked) + 1
      /\ ~Asks(m) => asked' = asked
  BY <1>2, ReadKeeps
<1>5. Asks(m) <=> m.kind = "challenge"
  BY <1>1 DEF Asks
<1>6. Len(asked) \in Nat /\ Len(answers) \in Nat /\ Len(asked) - Len(answers) = 0
  <2>1. Len(asked) \in Nat /\ Len(answers) \in Nat
    BY <1>1, LenProperties
  <2>2. QED
    BY <1>1, <2>1 DEF IInv, NoneOwed, Due
<1>7. m.kind \notin {"datagram", "batch"} => offered' = <<>>
  BY <1>1, <1>3, DatagramsTyped
<1>8. /\ phase' \in {"handshake", "signing", "up", "failed"} /\ reply' \in Seq(Byte)
      /\ phase' = "signing" => m.kind = "challenge" /\ reply' = m.bytes
      /\ phase' = "up" => m.kind = "confirm"
      /\ phase' = "handshake" => m.kind = "text"
      /\ phase' = "failed" => m.kind \notin {"text", "challenge", "confirm"}
  BY <1>1, HandshakeMeans, AskedBytes
<1>9. TypeOK'
  BY <1>1, <1>2, <1>4, <1>8, Zenon DEF IInv, TypeOK
<1>10. Stage'
  BY <1>1, <1>2, <1>3, <1>7, <1>8 DEF Stage
<1>11. Replying'
  <2>1. rx' # "ponging"
    BY <1>1, <1>2
  <2>2. phase' = "signing" => LastAsked("challenge")'
    BY <1>4, <1>5, <1>8 DEF LastAsked
  <2>3. QED
    BY <2>1, <2>2 DEF Replying
<1>12. InOrder'
  <2>1. CASE phase' = "failed"
    <3>1. ~confirmed'
      BY <1>3, <1>8, <2>1
    <3>2. QED
      BY <2>1, <3>1 DEF InOrder
  <2>2. CASE phase' # "failed"
    <3>1. m.kind \notin {"datagram", "batch"}
      BY <1>8, <2>2
    <3>2. offered' = <<>> /\ delivered' \o pending' = <<>>
      BY <1>1, <1>2, <1>7, <3>1
    <3>3. QED
      BY <3>2 DEF InOrder
  <2>3. QED
    BY <2>1, <2>2
<1>13. NoneOwed'
  BY <1>1, <1>2, <1>3, <1>4, <1>5, <1>6, <1>8 DEF NoneOwed, Due
<1>14. QED
  BY <1>4, <1>9, <1>10, <1>11, <1>12, <1>13 DEF IInv

\* recv_datagram reads: datagrams join the queue behind what is pending, a ping
\* becomes the reply to send.
LEMMA ReceiveStep ==
    ASSUME IInv, NEW m \in Messages, Receive(m)
    PROVE  IInv'
<1>1. /\ phase = "up" /\ rx = "receiving" /\ confirmed = TRUE /\ pending = <<>>
      /\ pending \in Seq(Datagram) /\ delivered \in Seq(Datagram) /\ offered \in Seq(Datagram)
      /\ reply \in Seq(Byte) /\ asked \in Seq(Messages) /\ answers \in Seq(Meanings)
  BY DEF IInv, TypeOK, Stage, Receive
<1>2. Reads(m) /\ UNCHANGED relayGot /\ phase' = phase /\ delivered' = delivered
  BY DEF Receive
<1>3. /\ confirmed' = TRUE /\ offered' = offered \o DatagramsOf(m) /\ answers' = answers
  BY <1>1, <1>2 DEF Reads, relayGot
<1>4. /\ reads' \in 0..MaxRead /\ confirmed' \in BOOLEAN
      /\ offered' \in Seq(Datagram) /\ asked' \in Seq(Messages)
      /\ sent' \in Seq(Seq(Byte)) /\ meant' \in Seq(Meanings) /\ Len(meant') = Len(sent')
      /\ answers' \in Seq(Meanings)
      /\ FramesRead' /\ AnswersFit'
      /\ Asks(m) => asked' # <<>> /\ asked'[Len(asked')] = m /\ Len(asked') = Len(asked) + 1
      /\ ~Asks(m) => asked' = asked
  BY <1>2, ReadKeeps
<1>5. Asks(m) <=> m.kind = "ping"
  BY <1>1 DEF Asks
<1>6. Len(asked) \in Nat /\ Len(answers) \in Nat /\ Len(asked) - Len(answers) = 0
  <2>1. Len(asked) \in Nat /\ Len(answers) \in Nat
    BY <1>1, LenProperties
  <2>2. QED
    BY <1>1, <2>1 DEF IInv, NoneOwed, Due
<1>7. DatagramsOf(m) \in Seq(Datagram) /\ (m.kind = "ping" => DatagramsOf(m) = <<>>)
  BY DatagramsTyped
<1>8. pending' = pending \o DatagramsOf(m)
  <2>1. pending \o <<>> = pending
    BY <1>1, ConcatEmptySeq
  <2>2. QED
    BY <1>7, <2>1, ReceiveMeans
<1>9. /\ rx' \in {"receiving", "ponging"} /\ reply' \in Seq(Byte)
      /\ rx' = "ponging" => m.kind = "ping" /\ reply' = m.bytes
      /\ rx' = "receiving" => m.kind # "ping"
  BY <1>1, ReceiveMeans, AskedBytes
<1>10. pending' \in Seq(Datagram) /\ Len(pending') <= MaxSegments
  <2>1. pending' = DatagramsOf(m)
    BY <1>1, <1>7, <1>8, ConcatEmptySeq
  <2>2. QED
    BY <2>1, DatagramsTyped
<1>11. TypeOK'
  BY <1>1, <1>2, <1>4, <1>9, <1>10, Zenon DEF IInv, TypeOK
<1>12. Stage'
  BY <1>1, <1>2, <1>3 DEF Stage
<1>13. Replying'
  <2>1. phase' # "signing"
    BY <1>1, <1>2
  <2>2. rx' = "ponging" => LastAsked("ping")'
    BY <1>4, <1>5, <1>9 DEF LastAsked
  <2>3. QED
    BY <2>1, <2>2 DEF Replying
<1>14. InOrder'
  <2> DEFINE new == DatagramsOf(m)
  <2>1. delivered \o pending = offered
    BY <1>1 DEF IInv, InOrder
  <2>2. new \in Seq(Datagram) /\ offered' = offered \o new /\ pending' = pending \o new
    BY <1>3, <1>7, <1>8
  <2> HIDE DEF new
  <2>3. Joined(delivered, pending, new)
    BY <1>1, <2>2, Regroup, Zenon
  <2>4. delivered' \o pending' = offered'
    BY <1>2, <2>1, <2>2, <2>3, Zenon DEF Joined
  <2>5. QED
    BY <2>4 DEF InOrder
<1>15. NoneOwed'
  BY <1>1, <1>2, <1>3, <1>4, <1>5, <1>6, <1>9 DEF NoneOwed, Due
<1>16. QED
  BY <1>4, <1>11, <1>12, <1>13, <1>14, <1>15 DEF IInv

\* recv_datagram returns the front of the queue.
LEMMA DeliverStep ==
    ASSUME IInv, Deliver
    PROVE  IInv'
<1>1. /\ confirmed /\ rx = "receiving" /\ pending # <<>>
      /\ phase \in {"up", "failed"} /\ MaxSegments \in Nat
      /\ pending \in Seq(Datagram) /\ delivered \in Seq(Datagram) /\ Len(pending) <= MaxSegments
  BY ClientAssumption DEF IInv, TypeOK, Stage, Deliver
<1>2. /\ UNCHANGED <<phase, reply, reads, confirmed, offered, asked, sent, meant, answers>>
      /\ rx' = "idle"
  BY DEF Deliver, relayRead, relayGot
<1>3. delivered' = Append(delivered, pending[1]) /\ pending' = From(pending, 2)
  <2>1. /\ delivered' = Append(delivered, pending[1])
        /\ pending' = SubSeq(pending, 1, 0) \o From(pending, 2)
    BY DEF Deliver, FirstPending
  <2>2. SubSeq(pending, 1, 0) = <<>>
    BY <1>1
  <2>3. From(pending, 2) \in Seq(Datagram)
    BY <1>1, PopFront
  <2>4. QED
    BY <2>1, <2>2, <2>3, ConcatEmptySeq
<1>4. /\ delivered' \in Seq(Datagram) /\ pending' \in Seq(Datagram)
      /\ Len(pending') = Len(pending) - 1 /\ Len(pending) \in Nat
      /\ delivered' \o pending' = delivered \o pending
  <2> DEFINE d == Append(delivered, pending[1])
             p == From(pending, 2)
  <2>1. /\ d \in Seq(Datagram) /\ p \in Seq(Datagram) /\ d \o p = delivered \o pending
        /\ Len(p) = Len(pending) - 1 /\ Len(pending) \in Nat
    BY <1>1, PopFront, Zenon
  <2>2. delivered' = d /\ pending' = p
    BY <1>3
  <2> HIDE DEF d, p
  <2>3. QED
    BY <2>1, <2>2
<1>5. TypeOK'
  <2>1. rx' \in {"idle", "receiving", "ponging"}
    BY <1>2
  <2>2. Len(pending') <= MaxSegments
    BY <1>1, <1>4
  <2>3. QED
    BY <1>2, <1>4, <2>1, <2>2, Zenon DEF IInv, TypeOK
<1>6. Stage' /\ Replying' /\ InOrder'
  BY <1>1, <1>2, <1>4 DEF IInv, Stage, Replying, InOrder
<1>7. FramesRead' /\ AnswersFit'
  BY <1>2 DEF IInv, FramesRead, AnswersFit, Answer
<1>8. NoneOwed'
  BY <1>1, <1>2 DEF IInv, NoneOwed, Due
<1>9. QED
  BY <1>5, <1>6, <1>7, <1>8 DEF IInv

\* The auth answers the last challenge, or the connection ends.
LEMMA AuthenticateStep ==
    ASSUME IInv, Authenticate
    PROVE  IInv'
<1> DEFINE sig == Signature(reply)
           meaning == [kind |-> "auth", key |-> Us, signature |-> sig]
<1>1. /\ phase = "signing" /\ rx = "idle" /\ asked \in Seq(Messages) /\ answers \in Seq(Meanings)
      /\ asked # <<>> /\ asked[Len(asked)].kind = "challenge" /\ reply = asked[Len(asked)].bytes
  <2>1. phase = "signing"
    BY DEF Authenticate
  <2>2. QED
    BY <2>1 DEF IInv, TypeOK, Stage, Replying, LastAsked
<1>2. UNCHANGED <<rx, pending, delivered, reads, confirmed, offered, asked>> /\ reply' = <<>>
  BY DEF Authenticate, relayRead
<1>3. /\ reply' \in Seq(Byte)
      /\ phase' \in {"handshake", "failed"} => Stage' /\ Replying' /\ InOrder'
  <2>1. reply' \in Seq(Byte)
    BY <1>2
  <2>2. phase' \in {"handshake", "failed"} => Stage' /\ Replying' /\ InOrder'
    BY <1>1, <1>2 DEF IInv, Stage, Replying, InOrder
  <2>3. QED
    BY <2>1, <2>2
<1>4. CASE phase' = "failed" /\ UNCHANGED relayGot
  <2>1. sent' = sent /\ meant' = meant /\ answers' = answers
    BY <1>4 DEF relayGot
  <2>2. TypeOK'
    BY <1>2, <1>3, <1>4, <2>1, Zenon DEF IInv, TypeOK
  <2>3. FramesRead' /\ AnswersFit' /\ NoneOwed'
    BY <1>2, <1>4, <2>1 DEF IInv, FramesRead, AnswersFit, Answer, NoneOwed
  <2>4. QED
    BY <1>3, <1>4, <2>2, <2>3 DEF IInv
<1>5. CASE phase' = "handshake" /\ Sends(EncodeClientAuth(Us, sig), meaning)
  <2>1. asked[Len(asked)] \in Messages
    <3>1. Len(asked) \in Nat \ {0}
      BY <1>1, EmptySeq, LenProperties
    <3>2. Len(asked) \in 1..Len(asked)
      BY <3>1
    <3>3. QED
      BY <1>1, <3>2, ElementOfSeq
  <2>2. sig \in Seq(Byte)
    <3>1. reply[1] \in Byte
      BY <1>1, <2>1, AskedBytes
    <3>2. sig \in [1..SigLen -> Byte] /\ SigLen \in Nat
      BY <3>1, WidthsAssumption DEF Signature
    <3>3. QED
      BY <3>2, FieldSeq
  <2>3. meaning \in Meanings /\ meaning.kind = "auth"
    <3>1. Us \in Seq(Byte)
      BY ClientAssumption, WidthsAssumption, FieldSeq
    <3>2. QED
      BY <2>2, <3>1 DEF Meanings
  <2>4. meaning = Answer(asked[Len(asked)])
    BY <1>1 DEF Answer
  <2>5. EncodeClientAuth(Us, sig) \in Seq(Byte) /\ Understood(EncodeClientAuth(Us, sig)) = meaning
    BY <2>2, ReadsAuth
  <2>6. Sends(EncodeClientAuth(Us, sig), meaning)
    BY <1>5
  <2> HIDE DEF sig, meaning
  <2>7. /\ sent' \in Seq(Seq(Byte)) /\ meant' \in Seq(Meanings) /\ Len(meant') = Len(sent')
        /\ FramesRead' /\ answers' = Append(answers, meaning)
    BY <2>3, <2>5, <2>6, SendKeeps
  <2>8. Len(asked) - Len(answers) = 1
    BY <1>1 DEF IInv, NoneOwed, Due
  <2>9. answers' \in Seq(Meanings) /\ AnswersFit' /\ Len(asked') - Len(answers') = 0
    BY <1>2, <2>3, <2>4, <2>7, <2>8, AnswerKeeps
  <2>10. TypeOK'
    BY <1>2, <1>3, <1>5, <2>7, <2>9, Zenon DEF IInv, TypeOK
  <2>11. NoneOwed'
    BY <1>1, <1>2, <1>5, <2>9 DEF NoneOwed, Due
  <2>12. QED
    BY <1>3, <1>5, <2>7, <2>9, <2>10, <2>11 DEF IInv
<1>6. QED
  BY <1>4, <1>5 DEF Authenticate

\* The pong answers the last ping, or the connection ends.
LEMMA PongStep ==
    ASSUME IInv, Pong
    PROVE  IInv'
<1> DEFINE meaning == [kind |-> "pong", bytes |-> reply]
<1>1. /\ phase = "up" /\ rx = "ponging" /\ reply \in Seq(Byte)
      /\ asked[Len(asked)].kind = "ping" /\ reply = asked[Len(asked)].bytes
  <2>1. rx = "ponging"
    BY DEF Pong
  <2>2. QED
    BY <2>1 DEF IInv, TypeOK, Stage, Replying, LastAsked
<1>2. UNCHANGED <<pending, delivered, reads, confirmed, offered, asked>> /\ reply' = <<>>
  BY DEF Pong, relayRead
<1>3. reply' \in Seq(Byte)
  BY <1>2
<1>4. CASE rx' = "idle" /\ phase' = "failed" /\ UNCHANGED relayGot
  <2>1. sent' = sent /\ meant' = meant /\ answers' = answers
    BY <1>4 DEF relayGot
  <2>2. TypeOK'
    BY <1>2, <1>3, <1>4, <2>1, Zenon DEF IInv, TypeOK
  <2>3. Stage' /\ Replying' /\ InOrder'
    BY <1>1, <1>2, <1>4 DEF IInv, Stage, Replying, InOrder
  <2>4. FramesRead' /\ AnswersFit' /\ NoneOwed'
    BY <1>2, <1>4, <2>1 DEF IInv, FramesRead, AnswersFit, Answer, NoneOwed
  <2>5. QED
    BY <2>2, <2>3, <2>4 DEF IInv
<1>5. CASE rx' = "receiving" /\ UNCHANGED phase /\ Sends(EncodePong(reply), meaning)
  <2>1. meaning \in Meanings /\ meaning.kind = "pong"
    BY <1>1 DEF Meanings
  <2>2. meaning = Answer(asked[Len(asked)])
    BY <1>1 DEF Answer
  <2>3. EncodePong(reply) \in Seq(Byte) /\ Understood(EncodePong(reply)) = meaning
    BY <1>1, ReadsPong
  <2>4. Sends(EncodePong(reply), meaning)
    BY <1>5
  <2> HIDE DEF meaning
  <2>5. /\ sent' \in Seq(Seq(Byte)) /\ meant' \in Seq(Meanings) /\ Len(meant') = Len(sent')
        /\ FramesRead' /\ answers' = Append(answers, meaning)
    BY <2>1, <2>3, <2>4, SendKeeps
  <2>6. Len(asked) - Len(answers) = 1
    BY <1>1 DEF IInv, NoneOwed, Due
  <2>7. answers' \in Seq(Meanings) /\ AnswersFit' /\ Len(asked') - Len(answers') = 0
    BY <1>2, <2>1, <2>2, <2>5, <2>6, AnswerKeeps
  <2>8. TypeOK'
    BY <1>2, <1>3, <1>5, <2>5, <2>7, Zenon DEF IInv, TypeOK
  <2>9. Stage' /\ Replying' /\ InOrder'
    BY <1>1, <1>2, <1>5 DEF IInv, Stage, Replying, InOrder
  <2>10. NoneOwed'
    BY <1>1, <1>5, <2>7 DEF NoneOwed, Due
  <2>11. QED
    BY <2>5, <2>7, <2>8, <2>9, <2>10 DEF IInv
<1>6. QED
  BY <1>4, <1>5 DEF Pong

\* Frames of other tasks, which answer nothing.
LEMMA UnaskedStep ==
    ASSUME IInv, NEW frame \in Seq(Byte), NEW meaning \in Meanings,
           Understood(frame) = meaning, meaning.kind \in {"datagram", "ping"},
           Sends(frame, meaning),
           UNCHANGED <<phase, rx, reply, pending, delivered, relayRead>>
    PROVE  IInv'
<1>1. /\ sent' \in Seq(Seq(Byte)) /\ meant' \in Seq(Meanings) /\ Len(meant') = Len(sent')
      /\ FramesRead' /\ answers' = answers
  BY SendKeeps
<1>2. UNCHANGED <<phase, rx, reply, pending, delivered, reads, confirmed, offered, asked>>
  BY DEF relayRead
<1>3. TypeOK'
  BY <1>1, <1>2, Zenon DEF IInv, TypeOK
<1>4. Stage' /\ Replying' /\ InOrder'
  BY <1>2 DEF IInv, Stage, Replying, LastAsked, InOrder
<1>5. AnswersFit' /\ NoneOwed'
  BY <1>1, <1>2 DEF IInv, AnswersFit, Answer, NoneOwed, Due
<1>6. QED
  BY <1>1, <1>3, <1>4, <1>5 DEF IInv

\* send_datagram.
LEMMA SendDatagramStep ==
    ASSUME IInv, NEW to \in Peers, NEW payload \in Payloads, SendDatagram(to, payload)
    PROVE  IInv'
<1> DEFINE frame == EncodeClientDatagram(to, payload)
           meaning == [kind |-> "datagram", to |-> to, payload |-> payload]
<1>1. to \in [1..KeyLen -> Byte] /\ payload \in Seq(Byte)
  BY ClientAssumption
<1>2. meaning \in Meanings /\ meaning.kind = "datagram"
  <2>1. to \in Seq(Byte)
    BY <1>1, WidthsAssumption, FieldSeq
  <2>2. QED
    BY <1>1, <2>1 DEF Meanings
<1>3. frame \in Seq(Byte) /\ Understood(frame) = meaning
  BY <1>1, ReadsDatagram
<1>4. Sends(frame, meaning) /\ UNCHANGED <<phase, rx, reply, pending, delivered, relayRead>>
  BY DEF SendDatagram
<1> HIDE DEF frame, meaning
<1>5. QED
  BY <1>2, <1>3, <1>4, UnaskedStep

\* send_ping.
LEMMA SendPingStep ==
    ASSUME IInv, NEW payload \in Pings, SendPing(payload)
    PROVE  IInv'
<1> DEFINE frame == EncodePing(payload)
           meaning == [kind |-> "ping", bytes |-> payload]
<1>1. payload \in Seq(Byte)
  BY ClientAssumption, WidthsAssumption, FieldSeq
<1>2. meaning \in Meanings /\ meaning.kind = "ping"
  BY <1>1 DEF Meanings
<1>3. frame \in Seq(Byte) /\ Understood(frame) = meaning
  BY <1>1, ReadsPing
<1>4. Sends(frame, meaning) /\ UNCHANGED <<phase, rx, reply, pending, delivered, relayRead>>
  BY DEF SendPing
<1> HIDE DEF frame, meaning
<1>5. QED
  BY <1>2, <1>3, <1>4, UnaskedStep

\* Arming a receive, and the end of the connection.
LEMMA QuietStep ==
    ASSUME IInv, Arm \/ Fail
    PROVE  IInv'
<1>1. UNCHANGED <<pending, delivered, reads, confirmed, offered, asked, sent, meant, answers>>
  BY DEF Arm, Fail, relayRead, relayGot
<1>2. FramesRead' /\ AnswersFit'
  BY <1>1 DEF IInv, FramesRead, AnswersFit, Answer
<1>3. CASE Arm
  <2>1. /\ phase \in {"up", "failed"} /\ rx = "idle" /\ phase' = phase /\ rx' = "receiving"
        /\ (phase = "up" \/ pending # <<>>) /\ reply' = reply
    BY <1>3 DEF Arm
  <2>2. TypeOK'
    <3>1. phase' \in {"handshake", "signing", "up", "failed"} /\ rx' \in {"idle", "receiving", "ponging"}
      BY <2>1
    <3>2. QED
      BY <1>1, <2>1, <3>1, Zenon DEF IInv, TypeOK
  <2>3. Stage' /\ Replying' /\ InOrder' /\ NoneOwed'
    BY <1>1, <2>1 DEF IInv, Stage, Replying, InOrder, NoneOwed, Due
  <2>4. QED
    BY <1>2, <2>2, <2>3 DEF IInv
<1>4. CASE Fail
  <2>1. /\ phase # "failed" /\ phase' = "failed" /\ reply' = <<>>
        /\ rx' \in {"idle", "receiving"} /\ (rx' = "receiving" => rx = "receiving")
    BY <1>4 DEF Fail
  <2>2. TypeOK'
    <3>1. /\ phase' \in {"handshake", "signing", "up", "failed"} /\ rx' \in {"idle", "receiving", "ponging"}
          /\ reply' \in Seq(Byte)
      BY <2>1
    <3>2. QED
      BY <1>1, <3>1, Zenon DEF IInv, TypeOK
  <2>3. Stage' /\ Replying' /\ InOrder' /\ NoneOwed'
    BY <1>1, <2>1 DEF IInv, Stage, Replying, InOrder, NoneOwed
  <2>4. QED
    BY <1>2, <2>2, <2>3 DEF IInv
<1>5. QED
  BY <1>3, <1>4

\* The invariant the theorems rest on.
LEMMA Inductive == Spec => []IInv
<1>1. Init => IInv
  BY InitIInv
<1>2. IInv /\ [Next]_vars => IInv'
  <2> SUFFICES ASSUME IInv, [Next]_vars PROVE IInv'
    OBVIOUS
  <2>1. CASE \E m \in Messages : HandshakeReceives(m) \/ Receive(m)
    BY <2>1, HandshakeStep, ReceiveStep
  <2>2. CASE Authenticate \/ Deliver \/ Pong
    BY <2>2, AuthenticateStep, DeliverStep, PongStep
  <2>3. CASE Arm \/ Fail
    BY <2>3, QuietStep
  <2>4. CASE \E to \in Peers, payload \in Payloads : SendDatagram(to, payload)
    BY <2>4, SendDatagramStep
  <2>5. CASE \E payload \in Pings : SendPing(payload)
    BY <2>5, SendPingStep
  <2>6. CASE UNCHANGED vars
    <3>1. UNCHANGED <<phase, rx, reply, pending, delivered, reads, confirmed, offered, asked,
                      sent, meant, answers>>
      BY <2>6 DEF vars, relayRead, relayGot
    <3>2. TypeOK' /\ Stage' /\ Replying' /\ InOrder'
      BY <3>1 DEF IInv, TypeOK, Stage, Replying, LastAsked, InOrder
    <3>3. FramesRead' /\ AnswersFit' /\ NoneOwed'
      BY <3>1 DEF IInv, FramesRead, AnswersFit, Answer, NoneOwed, Due
    <3>4. QED
      BY <3>2, <3>3 DEF IInv
  <2>7. QED
    BY <2>1, <2>2, <2>3, <2>4, <2>5, <2>6 DEF Next
<1>3. QED
  BY <1>1, <1>2, PTL DEF Spec

-----------------------------------------------------------------------------
\* The connection's variables keep their types: what split_tag and
\* decode_relay_datagrams take out of the relay's bytes are bytes and
\* datagrams, the queue never holds more than one frame's, and the relay reads
\* a frame or nothing.
THEOREM TypeCorrect == Spec => []TypeOK
<1>1. IInv => TypeOK
  BY DEF IInv
<1>2. QED
  BY <1>1, Inductive, PTL

\* recv_datagram returns every datagram of every frame once, in the relay's
\* order and with its sender, for batches of any number of segments of any size
\* and any bytes between them: the decoder undoes the relay's encoding, junk
\* adds nothing, and the queue is emptied from its front.
THEOREM EveryDatagramInOrder == Spec => []DatagramsInOrder
<1>1. IInv => DatagramsInOrder
  BY DEF IInv, InOrder, DatagramsInOrder
<1>2. QED
  BY <1>1, Inductive, PTL

\* The relay reads every frame of the client as it was meant, and gets one auth
\* per challenge and one pong per ping in the order it asked, with at most the
\* last outstanding, whatever other tasks send meanwhile.
THEOREM RelayReadsUs == Spec => []RelayUnderstands
<1>1. IInv => RelayUnderstands
  BY DEF IInv, FramesRead, AnswersFit, NoneOwed, RelayUnderstands
<1>2. QED
  BY <1>1, Inductive, PTL
=============================================================================
