-------------------------- MODULE FrameCodecProofs --------------------------
(***************************************************************************)
(* DecodesAlike and Preserves of FrameCodec, for every width of a byte and *)
(* a word, every set of frames and every bytes of a peer.  The words are   *)
(* recursive functions: that each exists and does what it says follows     *)
(* from the least element of a set of numbers.                             *)
(***************************************************************************)
EXTENDS FrameCodec, WellFoundedInduction, SequenceTheorems, TLAPS

----------------------------------------------------------------------------
(* Numbers, and functions on them.                                         *)

\* A set of numbers has a least one.
LEMMA LeastIn ==
  ASSUME NEW T, T \subseteq Nat, T # {}
  PROVE  \E x \in T : \A y \in T : x <= y
<1> DEFINE R == OpToRel(<, Nat)
<1>1. IsWellFoundedOn(R, Nat)
  BY NatLessThanWellFounded
<1> HIDE DEF R
<1>2. PICK x \in T : \A y \in T : ~(<<y, x>> \in R)
  BY <1>1, WFMin
<1>3. \A y \in T : ~(y < x)
  BY <1>2 DEF R, OpToRel
<1> QED
  BY <1>3

\* Induction, for sets.
LEMMA NatIn ==
  ASSUME NEW S, 0 \in S, \A n \in Nat : n \in S => n + 1 \in S
  PROVE  \A n \in Nat : n \in S
<1> DEFINE T == Nat \ S
<1> SUFFICES ASSUME T # {} PROVE FALSE
  OBVIOUS
<1>1. PICK x \in T : \A y \in T : x <= y
  <2>1. T \subseteq Nat
    OBVIOUS
  <2> HIDE DEF T
  <2> QED
    BY <2>1, LeastIn
<1>2. x # 0 /\ x \in Nat
  OBVIOUS
<1>3. x - 1 \in Nat /\ x - 1 \notin T
  BY <1>1, <1>2
<1>4. (x - 1) + 1 \in S
  BY <1>3
<1> QED
  BY <1>1, <1>2, <1>4

\* A function of numbers for every number.
Steps(g) == g \in [Nat -> [Nat -> Nat]]

\* A function up to n that starts with z and goes on as g says.
Unrolls(f, n, z, g) == f[0] = z /\ \A k \in 0..(n - 1) : f[k + 1] = g[k][f[k]]

\* There is one up to any number.
LEMMA Recursion ==
  ASSUME NEW z \in Nat, NEW g, Steps(g)
  PROVE  \A n \in Nat : \E f \in [0..n -> Nat] : Unrolls(f, n, z, g)
<1> DEFINE H == {n \in Nat : \E f \in [0..n -> Nat] : Unrolls(f, n, z, g)}
<1>1. 0 \in H
  <2>1. PICK f : f = [k \in 0..0 |-> z]
    OBVIOUS
  <2>2. f \in [0..0 -> Nat] /\ f[0] = z
    BY <2>1
  <2>3. \A k \in 0..(0 - 1) : FALSE
    OBVIOUS
  <2>4. Unrolls(f, 0, z, g)
    BY <2>2, <2>3 DEF Unrolls
  <2> QED
    BY <2>2, <2>4
<1>2. ASSUME NEW n \in Nat, n \in H PROVE n + 1 \in H
  <2>1. PICK f \in [0..n -> Nat] : Unrolls(f, n, z, g)
    BY <1>2
  <2>2. PICK e : e = [k \in 0..(n + 1) |-> IF k = n + 1 THEN g[n][f[n]] ELSE f[k]]
    OBVIOUS
  <2>3. f[n] \in Nat
    OBVIOUS
  <2>4. g[n][f[n]] \in Nat
    BY <2>3 DEF Steps
  <2>5. ASSUME NEW k \in 0..(n + 1)
        PROVE  e[k] = IF k = n + 1 THEN g[n][f[n]] ELSE f[k]
    BY <2>2
  <2>6. \A k \in 0..n : e[k] = f[k]
    BY <2>5
  <2>7. e[n + 1] = g[n][f[n]]
    BY <2>5
  <2>8. e \in [0..(n + 1) -> Nat]
    BY <2>2, <2>4
  <2>9. Unrolls(e, n + 1, z, g)
    <3>1. e[0] = z
      BY <2>1, <2>6 DEF Unrolls
    <3>2. ASSUME NEW k \in 0..((n + 1) - 1) PROVE e[k + 1] = g[k][e[k]]
      <4>1. CASE k = n
        BY <2>6, <2>7, <4>1
      <4>2. CASE k # n
        <5>1. k \in 0..(n - 1) /\ k \in 0..n /\ k + 1 \in 0..n
          BY <4>2
        <5>2. f[k + 1] = g[k][f[k]]
          BY <2>1, <5>1 DEF Unrolls
        <5> QED
          BY <2>6, <5>1, <5>2
      <4> QED
        BY <4>1, <4>2
    <3> QED
      BY <3>1, <3>2 DEF Unrolls
  <2> QED
    BY <2>8, <2>9
<1> HIDE DEF H
<1>3. \A n \in Nat : n \in H
  BY <1>1, <1>2, NatIn
<1> QED
  BY <1>3 DEF H

\* Two such functions agree.
LEMMA UnrollsAlike ==
  ASSUME NEW z, NEW g, NEW m \in Nat, NEW n \in Nat, m <= n, NEW e, NEW f,
         Unrolls(e, m, z, g), Unrolls(f, n, z, g)
  PROVE  \A k \in 0..m : e[k] = f[k]
<1> DEFINE H == {k \in Nat : k <= m => e[k] = f[k]}
<1>1. 0 \in H
  BY DEF Unrolls
<1>2. ASSUME NEW k \in Nat, k \in H PROVE k + 1 \in H
  <2>1. SUFFICES ASSUME k + 1 <= m PROVE e[k + 1] = f[k + 1]
    OBVIOUS
  <2>2. k \in 0..(m - 1) /\ k \in 0..(n - 1) /\ k <= m
    BY <2>1
  <2>3. e[k] = f[k]
    BY <1>2, <2>2
  <2>4. e[k + 1] = g[k][e[k]] /\ f[k + 1] = g[k][f[k]]
    BY <2>2 DEF Unrolls
  <2> QED
    BY <2>3, <2>4
<1> HIDE DEF H
<1>3. \A k \in Nat : k \in H
  BY <1>1, <1>2, NatIn
<1> QED
  BY <1>3 DEF H

\* And one for all numbers.
Unrolled(f, z, g) == f[0] = z /\ \A n \in Nat : f[n + 1] = g[n][f[n]]

\* A recursive function on all numbers.
LEMMA RecursionNat ==
  ASSUME NEW z \in Nat, NEW g, Steps(g)
  PROVE  \E f \in [Nat -> Nat] : Unrolled(f, z, g)
<1>1. PICK upto : upto = [n \in Nat |-> CHOOSE f \in [0..n -> Nat] : Unrolls(f, n, z, g)]
  OBVIOUS
<1>2. ASSUME NEW n \in Nat PROVE upto[n] \in [0..n -> Nat] /\ Unrolls(upto[n], n, z, g)
  <2>1. \E f \in [0..n -> Nat] : Unrolls(f, n, z, g)
    BY Recursion
  <2> QED
    BY <1>1, <2>1
<1>3. PICK f : f = [n \in Nat |-> upto[n][n]]
  OBVIOUS
<1>4. f \in [Nat -> Nat]
  BY <1>2, <1>3
<1>5. f[0] = z
  BY <1>2, <1>3 DEF Unrolls
<1>6. ASSUME NEW n \in Nat PROVE f[n + 1] = g[n][f[n]]
  <2>1. PICK a, b : a = upto[n] /\ b = upto[n + 1]
    OBVIOUS
  <2>2. Unrolls(a, n, z, g) /\ Unrolls(b, n + 1, z, g)
    BY <1>2, <2>1
  <2>3. a[n] = b[n]
    BY <2>2, UnrollsAlike
  <2>4. b[n + 1] = g[n][b[n]]
    BY <2>2 DEF Unrolls
  <2> QED
    BY <1>3, <2>1, <2>3, <2>4
<1> QED
  BY <1>4, <1>5, <1>6 DEF Unrolled

\* What is assumed of a byte.
LEMMA ByteIs == Byte \in Nat /\ Byte >= 16 /\ Nibble \in Nat /\ Nibble >= 4
<1>1. Nibble \in Nat /\ Nibble >= 4
  BY CodecAssumption
<1>2. Nibble * Nibble \in Nat /\ Nibble * Nibble >= 16
  BY <1>1
<1> QED
  BY <1>1, <1>2 DEF Byte

\* Pow is what its definition says.
LEMMA PowIs ==
  /\ Pow \in [Nat -> Nat] /\ Pow[0] = 1
  /\ \A n \in Nat : Pow[n + 1] = Pow[n] * Byte
<1> DEFINE Def(p) == p = [n \in Nat |-> IF n = 0 THEN 1 ELSE p[n - 1] * Byte]
<1>1. \E p : Def(p)
  <2>1. PICK g : g = [n \in Nat |-> [m \in Nat |-> m * Byte]]
    OBVIOUS
  <2>2. \A n, m \in Nat : g[n][m] = m * Byte
    BY <2>1
  <2>3. Steps(g)
    <3>1. \A m \in Nat : m * Byte \in Nat
      BY ByteIs
    <3> QED
      BY <2>1, <3>1 DEF Steps
  <2>4. PICK p \in [Nat -> Nat] : p[0] = 1 /\ \A n \in Nat : p[n + 1] = g[n][p[n]]
    <3>1. \E f \in [Nat -> Nat] : Unrolled(f, 1, g)
      BY <2>3, RecursionNat
    <3> QED
      BY <3>1 DEF Unrolled
  <2>5. ASSUME NEW n \in Nat PROVE p[n] = IF n = 0 THEN 1 ELSE p[n - 1] * Byte
    <3>1. CASE n = 0
      BY <2>4, <3>1
    <3>2. CASE n # 0
      <4>1. PICK m \in Nat : n = m + 1
        BY <3>2
      <4>2. p[m + 1] = p[m] * Byte
        BY <2>2, <2>4
      <4>3. n - 1 = m
        BY <4>1
      <4> QED
        BY <3>2, <4>1, <4>2, <4>3
    <3> QED
      BY <3>1, <3>2
  <2>6. Def(p)
    BY <2>5
  <2> QED
    BY <2>6
<1>2. Def(Pow)
  <2>1. Pow = CHOOSE p : Def(p)
    BY DEF Pow
  <2> HIDE DEF Def
  <2> QED
    BY <1>1, <2>1
<1>3. DOMAIN Pow = Nat /\ Pow[0] = 1 /\ \A n \in Nat : Pow[n + 1] = Pow[n] * Byte
  <2>1. \A n \in Nat : (n + 1) - 1 = n /\ n + 1 # 0 /\ n + 1 \in Nat
    OBVIOUS
  <2>2. DOMAIN Pow = Nat /\ \A n \in Nat : Pow[n] = IF n = 0 THEN 1 ELSE Pow[n - 1] * Byte
    BY <1>2
  <2> QED
    BY <2>1, <2>2
<1>4. \A n \in Nat : n \in {k \in Nat : Pow[k] \in Nat}
  <2> DEFINE H == {k \in Nat : Pow[k] \in Nat}
  <2>1. 0 \in H
    BY <1>3
  <2>2. ASSUME NEW n \in Nat, n \in H PROVE n + 1 \in H
    <3>1. \A m \in Nat : m * Byte \in Nat
      BY ByteIs
    <3> QED
      BY <1>3, <2>2, <3>1
  <2> HIDE DEF H
  <2>3. \A n \in Nat : n \in H
    BY <2>1, <2>2, NatIn
  <2> QED
    BY <2>3 DEF H
<1>5. Pow \in [Nat -> Nat]
  <2>1. Pow = [n \in Nat |-> Pow[n]]
    BY <1>2
  <2> QED
    BY <1>4, <2>1
<1> QED
  BY <1>3, <1>5

----------------------------------------------------------------------------
(* Division.                                                               *)

\* Products.
LEMMA Products ==
  ASSUME NEW a \in Nat, NEW b \in Nat, NEW c \in Nat
  PROVE  /\ a * b \in Nat /\ a * b = b * a /\ a * (b * c) = (a * b) * c
         /\ (a + b) * c = a * c + b * c /\ (a + 1) * c = a * c + c
         /\ a <= b => a * c <= b * c
         /\ a < b => a * c + c <= b * c
<1>1. a * b \in Nat /\ a * b = b * a /\ a * (b * c) = (a * b) * c
  OBVIOUS
<1>2. (a + b) * c = a * c + b * c /\ (a + 1) * c = a * c + c
  OBVIOUS
<1>3. a <= b => a * c <= b * c
  OBVIOUS
<1>4. a < b => a * c + c <= b * c
  OBVIOUS
<1> QED
  BY <1>1, <1>2, <1>3, <1>4

\* What division gives.
LEMMA Divides ==
  ASSUME NEW n \in Nat, NEW d \in Nat, d > 0
  PROVE  /\ n \div d \in Nat /\ n % d \in Nat /\ n % d < d
         /\ (n \div d) * d + (n % d) = n
OBVIOUS

\* And that nothing else does.
LEMMA Divided ==
  ASSUME NEW q \in Nat, NEW d \in Nat, NEW r \in Nat, r < d
  PROVE  (q * d + r) \div d = q /\ (q * d + r) % d = r
<1>1. PICK n, x, y : n = q * d + r /\ x = n \div d /\ y = n % d
  OBVIOUS
<1>2. n \in Nat /\ d > 0
  BY <1>1, Products
<1>3. x \in Nat /\ y \in Nat /\ y < d /\ x * d + y = n
  BY <1>1, <1>2, Divides
<1>4. ~(x < q)
  <2>1. x < q => x * d + d <= q * d
    BY <1>3, Products
  <2>2. x * d \in Nat /\ q * d \in Nat
    BY <1>3, Products
  <2>3. PICK a, b \in Nat : a = x * d /\ b = q * d
    BY <2>2
  <2> QED
    BY <1>1, <1>3, <2>1, <2>3
<1>5. ~(q < x)
  <2>1. q < x => q * d + d <= x * d
    BY <1>3, Products
  <2>2. x * d \in Nat /\ q * d \in Nat
    BY <1>3, Products
  <2>3. PICK a, b \in Nat : a = x * d /\ b = q * d
    BY <2>2
  <2> QED
    BY <1>1, <1>3, <2>1, <2>3
<1>6. x = q
  BY <1>3, <1>4, <1>5
<1>7. y = r
  <2>1. q * d \in Nat
    BY Products
  <2>2. PICK a \in Nat : a = q * d
    BY <2>1
  <2> QED
    BY <1>1, <1>3, <1>6, <2>2
<1> QED
  BY <1>1, <1>6, <1>7

\* Division by a product.
LEMMA DividesTwice ==
  ASSUME NEW n \in Nat, NEW c \in Nat, NEW d \in Nat, c > 0, d > 0
  PROVE  n \div (c * d) = (n \div c) \div d
<1>1. PICK q, r : q = n \div c /\ r = n % c
  OBVIOUS
<1>2. q \in Nat /\ r \in Nat /\ r < c /\ q * c + r = n
  BY <1>1, Divides
<1>3. PICK p, t : p = q \div d /\ t = q % d
  OBVIOUS
<1>4. p \in Nat /\ t \in Nat /\ t < d /\ p * d + t = q
  BY <1>2, <1>3, Divides
<1>5. n = p * (c * d) + (t * c + r)
  <2>1. q * c = (p * d) * c + t * c
    BY <1>4, Products
  <2>2. p * (d * c) = (p * d) * c
    BY <1>4, Products
  <2>6. d * c = c * d
    BY Products
  <2>3. q * c = p * (c * d) + t * c
    BY <2>1, <2>2, <2>6
  <2>4. q * c \in Nat /\ p * (c * d) \in Nat /\ t * c \in Nat
    BY <1>2, <1>4, Products
  <2>5. PICK x, y, z \in Nat : x = q * c /\ y = p * (c * d) /\ z = t * c
    BY <2>4
  <2>7. n = x + r /\ x = y + z
    BY <1>2, <2>3, <2>5
  <2>8. n = y + (z + r)
    BY <1>2, <2>7
  <2> QED
    BY <2>5, <2>8
<1>6. t * c + r \in Nat /\ t * c + r < c * d /\ c * d \in Nat
  <2>1. t * c + c <= d * c /\ d * c = c * d /\ t * c \in Nat /\ c * d \in Nat
    BY <1>4, Products
  <2>2. PICK x, y \in Nat : x = t * c /\ y = c * d
    BY <2>1
  <2> QED
    BY <1>2, <2>1, <2>2
<1>7. n \div (c * d) = p
  <2>1. PICK m, s : m = c * d /\ s = t * c + r
    OBVIOUS
  <2>2. m \in Nat /\ s \in Nat /\ s < m /\ n = p * m + s
    BY <1>5, <1>6, <2>1
  <2>3. (p * m + s) \div m = p
    BY <1>4, <2>2, Divided
  <2> QED
    BY <2>1, <2>2, <2>3
<1> QED
  BY <1>1, <1>3, <1>7

----------------------------------------------------------------------------
(* Words.                                                                  *)

\* Powers grow.
LEMMA PowGrows ==
  \A n \in Nat : Pow[n] \in Nat /\ Pow[n] >= 1 /\ (n >= 1 => Pow[n] >= n + 2)
<1> DEFINE H == {n \in Nat : Pow[n] >= 1 /\ (n >= 1 => Pow[n] >= n + 2)}
<1>1. 0 \in H
  BY PowIs
<1>2. ASSUME NEW n \in Nat, n \in H PROVE n + 1 \in H
  <2>1. PICK p \in Nat : p = Pow[n]
    BY PowIs
  <2>2. Pow[n + 1] = p * Byte
    BY <2>1, PowIs
  <2>3. p * Byte >= 16 * p
    BY ByteIs
  <2>4. p >= 1 /\ (n >= 1 => p >= n + 2)
    BY <1>2, <2>1
  <2>5. 16 * p >= (n + 1) + 2
    BY <2>4
  <2>6. p * Byte >= (n + 1) + 2 /\ p * Byte \in Nat
    BY <2>3, <2>5, ByteIs
  <2> QED
    BY <2>2, <2>6
<1> HIDE DEF H
<1>3. \A n \in Nat : n \in H
  BY <1>1, <1>2, NatIn
<1> QED
  BY <1>3, PowIs DEF H

\* The words and their largest values.
LEMMA WordIs ==
  /\ WordLen \in Nat /\ WordLen >= 2 /\ WordLen - 1 \in Nat
  /\ Pow[WordLen] \in Nat /\ Pow[WordLen - 1] \in Nat
  /\ Pow[WordLen] = Pow[WordLen - 1] * Byte
  /\ WordMax \in Nat /\ WordMax = Pow[WordLen] - 1
  /\ LENGTH_MAX \in Nat /\ LENGTH_MAX = Pow[WordLen - 1] - 1 /\ WordLen <= LENGTH_MAX
  /\ STREAMID_MAX \in Nat /\ STREAMID_MAX <= WordMax
  /\ WNDINC_MAX \in Nat /\ WNDINC_MAX <= WordMax
  /\ HdrLen = WordLen + WordLen
<1>1. WordLen \in Nat /\ WordLen >= 2 /\ WordLen - 1 \in Nat
  BY CodecAssumption
<1>2. PICK m \in Nat : m = WordLen - 1
  BY <1>1
<1>3. m + 1 = WordLen /\ m >= 1
  BY <1>1, <1>2
<1>4. PICK p, q \in Nat : p = Pow[m + 1] /\ q = Pow[m]
  BY <1>2, PowIs
<1>5. p >= 1 /\ q >= m + 2 /\ p = q * Byte
  BY <1>3, <1>4, PowGrows, PowIs
<1>6. WordMax = p - 1 /\ LENGTH_MAX = q - 1
  BY <1>2, <1>3, <1>4 DEF WordMax, LENGTH_MAX
<1>7. (p - 1) \div 2 \in Nat /\ (p - 1) \div 2 <= p - 1
  BY <1>5
<1>8. HdrLen = WordLen + WordLen
  BY <1>1 DEF HdrLen
<1>9. WordMax \in Nat /\ LENGTH_MAX \in Nat /\ WordLen <= LENGTH_MAX
  BY <1>3, <1>5, <1>6
<1>10. /\ STREAMID_MAX \in Nat /\ STREAMID_MAX <= WordMax
       /\ WNDINC_MAX \in Nat /\ WNDINC_MAX <= WordMax
  BY <1>6, <1>7 DEF STREAMID_MAX, WNDINC_MAX
<1> QED
  BY <1>1, <1>2, <1>3, <1>4, <1>5, <1>6, <1>8, <1>9, <1>10

\* The value of the bytes so far.
Sums(v, bs) == v[0] = 0 /\ \A k \in 1..Len(bs) : v[k] = v[k - 1] * Byte + bs[k]

\* Value is what its definition says.
LEMMA ValueIs ==
  ASSUME NEW bs \in Seq(Bytes)
  PROVE  \E v \in [0..Len(bs) -> Nat] : Sums(v, bs) /\ Value(bs) = v[Len(bs)]
<1> DEFINE Def(v) == v = [k \in 0..Len(bs) |-> IF k = 0 THEN 0 ELSE v[k - 1] * Byte + bs[k]]
<1>1. PICK n \in Nat : n = Len(bs)
  OBVIOUS
<1>2. \A k \in 1..n : bs[k] \in Nat
  BY <1>1, ByteIs DEF Bytes
<1>3. PICK g : g = [k \in Nat |-> [m \in Nat |-> m * Byte + (IF k + 1 \in 1..n THEN bs[k + 1] ELSE 0)]]
  OBVIOUS
<1>4. \A k, m \in Nat : g[k][m] = m * Byte + (IF k + 1 \in 1..n THEN bs[k + 1] ELSE 0)
  BY <1>3
<1>5. Steps(g)
  <2>1. \A m \in Nat : m * Byte \in Nat
    BY ByteIs
  <2>2. \A k \in Nat : (IF k + 1 \in 1..n THEN bs[k + 1] ELSE 0) \in Nat
    BY <1>2
  <2>3. \A k, m \in Nat : m * Byte + (IF k + 1 \in 1..n THEN bs[k + 1] ELSE 0) \in Nat
    <3>1. \A a, b \in Nat : a + b \in Nat
      OBVIOUS
    <3> QED
      BY <2>1, <2>2, <3>1
  <2> QED
    BY <1>3, <2>3 DEF Steps
<1>6. PICK f \in [Nat -> Nat] : f[0] = 0 /\ \A k \in Nat : f[k + 1] = g[k][f[k]]
  <2>1. \E h \in [Nat -> Nat] : Unrolled(h, 0, g)
    BY <1>5, RecursionNat
  <2> QED
    BY <2>1 DEF Unrolled
<1>7. PICK e : e = [k \in 0..n |-> f[k]]
  OBVIOUS
<1>8. e \in [0..n -> Nat] /\ \A k \in 0..n : e[k] = f[k]
  BY <1>7
<1>9. ASSUME NEW k \in 0..n PROVE e[k] = IF k = 0 THEN 0 ELSE e[k - 1] * Byte + bs[k]
  <2>1. CASE k = 0
    BY <1>6, <1>8, <2>1
  <2>2. CASE k # 0
    <3>1. PICK m \in Nat : m = k - 1
      BY <2>2
    <3>2. m + 1 = k /\ m \in 0..n /\ m + 1 \in 1..n
      BY <2>2, <3>1
    <3>3. f[m + 1] = f[m] * Byte + bs[m + 1]
      BY <1>4, <1>6, <3>2
    <3> QED
      BY <1>8, <2>2, <3>1, <3>2, <3>3
  <2> QED
    BY <2>1, <2>2
<1>10. Def(e)
  <2>1. e = [k \in 0..n |-> e[k]]
    BY <1>8
  <2> QED
    BY <1>1, <1>9, <2>1
<1>11. PICK v : v = CHOOSE u : Def(u)
  OBVIOUS
<1>12. Value(bs) = v[Len(bs)]
  BY <1>11 DEF Value
<1>13. Def(v)
  <2> HIDE DEF Def
  <2> QED
    BY <1>10, <1>11
<1>14. v[0] = 0 /\ \A k \in 1..n : v[k] = v[k - 1] * Byte + bs[k]
  <2>1. PICK u : u = v
    OBVIOUS
  <2>2. v = [k \in 0..n |-> IF k = 0 THEN 0 ELSE u[k - 1] * Byte + bs[k]]
    BY <1>1, <1>13, <2>1
  <2>3. v[0] = 0 /\ \A k \in 1..n : v[k] = u[k - 1] * Byte + bs[k]
    BY <2>2
  <2> QED
    BY <2>1, <2>3
<1>15. Sums(v, bs)
  BY <1>1, <1>14 DEF Sums
<1>16. \A k \in 0..n : v[k] \in Nat
  <2> DEFINE H == {k \in Nat : k <= n => v[k] \in Nat}
  <2>1. 0 \in H
    BY <1>14
  <2>2. ASSUME NEW k \in Nat, k \in H PROVE k + 1 \in H
    <3>1. SUFFICES ASSUME k + 1 <= n PROVE v[k + 1] \in Nat
      OBVIOUS
    <3>2. v[k] \in Nat /\ k + 1 \in 1..n /\ (k + 1) - 1 = k
      BY <2>2, <3>1
    <3>3. v[k + 1] = v[k] * Byte + bs[k + 1]
      BY <1>14, <3>2
    <3>4. \A m \in Nat : m * Byte \in Nat
      BY ByteIs
    <3>5. PICK a, b \in Nat : a = v[k] * Byte /\ b = bs[k + 1]
      BY <1>2, <3>2, <3>4
    <3>6. v[k + 1] = a + b
      BY <3>3, <3>5
    <3> QED
      BY <3>6
  <2> HIDE DEF H
  <2>3. \A k \in Nat : k \in H
    BY <2>1, <2>2, NatIn
  <2> QED
    BY <2>3 DEF H
<1>17. v = [k \in 0..n |-> v[k]]
  BY <1>1, <1>13
<1>18. v \in [0..Len(bs) -> Nat]
  BY <1>1, <1>16, <1>17
<1> QED
  BY <1>12, <1>15, <1>18

\* So many bytes have so many values.
LEMMA ValueBound ==
  ASSUME NEW bs \in Seq(Bytes)
  PROVE  Value(bs) \in Nat /\ Value(bs) < Pow[Len(bs)]
<1>1. PICK n \in Nat : n = Len(bs)
  OBVIOUS
<1>2. PICK v \in [0..n -> Nat] : Sums(v, bs) /\ Value(bs) = v[n]
  BY <1>1, ValueIs
<1> DEFINE H == {k \in Nat : k <= n => v[k] < Pow[k]}
<1>3. 0 \in H
  BY <1>2, PowIs DEF Sums
<1>4. ASSUME NEW k \in Nat, k \in H PROVE k + 1 \in H
  <2>1. SUFFICES ASSUME k + 1 <= n PROVE v[k + 1] < Pow[k + 1]
    OBVIOUS
  <2>2. k + 1 \in 1..n /\ (k + 1) - 1 = k /\ k \in 0..n /\ k <= n
    BY <2>1
  <2>3. v[k + 1] = v[k] * Byte + bs[k + 1]
    BY <1>1, <1>2, <2>2 DEF Sums
  <2>4. bs[k + 1] \in Nat /\ bs[k + 1] < Byte
    BY <1>1, <2>2, ByteIs DEF Bytes
  <2>5. PICK a, b, p \in Nat : a = v[k] /\ b = bs[k + 1] /\ p = Pow[k]
    BY <2>2, <2>4, PowIs
  <2>6. a < p
    BY <1>4, <2>2, <2>5
  <2>7. a * Byte + Byte <= p * Byte /\ a * Byte \in Nat /\ p * Byte \in Nat
    BY <2>6, ByteIs, Products
  <2>8. a * Byte + b < p * Byte
    <3>1. PICK x, y, z \in Nat : x = a * Byte /\ y = p * Byte /\ z = Byte
      BY <2>7, ByteIs
    <3>2. x + z <= y /\ b < z
      BY <2>4, <2>5, <2>7, <3>1
    <3>3. x + b < y
      BY <3>2
    <3> QED
      BY <3>1, <3>3
  <2>9. Pow[k + 1] = p * Byte
    BY <2>5, PowIs
  <2> QED
    BY <2>3, <2>5, <2>8, <2>9
<1> HIDE DEF H
<1>5. \A k \in Nat : k \in H
  BY <1>3, <1>4, NatIn
<1>6. v[n] \in Nat /\ v[n] < Pow[n]
  BY <1>5 DEF H
<1> QED
  BY <1>1, <1>2, <1>6

\* A word is as many bytes.
LEMMA WordBytes ==
  ASSUME NEW n \in Nat
  PROVE  Word(n) \in Seq(Bytes) /\ Len(Word(n)) = WordLen
<1>1. WordLen \in Nat
  BY WordIs
<1>2. ASSUME NEW i \in 1..WordLen PROVE (n \div Pow[WordLen - i]) % Byte \in Bytes
  <2>1. PICK m \in Nat : m = WordLen - i
    BY <1>1
  <2>2. PICK p \in Nat : p = Pow[m] /\ p >= 1
    BY PowGrows
  <2>3. n \div p \in Nat
    BY <2>2, Divides
  <2>4. (n \div p) % Byte \in Bytes
    BY <2>3, ByteIs, Divides DEF Bytes
  <2> QED
    BY <2>1, <2>2, <2>4
<1>3. Word(n) \in [1..WordLen -> Bytes]
  BY <1>2 DEF Word
<1> QED
  BY <1>1, <1>3

\* get_u32 reads what put_u32 wrote.
LEMMA ValueOfWord ==
  ASSUME NEW n \in 0..WordMax
  PROVE  Value(Word(n)) = n
<1>1. n \in Nat /\ n < Pow[WordLen] /\ WordLen \in Nat
  BY WordIs
<1>2. PICK bs : bs = Word(n)
  OBVIOUS
<1>3. bs \in Seq(Bytes) /\ Len(bs) = WordLen
  BY <1>1, <1>2, WordBytes
<1>4. \A i \in 1..WordLen : bs[i] = (n \div Pow[WordLen - i]) % Byte
  BY <1>2 DEF Word
<1>5. PICK v \in [0..WordLen -> Nat] : Sums(v, bs) /\ Value(bs) = v[WordLen]
  BY <1>3, ValueIs
<1> DEFINE H == {k \in Nat : k <= WordLen => v[k] = n \div Pow[WordLen - k]}
<1>6. 0 \in H
  <2>1. v[0] = 0 /\ WordLen - 0 = WordLen
    BY <1>1, <1>5 DEF Sums
  <2>2. PICK p \in Nat : p = Pow[WordLen] /\ n < p
    BY <1>1, PowIs
  <2>3. (0 * p + n) \div p = 0 /\ 0 * p + n = n
    BY <1>1, <2>2, Divided
  <2> QED
    BY <2>1, <2>2, <2>3
<1>7. ASSUME NEW k \in Nat, k \in H PROVE k + 1 \in H
  <2>1. SUFFICES ASSUME k + 1 <= WordLen PROVE v[k + 1] = n \div Pow[WordLen - (k + 1)]
    OBVIOUS
  <2>2. k + 1 \in 1..WordLen /\ (k + 1) - 1 = k /\ k <= WordLen
    BY <1>1, <2>1
  <2>3. v[k + 1] = v[k] * Byte + bs[k + 1]
    BY <1>3, <1>5, <2>2 DEF Sums
  <2>4. PICK m \in Nat : m = WordLen - (k + 1)
    BY <1>1, <2>1
  <2>5. WordLen - k = m + 1
    BY <1>1, <2>4
  <2>6. PICK p \in Nat : p = Pow[m] /\ p >= 1 /\ Pow[m + 1] = p * Byte
    BY PowGrows, PowIs
  <2>7. v[k] = n \div (p * Byte)
    BY <1>7, <2>2, <2>5, <2>6
  <2>8. PICK q : q = n \div p
    OBVIOUS
  <2>9. q \in Nat /\ n \div (p * Byte) = q \div Byte
    <3>1. p > 0 /\ Byte \in Nat /\ Byte > 0
      BY <2>6, ByteIs
    <3>2. n \div p \in Nat
      BY <1>1, <3>1, Divides
    <3>3. n \div (p * Byte) = (n \div p) \div Byte
      BY <1>1, <3>1, DividesTwice
    <3> QED
      BY <2>8, <3>2, <3>3
  <2>10. bs[k + 1] = q % Byte
    BY <1>4, <2>2, <2>4, <2>6, <2>8
  <2>11. (q \div Byte) * Byte + (q % Byte) = q
    BY <2>9, ByteIs, Divides
  <2>12. v[k + 1] = q
    BY <2>3, <2>7, <2>9, <2>10, <2>11
  <2> QED
    BY <2>4, <2>6, <2>8, <2>12
<1> HIDE DEF H
<1>8. \A k \in Nat : k \in H
  BY <1>6, <1>7, NatIn
<1>9. v[WordLen] = n \div Pow[WordLen - WordLen]
  BY <1>1, <1>8 DEF H
<1>10. v[WordLen] = n
  <2>1. WordLen - WordLen = 0
    BY <1>1
  <2>2. v[WordLen] = n \div 1
    BY <1>9, <2>1, PowIs
  <2>3. n \div 1 = n
    BY <1>1
  <2> QED
    BY <2>2, <2>3
<1> QED
  BY <1>2, <1>5, <1>10

----------------------------------------------------------------------------
(* Pieces of a sequence.                                                   *)

\* A piece.
LEMMA PieceAt ==
  ASSUME NEW S, NEW s \in Seq(S), NEW a \in Nat, NEW b \in Nat, a <= b, b <= Len(s)
  PROVE  /\ SubSeq(s, a + 1, b) \in Seq(S) /\ Len(SubSeq(s, a + 1, b)) = b - a
         /\ \A i \in 1..(b - a) : SubSeq(s, a + 1, b)[i] = s[a + i]
OBVIOUS

\* Two sequences with the same elements.
LEMMA SameSeq ==
  ASSUME NEW S, NEW s \in Seq(S), NEW t \in Seq(S), Len(s) = Len(t),
         \A i \in 1..Len(s) : s[i] = t[i]
  PROVE  s = t
OBVIOUS

\* Two sequences one behind the other.
LEMMA ConcatAt ==
  ASSUME NEW S, NEW s \in Seq(S), NEW t \in Seq(S)
  PROVE  /\ s \o t \in Seq(S) /\ Len(s \o t) = Len(s) + Len(t) /\ Len(s) \in Nat /\ Len(t) \in Nat
         /\ \A i \in 1..Len(s) : (s \o t)[i] = s[i]
         /\ \A i \in 1..Len(t) : (s \o t)[Len(s) + i] = t[i]
OBVIOUS

\* The same, as one fact.
Joined(S, s, t, u) ==
  /\ u \in Seq(S) /\ Len(u) = Len(s) + Len(t)
  /\ \A i \in 1..Len(s) : u[i] = s[i]
  /\ \A i \in 1..Len(t) : u[Len(s) + i] = t[i]

LEMMA ConcatIs ==
  ASSUME NEW S, NEW s \in Seq(S), NEW t \in Seq(S)
  PROVE  Joined(S, s, t, s \o t)
BY ConcatAt DEF Joined

\* The pieces of a sequence do not change when it gets longer.
LEMMA PieceKept ==
  ASSUME NEW S, NEW s \in Seq(S), NEW t \in Seq(S), NEW a \in Nat, NEW b \in Nat,
         a <= b, b <= Len(s)
  PROVE  SubSeq(s \o t, a + 1, b) = SubSeq(s, a + 1, b)
<1>1. PICK u : u = s \o t
  OBVIOUS
<1>2. u \in Seq(S) /\ b <= Len(u) /\ \A i \in 1..Len(s) : u[i] = s[i]
  BY <1>1, ConcatAt
<1>3. PICK x, y : x = SubSeq(u, a + 1, b) /\ y = SubSeq(s, a + 1, b)
  OBVIOUS
<1>4. /\ x \in Seq(S) /\ y \in Seq(S) /\ Len(x) = b - a /\ Len(y) = b - a
      /\ \A i \in 1..(b - a) : x[i] = u[a + i] /\ y[i] = s[a + i]
  BY <1>2, <1>3, PieceAt
<1>5. \A i \in 1..(b - a) : x[i] = y[i]
  <2>1. \A i \in 1..(b - a) : a + i \in 1..Len(s)
    OBVIOUS
  <2> QED
    BY <1>2, <1>4, <2>1
<1>6. x = y
  BY <1>4, <1>5, SameSeq
<1> QED
  BY <1>1, <1>3, <1>6

\* A piece of a piece.
LEMMA PieceOfPiece ==
  ASSUME NEW S, NEW s \in Seq(S), NEW a \in Nat, NEW b \in Nat, a <= b, b <= Len(s),
         NEW c \in Nat, NEW d \in Nat, c <= d, d <= b - a
  PROVE  SubSeq(SubSeq(s, a + 1, b), c + 1, d) = SubSeq(s, (a + c) + 1, a + d)
<1>1. PICK p : p = SubSeq(s, a + 1, b)
  OBVIOUS
<1>2. p \in Seq(S) /\ Len(p) = b - a /\ \A i \in 1..(b - a) : p[i] = s[a + i]
  BY <1>1, PieceAt
<1>3. PICK x, y : x = SubSeq(p, c + 1, d) /\ y = SubSeq(s, (a + c) + 1, a + d)
  OBVIOUS
<1>4. /\ x \in Seq(S) /\ Len(x) = d - c
      /\ \A i \in 1..(d - c) : x[i] = p[c + i]
  BY <1>2, <1>3, PieceAt
<1>5. PICK e, f \in Nat : e = a + c /\ f = a + d
  OBVIOUS
<1>6. e <= f /\ f <= Len(s) /\ f - e = d - c
  BY <1>5
<1>7. /\ y \in Seq(S) /\ Len(y) = d - c
      /\ \A i \in 1..(d - c) : y[i] = s[e + i]
  BY <1>3, <1>5, <1>6, PieceAt
<1>8. \A i \in 1..(d - c) : c + i \in 1..(b - a) /\ a + (c + i) = e + i
  BY <1>5
<1>9. \A i \in 1..(d - c) : x[i] = y[i]
  BY <1>2, <1>4, <1>7, <1>8
<1>10. x = y
  BY <1>4, <1>7, <1>9, SameSeq
<1> QED
  BY <1>1, <1>3, <1>10

\* The first and the second of two sequences are pieces of both.
LEMMA PiecesOfTwo ==
  ASSUME NEW S, NEW s \in Seq(S), NEW t \in Seq(S), NEW n, Len(s) + Len(t) = n
  PROVE  SubSeq(s \o t, 1, Len(s)) = s /\ SubSeq(s \o t, Len(s) + 1, n) = t
OBVIOUS

\* A sequence that is split.
LEMMA SplitAt ==
  ASSUME NEW S, NEW s \in Seq(S), NEW n \in 0..Len(s)
  PROVE  /\ SubSeq(s, 1, n) \in Seq(S) /\ Len(SubSeq(s, 1, n)) = n
         /\ SubSeq(s, n + 1, Len(s)) \in Seq(S) /\ Len(SubSeq(s, n + 1, Len(s))) = Len(s) - n
         /\ SubSeq(s, 1, n) \o SubSeq(s, n + 1, Len(s)) = s
<1>1. Len(s) \in Nat /\ n \in Nat /\ n <= Len(s)
  OBVIOUS
<1>2. PICK m \in Nat : Len(s) = m
  OBVIOUS
<1>3. PICK a, b : a = SubSeq(s, 1, n) /\ b = SubSeq(s, n + 1, m)
  OBVIOUS
<1>4. a \in Seq(S) /\ Len(a) = n /\ \A i \in 1..n : a[i] = s[i]
  BY <1>1, <1>3
<1>5. b \in Seq(S) /\ Len(b) = m - n /\ \A i \in 1..(m - n) : b[i] = s[n + i]
  BY <1>1, <1>2, <1>3, PieceAt
<1>6. PICK c : c = a \o b
  OBVIOUS
<1>7. /\ c \in Seq(S) /\ Len(c) = n + (m - n)
      /\ \A i \in 1..n : c[i] = a[i]
      /\ \A i \in 1..(m - n) : c[n + i] = b[i]
  <2>1. PICK k \in Nat : k = m - n
    BY <1>1, <1>2
  <2>2. Len(b) = k
    BY <1>5, <2>1
  <2>3. /\ c \in Seq(S) /\ Len(c) = n + k
        /\ \A i \in 1..n : c[i] = a[i]
        /\ \A i \in 1..k : c[n + i] = b[i]
    <3>1. Joined(S, a, b, c)
      BY <1>4, <1>5, <1>6, ConcatIs
    <3> QED
      BY <1>4, <2>2, <3>1 DEF Joined
  <2> QED
    BY <2>1, <2>3
<1>8. n + (m - n) = m /\ n <= m
  BY <1>1, <1>2
<1>9. ASSUME NEW i \in 1..m PROVE c[i] = s[i]
  <2>1. CASE i <= n
    <3>1. i \in 1..n
      BY <1>1, <2>1
    <3> QED
      BY <1>4, <1>7, <3>1
  <2>2. CASE ~(i <= n)
    <3>1. PICK j \in 1..(m - n) : n + j = i
      <4>1. i - n \in 1..(m - n) /\ n + (i - n) = i
        BY <1>1, <1>8, <2>2
      <4> QED
        BY <4>1
    <3> QED
      BY <1>5, <1>7, <3>1
  <2> QED
    BY <2>1, <2>2
<1>10. c = s
  BY <1>2, <1>7, <1>8, <1>9, SameSeq
<1> QED
  BY <1>2, <1>3, <1>4, <1>5, <1>6, <1>10

\* What is behind a place in two sequences.
LEMMA BehindBoth ==
  ASSUME NEW S, NEW s \in Seq(S), NEW t \in Seq(S), NEW a \in Nat, a <= Len(s)
  PROVE  SubSeq(s, a + 1, Len(s)) \o t = SubSeq(s \o t, a + 1, Len(s \o t))
<1>1. PICK n, k \in Nat : Len(s) = n /\ Len(t) = k
  OBVIOUS
<1>2. PICK u : u = s \o t
  OBVIOUS
<1>3. /\ u \in Seq(S) /\ Len(u) = n + k /\ \A i \in 1..n : u[i] = s[i]
      /\ \A i \in 1..k : u[n + i] = t[i]
  <2>1. Joined(S, s, t, u)
    BY <1>2, ConcatIs
  <2> QED
    BY <1>1, <2>1 DEF Joined
<1>4. PICK b : b = SubSeq(s, a + 1, n)
  OBVIOUS
<1>5. b \in Seq(S) /\ Len(b) = n - a /\ \A i \in 1..(n - a) : b[i] = s[a + i]
  BY <1>1, <1>4, PieceAt
<1>6. PICK x : x = b \o t
  OBVIOUS
<1>7. /\ x \in Seq(S) /\ Len(x) = (n - a) + k
      /\ \A i \in 1..(n - a) : x[i] = b[i]
      /\ \A i \in 1..k : x[(n - a) + i] = t[i]
  <2>1. PICK c \in Nat : c = n - a
    BY <1>1
  <2>2. Len(b) = c
    BY <1>5, <2>1
  <2>3. /\ x \in Seq(S) /\ Len(x) = c + k
        /\ \A i \in 1..c : x[i] = b[i]
        /\ \A i \in 1..k : x[c + i] = t[i]
    <3>1. Joined(S, b, t, x)
      BY <1>5, <1>6, ConcatIs
    <3> QED
      BY <1>1, <2>2, <3>1 DEF Joined
  <2> QED
    BY <2>1, <2>3
<1>8. PICK m \in Nat : m = n + k
  OBVIOUS
<1>9. a <= m /\ a <= n /\ m <= Len(u) /\ m - a = (n - a) + k
  BY <1>1, <1>3, <1>8
<1>10. PICK y : y = SubSeq(u, a + 1, m)
  OBVIOUS
<1>11. y \in Seq(S) /\ Len(y) = m - a /\ \A i \in 1..(m - a) : y[i] = u[a + i]
  BY <1>3, <1>9, <1>10, PieceAt
<1>12. ASSUME NEW i \in 1..(m - a) PROVE x[i] = y[i]
  <2>1. CASE i <= n - a
    <3>1. i \in 1..(n - a) /\ a + i \in 1..n
      BY <1>9, <2>1
    <3> QED
      BY <1>3, <1>5, <1>7, <1>11, <3>1
  <2>2. CASE ~(i <= n - a)
    <3>1. PICK j \in 1..k : (n - a) + j = i
      <4>1. i - (n - a) \in 1..k /\ (n - a) + (i - (n - a)) = i
        BY <1>8, <1>9, <2>2
      <4> QED
        BY <4>1
    <3>2. a + i = n + j
      BY <1>9, <3>1
    <3> QED
      BY <1>3, <1>7, <1>11, <3>1, <3>2
  <2> QED
    BY <2>1, <2>2
<1>13. x = y
  BY <1>7, <1>9, <1>11, <1>12, SameSeq
<1>14. Len(s \o t) = m
  BY <1>2, <1>3, <1>8
<1> QED
  BY <1>1, <1>2, <1>4, <1>6, <1>10, <1>13, <1>14

----------------------------------------------------------------------------
(* Headers.                                                                *)

\* Headers decode_header gives.
Header == [length : 0..LENGTH_MAX, typ : Nat, flags : 0..3, id : 0..STREAMID_MAX]

\* A number below a maximum is kept by a mask, and any is brought below it.
LEMMA MaskIs ==
  ASSUME NEW v \in Nat, NEW max \in Nat
  PROVE  Mask(v, max) \in 0..max /\ (v <= max => Mask(v, max) = v)
<1>1. v % (max + 1) \in 0..max
  OBVIOUS
<1>2. ASSUME v <= max PROVE v % (max + 1) = v
  <2>1. PICK d \in Nat : d = max + 1 /\ v < d
    BY <1>2
  <2>2. (0 * d + v) % d = v /\ 0 * d + v = v
    BY <2>1, Divided
  <2> QED
    BY <2>1, <2>2
<1> QED
  BY <1>1, <1>2 DEF Mask

\* What is decoded as a header keeps the widths.
LEMMA HeaderType ==
  ASSUME NEW bs \in Seq(Bytes), Len(bs) = HdrLen
  PROVE  DecodeHeader(bs) \in Header
<1>1. WordLen \in Nat /\ HdrLen = WordLen + WordLen
  BY WordIs
<1>2. PICK a, b : a = SubSeq(bs, 1, WordLen) /\ b = SubSeq(bs, WordLen + 1, HdrLen)
  OBVIOUS
<1>3. a \in Seq(Bytes) /\ Len(a) = WordLen /\ b \in Seq(Bytes) /\ Len(b) = WordLen
  BY <1>1, <1>2
<1>4. PICK first, second : first = Value(a) /\ second = Value(b)
  OBVIOUS
<1>5. first \in Nat /\ first < Pow[WordLen] /\ second \in Nat
  BY <1>3, <1>4, ValueBound
<1>6. PICK q, low : q = first \div Byte /\ low = first % Byte
  OBVIOUS
<1>7. q \in Nat /\ low \in Nat /\ q * Byte + low = first
  BY <1>5, <1>6, ByteIs, Divides
<1>8. q \in 0..LENGTH_MAX
  <2>1. PICK p \in Nat : p = Pow[WordLen - 1] /\ Pow[WordLen] = p * Byte /\ LENGTH_MAX = p - 1
    BY WordIs
  <2>2. p <= q => p * Byte <= q * Byte
    BY <1>7, ByteIs, Products
  <2>3. PICK x, y \in Nat : x = p * Byte /\ y = q * Byte
    BY <1>7, ByteIs, Products
  <2>4. y + low = first /\ first < x /\ (p <= q => x <= y)
    BY <1>5, <1>7, <2>1, <2>2, <2>3
  <2>5. q < p
    BY <1>5, <1>7, <2>4
  <2> QED
    BY <1>7, <2>1, <2>5
<1>9. low \div Nibble \in Nat /\ low % Nibble \in Nat
  BY <1>7, ByteIs, Divides
<1>10. (low % Nibble) % 4 \in 0..3
  BY <1>9
<1>11. Mask(second, STREAMID_MAX) \in 0..STREAMID_MAX
  BY <1>5, WordIs, MaskIs
<1>12. DecodeHeader(bs) =
         [length |-> q, typ |-> low \div Nibble, flags |-> (low % Nibble) % 4,
          id |-> Mask(second, STREAMID_MAX)]
  BY <1>2, <1>4, <1>6 DEF DecodeHeader
<1> QED
  BY <1>8, <1>9, <1>10, <1>11, <1>12 DEF Header

\* What the header of a frame may hold.
Fits(f) == f.length \in 0..LENGTH_MAX /\ f.typ \in 0..3 /\ f.flags \in 0..3 /\ f.id \in 0..STREAMID_MAX

\* The first word of a header.
LEMMA FirstWord ==
  ASSUME NEW l \in 0..LENGTH_MAX, NEW t \in 0..3, NEW g \in 0..3, NEW n,
         n = l * Byte + t * Nibble + g
  PROVE  /\ n \in 0..WordMax /\ n \div Byte = l
         /\ (n % Byte) \div Nibble = t /\ (n % Byte) % Nibble = g
<1>1. LENGTH_MAX \in Nat /\ l \in Nat /\ t \in Nat /\ g \in Nat
  BY WordIs
<1>2. PICK r \in Nat : r = t * Nibble + g
  BY <1>1, ByteIs, Products
<1>3. t * Nibble + Nibble <= 4 * Nibble /\ 4 * Nibble <= Byte /\ t * Nibble \in Nat /\ g < Nibble
  <2>1. t * Nibble + Nibble <= 4 * Nibble /\ t * Nibble \in Nat
    BY <1>1, ByteIs, Products
  <2>2. 4 * Nibble <= Nibble * Nibble
    BY ByteIs, Products
  <2> QED
    BY <2>1, <2>2, ByteIs DEF Byte
<1>4. r < Byte
  <2>1. PICK x, y, z \in Nat : x = t * Nibble /\ y = 4 * Nibble /\ z = Byte
    BY <1>3, ByteIs
  <2>2. x + Nibble <= y /\ y <= z /\ r = x + g
    BY <1>2, <1>3, <2>1
  <2>3. r < z
    BY <1>1, <1>3, <2>2, ByteIs
  <2> QED
    BY <2>1, <2>3
<1>5. n = l * Byte + r
  <2>1. PICK x, y \in Nat : x = l * Byte /\ y = t * Nibble
    BY <1>1, ByteIs, Products
  <2>2. n = x + y + g /\ r = y + g
    BY <1>2, <2>1
  <2>3. n = x + r
    BY <1>1, <2>2
  <2> QED
    BY <2>1, <2>3
<1>6. n \div Byte = l /\ n % Byte = r
  BY <1>1, <1>4, <1>5, ByteIs, Divided
<1>7. r \div Nibble = t /\ r % Nibble = g
  BY <1>1, <1>2, <1>3, ByteIs, Divided
<1>8. n \in 0..WordMax
  <2>1. PICK p \in Nat : p = Pow[WordLen - 1] /\ WordMax = p * Byte - 1 /\ LENGTH_MAX = p - 1
    BY WordIs
  <2>2. l < p
    BY <1>1, <2>1
  <2>3. l * Byte + Byte <= p * Byte /\ l * Byte \in Nat /\ p * Byte \in Nat
    BY <1>1, <2>2, ByteIs, Products
  <2>4. PICK x, y \in Nat : x = l * Byte /\ y = p * Byte
    BY <2>3
  <2>5. n = x + r /\ x + Byte <= y /\ WordMax = y - 1
    BY <1>5, <2>1, <2>3, <2>4
  <2> QED
    BY <1>4, <2>5, ByteIs
<1> QED
  BY <1>6, <1>7, <1>8

\* decode_header reads what encode_header wrote.
LEMMA HeaderBack ==
  ASSUME NEW f, Fits(f)
  PROVE  /\ EncodeHeader(f) \in Seq(Bytes) /\ Len(EncodeHeader(f)) = HdrLen
         /\ DecodeHeader(EncodeHeader(f)) =
              [length |-> f.length, typ |-> f.typ, flags |-> f.flags, id |-> f.id]
<1>1. PICK n, id : n = f.length * Byte + f.typ * Nibble + f.flags /\ id = f.id
  OBVIOUS
<1>2. /\ n \in 0..WordMax /\ n \div Byte = f.length
      /\ (n % Byte) \div Nibble = f.typ /\ (n % Byte) % Nibble = f.flags
  BY <1>1, FirstWord DEF Fits
<1>3. id \in 0..WordMax /\ id \in 0..STREAMID_MAX
  BY <1>1, WordIs DEF Fits
<1>4. n \in Nat /\ id \in Nat /\ WordMax \in Nat /\ WordLen \in Nat /\ HdrLen = WordLen + WordLen
  BY <1>2, <1>3, WordIs
<1>5. PICK a, b, bs : a = Word(n) /\ b = Word(id) /\ bs = a \o b
  OBVIOUS
<1>6. /\ a \in Seq(Bytes) /\ Len(a) = WordLen /\ b \in Seq(Bytes) /\ Len(b) = WordLen
      /\ Value(a) = n /\ Value(b) = id
  BY <1>2, <1>3, <1>4, <1>5, WordBytes, ValueOfWord
<1>7. bs \in Seq(Bytes) /\ Len(bs) = HdrLen
  BY <1>4, <1>5, <1>6, ConcatAt
<1>8. EncodeHeader(f) = bs
  BY <1>1, <1>5 DEF EncodeHeader
<1>9. SubSeq(bs, 1, WordLen) = a /\ SubSeq(bs, WordLen + 1, HdrLen) = b
  <2>1. Len(a) + Len(b) = HdrLen
    BY <1>4, <1>6
  <2>2. SubSeq(a \o b, 1, Len(a)) = a /\ SubSeq(a \o b, Len(a) + 1, HdrLen) = b
    BY <1>6, <2>1, PiecesOfTwo, SMTT(30)
  <2> QED
    BY <1>5, <1>6, <2>2
<1>10. Mask(id, STREAMID_MAX) = id
  BY <1>3, <1>4, WordIs, MaskIs
<1>11. f.flags % 4 = f.flags
  BY DEF Fits
<1>12. DecodeHeader(bs) =
         [length |-> n \div Byte, typ |-> (n % Byte) \div Nibble,
          flags |-> ((n % Byte) % Nibble) % 4, id |-> Mask(id, STREAMID_MAX)]
  BY <1>6, <1>9 DEF DecodeHeader
<1> QED
  BY <1>1, <1>2, <1>7, <1>8, <1>10, <1>11, <1>12

----------------------------------------------------------------------------
(* Frames of the session.                                                  *)

\* What a frame is made of, by its type.
IsFrame(f, l, ws, d) ==
  f = [typ |-> f.typ, flags |-> f.flags, id |-> f.id, length |-> l, words |-> ws, data |-> d,
       valid |-> TRUE]

\* Data cut to what a header can say is cut already.
LEMMA CutData ==
  ASSUME NEW d \in Seq(Bytes), NEW l, l = Clamp(Len(d), LENGTH_MAX), d = SubSeq(d, 1, l)
  PROVE  l = Len(d) /\ l \in 0..LENGTH_MAX
<1>1. LENGTH_MAX \in Nat /\ Len(d) \in Nat
  BY WordIs
<1>2. l \in 0..LENGTH_MAX /\ l <= Len(d)
  <2>1. \A n, max \in Nat : Clamp(n, max) \in 0..max /\ Clamp(n, max) <= n
    BY DEF Clamp
  <2> QED
    BY <1>1, <2>1
<1>3. Len(SubSeq(d, 1, l)) = l
  BY <1>1, <1>2
<1> QED
  BY <1>2, <1>3

\* What a frame of data is made of.
LEMMA OwnData ==
  ASSUME NEW f, OwnFrame(f), f.typ = Data
  PROVE  /\ f.data \in Seq(Bytes) /\ IsFrame(f, Len(f.data), <<>>, f.data)
         /\ f.length = Len(f.data) /\ f.length \in 0..LENGTH_MAX
         /\ f.id \in 1..STREAMID_MAX /\ f.flags \in 0..3
<1>1. f.data \in Seq(Bytes) /\ f.id \in 1..STREAMID_MAX /\ f.flags \in 0..3
  BY DEF OwnFrame, Rst, Data, WndInc, GoAway, SYN, FIN
<1>2. f = DataFrame(f.id, f.flags, f.data)
  BY DEF OwnFrame, Rst, Data, WndInc, GoAway
<1>3. PICK d, l : d = f.data /\ l = Clamp(Len(d), LENGTH_MAX)
  OBVIOUS
<1>4. f = Frame(Data, f.flags, f.id, l, <<>>, SubSeq(d, 1, l))
  BY <1>2, <1>3 DEF DataFrame
<1>5. d = SubSeq(d, 1, l) /\ f.length = l
  BY <1>3, <1>4 DEF Frame
<1>6. l = Len(d) /\ l \in 0..LENGTH_MAX
  BY <1>1, <1>3, <1>5, CutData
<1>7. IsFrame(f, l, <<>>, d)
  BY <1>4, <1>5 DEF IsFrame, Frame
<1> QED
  BY <1>1, <1>3, <1>5, <1>6, <1>7

\* What a reset or a window increment is made of.
LEMMA OwnWord ==
  ASSUME NEW f, OwnFrame(f), f.typ \in {Rst, WndInc}
  PROVE  /\ IsFrame(f, WordLen, <<f.words[1]>>, <<>>) /\ f.length = WordLen
         /\ f.typ = WndInc => f.words[1] \in 0..WNDINC_MAX
         /\ f.typ = Rst => f.words[1] \in Errors
         /\ f.id \in 1..STREAMID_MAX /\ f.flags \in 0..3
<1>1. f.id \in 1..STREAMID_MAX /\ f.flags \in 0..3
  BY DEF OwnFrame, Rst, Data, WndInc, GoAway, SYN, FIN
<1>2. CASE f.typ = WndInc
  <2>1. f.words[1] \in 0..WNDINC_MAX /\ f = WndIncFrame(f.id, f.flags, f.words[1])
    BY <1>2 DEF OwnFrame, Rst, Data, WndInc, GoAway
  <2>2. IsFrame(f, WordLen, <<f.words[1]>>, <<>>) /\ f.length = WordLen
    BY <2>1 DEF WndIncFrame, Frame, IsFrame
  <2> QED
    BY <1>1, <1>2, <2>1, <2>2 DEF WndInc, Rst
<1>3. CASE f.typ = Rst
  <2>1. f.words[1] \in Errors /\ f = RstFrame(f.id, f.words[1])
    BY <1>3 DEF OwnFrame, Rst, Data, WndInc, GoAway
  <2>2. IsFrame(f, WordLen, <<f.words[1]>>, <<>>) /\ f.length = WordLen
    BY <2>1, SMTT(30) DEF RstFrame, Frame, IsFrame
  <2> QED
    BY <1>1, <1>3, <2>1, <2>2 DEF WndInc, Rst
<1> QED
  BY <1>2, <1>3

\* What a GOAWAY is made of.
LEMMA OwnGoAway ==
  ASSUME NEW f, OwnFrame(f), f.typ = GoAway
  PROVE  /\ f.data \in Seq(Bytes) /\ IsFrame(f, Len(f.data), <<f.words[1], f.words[2]>>, f.data)
         /\ f.length = Len(f.data) /\ f.length \in 0..LENGTH_MAX
         /\ f.words[1] \in 0..STREAMID_MAX /\ f.words[2] \in Errors
         /\ f.id = 0 /\ f.flags = 0
<1>1. /\ f.data \in Seq(Bytes) /\ f.words[1] \in 0..STREAMID_MAX /\ f.words[2] \in Errors
      /\ f = GoAwayFrame(f.words[1], f.words[2], f.data)
  BY DEF OwnFrame, Rst, Data, WndInc, GoAway
<1>2. PICK d, l, a, b : /\ d = f.data /\ l = Clamp(Len(d), LENGTH_MAX)
                        /\ a = f.words[1] /\ b = f.words[2]
  OBVIOUS
<1>3. PICK ws : ws = <<a, b>> /\ f = Frame(GoAway, 0, 0, l, ws, SubSeq(d, 1, l))
  BY <1>1, <1>2 DEF GoAwayFrame
<1>4. d = SubSeq(d, 1, l) /\ f.length = l /\ f.id = 0 /\ f.flags = 0
  <2>1. PICK e : e = SubSeq(d, 1, l)
    OBVIOUS
  <2>2. f = Frame(GoAway, 0, 0, l, ws, e)
    BY <1>3, <2>1
  <2>3. f.data = e /\ f.length = l /\ f.id = 0 /\ f.flags = 0
    BY <2>2 DEF Frame
  <2> QED
    BY <1>2, <2>1, <2>3
<1>5. l = Len(d) /\ l \in 0..LENGTH_MAX
  BY <1>1, <1>2, <1>4, CutData
<1>6. IsFrame(f, l, ws, d)
  BY <1>3, <1>4 DEF IsFrame, Frame
<1> QED
  BY <1>1, <1>2, <1>3, <1>4, <1>5, <1>6, Zenon

\* Errors fit a word, and keep their code.
LEMMA ErrorIs ==
  ASSUME NEW e \in Errors
  PROVE  e \in 0..WordMax /\ ErrorOf(e) = e
BY WordIs, CodecAssumption, SMTT(30) DEF Errors, ErrorOf

\* The header of every frame fits, and its body is bytes.
LEMMA OwnFits ==
  ASSUME NEW f, OwnFrame(f)
  PROVE  /\ f.typ \in {Rst, Data, WndInc, GoAway} /\ Fits(f) /\ f.valid = TRUE
         /\ EncodeBody(f) \in Seq(Bytes)
         /\ f.typ # GoAway => Len(EncodeBody(f)) = f.length
<1>1. f.typ \in {Rst, Data, WndInc, GoAway}
  BY DEF OwnFrame
<1>2. WordMax \in Nat /\ WordLen \in 0..LENGTH_MAX /\ STREAMID_MAX \in Nat /\ LENGTH_MAX \in Nat
      /\ STREAMID_MAX <= WordMax /\ WNDINC_MAX \in Nat /\ WNDINC_MAX <= WordMax
  BY WordIs
<1>3. CASE f.typ = Data
  <2>1. Fits(f) /\ f.data \in Seq(Bytes) /\ f.length = Len(f.data) /\ f.valid = TRUE
    BY <1>2, <1>3, OwnData DEF Fits, Data, IsFrame
  <2>2. EncodeBody(f) = f.data
    BY <1>3 DEF EncodeBody, Rst, Data, WndInc, GoAway
  <2> QED
    BY <1>1, <2>1, <2>2
<1>4. CASE f.typ \in {Rst, WndInc}
  <2>1. /\ Fits(f) /\ f.length = WordLen /\ f.valid = TRUE
        /\ f.words[1] \in Errors \/ f.words[1] \in 0..WNDINC_MAX
    BY <1>2, <1>4, OwnWord DEF Fits, Rst, WndInc, IsFrame
  <2>2. f.words[1] \in Nat
    BY <1>2, <2>1, ErrorIs
  <2>3. EncodeBody(f) = Word(f.words[1])
    BY <1>4 DEF EncodeBody, Rst, Data, WndInc, GoAway
  <2> QED
    BY <1>1, <2>1, <2>2, <2>3, WordBytes
<1>5. CASE f.typ = GoAway
  <2>1. /\ Fits(f) /\ f.data \in Seq(Bytes) /\ f.valid = TRUE
        /\ f.words[1] \in 0..STREAMID_MAX /\ f.words[2] \in Errors
    BY <1>2, <1>5, OwnGoAway DEF Fits, GoAway, IsFrame
  <2>2. f.words[1] \in Nat /\ f.words[2] \in Nat
    BY <1>2, <2>1, ErrorIs
  <2>3. EncodeBody(f) = Word(f.words[1]) \o Word(f.words[2]) \o f.data
    <3>1. f.typ \notin {Rst, WndInc}
      BY <1>5 DEF Rst, WndInc, GoAway
    <3> QED
      BY <1>5, <3>1 DEF EncodeBody
  <2>4. PICK a, b \in Seq(Bytes) : a = Word(f.words[1]) /\ b = Word(f.words[2])
    BY <2>2, WordBytes
  <2>5. a \o b \o f.data \in Seq(Bytes)
    BY <2>1
  <2> QED
    BY <1>1, <1>5, <2>1, <2>3, <2>4, <2>5
<1> QED
  BY <1>1, <1>3, <1>4, <1>5

----------------------------------------------------------------------------
(* The decoder.                                                            *)

\* Frames decode_frame gives.
Decoded == {DecodeFrame(h, bs) : h \in Header, bs \in Seq(Bytes)}

\* The bytes of s from a to b are the frame g, with its header.
IsCut(s, a, b, g) ==
  LET at == a + HdrLen
      h == DecodeHeader(SubSeq(s, a + 1, at))
  IN at <= b /\ b <= Len(s) /\ b = at + h.length /\ g = DecodeFrame(h, SubSeq(s, at + 1, b))

\* Types.
CodecTypes ==
  /\ peer \in {"own", "foreign"}
  /\ sent \in Seq(Own \cup Foreign) /\ Len(sent) <= MaxFrames
  /\ refused \in Seq(Own) /\ Len(refused) <= 1
  /\ wire \in Seq(Bytes) /\ arrived \in Seq(Bytes) /\ buf \in Seq(Bytes)
  /\ header \in Seq(Header) /\ Len(header) <= 1
  /\ got \in Seq(Decoded) /\ cuts \in Seq(Nat) /\ Len(cuts) = Len(got) + 1

\* The buffer is what has arrived behind the last cut and the header, and the
\* header is that of the bytes behind the last cut.
At == cuts[Len(cuts)] + (IF header = <<>> THEN 0 ELSE HdrLen)
BufferInv ==
  /\ At <= Len(arrived) /\ buf = SubSeq(arrived, At + 1, Len(arrived))
  /\ header # <<>> => header[1] = DecodeHeader(SubSeq(arrived, cuts[Len(cuts)] + 1, At))
\* Every frame decoded is what its bytes say.
CutsInv == \A i \in 1..Len(got) : IsCut(arrived, cuts[i], cuts[i + 1], got[i])

\* The inductive invariant of the decoder.
DecodeInv == CodecTypes /\ BufferInv /\ CutsInv

\* Frames that are decoded keep the widths, and have the words that are read.
LEMMA DecodedIs ==
  ASSUME NEW g \in Decoded
  PROVE  /\ g.id <= STREAMID_MAX /\ g.length <= LENGTH_MAX
         /\ g.valid => g.length >= WordsOf(g.typ) * WordLen
<1>1. PICK h \in Header, bs \in Seq(Bytes) : g = DecodeFrame(h, bs)
  BY DEF Decoded
<1>2. g.id = h.id /\ g.length = h.length /\ g.typ = h.typ /\ g.valid = Valid(h)
  BY <1>1 DEF DecodeFrame
<1>3. h.id <= STREAMID_MAX /\ h.length <= LENGTH_MAX /\ h.length \in Nat /\ h.typ \in Nat
  BY WordIs DEF Header
<1>4. ASSUME Valid(h) PROVE h.length >= WordsOf(h.typ) * WordLen
  <2>1. WordLen \in Nat
    BY WordIs
  <2>2. \/ h.typ \in {Rst, WndInc} /\ h.length = WordLen
        \/ h.typ = Data
        \/ h.typ = GoAway /\ h.length >= 2 * WordLen
    BY <1>4 DEF Valid
  <2>3. CASE h.typ \in {Rst, WndInc} /\ h.length = WordLen
    <3>1. WordsOf(h.typ) = 1
      BY <2>3 DEF WordsOf, Rst, WndInc, Data, GoAway
    <3> QED
      BY <2>1, <2>3, <3>1
  <2>4. CASE h.typ = Data
    <3>1. WordsOf(h.typ) = 0
      BY <2>4 DEF WordsOf, Data, GoAway
    <3> QED
      BY <1>3, <2>1, <3>1
  <2>5. CASE h.typ = GoAway /\ h.length >= 2 * WordLen
    <3>1. WordsOf(h.typ) = 2
      BY <2>5 DEF WordsOf, Data, GoAway
    <3> QED
      BY <2>1, <2>5, <3>1
  <2> QED
    BY <2>2, <2>3, <2>4, <2>5
<1> QED
  BY <1>2, <1>3, <1>4

\* The invariant says what is wanted of the decoder.
LEMMA InvDecodes == DecodeInv => DecodesAlike
<1> SUFFICES ASSUME DecodeInv PROVE DecodesAlike
  OBVIOUS
<1>1. CodecTypes /\ CutsInv
  BY DEF DecodeInv
<1>2. \A i \in 1..Len(got) : got[i] \in Decoded
  BY <1>1 DEF CodecTypes
<1>3. TypeOK
  BY <1>1, <1>2, DecodedIs DEF TypeOK, CodecTypes
<1>4. BodiesSuffice
  BY <1>2, DecodedIs DEF BodiesSuffice
<1>5. CutFree
  BY <1>1 DEF CutFree, CutsInv, IsCut
<1> QED
  BY <1>3, <1>4, <1>5 DEF DecodesAlike

\* At the start nothing has arrived.
LEMMA InitDecodes == Init => DecodeInv
<1> SUFFICES ASSUME Init PROVE DecodeInv
  OBVIOUS
<1>1. /\ peer \in {"own", "foreign"} /\ sent = <<>> /\ refused = <<>> /\ wire = <<>>
      /\ arrived = <<>> /\ buf = <<>> /\ header = <<>> /\ got = <<>> /\ cuts = <<0>>
  BY DEF Init
<1>2. Len(cuts) = 1 /\ cuts[1] = 0 /\ cuts \in Seq(Nat) /\ Len(got) = 0 /\ Len(arrived) = 0
  BY <1>1
<1>3. CodecTypes
  BY <1>1, <1>2, CodecAssumption DEF CodecTypes
<1>4. At = 0
  BY <1>1, <1>2 DEF At
<1>5. BufferInv
  BY <1>1, <1>2, <1>4 DEF BufferInv
<1>6. CutsInv
  BY <1>2 DEF CutsInv
<1> QED
  BY <1>3, <1>5, <1>6 DEF DecodeInv

\* A frame that is cut out stays so when more arrives.
LEMMA CutKept ==
  ASSUME NEW s \in Seq(Bytes), NEW t \in Seq(Bytes), NEW a \in Nat, NEW b \in Nat, NEW g,
         IsCut(s, a, b, g)
  PROVE  IsCut(s \o t, a, b, g)
<1>1. HdrLen \in Nat
  BY WordIs
<1>2. PICK at \in Nat : at = a + HdrLen
  BY <1>1
<1>3. PICK h : h = DecodeHeader(SubSeq(s, a + 1, at))
  OBVIOUS
<1>4. /\ a <= at /\ at <= b /\ b <= Len(s) /\ b = at + h.length
      /\ g = DecodeFrame(h, SubSeq(s, at + 1, b))
  BY <1>1, <1>2, <1>3 DEF IsCut
<1>5. SubSeq(s \o t, a + 1, at) = SubSeq(s, a + 1, at) /\ SubSeq(s \o t, at + 1, b) = SubSeq(s, at + 1, b)
  <2>1. at <= Len(s)
    BY <1>4
  <2> QED
    BY <1>4, <2>1, PieceKept
<1>6. b <= Len(s \o t)
  BY <1>4, ConcatAt
<1> QED
  BY <1>2, <1>3, <1>4, <1>5, <1>6 DEF IsCut

\* Frames and bytes are sent.
LEMMA EncodeDecodes ==
  ASSUME DecodeInv, NEW f \in Own, Encode(f)
  PROVE  DecodeInv'
<1>1. CodecTypes /\ BufferInv /\ CutsInv
  BY DEF DecodeInv
<1>2. UNCHANGED <<peer, arrived, buf, header, got, cuts>>
  BY DEF Encode
<1>3. OwnFrame(f)
  BY OwnAssumption
<1>4. EncodeHeader(f) \in Seq(Bytes) /\ EncodeBody(f) \in Seq(Bytes)
  BY <1>3, OwnFits, HeaderBack
<1>5. sent' \in Seq(Own \cup Foreign) /\ Len(sent') <= MaxFrames
  <2>1. CASE sent' = sent
    BY <1>1, <2>1 DEF CodecTypes
  <2>2. CASE sent' = Append(sent, f) /\ Len(sent) < MaxFrames
    <3>1. f \in Own \cup Foreign /\ sent \in Seq(Own \cup Foreign) /\ MaxFrames \in Nat
      BY <1>1, CodecAssumption DEF CodecTypes
    <3> QED
      BY <2>2, <3>1
  <2> QED
    BY <2>1, <2>2 DEF Encode
<1>6. refused' \in Seq(Own) /\ Len(refused') <= 1
  <2>1. CASE refused' = refused
    BY <1>1, <2>1 DEF CodecTypes
  <2>2. CASE refused' = <<f>>
    BY <2>2
  <2> QED
    BY <2>1, <2>2 DEF Encode
<1>7. wire' \in Seq(Bytes)
  <2>1. CASE wire' = wire
    BY <1>1, <2>1 DEF CodecTypes
  <2>2. CASE wire' = wire \o EncodeHeader(f) \o EncodeBody(f)
    <3>1. PICK a, b \in Seq(Bytes) : a = EncodeHeader(f) /\ b = EncodeBody(f)
      BY <1>4
    <3>2. wire \o a \o b \in Seq(Bytes)
      BY <1>1 DEF CodecTypes
    <3> QED
      BY <2>2, <3>1, <3>2
  <2> QED
    BY <2>1, <2>2 DEF Encode
<1>8. CodecTypes'
  BY <1>1, <1>2, <1>5, <1>6, <1>7 DEF CodecTypes
<1>9. BufferInv' /\ CutsInv'
  BY <1>1, <1>2 DEF BufferInv, CutsInv, At, IsCut
<1> QED
  BY <1>8, <1>9 DEF DecodeInv

\* The same for the bytes of another codec.
LEMMA SendDecodes ==
  ASSUME DecodeInv, NEW bs \in Foreign, Send(bs)
  PROVE  DecodeInv'
<1>1. CodecTypes /\ BufferInv /\ CutsInv
  BY DEF DecodeInv
<1>2. /\ UNCHANGED <<peer, refused, arrived, buf, header, got, cuts>>
      /\ Len(sent) < MaxFrames /\ sent' = Append(sent, bs) /\ wire' = wire \o bs
  BY DEF Send
<1>3. bs \in Seq(Bytes) /\ MaxFrames \in Nat /\ bs \in Own \cup Foreign
  BY CodecAssumption
<1>4. sent' \in Seq(Own \cup Foreign) /\ Len(sent') <= MaxFrames
  BY <1>1, <1>2, <1>3 DEF CodecTypes
<1>5. wire' \in Seq(Bytes)
  BY <1>1, <1>2, <1>3 DEF CodecTypes
<1>6. CodecTypes'
  BY <1>1, <1>2, <1>4, <1>5 DEF CodecTypes
<1>7. BufferInv' /\ CutsInv'
  BY <1>1, <1>2 DEF BufferInv, CutsInv, At, IsCut
<1> QED
  BY <1>6, <1>7 DEF DecodeInv

\* Where the decoder is.
LEMMA AtIs ==
  ASSUME CodecTypes
  PROVE  /\ Len(cuts) \in Nat /\ Len(cuts) >= 1 /\ cuts[Len(cuts)] \in Nat /\ At \in Nat
         /\ HdrLen \in Nat /\ cuts[Len(cuts)] <= At /\ Len(got) \in Nat
         /\ header = <<>> => At = cuts[Len(cuts)]
         /\ header # <<>> =>
              /\ At = cuts[Len(cuts)] + HdrLen /\ Head(header) = header[1] /\ header[1] \in Header
<1>1. Len(got) \in Nat /\ Len(cuts) \in Nat /\ Len(cuts) >= 1 /\ HdrLen \in Nat
  <2>1. PICK n \in Nat : Len(got) = n /\ Len(cuts) = n + 1
    BY DEF CodecTypes
  <2>2. HdrLen \in Nat
    BY WordIs
  <2> QED
    BY <2>1, <2>2
<1>2. cuts[Len(cuts)] \in Nat
  BY <1>1 DEF CodecTypes
<1>3. header # <<>> => Head(header) = header[1] /\ header[1] \in Header
  BY DEF CodecTypes
<1> QED
  BY <1>1, <1>2, <1>3 DEF At

\* Bytes arrive behind those in the buffer.
LEMMA ArriveDecodes ==
  ASSUME DecodeInv, NEW n \in 1..Len(wire), Arrive(n)
  PROVE  DecodeInv'
<1>1. CodecTypes /\ BufferInv /\ CutsInv
  BY DEF DecodeInv
<1>2. PICK t : t = SubSeq(wire, 1, n)
  OBVIOUS
<1>3. /\ UNCHANGED <<peer, sent, refused, header, got, cuts>>
      /\ arrived' = arrived \o t /\ buf' = buf \o t /\ wire' = SubSeq(wire, n + 1, Len(wire))
  BY <1>2 DEF Arrive
<1>4. t \in Seq(Bytes) /\ wire' \in Seq(Bytes)
  <2>1. wire \in Seq(Bytes) /\ n \in 0..Len(wire)
    BY <1>1 DEF CodecTypes
  <2> QED
    BY <1>2, <1>3, <2>1, SplitAt
<1>5. CodecTypes'
  BY <1>1, <1>3, <1>4 DEF CodecTypes
<1>6. At' = At
  BY <1>3 DEF At
<1>7. arrived \in Seq(Bytes) /\ arrived' \in Seq(Bytes) /\ Len(arrived') = Len(arrived) + Len(t)
      /\ Len(arrived) \in Nat /\ Len(t) \in Nat
  BY <1>1, <1>3, <1>4, ConcatAt DEF CodecTypes
<1>8. BufferInv'
  <2>1. At <= Len(arrived) /\ buf = SubSeq(arrived, At + 1, Len(arrived)) /\ At \in Nat
    BY <1>1, AtIs DEF BufferInv
  <2>2. SubSeq(arrived, At + 1, Len(arrived)) \o t = SubSeq(arrived \o t, At + 1, Len(arrived \o t))
    BY <1>4, <1>7, <2>1, BehindBoth
  <2>3. At' <= Len(arrived') /\ buf' = SubSeq(arrived', At' + 1, Len(arrived'))
    <3>1. At <= Len(arrived) + Len(t)
      BY <1>7, <2>1
    <3>2. buf' = SubSeq(arrived', At + 1, Len(arrived'))
      BY <1>3, <2>1, <2>2
    <3> QED
      BY <1>6, <1>7, <3>1, <3>2
  <2>4. ASSUME header # <<>>
        PROVE  header[1] = DecodeHeader(SubSeq(arrived', cuts[Len(cuts)] + 1, At))
    <3>1. header[1] = DecodeHeader(SubSeq(arrived, cuts[Len(cuts)] + 1, At))
      BY <1>1, <2>4 DEF BufferInv
    <3>2. PICK a, b \in Nat : a = cuts[Len(cuts)] /\ b = At /\ a <= b /\ b <= Len(arrived)
      BY <1>1, <2>1, AtIs
    <3>3. SubSeq(arrived \o t, a + 1, b) = SubSeq(arrived, a + 1, b)
      <4>1. PICK s : s = arrived
        OBVIOUS
      <4>2. s \in Seq(Bytes) /\ b <= Len(s)
        BY <1>7, <3>2, <4>1
      <4>3. t \in Seq(Bytes) /\ a <= b
        BY <1>4, <3>2
      <4>4. SubSeq(s \o t, a + 1, b) = SubSeq(s, a + 1, b)
        BY <4>2, <4>3, PieceKept
      <4> QED
        BY <4>1, <4>4
    <3> QED
      BY <1>3, <3>1, <3>2, <3>3
  <2> QED
    BY <1>3, <1>6, <2>3, <2>4 DEF BufferInv
<1>9. CutsInv'
  <2>1. ASSUME NEW i \in 1..Len(got) PROVE IsCut(arrived', cuts[i], cuts[i + 1], got[i])
    <3>1. PICK a, b \in Nat : a = cuts[i] /\ b = cuts[i + 1]
      BY <1>1, SMTT(30) DEF CodecTypes
    <3>2. PICK g, s : g = got[i] /\ s = arrived
      OBVIOUS
    <3>3. IsCut(s, a, b, g)
      BY <1>1, <3>1, <3>2 DEF CutsInv
    <3>4. IsCut(s \o t, a, b, g)
      BY <1>4, <1>7, <3>2, <3>3, CutKept
    <3> QED
      BY <1>3, <3>1, <3>2, <3>4
  <2> QED
    BY <1>3, <2>1 DEF CutsInv, IsCut
<1> QED
  BY <1>5, <1>8, <1>9 DEF DecodeInv

\* What is taken off the front of the buffer, and what stays.
LEMMA TakenOff ==
  ASSUME NEW s \in Seq(Bytes), NEW a \in Nat, a <= Len(s), NEW p, p = SubSeq(s, a + 1, Len(s)),
         NEW n \in Nat, n <= Len(p)
  PROVE  /\ a + n <= Len(s)
         /\ SubSeq(p, 1, n) = SubSeq(s, a + 1, a + n)
         /\ SubSeq(p, 1, n) \in Seq(Bytes) /\ Len(SubSeq(p, 1, n)) = n
         /\ SubSeq(p, n + 1, Len(p)) = SubSeq(s, (a + n) + 1, Len(s))
         /\ SubSeq(p, n + 1, Len(p)) \in Seq(Bytes)
<1>1. PICK m \in Nat : Len(s) = m /\ a <= m
  OBVIOUS
<1>2. p = SubSeq(s, a + 1, m)
  BY <1>1
<1>3. p \in Seq(Bytes) /\ Len(p) = m - a
  BY <1>1, <1>2, PieceAt
<1>4. PICK k \in Nat : k = m - a /\ n <= k /\ a + k = m /\ a + 0 = a /\ k <= m - a /\ n <= m - a /\ 0 <= n
  BY <1>1, <1>3
<1>5. SubSeq(SubSeq(s, a + 1, m), 0 + 1, n) = SubSeq(s, (a + 0) + 1, a + n)
  <2>1. 0 \in Nat /\ m <= Len(s)
    BY <1>1
  <2> QED
    BY <1>1, <1>4, <2>1, PieceOfPiece
<1>6. SubSeq(SubSeq(s, a + 1, m), n + 1, k) = SubSeq(s, (a + n) + 1, a + k)
  <2>1. m <= Len(s)
    BY <1>1
  <2> QED
    BY <1>1, <1>4, <2>1, PieceOfPiece
<1>7. SubSeq(p, 1, n) = SubSeq(s, a + 1, a + n)
  <2>1. 0 + 1 = 1
    OBVIOUS
  <2> QED
    BY <1>2, <1>4, <1>5, <2>1
<1>8. SubSeq(p, n + 1, Len(p)) = SubSeq(s, (a + n) + 1, Len(s))
  BY <1>1, <1>2, <1>3, <1>4, <1>6
<1>9. n \in 0..Len(p)
  BY <1>3, <1>4
<1>10. /\ SubSeq(p, 1, n) \in Seq(Bytes) /\ Len(SubSeq(p, 1, n)) = n
       /\ SubSeq(p, n + 1, Len(p)) \in Seq(Bytes)
  BY <1>3, <1>9, SplitAt
<1>11. a + n <= Len(s)
  BY <1>1, <1>4
<1> QED
  BY <1>7, <1>8, <1>10, <1>11

\* The header is taken.
LEMMA HeadDecodes ==
  ASSUME DecodeInv, DecodeHead
  PROVE  DecodeInv'
<1>1. CodecTypes /\ BufferInv /\ CutsInv
  BY DEF DecodeInv
<1>2. /\ header = <<>> /\ Len(buf) >= HdrLen
      /\ header' = <<DecodeHeader(SubSeq(buf, 1, HdrLen))>>
      /\ buf' = SubSeq(buf, HdrLen + 1, Len(buf))
      /\ UNCHANGED <<peer, sent, refused, wire, arrived, got, cuts>>
  BY DEF DecodeHead, TakeHeader
<1>3. PICK c, n \in Nat : c = cuts[Len(cuts)] /\ n = HdrLen /\ At = c
  BY <1>1, <1>2, AtIs
<1>4. PICK s, p \in Seq(Bytes) : s = arrived /\ p = buf
  BY <1>1 DEF CodecTypes
<1>5. c <= Len(s) /\ p = SubSeq(s, c + 1, Len(s)) /\ n <= Len(p)
  BY <1>1, <1>2, <1>3, <1>4 DEF BufferInv
<1>6. /\ c + n <= Len(s)
      /\ SubSeq(p, 1, n) = SubSeq(s, c + 1, c + n)
      /\ SubSeq(p, 1, n) \in Seq(Bytes) /\ Len(SubSeq(p, 1, n)) = n
      /\ SubSeq(p, n + 1, Len(p)) = SubSeq(s, (c + n) + 1, Len(s))
      /\ SubSeq(p, n + 1, Len(p)) \in Seq(Bytes)
  BY <1>5, TakenOff
<1>7. PICK h \in Header : h = DecodeHeader(SubSeq(p, 1, n))
  BY <1>3, <1>6, HeaderType
<1>8. header' = <<h>> /\ buf' = SubSeq(p, n + 1, Len(p))
  BY <1>2, <1>3, <1>4, <1>7
<1>9. CodecTypes'
  <2>1. header' \in Seq(Header) /\ Len(header') <= 1
    BY <1>8
  <2> QED
    BY <1>1, <1>2, <1>6, <1>8, <2>1 DEF CodecTypes
<1>10. At' = c + n
  <2>1. header' # <<>> /\ cuts'[Len(cuts')] = c
    BY <1>2, <1>3, <1>8
  <2> QED
    BY <1>3, <2>1 DEF At, HdrLen
<1>11. BufferInv'
  <2>1. At' <= Len(arrived') /\ buf' = SubSeq(arrived', At' + 1, Len(arrived'))
    BY <1>2, <1>4, <1>6, <1>8, <1>10
  <2>2. header'[1] = DecodeHeader(SubSeq(arrived', cuts'[Len(cuts')] + 1, At'))
    <3>1. header'[1] = h
      BY <1>8
    <3> QED
      BY <1>2, <1>3, <1>4, <1>6, <1>7, <1>10, <3>1
  <2> QED
    BY <2>1, <2>2 DEF BufferInv
<1>12. CutsInv'
  BY <1>1, <1>2 DEF CutsInv, IsCut
<1> QED
  BY <1>9, <1>11, <1>12 DEF DecodeInv

\* The body is taken.
LEMMA BodyDecodes ==
  ASSUME DecodeInv, DecodeBody
  PROVE  DecodeInv'
<1>1. CodecTypes /\ BufferInv /\ CutsInv
  BY DEF DecodeInv
<1>2. header # <<>>
  BY DEF DecodeBody, Complete
<1>3. PICK h \in Header : h = Head(header) /\ h = header[1]
  BY <1>1, <1>2, AtIs
<1>4. PICK l \in Nat : l = h.length
  BY WordIs DEF Header
<1>5. /\ Len(buf) >= l
      /\ got' = Append(got, DecodeFrame(h, SubSeq(buf, 1, l)))
      /\ buf' = SubSeq(buf, l + 1, Len(buf))
      /\ cuts' = Append(cuts, cuts[Len(cuts)] + HdrLen + l)
      /\ header' = <<>>
      /\ UNCHANGED <<peer, sent, refused, wire, arrived>>
  BY <1>3, <1>4 DEF DecodeBody, Complete
<1>6. PICK c, at \in Nat : c = cuts[Len(cuts)] /\ at = c + HdrLen /\ At = at /\ c <= at
  BY <1>1, <1>2, AtIs
<1>7. PICK s, p \in Seq(Bytes) : s = arrived /\ p = buf
  BY <1>1 DEF CodecTypes
<1>8. at <= Len(s) /\ p = SubSeq(s, at + 1, Len(s)) /\ l <= Len(p) /\ h = DecodeHeader(SubSeq(s, c + 1, at))
  BY <1>1, <1>2, <1>3, <1>5, <1>6, <1>7 DEF BufferInv
<1>9. /\ at + l <= Len(s)
      /\ SubSeq(p, 1, l) = SubSeq(s, at + 1, at + l)
      /\ SubSeq(p, 1, l) \in Seq(Bytes)
      /\ SubSeq(p, l + 1, Len(p)) = SubSeq(s, (at + l) + 1, Len(s))
      /\ SubSeq(p, l + 1, Len(p)) \in Seq(Bytes)
  BY <1>8, TakenOff
<1>10. PICK b \in Nat : b = at + l /\ at <= b
  OBVIOUS
<1>11. PICK g \in Decoded : g = DecodeFrame(h, SubSeq(p, 1, l))
  <2>1. PICK q \in Seq(Bytes) : q = SubSeq(p, 1, l)
    BY <1>9
  <2>2. DecodeFrame(h, q) \in Decoded
    BY DEF Decoded
  <2> QED
    BY <2>1, <2>2
<1>12. got' = Append(got, g) /\ cuts' = Append(cuts, b) /\ buf' = SubSeq(p, l + 1, Len(p))
  BY <1>5, <1>6, <1>7, <1>10, <1>11
<1>13. PICK n \in Nat : Len(got) = n /\ Len(cuts) = n + 1 /\ got \in Seq(Decoded) /\ cuts \in Seq(Nat)
  BY <1>1 DEF CodecTypes
<1>14. /\ got' \in Seq(Decoded) /\ Len(got') = n + 1 /\ got'[n + 1] = g
       /\ \A i \in 1..n : got'[i] = got[i]
  BY <1>12, <1>13
<1>15. /\ cuts' \in Seq(Nat) /\ Len(cuts') = n + 2 /\ cuts'[n + 2] = b
       /\ \A i \in 1..(n + 1) : cuts'[i] = cuts[i]
  BY <1>12, <1>13
<1>16. CodecTypes'
  <2>1. header' \in Seq(Header) /\ Len(header') <= 1 /\ Len(cuts') = Len(got') + 1
    BY <1>5, <1>14, <1>15, SMTT(30)
  <2> QED
    BY <1>1, <1>5, <1>9, <1>12, <1>14, <1>15, <2>1 DEF CodecTypes
<1>17. At' = b
  <2>1. header' = <<>> /\ cuts'[Len(cuts')] = b
    BY <1>5, <1>15
  <2> QED
    BY <2>1 DEF At
<1>18. BufferInv'
  BY <1>5, <1>7, <1>9, <1>10, <1>12, <1>17 DEF BufferInv
<1>19. IsCut(s, c, b, g)
  BY <1>4, <1>6, <1>8, <1>9, <1>10, <1>11 DEF IsCut
<1>20. CutsInv'
  <2>1. ASSUME NEW i \in 1..Len(got') PROVE IsCut(s, cuts'[i], cuts'[i + 1], got'[i])
    <3>1. CASE i = n + 1
      <4>1. cuts'[i] = c /\ cuts'[i + 1] = b /\ got'[i] = g
        BY <1>6, <1>13, <1>14, <1>15, <3>1
      <4> QED
        BY <1>19, <4>1
    <3>2. CASE i # n + 1
      <4>1. i \in 1..n /\ i + 1 \in 1..(n + 1) /\ i \in 1..(n + 1)
        BY <1>14, <3>2
      <4>2. cuts'[i] = cuts[i] /\ cuts'[i + 1] = cuts[i + 1] /\ got'[i] = got[i]
        BY <1>14, <1>15, <4>1
      <4>3. IsCut(s, cuts[i], cuts[i + 1], got[i])
        BY <1>1, <1>7, <1>13, <4>1 DEF CutsInv
      <4> QED
        BY <4>2, <4>3
    <3> QED
      BY <3>1, <3>2
  <2>2. arrived' = s
    BY <1>5, <1>7
  <2> QED
    BY <2>1, <2>2 DEF CutsInv, IsCut
<1> QED
  BY <1>16, <1>18, <1>20 DEF DecodeInv

\* Every step keeps the invariant of the decoder.
LEMMA NextDecodes ==
  ASSUME DecodeInv, [Next]_vars
  PROVE  DecodeInv'
<1>1. CASE \E f \in Own : Encode(f)
  BY <1>1, EncodeDecodes
<1>2. CASE \E bs \in Foreign : Send(bs)
  BY <1>2, SendDecodes
<1>3. CASE \E n \in 1..Len(wire) : Arrive(n)
  BY <1>3, ArriveDecodes
<1>4. CASE DecodeHead
  BY <1>4, HeadDecodes
<1>5. CASE DecodeBody
  BY <1>5, BodyDecodes
<1>6. CASE UNCHANGED vars
  BY <1>6 DEF vars, DecodeInv, CodecTypes, BufferInv, CutsInv, At, IsCut
<1> QED
  BY <1>1, <1>2, <1>3, <1>4, <1>5, <1>6 DEF Next, DecodeStep

\* However the bytes are cut, and whoever sent them, Decoder::decode makes the same
\* frames of them, with ids and lengths of their widths, and reads no word a body
\* does not have: for every width of a byte and a word and every peer.
THEOREM CodecDecodesAlike == Spec => []DecodesAlike
<1>1. Init => DecodeInv
  BY InitDecodes
<1>2. DecodeInv /\ [Next]_vars => DecodeInv'
  BY NextDecodes
<1>3. DecodeInv => DecodesAlike
  BY InvDecodes
<1> QED
  BY <1>1, <1>2, <1>3, PTL DEF Spec

----------------------------------------------------------------------------
(* What the decoder makes of a frame of the session.                       *)

\* The header of a frame, as decode_header gives it.
HeaderOf(f) == [length |-> f.length, typ |-> f.typ, flags |-> f.flags, id |-> f.id]

\* It says what the frame says, and is valid when the frame is.
LEMMA HeaderOfIs ==
  ASSUME NEW f, NEW h, h = HeaderOf(f)
  PROVE  /\ h.length = f.length /\ h.typ = f.typ /\ h.flags = f.flags /\ h.id = f.id
         /\ Valid(f) => Valid(h) = TRUE
<1>1. h.length = f.length /\ h.typ = f.typ /\ h.flags = f.flags /\ h.id = f.id
  BY DEF HeaderOf
<1>2. ASSUME Valid(f) PROVE Valid(h) = TRUE
  <2>1. CASE f.typ \in {Rst, WndInc} /\ f.id # 0 /\ f.length = WordLen
    BY <1>1, <2>1 DEF Valid, Data, Rst, WndInc, GoAway
  <2>2. CASE f.typ = Data /\ f.id # 0
    BY <1>1, <2>2 DEF Valid, Data, Rst, WndInc, GoAway
  <2>3. CASE f.typ = GoAway /\ f.id = 0 /\ f.length >= 2 * WordLen
    BY <1>1, <2>3 DEF Valid, Data, Rst, WndInc, GoAway
  <2> QED
    BY <1>2, <2>1, <2>2, <2>3 DEF Valid
<1> QED
  BY <1>1, <1>2

\* The words that are read of a body, and the frame they make.
WordsRead(h, bs, n, ws) == ws = [i \in 1..n |-> BodyWord(h, bs, i)]
DecodesTo(h, bs, f, ws, d) ==
  DecodeFrame(h, bs) =
    [typ |-> f.typ, flags |-> f.flags, id |-> f.id, length |-> f.length, words |-> ws,
     data |-> d, valid |-> TRUE]

\* decode_frame, for a header that is valid.
LEMMA DecodeIs ==
  ASSUME NEW f, NEW h, h = HeaderOf(f), Valid(f), NEW n, WordsOf(f.typ) = n, NEW bs,
         NEW ws, WordsRead(h, bs, n, ws), NEW d, SubSeq(bs, n * WordLen + 1, Len(bs)) = d
  PROVE  DecodesTo(h, bs, f, ws, d)
<1>1. h.length = f.length /\ h.typ = f.typ /\ h.flags = f.flags /\ h.id = f.id /\ Valid(h) = TRUE
  BY HeaderOfIs
<1>2. (IF Valid(h) THEN WordsOf(h.typ) ELSE 0) = n
  BY <1>1
<1> QED
  BY <1>1, <1>2 DEF DecodeFrame, WordsRead, DecodesTo

\* Data comes back.
LEMMA DataBack ==
  ASSUME NEW f, OwnFrame(f), Valid(f), f.typ = Data
  PROVE  DecodeFrame(HeaderOf(f), SubSeq(EncodeBody(f), 1, f.length)) = Shortened(f)
<1>1. f.data \in Seq(Bytes) /\ IsFrame(f, Len(f.data), <<>>, f.data) /\ f.length = Len(f.data)
  BY OwnData
<1>2. PICK bs, h : bs = f.data /\ h = HeaderOf(f) /\ bs \in Seq(Bytes)
  BY <1>1
<1>3. EncodeBody(f) = bs
  BY <1>2 DEF EncodeBody, Data, Rst, WndInc, GoAway
<1>4. SubSeq(bs, 1, Len(bs)) = bs
  BY <1>2
<1>5. WordsOf(f.typ) = 0 /\ Shortened(f) = f
  BY DEF WordsOf, Shortened, Data, GoAway
<1>6. PICK n : n = 0
  OBVIOUS
<1>7. PICK ws : WordsRead(h, bs, n, ws)
  BY DEF WordsRead
<1>8. SubSeq(bs, n * WordLen + 1, Len(bs)) = bs
  <2>1. n * WordLen + 1 = 1
    BY <1>6, WordIs
  <2> QED
    BY <1>4, <2>1
<1>9. DecodesTo(h, bs, f, ws, bs)
  BY <1>2, <1>5, <1>6, <1>7, <1>8, DecodeIs
<1>10. ws = <<>>
  BY <1>6, <1>7 DEF WordsRead
<1>11. f = [typ |-> f.typ, flags |-> f.flags, id |-> f.id, length |-> f.length, words |-> <<>>,
            data |-> f.data, valid |-> TRUE]
  BY <1>1 DEF IsFrame
<1>12. DecodeFrame(h, bs) = f
  BY <1>2, <1>9, <1>10, <1>11 DEF DecodesTo
<1> QED
  BY <1>1, <1>2, <1>3, <1>4, <1>5, <1>12

\* The only word of a body.
LEMMA OneWordBack ==
  ASSUME NEW f, OwnFrame(f), f.typ \in {Rst, WndInc}, NEW h, h = HeaderOf(f),
         NEW bs, bs = Word(f.words[1])
  PROVE  BodyWord(h, bs, 1) = f.words[1] /\ f.words[1] \in 0..WordMax
<1>1. PICK w : w = f.words[1]
  OBVIOUS
<1>2. h.typ = f.typ
  BY HeaderOfIs
<1>3. WordMax \in Nat /\ WNDINC_MAX \in Nat /\ WNDINC_MAX <= WordMax /\ WordLen \in Nat
  BY WordIs
<1>4. w \in 0..WordMax
  <2>1. CASE f.typ = WndInc
    <3>1. w \in 0..WNDINC_MAX
      BY <1>1, <2>1, OwnWord
    <3> QED
      BY <1>3, <3>1
  <2>2. CASE f.typ = Rst
    BY <1>1, <2>2, OwnWord, ErrorIs
  <2> QED
    BY <2>1, <2>2
<1>5. bs \in Seq(Bytes) /\ Len(bs) = WordLen /\ Value(bs) = w
  BY <1>1, <1>3, <1>4, WordBytes, ValueOfWord
<1>6. Value(SubSeq(bs, (1 - 1) * WordLen + 1, Clamp(1 * WordLen, Len(bs)))) = w
  <2>1. (1 - 1) * WordLen + 1 = 1 /\ Clamp(1 * WordLen, Len(bs)) = Len(bs)
    BY <1>3, <1>5 DEF Clamp
  <2>2. SubSeq(bs, 1, Len(bs)) = bs
    BY <1>5
  <2> QED
    BY <1>5, <2>1, <2>2
<1>7. CASE f.typ = WndInc
  <2>1. BodyWord(h, bs, 1) = Mask(w, WNDINC_MAX)
    BY <1>2, <1>6, <1>7 DEF BodyWord, WndInc, GoAway
  <2>2. w \in Nat /\ w <= WNDINC_MAX
    <3>1. w \in 0..WNDINC_MAX
      BY <1>1, <1>7, OwnWord
    <3> QED
      BY <1>3, <3>1
  <2> QED
    BY <1>1, <1>3, <1>4, <2>1, <2>2, MaskIs
<1>8. CASE f.typ = Rst
  <2>1. BodyWord(h, bs, 1) = ErrorOf(w)
    BY <1>2, <1>6, <1>8 DEF BodyWord, Rst, WndInc, GoAway
  <2>2. w \in Errors
    BY <1>1, <1>8, OwnWord
  <2> QED
    BY <1>1, <1>4, <2>1, <2>2, ErrorIs
<1> QED
  BY <1>7, <1>8

\* A reset and a window increment come back.
LEMMA WordBack ==
  ASSUME NEW f, OwnFrame(f), Valid(f), f.typ \in {Rst, WndInc}
  PROVE  DecodeFrame(HeaderOf(f), SubSeq(EncodeBody(f), 1, f.length)) = Shortened(f)
<1>1. IsFrame(f, WordLen, <<f.words[1]>>, <<>>) /\ f.length = WordLen
  BY OwnWord
<1>2. PICK w, bs, h : w = f.words[1] /\ bs = Word(w) /\ h = HeaderOf(f)
  OBVIOUS
<1>3. BodyWord(h, bs, 1) = w /\ w \in 0..WordMax
  BY <1>2, OneWordBack
<1>4. bs \in Seq(Bytes) /\ Len(bs) = WordLen /\ WordLen \in Nat
  BY <1>2, <1>3, WordBytes, WordIs
<1>5. EncodeBody(f) = bs /\ SubSeq(bs, 1, WordLen) = bs
  <2>1. EncodeBody(f) = bs
    BY <1>2 DEF EncodeBody, Rst, WndInc, GoAway
  <2>2. SubSeq(bs, 1, WordLen) = bs
    BY <1>4
  <2> QED
    BY <2>1, <2>2
<1>6. WordsOf(f.typ) = 1 /\ Shortened(f) = f
  BY DEF WordsOf, Shortened, Data, GoAway, Rst, WndInc
<1>7. PICK n : n = 1
  OBVIOUS
<1>8. PICK ws : WordsRead(h, bs, n, ws)
  BY DEF WordsRead
<1>9. SubSeq(bs, n * WordLen + 1, Len(bs)) = <<>>
  <2>1. n * WordLen + 1 = WordLen + 1
    BY <1>4, <1>7
  <2>2. SubSeq(bs, WordLen + 1, WordLen) = <<>>
    BY <1>4
  <2> QED
    BY <1>4, <2>1, <2>2
<1>10. DecodesTo(h, bs, f, ws, <<>>)
  BY <1>2, <1>6, <1>7, <1>8, <1>9, DecodeIs
<1>11. ws = <<w>>
  BY <1>3, <1>7, <1>8 DEF WordsRead
<1>12. f = [typ |-> f.typ, flags |-> f.flags, id |-> f.id, length |-> f.length, words |-> <<w>>,
            data |-> <<>>, valid |-> TRUE]
  BY <1>1, <1>2 DEF IsFrame
<1>13. DecodeFrame(h, bs) = f
  BY <1>10, <1>11, <1>12 DEF DecodesTo
<1> QED
  BY <1>1, <1>2, <1>5, <1>6, <1>13

\* The front of a sequence.
LEMMA FrontAt ==
  ASSUME NEW S, NEW s \in Seq(S), NEW n \in Nat, n <= Len(s)
  PROVE  /\ SubSeq(s, 1, n) \in Seq(S) /\ Len(SubSeq(s, 1, n)) = n
         /\ \A i \in 1..n : SubSeq(s, 1, n)[i] = s[i]
OBVIOUS

\* A piece, as one fact.
IsPiece(S, s, a, b, p) ==
  p \in Seq(S) /\ Len(p) = b - a /\ \A i \in 1..(b - a) : p[i] = s[a + i]

LEMMA PieceIs ==
  ASSUME NEW S, NEW s \in Seq(S), NEW a \in Nat, NEW b \in Nat, a <= b, b <= Len(s),
         NEW p, p = SubSeq(s, a + 1, b)
  PROVE  IsPiece(S, s, a, b, p)
BY PieceAt DEF IsPiece

\* Three sequences one behind the other, cut to the length of the last.
Apart(a, b, d, w, m, bs) ==
  /\ bs \in Seq(Bytes) /\ Len(bs) = m
  /\ SubSeq(bs, 1, w) = a /\ SubSeq(bs, w + 1, w + w) = b
  /\ SubSeq(bs, (w + w) + 1, m) = SubSeq(d, 1, m - (w + w))

LEMMA CutOfThree ==
  ASSUME NEW a \in Seq(Bytes), NEW b \in Seq(Bytes), NEW d \in Seq(Bytes),
         NEW w \in Nat, NEW m \in Nat, Len(a) = w, Len(b) = w, Len(d) = m, w + w <= m,
         NEW bs, bs = SubSeq(a \o b \o d, 1, m)
  PROVE  Apart(a, b, d, w, m, bs)
<1>1. PICK x, y : x = a \o b /\ y = x \o d
  OBVIOUS
<1>2. Joined(Bytes, a, b, x)
  BY <1>1, ConcatIs
<1>3. PICK v, k \in Nat : v = w + w /\ k = m - v /\ v <= m /\ k <= m /\ w <= m
  OBVIOUS
<1>4. /\ x \in Seq(Bytes) /\ Len(x) = v
      /\ \A i \in 1..w : x[i] = a[i]
      /\ \A i \in 1..w : x[w + i] = b[i]
  BY <1>2, <1>3 DEF Joined
<1>5. Joined(Bytes, x, d, y)
  BY <1>1, <1>4, ConcatIs
<1>6. /\ y \in Seq(Bytes) /\ Len(y) = v + m
      /\ \A i \in 1..v : y[i] = x[i]
      /\ \A i \in 1..m : y[v + i] = d[i]
  BY <1>4, <1>5 DEF Joined
<1>7. bs = SubSeq(y, 1, m) /\ m <= Len(y)
  BY <1>1, <1>3, <1>6
<1>8. bs \in Seq(Bytes) /\ Len(bs) = m /\ \A i \in 1..m : bs[i] = y[i]
  <2>1. y \in Seq(Bytes)
    BY <1>6
  <2> QED
    BY <1>7, <2>1, FrontAt
<1>9. SubSeq(bs, 1, w) = a
  <2>1. PICK p : p = SubSeq(bs, 1, w)
    OBVIOUS
  <2>2. p \in Seq(Bytes) /\ Len(p) = w /\ \A i \in 1..w : p[i] = bs[i]
    <3>1. w <= Len(bs)
      BY <1>3, <1>8
    <3> QED
      BY <1>8, <2>1, <3>1, FrontAt
  <2>3. \A i \in 1..w : i \in 1..m /\ i \in 1..v
    BY <1>3
  <2>4. \A i \in 1..w : p[i] = a[i]
    BY <1>4, <1>6, <1>8, <2>2, <2>3
  <2>5. p = a
    BY <2>2, <2>4, SameSeq
  <2> QED
    BY <2>1, <2>5
<1>10. SubSeq(bs, w + 1, w + w) = b
  <2>1. PICK p : p = SubSeq(bs, w + 1, v)
    OBVIOUS
  <2>2. p \in Seq(Bytes) /\ Len(p) = w /\ \A i \in 1..w : p[i] = bs[w + i]
    <3>1. w <= v /\ v <= Len(bs) /\ v - w = w
      BY <1>3, <1>8
    <3>2. p \in Seq(Bytes) /\ Len(p) = v - w /\ \A i \in 1..(v - w) : p[i] = bs[w + i]
      <4>1. IsPiece(Bytes, bs, w, v, p)
        BY <1>8, <2>1, <3>1, PieceIs
      <4> QED
        BY <4>1 DEF IsPiece
    <3> QED
      BY <3>1, <3>2
  <2>3. \A i \in 1..w : w + i \in 1..m /\ w + i \in 1..v
    BY <1>3
  <2>4. \A i \in 1..w : p[i] = b[i]
    BY <1>4, <1>6, <1>8, <2>2, <2>3, ZenonT(40)
  <2>5. p = b
    BY <2>2, <2>4, SameSeq
  <2> QED
    BY <1>3, <2>1, <2>5
<1>11. SubSeq(bs, v + 1, m) = SubSeq(d, 1, k)
  <2>1. PICK p, q : p = SubSeq(bs, v + 1, m) /\ q = SubSeq(d, 1, k)
    OBVIOUS
  <2>2. p \in Seq(Bytes) /\ Len(p) = k /\ \A i \in 1..k : p[i] = bs[v + i]
    <3>1. v <= m /\ m <= Len(bs) /\ m - v = k
      BY <1>3, <1>8
    <3>2. p \in Seq(Bytes) /\ Len(p) = m - v /\ \A i \in 1..(m - v) : p[i] = bs[v + i]
      <4>1. IsPiece(Bytes, bs, v, m, p)
        BY <1>8, <2>1, <3>1, PieceIs
      <4> QED
        BY <4>1 DEF IsPiece
    <3> QED
      BY <3>1, <3>2
  <2>3. q \in Seq(Bytes) /\ Len(q) = k /\ \A i \in 1..k : q[i] = d[i]
    <3>1. k <= Len(d)
      BY <1>3
    <3> QED
      BY <2>1, <3>1, FrontAt
  <2>4. \A i \in 1..k : v + i \in 1..m /\ i \in 1..m
    BY <1>3
  <2>5. \A i \in 1..k : p[i] = q[i]
    BY <1>6, <1>8, <2>2, <2>3, <2>4
  <2>6. p = q
    BY <2>2, <2>3, <2>5, SameSeq
  <2> QED
    BY <2>1, <2>6
<1> QED
  BY <1>3, <1>8, <1>9, <1>10, <1>11 DEF Apart

\* A frame with other data.
LEMMA OtherData ==
  ASSUME NEW f, NEW t, NEW g, NEW id, NEW l, NEW ws, NEW d, NEW e,
         f = [typ |-> t, flags |-> g, id |-> id, length |-> l, words |-> ws, data |-> d, valid |-> TRUE]
  PROVE  [f EXCEPT !.data = e] =
           [typ |-> t, flags |-> g, id |-> id, length |-> l, words |-> ws, data |-> e, valid |-> TRUE]
<1> DEFINE R == [typ : {t}, flags : {g}, id : {id}, length : {l}, words : {ws}, data : {d, e},
                valid : {TRUE}]
<1>1. f \in R
  OBVIOUS
<1>2. [f EXCEPT !.data = e] \in R
  BY <1>1
<1>3. PICK r : r = [f EXCEPT !.data = e]
  OBVIOUS
<1>4. r.data = e
  BY <1>1, <1>3
<1>5. r \in R
  BY <1>2, <1>3
<1>6. r = [typ |-> r.typ, flags |-> r.flags, id |-> r.id, length |-> r.length,
            words |-> r.words, data |-> r.data, valid |-> r.valid]
  BY <1>5
<1>7. r.typ = t /\ r.flags = g /\ r.id = id /\ r.length = l /\ r.words = ws /\ r.valid = TRUE
  BY <1>5
<1>8. r = [typ |-> t, flags |-> g, id |-> id, length |-> l, words |-> ws, data |-> e, valid |-> TRUE]
  BY <1>4, <1>6, <1>7
<1> QED
  BY <1>3, <1>8

\* A GOAWAY comes back with the end of its message cut off.
LEMMA GoAwayBack ==
  ASSUME NEW f, OwnFrame(f), Valid(f), f.typ = GoAway
  PROVE  DecodeFrame(HeaderOf(f), SubSeq(EncodeBody(f), 1, f.length)) = Shortened(f)
<1>1. /\ f.data \in Seq(Bytes) /\ IsFrame(f, Len(f.data), <<f.words[1], f.words[2]>>, f.data)
      /\ f.length = Len(f.data) /\ f.words[1] \in 0..STREAMID_MAX /\ f.words[2] \in Errors
  BY OwnGoAway
<1>2. PICK w, m \in Nat : w = WordLen /\ m = f.length /\ w + w <= m
  <2>1. f.length >= 2 * WordLen
    BY DEF Valid, Rst, Data, WndInc, GoAway
  <2>2. Len(f.data) \in Nat
    BY <1>1
  <2> QED
    <3>1. WordLen \in Nat /\ f.length \in Nat
      BY <1>1, <2>2, WordIs
    <3>2. WordLen + WordLen <= f.length
      BY <2>1, <3>1
    <3> QED
      BY <3>1, <3>2
<1>3. PICK n1, n2 \in 0..WordMax : n1 = f.words[1] /\ n2 = f.words[2] /\ n1 \in 0..STREAMID_MAX /\ n2 \in Errors
  <2>1. f.words[1] \in 0..WordMax
    BY <1>1, WordIs
  <2>2. f.words[2] \in 0..WordMax
    BY <1>1, ErrorIs
  <2> QED
    BY <1>1, <2>1, <2>2
<1>4. PICK a, b, d : a = Word(n1) /\ b = Word(n2) /\ d = f.data
  OBVIOUS
<1>5. n1 \in Nat /\ n2 \in Nat
  BY <1>3, WordIs
<1>6. a \in Seq(Bytes) /\ Len(a) = w /\ b \in Seq(Bytes) /\ Len(b) = w /\ d \in Seq(Bytes) /\ Len(d) = m
  BY <1>1, <1>2, <1>4, <1>5, WordBytes
<1>7. PICK bs, h : bs = SubSeq(a \o b \o d, 1, m) /\ h = HeaderOf(f)
  OBVIOUS
<1>8. /\ bs \in Seq(Bytes) /\ Len(bs) = m
      /\ SubSeq(bs, 1, w) = a /\ SubSeq(bs, w + 1, w + w) = b
      /\ SubSeq(bs, (w + w) + 1, m) = SubSeq(d, 1, m - (w + w))
  <2>1. Apart(a, b, d, w, m, bs)
    BY <1>2, <1>6, <1>7, CutOfThree
  <2> QED
    BY <2>1 DEF Apart
<1>9. EncodeBody(f) = a \o b \o d
  <2>1. EncodeBody(f) = Word(f.words[1]) \o Word(f.words[2]) \o f.data
    <3>1. f.typ \notin {Rst, WndInc}
      BY DEF Rst, WndInc, GoAway
    <3> QED
      BY <3>1 DEF EncodeBody
  <2> QED
    BY <1>3, <1>4, <2>1
<1>10. h.typ = GoAway
  BY <1>7, HeaderOfIs
<1>11. BodyWord(h, bs, 1) = n1
  <2>1. (1 - 1) * WordLen + 1 = 1 /\ Clamp(1 * WordLen, Len(bs)) = w
    BY <1>2, <1>8 DEF Clamp
  <2>2. Value(SubSeq(bs, (1 - 1) * WordLen + 1, Clamp(1 * WordLen, Len(bs)))) = n1
    BY <1>3, <1>4, <1>8, <2>1, ValueOfWord
  <2>3. BodyWord(h, bs, 1) = Mask(n1, STREAMID_MAX)
    BY <1>10, <2>2 DEF BodyWord, WndInc, GoAway
  <2>4. n1 <= STREAMID_MAX /\ STREAMID_MAX \in Nat
    BY <1>3, WordIs
  <2> QED
    BY <1>5, <2>3, <2>4, MaskIs
<1>12. BodyWord(h, bs, 2) = n2
  <2>1. (2 - 1) * WordLen + 1 = w + 1 /\ Clamp(2 * WordLen, Len(bs)) = w + w
    BY <1>2, <1>8 DEF Clamp
  <2>2. Value(SubSeq(bs, (2 - 1) * WordLen + 1, Clamp(2 * WordLen, Len(bs)))) = n2
    BY <1>3, <1>4, <1>8, <2>1, ValueOfWord
  <2>3. BodyWord(h, bs, 2) = ErrorOf(n2)
    BY <1>10, <2>2 DEF BodyWord, WndInc, GoAway
  <2> QED
    BY <1>3, <2>3, ErrorIs
<1>13. PICK n : n = 2
  OBVIOUS
<1>14. PICK ws : WordsRead(h, bs, n, ws)
  BY DEF WordsRead
<1>15. ws = <<n1, n2>>
  <2>1. ws = [i \in 1..2 |-> BodyWord(h, bs, i)]
    BY <1>13, <1>14 DEF WordsRead
  <2> QED
    BY <1>11, <1>12, <2>1
<1>16. PICK e : e = SubSeq(d, 1, m - (w + w))
  OBVIOUS
<1>17. SubSeq(bs, n * WordLen + 1, Len(bs)) = e
  <2>1. n * WordLen + 1 = (w + w) + 1
    BY <1>2, <1>13
  <2> QED
    BY <1>8, <1>16, <2>1
<1>18. WordsOf(f.typ) = n
  BY <1>13 DEF WordsOf, Data, GoAway
<1>19. DecodesTo(h, bs, f, ws, e)
  BY <1>7, <1>14, <1>17, <1>18, DecodeIs
<1>20. f = [typ |-> f.typ, flags |-> f.flags, id |-> f.id, length |-> f.length,
            words |-> <<n1, n2>>, data |-> d, valid |-> TRUE]
  BY <1>1, <1>3, <1>4 DEF IsFrame
<1>21. Shortened(f) = [f EXCEPT !.data = e]
  <2>1. Len(f.data) - 2 * WordLen = m - (w + w)
    BY <1>1, <1>2
  <2> QED
    BY <1>4, <1>16, <2>1 DEF Shortened
<1>22. [f EXCEPT !.data = e] =
         [typ |-> f.typ, flags |-> f.flags, id |-> f.id, length |-> f.length,
          words |-> <<n1, n2>>, data |-> e, valid |-> TRUE]
  BY <1>20, OtherData
<1>23. DecodeFrame(h, bs) = Shortened(f)
  BY <1>15, <1>19, <1>21, <1>22 DEF DecodesTo
<1> QED
  BY <1>2, <1>7, <1>9, <1>23

\* Every frame the session gives the encoder comes out as it went in, but the
\* end of a GOAWAY.
LEMMA FrameBack ==
  ASSUME NEW f, OwnFrame(f), Valid(f)
  PROVE  DecodeFrame(HeaderOf(f), SubSeq(EncodeBody(f), 1, f.length)) = Shortened(f)
<1>1. f.typ \in {Rst, Data, WndInc, GoAway}
  BY OwnFits
<1> QED
  BY <1>1, DataBack, WordBack, GoAwayBack

----------------------------------------------------------------------------
(* Frames on the way.                                                      *)

\* The bytes of s from a to e are those of frame f.
Written(s, a, e, f) ==
  a <= e /\ e <= Len(s) /\ SubSeq(s, a + 1, e) = EncodeHeader(f) \o EncodeBody(f)

\* A body is as long as its header says, or longer.
LEMMA BodyLength ==
  ASSUME NEW f, OwnFrame(f)
  PROVE  /\ f.length \in Nat /\ Len(EncodeBody(f)) \in Nat /\ f.length <= Len(EncodeBody(f))
         /\ f.typ # GoAway => Len(EncodeBody(f)) = f.length
<1>1. EncodeBody(f) \in Seq(Bytes) /\ (f.typ # GoAway => Len(EncodeBody(f)) = f.length)
  BY OwnFits
<1>2. Len(EncodeBody(f)) \in Nat
  BY <1>1
<1>3. CASE f.typ # GoAway
  BY <1>1, <1>2, <1>3
<1>4. CASE f.typ = GoAway
  <2>1. /\ f.data \in Seq(Bytes) /\ f.length = Len(f.data) /\ f.words[1] \in 0..STREAMID_MAX
        /\ f.words[2] \in Errors
    BY <1>4, OwnGoAway
  <2>2. f.words[1] \in Nat /\ f.words[2] \in Nat
    BY <2>1, ErrorIs, WordIs, SMTT(30)
  <2>3. PICK a, b \in Seq(Bytes) : a = Word(f.words[1]) /\ b = Word(f.words[2])
    BY <2>2, WordBytes
  <2>4. EncodeBody(f) = a \o b \o f.data
    <3>1. f.typ \notin {Rst, WndInc}
      BY <1>4 DEF Rst, WndInc, GoAway
    <3>2. EncodeBody(f) = Word(f.words[1]) \o Word(f.words[2]) \o f.data
      BY <1>4, <3>1 DEF EncodeBody
    <3> QED
      BY <2>3, <3>2
  <2>5. PICK x, d \in Seq(Bytes) : x = a \o b /\ d = f.data
    BY <2>1, <2>3, ConcatAt
  <2>6. Len(x \o d) = Len(x) + Len(d) /\ Len(x) \in Nat /\ Len(d) \in Nat
    BY ConcatAt
  <2>7. EncodeBody(f) = x \o d
    BY <2>4, <2>5
  <2>8. PICK i, j \in Nat : i = Len(x) /\ j = Len(d)
    BY <2>6
  <2>9. f.length = j /\ Len(EncodeBody(f)) = i + j
    BY <2>1, <2>5, <2>6, <2>7, <2>8
  <2> QED
    BY <1>4, <2>9
<1> QED
  BY <1>3, <1>4

\* The front of the second of two sequences.
LEMMA FrontOfSecond ==
  ASSUME NEW p \in Seq(Bytes), NEW q \in Seq(Bytes), NEW n \in Nat, Len(p) = n,
         NEW l \in Nat, l <= Len(q)
  PROVE  SubSeq(p \o q, n + 1, n + l) = SubSeq(q, 1, l)
<1>1. PICK k \in Nat : k = Len(q)
  OBVIOUS
<1>2. PICK y : y = p \o q
  OBVIOUS
<1>3. y \in Seq(Bytes) /\ Len(y) = n + k
  BY <1>1, <1>2, ConcatAt
<1>4. PICK m \in Nat : m = n + k
  OBVIOUS
<1>5. SubSeq(y, n + 1, m) = q
  <2>1. Len(p) + Len(q) = m
    BY <1>1, <1>4
  <2>2. SubSeq(p \o q, Len(p) + 1, m) = q
    BY <2>1, PiecesOfTwo
  <2> QED
    BY <1>2, <2>2
<1>6. SubSeq(SubSeq(y, n + 1, m), 0 + 1, l) = SubSeq(y, (n + 0) + 1, n + l)
  <2>1. 0 \in Nat /\ 0 <= l /\ l <= m - n /\ n <= m /\ m <= Len(y)
    BY <1>1, <1>3, <1>4
  <2> QED
    BY <1>3, <2>1, PieceOfPiece
<1>7. 0 + 1 = 1 /\ n + 0 = n
  OBVIOUS
<1> QED
  BY <1>2, <1>5, <1>6, <1>7

\* What is cut out where a frame was written is that frame.
LEMMA CutOfFrame ==
  ASSUME NEW s \in Seq(Bytes), NEW t \in Seq(Bytes), NEW a \in Nat, NEW b \in Nat, NEW e \in Nat,
         NEW g, NEW f, OwnFrame(f), Valid(f), Written(s \o t, a, e, f), IsCut(s, a, b, g)
  PROVE  g = Shortened(f) /\ (f.typ # GoAway => b = e)
<1>1. PICK p, q : p = EncodeHeader(f) /\ q = EncodeBody(f)
  OBVIOUS
<1>2. PICK n \in Nat : n = HdrLen
  BY WordIs
<1>3. p \in Seq(Bytes) /\ Len(p) = n /\ DecodeHeader(p) = HeaderOf(f)
  BY <1>1, <1>2, OwnFits, HeaderBack DEF HeaderOf
<1>4. PICK l, k \in Nat : l = f.length /\ k = Len(q) /\ l <= k /\ (f.typ # GoAway => k = l)
  BY <1>1, BodyLength
<1>5. q \in Seq(Bytes)
  BY <1>1, OwnFits
<1>6. PICK u, x : u = s \o t /\ x = p \o q
  OBVIOUS
<1>7. x \in Seq(Bytes) /\ Len(x) = n + k
  BY <1>3, <1>4, <1>5, <1>6, ConcatAt
<1>8. u \in Seq(Bytes)
  BY <1>6, ConcatAt
<1>9. a <= e /\ e <= Len(u) /\ SubSeq(u, a + 1, e) = x
  BY <1>1, <1>6 DEF Written
<1>10. e = a + (n + k)
  <2>1. Len(SubSeq(u, a + 1, e)) = e - a
    BY <1>8, <1>9, PieceAt
  <2> QED
    BY <1>7, <1>9, <2>1
<1>11. PICK at, m \in Nat : at = a + n /\ m = n + l
  OBVIOUS
<1>12. PICK h : h = DecodeHeader(SubSeq(s, a + 1, at))
  OBVIOUS
<1>13. at <= b /\ b <= Len(s) /\ b = at + h.length /\ g = DecodeFrame(h, SubSeq(s, at + 1, b))
  BY <1>2, <1>11, <1>12 DEF IsCut
<1>14. SubSeq(s, a + 1, at) = p
  <2>1. a <= at /\ at <= Len(s)
    BY <1>11, <1>13
  <2>2. SubSeq(u, a + 1, at) = SubSeq(s, a + 1, at)
    BY <1>6, <2>1, PieceKept
  <2>3. SubSeq(SubSeq(u, a + 1, e), 0 + 1, n) = SubSeq(u, (a + 0) + 1, a + n)
    <3>1. 0 \in Nat /\ 0 <= n /\ n <= e - a
      BY <1>10
    <3> QED
      BY <1>8, <1>9, <3>1, PieceOfPiece
  <2>4. 0 + 1 = 1 /\ a + 0 = a
    OBVIOUS
  <2>5. SubSeq(x, 1, n) = p
    BY <1>3, <1>5, <1>6, <1>7, PiecesOfTwo
  <2> QED
    BY <1>9, <1>11, <2>2, <2>3, <2>4, <2>5
<1>15. h = HeaderOf(f) /\ b = at + l
  <2>1. h = HeaderOf(f)
    BY <1>3, <1>12, <1>14
  <2>2. h.length = l
    BY <1>4, <2>1, HeaderOfIs
  <2> QED
    BY <1>13, <2>1, <2>2
<1>16. SubSeq(s, at + 1, b) = SubSeq(q, 1, l)
  <2>1. SubSeq(u, at + 1, b) = SubSeq(s, at + 1, b)
    BY <1>6, <1>13, PieceKept
  <2>2. SubSeq(SubSeq(u, a + 1, e), n + 1, m) = SubSeq(u, (a + n) + 1, a + m)
    <3>1. n <= m /\ m <= e - a
      BY <1>4, <1>10, <1>11, SMTT(30)
    <3> QED
      BY <1>8, <1>9, <3>1, PieceOfPiece
  <2>3. a + m = b /\ m = n + l
    BY <1>11, <1>15
  <2>4. SubSeq(x, n + 1, m) = SubSeq(q, 1, l)
    <3>1. SubSeq(p \o q, n + 1, n + l) = SubSeq(q, 1, l)
      <4>1. p \in Seq(Bytes) /\ Len(p) = n /\ l <= Len(q)
        BY <1>3, <1>4
      <4> QED
        BY <1>5, <4>1, FrontOfSecond
    <3> QED
      BY <1>6, <2>3, <3>1
  <2> QED
    BY <1>9, <1>11, <2>1, <2>2, <2>3, <2>4
<1>17. g = Shortened(f)
  BY <1>1, <1>4, <1>13, <1>15, <1>16, FrameBack
<1>18. ASSUME f.typ # GoAway PROVE b = e
  BY <1>4, <1>10, <1>11, <1>15, <1>18, SMTT(30)
<1> QED
  BY <1>17, <1>18

----------------------------------------------------------------------------
(* What is sent is what is decoded.                                        *)

\* All bytes written.
Wrote == arrived \o wire

\* Frame i was written from st[i] to st[i + 1].
SentAt(st) ==
  /\ st \in [1..(Len(sent) + 1) -> Nat]
  /\ st[1] = 0 /\ st[Len(sent) + 1] = Len(Wrote)
  /\ \A i \in 1..Len(sent) :
       OwnFrame(sent[i]) /\ Valid(sent[i]) /\ Written(Wrote, st[i], st[i + 1], sent[i])

\* No GOAWAY among the first n frames.
NoGoAway(n) == \A j \in 1..Len(sent) : j <= n => sent[j].typ # GoAway

\* Up to the first GOAWAY the decoder cuts where frames were written.
CutAt(st) ==
  \A i \in 1..Len(cuts) : NoGoAway(i - 1) => i <= Len(sent) + 1 /\ cuts[i] = st[i]

\* The inductive invariant of both ends.
SentInv == peer = "own" => \E st : SentAt(st) /\ CutAt(st)
PreserveInv == DecodeInv /\ SentInv /\ RefusesShortGoAway

\* Lengths and types.
LEMMA SentIs ==
  ASSUME CodecTypes
  PROVE  /\ Len(sent) \in Nat /\ Len(got) \in Nat /\ Len(cuts) = Len(got) + 1
         /\ arrived \in Seq(Bytes) /\ wire \in Seq(Bytes) /\ Wrote \in Seq(Bytes)
         /\ Len(Wrote) = Len(arrived) + Len(wire) /\ Len(arrived) \in Nat /\ Len(wire) \in Nat
<1>1. arrived \in Seq(Bytes) /\ wire \in Seq(Bytes) /\ Len(sent) \in Nat /\ Len(got) \in Nat
      /\ Len(cuts) = Len(got) + 1
  BY DEF CodecTypes
<1> QED
  BY <1>1, ConcatAt DEF Wrote

\* A frame that is cut out where a frame may have been written: one was.
LEMMA CutIsSent ==
  ASSUME CodecTypes, NEW st, SentAt(st), NEW i \in 1..(Len(sent) + 1), NEW b \in Nat, NEW g,
         IsCut(arrived, st[i], b, g)
  PROVE  /\ i \in 1..Len(sent) /\ g = Shortened(sent[i])
         /\ sent[i].typ # GoAway => b = st[i + 1]
<1>1. PICK a \in Nat : a = st[i]
  BY DEF SentAt
<1>2. IsCut(arrived, a, b, g)
  BY <1>1
<1>3. a + HdrLen <= Len(arrived) /\ HdrLen \in Nat /\ HdrLen >= 1
  <2>1. HdrLen \in Nat /\ HdrLen >= 1
    BY WordIs
  <2>2. PICK at : at = a + HdrLen
    OBVIOUS
  <2>3. at <= b /\ b <= Len(arrived) /\ at \in Nat /\ Len(arrived) \in Nat
    BY <1>2, <2>1, <2>2, SentIs DEF IsCut
  <2> QED
    BY <2>1, <2>2, <2>3
<1>4. i \in 1..Len(sent)
  <2>1. CASE i = Len(sent) + 1
    <3>1. a = Len(Wrote)
      BY <1>1, <2>1 DEF SentAt
    <3> QED
      BY <1>3, <3>1, SentIs
  <2> QED
    BY <2>1, SentIs
<1>5. PICK e \in Nat : e = st[i + 1]
  <2>1. i + 1 \in 1..(Len(sent) + 1)
    BY <1>4, SentIs
  <2>2. st \in [1..(Len(sent) + 1) -> Nat]
    BY DEF SentAt
  <2> QED
    BY <2>1, <2>2
<1>6. PICK f : f = sent[i]
  OBVIOUS
<1>7. OwnFrame(f) /\ Valid(f) /\ Written(arrived \o wire, a, e, f)
  BY <1>1, <1>4, <1>5, <1>6 DEF SentAt, Wrote
<1>8. PICK s, t \in Seq(Bytes) : s = arrived /\ t = wire
  BY SentIs
<1>9. Written(s \o t, a, e, f) /\ IsCut(s, a, b, g)
  BY <1>2, <1>7, <1>8
<1>10. g = Shortened(f) /\ (f.typ # GoAway => b = e)
  BY <1>7, <1>9, CutOfFrame
<1> QED
  BY <1>4, <1>5, <1>6, <1>10

\* The invariant says what is wanted of encoder and decoder.
LEMMA InvPreserves == PreserveInv => Preserves
<1> SUFFICES ASSUME PreserveInv PROVE Preserves
  OBVIOUS
<1>1. CodecTypes /\ CutsInv /\ SentInv /\ RefusesShortGoAway
  BY DEF PreserveInv, DecodeInv
<1>2. ASSUME peer = "own", NEW i \in BeforeGoAway
      PROVE  i <= Len(sent) /\ got[i] = Shortened(sent[i])
  <2>1. PICK st : SentAt(st) /\ CutAt(st)
    BY <1>1, <1>2 DEF SentInv
  <2>2. i \in 1..Len(got) /\ \A j \in 1..(i - 1) : sent[j].typ # GoAway
    BY DEF BeforeGoAway
  <2>3. i \in 1..Len(cuts) /\ i \in Nat
    BY <1>1, <2>2, SentIs
  <2>4. NoGoAway(i - 1)
    <3>1. ASSUME NEW j \in 1..Len(sent), j <= i - 1 PROVE sent[j].typ # GoAway
      <4>1. j \in 1..(i - 1)
        BY <2>3, <3>1
      <4> QED
        BY <2>2, <4>1
    <3> QED
      BY <3>1 DEF NoGoAway
  <2>5. i <= Len(sent) + 1 /\ cuts[i] = st[i]
    BY <2>1, <2>3, <2>4 DEF CutAt
  <2>6. i \in 1..Len(sent) /\ got[i] = Shortened(sent[i])
    <3>1. i \in 1..(Len(sent) + 1)
      BY <1>1, <2>3, <2>2, <2>5, SentIs
    <3>2. PICK b \in Nat : b = cuts[i + 1]
      BY <1>1, <2>2, SentIs DEF CodecTypes
    <3>3. PICK g : g = got[i]
      OBVIOUS
    <3>4. IsCut(arrived, st[i], b, g)
      BY <1>1, <2>2, <2>5, <3>2, <3>3 DEF CutsInv
    <3>5. i \in 1..Len(sent) /\ g = Shortened(sent[i])
      BY <1>1, <2>1, <3>1, <3>4, CutIsSent
    <3> QED
      BY <3>3, <3>5
  <2> QED
    BY <1>1, <2>6, SentIs
<1>3. RoundTrip
  BY <1>2 DEF RoundTrip
<1> QED
  BY <1>1, <1>3 DEF Preserves

\* At the start nothing is written.
LEMMA InitPreserves == Init => PreserveInv
<1> SUFFICES ASSUME Init PROVE PreserveInv
  OBVIOUS
<1>1. DecodeInv
  BY InitDecodes
<1>2. sent = <<>> /\ refused = <<>> /\ wire = <<>> /\ arrived = <<>> /\ cuts = <<0>>
  BY DEF Init
<1>3. Len(sent) = 0 /\ Len(cuts) = 1 /\ cuts[1] = 0 /\ Len(Wrote) = 0
  BY <1>2 DEF Wrote
<1>4. PICK st : st = [i \in 1..1 |-> 0]
  OBVIOUS
<1>5. SentAt(st)
  <2>1. st \in [1..1 -> Nat] /\ st[1] = 0
    BY <1>4
  <2> QED
    BY <1>3, <2>1 DEF SentAt
<1>6. CutAt(st)
  BY <1>3, <1>4 DEF CutAt
<1>7. SentInv
  BY <1>5, <1>6 DEF SentInv
<1>8. RefusesShortGoAway
  BY <1>2 DEF RefusesShortGoAway
<1> QED
  BY <1>1, <1>7, <1>8 DEF PreserveInv

\* Three sequences one behind the other.
Associates(s, t, u) == (s \o t) \o u = s \o (t \o u)
LEMMA BytesAssociate ==
  ASSUME NEW s \in Seq(Bytes), NEW t \in Seq(Bytes), NEW u \in Seq(Bytes)
  PROVE  Associates(s, t, u)
BY ConcatAssociative DEF Associates

\* What was written stays.
LEMMA WrittenKept ==
  ASSUME NEW s \in Seq(Bytes), NEW t \in Seq(Bytes), NEW a \in Nat, NEW e \in Nat, NEW f,
         Written(s, a, e, f)
  PROVE  Written(s \o t, a, e, f)
<1>1. a <= e /\ e <= Len(s) /\ SubSeq(s, a + 1, e) = EncodeHeader(f) \o EncodeBody(f)
  BY DEF Written
<1>2. SubSeq(s \o t, a + 1, e) = SubSeq(s, a + 1, e)
  BY <1>1, PieceKept
<1>3. e <= Len(s \o t)
  BY <1>1, ConcatAt
<1> QED
  BY <1>1, <1>2, <1>3 DEF Written

\* The second of two sequences.
LEMMA SecondOfTwo ==
  ASSUME NEW s \in Seq(Bytes), NEW t \in Seq(Bytes), NEW e, Len(s) + Len(t) = e
  PROVE  SubSeq(s \o t, Len(s) + 1, e) = t
BY PiecesOfTwo

\* A frame is written behind the others.
LEMMA WrittenBehind ==
  ASSUME NEW s \in Seq(Bytes), NEW t \in Seq(Bytes), NEW f, EncodeHeader(f) \o EncodeBody(f) = t
  PROVE  Written(s \o t, Len(s), Len(s \o t), f)
<1>1. PICK a, k \in Nat : a = Len(s) /\ k = Len(t)
  OBVIOUS
<1>2. PICK e \in Nat : e = a + k /\ a <= e
  BY <1>1
<1>3. Len(s) + Len(t) = e /\ Len(s \o t) = e
  BY <1>1, <1>2, ConcatAt
<1>4. SubSeq(s \o t, Len(s) + 1, e) = t
  <2>1. Len(s) + Len(t) = e
    BY <1>3
  <2> QED
    BY <2>1, SecondOfTwo, Zenon
<1>5. SubSeq(s \o t, a + 1, e) = EncodeHeader(f) \o EncodeBody(f)
  BY <1>1, <1>4
<1>6. PICK u : u = s \o t
  OBVIOUS
<1>7. Written(u, a, e, f)
  <2>1. a <= e /\ e <= Len(u)
    BY <1>2, <1>3, <1>6
  <2>2. SubSeq(u, a + 1, e) = EncodeHeader(f) \o EncodeBody(f)
    BY <1>5, <1>6
  <2> QED
    BY <2>1, <2>2 DEF Written
<1> QED
  BY <1>1, <1>3, <1>6, <1>7

\* A frame is encoded behind the others.
LEMMA EncodeSends ==
  ASSUME PreserveInv, NEW f \in Own, Encode(f), Valid(f)
  PROVE  SentInv'
<1> SUFFICES ASSUME peer' = "own" PROVE \E st : SentAt(st)' /\ CutAt(st)'
  BY DEF SentInv
<1>1. CodecTypes
  BY DEF PreserveInv, DecodeInv
<1>2. /\ sent' = Append(sent, f) /\ wire' = wire \o EncodeHeader(f) \o EncodeBody(f)
      /\ UNCHANGED <<arrived, cuts>> /\ peer = "own"
  BY DEF Encode
<1>3. PICK st : SentAt(st) /\ CutAt(st)
  BY <1>2 DEF PreserveInv, SentInv
<1>4. OwnFrame(f)
  BY OwnAssumption
<1>5. PICK p, q \in Seq(Bytes) : p = EncodeHeader(f) /\ q = EncodeBody(f)
  BY <1>4, OwnFits, HeaderBack
<1>6. PICK t \in Seq(Bytes) : t = p \o q
  BY ConcatAt
<1>7. PICK s \in Seq(Bytes) : s = Wrote
  BY <1>1, SentIs
<1>8. Wrote' = s \o t
  <2>1. PICK v, w \in Seq(Bytes) : v = arrived /\ w = wire
    BY <1>1, SentIs
  <2>2. (w \o p) \o q = w \o (p \o q) /\ (v \o w) \o t = v \o (w \o t)
    <3>1. Associates(w, p, q) /\ Associates(v, w, t)
      BY BytesAssociate
    <3> QED
      BY <3>1 DEF Associates
  <2>3. wire' = w \o t
    BY <1>2, <1>5, <1>6, <2>1, <2>2
  <2> QED
    BY <1>2, <1>7, <2>1, <2>2, <2>3 DEF Wrote
<1>9. PICK n \in Nat : n = Len(sent)
  BY <1>1, SentIs
<1>10. PICK m \in Nat : m = Len(s \o t)
  BY ConcatAt
<1>11. /\ Len(sent') = n + 1 /\ sent'[n + 1] = f
       /\ \A i \in 1..n : sent'[i] = sent[i]
  BY <1>1, <1>2, <1>9 DEF CodecTypes
<1>12. /\ st \in [1..(n + 1) -> Nat] /\ st[1] = 0 /\ st[n + 1] = Len(s)
       /\ \A i \in 1..n : OwnFrame(sent[i]) /\ Valid(sent[i]) /\ Written(s, st[i], st[i + 1], sent[i])
  BY <1>3, <1>7, <1>9 DEF SentAt
<1>13. PICK su : su = [i \in 1..((n + 1) + 1) |-> IF i = (n + 1) + 1 THEN m ELSE st[i]]
  OBVIOUS
<1>14. /\ su \in [1..((n + 1) + 1) -> Nat] /\ su[(n + 1) + 1] = m
       /\ \A i \in 1..(n + 1) : su[i] = st[i]
  <2>1. \A i \in 1..((n + 1) + 1) : i = (n + 1) + 1 \/ i \in 1..(n + 1)
    OBVIOUS
  <2>2. \A i \in 1..(n + 1) : st[i] \in Nat /\ i # (n + 1) + 1 /\ i \in 1..((n + 1) + 1)
    BY <1>12
  <2>3. (n + 1) + 1 \in 1..((n + 1) + 1)
    OBVIOUS
  <2> QED
    BY <1>13, <2>1, <2>2, <2>3
<1>15. ASSUME NEW i \in 1..(n + 1)
       PROVE  OwnFrame(sent'[i]) /\ Valid(sent'[i]) /\ Written(s \o t, su[i], su[i + 1], sent'[i])
  <2>1. CASE i = n + 1
    <3>1. Written(s \o t, Len(s), Len(s \o t), f)
      BY <1>5, <1>6, WrittenBehind
    <3>2. su[i] = Len(s) /\ su[i + 1] = Len(s \o t) /\ sent'[i] = f
      BY <1>10, <1>11, <1>12, <1>14, <2>1
    <3> QED
      BY <1>4, <3>1, <3>2
  <2>2. CASE i # n + 1
    <3>1. i \in 1..n /\ i + 1 \in 1..(n + 1) /\ i \in 1..(n + 1)
      BY <2>2
    <3>2. PICK a, e \in Nat : a = st[i] /\ e = st[i + 1]
      BY <1>12, <3>1
    <3>3. PICK g : g = sent[i]
      OBVIOUS
    <3>4. OwnFrame(g) /\ Valid(g) /\ Written(s, a, e, g)
      BY <1>12, <3>1, <3>2, <3>3
    <3>5. Written(s \o t, a, e, g)
      BY <3>4, WrittenKept
    <3>6. su[i] = a /\ su[i + 1] = e /\ sent'[i] = g
      BY <1>11, <1>14, <3>1, <3>2, <3>3
    <3> QED
      BY <3>4, <3>5, <3>6
  <2> QED
    BY <2>1, <2>2
<1>16. SentAt(su)'
  <2>1. su[1] = 0
    <3>1. 1 \in 1..(n + 1)
      OBVIOUS
    <3> QED
      BY <1>12, <1>14, <3>1
  <2>2. \A i \in 1..Len(sent') :
          OwnFrame(sent'[i]) /\ Valid(sent'[i]) /\ Written(Wrote', su[i], su[i + 1], sent'[i])
    BY <1>8, <1>11, <1>15
  <2>3. su \in [1..(Len(sent') + 1) -> Nat] /\ su[Len(sent') + 1] = Len(Wrote')
    BY <1>8, <1>10, <1>11, <1>14
  <2> QED
    BY <2>1, <2>2, <2>3 DEF SentAt
<1>17. CutAt(su)'
  <2>1. ASSUME NEW i \in 1..Len(cuts), NoGoAway(i - 1)' PROVE i <= (n + 1) + 1 /\ cuts[i] = su[i]
    <3>1. NoGoAway(i - 1)
      <4>1. ASSUME NEW j \in 1..n, j <= i - 1 PROVE sent[j].typ # GoAway
        <5>1. j \in 1..(n + 1)
          OBVIOUS
        <5>2. sent'[j].typ # GoAway
          BY <1>11, <2>1, <4>1, <5>1 DEF NoGoAway
        <5> QED
          BY <1>11, <4>1, <5>2
      <4> QED
        BY <1>9, <4>1 DEF NoGoAway
    <3>2. i <= n + 1 /\ cuts[i] = st[i]
      BY <1>3, <1>9, <2>1, <3>1 DEF CutAt
    <3>3. i \in 1..(n + 1)
      BY <3>2
    <3> QED
      BY <1>14, <3>2, <3>3
  <2> QED
    BY <1>2, <1>11, <2>1 DEF CutAt
<1> QED
  BY <1>16, <1>17

\* The encoder refuses only a GOAWAY with a short message.
LEMMA RefusedShort ==
  ASSUME NEW f, OwnFrame(f), ~Valid(f)
  PROVE  f.typ = GoAway /\ Len(f.data) < 2 * WordLen
<1>1. f.typ \in {Rst, Data, WndInc, GoAway}
  BY OwnFits
<1>2. CASE f.typ = Data
  <2>1. f.id # 0
    BY <1>2, OwnData
  <2> QED
    BY <1>2, <2>1 DEF Valid, Rst, Data, WndInc, GoAway
<1>3. CASE f.typ \in {Rst, WndInc}
  <2>1. f.id \in 1..STREAMID_MAX /\ f.length = WordLen
    BY <1>3, OwnWord
  <2> QED
    BY <1>3, <2>1 DEF Valid, Rst, Data, WndInc, GoAway
<1>4. CASE f.typ = GoAway
  <2>1. f.id = 0 /\ f.length = Len(f.data) /\ f.data \in Seq(Bytes)
    BY <1>4, OwnGoAway
  <2>2. ~(f.length >= 2 * WordLen)
    BY <1>4, <2>1 DEF Valid, Rst, Data, WndInc, GoAway
  <2>3. Len(f.data) \in Nat /\ 2 * WordLen \in Nat
    BY <2>1, WordIs
  <2> QED
    BY <1>4, <2>1, <2>2, <2>3
<1> QED
  BY <1>1, <1>2, <1>3, <1>4

\* A step that writes and decodes nothing.
LEMMA NothingSent ==
  ASSUME SentInv, peer' = peer, sent' = sent, cuts' = cuts, Wrote' = Wrote
  PROVE  SentInv'
<1> SUFFICES ASSUME peer' = "own" PROVE \E st : SentAt(st)' /\ CutAt(st)'
  BY DEF SentInv
<1>1. PICK st : SentAt(st) /\ CutAt(st)
  BY DEF SentInv
<1>2. SentAt(st)' /\ CutAt(st)'
  BY <1>1 DEF SentAt, CutAt, NoGoAway, Written
<1> QED
  BY <1>2

\* Encoder::encode.
LEMMA EncodePreserves ==
  ASSUME PreserveInv, NEW f \in Own, Encode(f)
  PROVE  SentInv' /\ RefusesShortGoAway'
<1>1. CASE Valid(f)
  <2>1. SentInv'
    BY <1>1, EncodeSends
  <2>2. refused' = refused
    BY <1>1 DEF Encode
  <2> QED
    BY <2>1, <2>2 DEF PreserveInv, RefusesShortGoAway
<1>2. CASE ~Valid(f)
  <2>1. refused' = <<f>> /\ UNCHANGED <<peer, sent, cuts, wire, arrived>>
    BY <1>2 DEF Encode
  <2>2. SentInv'
    BY <2>1, NothingSent DEF PreserveInv, Wrote
  <2>3. f.typ = GoAway /\ Len(f.data) < 2 * WordLen
    BY <1>2, OwnAssumption, RefusedShort
  <2>4. refused'[1] = f
    BY <2>1
  <2> QED
    BY <2>2, <2>3, <2>4 DEF RefusesShortGoAway
<1> QED
  BY <1>1, <1>2

\* Bytes arrive: all bytes written stay the same.
LEMMA ArrivePreserves ==
  ASSUME PreserveInv, NEW n \in 1..Len(wire), Arrive(n)
  PROVE  SentInv' /\ RefusesShortGoAway'
<1>1. CodecTypes
  BY DEF PreserveInv, DecodeInv
<1>2. PICK s, w \in Seq(Bytes) : s = arrived /\ w = wire
  BY <1>1, SentIs
<1>3. PICK a, b : a = SubSeq(w, 1, n) /\ b = SubSeq(w, n + 1, Len(w))
  OBVIOUS
<1>4. arrived' = s \o a /\ wire' = b /\ UNCHANGED <<peer, sent, refused, cuts>>
  BY <1>2, <1>3 DEF Arrive
<1>5. a \in Seq(Bytes) /\ b \in Seq(Bytes) /\ a \o b = w
  <2>1. n \in 0..Len(w)
    BY <1>2
  <2> QED
    BY <1>3, <2>1, SplitAt
<1>6. (s \o a) \o b = s \o (a \o b)
  <2>1. a \in Seq(Bytes) /\ b \in Seq(Bytes)
    BY <1>5
  <2> QED
    <3>1. Associates(s, a, b)
      BY <2>1, BytesAssociate
    <3> QED
      BY <3>1 DEF Associates
<1>7. Wrote' = Wrote
  BY <1>2, <1>4, <1>5, <1>6 DEF Wrote
<1>8. SentInv'
  BY <1>4, <1>7, NothingSent DEF PreserveInv
<1> QED
  BY <1>4, <1>8 DEF PreserveInv, RefusesShortGoAway

\* A frame is cut out: it ends where the frame that was written ends, unless
\* that was a GOAWAY.
LEMMA BodyPreserves ==
  ASSUME PreserveInv, DecodeBody, DecodeInv'
  PROVE  SentInv' /\ RefusesShortGoAway'
<1>1. CodecTypes /\ CodecTypes' /\ CutsInv'
  BY DEF PreserveInv, DecodeInv
<1>2. UNCHANGED <<peer, sent, refused, wire, arrived>>
  BY DEF DecodeBody
<1>3. PICK g, c : got' = Append(got, g) /\ cuts' = Append(cuts, c)
  BY DEF DecodeBody
<1>4. PICK n \in Nat : n = Len(got) /\ Len(cuts) = n + 1
  BY <1>1, SentIs
<1>5. Len(got') = n + 1 /\ Len(cuts') = n + 2 /\ \A i \in 1..(n + 1) : cuts'[i] = cuts[i]
  <2>1. Len(got') = n + 1
    BY <1>1, <1>3, <1>4 DEF CodecTypes
  <2>2. Len(cuts') = n + 2 /\ \A i \in 1..(n + 1) : cuts'[i] = cuts[i]
    BY <1>1, <1>3, <1>4 DEF CodecTypes
  <2> QED
    BY <2>1, <2>2
<1>6. ASSUME peer' = "own" PROVE \E st : SentAt(st)' /\ CutAt(st)'
  <2>1. PICK st : SentAt(st) /\ CutAt(st)
    BY <1>2, <1>6 DEF PreserveInv, SentInv
  <2>2. SentAt(st)'
    BY <1>2, <2>1 DEF SentAt, Wrote, Written
  <2>3. ASSUME NEW i \in 1..(n + 2), NoGoAway(i - 1)
        PROVE  i <= Len(sent) + 1 /\ cuts'[i] = st[i]
    <3>1. CASE i \in 1..(n + 1)
      BY <1>4, <1>5, <2>1, <2>3, <3>1 DEF CutAt
    <3>2. CASE i = n + 2
      <4>1. PICK k \in Nat : k = n + 1 /\ k \in 1..(n + 1) /\ i = k + 1
        BY <3>2
      <4>2. NoGoAway(k - 1)
        BY <2>3, <4>1 DEF NoGoAway
      <4>3. k <= Len(sent) + 1 /\ cuts[k] = st[k]
        BY <1>4, <2>1, <4>1, <4>2 DEF CutAt
      <4>4. PICK b \in Nat : b = cuts'[k + 1]
        <5>1. k + 1 \in 1..Len(cuts') /\ cuts' \in Seq(Nat)
          BY <1>1, <1>5, <4>1 DEF CodecTypes
        <5> QED
          BY <5>1
      <4>5. k \in 1..Len(sent) /\ (sent[k].typ # GoAway => b = st[k + 1])
        <5>1. IsCut(arrived', cuts'[k], cuts'[k + 1], got'[k])
          <6>1. k \in 1..Len(got')
            BY <1>5, <4>1
          <6>2. \A j \in 1..Len(got') : IsCut(arrived', cuts'[j], cuts'[j + 1], got'[j])
            BY <1>1 DEF CutsInv, IsCut
          <6> QED
            BY <6>1, <6>2
        <5>2. cuts'[k] = st[k] /\ arrived' = arrived
          BY <1>2, <1>5, <4>1, <4>3
        <5>3. PICK x : IsCut(arrived, st[k], b, x)
          BY <4>4, <5>1, <5>2
        <5>4. k \in 1..(Len(sent) + 1)
          BY <1>1, <4>1, <4>3, SentIs
        <5> QED
          BY <1>1, <2>1, <5>3, <5>4, CutIsSent
      <4>6. sent[k].typ # GoAway
        <5>1. k \in 1..Len(sent) /\ k <= i - 1
          BY <4>1, <4>5
        <5> QED
          BY <2>3, <5>1 DEF NoGoAway
      <4>7. i <= Len(sent) + 1
        BY <1>1, <4>1, <4>5, SentIs
      <4> QED
        BY <4>1, <4>4, <4>5, <4>6, <4>7
    <3> QED
      BY <3>1, <3>2
  <2>4. CutAt(st)'
    BY <1>2, <1>5, <2>3 DEF CutAt, NoGoAway
  <2> QED
    BY <2>2, <2>4
<1>7. SentInv'
  BY <1>6 DEF SentInv
<1> QED
  BY <1>2, <1>7 DEF PreserveInv, RefusesShortGoAway

\* Every step keeps the invariant of both ends.
LEMMA NextPreserves ==
  ASSUME PreserveInv, [Next]_vars
  PROVE  PreserveInv'
<1>1. DecodeInv'
  BY NextDecodes DEF PreserveInv
<1>2. CASE \E f \in Own : Encode(f)
  BY <1>1, <1>2, EncodePreserves DEF PreserveInv
<1>3. CASE \E bs \in Foreign : Send(bs)
  <2>1. peer = "foreign" /\ peer' = peer /\ refused' = refused
    BY <1>3 DEF Send
  <2>2. SentInv'
    BY <2>1 DEF SentInv
  <2> QED
    BY <1>1, <2>1, <2>2 DEF PreserveInv, RefusesShortGoAway
<1>4. CASE \E n \in 1..Len(wire) : Arrive(n)
  BY <1>1, <1>4, ArrivePreserves DEF PreserveInv
<1>5. CASE DecodeHead \/ UNCHANGED vars
  <2>1. UNCHANGED <<peer, sent, refused, wire, arrived, cuts>>
    BY <1>5 DEF DecodeHead, vars
  <2>2. SentInv'
    BY <2>1, NothingSent DEF PreserveInv, Wrote
  <2> QED
    BY <1>1, <2>1, <2>2 DEF PreserveInv, RefusesShortGoAway
<1>6. CASE DecodeBody
  BY <1>1, <1>6, BodyPreserves DEF PreserveInv
<1> QED
  BY <1>2, <1>3, <1>4, <1>5, <1>6 DEF Next, DecodeStep

\* Whatever frames the session sends, at the limits of their widths too, its peer
\* decodes the same frames in the same order up to the first GOAWAY, and the
\* encoder refuses none but a GOAWAY with a message shorter than two words.
THEOREM CodecPreserves == Spec => []Preserves
<1>1. Init => PreserveInv
  BY InitPreserves
<1>2. PreserveInv /\ [Next]_vars => PreserveInv'
  BY NextPreserves
<1>3. PreserveInv => Preserves
  BY InvPreserves
<1> QED
  BY <1>1, <1>2, <1>3, PTL DEF Spec
=============================================================================
