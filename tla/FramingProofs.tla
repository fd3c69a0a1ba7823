--------------------------- MODULE FramingProofs ---------------------------
(***************************************************************************)
(* Proofs about Framing, for all packets, any number of them and any       *)
(* number of faults: the types of its state, that the buffer of a parser   *)
(* is large enough after one fault, wherever it happens, that a fault      *)
(* costs one packet at most, that packets which come through whole are     *)
(* handled as they were sent, and that a line without faults is exact.     *)
(*                                                                         *)
(* They label each byte on the line with what it means in its frame, and   *)
(* compare the parser with the label of the byte it reads next.            *)
(***************************************************************************)
EXTENDS Framing, FiniteSetTheorems, TLAPS

-----------------------------------------------------------------------------
(* Induction, and the recursive definitions in the checksum and the stuffing *)

(* A set that holds 0, and n + 1 if it holds n, holds every number.  If it did
   not hold x, those up to x that it does hold could be counted again from
   1: too many for one place less.                                          *)
LEMMA InductionOnSet ==
    ASSUME NEW S, 0 \in S, \A n \in Nat : n \in S => n + 1 \in S
    PROVE  Nat \subseteq S
  <1> SUFFICES ASSUME NEW x \in Nat, x \notin S PROVE FALSE
    OBVIOUS
  <1> DEFINE T == S \cap 0 .. x
             U == T \ {0}
             f == [n \in T |-> n + 1]
  <1>1. IsFiniteSet(T) /\ Cardinality(T) \in Nat
    <2>1. IsFiniteSet(0 .. x)
      BY FS_Interval
    <2> QED
      BY <2>1, FS_Subset, FS_CardinalityType
  <1>2. 0 \in T
    OBVIOUS
  <1>3. IsFiniteSet(U) /\ Cardinality(U) = Cardinality(T) - 1
    BY <1>1, <1>2, FS_RemoveElement
  <1>4. f \in [T -> U]
    <2> SUFFICES ASSUME NEW n \in T PROVE n + 1 \in T /\ n + 1 # 0
      OBVIOUS
    <2>1. n \in Nat /\ n # x /\ n \in S /\ n <= x
      OBVIOUS
    <2> QED
      BY <2>1
  <1>5. \A m, n \in T : m # n => f[m] # f[n]
    OBVIOUS
  <1> HIDE DEF T, U, f
  <1> QED
    BY <1>1, <1>3, <1>4, <1>5, FS_PigeonHole

(* The recursive function in FlattenSeq exists: one on 1 .. k + 1 adds a value
   to one on 1 .. k.                                                        *)
IsFlatten(F, s, k) ==
    F = [i \in 1 .. k |-> IF i = 1 THEN s[i] ELSE F[i-1] \o s[i]]

LEMMA FlattenUnfolds ==
    ASSUME NEW s, NEW n \in Nat \ {0}, Len(s) = n
    PROVE  \E F : IsFlatten(F, s, n) /\ FlattenSeq(s) = F[n]
  <1> DEFINE S == {k \in Nat : \E F : IsFlatten(F, s, k)}
  <1>1. 0 \in S
    <2>1. IsFlatten([i \in 1 .. 0 |-> 0], s, 0)
      BY DEF IsFlatten
    <2> QED
      BY <2>1
  <1>2. ASSUME NEW k \in Nat, k \in S PROVE k + 1 \in S
    <2>1. PICK F : IsFlatten(F, s, k)
      BY <1>2
    <2> DEFINE x == IF k = 0 THEN s[1] ELSE F[k] \o s[k + 1]
               G == [i \in 1 .. k + 1 |-> IF i = k + 1 THEN x ELSE F[i]]
    <2>2. ASSUME NEW i \in 1 .. k + 1
          PROVE  G[i] = IF i = 1 THEN s[i] ELSE G[i-1] \o s[i]
      <3>1. CASE i = k + 1
        <4>1. k # 0 => k \in 1 .. k + 1 /\ k # k + 1
          OBVIOUS
        <4> QED
          BY <3>1, <4>1
      <3>2. CASE i # k + 1
        <4>1. i \in 1 .. k /\ (i # 1 => i - 1 \in 1 .. k + 1 /\ i - 1 # k + 1)
          BY <3>2
        <4>2. G[i] = F[i] /\ (i # 1 => G[i - 1] = F[i - 1])
          BY <3>2, <4>1
        <4>3. F[i] = IF i = 1 THEN s[i] ELSE F[i-1] \o s[i]
          BY <2>1, <4>1 DEF IsFlatten
        <4> QED
          BY <4>2, <4>3
      <3> QED
        BY <3>1, <3>2
    <2>3. IsFlatten(G, s, k + 1)
      <3>1. G = [i \in 1 .. k + 1 |-> G[i]]
        OBVIOUS
      <3> HIDE DEF G
      <3> QED
        BY <2>2, <3>1 DEF IsFlatten
    <2> QED
      BY <2>3
  <1> HIDE DEF S
  <1>3. n \in S
    BY <1>1, <1>2, InductionOnSet
  <1>4. \E F : IsFlatten(F, s, n)
    BY <1>3 DEF S
  <1> QED
    BY <1>4 DEF IsFlatten, FlattenSeq

LEMMA FlattenStep ==
    ASSUME NEW s, NEW n \in Nat, NEW F, IsFlatten(F, s, n), NEW k \in Nat, k + 1 <= n
    PROVE  F[k + 1] = IF k = 0 THEN s[k + 1] ELSE F[k] \o s[k + 1]
  <1>1. \A i \in 1 .. n : F[i] = IF i = 1 THEN s[i] ELSE F[i-1] \o s[i]
    BY DEF IsFlatten
  <1>2. k + 1 \in 1 .. n /\ (k + 1) - 1 = k /\ (k + 1 = 1 <=> k = 0)
    OBVIOUS
  <1> QED
    BY <1>1, <1>2

(* The recursive function in FoldLeft exists too: on the sets of places below
   k + 1 it takes the place k + 1 last.                                     *)
LEMMA MaxOfInterval ==
    ASSUME NEW k \in Nat, NEW T \in SUBSET (1 .. k + 1), k + 1 \in T
    PROVE  Max(T) = k + 1 /\ T \ {k + 1} \in SUBSET (1 .. k)
  <1>1. \A y \in T : k + 1 >= y /\ y \in Nat
    OBVIOUS
  <1>2. \E x \in T : \A y \in T : x >= y
    BY <1>1
  <1>3. Max(T) \in T /\ \A y \in T : Max(T) >= y
    BY <1>2 DEF Max
  <1>4. ASSUME NEW m \in T, \A y \in T : m >= y PROVE m = k + 1
    <2>1. m \in Int /\ m <= k + 1 /\ m >= k + 1
      BY <1>4
    <2> QED
      BY <2>1
  <1>5. Max(T) = k + 1
    BY <1>3, <1>4
  <1>6. T \ {k + 1} \in SUBSET (1 .. k)
    OBVIOUS
  <1> QED
    BY <1>5, <1>6

(* Two sums modulo 255. *)
Sums == (0 .. 254) \X (0 .. 254)
AddTo(sum, b) == <<(sum[1] + b) % 255, (sum[2] + sum[1] + b) % 255>>

LEMMA AddToType ==
    ASSUME NEW sum \in Sums, NEW b \in Byte
    PROVE  AddTo(sum, b) \in Sums
  <1>1. sum[1] \in Nat /\ sum[2] \in Nat /\ b \in Nat
    BY DEF Sums, Byte
  <1>2. \A x \in Nat : x % 255 \in 0 .. 254
    OBVIOUS
  <1>3. (sum[1] + b) % 255 \in 0 .. 254 /\ (sum[2] + sum[1] + b) % 255 \in 0 .. 254
    <2>1. sum[1] + b \in Nat /\ sum[2] + sum[1] + b \in Nat
      BY <1>1
    <2> QED
      BY <1>2, <2>1
  <1> QED
    BY <1>3 DEF AddTo, Sums

IsFletcher(F, s, k) ==
    F = [T \in SUBSET (1 .. k) |->
            IF T = {} THEN <<0, 0>> ELSE AddTo(F[T \ {Max(T)}], s[Max(T)])]

LEMMA FletcherExists ==
    ASSUME NEW s, NEW n \in Nat, s \in [1 .. n -> Byte]
    PROVE  \E F : IsFletcher(F, s, n)
  <1> DEFINE S == {k \in Nat : \E F : IsFletcher(F, s, k)}
  <1>1. 0 \in S
    <2> DEFINE F == [T \in SUBSET (1 .. 0) |-> <<0, 0>>]
    <2>1. \A T \in SUBSET (1 .. 0) : T = {}
      OBVIOUS
    <2>2. IsFletcher(F, s, 0)
      BY <2>1 DEF IsFletcher
    <2> QED
      BY <2>2
  <1>2. ASSUME NEW k \in Nat, k \in S PROVE k + 1 \in S
    <2>1. PICK F : IsFletcher(F, s, k)
      BY <1>2
    <2> DEFINE G == [T \in SUBSET (1 .. k + 1) |->
                        IF k + 1 \in T THEN AddTo(F[T \ {k + 1}], s[k + 1]) ELSE F[T]]
    <2>2. ASSUME NEW T \in SUBSET (1 .. k + 1)
          PROVE  G[T] = IF T = {} THEN <<0, 0>> ELSE AddTo(G[T \ {Max(T)}], s[Max(T)])
      <3>1. CASE k + 1 \in T
        <4>1. Max(T) = k + 1 /\ T \ {k + 1} \in SUBSET (1 .. k + 1)
          BY <3>1, MaxOfInterval
        <4>2. G[T \ {k + 1}] = F[T \ {k + 1}]
          BY <4>1
        <4>3. G[T] = AddTo(F[T \ {k + 1}], s[k + 1])
          BY <3>1
        <4> QED
          BY <3>1, <4>1, <4>2, <4>3
      <3>2. CASE k + 1 \notin T
        <4>1. T \in SUBSET (1 .. k)
          BY <3>2
        <4>2. G[T] = F[T]
          BY <3>2
        <4>3. F[T] = IF T = {} THEN <<0, 0>> ELSE AddTo(F[T \ {Max(T)}], s[Max(T)])
          BY <2>1, <4>1 DEF IsFletcher
        <4>4. G[T \ {Max(T)}] = F[T \ {Max(T)}]
          BY <3>2, <4>1
        <4> HIDE DEF G
        <4> QED
          BY <4>2, <4>3, <4>4
      <3> QED
        BY <3>1, <3>2
    <2>3. IsFletcher(G, s, k + 1)
      <3>1. G = [T \in SUBSET (1 .. k + 1) |-> G[T]]
        OBVIOUS
      <3> HIDE DEF G
      <3> QED
        BY <2>2, <3>1, Zenon DEF IsFletcher
    <2> QED
      BY <2>3
  <1> HIDE DEF S
  <1>3. n \in S
    BY <1>1, <1>2, InductionOnSet
  <1> QED
    BY <1>3 DEF S

LEMMA FletcherType ==
    ASSUME NEW n \in Nat, NEW s \in [1 .. n -> Byte], NEW F, IsFletcher(F, s, n)
    PROVE  F[1 .. n] \in Sums
  <1> DEFINE S == {k \in Nat : k <= n => \A T \in SUBSET (1 .. k) : F[T] \in Sums}
  <1>1. 0 \in S
    <2>1. ASSUME NEW T \in SUBSET (1 .. 0) PROVE F[T] \in Sums
      <3>1. T = {} /\ T \in SUBSET (1 .. n)
        OBVIOUS
      <3>2. F[T] = <<0, 0>>
        BY <3>1 DEF IsFletcher
      <3> QED
        BY <3>2 DEF Sums
    <2> QED
      BY <2>1
  <1>2. ASSUME NEW k \in Nat, k \in S PROVE k + 1 \in S
    <2> SUFFICES ASSUME k + 1 <= n, NEW T \in SUBSET (1 .. k + 1) PROVE F[T] \in Sums
      OBVIOUS
    <2>1. \A U \in SUBSET (1 .. k) : F[U] \in Sums
      BY <1>2
    <2>2. CASE k + 1 \in T
      <3>1. Max(T) = k + 1 /\ T \ {k + 1} \in SUBSET (1 .. k)
        BY <2>2, MaxOfInterval
      <3>2. T \in SUBSET (1 .. n) /\ T # {}
        BY <2>2
      <3>3. F[T] = AddTo(F[T \ {k + 1}], s[k + 1])
        BY <3>1, <3>2 DEF IsFletcher
      <3>4. s[k + 1] \in Byte
        OBVIOUS
      <3> QED
        BY <2>1, <3>1, <3>3, <3>4, AddToType
    <2>3. CASE k + 1 \notin T
      <3>1. T \in SUBSET (1 .. k)
        BY <2>3
      <3> QED
        BY <2>1, <3>1
    <2> QED
      BY <2>2, <2>3
  <1> HIDE DEF S
  <1>3. n \in S
    BY <1>1, <1>2, InductionOnSet
  <1> QED
    BY <1>3 DEF S

LEMMA ChecksumUnfolds ==
    ASSUME NEW n \in Nat, NEW s \in [1 .. n -> Byte]
    PROVE  \E F : IsFletcher(F, s, n) /\ Checksum(s) = F[1 .. n][1] + 256 * F[1 .. n][2]
  <1> DEFINE iter == CHOOSE F : F = [T \in SUBSET (1 .. n) |->
                         IF T = {} THEN <<0, 0>>
                         ELSE <<(F[T \ {Max(T)}][1] + s[Max(T)]) % 255,
                                (F[T \ {Max(T)}][2] + F[T \ {Max(T)}][1] + s[Max(T)]) % 255>>]
  <1>1. DOMAIN s = 1 .. n
    OBVIOUS
  <1>2. Checksum(s) = iter[1 .. n][1] + 256 * iter[1 .. n][2]
    BY <1>1 DEF Checksum, FoldLeft, MapThenFoldSet
  <1>3. \E F : IsFletcher(F, s, n)
    BY FletcherExists
  <1>4. IsFletcher(iter, s, n)
    BY <1>3, Zenon DEF IsFletcher, AddTo
  <1> QED
    BY <1>2, <1>4

LEMMA TwoBytes ==
    ASSUME NEW x \in Nat, NEW y \in Nat, x <= 254, y <= 254
    PROVE  /\ x + 256 * y \in Nat /\ x + 256 * y <= 65535
           /\ Le16(x + 256 * y) \in [1 .. 2 -> Byte]
           /\ Le16(x + 256 * y)[1] + 256 * Le16(x + 256 * y)[2] = x + 256 * y
  <1> DEFINE u == x + 256 * y
  <1>1. u \in Nat
    OBVIOUS
  <1>2. u <= 65535
    OBVIOUS
  <1> HIDE DEF u
  <1>3. u % 256 \in Byte
    BY <1>1 DEF Byte
  <1>4. u \div 256 \in Int /\ u \div 256 >= 0
    BY <1>1
  <1>5. u \div 256 <= 255
    BY <1>1, <1>2
  <1>6. u \div 256 \in Byte
    BY <1>4, <1>5 DEF Byte
  <1>7. Le16(u) \in [1 .. 2 -> Byte]
    BY <1>3, <1>6 DEF Le16
  <1>8. (u % 256) + 256 * (u \div 256) = u
    BY <1>1
  <1>9. Le16(u)[1] + 256 * Le16(u)[2] = u
    BY <1>8 DEF Le16
  <1> QED
    BY <1>1, <1>2, <1>7, <1>9 DEF u

LEMMA ChecksumType ==
    ASSUME NEW n \in Nat, NEW s \in [1 .. n -> Byte]
    PROVE  /\ Checksum(s) \in Nat /\ Checksum(s) <= 65535
           /\ Le16(Checksum(s)) \in [1 .. 2 -> Byte]
           /\ Le16(Checksum(s))[1] + 256 * Le16(Checksum(s))[2] = Checksum(s)
  <1>1. PICK F : IsFletcher(F, s, n) /\ Checksum(s) = F[1 .. n][1] + 256 * F[1 .. n][2]
    BY ChecksumUnfolds
  <1> DEFINE sum == F[1 .. n]
  <1>2. sum \in Sums
    BY <1>1, FletcherType
  <1>3. Checksum(s) = sum[1] + 256 * sum[2]
    BY <1>1
  <1> HIDE DEF sum
  <1>4. sum[1] \in 0 .. 254 /\ sum[2] \in 0 .. 254
    BY <1>2 DEF Sums
  <1>5. PICK x \in 0 .. 254, y \in 0 .. 254 : Checksum(s) = x + 256 * y
    BY <1>3, <1>4, Zenon
  <1>6. x \in Nat /\ x <= 254 /\ y \in Nat /\ y <= 254
    OBVIOUS
  <1> DEFINE u == x + 256 * y
  <1>7. /\ u \in Nat /\ u <= 65535 /\ Le16(u) \in [1 .. 2 -> Byte]
        /\ Le16(u)[1] + 256 * Le16(u)[2] = u
    BY <1>6, TwoBytes
  <1>8. Checksum(s) = u
    BY <1>5
  <1> HIDE DEF u
  <1> QED
    BY <1>7, <1>8, SMT

-----------------------------------------------------------------------------
(* The packet classes *)

LEMMA ConcatFacts ==
    ASSUME NEW S, NEW s \in Seq(S), NEW t \in Seq(S)
    PROVE  /\ s \o t \in Seq(S) /\ Len(s \o t) = Len(s) + Len(t)
           /\ \A i \in 1 .. Len(s) : (s \o t)[i] = s[i]
           /\ \A i \in 1 .. Len(s) + Len(t) : i > Len(s) => (s \o t)[i] = t[i - Len(s)]
  OBVIOUS

(* The powers of two in a byte, and what they add up to. *)
Powers == {1, 2, 4, 8, 16, 32, 64, 128}
If(s, x) == IF x \in s THEN x ELSE 0
Total(s) == If(s, 1) + If(s, 2) + If(s, 4) + If(s, 8)
                + If(s, 16) + If(s, 32) + If(s, 64) + If(s, 128)

LEMMA TotalStep ==
    ASSUME NEW s \in SUBSET Powers, NEW x \in s
    PROVE  Total(s) = x + Total(s \ {x})
  <1>1. ASSUME NEW y \in Nat
        PROVE  /\ If(s, y) \in Nat
               /\ If(s \ {x}, y) = IF y = x THEN 0 ELSE If(s, y)
               /\ If(s, x) = x
    BY DEF If
  <1>2. x \in {1, 2, 4, 8, 16, 32, 64, 128}
    BY DEF Powers
  <1>3. /\ If(s, 1) \in Nat /\ If(s, 2) \in Nat /\ If(s, 4) \in Nat /\ If(s, 8) \in Nat
        /\ If(s, 16) \in Nat /\ If(s, 32) \in Nat /\ If(s, 64) \in Nat /\ If(s, 128) \in Nat
    BY <1>1
  <1>4. If(s, x) = x
    BY <1>1
  <1>5. /\ If(s \ {x}, 1) = IF 1 = x THEN 0 ELSE If(s, 1)
        /\ If(s \ {x}, 2) = IF 2 = x THEN 0 ELSE If(s, 2)
        /\ If(s \ {x}, 4) = IF 4 = x THEN 0 ELSE If(s, 4)
        /\ If(s \ {x}, 8) = IF 8 = x THEN 0 ELSE If(s, 8)
        /\ If(s \ {x}, 16) = IF 16 = x THEN 0 ELSE If(s, 16)
        /\ If(s \ {x}, 32) = IF 32 = x THEN 0 ELSE If(s, 32)
        /\ If(s \ {x}, 64) = IF 64 = x THEN 0 ELSE If(s, 64)
        /\ If(s \ {x}, 128) = IF 128 = x THEN 0 ELSE If(s, 128)
    BY <1>1
  <1> QED
    BY <1>2, <1>3, <1>4, <1>5 DEF Total

(* The recursive function in SumSet: whichever element it takes first. *)
IsSum(F, S) ==
    F = [s \in SUBSET S |->
            IF s = {} THEN 0 ELSE (CHOOSE x \in s : TRUE) + F[s \ {CHOOSE x \in s : TRUE}]]

LEMMA SumExists == ASSUME NEW S \in SUBSET Powers PROVE \E F : IsSum(F, S)
  <1> DEFINE F == [s \in SUBSET S |-> Total(s)]
  <1>1. ASSUME NEW s \in SUBSET S
        PROVE  F[s] = IF s = {} THEN 0
                      ELSE (CHOOSE x \in s : TRUE) + F[s \ {CHOOSE x \in s : TRUE}]
    <2>1. CASE s = {}
      BY <2>1 DEF Total, If
    <2>2. CASE s # {}
      <3> DEFINE x == CHOOSE x \in s : TRUE
      <3>1. x \in s
        BY <2>2
      <3> HIDE DEF x
      <3>2. Total(s) = x + Total(s \ {x})
        BY <3>1, TotalStep
      <3>3. F[s] = x + F[s \ {x}]
        BY <3>2
      <3> QED
        BY <2>2, <3>3 DEF x
    <2> QED
      BY <2>1, <2>2
  <1>2. F = [s \in SUBSET S |-> F[s]]
    OBVIOUS
  <1> HIDE DEF F
  <1>3. IsSum(F, S)
    BY <1>1, <1>2, Zenon DEF IsSum
  <1> QED
    BY <1>3

LEMMA SumIsTotal ==
    ASSUME NEW S \in SUBSET Powers, NEW F, IsSum(F, S)
    PROVE  F[S] = Total(S)
  <1>1. IsFiniteSet(Powers)
    <2>1. IsFiniteSet(1 .. 128)
      <3>1. 1 \in Int /\ 128 \in Int
        OBVIOUS
      <3> QED
        BY <3>1, FS_Interval, Zenon
    <2>2. Powers \subseteq 1 .. 128
      BY DEF Powers
    <2> QED
      BY <2>1, <2>2, FS_Subset
  <1>2. \A s \in SUBSET S : IsFiniteSet(s) /\ Cardinality(s) \in Nat
    BY <1>1, FS_Subset, FS_CardinalityType
  <1>3. \A s \in SUBSET S : F[s] = IF s = {} THEN 0
            ELSE (CHOOSE x \in s : TRUE) + F[s \ {CHOOSE x \in s : TRUE}]
    BY Zenon DEF IsSum
  <1> DEFINE N == {n \in Nat : \A s \in SUBSET S : Cardinality(s) = n => F[s] = Total(s)}
  <1>4. ASSUME NEW s \in SUBSET S, s = {} PROVE F[s] = Total(s)
    BY <1>3, <1>4 DEF Total, If
  <1>5. 0 \in N
    <2>1. \A s \in SUBSET S : Cardinality(s) = 0 => s = {}
      BY <1>2, FS_EmptySet
    <2> QED
      BY <1>4, <2>1
  <1>6. ASSUME NEW n \in Nat, n \in N PROVE n + 1 \in N
    <2> SUFFICES ASSUME NEW s \in SUBSET S, Cardinality(s) = n + 1 PROVE F[s] = Total(s)
      OBVIOUS
    <2>1. s # {}
      BY <1>2, FS_EmptySet
    <2> DEFINE x == CHOOSE x \in s : TRUE
    <2>2. x \in s
      BY <2>1
    <2>3. F[s] = x + F[s \ {x}]
      BY <1>3, <2>1
    <2> HIDE DEF x
    <2>4. Cardinality(s \ {x}) = n /\ s \ {x} \in SUBSET S
      <3>1. Cardinality(s \ {x}) = Cardinality(s) - 1
        BY <1>2, <2>2, FS_RemoveElement
      <3> QED
        BY <3>1
    <2>5. F[s \ {x}] = Total(s \ {x})
      BY <1>6, <2>4
    <2> QED
      BY <2>2, <2>3, <2>5, TotalStep
  <1> HIDE DEF N
  <1>7. Cardinality(S) \in N
    BY <1>2, <1>5, <1>6, InductionOnSet
  <1> QED
    BY <1>7 DEF N

LEMMA SumOfPowers == ASSUME NEW S \in SUBSET Powers PROVE SumSet(S) = Total(S)
  <1> DEFINE iter == CHOOSE F : F = [s \in SUBSET S |->
                IF s = {} THEN 0
                ELSE (CHOOSE x \in s : TRUE) + F[s \ {CHOOSE x \in s : TRUE}]]
  <1>1. SumSet(S) = iter[S]
    BY DEF SumSet, FoldSet, MapThenFoldSet
  <1>2. \E F : IsSum(F, S)
    BY SumExists
  <1>3. IsSum(iter, S)
    BY <1>2, Zenon DEF IsSum
  <1> HIDE DEF iter
  <1> QED
    BY <1>1, <1>3, SumIsTotal

(* The bits of a sum of powers are those of its elements. *)
LEMMA BitsOfTotal ==
    ASSUME NEW s
    PROVE  /\ Total(s) \in Byte
           /\ \A x \in Powers : (Total(s) \div x) % 2 = 1 <=> x \in s
  <1> DEFINE d(x) == IF x \in s THEN 1 ELSE 0
  <1>1. /\ d(1) \in 0 .. 1 /\ d(2) \in 0 .. 1 /\ d(4) \in 0 .. 1 /\ d(8) \in 0 .. 1
        /\ d(16) \in 0 .. 1 /\ d(32) \in 0 .. 1 /\ d(64) \in 0 .. 1 /\ d(128) \in 0 .. 1
    OBVIOUS
  <1>2. Total(s) = d(1) + 2 * d(2) + 4 * d(4) + 8 * d(8) + 16 * d(16) + 32 * d(32)
                        + 64 * d(64) + 128 * d(128)
    BY DEF Total, If
  <1>3. \A x : d(x) = 1 <=> x \in s
    OBVIOUS
  <1> HIDE DEF d
  <1>4. ASSUME NEW a \in 0 .. 1, NEW b \in 0 .. 1, NEW c \in 0 .. 1, NEW e \in 0 .. 1,
               NEW f \in 0 .. 1, NEW g \in 0 .. 1, NEW h \in 0 .. 1, NEW i \in 0 .. 1
        PROVE  LET t == a + 2 * b + 4 * c + 8 * e + 16 * f + 32 * g + 64 * h + 128 * i
               IN  /\ t \in 0 .. 255
                   /\ (t \div 1) % 2 = a /\ (t \div 2) % 2 = b /\ (t \div 4) % 2 = c
                   /\ (t \div 8) % 2 = e /\ (t \div 16) % 2 = f /\ (t \div 32) % 2 = g
                   /\ (t \div 64) % 2 = h /\ (t \div 128) % 2 = i
    OBVIOUS
  <1>5. /\ Total(s) \in 0 .. 255
        /\ (Total(s) \div 1) % 2 = d(1) /\ (Total(s) \div 2) % 2 = d(2)
        /\ (Total(s) \div 4) % 2 = d(4) /\ (Total(s) \div 8) % 2 = d(8)
        /\ (Total(s) \div 16) % 2 = d(16) /\ (Total(s) \div 32) % 2 = d(32)
        /\ (Total(s) \div 64) % 2 = d(64) /\ (Total(s) \div 128) % 2 = d(128)
    BY <1>1, <1>2, <1>4
  <1>6. ASSUME NEW x \in Powers PROVE (Total(s) \div x) % 2 = d(x)
    <2>1. x \in {1, 2, 4, 8, 16, 32, 64, 128}
      BY DEF Powers
    <2> QED
      BY <1>5, <2>1, Zenon
  <1> QED
    BY <1>3, <1>5, <1>6 DEF Byte

LEMMA PowersOfTwo ==
    /\ 2 ^ 0 = 1 /\ 2 ^ 1 = 2 /\ 2 ^ 2 = 4 /\ 2 ^ 3 = 8
    /\ 2 ^ 4 = 16 /\ 2 ^ 5 = 32 /\ 2 ^ 6 = 64 /\ 2 ^ 7 = 128
  BY SMT

(* The power of each place in a byte. *)
Bit(k) == 2 ^ k

LEMMA Bits ==
    /\ \A k \in 0 .. 7 : Bit(k) \in Powers
    /\ \A j, k \in 0 .. 7 : Bit(j) = Bit(k) => j = k
  <1>1. /\ Bit(0) = 1 /\ Bit(1) = 2 /\ Bit(2) = 4 /\ Bit(3) = 8
        /\ Bit(4) = 16 /\ Bit(5) = 32 /\ Bit(6) = 64 /\ Bit(7) = 128
    BY PowersOfTwo DEF Bit
  <1>2. \A k \in 0 .. 7 : k \in {0, 1, 2, 3, 4, 5, 6, 7}
    OBVIOUS
  <1> QED
    BY <1>1, <1>2 DEF Powers

(* The bytes of an AddressField, and what is read from them. *)
LEMMA AddressByte ==
    ASSUME NEW addrs \in SUBSET Nat, NEW i \in Nat,
           NEW S, S = { Bit(a % 8) : a \in { b \in addrs : b \div 8 = i - 1 } }
    PROVE  /\ SumSet(S) \in Byte
           /\ \A a \in Nat : a \div 8 = i - 1 =>
                 ((SumSet(S) \div Bit(a % 8)) % 2 = 1 <=> a \in addrs)
  <1>1. \A a \in Nat : a % 8 \in 0 .. 7
    OBVIOUS
  <1>2. S \in SUBSET Powers
    BY <1>1, Bits
  <1>3. SumSet(S) = Total(S)
    BY <1>2, SumOfPowers
  <1>4. ASSUME NEW a \in Nat, a \div 8 = i - 1 PROVE Bit(a % 8) \in S <=> a \in addrs
    <2>1. ASSUME NEW b \in addrs, b \div 8 = i - 1, Bit(b % 8) = Bit(a % 8) PROVE b = a
      <3>1. b % 8 = a % 8
        BY <1>1, <2>1, Bits
      <3>2. b = 8 * (b \div 8) + (b % 8) /\ a = 8 * (a \div 8) + (a % 8)
        OBVIOUS
      <3> QED
        BY <1>4, <2>1, <3>1, <3>2
    <2> QED
      BY <1>4, <2>1
  <1>5. /\ SumSet(S) \in Byte
        /\ \A x \in Powers : (SumSet(S) \div x) % 2 = 1 <=> x \in S
    BY <1>3, BitsOfTotal
  <1>6. ASSUME NEW a \in Nat, a \div 8 = i - 1
        PROVE  (SumSet(S) \div Bit(a % 8)) % 2 = 1 <=> a \in addrs
    <2>1. Bit(a % 8) \in Powers
      BY <1>1, Bits
    <2> QED
      BY <1>4, <1>5, <1>6, <2>1, Zenon
  <1> QED
    BY <1>5, <1>6, Zenon

LEMMA AddressField ==
    ASSUME NEW addrs \in SUBSET (0 .. 8 * FieldBytes - 1)
    PROVE  /\ FieldToBytes(addrs) \in [1 .. FieldBytes -> Byte]
           /\ FieldFromBytes(FieldToBytes(addrs)) = addrs
  <1> DEFINE S(i) == { Bit(a % 8) : a \in { b \in addrs : b \div 8 = i - 1 } }
             s == FieldToBytes(addrs)
  <1>1. FieldBytes \in Nat
    BY CodecAssumption
  <1>2. s = [i \in 1 .. FieldBytes |-> SumSet(S(i))]
    BY Zenon DEF FieldToBytes, Bit
  <1>3. addrs \in SUBSET Nat
    BY <1>1
  <1>4. ASSUME NEW i \in Nat
        PROVE  /\ SumSet(S(i)) \in Byte
               /\ \A a \in Nat : a \div 8 = i - 1 =>
                     ((SumSet(S(i)) \div Bit(a % 8)) % 2 = 1 <=> a \in addrs)
    BY <1>3, AddressByte
  <1>5. FieldFromBytes(s) = { a \in 0 .. 8 * FieldBytes - 1 :
                                 (s[a \div 8 + 1] \div Bit(a % 8)) % 2 = 1 }
    BY DEF FieldFromBytes, Bit
  <1> HIDE DEF S, s
  <1>6. s \in [1 .. FieldBytes -> Byte]
    BY <1>2, <1>4
  <1>7. ASSUME NEW a \in 0 .. 8 * FieldBytes - 1
        PROVE  (s[a \div 8 + 1] \div Bit(a % 8)) % 2 = 1 <=> a \in addrs
    <2> DEFINE i == a \div 8 + 1
    <2>1. i \in 1 .. FieldBytes /\ i \in Nat /\ a \in Nat /\ a \div 8 = i - 1
      BY <1>1
    <2> HIDE DEF i
    <2>2. s[i] = SumSet(S(i))
      BY <1>2, <2>1
    <2> QED
      BY <1>4, <2>1, <2>2 DEF i
  <1> QED
    BY <1>5, <1>6, <1>7 DEF s

(* The classes one by one. *)
LEMMA DistinctIds ==
    /\ GET_ADDR_LIST \notin {ADDR, PING, PING_ECHO, DATAGRAM, SUBSCRIBE}
    /\ ADDR \notin {GET_ADDR_LIST, PING, PING_ECHO, DATAGRAM, SUBSCRIBE}
    /\ PING \notin {GET_ADDR_LIST, ADDR, DATAGRAM, SUBSCRIBE}
    /\ PING_ECHO \notin {GET_ADDR_LIST, ADDR, DATAGRAM, SUBSCRIBE}
    /\ DATAGRAM \notin {GET_ADDR_LIST, ADDR, PING, PING_ECHO, SUBSCRIBE}
    /\ SUBSCRIBE \notin {GET_ADDR_LIST, ADDR, PING, PING_ECHO, DATAGRAM}
  BY DEF GET_ADDR_LIST, ADDR, PING, PING_ECHO, DATAGRAM, SUBSCRIBE

LEMMA SmallNumbers ==
    /\ 1 \in Byte /\ 4 \in Byte /\ 5 \in Byte
    /\ {GET_ADDR_LIST, ADDR, PING, PING_ECHO, DATAGRAM, SUBSCRIBE}
            \subseteq GET_ADDR_LIST .. SUBSCRIBE
  BY DEF Byte, GET_ADDR_LIST, ADDR, PING, PING_ECHO, DATAGRAM, SUBSCRIBE

LEMMA ByteIs == ASSUME NEW x \in Nat, x <= 255 PROVE x \in Byte
  BY DEF Byte

Encodes(p) ==
    /\ p.id \in GET_ADDR_LIST .. SUBSCRIBE /\ Size(p) \in Byte
    /\ ToBytes(p) \in [1 .. Size(p) -> Byte]
    /\ FromBytes(p.id, ToBytes(p)) = p

LEMMA AddrListEncodes ==
    ASSUME NEW p, p.id = GET_ADDR_LIST, NEW t \in Byte, p = [id |-> GET_ADDR_LIST, ttl |-> t]
    PROVE  Encodes(p)
  <1> DEFINE s == <<t>>
  <1>1. p.ttl = t
    OBVIOUS
  <1>2. Size(p) = 1 /\ ToBytes(p) = s
    BY <1>1, DistinctIds, Zenon DEF Size, ToBytes
  <1>3. s \in [1 .. 1 -> Byte] /\ s[1] = t
    OBVIOUS
  <1> HIDE DEF s
  <1>4. FromBytes(p.id, s) = [id |-> p.id, ttl |-> s[1]]
    BY DistinctIds, Zenon DEF FromBytes
  <1> QED
    BY <1>1, <1>2, <1>3, <1>4, SmallNumbers, Zenon DEF Encodes

LEMMA AddrEncodes ==
    ASSUME NEW p, p.id = ADDR, NEW f \in SUBSET (0 .. 8 * FieldBytes - 1),
           p = [id |-> ADDR, addrs |-> f]
    PROVE  Encodes(p)
  <1>1. p.addrs = f
    OBVIOUS
  <1>2. Size(p) = FieldBytes /\ ToBytes(p) = FieldToBytes(f)
    BY <1>1, DistinctIds, Zenon DEF Size, ToBytes
  <1>3. /\ FieldToBytes(f) \in [1 .. FieldBytes -> Byte]
        /\ FieldFromBytes(FieldToBytes(f)) = f
    BY AddressField
  <1>4. \A b : FromBytes(p.id, b) = [id |-> p.id, addrs |-> FieldFromBytes(b)]
    BY DistinctIds, Zenon DEF FromBytes
  <1>5. FieldBytes \in Byte
    BY CodecAssumption DEF Byte
  <1> QED
    BY <1>2, <1>3, <1>4, <1>5, SmallNumbers, Zenon DEF Encodes

(* The payload of a ping: two bytes, the low one first. *)
LEMMA Halves ==
    ASSUME NEW u \in 0 .. UINT16_MAX
    PROVE  u % 256 \in Byte /\ u \div 256 \in Byte /\ (u % 256) + 256 * (u \div 256) = u
  <1>1. u \in Nat /\ u <= 65535
    BY DEF UINT16_MAX
  <1>2. u % 256 \in 0 .. 255 /\ u \div 256 \in Nat /\ (u % 256) + 256 * (u \div 256) = u
    BY <1>1
  <1>3. u \div 256 <= 255
    BY <1>1
  <1> QED
    BY <1>2, <1>3 DEF Byte

LEMMA FiveBytes ==
    ASSUME NEW a \in Byte, NEW b \in Byte, NEW c \in Byte, NEW d \in Byte, NEW e \in Byte
    PROVE  LET s == <<a, b, c>> \o <<d, e>>
           IN  /\ s \in [1 .. 5 -> Byte]
               /\ s[1] = a /\ s[2] = b /\ s[3] = c /\ s[4] = d /\ s[5] = e
  <1> DEFINE v == <<a, b, c>>
             w == <<d, e>>
             s == v \o w
  <1>1. /\ v \in Seq(Byte) /\ Len(v) = 3 /\ v[1] = a /\ v[2] = b /\ v[3] = c
        /\ w \in Seq(Byte) /\ Len(w) = 2 /\ w[1] = d /\ w[2] = e
    OBVIOUS
  <1> HIDE DEF v, w
  <1>2. /\ s \in Seq(Byte) /\ Len(s) = 3 + 2
        /\ \A i \in 1 .. 3 : s[i] = v[i]
        /\ \A i \in 1 .. 3 + 2 : i > 3 => s[i] = w[i - 3]
    BY <1>1, ConcatFacts
  <1> HIDE DEF s
  <1>3. s \in [1 .. 5 -> Byte]
    <2>1. Len(s) = 5 /\ s \in Seq(Byte)
      BY <1>2
    <2>2. \A n \in Nat : Len(s) = n => s \in [1 .. n -> Byte]
      BY <2>1
    <2> QED
      BY <2>1, <2>2
  <1>4. s[1] = v[1] /\ s[2] = v[2] /\ s[3] = v[3] /\ s[4] = w[1] /\ s[5] = w[2]
    BY <1>2
  <1> QED
    BY <1>1, <1>3, <1>4 DEF s, v, w

LEMMA PingEncodes ==
    ASSUME NEW p, p.id \in {PING, PING_ECHO}, NEW t \in Byte, NEW from \in Byte,
           NEW to \in Byte, NEW u \in 0 .. UINT16_MAX,
           p = [id |-> p.id, ttl |-> t, source_addr |-> from, dest_addr |-> to,
                payload |-> u]
    PROVE  Encodes(p)
  <1> DEFINE lo == u % 256
             hi == u \div 256
             s == <<t, from, to>> \o <<lo, hi>>
  <1>1. p.ttl = t /\ p.source_addr = from /\ p.dest_addr = to /\ p.payload = u
    OBVIOUS
  <1>2. lo \in Byte /\ hi \in Byte /\ lo + 256 * hi = u
    BY Halves
  <1>3. Size(p) = 5 /\ ToBytes(p) = s
    BY <1>1, DistinctIds, Zenon DEF Size, ToBytes, Le16
  <1> HIDE DEF lo, hi
  <1>4. /\ s \in [1 .. 5 -> Byte]
        /\ s[1] = t /\ s[2] = from /\ s[3] = to /\ s[4] = lo /\ s[5] = hi
    BY <1>2, FiveBytes
  <1> HIDE DEF s
  <1>5. FromBytes(p.id, s) = [id |-> p.id, ttl |-> s[1], source_addr |-> s[2],
                              dest_addr |-> s[3], payload |-> s[4] + 256 * s[5]]
    BY DistinctIds, Zenon DEF FromBytes, FromLe16
  <1>6. FromBytes(p.id, s) = p
    BY <1>2, <1>4, <1>5, Zenon
  <1> QED
    BY <1>3, <1>4, <1>6, SmallNumbers, Zenon DEF Encodes

LEMMA HeaderFacts ==
    ASSUME NEW a \in Byte, NEW b \in Byte, NEW c \in Byte, NEW d \in Byte, NEW e \in Byte,
           NEW w \in Seq(Byte), NEW n \in Nat, n = Len(w)
    PROVE  LET s == <<a, b, c, d, e>> \o w
           IN  /\ s \in [1 .. 4 + n + 1 -> Byte]
               /\ s[1] = a /\ s[2] = b /\ s[3] = c /\ s[4] = d /\ s[5] = e
               /\ SubSeq(s, 6, 5 + n) = w
  <1> DEFINE h == <<a, b, c, d, e>>
             s == h \o w
  <1>1. /\ h \in Seq(Byte) /\ Len(h) = 5
        /\ h[1] = a /\ h[2] = b /\ h[3] = c /\ h[4] = d /\ h[5] = e
    OBVIOUS
  <1> HIDE DEF h
  <1>2. /\ s \in Seq(Byte) /\ Len(s) = 5 + n
        /\ \A i \in 1 .. 5 : s[i] = h[i]
        /\ \A i \in 1 .. 5 + n : i > 5 => s[i] = w[i - 5]
    <2>1. /\ s \in Seq(Byte) /\ Len(s) = Len(h) + Len(w)
          /\ \A i \in 1 .. Len(h) : s[i] = h[i]
          /\ \A i \in 1 .. Len(h) + Len(w) : i > Len(h) => s[i] = w[i - Len(h)]
      BY <1>1, ConcatFacts
    <2> HIDE DEF s
    <2> QED
      BY <1>1, <2>1
  <1>3. /\ \A i \in 1 .. n : s[i + 5] = w[i]
        /\ s[1] = h[1] /\ s[2] = h[2] /\ s[3] = h[3] /\ s[4] = h[4] /\ s[5] = h[5]
    <2>1. ASSUME NEW i \in 1 .. n PROVE s[i + 5] = w[i]
      <3>1. i + 5 \in 1 .. 5 + n /\ i + 5 > 5 /\ (i + 5) - 5 = i
        OBVIOUS
      <3> HIDE DEF s
      <3> QED
        BY <1>2, <3>1
    <2> HIDE DEF s
    <2> QED
      BY <1>2, <2>1
  <1> HIDE DEF s
  <1>4. s \in [1 .. 4 + n + 1 -> Byte]
    BY <1>2
  <1>5. SubSeq(s, 6, 5 + n) = w
    BY <1>2, <1>3
  <1> QED
    BY <1>1, <1>3, <1>4, <1>5 DEF s, h

LEMMA DatagramEncodes ==
    ASSUME NEW p, p.id = DATAGRAM, NEW t \in Byte, NEW from \in Byte, NEW to \in Byte,
           NEW port \in Byte, NEW w \in Seq(Byte), Len(w) <= PayloadCap,
           p = [id |-> p.id, ttl |-> t, source_addr |-> from, dest_addr |-> to,
                port |-> port, payload |-> w]
    PROVE  Encodes(p)
  <1> DEFINE n == Len(w)
             s == <<t, from, to, port, n>> \o w
  <1>1. /\ p.ttl = t /\ p.source_addr = from /\ p.dest_addr = to /\ p.port = port
        /\ p.payload = w
    OBVIOUS
  <1>2. n \in Nat
    OBVIOUS
  <1>3. Size(p) = 4 + n + 1 /\ ToBytes(p) = s
    BY <1>1, DistinctIds, Zenon DEF Size, ToBytes
  <1> HIDE DEF n
  <1>4. n \in Byte /\ 4 + n + 1 \in Byte
    <2>1. n <= PayloadCap /\ PayloadCap \in Nat /\ 4 + PayloadCap + 1 <= 255
      BY CodecAssumption DEF n
    <2>2. n <= 255 /\ 4 + n + 1 <= 255 /\ 4 + n + 1 \in Nat
      BY <1>2, <2>1
    <2> QED
      BY <1>2, <2>2, ByteIs
  <1>5. /\ s \in [1 .. 4 + n + 1 -> Byte]
        /\ s[1] = t /\ s[2] = from /\ s[3] = to /\ s[4] = port /\ s[5] = n
        /\ SubSeq(s, 6, 5 + n) = w
    BY <1>2, <1>4, HeaderFacts DEF n
  <1> HIDE DEF s
  <1>6. FromBytes(p.id, s) = [id |-> p.id, ttl |-> s[1], source_addr |-> s[2],
                              dest_addr |-> s[3], port |-> s[4],
                              payload |-> SubSeq(s, 6, 5 + s[5])]
    BY DistinctIds, Zenon DEF FromBytes
  <1>7. FromBytes(p.id, s) = p
    BY <1>5, <1>6, Zenon
  <1> QED
    BY <1>3, <1>4, <1>5, <1>7, SmallNumbers, Zenon DEF Encodes

LEMMA SubscribeEncodes ==
    ASSUME NEW p, p.id = SUBSCRIBE, NEW t \in Byte, NEW port \in Byte, NEW addr \in Byte,
           NEW sub \in Byte,
           p = [id |-> p.id, ttl |-> t, port |-> port, addr |-> addr, subscribe |-> sub]
    PROVE  Encodes(p)
  <1> DEFINE s == <<t, port, addr, sub>>
  <1>1. p.ttl = t /\ p.port = port /\ p.addr = addr /\ p.subscribe = sub
    OBVIOUS
  <1>2. Size(p) = 4 /\ ToBytes(p) = s
    BY <1>1, DistinctIds, Zenon DEF Size, ToBytes
  <1>3. s \in [1 .. 4 -> Byte] /\ s[1] = t /\ s[2] = port /\ s[3] = addr /\ s[4] = sub
    OBVIOUS
  <1> HIDE DEF s
  <1>4. FromBytes(p.id, s) = [id |-> p.id, ttl |-> s[1], port |-> s[2], addr |-> s[3],
                              subscribe |-> s[4]]
    BY DistinctIds, Zenon DEF FromBytes
  <1>5. FromBytes(p.id, s) = p
    BY <1>3, <1>4, Zenon
  <1> QED
    BY <1>2, <1>3, <1>5, SmallNumbers, Zenon DEF Encodes

(* What send() writes of a packet is what from_bytes() reads it back from. *)
LEMMA PacketsEncode == ASSUME NEW p \in Packet PROVE Encodes(p)
  <1>1. CASE p \in [id : {GET_ADDR_LIST}, ttl : Byte]
    <2>1. /\ p.id = GET_ADDR_LIST /\ p.ttl \in Byte
          /\ p = [id |-> GET_ADDR_LIST, ttl |-> p.ttl]
      BY <1>1
    <2> QED
      BY <2>1, AddrListEncodes
  <1>2. CASE p \in [id : {ADDR}, addrs : SUBSET (0 .. 8 * FieldBytes - 1)]
    <2>1. /\ p.id = ADDR /\ p.addrs \in SUBSET (0 .. 8 * FieldBytes - 1)
          /\ p = [id |-> ADDR, addrs |-> p.addrs]
      BY <1>2
    <2> QED
      BY <2>1, AddrEncodes
  <1>3. CASE p \in [id : {PING, PING_ECHO}, ttl : Byte, source_addr : Byte,
                    dest_addr : Byte, payload : 0 .. UINT16_MAX]
    <2>1. /\ p.id \in {PING, PING_ECHO} /\ p.ttl \in Byte /\ p.source_addr \in Byte
          /\ p.dest_addr \in Byte /\ p.payload \in 0 .. UINT16_MAX
          /\ p = [id |-> p.id, ttl |-> p.ttl, source_addr |-> p.source_addr,
                  dest_addr |-> p.dest_addr, payload |-> p.payload]
      BY <1>3
    <2> QED
      BY <2>1, PingEncodes
  <1>4. CASE p \in [id : {DATAGRAM}, ttl : Byte, source_addr : Byte, dest_addr : Byte,
                    port : Byte, payload : { s \in Seq(Byte) : Len(s) <= PayloadCap }]
    <2>1. /\ p.id = DATAGRAM /\ p.ttl \in Byte /\ p.source_addr \in Byte
          /\ p.dest_addr \in Byte /\ p.port \in Byte
          /\ p.payload \in Seq(Byte) /\ Len(p.payload) <= PayloadCap
          /\ p = [id |-> p.id, ttl |-> p.ttl, source_addr |-> p.source_addr,
                  dest_addr |-> p.dest_addr, port |-> p.port, payload |-> p.payload]
      BY <1>4
    <2> QED
      BY <2>1, DatagramEncodes
  <1>5. CASE p \in [id : {SUBSCRIBE}, ttl : Byte, port : Byte, addr : Byte,
                    subscribe : Byte]
    <2>1. /\ p.id = SUBSCRIBE /\ p.ttl \in Byte /\ p.port \in Byte /\ p.addr \in Byte
          /\ p.subscribe \in Byte
          /\ p = [id |-> p.id, ttl |-> p.ttl, port |-> p.port, addr |-> p.addr,
                  subscribe |-> p.subscribe]
      BY <1>5
    <2> QED
      BY <2>1, SubscribeEncodes
  <1> QED
    BY <1>1, <1>2, <1>3, <1>4, <1>5, Zenon DEF Packet

LEMMA PacketFacts == ASSUME NEW p \in Packets PROVE Encodes(p)
  BY PacketsEncode, FramingAssumption

-----------------------------------------------------------------------------
(* The parser *)

State == {"START", "ID", "SIZE", "DATA", "CHECK_1", "CHECK_2"}
Word == 0 .. UINT16_MAX
Bytes == Seq(Byte)
Parser ==
    [state : State, stuff_flag : BOOLEAN, msg_id : Byte, checksum_in : Word,
     data_length : Byte, data : Bytes]

Members(state, flag, id, sum, length, data) ==
    [state |-> state, stuff_flag |-> flag, msg_id |-> id, checksum_in |-> sum,
     data_length |-> length, data |-> data]

(* The switch, state by state, with all members of what it leaves. *)
LEMMA AdvanceIs ==
    ASSUME NEW ps \in Parser, NEW c
    PROVE  LET after(s, id, sum, length, data) ==
                   Advance(ps, c) = Members(s, ps.stuff_flag, id, sum, length, data)
           IN  /\ ps.state = "START" =>
                     after(IF c = Begin THEN "ID" ELSE "START",
                           ps.msg_id, ps.checksum_in, ps.data_length, <<>>)
               /\ ps.state = "ID" /\ ~IsPacketId(c) =>
                     after("START", c, ps.checksum_in, ps.data_length, ps.data)
               /\ ps.state = "ID" /\ IsPacketId(c) =>
                     after("SIZE", c, ps.checksum_in, ps.data_length, Append(ps.data, c))
               /\ ps.state = "SIZE" =>
                     after(IF c = 0 THEN "CHECK_1" ELSE "DATA",
                           ps.msg_id, ps.checksum_in, c, Append(ps.data, c))
               /\ ps.state = "DATA" =>
                     after(IF Len(Append(ps.data, c)) >= ps.data_length + 2
                           THEN "CHECK_1" ELSE "DATA",
                           ps.msg_id, ps.checksum_in, ps.data_length, Append(ps.data, c))
               /\ ps.state = "CHECK_1" =>
                     after("CHECK_2", ps.msg_id, c, ps.data_length, ps.data)
               /\ ps.state = "CHECK_2" =>
                     after("START", ps.msg_id, ps.checksum_in + 256 * c,
                           ps.data_length, ps.data)
  <1> DEFINE d == Append(ps.data, c)
             last == ps.checksum_in + 256 * c
  <1>1. CASE ps.state = "START"
    <2> DEFINE s == IF c = Begin THEN "ID" ELSE "START"
    <2>1. Advance(ps, c) = [ps EXCEPT !.data = <<>>, !.state = s]
      BY <1>1, Zenon DEF Advance
    <2> HIDE DEF s
    <2>2. Advance(ps, c) = Members(s, ps.stuff_flag, ps.msg_id, ps.checksum_in,
                                   ps.data_length, <<>>)
      BY <2>1 DEF Members, Parser
    <2> QED
      BY <1>1, <2>2, Zenon DEF s
  <1>2. CASE ps.state = "ID" /\ ~IsPacketId(c)
    <2>1. Advance(ps, c) = [ps EXCEPT !.msg_id = c, !.state = "START"]
      BY <1>2, Zenon DEF Advance
    <2>2. Advance(ps, c) = Members("START", ps.stuff_flag, c, ps.checksum_in,
                                   ps.data_length, ps.data)
      BY <2>1 DEF Members, Parser
    <2> QED
      BY <1>2, <2>2, Zenon
  <1>3. CASE ps.state = "ID" /\ IsPacketId(c)
    <2>1. Advance(ps, c) = [AddByte(ps, c) EXCEPT !.msg_id = c, !.state = "SIZE"]
      BY <1>3, Zenon DEF Advance
    <2>2. AddByte(ps, c) = [ps EXCEPT !.data = d]
      BY DEF AddByte
    <2> HIDE DEF d
    <2>3. Advance(ps, c) = Members("SIZE", ps.stuff_flag, c, ps.checksum_in,
                                   ps.data_length, d)
      BY <2>1, <2>2 DEF Members, Parser
    <2> QED
      BY <1>3, <2>3, Zenon DEF d
  <1>4. CASE ps.state = "SIZE"
    <2> DEFINE s == IF c = 0 THEN "CHECK_1" ELSE "DATA"
    <2>1. Advance(ps, c) = [AddByte(ps, c) EXCEPT !.data_length = c, !.state = s]
      BY <1>4, Zenon DEF Advance
    <2>2. AddByte(ps, c) = [ps EXCEPT !.data = d]
      BY DEF AddByte
    <2> HIDE DEF d, s
    <2>3. Advance(ps, c) = Members(s, ps.stuff_flag, ps.msg_id, ps.checksum_in, c, d)
      BY <2>1, <2>2 DEF Members, Parser
    <2> QED
      BY <1>4, <2>3, Zenon DEF d, s
  <1>5. CASE ps.state = "DATA"
    <2> DEFINE s == IF Len(d) >= ps.data_length + 2 THEN "CHECK_1" ELSE "DATA"
    <2>1. AddByte(ps, c) = [ps EXCEPT !.data = d]
      BY DEF AddByte
    <2>2. AddByte(ps, c).data = d /\ AddByte(ps, c).data_length = ps.data_length
      BY <2>1 DEF Parser
    <2>3. Advance(ps, c) = [AddByte(ps, c) EXCEPT
                               !.state = IF HasAllData(AddByte(ps, c)) THEN "CHECK_1" ELSE "DATA"]
      BY <1>5, Zenon DEF Advance
    <2>4. HasAllData(AddByte(ps, c)) <=> Len(d) >= ps.data_length + 2
      BY <2>2 DEF HasAllData
    <2> HIDE DEF d
    <2>5. Advance(ps, c) = [AddByte(ps, c) EXCEPT !.state = s]
      BY <2>3, <2>4
    <2> HIDE DEF s
    <2>6. Advance(ps, c) = Members(s, ps.stuff_flag, ps.msg_id, ps.checksum_in,
                                   ps.data_length, d)
      BY <2>1, <2>5 DEF Members, Parser
    <2> QED
      BY <1>5, <2>6, Zenon DEF d, s
  <1>6. CASE ps.state = "CHECK_1"
    <2>1. Advance(ps, c) = [ps EXCEPT !.checksum_in = c, !.state = "CHECK_2"]
      BY <1>6, Zenon DEF Advance
    <2>2. Advance(ps, c) = Members("CHECK_2", ps.stuff_flag, ps.msg_id, c,
                                   ps.data_length, ps.data)
      BY <2>1 DEF Members, Parser
    <2> QED
      BY <1>6, <2>2, Zenon
  <1>7. CASE ps.state = "CHECK_2"
    <2>1. Advance(ps, c) = [ps EXCEPT !.checksum_in = last, !.state = "START"]
      BY <1>7, Zenon DEF Advance
    <2> HIDE DEF last
    <2>2. Advance(ps, c) = Members("START", ps.stuff_flag, ps.msg_id, last,
                                   ps.data_length, ps.data)
      BY <2>1 DEF Members, Parser
    <2> QED
      BY <1>7, <2>2, Zenon DEF last
  <1>8. ps.state \in {"START", "ID", "SIZE", "DATA", "CHECK_1", "CHECK_2"}
    BY DEF Parser, State
  <1> QED
    BY <1>1, <1>2, <1>3, <1>4, <1>5, <1>6, <1>7, <1>8, Zenon

LEMMA MembersAre ==
    ASSUME NEW s, NEW b, NEW id, NEW sum, NEW length, NEW d
    PROVE  LET t == Members(s, b, id, sum, length, d)
           IN  /\ t.state = s /\ t.stuff_flag = b /\ t.msg_id = id
               /\ t.checksum_in = sum /\ t.data_length = length /\ t.data = d
               /\ s \in State /\ b \in BOOLEAN /\ id \in Byte /\ sum \in Word
                     /\ length \in Byte /\ d \in Bytes => t \in Parser
  BY DEF Members, Parser

(* A byte is a number of the width of checksum_in, and so are two. *)
LEMMA ByteFacts ==
    ASSUME NEW x \in Byte, NEW y \in Byte
    PROVE  x \in Nat /\ x \in Word /\ x + 256 * y \in Word
  <1>1. x \in Nat /\ y \in Nat /\ x <= 255 /\ y <= 255
    BY DEF Byte
  <1>2. \A z \in Nat : z <= 65535 => z \in Word
    <2> SUFFICES ASSUME NEW z \in Nat, z <= 65535 PROVE z \in Word
      OBVIOUS
    <2>1. UINT16_MAX \in Nat /\ z <= UINT16_MAX
      BY DEF UINT16_MAX
    <2> QED
      BY <2>1 DEF Word
  <1>3. x \in Word
    BY <1>1, <1>2
  <1>4. x + 256 * y \in Nat /\ x + 256 * y <= 65535
    BY <1>1
  <1>5. x + 256 * y \in Word
    BY <1>2, <1>4
  <1> QED
    BY <1>1, <1>3, <1>5

LEMMA AppendFacts ==
    ASSUME NEW d \in Bytes, NEW c \in Byte
    PROVE  /\ Append(d, c) \in Bytes /\ <<>> \in Bytes /\ Len(<<>>) = 0
           /\ Len(d) \in Nat /\ Len(Append(d, c)) = Len(d) + 1
  BY DEF Bytes

(* The bytes added are as many as the state says. *)
Counted(ps) ==
    /\ ps.state = "ID" => Len(ps.data) = 0
    /\ ps.state = "SIZE" => Len(ps.data) = 1 /\ IsPacketId(ps.msg_id)
    /\ ps.state = "DATA" => Len(ps.data) >= 2 /\ Len(ps.data) <= ps.data_length + 1
    /\ ps.state \in {"CHECK_1", "CHECK_2"} => Len(ps.data) = ps.data_length + 2

(* The second half of a checksum is added to a byte. *)
GoodParser(ps) ==
    /\ ps \in Parser /\ Counted(ps)
    /\ ps.state = "CHECK_2" => ps.checksum_in \in Byte

(* What a byte that is neither a stuffing byte nor a mark does. *)
Advances(ps, c, t) ==
    /\ ps.state = "START" =>
          /\ Len(t.data) = 0
          /\ t.state = IF c = Begin THEN "ID" ELSE "START"
    /\ ps.state = "ID" /\ ~IsPacketId(c) =>
          Len(t.data) = Len(ps.data) /\ t.state = "START"
    /\ ps.state = "ID" /\ IsPacketId(c) =>
          Len(t.data) = Len(ps.data) + 1 /\ t.state = "SIZE"
    /\ ps.state = "SIZE" =>
          /\ Len(t.data) = Len(ps.data) + 1 /\ t.data_length = c
          /\ t.state = IF c = 0 THEN "CHECK_1" ELSE "DATA"
    /\ ps.state = "DATA" =>
          /\ Len(t.data) = Len(ps.data) + 1 /\ t.data_length = ps.data_length
          /\ t.state = IF Len(t.data) >= ps.data_length + 2 THEN "CHECK_1" ELSE "DATA"
    /\ ps.state = "CHECK_1" =>
          /\ Len(t.data) = Len(ps.data) /\ t.data_length = ps.data_length
          /\ t.state = "CHECK_2"
    /\ ps.state = "CHECK_2" =>
          Len(t.data) = Len(ps.data) /\ t.state = "START"

LEMMA AdvanceGood ==
    ASSUME NEW ps, GoodParser(ps), NEW c \in Byte
    PROVE  /\ GoodParser(Advance(ps, c)) /\ Advances(ps, c, Advance(ps, c))
           /\ Advance(ps, c).stuff_flag = ps.stuff_flag
  <1> DEFINE t == Advance(ps, c)
             d == Append(ps.data, c)
             n == Len(ps.data)
             is(s, id, sum, length, data) ==
                 /\ t.state = s /\ t.stuff_flag = ps.stuff_flag /\ t.msg_id = id
                 /\ t.checksum_in = sum /\ t.data_length = length /\ t.data = data
                 /\ t \in Parser
  <1>1. /\ ps \in Parser /\ ps.state \in State /\ ps.stuff_flag \in BOOLEAN
        /\ ps.msg_id \in Byte /\ ps.checksum_in \in Word /\ ps.data_length \in Byte
        /\ ps.data \in Bytes
    BY DEF GoodParser, Parser
  <1>2. /\ c \in Nat /\ c \in Word /\ ps.data_length \in Nat
        /\ n \in Nat /\ d \in Bytes /\ Len(d) = n + 1 /\ <<>> \in Bytes /\ Len(<<>>) = 0
    BY <1>1, ByteFacts, AppendFacts
  <1>3. Counted(ps) /\ (ps.state = "CHECK_2" => ps.checksum_in \in Byte)
    BY DEF GoodParser
  <1>4. CASE ps.state = "START"
    <2> DEFINE s == IF c = Begin THEN "ID" ELSE "START"
    <2>1. t = Members(s, ps.stuff_flag, ps.msg_id, ps.checksum_in, ps.data_length, <<>>)
      BY <1>1, <1>4, AdvanceIs
    <2>2. s \in State
      BY DEF State
    <2> HIDE DEF t, s
    <2>3. is(s, ps.msg_id, ps.checksum_in, ps.data_length, <<>>)
      BY <1>1, <1>2, <2>1, <2>2, MembersAre
    <2> QED
      BY <1>2, <1>4, <2>3 DEF s, t, GoodParser, Counted, Advances
  <1>5. CASE ps.state = "ID" /\ ~IsPacketId(c)
    <2>1. t = Members("START", ps.stuff_flag, c, ps.checksum_in, ps.data_length, ps.data)
      BY <1>1, <1>5, AdvanceIs
    <2> HIDE DEF t
    <2>2. is("START", c, ps.checksum_in, ps.data_length, ps.data)
      BY <1>1, <2>1, MembersAre DEF State
    <2> QED
      BY <1>5, <2>2 DEF t, GoodParser, Counted, Advances
  <1>6. CASE ps.state = "ID" /\ IsPacketId(c)
    <2>1. t = Members("SIZE", ps.stuff_flag, c, ps.checksum_in, ps.data_length, d)
      BY <1>1, <1>6, AdvanceIs
    <2> HIDE DEF t, d
    <2>2. is("SIZE", c, ps.checksum_in, ps.data_length, d)
      BY <1>1, <1>2, <2>1, MembersAre DEF State
    <2>3. n = 0
      BY <1>3, <1>6 DEF Counted
    <2> QED
      BY <1>2, <1>6, <2>2, <2>3 DEF t, GoodParser, Counted, Advances
  <1>7. CASE ps.state = "SIZE"
    <2> DEFINE s == IF c = 0 THEN "CHECK_1" ELSE "DATA"
    <2>1. t = Members(s, ps.stuff_flag, ps.msg_id, ps.checksum_in, c, d)
      BY <1>1, <1>7, AdvanceIs
    <2>2. s \in State
      BY DEF State
    <2> HIDE DEF t, d, s
    <2>3. is(s, ps.msg_id, ps.checksum_in, c, d)
      BY <1>1, <1>2, <2>1, <2>2, MembersAre
    <2>4. n = 1
      BY <1>3, <1>7 DEF Counted
    <2>5. Len(t.data) = 2
      BY <1>2, <2>3, <2>4
    <2>6. /\ t \in Parser /\ t.data_length = c /\ t.stuff_flag = ps.stuff_flag
          /\ t.state = IF c = 0 THEN "CHECK_1" ELSE "DATA"
      BY <2>3 DEF s
    <2>7. c = 0 => Len(t.data) = t.data_length + 2
      BY <2>5, <2>6
    <2>8. c # 0 => Len(t.data) <= t.data_length + 1
      BY <1>2, <2>5, <2>6
    <2>9. GoodParser(t)
      BY <2>5, <2>6, <2>7, <2>8 DEF GoodParser, Counted
    <2>10. Advances(ps, c, t)
      BY <1>7, <2>4, <2>5, <2>6 DEF Advances
    <2> QED
      BY <2>6, <2>9, <2>10 DEF t
  <1>8. CASE ps.state = "DATA"
    <2> DEFINE s == IF Len(d) >= ps.data_length + 2 THEN "CHECK_1" ELSE "DATA"
    <2>1. t = Members(s, ps.stuff_flag, ps.msg_id, ps.checksum_in, ps.data_length, d)
      BY <1>1, <1>8, AdvanceIs
    <2>2. s \in State
      BY DEF State
    <2> HIDE DEF t, d, s
    <2>3. is(s, ps.msg_id, ps.checksum_in, ps.data_length, d)
      BY <1>1, <1>2, <2>1, <2>2, MembersAre
    <2>4. n >= 2 /\ n <= ps.data_length + 1
      BY <1>3, <1>8 DEF Counted
    <2> QED
      BY <1>2, <1>8, <2>3, <2>4 DEF s, t, GoodParser, Counted, Advances
  <1>9. CASE ps.state = "CHECK_1"
    <2>1. t = Members("CHECK_2", ps.stuff_flag, ps.msg_id, c, ps.data_length, ps.data)
      BY <1>1, <1>9, AdvanceIs
    <2> HIDE DEF t
    <2>2. is("CHECK_2", ps.msg_id, c, ps.data_length, ps.data)
      BY <1>1, <1>2, <2>1, MembersAre DEF State
    <2>3. n = ps.data_length + 2
      BY <1>3, <1>9 DEF Counted
    <2> QED
      BY <1>2, <1>9, <2>2, <2>3 DEF t, GoodParser, Counted, Advances
  <1>10. CASE ps.state = "CHECK_2"
    <2> DEFINE sum == ps.checksum_in + 256 * c
    <2>1. t = Members("START", ps.stuff_flag, ps.msg_id, sum, ps.data_length, ps.data)
      BY <1>1, <1>10, AdvanceIs
    <2>2. sum \in Word
      BY <1>3, <1>10, ByteFacts
    <2> HIDE DEF t, sum
    <2>3. is("START", ps.msg_id, sum, ps.data_length, ps.data)
      BY <1>1, <2>1, <2>2, MembersAre DEF State
    <2> QED
      BY <1>10, <2>3 DEF t, GoodParser, Counted, Advances
  <1> QED
    BY <1>1, <1>4, <1>5, <1>6, <1>7, <1>8, <1>9, <1>10, Zenon DEF State

LEMMA Restarted ==
    ASSUME NEW ps \in Parser, NEW s, NEW b \in BOOLEAN
    PROVE  [ps EXCEPT !.stuff_flag = b, !.state = s]
               = Members(s, b, ps.msg_id, ps.checksum_in, ps.data_length, ps.data)
  <1> DEFINE r == [ps EXCEPT !.stuff_flag = b]
  <1>1. [ps EXCEPT !.stuff_flag = b, !.state = s] = [r EXCEPT !.state = s]
    OBVIOUS
  <1>2. r = Members(ps.state, b, ps.msg_id, ps.checksum_in, ps.data_length, ps.data)
    BY DEF Members, Parser
  <1>3. /\ ps.state \in State /\ ps.msg_id \in Byte /\ ps.checksum_in \in Word
        /\ ps.data_length \in Byte /\ ps.data \in Bytes
    BY DEF Parser
  <1> HIDE DEF r
  <1>4. /\ r \in Parser /\ r.stuff_flag = b /\ r.msg_id = ps.msg_id
        /\ r.checksum_in = ps.checksum_in /\ r.data_length = ps.data_length
        /\ r.data = ps.data
    BY <1>2, <1>3, MembersAre
  <1>5. [r EXCEPT !.state = s]
            = Members(s, r.stuff_flag, r.msg_id, r.checksum_in, r.data_length, r.data)
    BY <1>4 DEF Members, Parser
  <1> QED
    BY <1>1, <1>4, <1>5

(* read(c): what becomes of the flag, the state and the bytes added. *)
LEMMA ParsedGood ==
    ASSUME NEW ps, GoodParser(ps), NEW c \in Byte
    PROVE  LET t == Parsed(ps, c)
           IN  /\ GoodParser(t)
               /\ Escapes(ps, c) =>
                     t.stuff_flag = TRUE /\ t.data = ps.data /\ t.state = ps.state
               /\ ~Escapes(ps, c) => t.stuff_flag = FALSE
               /\ ~Escapes(ps, c) /\ ~IsMark(ps, c) => Advances(ps, c, t)
               /\ ~Escapes(ps, c) /\ IsMark(ps, c) =>
                     /\ Len(t.data) = 0
                     /\ t.state = IF c = Begin THEN "ID" ELSE "START"
  <1> DEFINE t == Parsed(ps, c)
             s == IF IsMark(ps, c) THEN "START" ELSE ps.state
             u(state, flag) == Members(state, flag, ps.msg_id, ps.checksum_in,
                                       ps.data_length, ps.data)
  <1>1. /\ ps \in Parser /\ ps.state \in State /\ ps.stuff_flag \in BOOLEAN
        /\ ps.msg_id \in Byte /\ ps.checksum_in \in Word /\ ps.data_length \in Byte
        /\ ps.data \in Bytes
    BY DEF GoodParser, Parser
  <1>2. ASSUME NEW state \in State, NEW flag \in BOOLEAN, state \in {ps.state, "START"}
        PROVE  /\ GoodParser(u(state, flag)) /\ u(state, flag).state = state
               /\ u(state, flag).stuff_flag = flag /\ u(state, flag).data = ps.data
               /\ u(state, flag).data_length = ps.data_length
    <2> DEFINE v == u(state, flag)
    <2>1. /\ v.state = state /\ v.stuff_flag = flag /\ v.msg_id = ps.msg_id
          /\ v.checksum_in = ps.checksum_in /\ v.data_length = ps.data_length
          /\ v.data = ps.data /\ v \in Parser
      BY <1>1, MembersAre
    <2> HIDE DEF v
    <2> QED
      BY <1>2, <2>1 DEF v, GoodParser, Counted
  <1>3. CASE Escapes(ps, c)
    <2>1. t = [ps EXCEPT !.stuff_flag = TRUE]
      BY <1>3, Zenon DEF Parsed
    <2>2. t = u(ps.state, TRUE)
      BY <1>1, <2>1 DEF Members, Parser
    <2> HIDE DEF t, u
    <2> QED
      BY <1>1, <1>2, <1>3, <2>2 DEF t
  <1>4. CASE ~Escapes(ps, c)
    <2>1. t = Advance([ps EXCEPT !.stuff_flag = FALSE, !.state = s], c) /\ s \in State
      BY <1>1, <1>4 DEF Parsed, State
    <2> HIDE DEF s
    <2>2. [ps EXCEPT !.stuff_flag = FALSE, !.state = s] = u(s, FALSE)
      <3>1. ps \in Parser
        BY <1>1
      <3>2. [ps EXCEPT !.stuff_flag = FALSE, !.state = s]
               = Members(s, FALSE, ps.msg_id, ps.checksum_in, ps.data_length, ps.data)
        BY <3>1, Restarted, FALSE \in BOOLEAN
      <3> QED
        BY <3>2
    <2> DEFINE v == u(s, FALSE)
    <2>3. s \in {ps.state, "START"}
      BY DEF s
    <2>4. /\ GoodParser(v) /\ v.state = s /\ v.stuff_flag = FALSE /\ v.data = ps.data
          /\ v.data_length = ps.data_length
      BY <1>2, <2>1, <2>3
    <2>5. t = Advance(v, c)
      BY <2>1, <2>2
    <2> HIDE DEF t, v
    <2>6. GoodParser(t) /\ Advances(v, c, t) /\ t.stuff_flag = FALSE
      BY <2>4, <2>5, AdvanceGood
    <2>7. CASE IsMark(ps, c)
      BY <1>4, <2>4, <2>6, <2>7 DEF s, t, Advances
    <2>8. CASE ~IsMark(ps, c)
      <3>1. v.state = ps.state
        BY <2>4, <2>8 DEF s
      <3>2. Advances(ps, c, t)
        BY <2>4, <2>6, <3>1 DEF Advances
      <3> QED
        BY <1>4, <2>6, <2>8, <3>2 DEF t
    <2> QED
      BY <2>7, <2>8
  <1> QED
    BY <1>3, <1>4

-----------------------------------------------------------------------------
(* What the bytes of a frame mean *)

(* The part a byte has in a frame: a mark, a stuffing byte, or the byte at a
   place of the content (the checksum included), after a stuffing byte or
   without one; and of the frame the size that it announces, which packet of
   sent it carries (0: the one begun before the receiver was there) and its
   content.                                                                 *)
Kind == {"begin", "end", "stuff", "literal", "plain"}
Sizes == { Size(p) : p \in Packets }
Label == [kind : Kind, pos : Nat, size : Sizes, ord : Nat, content : Seq(Byte)]
L(kind, pos, size, ord, content) ==
    [kind |-> kind, pos |-> pos, size |-> size, ord |-> ord, content |-> content]

InFrame(l) == l.kind \in {"stuff", "literal", "plain"}

(* The id of a packet, its size, the packet and the checksum over all of these. *)
IsContent(s, n) ==
    /\ s \in [1 .. n + 4 -> Byte]
    /\ s[1] \in GET_ADDR_LIST .. SUBSCRIBE /\ s[2] = n
    /\ Checksum(SubSeq(s, 1, n + 2)) = s[n + 3] + 256 * s[n + 4]

Means(l, c) ==
    /\ InFrame(l) => l.pos >= 1 /\ l.pos <= l.size + 4 /\ IsContent(l.content, l.size)
    /\ l.kind = "begin" => c = Begin
    /\ l.kind = "end" => c = End
    /\ l.kind = "stuff" => c = Stuff
    /\ l.kind = "literal" => c \in Stuff .. End
    /\ l.kind = "plain" => c \notin Stuff .. End
    /\ l.kind \in {"literal", "plain"} => c = l.content[l.pos]

Follows(a, b) ==
    /\ a.kind = "begin" => b.kind \in {"stuff", "plain"} /\ b.pos = 1
    /\ a.kind = "stuff" => b.kind = "literal" /\ b.pos = a.pos
    /\ a.kind = "end" => b.kind = "begin" /\ b.ord = a.ord + 1
    /\ a.kind \in {"literal", "plain"} /\ a.pos < a.size + 4 =>
          b.kind \in {"stuff", "plain"} /\ b.pos = a.pos + 1
    /\ a.kind \in {"literal", "plain"} /\ a.pos >= a.size + 4 => b.kind = "end"
    /\ a.kind # "end" => b.size = a.size /\ b.ord = a.ord /\ b.content = a.content

(* The labels g say what the bytes w are. *)
Chain(g, w) ==
    /\ g \in Seq(Label) /\ w \in Seq(Byte) /\ Len(g) = Len(w)
    /\ \A i \in 1 .. Len(w) : Means(g[i], w[i])
    /\ \A i \in 1 .. Len(w) : i < Len(w) => Follows(g[i], g[i + 1])

LEMMA ChainConcat ==
    ASSUME NEW g1, NEW w1, Chain(g1, w1), NEW g2, NEW w2, Chain(g2, w2),
           Len(w1) > 0 /\ Len(w2) > 0 => Follows(g1[Len(w1)], g2[1])
    PROVE  Chain(g1 \o g2, w1 \o w2)
  <1> DEFINE g == g1 \o g2
             w == w1 \o w2
             m == Len(w1)
             n == Len(w2)
  <1>1. /\ g1 \in Seq(Label) /\ g2 \in Seq(Label) /\ w1 \in Seq(Byte) /\ w2 \in Seq(Byte)
        /\ Len(g1) = m /\ Len(g2) = n /\ m \in Nat /\ n \in Nat
    BY DEF Chain
  <1>2. /\ g \in Seq(Label) /\ w \in Seq(Byte) /\ Len(g) = m + n /\ Len(w) = m + n
    BY <1>1
  <1>3. \A i \in 1 .. m : g[i] = g1[i] /\ w[i] = w1[i]
    BY <1>1, ConcatFacts
  <1>4. \A i \in 1 .. m + n : i > m => g[i] = g2[i - m] /\ w[i] = w2[i - m]
    BY <1>1, ConcatFacts
  <1> HIDE DEF g, w
  <1>5. ASSUME NEW i \in 1 .. m + n PROVE Means(g[i], w[i])
    <2>1. CASE i <= m
      BY <1>1, <1>3, <2>1 DEF Chain
    <2>2. CASE i > m
      <3>1. i - m \in 1 .. n
        BY <1>1, <2>2
      <3> QED
        BY <1>4, <2>2, <3>1 DEF Chain
    <2> QED
      BY <1>1, <2>1, <2>2
  <1>6. ASSUME NEW i \in 1 .. m + n, i < m + n PROVE Follows(g[i], g[i + 1])
    <2>1. CASE i < m
      <3>1. i \in 1 .. m /\ i + 1 \in 1 .. m
        BY <1>1, <2>1
      <3> QED
        BY <1>3, <2>1, <3>1 DEF Chain
    <2>2. CASE i = m
      <3>1. m > 0 /\ n > 0 /\ i + 1 \in 1 .. m + n /\ (i + 1) - m = 1 /\ m \in 1 .. m
        BY <1>1, <1>6, <2>2
      <3>2. g[i] = g1[m] /\ g[i + 1] = g2[1]
        BY <1>1, <1>3, <1>4, <2>2, <3>1
      <3> QED
        BY <3>1, <3>2
    <2>3. CASE i > m
      <3>1. /\ i - m \in 1 .. n /\ i - m < n /\ i + 1 \in 1 .. m + n /\ i + 1 > m
            /\ (i + 1) - m = (i - m) + 1
        BY <1>1, <1>6, <2>3
      <3>2. g[i] = g2[i - m] /\ g[i + 1] = g2[(i - m) + 1]
        BY <1>4, <2>3, <3>1
      <3> QED
        BY <3>1, <3>2 DEF Chain
    <2> QED
      BY <1>1, <2>1, <2>2, <2>3
  <1> QED
    BY <1>2, <1>5, <1>6 DEF g, w, Chain

LEMMA ChainSuffix ==
    ASSUME NEW g, NEW w, Chain(g, w), NEW k \in Nat \ {0}, k <= Len(w) + 1
    PROVE  /\ Chain(SubSeq(g, k, Len(w)), SubSeq(w, k, Len(w)))
           /\ Len(SubSeq(g, k, Len(w))) = Len(w) - k + 1
           /\ \A i \in 1 .. Len(w) - k + 1 : SubSeq(g, k, Len(w))[i] = g[k + i - 1]
  <1> DEFINE n == Len(w)
             h == SubSeq(g, k, n)
             v == SubSeq(w, k, n)
             m == n - k + 1
  <1>1. g \in Seq(Label) /\ w \in Seq(Byte) /\ Len(g) = n /\ n \in Nat /\ m \in Nat
    BY DEF Chain
  <1>2. \A i \in k .. n : i \in 1 .. n
    BY <1>1
  <1>3. h \in Seq(Label) /\ Len(h) = m /\ \A i \in 1 .. m : h[i] = g[k + i - 1]
    BY <1>1, <1>2
  <1>4. v \in Seq(Byte) /\ Len(v) = m /\ \A i \in 1 .. m : v[i] = w[k + i - 1]
    BY <1>1, <1>2
  <1> HIDE DEF h, v
  <1>5. ASSUME NEW i \in 1 .. m PROVE Means(h[i], v[i])
    <2>1. k + i - 1 \in 1 .. n
      BY <1>1
    <2> QED
      BY <1>3, <1>4, <2>1 DEF Chain
  <1>6. ASSUME NEW i \in 1 .. m, i < m PROVE Follows(h[i], h[i + 1])
    <2>1. /\ k + i - 1 \in 1 .. n /\ k + i - 1 < n /\ i + 1 \in 1 .. m
          /\ k + (i + 1) - 1 = (k + i - 1) + 1
      BY <1>1, <1>6
    <2>2. h[i] = g[k + i - 1]
      BY <1>3
    <2>3. h[i + 1] = g[k + (i + 1) - 1]
      BY <1>3, <2>1
    <2> QED
      BY <2>1, <2>2, <2>3 DEF Chain
  <1> QED
    BY <1>3, <1>4, <1>5, <1>6 DEF h, v, Chain

(* The labels g of some bytes w of the content s: those from place i to place j. *)
Run(g, w, i, j, n, o, s) ==
    /\ Chain(g, w) /\ Len(w) > 0
    /\ g[1].kind \in {"stuff", "plain"} /\ g[1].pos = i
    /\ g[1].size = n /\ g[1].ord = o /\ g[1].content = s
    /\ g[Len(w)].kind \in {"literal", "plain"} /\ g[Len(w)].pos = j
    /\ g[Len(w)].size = n /\ g[Len(w)].ord = o /\ g[Len(w)].content = s

LEMMA LabelFacts ==
    ASSUME NEW k \in Kind, NEW j \in Nat, NEW n \in Sizes, NEW o \in Nat,
           NEW s \in Seq(Byte)
    PROVE  LET l == L(k, j, n, o, s)
           IN  /\ l \in Label /\ l.kind = k /\ l.pos = j /\ l.size = n
               /\ l.ord = o /\ l.content = s
  BY DEF L, Label

LEMMA OneFacts ==
    ASSUME NEW S, NEW x \in S
    PROVE  <<x>> \in Seq(S) /\ Len(<<x>>) = 1 /\ <<x>>[1] = x
  OBVIOUS

LEMMA TwoFacts ==
    ASSUME NEW S, NEW x \in S, NEW y \in S
    PROVE  <<x, y>> \in Seq(S) /\ Len(<<x, y>>) = 2 /\ <<x, y>>[1] = x /\ <<x, y>>[2] = y
  OBVIOUS

LEMMA ChainOne ==
    ASSUME NEW l \in Label, NEW c \in Byte, Means(l, c)
    PROVE  Chain(<<l>>, <<c>>)
  <1>1. /\ <<l>> \in Seq(Label) /\ <<c>> \in Seq(Byte) /\ Len(<<l>>) = 1 /\ Len(<<c>>) = 1
        /\ <<l>>[1] = l /\ <<c>>[1] = c
    BY OneFacts
  <1> DEFINE g == <<l>>
             w == <<c>>
  <1> HIDE DEF g, w
  <1>2. /\ g \in Seq(Label) /\ w \in Seq(Byte) /\ Len(g) = 1 /\ Len(w) = 1
        /\ g[1] = l /\ w[1] = c
    BY <1>1 DEF g, w
  <1>3. Chain(g, w)
    BY <1>2 DEF Chain
  <1> QED
    BY <1>3 DEF g, w

LEMMA SeqFacts ==
    ASSUME NEW S, NEW n \in Nat, NEW s \in [1 .. n -> S]
    PROVE  s \in Seq(S) /\ Len(s) = n
  OBVIOUS

(* One byte of the content, stuffed where it has to be. *)
StuffedByte(c) == IF c \in Stuff .. End THEN <<Stuff, c>> ELSE <<c>>

LEMMA ByteRun ==
    ASSUME NEW n \in Sizes, n \in Byte, NEW j \in Nat, j >= 1, j <= n + 4, NEW o \in Nat,
           NEW s, IsContent(s, n)
    PROVE  \E g : Run(g, StuffedByte(s[j]), j, j, n, o, s)
  <1> DEFINE c == s[j]
  <1>0. c \in Byte /\ s \in Seq(Byte)
    <2>1. n + 4 \in Nat /\ j \in 1 .. n + 4
      BY DEF Byte
    <2>2. s \in [1 .. n + 4 -> Byte]
      BY DEF IsContent
    <2> QED
      BY <2>1, <2>2, SeqFacts
  <1> HIDE DEF c
  <1>1. CASE c \in Stuff .. End
    <2> DEFINE a == L("stuff", j, n, o, s)
               b == L("literal", j, n, o, s)
               g == <<a, b>>
               w == <<Stuff, c>>
    <2>1. /\ a \in Label /\ a.kind = "stuff" /\ a.pos = j /\ a.size = n
          /\ a.ord = o /\ a.content = s
          /\ b \in Label /\ b.kind = "literal" /\ b.pos = j /\ b.size = n
          /\ b.ord = o /\ b.content = s
      BY <1>0, LabelFacts DEF Kind
    <2>2. Stuff \in Byte
      BY DEF Stuff, Byte
    <2> HIDE DEF a, b
    <2>3. /\ g \in Seq(Label) /\ w \in Seq(Byte) /\ Len(g) = 2 /\ Len(w) = 2
          /\ g[1] = a /\ g[2] = b /\ w[1] = Stuff /\ w[2] = c
      BY <1>0, <2>1, <2>2, TwoFacts
    <2>4. Means(a, Stuff) /\ Means(b, c)
      BY <1>1, <2>1 DEF Means, InFrame, c
    <2>5. Follows(a, b)
      BY <2>1 DEF Follows
    <2> HIDE DEF g, w
    <2>6. Chain(g, w)
      BY <2>3, <2>4, <2>5 DEF Chain
    <2>7. Run(g, w, j, j, n, o, s)
      BY <2>1, <2>3, <2>6 DEF Run
    <2> QED
      BY <1>1, <2>7 DEF StuffedByte, w, c
  <1>2. CASE c \notin Stuff .. End
    <2> DEFINE a == L("plain", j, n, o, s)
               g == <<a>>
               w == <<c>>
    <2>1. /\ a \in Label /\ a.kind = "plain" /\ a.pos = j /\ a.size = n
          /\ a.ord = o /\ a.content = s
      BY <1>0, LabelFacts DEF Kind
    <2> HIDE DEF a
    <2>2. Means(a, c)
      BY <1>2, <2>1 DEF Means, InFrame, c
    <2>3. Chain(g, w) /\ Len(w) = 1 /\ g[1] = a
      BY <1>0, <2>1, <2>2, ChainOne, OneFacts
    <2> HIDE DEF g, w
    <2>4. Run(g, w, j, j, n, o, s)
      BY <2>1, <2>3 DEF Run
    <2> QED
      BY <1>2, <2>4 DEF StuffedByte, w, c
  <1> QED
    BY <1>1, <1>2

LEMMA RunJoin ==
    ASSUME NEW n \in Nat, NEW o, NEW s, NEW k \in Nat, k < n + 4,
           NEW g1, NEW w1, Run(g1, w1, 1, k, n, o, s),
           NEW g2, NEW w2, Run(g2, w2, k + 1, k + 1, n, o, s)
    PROVE  Run(g1 \o g2, w1 \o w2, 1, k + 1, n, o, s)
  <1>1. /\ g1 \in Seq(Label) /\ g2 \in Seq(Label) /\ w1 \in Seq(Byte) /\ w2 \in Seq(Byte)
        /\ Len(g1) = Len(w1) /\ Len(g2) = Len(w2)
        /\ Len(w1) \in Nat \ {0} /\ Len(w2) \in Nat \ {0}
    BY DEF Run, Chain
  <1>2. Follows(g1[Len(w1)], g2[1])
    BY DEF Run, Follows
  <1>3. Chain(g1 \o g2, w1 \o w2)
    BY <1>2, ChainConcat DEF Run
  <1>4. Len(w1 \o w2) = Len(w1) + Len(w2)
    BY <1>1, ConcatFacts
  <1>5. (g1 \o g2)[1] = g1[1]
    BY <1>1, ConcatFacts
  <1>6. (g1 \o g2)[Len(w1) + Len(w2)] = g2[Len(w2)]
    <2>1. /\ Len(w1) + Len(w2) \in 1 .. Len(g1) + Len(g2) /\ Len(w1) + Len(w2) > Len(g1)
          /\ Len(w1) + Len(w2) - Len(g1) = Len(w2)
      BY <1>1
    <2> QED
      BY <1>1, <2>1, ConcatFacts
  <1> DEFINE g == g1 \o g2
             w == w1 \o w2
  <1> HIDE DEF g, w
  <1>7. Chain(g, w) /\ Len(w) = Len(w1) + Len(w2) /\ g[1] = g1[1] /\ g[Len(w)] = g2[Len(w2)]
    BY <1>3, <1>4, <1>5, <1>6 DEF g, w
  <1>8. Run(g, w, 1, k + 1, n, o, s)
    BY <1>1, <1>7 DEF Run
  <1> QED
    BY <1>8 DEF g, w

(* The content of a frame, stuffed. *)
LEMMA StuffedRun ==
    ASSUME NEW n \in Sizes, n \in Byte, NEW o \in Nat, NEW s, IsContent(s, n)
    PROVE  \E g : Run(g, Stuffed(s), 1, n + 4, n, o, s)
  <1> DEFINE m == n + 4
             blocks == [i \in 1 .. m |-> StuffedByte(s[i])]
  <1>1. n \in Nat /\ m \in Nat \ {0}
    BY DEF Byte
  <1>2. DOMAIN s = 1 .. m /\ Len(blocks) = m
    BY <1>1 DEF IsContent
  <1>3. Stuffed(s) = FlattenSeq(blocks)
    BY <1>2, Zenon DEF Stuffed, StuffedByte
  <1> HIDE DEF blocks
  <1>4. PICK F : IsFlatten(F, blocks, m) /\ FlattenSeq(blocks) = F[m]
    BY <1>1, <1>2, FlattenUnfolds
  <1> DEFINE S == {k \in Nat : k >= 1 /\ k <= m => \E g : Run(g, F[k], 1, k, n, o, s)}
  <1>5. 0 \in S
    OBVIOUS
  <1>6. ASSUME NEW k \in Nat, k \in S PROVE k + 1 \in S
    <2> SUFFICES ASSUME k + 1 <= m PROVE \E g : Run(g, F[k + 1], 1, k + 1, n, o, s)
      OBVIOUS
    <2>1. k + 1 \in 1 .. m /\ k + 1 >= 1 /\ k + 1 \in Nat
      BY <1>1
    <2>2. blocks[k + 1] = StuffedByte(s[k + 1])
      BY <2>1 DEF blocks
    <2>4. PICK g2 : Run(g2, blocks[k + 1], k + 1, k + 1, n, o, s)
      BY <2>1, <2>2, ByteRun
    <2>5. F[k + 1] = IF k = 0 THEN blocks[k + 1] ELSE F[k] \o blocks[k + 1]
      BY <1>1, <1>4, FlattenStep
    <2>6. CASE k = 0
      <3>1. F[k + 1] = blocks[k + 1] /\ k + 1 = 1
        BY <2>5, <2>6
      <3> QED
        BY <2>4, <3>1
    <2>7. CASE k # 0
      <3>1. F[k + 1] = F[k] \o blocks[k + 1]
        BY <2>5, <2>7
      <3>2. k >= 1 /\ k <= m
        BY <1>1, <2>7
      <3>3. PICK g1 : Run(g1, F[k], 1, k, n, o, s)
        BY <1>6, <3>2
      <3>4. Run(g1 \o g2, F[k] \o blocks[k + 1], 1, k + 1, n, o, s)
        BY <1>1, <2>4, <3>3, RunJoin
      <3> QED
        BY <3>1, <3>4
    <2> QED
      BY <2>6, <2>7
  <1> HIDE DEF S
  <1>7. m \in S
    BY <1>1, <1>5, <1>6, InductionOnSet
  <1>8. \E g : Run(g, F[m], 1, m, n, o, s)
    BY <1>1, <1>7 DEF S
  <1> QED
    BY <1>3, <1>4, <1>8

(* The labels of whole frames, of the rest of one, or of both; the last frame
   carries the packet k of those sent.                                      *)
Labels(g, w, k) ==
    /\ Chain(g, w)
    /\ Len(w) > 0 => g[Len(w)].kind = "end" /\ g[Len(w)].ord = k

LEMMA PrefixIs ==
    ASSUME NEW S, NEW s \in Seq(S), NEW t \in Seq(S), NEW n \in Nat,
           Len(t) = n, Len(s) >= n, \A i \in 1 .. n : s[i] = t[i]
    PROVE  SubSeq(s, 1, n) = t
  OBVIOUS

(* The frame of the byte that l belongs to carries the packet p. *)
Carries(l, p) ==
    /\ l.size = Size(p) /\ l.content[1] = p.id
    /\ \A i \in 1 .. Size(p) : l.content[i + 2] = ToBytes(p)[i]

LEMMA FrameLabels ==
    ASSUME NEW p \in Packets, NEW k \in Nat
    PROVE  /\ \E g : /\ Labels(g, Frame(p), k) /\ g[1].kind = "begin" /\ g[1].ord = k
                     /\ Carries(g[1], p)
           /\ Len(Frame(p)) > 0
  <1> DEFINE n == Size(p)
             content == <<p.id, n>> \o ToBytes(p)
             sum == Le16(Checksum(content))
             all == content \o sum
  <1>1. /\ p.id \in Byte /\ IsPacketId(p.id) /\ n \in Byte /\ n \in Nat /\ n \in Sizes
        /\ ToBytes(p) \in [1 .. n -> Byte] /\ p.id \in GET_ADDR_LIST .. SUBSCRIBE
    <2>1. p.id \in GET_ADDR_LIST .. SUBSCRIBE /\ n \in Byte /\ ToBytes(p) \in [1 .. n -> Byte]
      BY PacketFacts DEF Encodes
    <2>2. p.id \in Byte /\ IsPacketId(p.id)
      BY <2>1 DEF Byte, IsPacketId, GET_ADDR_LIST, SUBSCRIBE, NULL
    <2>3. n \in Sizes
      BY DEF Sizes
    <2>4. \A x \in Byte : x \in Nat
      BY DEF Byte
    <2> QED
      BY <2>1, <2>2, <2>3, <2>4
  <1> HIDE DEF n
  <1>2. /\ ToBytes(p) \in Seq(Byte) /\ Len(ToBytes(p)) = n
        /\ <<p.id, n>> \in Seq(Byte) /\ Len(<<p.id, n>>) = 2
        /\ <<p.id, n>>[1] = p.id /\ <<p.id, n>>[2] = n
    BY <1>1, TwoFacts
  <1>3. /\ content \in Seq(Byte) /\ Len(content) = n + 2
        /\ content[1] = p.id /\ content[2] = n
        /\ \A i \in 1 .. n : content[i + 2] = ToBytes(p)[i]
    <2>1. 2 + n = n + 2 /\ 1 \in 1 .. 2 /\ 2 \in 1 .. 2
      BY <1>1
    <2>2. ASSUME NEW i \in 1 .. n PROVE content[i + 2] = ToBytes(p)[i]
      <3>1. i + 2 \in 1 .. 2 + n /\ i + 2 > 2 /\ (i + 2) - 2 = i
        BY <1>1
      <3> QED
        BY <1>2, <3>1, ConcatFacts
    <2> QED
      BY <1>2, <2>1, <2>2, ConcatFacts
  <1> HIDE DEF content
  <1>4. n + 2 \in Nat /\ content \in [1 .. n + 2 -> Byte]
    BY <1>1, <1>3
  <1>5. sum \in [1 .. 2 -> Byte] /\ sum[1] + 256 * sum[2] = Checksum(content)
    BY <1>4, ChecksumType
  <1> HIDE DEF sum
  <1>6. sum \in Seq(Byte) /\ Len(sum) = 2
    BY <1>5, SeqFacts
  <1>7. /\ all \in Seq(Byte) /\ Len(all) = n + 4 /\ all[1] = p.id /\ all[2] = n
        /\ all[n + 3] = sum[1] /\ all[n + 4] = sum[2]
        /\ \A i \in 1 .. n + 2 : all[i] = content[i]
    <2>1. (n + 2) + 2 = n + 4 /\ 1 \in 1 .. n + 2 /\ 2 \in 1 .. n + 2
      BY <1>1
    <2>2. /\ all \in Seq(Byte) /\ Len(all) = (n + 2) + 2
          /\ \A i \in 1 .. n + 2 : all[i] = content[i]
          /\ \A i \in 1 .. (n + 2) + 2 : i > n + 2 => all[i] = sum[i - (n + 2)]
      <3>1. /\ all \in Seq(Byte) /\ Len(all) = Len(content) + Len(sum)
            /\ \A i \in 1 .. Len(content) : all[i] = content[i]
            /\ \A i \in 1 .. Len(content) + Len(sum) :
                  i > Len(content) => all[i] = sum[i - Len(content)]
        BY <1>3, <1>6, ConcatFacts
      <3>2. Len(content) = n + 2 /\ Len(sum) = 2
        BY <1>3, <1>6
      <3> HIDE DEF all
      <3> QED
        BY <3>1, <3>2
    <2>3. /\ n + 3 \in 1 .. n + 4 /\ n + 3 > n + 2 /\ n + 3 - (n + 2) = 1
          /\ n + 4 \in 1 .. n + 4 /\ n + 4 > n + 2 /\ n + 4 - (n + 2) = 2
      BY <1>1
    <2> HIDE DEF all
    <2>4. all[n + 3] = sum[1]
      BY <1>1, <2>1, <2>2, <2>3
    <2>5. all[n + 4] = sum[2]
      BY <1>1, <2>1, <2>2, <2>3
    <2> QED
      BY <1>3, <2>1, <2>2, <2>4, <2>5
  <1>8. Frame(p) = <<Begin>> \o Stuffed(all) \o <<End>>
    BY DEF Frame, all, sum, content, n
  <1> HIDE DEF all
  <1>9. IsContent(all, n)
    <2>1. all \in [1 .. n + 4 -> Byte]
      BY <1>1, <1>7
    <2>2. SubSeq(all, 1, n + 2) = content
      <3>1. \A i \in 1 .. n + 2 : all[i] = content[i]
        BY <1>7
      <3> QED
        BY <1>1, <1>3, <1>4, <1>7, <3>1, PrefixIs
    <2> QED
      BY <1>1, <1>5, <1>7, <2>1, <2>2 DEF IsContent
  <1>10. PICK g : Run(g, Stuffed(all), 1, n + 4, n, k, all)
    BY <1>1, <1>9, StuffedRun
  <1> DEFINE w == Stuffed(all)
             a == L("begin", 0, n, k, all)
             b == L("end", 0, n, k, all)
  <1> HIDE DEF w
  <1>11. /\ a \in Label /\ a.kind = "begin" /\ a.size = n /\ a.ord = k /\ a.content = all
         /\ b \in Label /\ b.kind = "end" /\ b.size = n /\ b.ord = k /\ b.content = all
    BY <1>1, <1>7, LabelFacts DEF Kind
  <1> HIDE DEF a, b
  <1>12. Begin \in Byte /\ End \in Byte
    BY DEF Begin, End, Byte
  <1>13. Means(a, Begin) /\ Means(b, End)
    BY <1>11 DEF Means, InFrame
  <1>14. Chain(<<a>>, <<Begin>>) /\ Chain(<<b>>, <<End>>)
    BY <1>11, <1>12, <1>13, ChainOne
  <1>15. /\ Chain(g, w) /\ Len(w) \in Nat \ {0} /\ Len(g) = Len(w) /\ g \in Seq(Label)
         /\ w \in Seq(Byte)
    BY <1>10 DEF Run, Chain, w
  <1>16. /\ Len(<<a>>) = 1 /\ <<a>>[1] = a /\ <<a>> \in Seq(Label)
         /\ Len(<<b>>) = 1 /\ <<b>>[1] = b /\ <<b>> \in Seq(Label)
         /\ Len(<<Begin>>) = 1 /\ <<Begin>> \in Seq(Byte)
         /\ Len(<<End>>) = 1 /\ <<End>> \in Seq(Byte)
    BY <1>11, <1>12, OneFacts
  <1>17. Follows(a, g[1])
    BY <1>10, <1>11 DEF Run, Follows
  <1>18. Follows(g[Len(w)], b)
    BY <1>1, <1>10, <1>11 DEF Run, Follows, w
  <1> DEFINE g2 == <<a>> \o g
             w2 == <<Begin>> \o w
  <1>19. Chain(g2, w2)
    BY <1>14, <1>15, <1>16, <1>17, ChainConcat
  <1>20. /\ g2 \in Seq(Label) /\ w2 \in Seq(Byte)
         /\ Len(g2) = Len(w) + 1 /\ Len(w2) = Len(w) + 1 /\ g2[1] = a
         /\ g2[Len(w) + 1] = g[Len(w)]
    <2>1. /\ 1 \in 1 .. 1 /\ 1 + Len(w) = Len(w) + 1 /\ Len(w) + 1 \in 1 .. 1 + Len(w)
          /\ Len(w) + 1 > 1 /\ Len(w) + 1 - 1 = Len(w)
      BY <1>15
    <2> QED
      BY <1>15, <1>16, <2>1, ConcatFacts
  <1> HIDE DEF g2, w2
  <1> DEFINE g3 == g2 \o <<b>>
             w3 == w2 \o <<End>>
  <1>21. Chain(g3, w3)
    BY <1>14, <1>16, <1>18, <1>19, <1>20, ChainConcat
  <1>22. /\ Len(w3) = Len(w) + 2 /\ g3[1] = a /\ g3[Len(w) + 2] = b
    <2>1. /\ 1 \in 1 .. Len(w) + 1 /\ Len(w) + 1 + 1 = Len(w) + 2
          /\ Len(w) + 2 \in 1 .. Len(w) + 1 + 1 /\ Len(w) + 2 > Len(w) + 1
          /\ Len(w) + 2 - (Len(w) + 1) = 1
      BY <1>15
    <2> QED
      BY <1>16, <1>20, <2>1, ConcatFacts
  <1>23. Frame(p) = w3
    BY <1>8 DEF w, w2
  <1> HIDE DEF g3, w3
  <1>24. Labels(g3, w3, k) /\ g3[1].kind = "begin" /\ g3[1].ord = k /\ Len(w3) > 0
    BY <1>11, <1>15, <1>21, <1>22 DEF Labels
  <1>25. Carries(g3[1], p)
    <2>1. g3[1].size = Size(p) /\ g3[1].content = all
      BY <1>11, <1>22 DEF n
    <2>2. \A i \in 1 .. n : i + 2 \in 1 .. n + 2
      BY <1>1
    <2>3. \A i \in 1 .. n : all[i + 2] = ToBytes(p)[i]
      BY <1>3, <1>7, <2>2
    <2> QED
      BY <1>7, <2>1, <2>3 DEF Carries, n
  <1> QED
    BY <1>23, <1>24, <1>25

-----------------------------------------------------------------------------
(* Type correctness *)

Ranges ==
    /\ late \in 0 .. 1
    /\ sent \in Seq(Packets) /\ Len(sent) <= MaxSent
    /\ lost \in 0 .. MaxLost /\ damaged \in 0 .. MaxDamaged

TypesInv ==
    /\ \E g : Labels(g, wire, Len(sent))
    /\ GoodParser(parser)
    /\ Ranges

LEMMA TypesInvTypes == TypesInv => TypeOK
  <1> SUFFICES ASSUME TypesInv PROVE TypeOK
    OBVIOUS
  <1>1. wire \in Seq(Byte)
    BY DEF TypesInv, Labels, Chain
  <1>2. parser \in [state : {"START", "ID", "SIZE", "DATA", "CHECK_1", "CHECK_2"},
                    stuff_flag : BOOLEAN, msg_id : Byte, checksum_in : 0 .. UINT16_MAX,
                    data_length : Byte, data : Seq(Byte)]
    BY Zenon DEF TypesInv, GoodParser, Parser, State, Word, Bytes
  <1>3. parser.state \in State /\ parser.data_length \in Byte /\ parser.data \in Bytes
    BY DEF TypesInv, GoodParser, Parser
  <1> DEFINE n == Len(parser.data)
  <1>4. n \in Nat /\ parser.data_length \in Nat
    BY <1>3, ByteFacts, AppendFacts
  <1>5. Counted(parser)
    BY DEF TypesInv, GoodParser
  <1>6. parser.state = "DATA" => n \in 2 .. parser.data_length + 1
    BY <1>4, <1>5 DEF Counted
  <1>7. (CASE parser.state = "START" -> TRUE
           [] parser.state = "ID" -> n = 0
           [] parser.state = "SIZE" -> n = 1 /\ IsPacketId(parser.msg_id)
           [] parser.state = "DATA" -> n \in 2 .. parser.data_length + 1
           [] OTHER -> n = parser.data_length + 2)
    BY <1>3, <1>5, <1>6, Zenon DEF State, Counted
  <1> QED
    BY <1>1, <1>2, <1>7, Zenon DEF TypesInv, Ranges, TypeOK

(* The labels of a wire whose first byte is taken away. *)
LEMMA TailLabels ==
    ASSUME NEW g, NEW w, NEW k, Labels(g, w, k), w # <<>>
    PROVE  /\ Labels(Tail(g), Tail(w), k) /\ Head(w) \in Byte /\ g # <<>>
           /\ g[1] \in Label /\ Means(g[1], Head(w))
           /\ Len(w) > 1 =>
                 Tail(g) # <<>> /\ Tail(g)[1] \in Label /\ Follows(g[1], Tail(g)[1])
           /\ Len(w) = 1 => Tail(g) = <<>> /\ g[1].kind = "end" /\ g[1].ord = k
  <1> DEFINE n == Len(w)
             h == SubSeq(g, 2, n)
             v == SubSeq(w, 2, n)
  <1>1. /\ g \in Seq(Label) /\ w \in Seq(Byte) /\ Len(g) = n /\ n \in Nat \ {0}
        /\ Chain(g, w)
    BY DEF Labels, Chain
  <1>2. Tail(g) = h /\ Tail(w) = v
    BY <1>1
  <1>3. Chain(h, v) /\ Len(h) = n - 1 /\ \A i \in 1 .. n - 1 : h[i] = g[i + 1]
    <2>1. /\ Chain(h, v) /\ Len(h) = n - 2 + 1
          /\ \A i \in 1 .. n - 2 + 1 : h[i] = g[2 + i - 1]
      BY <1>1, ChainSuffix
    <2>2. n - 2 + 1 = n - 1 /\ \A i \in 1 .. n - 1 : 2 + i - 1 = i + 1
      BY <1>1
    <2> QED
      BY <2>1, <2>2
  <1> HIDE DEF h, v
  <1>4. Len(v) = n - 1 /\ h \in Seq(Label)
    BY <1>3 DEF Chain
  <1>5. Labels(h, v, k)
    <2>1. n - 1 > 0 => n - 1 \in 1 .. n - 1 /\ (n - 1) + 1 = n
      BY <1>1
    <2>2. n - 1 > 0 => h[n - 1] = g[n]
      BY <1>3, <2>1
    <2>3. g[n].kind = "end" /\ g[n].ord = k
      BY <1>1 DEF Labels
    <2> QED
      BY <1>3, <1>4, <2>2, <2>3 DEF Labels
  <1>6. Head(w) = w[1] /\ 1 \in 1 .. n /\ w[1] \in Byte /\ g[1] \in Label /\ g # <<>>
    BY <1>1
  <1>7. Means(g[1], w[1])
    BY <1>1, <1>6 DEF Chain
  <1>8. n > 1 => h # <<>> /\ h[1] \in Label /\ Follows(g[1], h[1])
    <2> SUFFICES ASSUME n > 1 PROVE h # <<>> /\ h[1] \in Label /\ Follows(g[1], h[1])
      OBVIOUS
    <2>1. 1 \in 1 .. n - 1 /\ 1 + 1 = 2
      BY <1>1
    <2>2. h # <<>> /\ h[1] \in Label
      BY <1>3, <1>4, <2>1
    <2>3. Follows(g[1], g[1 + 1])
      BY <1>1, <1>6 DEF Chain
    <2> QED
      BY <1>3, <2>1, <2>2, <2>3
  <1>9. n = 1 => h = <<>> /\ g[1].kind = "end" /\ g[1].ord = k
    BY <1>1, <1>3, <1>4 DEF Labels
  <1> QED
    BY <1>2, <1>5, <1>6, <1>7, <1>8, <1>9

LEMMA JoinLabels ==
    ASSUME NEW k \in Nat, NEW g1, NEW w1, Labels(g1, w1, k),
           NEW g2, NEW w2, Labels(g2, w2, k + 1),
           Len(w2) > 0, g2[1].kind = "begin", g2[1].ord = k + 1
    PROVE  /\ Labels(g1 \o g2, w1 \o w2, k + 1)
           /\ w1 # <<>> => g1 \o g2 # <<>> /\ (g1 \o g2)[1] = g1[1]
           /\ w1 = <<>> => g1 \o g2 # <<>> /\ (g1 \o g2)[1] = g2[1]
  <1> DEFINE m == Len(w1)
             n == Len(w2)
             g == g1 \o g2
             w == w1 \o w2
  <1>1. /\ g1 \in Seq(Label) /\ w1 \in Seq(Byte) /\ Len(g1) = m /\ m \in Nat
        /\ g2 \in Seq(Label) /\ w2 \in Seq(Byte) /\ Len(g2) = n /\ n \in Nat \ {0}
        /\ Chain(g1, w1) /\ Chain(g2, w2)
    BY DEF Labels, Chain
  <1>2. m > 0 => Follows(g1[m], g2[1])
    BY DEF Labels, Follows
  <1>3. Chain(g, w)
    BY <1>1, <1>2, ChainConcat
  <1>4. /\ Len(g) = m + n /\ Len(w) = m + n
        /\ \A i \in 1 .. m : g[i] = g1[i]
        /\ \A i \in 1 .. m + n : i > m => g[i] = g2[i - m]
    <2>1. Len(w) = m + n
      BY <1>1
    <2>2. Len(g) = m + n
      BY <1>3, <2>1 DEF Chain
    <2>3. /\ \A i \in 1 .. m : g[i] = g1[i]
          /\ \A i \in 1 .. m + n : i > m => g[i] = g2[i - m]
      BY <1>1, ConcatFacts
    <2> QED
      BY <2>1, <2>2, <2>3
  <1> HIDE DEF g, w
  <1>5. g[m + n] = g2[n]
    <2>1. m + n \in 1 .. m + n /\ m + n > m /\ (m + n) - m = n
      BY <1>1
    <2> QED
      BY <1>4, <2>1
  <1>6. Labels(g, w, k + 1)
    BY <1>1, <1>3, <1>4, <1>5 DEF Labels
  <1>7. g # <<>>
    BY <1>1, <1>4
  <1>8. m > 0 => g[1] = g1[1]
    BY <1>1, <1>4
  <1>9. m = 0 => g[1] = g2[1]
    <2>1. m = 0 => 1 \in 1 .. m + n /\ 1 > m /\ 1 - m = 1
      BY <1>1
    <2> QED
      BY <1>4, <2>1
  <1>10. (w1 # <<>> => m > 0) /\ (w1 = <<>> => m = 0)
    BY <1>1
  <1> QED
    BY <1>6, <1>7, <1>8, <1>9, <1>10 DEF g, w

LEMMA NoLabels == ASSUME NEW k PROVE Labels(<<>>, <<>>, k)
  <1>1. <<>> \in Seq(Label) /\ <<>> \in Seq(Byte) /\ Len(<<>>) = 0
    OBVIOUS
  <1> QED
    BY <1>1 DEF Labels, Chain

LEMMA SuffixLabels ==
    ASSUME NEW o, NEW w, NEW v \in Suffixes(w), NEW g, Labels(g, w, o)
    PROVE  \E h : Labels(h, v, o)
  <1>1. Chain(g, w) /\ Len(w) \in Nat
    BY DEF Labels, Chain
  <1>2. CASE v = <<>>
    BY <1>2, NoLabels
  <1>3. ASSUME NEW k \in 1 .. Len(w), v = SubSeq(w, k, Len(w)) PROVE \E h : Labels(h, v, o)
    <2> DEFINE h == SubSeq(g, k, Len(w))
               m == Len(w) - k + 1
    <2>1. k \in Nat \ {0} /\ k <= Len(w) + 1 /\ m \in Nat \ {0} /\ k + m - 1 = Len(w)
      BY <1>1
    <2>2. Chain(h, v) /\ Len(h) = m /\ \A i \in 1 .. m : h[i] = g[k + i - 1]
      BY <1>1, <1>3, <2>1, ChainSuffix
    <2> HIDE DEF h
    <2>3. h[m] = g[Len(w)] /\ Len(v) = m
      BY <2>1, <2>2 DEF Chain
    <2>4. g[Len(w)].kind = "end" /\ g[Len(w)].ord = o
      BY <1>1, <2>1 DEF Labels
    <2> QED
      BY <2>2, <2>3, <2>4 DEF Labels
  <1> QED
    BY <1>2, <1>3 DEF Suffixes

LEMMA NewParserGood ==
    GoodParser(NewParser) /\ NewParser.data = <<>> /\ NewParser.state = "START"
        /\ NewParser.stuff_flag = FALSE
  <1>1. NewParser = Members("START", FALSE, 0, 0, 0, <<>>)
    BY Zenon DEF NewParser, Members
  <1>2. 0 \in Byte /\ 0 \in Word /\ <<>> \in Bytes /\ "START" \in State /\ FALSE \in BOOLEAN
    <2>1. 0 \in Byte
      BY DEF Byte
    <2>2. 0 \in Word
      BY <2>1, ByteFacts
    <2> QED
      BY <2>1, <2>2 DEF State, Bytes
  <1> HIDE DEF NewParser
  <1>3. /\ NewParser \in Parser /\ NewParser.state = "START" /\ NewParser.stuff_flag = FALSE
        /\ NewParser.data = <<>>
    <2>1. ASSUME NEW b \in BOOLEAN, NEW z \in Byte, z \in Word
          PROVE  LET t == Members("START", b, z, z, z, <<>>)
                 IN  t \in Parser /\ t.state = "START" /\ t.stuff_flag = b /\ t.data = <<>>
      BY <1>2, <2>1, MembersAre
    <2> QED
      BY <1>1, <1>2, <2>1
  <1> QED
    BY <1>3 DEF GoodParser, Counted

LEMMA TypesInit == Init => TypesInv
  <1> SUFFICES ASSUME Init PROVE TypesInv
    OBVIOUS
  <1>1. \E g : Labels(g, wire, 0)
    <2>1. CASE wire = <<>>
      BY <2>1, NoLabels
    <2>2. ASSUME NEW p \in Interrupted, wire \in Suffixes(Tail(Frame(p)))
          PROVE  \E g : Labels(g, wire, 0)
      <3>1. p \in Packets
        BY FramingAssumption
      <3>2. PICK g : Labels(g, Frame(p), 0) /\ Len(Frame(p)) > 0
        BY <3>1, FrameLabels
      <3>3. Frame(p) # <<>>
        BY <3>2 DEF Labels, Chain
      <3>4. Labels(Tail(g), Tail(Frame(p)), 0)
        BY <3>2, <3>3, TailLabels
      <3> QED
        BY <2>2, <3>4, SuffixLabels
    <2> QED
      BY <2>1, <2>2 DEF Init
  <1>2. GoodParser(parser)
    BY NewParserGood DEF Init
  <1>3. Ranges
    BY FramingAssumption DEF Init, Ranges
  <1>4. Len(sent) = 0
    BY DEF Init
  <1> QED
    BY <1>1, <1>2, <1>3, <1>4 DEF TypesInv

LEMMA TypesReceive ==
    ASSUME TypesInv, wire # <<>>, NEW c \in Byte, Receive(c)
    PROVE  (\E g : Labels(g, wire', Len(sent'))) /\ GoodParser(parser')
  <1>1. PICK g : Labels(g, wire, Len(sent))
    BY DEF TypesInv
  <1>2. Labels(Tail(g), wire', Len(sent'))
    BY <1>1, TailLabels DEF Receive
  <1>3. GoodParser(parser')
    BY ParsedGood DEF TypesInv, Receive
  <1> QED
    BY <1>2, <1>3

LEMMA TypesNext == TypesInv /\ [Next]_vars => TypesInv'
  <1> SUFFICES ASSUME TypesInv, [Next]_vars PROVE TypesInv'
    OBVIOUS
  <1>1. ASSUME NEW p \in Packets, Send(p) PROVE TypesInv'
    <2> DEFINE k == Len(sent)
    <2>0. k \in Nat /\ k + 1 \in Nat /\ Len(sent') = k + 1
      BY <1>1 DEF Send, TypesInv, Ranges
    <2>1. PICK g1 : Labels(g1, wire, k)
      BY DEF TypesInv
    <2> HIDE DEF k
    <2>2. PICK g2 : /\ Labels(g2, Frame(p), k + 1) /\ g2[1].kind = "begin"
                    /\ g2[1].ord = k + 1 /\ Len(Frame(p)) > 0
      BY <2>0, FrameLabels
    <2>3. Labels(g1 \o g2, wire', Len(sent'))
      BY <1>1, <2>0, <2>1, <2>2, JoinLabels DEF Send
    <2>4. sent' \in Seq(Packets) /\ Len(sent') <= MaxSent
      BY <1>1, FramingAssumption DEF Send, TypesInv, Ranges
    <2> QED
      BY <1>1, <2>3, <2>4 DEF Send, TypesInv, Ranges
  <1>2. CASE ReadByte
    <2>1. PICK g : Labels(g, wire, Len(sent))
      BY DEF TypesInv
    <2>2. wire # <<>> /\ Receive(Head(wire)) /\ UNCHANGED <<lost, damaged>>
      BY <1>2 DEF ReadByte
    <2>3. Head(wire) \in Byte
      BY <2>1, <2>2, TailLabels
    <2>4. (\E h : Labels(h, wire', Len(sent'))) /\ GoodParser(parser')
      BY <2>2, <2>3, TypesReceive
    <2> QED
      BY <2>2, <2>4 DEF Receive, TypesInv, Ranges
  <1>3. CASE LoseByte
    <2>1. PICK g : Labels(g, wire, Len(sent))
      BY DEF TypesInv
    <2>2. Labels(Tail(g), wire', Len(sent'))
      BY <1>3, <2>1, TailLabels DEF LoseByte
    <2>3. lost' \in 0 .. MaxLost
      BY <1>3, FramingAssumption DEF LoseByte, TypesInv, Ranges
    <2> QED
      BY <1>3, <2>2, <2>3 DEF LoseByte, TypesInv, Ranges
  <1>4. ASSUME NEW c \in DamagedTo, DamageByte(c) PROVE TypesInv'
    <2>1. wire # <<>> /\ Receive(c) /\ UNCHANGED lost
      BY <1>4 DEF DamageByte
    <2>2. c \in Byte
      BY FramingAssumption
    <2>3. (\E h : Labels(h, wire', Len(sent'))) /\ GoodParser(parser')
      BY <2>1, <2>2, TypesReceive
    <2>4. damaged' \in 0 .. MaxDamaged
      BY <1>4, FramingAssumption DEF DamageByte, TypesInv, Ranges
    <2> QED
      BY <2>1, <2>3, <2>4 DEF Receive, TypesInv, Ranges
  <1>5. CASE UNCHANGED vars
    BY <1>5 DEF vars, TypesInv, Ranges
  <1> QED
    BY <1>1, <1>2, <1>3, <1>4, <1>5 DEF Next

(* read() keeps its members' types and its state agrees with the bytes added,
   whatever is sent, lost and damaged.                                      *)
THEOREM FramingTypes == Spec => []TypeOK
  <1>1. Spec => []TypesInv
    BY TypesInit, TypesNext, PTL DEF Spec
  <1> QED
    BY <1>1, TypesInvTypes, PTL

-----------------------------------------------------------------------------
(* A frame that is read from its first byte on *)

(* The parser is at the place of the next byte in its frame. *)
InPlace(ps, l) ==
    /\ ps.stuff_flag = (l.kind = "literal")
    /\ \/ l.pos = 1 /\ ps.state = "ID" /\ Len(ps.data) = 0
       \/ l.pos = 2 /\ ps.state = "SIZE" /\ Len(ps.data) = 1
       \/ /\ l.pos >= 3 /\ l.pos <= l.size + 2 /\ ps.state = "DATA"
          /\ Len(ps.data) = l.pos - 1 /\ ps.data_length = l.size
       \/ /\ l.pos = l.size + 3 /\ ps.state = "CHECK_1"
          /\ Len(ps.data) = l.size + 2 /\ ps.data_length = l.size
       \/ /\ l.pos = l.size + 4 /\ ps.state = "CHECK_2"
          /\ Len(ps.data) = l.size + 2 /\ ps.data_length = l.size

(* On an empty line a frame is about to begin, that of the next packet. *)
Idle(k) == L("begin", 0, 0, k + 1, <<>>)
Ahead(g, k) == IF g = <<>> THEN Idle(k) ELSE g[1]

LEMMA ParserFacts ==
    ASSUME NEW ps, GoodParser(ps)
    PROVE  /\ ps.stuff_flag \in BOOLEAN /\ ps.state \in State
           /\ ps.data_length \in Nat /\ Len(ps.data) \in Nat
  <1>1. /\ ps.stuff_flag \in BOOLEAN /\ ps.state \in State
        /\ ps.data_length \in Byte /\ ps.data \in Bytes
    BY DEF GoodParser, Parser
  <1> QED
    BY <1>1, ByteFacts, AppendFacts

LEMMA LabelTypes ==
    ASSUME NEW l \in Label
    PROVE  l.kind \in Kind /\ l.pos \in Nat /\ l.size \in Nat /\ l.ord \in Nat
  <1>1. l.kind \in Kind /\ l.pos \in Nat /\ l.size \in Sizes /\ l.ord \in Nat
    BY DEF Label
  <1>2. PICK p \in Packets : l.size = Size(p)
    BY <1>1 DEF Sizes
  <1>3. l.size \in Byte
    BY <1>2, PacketFacts DEF Encodes
  <1> QED
    BY <1>1, <1>3 DEF Byte

(* The next label, which is that of an idle line when there is none. *)
NextLabel(b) == (\E k : b = Idle(k)) \/ b \in Label

LEMMA IdleFacts ==
    ASSUME NEW k
    PROVE  /\ Idle(k).kind = "begin" /\ Idle(k).pos = 0 /\ Idle(k).size = 0
           /\ Idle(k).ord = k + 1
  BY DEF Idle, L

LEMMA NextTypes ==
    ASSUME NEW b, NextLabel(b)
    PROVE  /\ b.kind \in Kind /\ b.pos \in Nat /\ b.size \in Nat
  <1>2. CASE \E k : b = Idle(k)
    BY <1>2, IdleFacts DEF Kind
  <1>3. CASE b \in Label
    BY <1>3, LabelTypes
  <1> QED
    BY <1>2, <1>3 DEF NextLabel

(* How many bytes read(c) adds, and what it does to the flag. *)
LEMMA ParsedCounts ==
    ASSUME NEW ps, GoodParser(ps), NEW c \in Byte
    PROVE  LET t == Parsed(ps, c)
           IN  /\ GoodParser(t) /\ t.stuff_flag \in BOOLEAN /\ Len(t.data) \in Nat
               /\ ps.stuff_flag \in BOOLEAN /\ Len(ps.data) \in Nat
               /\ c = Stuff /\ ~ps.stuff_flag =>
                     /\ t.stuff_flag = TRUE /\ Len(t.data) = Len(ps.data)
                     /\ t.state = ps.state
               /\ c # Stuff \/ ps.stuff_flag =>
                     t.stuff_flag = FALSE /\ Len(t.data) <= Len(ps.data) + 1
               /\ ps.state = "START" /\ (c # Stuff \/ ps.stuff_flag) => Len(t.data) = 0
               /\ c \in {Begin, End} /\ ~ps.stuff_flag =>
                     /\ Len(t.data) = 0
                     /\ t.state = IF c = Begin THEN "ID" ELSE "START"
               /\ c = Begin /\ ps.state = "START" =>
                     Len(t.data) = 0 /\ t.state = "ID" /\ t.stuff_flag = FALSE
               /\ ps.stuff_flag \/ c \notin Stuff .. End =>
                     t.stuff_flag = FALSE /\ Advances(ps, c, t)
  <1> DEFINE t == Parsed(ps, c)
  <1>1. Escapes(ps, c) <=> c = Stuff /\ ~ps.stuff_flag
    BY DEF Escapes
  <1>2. IsMark(ps, c) <=> c \in {Begin, End} /\ ~ps.stuff_flag
    BY DEF IsMark
  <1>3. Stuff # Begin /\ Stuff # End /\ c \in Nat
        /\ (c \notin Stuff .. End => c \notin {Stuff, Begin, End})
    BY DEF Stuff, Begin, End, Byte
  <1>4. /\ GoodParser(t)
        /\ Escapes(ps, c) => t.stuff_flag = TRUE /\ t.data = ps.data /\ t.state = ps.state
        /\ ~Escapes(ps, c) => t.stuff_flag = FALSE
        /\ ~Escapes(ps, c) /\ ~IsMark(ps, c) => Advances(ps, c, t)
        /\ ~Escapes(ps, c) /\ IsMark(ps, c) =>
              /\ Len(t.data) = 0
              /\ t.state = IF c = Begin THEN "ID" ELSE "START"
    BY ParsedGood
  <1> HIDE DEF t
  <1>5. /\ t.stuff_flag \in BOOLEAN /\ Len(t.data) \in Nat /\ ps.stuff_flag \in BOOLEAN
        /\ Len(ps.data) \in Nat /\ ps.state \in State
    BY <1>4, ParserFacts
  <1>6. Advances(ps, c, t) => Len(t.data) <= Len(ps.data) + 1
    BY <1>5 DEF Advances, State
  <1>7. Advances(ps, c, t) /\ ps.state = "START" =>
            Len(t.data) = 0 /\ t.state = IF c = Begin THEN "ID" ELSE "START"
    BY DEF Advances
  <1>8. c = Stuff /\ ~ps.stuff_flag =>
            t.stuff_flag = TRUE /\ Len(t.data) = Len(ps.data) /\ t.state = ps.state
    BY <1>1, <1>4
  <1>9. c # Stuff \/ ps.stuff_flag =>
            /\ t.stuff_flag = FALSE /\ Len(t.data) <= Len(ps.data) + 1
            /\ ps.state = "START" => Len(t.data) = 0
    <2> SUFFICES ASSUME ~Escapes(ps, c)
                 PROVE  /\ t.stuff_flag = FALSE /\ Len(t.data) <= Len(ps.data) + 1
                        /\ ps.state = "START" => Len(t.data) = 0
      BY <1>1
    <2>1. CASE IsMark(ps, c)
      BY <1>4, <1>5, <2>1
    <2>2. CASE ~IsMark(ps, c)
      BY <1>4, <1>6, <1>7, <2>2
    <2> QED
      BY <2>1, <2>2
  <1>10. c \in {Begin, End} /\ ~ps.stuff_flag =>
            Len(t.data) = 0 /\ t.state = IF c = Begin THEN "ID" ELSE "START"
    BY <1>1, <1>2, <1>3, <1>4
  <1>11. ps.stuff_flag \/ c \notin Stuff .. End => t.stuff_flag = FALSE /\ Advances(ps, c, t)
    BY <1>1, <1>2, <1>3, <1>4
  <1>12. c = Begin /\ ps.state = "START" =>
            Len(t.data) = 0 /\ t.state = "ID" /\ t.stuff_flag = FALSE
    BY <1>3, <1>7, <1>9, <1>10, <1>11
  <1> QED
    BY <1>4, <1>5, <1>8, <1>9, <1>10, <1>11, <1>12 DEF t

LEMMA ContentFacts ==
    ASSUME NEW s, NEW n, IsContent(s, n)
    PROVE  IsPacketId(s[1]) /\ s[2] = n
  BY DEF IsContent, IsPacketId, GET_ADDR_LIST, SUBSCRIBE, NULL

LEMMA MarkFacts ==
    /\ Stuff \in Stuff .. End /\ Begin \in Stuff .. End /\ End \in Stuff .. End
    /\ Stuff # Begin /\ Stuff # End /\ Begin # End
  BY DEF Stuff, Begin, End

LEMMA FrameEnds ==
    ASSUME NEW a \in Label, NEW b, Follows(a, b), InFrame(a), ~InFrame(b)
    PROVE  a.kind \in {"literal", "plain"} /\ a.pos >= a.size + 4 /\ b.kind = "end"
  BY LabelTypes DEF Follows, InFrame

(* The byte that belongs to a is read. *)
LEMMA ReadInPlace ==
    ASSUME NEW ps, GoodParser(ps), NEW c \in Byte, NEW a \in Label, NEW b, NextLabel(b),
           Means(a, c), Follows(a, b), InFrame(a), InPlace(ps, a)
    PROVE  LET t == Parsed(ps, c)
           IN  /\ InFrame(b) => InPlace(t, b)
               /\ ~InFrame(b) => /\ t.state = "START" /\ t.stuff_flag = FALSE
                                 /\ Len(t.data) = a.size + 2
  <1> DEFINE t == Parsed(ps, c)
             n == Len(ps.data)
             m == Len(t.data)
  <1>1. /\ a.kind \in Kind /\ a.pos \in Nat /\ a.size \in Nat
        /\ b.kind \in Kind /\ b.pos \in Nat /\ b.size \in Nat
    BY LabelTypes, NextTypes
  <1>2. /\ GoodParser(t) /\ m \in Nat /\ n \in Nat
        /\ c = Stuff /\ ~ps.stuff_flag =>
              t.stuff_flag = TRUE /\ m = n /\ t.state = ps.state
        /\ c \in {Begin, End} /\ ~ps.stuff_flag =>
              m = 0 /\ t.state = IF c = Begin THEN "ID" ELSE "START"
        /\ c = Begin /\ ps.state = "START" =>
              m = 0 /\ t.state = "ID" /\ t.stuff_flag = FALSE
        /\ c # Stuff \/ ps.stuff_flag => t.stuff_flag = FALSE
        /\ ps.stuff_flag \/ c \notin Stuff .. End => Advances(ps, c, t)
    BY ParsedCounts
  <1>3. Stuff # Begin /\ Stuff # End /\ Begin # End
    BY DEF Stuff, Begin, End
  <1>4. Escapes(ps, c) => t.data_length = ps.data_length
    <2>1. Escapes(ps, c) => t = [ps EXCEPT !.stuff_flag = TRUE]
      BY Zenon DEF Parsed
    <2>2. ps \in Parser
      BY DEF GoodParser
    <2> QED
      BY <2>1, <2>2 DEF Parser
  <1> HIDE DEF t
  <1>5. CASE a.kind = "stuff"
    <2>1. /\ c = Stuff /\ ~ps.stuff_flag /\ b.kind = "literal"
          /\ b.pos = a.pos /\ b.size = a.size
      BY <1>5 DEF Means, Follows, InPlace
    <2>2. /\ m = n /\ t.state = ps.state /\ t.stuff_flag = TRUE
          /\ t.data_length = ps.data_length
      BY <1>2, <1>4, <2>1 DEF Escapes
    <2> QED
      BY <1>5, <2>1, <2>2 DEF InPlace, InFrame, t
  <1>6. CASE a.kind \in {"literal", "plain"}
    <2>1. ps.stuff_flag \/ c \notin Stuff .. End
      BY <1>6 DEF Means, InPlace
    <2>2. Advances(ps, c, t) /\ t.stuff_flag = FALSE
      <3>1. c \notin Stuff .. End => c # Stuff
        BY DEF Stuff, End
      <3> QED
        BY <1>2, <2>1, <3>1
    <2>3. /\ a.pos >= 1 /\ a.pos <= a.size + 4
          /\ a.pos = 1 => IsPacketId(c)
          /\ a.pos = 2 => c = a.size
      BY <1>6, ContentFacts DEF Means, InFrame
    <2>4. CASE a.pos = 1
      <3>1. ps.state = "ID" /\ n = 0
        BY <1>1, <1>6, <2>4 DEF InPlace, InFrame
      <3>2. t.state = "SIZE" /\ m = 1
        BY <2>2, <2>3, <2>4, <3>1 DEF Advances
      <3>3. b.kind \in {"stuff", "plain"} /\ b.pos = 2
        BY <1>1, <1>6, <2>4 DEF Follows
      <3> QED
        BY <2>2, <3>2, <3>3 DEF InPlace, InFrame, t
    <2>5. CASE a.pos = 2
      <3>1. ps.state = "SIZE" /\ n = 1
        BY <1>1, <1>6, <2>5 DEF InPlace, InFrame
      <3>2. /\ m = 2 /\ t.data_length = a.size
            /\ t.state = IF a.size = 0 THEN "CHECK_1" ELSE "DATA"
        BY <2>2, <2>3, <2>5, <3>1 DEF Advances
      <3>3. b.kind \in {"stuff", "plain"} /\ b.pos = 3 /\ b.size = a.size
        BY <1>1, <1>6, <2>5 DEF Follows
      <3>4. CASE a.size = 0
        <4>1. /\ b.pos = b.size + 3 /\ t.state = "CHECK_1" /\ m = b.size + 2
              /\ t.data_length = b.size
          BY <1>1, <3>2, <3>3, <3>4
        <4> QED
          BY <2>2, <3>3, <4>1 DEF InPlace, InFrame, t
      <3>5. CASE a.size # 0
        <4>1. /\ b.pos <= b.size + 2 /\ b.pos >= 3 /\ t.state = "DATA" /\ m = b.pos - 1
              /\ t.data_length = b.size
          BY <1>1, <3>2, <3>3, <3>5
        <4> QED
          BY <2>2, <3>3, <4>1 DEF InPlace, InFrame, t
      <3> QED
        BY <3>4, <3>5
    <2>6. CASE a.pos >= 3 /\ a.pos <= a.size + 2
      <3>1. ps.state = "DATA" /\ n = a.pos - 1 /\ ps.data_length = a.size
        BY <1>1, <1>6, <2>6 DEF InPlace, InFrame
      <3>2. /\ m = a.pos /\ t.data_length = a.size
            /\ t.state = IF m >= a.size + 2 THEN "CHECK_1" ELSE "DATA"
        BY <1>1, <2>2, <3>1 DEF Advances
      <3>3. b.kind \in {"stuff", "plain"} /\ b.pos = a.pos + 1 /\ b.size = a.size
        BY <1>1, <1>6, <2>6 DEF Follows
      <3>4. CASE a.pos = a.size + 2
        <4>1. /\ b.pos = b.size + 3 /\ t.state = "CHECK_1" /\ m = b.size + 2
              /\ t.data_length = b.size
          BY <1>1, <3>2, <3>3, <3>4
        <4> QED
          BY <2>2, <3>3, <4>1 DEF InPlace, InFrame, t
      <3>5. CASE a.pos # a.size + 2
        <4>1. b.pos <= b.size + 2 /\ b.pos >= 3 /\ m = b.pos - 1 /\ ~(m >= a.size + 2)
          BY <1>1, <2>6, <3>2, <3>3, <3>5
        <4>2. t.state = "DATA" /\ t.data_length = b.size
          BY <3>2, <3>3, <4>1
        <4> QED
          BY <2>2, <3>3, <4>1, <4>2 DEF InPlace, InFrame, t
      <3> QED
        BY <3>4, <3>5
    <2>7. CASE a.pos = a.size + 3
      <3>1. ps.state = "CHECK_1" /\ n = a.size + 2 /\ ps.data_length = a.size
        BY <1>1, <1>6, <2>7 DEF InPlace, InFrame
      <3>2. m = a.size + 2 /\ t.data_length = a.size /\ t.state = "CHECK_2"
        BY <2>2, <3>1 DEF Advances
      <3>3. b.kind \in {"stuff", "plain"} /\ b.pos = a.size + 4 /\ b.size = a.size
        BY <1>1, <1>6, <2>7 DEF Follows
      <3> QED
        BY <2>2, <3>2, <3>3 DEF InPlace, InFrame, t
    <2>8. CASE a.pos = a.size + 4
      <3>1. ps.state = "CHECK_2" /\ n = a.size + 2
        BY <1>1, <1>6, <2>8 DEF InPlace, InFrame
      <3>2. m = a.size + 2 /\ t.state = "START"
        BY <2>2, <3>1 DEF Advances
      <3>3. b.kind = "end"
        BY <1>1, <1>6, <2>8 DEF Follows
      <3> QED
        BY <1>6, <2>2, <2>8, <3>2, <3>3 DEF InPlace, InFrame, t
    <2>9. \/ a.pos = 1 \/ a.pos = 2 \/ (a.pos >= 3 /\ a.pos <= a.size + 2)
          \/ a.pos = a.size + 3 \/ a.pos = a.size + 4
      BY <1>1, <2>3
    <2> QED
      BY <2>4, <2>5, <2>6, <2>7, <2>8, <2>9
  <1> QED
    BY <1>5, <1>6 DEF InFrame

-----------------------------------------------------------------------------
(* The buffer is not overrun *)

(* data_buf holds the content of the longest frame with its checksum, which a
   parser that has missed a mark or a size adds to it, and one byte more: 59 + 4
   and 1 in the 64 bytes of the code.                                       *)
BufferFits == \A p \in Packets : Size(p) + 5 <= BufSz

(* The bytes that a frame may still add to the buffer. *)
Rest(l) == IF InFrame(l) THEN l.size + 5 - l.pos ELSE 0

(* Without a fault the parser is where the next byte has its place. *)
InStep(ps, l) ==
    /\ ps.stuff_flag = (l.kind = "literal")
    /\ l.kind = "begin" => ps.state = "START" /\ Len(ps.data) = 0
    /\ l.kind = "end" => ps.state = "START" /\ Len(ps.data) <= BufSz - 3
    /\ InFrame(l) => InPlace(ps, l)

(* After one fault the parser may be anywhere, but the bytes that are left until
   the next mark fit behind those in the buffer; one more when the parser takes
   the next byte for a stuffed one and it is not.  If that byte is a mark, the
   parser misses it only where it waits for one.                            *)
Spare(ps, l) == IF ps.stuff_flag /\ l.kind # "literal" THEN 1 ELSE 0
Bounded(ps, l) ==
    /\ Len(ps.data) + Rest(l) + Spare(ps, l) <= BufSz
    /\ l.kind = "begin" /\ ps.stuff_flag => ps.state = "START"

LEMMA LabelRanges ==
    ASSUME BufferFits, NEW l \in Label
    PROVE  l.size + 5 <= BufSz /\ BufSz \in Nat
  <1>1. l.size \in Sizes
    BY DEF Label
  <1>2. PICK p \in Packets : l.size = Size(p)
    BY <1>1 DEF Sizes
  <1> QED
    BY <1>2, FramingAssumption DEF BufferFits

(* The byte that belongs to a is read, and nothing has gone wrong so far. *)
LEMMA ReadInStep ==
    ASSUME BufferFits, NEW ps, GoodParser(ps), NEW c \in Byte, NEW a \in Label, NEW b,
           NextLabel(b), Means(a, c), Follows(a, b), InStep(ps, a)
    PROVE  InStep(Parsed(ps, c), b)
  <1> DEFINE t == Parsed(ps, c)
             n == Len(ps.data)
             m == Len(t.data)
  <1>1. /\ a.kind \in Kind /\ a.pos \in Nat /\ a.size \in Nat /\ a.size + 5 <= BufSz
        /\ BufSz \in Nat /\ b.kind \in Kind
    BY LabelTypes, LabelRanges, NextTypes
  <1>2. /\ GoodParser(t) /\ m \in Nat /\ n \in Nat
        /\ c = Stuff /\ ~ps.stuff_flag =>
              t.stuff_flag = TRUE /\ m = n /\ t.state = ps.state
        /\ c \in {Begin, End} /\ ~ps.stuff_flag =>
              m = 0 /\ t.state = IF c = Begin THEN "ID" ELSE "START"
        /\ c = Begin /\ ps.state = "START" =>
              m = 0 /\ t.state = "ID" /\ t.stuff_flag = FALSE
        /\ c # Stuff \/ ps.stuff_flag => t.stuff_flag = FALSE
        /\ ps.stuff_flag \/ c \notin Stuff .. End => Advances(ps, c, t)
    BY ParsedCounts
  <1>3. Stuff # Begin /\ Stuff # End /\ Begin # End
    BY DEF Stuff, Begin, End
  <1>4. InFrame(a) => /\ InFrame(b) => InPlace(t, b)
                      /\ ~InFrame(b) => /\ t.state = "START" /\ t.stuff_flag = FALSE
                                        /\ m = a.size + 2 /\ b.kind = "end"
    <2> SUFFICES ASSUME InFrame(a)
                 PROVE  /\ InFrame(b) => InPlace(t, b)
                        /\ ~InFrame(b) => /\ t.state = "START" /\ t.stuff_flag = FALSE
                                          /\ m = a.size + 2 /\ b.kind = "end"
      OBVIOUS
    <2>1. InPlace(ps, a)
      BY DEF InStep
    <2> QED
      BY <2>1, ReadInPlace, FrameEnds
  <1> HIDE DEF t
  <1>5. CASE a.kind = "begin"
    <2>1. c = Begin /\ ps.state = "START" /\ b.kind \in {"stuff", "plain"} /\ b.pos = 1
      BY <1>5 DEF Means, Follows, InStep
    <2>2. m = 0 /\ t.state = "ID" /\ t.stuff_flag = FALSE
      BY <1>2, <2>1
    <2> QED
      BY <2>1, <2>2 DEF InStep, InPlace, InFrame, t
  <1>6. CASE a.kind = "end"
    <2>1. c = End /\ ~ps.stuff_flag /\ b.kind = "begin"
      BY <1>6 DEF Means, Follows, InStep
    <2>2. m = 0 /\ t.state = "START" /\ t.stuff_flag = FALSE
      BY <1>2, <1>3, <2>1
    <2> QED
      BY <2>1, <2>2 DEF InStep, InPlace, InFrame, t
  <1>7. CASE InFrame(a)
    <2>1. CASE InFrame(b)
      BY <1>4, <1>7, <2>1 DEF InStep, InPlace, InFrame, t
    <2>2. CASE ~InFrame(b)
      <3>1. m <= BufSz - 3
        BY <1>1, <1>4, <1>7, <2>2
      <3> QED
        BY <1>4, <1>7, <2>2, <3>1 DEF InStep, InFrame, t
    <2> QED
      BY <2>1, <2>2
  <1> QED
    BY <1>1, <1>5, <1>6, <1>7 DEF Kind, InFrame

(* In step, the bytes in the buffer are those before the next one. *)
LEMMA InStepCount ==
    ASSUME NEW ps, GoodParser(ps), NEW a, InStep(ps, a), InFrame(a),
           a.pos \in Nat, a.size \in Nat
    PROVE  Len(ps.data) <= a.pos - 1
  <1> DEFINE n == Len(ps.data)
  <1>1. n \in Nat
    BY ParserFacts
  <1>2. \/ a.pos = 1 /\ n = 0
        \/ a.pos = 2 /\ n = 1
        \/ n = a.pos - 1
        \/ a.pos = a.size + 3 /\ n = a.size + 2
        \/ a.pos = a.size + 4 /\ n = a.size + 2
    BY DEF InStep, InPlace
  <1> HIDE DEF n
  <1>3. n <= a.pos - 1
    BY <1>1, <1>2
  <1> QED
    BY <1>3 DEF n

(* What the next label says of the bytes that are left. *)
LEMMA RestFacts ==
    ASSUME BufferFits, NEW a \in Label, NEW b, NextLabel(b), NEW c,
           Means(a, c), Follows(a, b)
    PROVE  /\ Rest(a) \in Nat /\ Rest(b) \in Nat /\ BufSz \in Nat
           /\ a.kind = "begin" => /\ Rest(a) = 0 /\ Rest(b) + 1 <= BufSz
                                  /\ b.kind # "literal" /\ b.kind # "begin"
           /\ a.kind = "end" => Rest(a) = 0 /\ Rest(b) = 0 /\ b.kind = "begin"
           /\ a.kind = "stuff" => Rest(b) = Rest(a) /\ b.kind = "literal"
           /\ a.kind \in {"literal", "plain"} => /\ Rest(b) + 1 = Rest(a)
                                                 /\ b.kind # "literal" /\ b.kind # "begin"
           /\ InFrame(a) => Rest(a) = a.size + 5 - a.pos /\ Rest(a) <= BufSz - a.pos
  <1>1. /\ a.kind \in Kind /\ a.pos \in Nat /\ a.size \in Nat /\ a.size + 5 <= BufSz
        /\ BufSz \in Nat /\ b.kind \in Kind /\ b.pos \in Nat /\ b.size \in Nat
    BY LabelTypes, LabelRanges, NextTypes
  <1>2. CASE a.kind = "begin"
    <2>1. b.kind \in {"stuff", "plain"} /\ b.pos = 1 /\ b.size = a.size
      BY <1>2 DEF Follows
    <2>2. Rest(a) = 0 /\ Rest(b) = a.size + 5 - 1
      BY <1>2, <2>1 DEF Rest, InFrame
    <2> QED
      BY <1>1, <1>2, <2>1, <2>2 DEF InFrame
  <1>3. CASE a.kind = "end"
    <2>1. b.kind = "begin"
      BY <1>3 DEF Follows
    <2> QED
      BY <1>1, <1>3, <2>1 DEF Rest, InFrame
  <1>4. CASE a.kind = "stuff"
    <2>1. b.kind = "literal" /\ b.pos = a.pos /\ b.size = a.size
          /\ a.pos >= 1 /\ a.pos <= a.size + 4
      BY <1>4 DEF Follows, Means, InFrame
    <2>2. Rest(a) = a.size + 5 - a.pos /\ Rest(b) = a.size + 5 - a.pos
      BY <1>4, <2>1 DEF Rest, InFrame
    <2> QED
      BY <1>1, <1>4, <2>1, <2>2 DEF InFrame
  <1>5. CASE a.kind \in {"literal", "plain"}
    <2>1. a.pos >= 1 /\ a.pos <= a.size + 4 /\ Rest(a) = a.size + 5 - a.pos
      BY <1>5 DEF Means, Rest, InFrame
    <2>2. CASE a.pos < a.size + 4
      <3>1. b.kind \in {"stuff", "plain"} /\ b.pos = a.pos + 1 /\ b.size = a.size
        BY <1>5, <2>2 DEF Follows
      <3>2. Rest(b) = a.size + 5 - (a.pos + 1)
        BY <3>1 DEF Rest, InFrame
      <3> QED
        BY <1>1, <1>5, <2>1, <3>1, <3>2
    <2>3. CASE a.pos >= a.size + 4
      <3>1. b.kind = "end" /\ Rest(b) = 0
        BY <1>5, <2>3 DEF Follows, Rest, InFrame
      <3> QED
        BY <1>1, <1>5, <2>1, <2>3, <3>1
    <2> QED
      BY <1>1, <2>2, <2>3
  <1> QED
    BY <1>1, <1>2, <1>3, <1>4, <1>5 DEF Kind

(* A fault-free parser is within bounds. *)
LEMMA InStepBounded ==
    ASSUME BufferFits, NEW ps, GoodParser(ps), NEW a, NextLabel(a), InStep(ps, a)
    PROVE  Bounded(ps, a)
  <1> DEFINE n == Len(ps.data)
  <1>1. /\ a.kind \in Kind /\ a.pos \in Nat /\ a.size \in Nat /\ n \in Nat /\ BufSz \in Nat
    BY NextTypes, ParserFacts, FramingAssumption
  <1>2. Spare(ps, a) = 0 /\ (a.kind = "begin" => ps.state = "START")
    BY DEF InStep, Spare
  <1>3. CASE InFrame(a)
    <2>1. a \in Label
      BY <1>3, IdleFacts DEF NextLabel, InFrame
    <2>2. a.size + 5 <= BufSz /\ n <= a.pos - 1 /\ Rest(a) = a.size + 5 - a.pos
      BY <1>1, <1>3, <2>1, LabelTypes, LabelRanges, InStepCount DEF Rest
    <2>3. n + Rest(a) <= BufSz
      BY <1>1, <2>2
    <2> QED
      BY <1>1, <1>2, <2>2, <2>3 DEF Bounded
  <1>4. CASE ~InFrame(a)
    <2>1. Rest(a) = 0 /\ (a.kind = "begin" => n = 0) /\ (a.kind = "end" => n <= BufSz - 3)
      BY <1>4 DEF InStep, Rest
    <2> QED
      BY <1>1, <1>2, <1>4, <2>1 DEF InFrame, Kind, Bounded
  <1> QED
    BY <1>3, <1>4

LEMMA SpareFacts ==
    ASSUME NEW ps, NEW l
    PROVE  /\ Spare(ps, l) \in 0 .. 1
           /\ ps.stuff_flag = FALSE => Spare(ps, l) = 0
           /\ l.kind = "literal" => Spare(ps, l) = 0
           /\ ps.stuff_flag = TRUE /\ l.kind # "literal" => Spare(ps, l) = 1
  BY DEF Spare

(* After a fault, the byte that belongs to a is read. *)
LEMMA ReadBounded ==
    ASSUME BufferFits, NEW ps, GoodParser(ps), NEW c \in Byte, NEW a \in Label, NEW b,
           NextLabel(b), Means(a, c), Follows(a, b), Bounded(ps, a)
    PROVE  Bounded(Parsed(ps, c), b)
  <1> DEFINE t == Parsed(ps, c)
             n == Len(ps.data)
             m == Len(t.data)
  <1>1. /\ Rest(a) \in Nat /\ Rest(b) \in Nat /\ BufSz \in Nat /\ a.kind \in Kind
        /\ a.kind = "begin" => /\ Rest(a) = 0 /\ Rest(b) + 1 <= BufSz
                               /\ b.kind # "literal" /\ b.kind # "begin"
        /\ a.kind = "end" => Rest(a) = 0 /\ Rest(b) = 0 /\ b.kind = "begin"
        /\ a.kind = "stuff" => Rest(b) = Rest(a) /\ b.kind = "literal"
        /\ a.kind \in {"literal", "plain"} => /\ Rest(b) + 1 = Rest(a)
                                              /\ b.kind # "literal" /\ b.kind # "begin"
    BY RestFacts, LabelTypes, LabelRanges
  <1>2. /\ m \in Nat /\ n \in Nat /\ ps.stuff_flag \in BOOLEAN
        /\ c = Stuff /\ ~ps.stuff_flag =>
              t.stuff_flag = TRUE /\ m = n /\ t.state = ps.state
        /\ c # Stuff \/ ps.stuff_flag => t.stuff_flag = FALSE /\ m <= n + 1
        /\ c \in {Begin, End} /\ ~ps.stuff_flag =>
              m = 0 /\ t.state = IF c = Begin THEN "ID" ELSE "START"
        /\ c = Begin /\ ps.state = "START" =>
              m = 0 /\ t.state = "ID" /\ t.stuff_flag = FALSE
    BY ParsedCounts
  <1>3. Stuff # Begin /\ Stuff # End /\ (c \in Stuff .. End => c \in {Stuff, Begin, End})
        /\ Stuff \in Stuff .. End
    BY DEF Stuff, Begin, End
  <1>4. /\ Spare(ps, a) \in 0 .. 1 /\ Spare(t, b) \in 0 .. 1
        /\ ps.stuff_flag = TRUE /\ a.kind # "literal" => Spare(ps, a) = 1
        /\ t.stuff_flag = FALSE => Spare(t, b) = 0
        /\ b.kind = "literal" => Spare(t, b) = 0
    BY SpareFacts
  <1>5. /\ n + Rest(a) + Spare(ps, a) <= BufSz
        /\ a.kind = "begin" /\ ps.stuff_flag => ps.state = "START"
    BY DEF Bounded
  <1> SUFFICES /\ m + Rest(b) + Spare(t, b) <= BufSz
               /\ b.kind = "begin" => t.stuff_flag = FALSE
    BY DEF Bounded
  <1> HIDE DEF t, m, n
  <1>6. CASE a.kind = "begin"
    <2>1. c = Begin
      BY <1>6 DEF Means
    <2>2. m = 0 /\ t.stuff_flag = FALSE
      BY <1>2, <1>3, <1>5, <1>6, <2>1
    <2> QED
      BY <1>1, <1>4, <1>6, <2>2
  <1>7. CASE a.kind = "end"
    <2>1. c = End
      BY <1>7 DEF Means
    <2>2. t.stuff_flag = FALSE /\ (m = 0 \/ (m <= n + 1 /\ ps.stuff_flag = TRUE))
      BY <1>2, <1>3, <2>1
    <2> QED
      BY <1>1, <1>2, <1>4, <1>5, <1>7, <2>2
  <1>8. CASE a.kind = "stuff"
    <2>1. c = Stuff
      BY <1>8 DEF Means
    <2>2. m = n \/ (m <= n + 1 /\ ps.stuff_flag = TRUE)
      BY <1>2, <2>1
    <2> QED
      BY <1>1, <1>2, <1>4, <1>5, <1>8, <2>2
  <1>9. CASE a.kind \in {"literal", "plain"}
    <2>1. (t.stuff_flag = FALSE /\ m <= n + 1) \/ m = n
      BY <1>2
    <2> QED
      BY <1>1, <1>2, <1>4, <1>5, <1>9, <2>1
  <1> QED
    BY <1>1, <1>6, <1>7, <1>8, <1>9 DEF Kind

(* The first fault: the byte that belongs to a is lost. *)
LEMMA LoseBounded ==
    ASSUME BufferFits, NEW ps, GoodParser(ps), NEW c, NEW a \in Label, NEW b,
           NextLabel(b), Means(a, c), Follows(a, b), InStep(ps, a)
    PROVE  Bounded(ps, b)
  <1> DEFINE n == Len(ps.data)
  <1>1. /\ Rest(a) \in Nat /\ Rest(b) \in Nat /\ BufSz \in Nat /\ a.kind \in Kind
        /\ a.kind = "begin" => /\ Rest(a) = 0 /\ Rest(b) + 1 <= BufSz
                               /\ b.kind # "literal" /\ b.kind # "begin"
        /\ a.kind = "end" => Rest(a) = 0 /\ Rest(b) = 0 /\ b.kind = "begin"
        /\ a.kind = "stuff" => Rest(b) = Rest(a) /\ b.kind = "literal"
        /\ a.kind \in {"literal", "plain"} => /\ Rest(b) + 1 = Rest(a)
                                              /\ b.kind # "literal" /\ b.kind # "begin"
        /\ a.pos \in Nat /\ a.size \in Nat
        /\ InFrame(a) => Rest(a) <= BufSz - a.pos
    BY RestFacts, LabelTypes, LabelRanges
  <1>2. n \in Nat /\ ps.stuff_flag \in BOOLEAN /\ (InFrame(a) => n <= a.pos - 1)
    BY <1>1, ParserFacts, InStepCount
  <1>3. /\ ps.stuff_flag = (a.kind = "literal")
        /\ a.kind = "begin" => n = 0
        /\ a.kind = "end" => ps.state = "START" /\ n <= BufSz - 3
    BY DEF InStep
  <1>4. /\ Spare(ps, b) \in 0 .. 1
        /\ ps.stuff_flag = FALSE => Spare(ps, b) = 0
        /\ b.kind = "literal" => Spare(ps, b) = 0
    BY SpareFacts
  <1>5. b.kind = "begin" => ps.stuff_flag = FALSE
    BY <1>1, <1>3 DEF Kind
  <1>6. a.kind = "literal" \/ ps.stuff_flag = FALSE
    BY <1>2, <1>3
  <1> SUFFICES n + Rest(b) + Spare(ps, b) <= BufSz
    BY <1>5 DEF Bounded
  <1> HIDE DEF n
  <1>7. CASE a.kind \in {"begin", "end"}
    <2>1. Spare(ps, b) = 0
      BY <1>4, <1>6, <1>7
    <2> QED
      BY <1>1, <1>2, <1>3, <1>7, <2>1
  <1>8. CASE InFrame(a)
    <2>1. n + Rest(a) + 1 <= BufSz
      BY <1>1, <1>2, <1>8
    <2> QED
      BY <1>1, <1>2, <1>4, <1>8, <2>1 DEF InFrame
  <1> QED
    BY <1>1, <1>7, <1>8 DEF Kind, InFrame

(* The first fault: in the place of the byte that belongs to a another arrives. *)
LEMMA DamageBounded ==
    ASSUME BufferFits, NEW ps, GoodParser(ps), NEW c, NEW d \in Byte,
           NEW a \in Label, NEW b, NextLabel(b), Means(a, c), Follows(a, b), InStep(ps, a)
    PROVE  Bounded(Parsed(ps, d), b)
  <1> DEFINE t == Parsed(ps, d)
             n == Len(ps.data)
             m == Len(t.data)
  <1>1. /\ Rest(a) \in Nat /\ Rest(b) \in Nat /\ BufSz \in Nat /\ a.kind \in Kind
        /\ a.kind = "begin" => /\ Rest(a) = 0 /\ Rest(b) + 1 <= BufSz
                               /\ b.kind # "literal" /\ b.kind # "begin"
        /\ a.kind = "end" => Rest(a) = 0 /\ Rest(b) = 0 /\ b.kind = "begin"
        /\ a.kind = "stuff" => Rest(b) = Rest(a) /\ b.kind = "literal"
        /\ a.kind \in {"literal", "plain"} => /\ Rest(b) + 1 = Rest(a)
                                              /\ b.kind # "literal" /\ b.kind # "begin"
        /\ a.pos \in Nat /\ a.size \in Nat
        /\ InFrame(a) => Rest(a) <= BufSz - a.pos
    BY RestFacts, LabelTypes, LabelRanges
  <1>2. n \in Nat /\ (InFrame(a) => n <= a.pos - 1)
    BY <1>1, ParserFacts, InStepCount
  <1>3. /\ ps.stuff_flag = (a.kind = "literal")
        /\ a.kind = "begin" => n = 0 /\ ps.state = "START"
        /\ a.kind = "end" => ps.state = "START" /\ n <= BufSz - 3
    BY DEF InStep
  <1>4. /\ m \in Nat /\ ps.stuff_flag \in BOOLEAN
        /\ d = Stuff /\ ~ps.stuff_flag =>
              t.stuff_flag = TRUE /\ m = n /\ t.state = ps.state
        /\ d # Stuff \/ ps.stuff_flag => t.stuff_flag = FALSE /\ m <= n + 1
        /\ ps.state = "START" /\ (d # Stuff \/ ps.stuff_flag) => m = 0
    BY ParsedCounts
  <1>5. /\ Spare(t, b) \in 0 .. 1
        /\ t.stuff_flag = FALSE => Spare(t, b) = 0
        /\ b.kind = "literal" => Spare(t, b) = 0
    BY SpareFacts
  <1> SUFFICES /\ m + Rest(b) + Spare(t, b) <= BufSz
               /\ b.kind = "begin" /\ t.stuff_flag => t.state = "START"
    BY DEF Bounded
  <1> HIDE DEF t, m, n
  <1>6. CASE a.kind \in {"begin", "end"}
    <2>1. ps.state = "START" /\ ps.stuff_flag = FALSE
      BY <1>3, <1>6
    <2>2. \/ m = n /\ t.state = "START"
          \/ m = 0 /\ t.stuff_flag = FALSE
      BY <1>4, <2>1
    <2>3. n + Rest(b) + 1 <= BufSz /\ Rest(b) + 1 <= BufSz
      BY <1>1, <1>2, <1>3, <1>6
    <2>4. b.kind = "begin" /\ t.stuff_flag => t.state = "START"
      BY <2>2
    <2> QED
      BY <1>1, <1>2, <1>4, <1>5, <2>2, <2>3, <2>4
  <1>7. CASE InFrame(a)
    <2>1. n + Rest(a) + 1 <= BufSz /\ b.kind # "begin"
      BY <1>1, <1>2, <1>7 DEF InFrame
    <2>2. CASE a.kind = "stuff"
      <3>1. m <= n + 1 /\ Rest(b) = Rest(a) /\ Spare(t, b) = 0
        BY <1>1, <1>2, <1>4, <1>5, <2>2
      <3> QED
        BY <1>1, <1>2, <1>4, <2>1, <3>1
    <2>3. CASE a.kind \in {"literal", "plain"}
      <3>1. m <= n + 1 /\ Rest(b) + 1 = Rest(a) /\ Spare(t, b) <= 1
        BY <1>1, <1>2, <1>4, <1>5, <2>3
      <3> QED
        BY <1>1, <1>2, <1>4, <1>5, <2>1, <3>1
    <2> QED
      BY <1>7, <2>1, <2>2, <2>3 DEF InFrame
  <1> QED
    BY <1>1, <1>6, <1>7 DEF Kind, InFrame

Faults == late + lost + damaged

BufferInv ==
    \E g : /\ Labels(g, wire, Len(sent))
           /\ Faults = 0 => InStep(parser, Ahead(g, Len(sent)))
           /\ Faults <= 1 => Bounded(parser, Ahead(g, Len(sent)))

LEMMA AheadFacts ==
    ASSUME NEW k, NEW g, NEW w, Labels(g, w, k)
    PROVE  /\ NextLabel(Ahead(g, k))
           /\ w = <<>> => Ahead(g, k) = Idle(k)
           /\ w # <<>> => /\ Ahead(g, k) \in Label /\ Ahead(g, k) = g[1] /\ Head(w) \in Byte
                          /\ Means(Ahead(g, k), Head(w))
                          /\ Labels(Tail(g), Tail(w), k) /\ NextLabel(Ahead(Tail(g), k))
                          /\ Follows(Ahead(g, k), Ahead(Tail(g), k))
  <1>1. g \in Seq(Label) /\ w \in Seq(Byte) /\ Len(g) = Len(w)
    BY DEF Labels, Chain
  <1>2. CASE w = <<>>
    <2>1. g = <<>>
      BY <1>1, <1>2
    <2> QED
      BY <1>2, <2>1 DEF Ahead, NextLabel
  <1>3. CASE w # <<>>
    <2>1. /\ Labels(Tail(g), Tail(w), k) /\ Head(w) \in Byte /\ g # <<>>
          /\ g[1] \in Label /\ Means(g[1], Head(w))
          /\ Len(w) > 1 =>
                Tail(g) # <<>> /\ Tail(g)[1] \in Label /\ Follows(g[1], Tail(g)[1])
          /\ Len(w) = 1 => Tail(g) = <<>> /\ g[1].kind = "end" /\ g[1].ord = k
      BY <1>3, TailLabels
    <2>2. Ahead(g, k) = g[1]
      BY <2>1 DEF Ahead
    <2>3. Len(w) = 1 \/ Len(w) > 1
      BY <1>1, <1>3
    <2>4. CASE Len(w) = 1
      <3>1. Ahead(Tail(g), k) = Idle(k)
        BY <2>1, <2>4 DEF Ahead
      <3>2. Follows(g[1], Idle(k))
        BY <2>1, <2>4, IdleFacts DEF Follows
      <3> QED
        BY <1>3, <2>1, <2>2, <3>1, <3>2 DEF NextLabel
    <2>5. CASE Len(w) > 1
      <3>1. Ahead(Tail(g), k) = Tail(g)[1]
        BY <2>1, <2>5 DEF Ahead
      <3> QED
        BY <1>3, <2>1, <2>2, <2>5, <3>1 DEF NextLabel
    <2> QED
      BY <2>3, <2>4, <2>5
  <1> QED
    BY <1>2, <1>3

(* A frame behind those on the line does not change what the next byte is; on
   an empty line it begins the frame that was about to begin.               *)
LEMMA SendAhead ==
    ASSUME NEW k \in Nat, NEW g, NEW w, Labels(g, w, k), NEW p \in Packets
    PROVE  \E j : /\ Labels(j, w \o Frame(p), k + 1)
                  /\ \/ Ahead(j, k + 1) = Ahead(g, k)
                     \/ /\ Ahead(j, k + 1).kind = "begin" /\ Ahead(g, k).kind = "begin"
                        /\ Ahead(j, k + 1).ord = Ahead(g, k).ord
  <1>1. PICK h : /\ Labels(h, Frame(p), k + 1) /\ h[1].kind = "begin" /\ h[1].ord = k + 1
                 /\ Len(Frame(p)) > 0
    <2>1. k + 1 \in Nat
      OBVIOUS
    <2> QED
      BY <2>1, FrameLabels
  <1> DEFINE j == g \o h
  <1>2. /\ Labels(j, w \o Frame(p), k + 1)
        /\ w # <<>> => j # <<>> /\ j[1] = g[1]
        /\ w = <<>> => j # <<>> /\ j[1] = h[1]
    BY <1>1, JoinLabels
  <1> HIDE DEF j
  <1>3. CASE w # <<>>
    <2>1. Ahead(j, k + 1) = j[1] /\ Ahead(g, k) = g[1]
      BY <1>2, <1>3, AheadFacts DEF Ahead
    <2> QED
      BY <1>2, <1>3, <2>1
  <1>4. CASE w = <<>>
    <2>1. Ahead(j, k + 1) = h[1]
      BY <1>2, <1>4 DEF Ahead
    <2>2. Ahead(g, k) = Idle(k)
      BY <1>4, AheadFacts
    <2> QED
      BY <1>1, <1>2, <2>1, <2>2, IdleFacts
  <1> QED
    BY <1>3, <1>4

LEMMA BufferInvBounds == ASSUME BufferFits PROVE TypesInv /\ BufferInv => BufferInBounds
  <1> SUFFICES ASSUME TypesInv, BufferInv, Faults <= 1 PROVE Len(parser.data) <= BufSz
    BY DEF BufferInBounds, Faults
  <1>1. PICK g : Labels(g, wire, Len(sent)) /\ Bounded(parser, Ahead(g, Len(sent)))
    BY DEF BufferInv
  <1> DEFINE a == Ahead(g, Len(sent))
             n == Len(parser.data)
  <1>2. Rest(a) \in Nat
    <2>1. CASE wire = <<>>
      <3>1. a = Idle(Len(sent))
        BY <1>1, <2>1, AheadFacts
      <3>2. a.kind = "begin"
        BY <3>1, IdleFacts
      <3> QED
        BY <3>2 DEF Rest, InFrame
    <2>2. CASE wire # <<>>
      BY <1>1, <2>2, AheadFacts, RestFacts
    <2> QED
      BY <2>1, <2>2
  <1>3. n \in Nat /\ BufSz \in Nat
    BY ParserFacts, FramingAssumption DEF TypesInv
  <1>4. Spare(parser, a) \in 0 .. 1
    BY SpareFacts
  <1>5. n + Rest(a) + Spare(parser, a) <= BufSz
    BY <1>1 DEF Bounded
  <1> HIDE DEF a, n
  <1>6. n <= BufSz
    BY <1>2, <1>3, <1>4, <1>5
  <1> QED
    BY <1>6 DEF n

LEMMA BufferInit == ASSUME BufferFits PROVE Init => BufferInv
  <1> SUFFICES ASSUME Init PROVE BufferInv
    OBVIOUS
  <1>1. PICK g : Labels(g, wire, Len(sent))
    BY TypesInit DEF TypesInv
  <1> DEFINE a == Ahead(g, Len(sent))
  <1>2. /\ parser.data = <<>> /\ parser.state = "START" /\ parser.stuff_flag = FALSE
        /\ GoodParser(parser) /\ Len(parser.data) = 0
    <2>1. Len(<<>>) = 0
      OBVIOUS
    <2> QED
      BY <2>1, NewParserGood DEF Init
  <1>3. BufSz \in Nat /\ Spare(parser, a) = 0
    BY <1>2, FramingAssumption, SpareFacts
  <1>4. CASE wire = <<>>
    <2>1. a.kind = "begin"
      BY <1>1, <1>4, AheadFacts, IdleFacts
    <2>2. InStep(parser, a)
      BY <1>2, <2>1 DEF InStep, InFrame
    <2>3. Bounded(parser, a)
      BY <1>2, <1>3, <2>1 DEF Bounded, Rest, InFrame
    <2> QED
      BY <1>1, <2>2, <2>3 DEF BufferInv
  <1>5. CASE wire # <<>>
    <2>1. Faults # 0
      BY <1>5 DEF Init, Faults
    <2>2. a \in Label /\ Means(a, Head(wire))
      BY <1>1, <1>5, AheadFacts
    <2>3. /\ a.pos \in Nat /\ a.size \in Nat /\ a.size + 5 <= BufSz
          /\ InFrame(a) => a.pos >= 1
      BY <2>2, LabelTypes, LabelRanges DEF Means
    <2>4. Rest(a) <= BufSz
      BY <1>3, <2>3 DEF Rest
    <2>5. Rest(a) \in Int
      BY <2>3 DEF Rest
    <2>6. Bounded(parser, a)
      BY <1>2, <1>3, <2>4, <2>5 DEF Bounded
    <2> QED
      BY <1>1, <2>1, <2>6 DEF BufferInv
  <1> QED
    BY <1>4, <1>5

LEMMA FaultTypes ==
    ASSUME TypesInv
    PROVE  late \in Nat /\ lost \in Nat /\ damaged \in Nat /\ Faults \in Nat
  BY FramingAssumption DEF TypesInv, Ranges, Faults

LEMMA BufferNext ==
    ASSUME BufferFits PROVE TypesInv /\ BufferInv /\ [Next]_vars => BufferInv'
  <1> SUFFICES ASSUME TypesInv, BufferInv, [Next]_vars PROVE BufferInv'
    OBVIOUS
  <1> DEFINE k == Len(sent)
  <1>1. PICK g : /\ Labels(g, wire, k)
                 /\ Faults = 0 => InStep(parser, Ahead(g, k))
                 /\ Faults <= 1 => Bounded(parser, Ahead(g, k))
    BY DEF BufferInv
  <1>2. GoodParser(parser) /\ Faults \in Nat /\ late \in Nat /\ lost \in Nat /\ damaged \in Nat
    BY FaultTypes DEF TypesInv
  <1> DEFINE a == Ahead(g, k)
             b == Ahead(Tail(g), k)
  <1>3. wire # <<>> => /\ a \in Label /\ Head(wire) \in Byte /\ Means(a, Head(wire))
                       /\ Labels(Tail(g), Tail(wire), k) /\ NextLabel(b) /\ Follows(a, b)
    BY <1>1, AheadFacts
  <1>4. ASSUME NEW p \in Packets, Send(p) PROVE BufferInv'
    <2>1. k \in Nat /\ Len(sent') = k + 1
      BY <1>4 DEF Send, TypesInv, Ranges
    <2>2. wire' = wire \o Frame(p) /\ parser' = parser /\ Faults' = Faults
      BY <1>4 DEF Send, Faults
    <2> HIDE DEF k
    <2>3. PICK j : /\ Labels(j, wire \o Frame(p), k + 1)
                   /\ \/ Ahead(j, k + 1) = Ahead(g, k)
                      \/ /\ Ahead(j, k + 1).kind = "begin" /\ Ahead(g, k).kind = "begin"
                         /\ Ahead(j, k + 1).ord = Ahead(g, k).ord
      BY <1>1, <2>1, SendAhead
    <2> DEFINE b1 == Ahead(j, k + 1)
    <2>4. InStep(parser, a) => InStep(parser, b1)
      BY <2>3 DEF InStep, InFrame
    <2>5. Bounded(parser, a) => Bounded(parser, b1)
      BY <2>3 DEF Bounded, Rest, Spare, InFrame
    <2> QED
      BY <1>1, <2>1, <2>2, <2>3, <2>4, <2>5 DEF BufferInv
  <1>5. CASE ReadByte
    <2>1. /\ wire # <<>> /\ wire' = Tail(wire) /\ parser' = Parsed(parser, Head(wire))
          /\ Faults' = Faults /\ sent' = sent
      BY <1>5 DEF ReadByte, Receive, Faults
    <2>2. Faults = 0 => InStep(parser', b)
      BY <1>1, <1>2, <1>3, <2>1, ReadInStep
    <2>3. Faults <= 1 => Bounded(parser', b)
      BY <1>1, <1>2, <1>3, <2>1, ReadBounded
    <2> QED
      BY <1>3, <2>1, <2>2, <2>3 DEF BufferInv
  <1>6. CASE LoseByte
    <2>1. /\ wire # <<>> /\ wire' = Tail(wire) /\ parser' = parser
          /\ Faults' = Faults + 1 /\ sent' = sent
      BY <1>2, <1>6 DEF LoseByte, Faults
    <2>2. Faults = 0 => Bounded(parser, b)
      BY <1>1, <1>2, <1>3, <2>1, LoseBounded
    <2>3. Faults' # 0 /\ (Faults' <= 1 => Faults = 0)
      BY <1>2, <2>1
    <2> QED
      BY <1>3, <2>1, <2>2, <2>3 DEF BufferInv
  <1>7. ASSUME NEW c \in DamagedTo, DamageByte(c) PROVE BufferInv'
    <2>1. /\ wire # <<>> /\ wire' = Tail(wire) /\ parser' = Parsed(parser, c)
          /\ Faults' = Faults + 1 /\ sent' = sent
      BY <1>2, <1>7 DEF DamageByte, Receive, Faults
    <2>2. c \in Byte
      BY FramingAssumption
    <2>3. Faults = 0 => Bounded(parser', b)
      BY <1>1, <1>2, <1>3, <2>1, <2>2, DamageBounded
    <2>4. Faults' # 0 /\ (Faults' <= 1 => Faults = 0)
      BY <1>2, <2>1
    <2> QED
      BY <1>3, <2>1, <2>3, <2>4 DEF BufferInv
  <1>8. CASE UNCHANGED vars
    BY <1>8 DEF vars, BufferInv, Faults
  <1> QED
    BY <1>4, <1>5, <1>6, <1>7, <1>8 DEF Next

(* add_byte(), which does not look at data_pos, stays within data_buf when the
   receiver came in late, or one byte was lost or damaged, wherever that was. *)
THEOREM BufferIsLargeEnough == BufferFits => (Spec => []BufferInBounds)
  <1> SUFFICES ASSUME BufferFits PROVE Spec => []BufferInBounds
    OBVIOUS
  <1>1. Spec => []TypesInv
    BY TypesInit, TypesNext, PTL DEF Spec
  <1>2. Init => BufferInv
    BY BufferInit
  <1>3. TypesInv /\ BufferInv /\ [Next]_vars => BufferInv'
    BY BufferNext
  <1>4. TypesInv /\ BufferInv => BufferInBounds
    BY BufferInvBounds
  <1> QED
    BY <1>1, <1>2, <1>3, <1>4, PTL DEF Spec

-----------------------------------------------------------------------------
(* A fault costs one packet at most *)

(* What read(c) does in a frame, with the members that ParsedGood leaves out. *)
LEMMA TakenIs ==
    ASSUME NEW ps, GoodParser(ps), NEW c \in Byte, ~Escapes(ps, c), ~IsMark(ps, c)
    PROVE  LET t == Parsed(ps, c)
           IN  /\ ps.state = "ID" /\ IsPacketId(c) =>
                     t.data = Append(ps.data, c) /\ t.msg_id = c
               /\ ps.state \in {"SIZE", "DATA"} =>
                     t.data = Append(ps.data, c) /\ t.msg_id = ps.msg_id
               /\ ps.state = "CHECK_1" =>
                     t.data = ps.data /\ t.msg_id = ps.msg_id /\ t.checksum_in = c
               /\ ps.state = "CHECK_2" =>
                     /\ t.data = ps.data /\ t.msg_id = ps.msg_id
                     /\ t.data_length = ps.data_length
                     /\ t.checksum_in = ps.checksum_in + 256 * c
  <1> DEFINE t == Parsed(ps, c)
             v == Members(ps.state, FALSE, ps.msg_id, ps.checksum_in,
                          ps.data_length, ps.data)
  <1>1. /\ ps \in Parser /\ ps.state \in State /\ ps.stuff_flag \in BOOLEAN
        /\ ps.msg_id \in Byte /\ ps.checksum_in \in Word /\ ps.data_length \in Byte
        /\ ps.data \in Bytes
    BY DEF GoodParser, Parser
  <1>2. t = Advance([ps EXCEPT !.stuff_flag = FALSE, !.state = ps.state], c)
    BY Zenon DEF Parsed
  <1>3. [ps EXCEPT !.stuff_flag = FALSE, !.state = ps.state] = v
    BY <1>1, Restarted, FALSE \in BOOLEAN
  <1>4. t = Advance(v, c)
    BY <1>2, <1>3
  <1>5. /\ v \in Parser /\ v.state = ps.state /\ v.msg_id = ps.msg_id /\ v.data = ps.data
        /\ v.checksum_in = ps.checksum_in /\ v.data_length = ps.data_length
    <2>1. ASSUME NEW b \in BOOLEAN
          PROVE  LET u == Members(ps.state, b, ps.msg_id, ps.checksum_in,
                                  ps.data_length, ps.data)
                 IN  /\ u \in Parser /\ u.state = ps.state /\ u.msg_id = ps.msg_id
                     /\ u.data = ps.data /\ u.checksum_in = ps.checksum_in
                     /\ u.data_length = ps.data_length
      BY <1>1, MembersAre
    <2> QED
      BY <2>1, FALSE \in BOOLEAN
  <1> HIDE DEF t, v
  <1>6. ASSUME NEW s, NEW id, NEW sum, NEW length, NEW d,
               t = Members(s, v.stuff_flag, id, sum, length, d)
        PROVE  t.msg_id = id /\ t.checksum_in = sum /\ t.data_length = length /\ t.data = d
    BY <1>6, MembersAre
  <1> DEFINE after(s, id, sum, length, d) ==
                 t = Members(s, v.stuff_flag, id, sum, length, d)
  <1>7. /\ v.state = "ID" /\ IsPacketId(c) =>
              after("SIZE", c, v.checksum_in, v.data_length, Append(v.data, c))
        /\ v.state = "SIZE" =>
              after(IF c = 0 THEN "CHECK_1" ELSE "DATA",
                    v.msg_id, v.checksum_in, c, Append(v.data, c))
        /\ v.state = "DATA" =>
              after(IF Len(Append(v.data, c)) >= v.data_length + 2
                    THEN "CHECK_1" ELSE "DATA",
                    v.msg_id, v.checksum_in, v.data_length, Append(v.data, c))
        /\ v.state = "CHECK_1" => after("CHECK_2", v.msg_id, c, v.data_length, v.data)
        /\ v.state = "CHECK_2" =>
              after("START", v.msg_id, v.checksum_in + 256 * c, v.data_length, v.data)
    BY <1>4, <1>5, AdvanceIs
  <1>8. ASSUME NEW s, NEW id, NEW sum, NEW length, NEW d, after(s, id, sum, length, d)
        PROVE  t.msg_id = id /\ t.checksum_in = sum /\ t.data_length = length /\ t.data = d
    BY <1>6, <1>8
  <1> HIDE DEF after
  <1>9. ps.state = "ID" /\ IsPacketId(c) => t.data = Append(ps.data, c) /\ t.msg_id = c
    <2> SUFFICES ASSUME ps.state = "ID", IsPacketId(c)
                 PROVE  t.data = Append(ps.data, c) /\ t.msg_id = c
      OBVIOUS
    <2>1. after("SIZE", c, v.checksum_in, v.data_length, Append(v.data, c))
      BY <1>5, <1>7
    <2>2. t.data = Append(v.data, c) /\ t.msg_id = c
      BY <1>8, <2>1
    <2> QED
      BY <1>5, <2>2
  <1>10. ps.state \in {"SIZE", "DATA"} =>
             t.data = Append(ps.data, c) /\ t.msg_id = ps.msg_id
    <2>1. CASE ps.state = "SIZE"
      <3>1. after(IF c = 0 THEN "CHECK_1" ELSE "DATA",
                  v.msg_id, v.checksum_in, c, Append(v.data, c))
        BY <1>5, <1>7, <2>1
      <3>2. t.data = Append(v.data, c) /\ t.msg_id = v.msg_id
        BY <1>8, <3>1
      <3> QED
        BY <1>5, <3>2
    <2>2. CASE ps.state = "DATA"
      <3>1. after(IF Len(Append(v.data, c)) >= v.data_length + 2 THEN "CHECK_1" ELSE "DATA",
                  v.msg_id, v.checksum_in, v.data_length, Append(v.data, c))
        BY <1>5, <1>7, <2>2
      <3>2. t.data = Append(v.data, c) /\ t.msg_id = v.msg_id
        BY <1>8, <3>1
      <3> QED
        BY <1>5, <3>2
    <2> QED
      BY <2>1, <2>2
  <1>11. ps.state = "CHECK_1" =>
             t.data = ps.data /\ t.msg_id = ps.msg_id /\ t.checksum_in = c
    BY <1>5, <1>7, <1>8
  <1>12. ps.state = "CHECK_2" =>
            /\ t.data = ps.data /\ t.msg_id = ps.msg_id /\ t.data_length = ps.data_length
            /\ t.checksum_in = ps.checksum_in + 256 * c
    BY <1>5, <1>7, <1>8
  <1> QED
    BY <1>9, <1>10, <1>11, <1>12 DEF t

(* The parser has all that came of the frame, and its packet will be handled if
   nothing goes wrong.                                                      *)
Tracks(ps, l) ==
    /\ InFrame(l) /\ InPlace(ps, l)
    /\ \A i \in 1 .. Len(ps.data) : ps.data[i] = l.content[i]
    /\ l.pos >= 2 => ps.msg_id = l.content[1]
    /\ l.pos = l.size + 4 => ps.checksum_in = l.content[l.size + 3]

LEMMA AppendIs ==
    ASSUME NEW d \in Bytes, NEW c \in Byte, NEW s, s[Len(d) + 1] = c,
           \A i \in 1 .. Len(d) : d[i] = s[i]
    PROVE  \A i \in 1 .. Len(Append(d, c)) : Append(d, c)[i] = s[i]
  BY DEF Bytes

LEMMA SamePrefix ==
    ASSUME NEW m \in Nat, NEW d \in Bytes, Len(d) = m, NEW s \in Seq(Byte), Len(s) >= m,
           \A i \in 1 .. m : d[i] = s[i]
    PROVE  SubSeq(d, 1, m) = SubSeq(s, 1, m)
  <1>1. d \in Seq(Byte) /\ Len(d) >= m
    BY DEF Bytes
  <1>2. SubSeq(d, 1, m) = d
    BY <1>1, PrefixIs
  <1>3. SubSeq(s, 1, m) = d
    <2>1. \A i \in 1 .. m : s[i] = d[i]
      OBVIOUS
    <2> QED
      BY <1>1, <2>1, PrefixIs
  <1> QED
    BY <1>2, <1>3

(* The last byte of the checksum: it is right, and the packet is handled. *)
LEMMA TrackedCompletes ==
    ASSUME NEW ps, GoodParser(ps), NEW c \in Byte, NEW a \in Label, Means(a, c),
           Tracks(ps, a), a.kind \in {"literal", "plain"}, a.pos = a.size + 4
    PROVE  Completes(ps, c) /\ Parsed(ps, c).msg_id \in GET_ADDR_LIST .. SUBSCRIBE
  <1> DEFINE t == Parsed(ps, c)
             n == a.size
             s == a.content
  <1>1. n \in Nat /\ n + 2 \in Nat /\ n + 4 >= n + 2 /\ n + 4 >= 2
    BY LabelTypes
  <1>2. /\ IsContent(s, n) /\ c = s[n + 4] /\ (a.kind = "literal" => c \in Stuff .. End)
        /\ a.kind = "plain" => c \notin Stuff .. End
    BY DEF Means, InFrame
  <1>3. /\ ps.state = "CHECK_2" /\ Len(ps.data) = n + 2 /\ ps.data_length = n
        /\ ps.stuff_flag = (a.kind = "literal")
    BY <1>1 DEF Tracks, InPlace
  <1>4. /\ \A i \in 1 .. n + 2 : ps.data[i] = s[i]
        /\ ps.msg_id = s[1] /\ ps.checksum_in = s[n + 3]
    BY <1>1, <1>3 DEF Tracks
  <1>5. ~Escapes(ps, c) /\ ~IsMark(ps, c)
    BY <1>2, <1>3, MarkFacts DEF Escapes, IsMark
  <1>6. /\ t.data = ps.data /\ t.msg_id = ps.msg_id /\ t.data_length = n
        /\ t.checksum_in = ps.checksum_in + 256 * c
    BY <1>3, <1>5, TakenIs
  <1> HIDE DEF t
  <1>7. SubSeq(ps.data, 1, n + 2) = SubSeq(s, 1, n + 2)
    <2>1. n + 4 \in Nat /\ s \in [1 .. n + 4 -> Byte]
      BY <1>1, <1>2 DEF IsContent
    <2>2. s \in Seq(Byte) /\ Len(s) = n + 4
      BY <2>1, SeqFacts
    <2>3. ps.data \in Bytes
      BY DEF GoodParser, Parser
    <2> QED
      BY <1>1, <1>3, <1>4, <2>2, <2>3, SamePrefix
  <1>8. /\ Checksum(SubSeq(s, 1, n + 2)) = s[n + 3] + 256 * s[n + 4]
        /\ s[1] \in GET_ADDR_LIST .. SUBSCRIBE
    BY <1>2 DEF IsContent
  <1>9. Checksum(SubSeq(t.data, 1, t.data_length + 2)) = t.checksum_in
    BY <1>2, <1>4, <1>6, <1>7, <1>8
  <1> QED
    BY <1>3, <1>4, <1>5, <1>6, <1>8, <1>9 DEF t, Completes, CheckChecksum

LEMMA ReadTracks ==
    ASSUME NEW ps, GoodParser(ps), NEW c \in Byte, NEW a \in Label, NEW b, NextLabel(b),
           Means(a, c), Follows(a, b), Tracks(ps, a), InFrame(b)
    PROVE  Tracks(Parsed(ps, c), b)
  <1> DEFINE t == Parsed(ps, c)
             n == a.size
             s == a.content
             m == Len(ps.data)
  <1>1. /\ a.pos \in Nat /\ n \in Nat /\ m \in Nat /\ c \in Byte /\ ps.data \in Bytes
    BY LabelTypes, ParserFacts DEF GoodParser, Parser
  <1>2. /\ InFrame(a) /\ InPlace(ps, a) /\ IsContent(s, n) /\ a.pos >= 1 /\ a.pos <= n + 4
        /\ \A i \in 1 .. m : ps.data[i] = s[i]
        /\ a.pos >= 2 => ps.msg_id = s[1]
        /\ a.pos = n + 4 => ps.checksum_in = s[n + 3]
    BY DEF Tracks, Means
  <1>3. b.size = n /\ b.content = s
    BY <1>2 DEF Follows, InFrame
  <1>4. InPlace(t, b)
    BY <1>2, ReadInPlace
  <1>5. CASE a.kind = "stuff"
    <2>1. b.kind = "literal" /\ b.pos = a.pos /\ c = Stuff /\ ps.stuff_flag = FALSE
      BY <1>2, <1>5 DEF Follows, Means, InPlace
    <2>2. t = [ps EXCEPT !.stuff_flag = TRUE]
      BY <2>1, Zenon DEF Parsed, Escapes
    <2>3. t.data = ps.data /\ t.msg_id = ps.msg_id /\ t.checksum_in = ps.checksum_in
      BY <2>2 DEF GoodParser, Parser
    <2> HIDE DEF t
    <2>4. Tracks(t, b)
      BY <1>2, <1>3, <1>4, <2>1, <2>3 DEF Tracks
    <2> QED
      BY <2>4 DEF t
  <1>6. CASE a.kind \in {"literal", "plain"}
    <2>1. /\ c = s[a.pos] /\ (a.kind = "literal" => c \in Stuff .. End)
          /\ a.kind = "plain" => c \notin Stuff .. End
          /\ ps.stuff_flag = (a.kind = "literal")
      BY <1>2, <1>6 DEF Means, InPlace
    <2>2. ~Escapes(ps, c) /\ ~IsMark(ps, c)
      BY <1>6, <2>1, MarkFacts DEF Escapes, IsMark
    <2>3. a.pos < n + 4 /\ b.pos = a.pos + 1
      BY <1>1, <1>2, <1>6 DEF Follows, InFrame
    <2>4. /\ ps.state = "ID" /\ IsPacketId(c) => t.data = Append(ps.data, c) /\ t.msg_id = c
          /\ ps.state \in {"SIZE", "DATA"} =>
                t.data = Append(ps.data, c) /\ t.msg_id = ps.msg_id
          /\ ps.state = "CHECK_1" =>
                t.data = ps.data /\ t.msg_id = ps.msg_id /\ t.checksum_in = c
      BY <2>2, TakenIs
    <2> HIDE DEF t
    <2> SUFFICES /\ \A i \in 1 .. Len(t.data) : t.data[i] = s[i]
                 /\ t.msg_id = s[1]
                 /\ a.pos = n + 3 => t.checksum_in = s[n + 3]
      BY <1>1, <1>2, <1>3, <1>4, <2>3 DEF Tracks, t
    <2>5. CASE a.pos <= n + 2
      <3>1. \/ a.pos = 1 /\ ps.state = "ID" /\ m = 0
            \/ a.pos >= 2 /\ ps.state \in {"SIZE", "DATA"} /\ m = a.pos - 1
        <4>1. \/ a.pos = 1 /\ ps.state = "ID" /\ m = 0
              \/ a.pos = 2 /\ ps.state = "SIZE" /\ m = 1
              \/ a.pos >= 3 /\ ps.state = "DATA" /\ m = a.pos - 1
              \/ a.pos = n + 3
              \/ a.pos = n + 4
          BY <1>2 DEF InPlace
        <4> HIDE DEF m
        <4> QED
          BY <1>1, <2>5, <4>1
      <3>2. m + 1 = a.pos /\ s[m + 1] = c
        BY <1>1, <2>1, <3>1
      <3>3. \A i \in 1 .. Len(Append(ps.data, c)) : Append(ps.data, c)[i] = s[i]
        BY <1>1, <1>2, <3>2, AppendIs
      <3>4. t.data = Append(ps.data, c) /\ t.msg_id = s[1]
        BY <1>2, <2>1, <2>4, <3>1, ContentFacts
      <3>5. a.pos # n + 3
        BY <1>1, <2>5
      <3> QED
        BY <3>3, <3>4, <3>5
    <2>6. CASE a.pos = n + 3
      <3>1. ps.state = "CHECK_1" /\ a.pos >= 2
        BY <1>1, <1>2, <2>6 DEF InPlace
      <3> QED
        BY <1>2, <2>1, <2>4, <2>6, <3>1
    <2> QED
      BY <1>1, <2>3, <2>5, <2>6
  <1> QED
    BY <1>2, <1>5, <1>6 DEF InFrame

(* The packets that were sent before the next byte's, and those of them and of its
   own that count as lost: the frame of the next byte counts unless it is yet to
   begin or the parser has all of it; one that is about to begin counts when a
   flag left over would take its mark for a stuffed byte in the middle of
   another.                                                                 *)
Owed(ps, l) == IF l.kind = "begin" \/ Tracks(ps, l) THEN l.ord - 1 ELSE l.ord
Risk(ps, l) == IF l.kind = "begin" /\ ps.stuff_flag /\ ps.state # "START" THEN 1 ELSE 0
Due(ps, l) == Owed(ps, l) + Risk(ps, l)

LEMMA DueFacts ==
    ASSUME NEW ps, NEW l, l.ord \in Nat
    PROVE  /\ Due(ps, l) \in Int
           /\ l.kind = "begin" => Due(ps, l) \in {l.ord - 1, l.ord}
           /\ l.kind = "begin" /\ (ps.stuff_flag = FALSE \/ ps.state = "START") =>
                 Due(ps, l) = l.ord - 1
           /\ l.kind = "begin" /\ ps.stuff_flag /\ ps.state # "START" => Due(ps, l) = l.ord
           /\ l.kind # "begin" /\ Tracks(ps, l) => Due(ps, l) = l.ord - 1
           /\ l.kind # "begin" /\ ~Tracks(ps, l) => Due(ps, l) = l.ord
  BY DEF Due, Owed, Risk

LEMMA NextOrd ==
    ASSUME NEW a \in Label, NEW b, Follows(a, b)
    PROVE  /\ a.ord \in Nat /\ b.ord \in Nat
           /\ a.kind = "end" => b.kind = "begin" /\ b.ord = a.ord + 1
           /\ a.kind # "end" => b.kind # "begin" /\ b.ord = a.ord
  <1>1. a.ord \in Nat /\ a.pos \in Nat /\ a.size \in Nat /\ a.kind \in Kind
    BY LabelTypes
  <1>2. a.kind # "end" => b.kind # "begin"
    BY <1>1 DEF Follows, Kind
  <1> QED
    BY <1>1, <1>2 DEF Follows

(* Whatever becomes of a byte, it makes one more packet due at most. *)
LEMMA FaultDue ==
    ASSUME NEW ps, NEW t, NEW a \in Label, NEW b, Follows(a, b)
    PROVE  Due(t, b) <= Due(ps, a) + 1
  <1>1. /\ a.ord \in Nat /\ b.ord \in Nat
        /\ a.kind = "end" => b.kind = "begin" /\ b.ord = a.ord + 1
        /\ a.kind # "end" => b.kind # "begin" /\ b.ord = a.ord
    BY NextOrd
  <1>2. /\ Due(ps, a) \in {a.ord - 1, a.ord}
        /\ Due(t, b) \in {b.ord - 1, b.ord}
    BY <1>1, DueFacts
  <1>3. CASE a.kind = "end"
    <2>1. Due(ps, a) = a.ord
      BY <1>1, <1>3, DueFacts DEF Tracks, InFrame
    <2> QED
      BY <1>1, <1>2, <1>3, <2>1
  <1>4. CASE a.kind # "end"
    BY <1>1, <1>2, <1>4
  <1> QED
    BY <1>3, <1>4

(* A byte that is read makes no packet due, but where one is handled. *)
LEMMA ReadDue ==
    ASSUME NEW ps, GoodParser(ps), NEW c \in Byte, NEW a \in Label, NEW b, NextLabel(b),
           Means(a, c), Follows(a, b)
    PROVE  \/ Due(Parsed(ps, c), b) <= Due(ps, a)
           \/ /\ Due(Parsed(ps, c), b) <= Due(ps, a) + 1 /\ Completes(ps, c)
              /\ Parsed(ps, c).msg_id \in GET_ADDR_LIST .. SUBSCRIBE
  <1> DEFINE t == Parsed(ps, c)
  <1>1. /\ a.ord \in Nat /\ b.ord \in Nat /\ a.pos \in Nat /\ a.size \in Nat
        /\ a.kind \in Kind /\ b.pos \in Nat /\ b.size \in Nat
        /\ a.kind = "end" => b.kind = "begin" /\ b.ord = a.ord + 1
        /\ a.kind # "end" => b.kind # "begin" /\ b.ord = a.ord
    BY NextOrd, LabelTypes, NextTypes
  <1>2. /\ GoodParser(t) /\ t.stuff_flag \in BOOLEAN /\ ps.stuff_flag \in BOOLEAN
        /\ c # Stuff \/ ps.stuff_flag => t.stuff_flag = FALSE
        /\ c \in {Begin, End} /\ ~ps.stuff_flag =>
              Len(t.data) = 0 /\ t.state = IF c = Begin THEN "ID" ELSE "START"
        /\ c = Begin /\ ps.state = "START" => Len(t.data) = 0 /\ t.state = "ID"
    BY ParsedCounts
  <1>3. Due(t, b) \in Int /\ Due(ps, a) \in Int
    BY <1>1, DueFacts
  <1> HIDE DEF t
  <1>4. CASE a.kind = "begin"
    <2>1. c = Begin /\ b.kind \in {"stuff", "plain"} /\ b.pos = 1
      BY <1>4 DEF Means, Follows
    <2>2. CASE ps.stuff_flag /\ ps.state # "START"
      <3>1. Due(ps, a) = a.ord
        BY <1>1, <1>4, <2>2, DueFacts
      <3>2. Due(t, b) \in {a.ord - 1, a.ord}
        BY <1>1, <1>4, DueFacts
      <3> QED
        BY <1>1, <1>3, <3>1, <3>2 DEF t
    <2>3. CASE ~(ps.stuff_flag /\ ps.state # "START")
      <3>1. Len(t.data) = 0 /\ t.state = "ID" /\ t.stuff_flag = FALSE
        BY <1>2, <2>1, <2>3, MarkFacts
      <3>2. Tracks(t, b)
        <4>1. InFrame(b) /\ InPlace(t, b)
          BY <2>1, <3>1 DEF InFrame, InPlace
        <4>2. \A i \in 1 .. Len(t.data) : t.data[i] = b.content[i]
          BY <3>1
        <4>3. ~(b.pos >= 2) /\ b.pos # b.size + 4
          BY <1>1, <2>1
        <4> QED
          BY <4>1, <4>2, <4>3 DEF Tracks
      <3>3. Due(t, b) = a.ord - 1
        BY <1>1, <1>4, <3>2, DueFacts
      <3>4. Due(ps, a) \in {a.ord - 1, a.ord}
        BY <1>1, <1>4, DueFacts
      <3> QED
        BY <1>1, <3>3, <3>4 DEF t
    <2> QED
      BY <2>2, <2>3
  <1>5. CASE a.kind = "end"
    <2>1. c = End
      BY <1>5 DEF Means
    <2>2. t.stuff_flag = FALSE
      BY <1>2, <2>1, MarkFacts
    <2>3. Due(t, b) = a.ord
      <3>1. Due(t, b) = b.ord - 1
        BY <1>1, <1>5, <2>2, DueFacts
      <3> QED
        BY <1>1, <1>5, <3>1
    <2>4. Due(ps, a) = a.ord
      BY <1>1, <1>5, DueFacts DEF Tracks, InFrame
    <2> QED
      BY <1>1, <2>3, <2>4 DEF t
  <1>6. CASE InFrame(a)
    <2>0. a.kind # "begin" /\ a.kind # "end" /\ b.kind # "begin" /\ b.ord = a.ord
      BY <1>1, <1>6 DEF InFrame
    <2>1. CASE ~Tracks(ps, a)
      <3>1. Due(ps, a) = a.ord
        BY <1>1, <2>0, <2>1, DueFacts
      <3>2. Due(t, b) \in {a.ord - 1, a.ord}
        BY <1>1, <2>0, DueFacts
      <3> QED
        BY <1>1, <3>1, <3>2 DEF t
    <2>2. CASE Tracks(ps, a) /\ InFrame(b)
      <3>1. Tracks(t, b)
        BY <2>2, ReadTracks DEF t
      <3>2. Due(ps, a) = a.ord - 1 /\ Due(t, b) = a.ord - 1
        BY <1>1, <2>0, <2>2, <3>1, DueFacts
      <3> QED
        BY <1>1, <3>2 DEF t
    <2>3. CASE Tracks(ps, a) /\ ~InFrame(b)
      <3>1. a.kind \in {"literal", "plain"} /\ a.pos = a.size + 4
        <4>1. a.kind \in {"literal", "plain"} /\ a.pos >= a.size + 4
          BY <1>6, <2>3, FrameEnds
        <4>2. a.pos <= a.size + 4
          BY <1>6 DEF Means
        <4> QED
          BY <1>1, <4>1, <4>2
      <3>2. Completes(ps, c) /\ t.msg_id \in GET_ADDR_LIST .. SUBSCRIBE
        BY <2>3, <3>1, TrackedCompletes DEF t
      <3>3. Due(t, b) <= Due(ps, a) + 1
        BY FaultDue
      <3> QED
        BY <3>2, <3>3 DEF t
    <2> QED
      BY <2>1, <2>2, <2>3
  <1> QED
    BY <1>1, <1>4, <1>5, <1>6 DEF Kind, InFrame

LEMMA AheadFirst ==
    ASSUME NEW k, NEW g, NEW w, Labels(g, w, k), w # <<>>
    PROVE  Ahead(g, k) = g[1]
  <1>1. g \in Seq(Label) /\ w \in Seq(Byte) /\ Len(g) = Len(w)
    BY DEF Labels, Chain
  <1>2. g # <<>>
    BY <1>1
  <1> QED
    BY <1>2 DEF Ahead

LEMMA OrdBounds ==
    ASSUME NEW k \in Nat, NEW g, NEW w, Labels(g, w, k)
    PROVE  \A i \in 1 .. Len(w) : g[i] \in Label /\ g[i].ord \in Nat /\ g[i].ord <= k
  <1> DEFINE n == Len(w)
             S == {j \in Nat : j < n => g[n - j].ord <= k}
  <1>1. /\ g \in Seq(Label) /\ w \in Seq(Byte) /\ Len(g) = n /\ n \in Nat
        /\ n > 0 => g[n].ord = k
        /\ \A i \in 1 .. n : i < n => Follows(g[i], g[i + 1])
    BY DEF Labels, Chain
  <1>2. 0 \in S
    BY <1>1
  <1>3. ASSUME NEW j \in Nat, j \in S PROVE j + 1 \in S
    <2> SUFFICES ASSUME j + 1 < n PROVE g[n - (j + 1)].ord <= k
      OBVIOUS
    <2> DEFINE i == n - (j + 1)
    <2>1. i \in 1 .. n /\ i < n /\ i + 1 = n - j /\ j < n
      BY <1>1
    <2>2. g[i] \in Label /\ Follows(g[i], g[i + 1])
      BY <1>1, <2>1
    <2>3. g[i + 1].ord <= k
      BY <1>3, <2>1
    <2> HIDE DEF i
    <2>4. /\ g[i].ord \in Nat /\ g[i + 1].ord \in Nat
          /\ g[i + 1].ord = g[i].ord \/ g[i + 1].ord = g[i].ord + 1
      BY <2>2, NextOrd
    <2>5. g[i].ord <= k
      BY <2>3, <2>4
    <2> QED
      BY <2>5 DEF i
  <1> HIDE DEF S
  <1>4. ASSUME NEW i \in 1 .. n PROVE g[i] \in Label /\ g[i].ord \in Nat /\ g[i].ord <= k
    <2>1. n - i \in Nat /\ n - i < n /\ n - (n - i) = i
      BY <1>1
    <2>2. n - i \in S
      BY <1>2, <1>3, <2>1, InductionOnSet
    <2>3. g[i].ord <= k
      BY <2>1, <2>2 DEF S
    <2>4. g[i] \in Label
      BY <1>1
    <2> QED
      BY <2>3, <2>4, LabelTypes
  <1> QED
    BY <1>4

LEMMA OrdBound ==
    ASSUME NEW k \in Nat, NEW g, NEW w, Labels(g, w, k), w # <<>>
    PROVE  g[1] \in Label /\ g[1].ord <= k
  <1>1. w \in Seq(Byte) /\ 1 \in 1 .. Len(w)
    BY DEF Labels, Chain
  <1> QED
    BY <1>1, OrdBounds

LossInv ==
    /\ \E S : handled \in Seq(S)
    /\ \E g : /\ Labels(g, wire, Len(sent))
              /\ Due(parser, Ahead(g, Len(sent))) - Len(handled) <= lost + damaged

LEMMA LengthIsNat == ASSUME NEW h, \E S : h \in Seq(S) PROVE Len(h) \in Nat
  OBVIOUS

LEMMA HandledGrows ==
    ASSUME NEW S, NEW h \in Seq(S), NEW ps
    PROVE  /\ \E T : h \o Handled(ps) \in Seq(T)
           /\ Len(h) \in Nat /\ Len(h \o Handled(ps)) \in Nat
           /\ Len(h) <= Len(h \o Handled(ps))
           /\ ps.msg_id \in GET_ADDR_LIST .. SUBSCRIBE =>
                 Len(h \o Handled(ps)) = Len(h) + 1
  <1> DEFINE x == FromBytes(ps.msg_id, SubSeq(ps.data, 3, Len(ps.data)))
             T == S \cup {x}
  <1> HIDE DEF x
  <1>1. h \in Seq(T) /\ <<x>> \in Seq(T) /\ <<>> \in Seq(T)
        /\ Len(<<x>>) = 1 /\ Len(<<>>) = 0 /\ Len(h) \in Nat
    OBVIOUS
  <1>2. Handled(ps) = IF ps.msg_id \in GET_ADDR_LIST .. SUBSCRIBE THEN <<x>> ELSE <<>>
    BY DEF Handled, x
  <1>3. CASE ps.msg_id \in GET_ADDR_LIST .. SUBSCRIBE
    <2>1. h \o <<x>> \in Seq(T) /\ Len(h \o <<x>>) = Len(h) + 1
      BY <1>1, ConcatFacts
    <2> QED
      BY <1>1, <1>2, <1>3, <2>1
  <1>4. CASE ps.msg_id \notin GET_ADDR_LIST .. SUBSCRIBE
    <2>1. h \o <<>> \in Seq(T) /\ Len(h \o <<>>) = Len(h)
      BY <1>1, ConcatFacts
    <2> QED
      BY <1>1, <1>2, <1>4, <2>1
  <1> QED
    BY <1>3, <1>4

LEMMA LossInit == Init => LossInv
  <1> SUFFICES ASSUME Init PROVE LossInv
    OBVIOUS
  <1>1. PICK g : Labels(g, wire, Len(sent))
    BY TypesInit DEF TypesInv
  <1>2. Len(sent) = 0 /\ Len(handled) = 0 /\ lost = 0 /\ damaged = 0 /\ handled \in Seq({})
        /\ parser.state = "START"
    <2>1. Len(<<>>) = 0 /\ <<>> \in Seq({})
      OBVIOUS
    <2> QED
      BY <2>1, NewParserGood DEF Init
  <1> DEFINE a == Ahead(g, Len(sent))
  <1>3. a.ord \in Nat /\ (a.kind = "begin" \/ a.ord = 0) /\ a.ord <= 1
    <2>1. CASE wire = <<>>
      <3>1. a = Idle(Len(sent))
        BY <1>1, <2>1, AheadFacts
      <3>2. a.kind = "begin" /\ a.ord = Len(sent) + 1
        BY <3>1, IdleFacts
      <3> QED
        BY <1>2, <3>2
    <2>2. CASE wire # <<>>
      <3>1. a \in Label /\ a.ord <= 0
        BY <1>1, <1>2, <2>2, OrdBound, AheadFacts
      <3> QED
        BY <3>1, LabelTypes
    <2> QED
      BY <2>1, <2>2
  <1> HIDE DEF a
  <1>4. Due(parser, a) <= 0
    <2>1. CASE a.kind = "begin"
      <3>1. Due(parser, a) = a.ord - 1
        BY <1>2, <1>3, <2>1, DueFacts
      <3> QED
        BY <1>3, <3>1
    <2>2. CASE a.kind # "begin"
      <3>1. Due(parser, a) = a.ord - 1 \/ Due(parser, a) = a.ord
        BY <1>3, <2>2, DueFacts
      <3> QED
        BY <1>3, <2>2, <3>1
    <2> QED
      BY <2>1, <2>2
  <1>5. Due(parser, a) \in Int
    BY <1>3, DueFacts
  <1>6. Due(parser, a) - Len(handled) <= lost + damaged
    BY <1>2, <1>4, <1>5
  <1> QED
    BY <1>1, <1>2, <1>6 DEF LossInv, a

LEMMA LossInvLoss == TypesInv /\ LossInv => LossIsLocal
  <1> SUFFICES ASSUME TypesInv, LossInv, wire = <<>>
               PROVE  Len(sent) - Len(handled) <= lost + damaged
    BY DEF LossIsLocal
  <1>1. PICK g : /\ Labels(g, wire, Len(sent))
                 /\ Due(parser, Ahead(g, Len(sent))) - Len(handled) <= lost + damaged
    BY DEF LossInv
  <1>2. Len(sent) \in Nat /\ Len(handled) \in Nat /\ lost \in Nat /\ damaged \in Nat
    BY FaultTypes DEF TypesInv, Ranges, LossInv
  <1> DEFINE k == Len(sent)
             a == Ahead(g, k)
  <1>3. a = Idle(k)
    BY <1>1, AheadFacts
  <1>4. a.kind = "begin" /\ a.ord = k + 1
    BY <1>3, IdleFacts
  <1> HIDE DEF a
  <1>5. Due(parser, a) = k \/ Due(parser, a) = k + 1
    <2>1. a.ord \in Nat
      BY <1>2, <1>4
    <2>2. Due(parser, a) \in {a.ord - 1, a.ord}
      BY <1>4, <2>1, DueFacts
    <2> QED
      BY <1>2, <1>4, <2>2
  <1>6. Due(parser, a) - Len(handled) <= lost + damaged
    BY <1>1 DEF a
  <1> QED
    BY <1>2, <1>5, <1>6

LEMMA Balance ==
    ASSUME NEW d \in Int, NEW e \in Int, NEW h \in Nat, NEW i \in Nat,
           NEW f \in Nat, NEW j \in Nat,
           h <= i, d - h <= f, e <= d + 1, (e - i <= d - h /\ j = f) \/ j = f + 1
    PROVE  e - i <= j
  OBVIOUS

(* A byte is taken off the line; the parser may read it, or another in its place. *)
LEMMA LossStep ==
    ASSUME TypesInv, NEW g, Labels(g, wire, Len(sent)), wire # <<>>,
           \E S : handled \in Seq(S),
           Due(parser, Ahead(g, Len(sent))) - Len(handled) <= lost + damaged,
           wire' = Tail(wire), sent' = sent, \E S : handled' \in Seq(S),
           lost' \in Nat, damaged' \in Nat, Len(handled) <= Len(handled'),
           \/ Due(parser', Ahead(Tail(g), Len(sent))) - Len(handled')
                  <= Due(parser, Ahead(g, Len(sent))) - Len(handled)
              /\ lost' + damaged' = lost + damaged
           \/ lost' + damaged' = lost + damaged + 1
    PROVE  LossInv'
  <1> DEFINE a == Ahead(g, Len(sent))
             b == Ahead(Tail(g), Len(sent))
  <1>1. /\ a \in Label /\ NextLabel(b) /\ Follows(a, b)
        /\ Labels(Tail(g), Tail(wire), Len(sent))
    BY AheadFacts
  <1>2. a.ord \in Nat /\ b.ord \in Nat
    BY <1>1, NextOrd
  <1>3. Due(parser', b) <= Due(parser, a) + 1
    BY <1>1, FaultDue
  <1>4. /\ Due(parser, a) \in Int /\ Due(parser', b) \in Int
        /\ Len(handled) \in Nat /\ Len(handled') \in Nat /\ Len(handled) <= Len(handled')
        /\ lost \in Nat /\ damaged \in Nat
    BY <1>2, DueFacts, FaultTypes, LengthIsNat
  <1>5. \/ Due(parser', b) - Len(handled') <= Due(parser, a) - Len(handled)
              /\ lost' + damaged' = lost + damaged
        \/ lost' + damaged' = lost + damaged + 1
    OBVIOUS
  <1> HIDE DEF a, b
  <1>6. Due(parser, a) - Len(handled) <= lost + damaged
    BY DEF a
  <1>7. lost' + damaged' \in Nat /\ lost + damaged \in Nat
    <2>1. \A m, n \in Nat : m + n \in Nat
      OBVIOUS
    <2> QED
      BY <1>4, <2>1
  <1>8. Due(parser', b) - Len(handled') <= lost' + damaged'
    BY <1>3, <1>4, <1>5, <1>6, <1>7, Balance
  <1> QED
    BY <1>1, <1>8 DEF LossInv, b

LEMMA LossNext == TypesInv /\ LossInv /\ [Next]_vars => LossInv'
  <1> SUFFICES ASSUME TypesInv, LossInv, [Next]_vars PROVE LossInv'
    OBVIOUS
  <1> DEFINE k == Len(sent)
  <1>1. PICK g : /\ Labels(g, wire, k)
                 /\ Due(parser, Ahead(g, k)) - Len(handled) <= lost + damaged
    BY DEF LossInv
  <1> DEFINE a == Ahead(g, k)
             b == Ahead(Tail(g), k)
  <1>2. /\ GoodParser(parser) /\ lost \in Nat /\ damaged \in Nat /\ k \in Nat
        /\ \E S : handled \in Seq(S)
    BY FaultTypes DEF TypesInv, Ranges, LossInv
  <1>3. wire # <<>> => /\ a \in Label /\ Head(wire) \in Byte /\ Means(a, Head(wire))
                       /\ NextLabel(b) /\ Follows(a, b)
    BY <1>1, AheadFacts
  <1>4. ASSUME NEW p \in Packets, Send(p) PROVE LossInv'
    <2>1. /\ wire' = wire \o Frame(p) /\ Len(sent') = k + 1 /\ parser' = parser
          /\ handled' = handled /\ lost' = lost /\ damaged' = damaged
      BY <1>4 DEF Send, TypesInv, Ranges
    <2> HIDE DEF k
    <2>2. PICK j : /\ Labels(j, wire \o Frame(p), k + 1)
                   /\ \/ Ahead(j, k + 1) = Ahead(g, k)
                      \/ /\ Ahead(j, k + 1).kind = "begin" /\ Ahead(g, k).kind = "begin"
                         /\ Ahead(j, k + 1).ord = Ahead(g, k).ord
      BY <1>1, <1>2, SendAhead
    <2>3. Due(parser, Ahead(j, k + 1)) = Due(parser, Ahead(g, k))
      BY <2>2 DEF Due, Owed, Risk
    <2> QED
      BY <1>1, <1>2, <2>1, <2>2, <2>3 DEF LossInv
  <1>5. ASSUME NEW c \in Byte, wire # <<>>, Receive(c)
        PROVE  /\ \E S : handled' \in Seq(S)
               /\ Len(handled) <= Len(handled')
               /\ Completes(parser, c)
                  /\ Parsed(parser, c).msg_id \in GET_ADDR_LIST .. SUBSCRIBE
                     => Len(handled') = Len(handled) + 1
    <2>1. CASE Completes(parser, c)
      BY <1>2, <1>5, <2>1, HandledGrows DEF Receive
    <2>2. CASE ~Completes(parser, c)
      BY <1>2, <1>5, <2>2 DEF Receive
    <2> QED
      BY <2>1, <2>2
  <1>6. CASE ReadByte
    <2>1. /\ wire # <<>> /\ wire' = Tail(wire) /\ parser' = Parsed(parser, Head(wire))
          /\ lost' = lost /\ damaged' = damaged /\ sent' = sent /\ Receive(Head(wire))
      BY <1>6 DEF ReadByte, Receive
    <2>2. \/ Due(parser', b) <= Due(parser, a)
          \/ /\ Due(parser', b) <= Due(parser, a) + 1 /\ Completes(parser, Head(wire))
             /\ Parsed(parser, Head(wire)).msg_id \in GET_ADDR_LIST .. SUBSCRIBE
      BY <1>2, <1>3, <2>1, ReadDue
    <2>3. /\ \E S : handled' \in Seq(S)
          /\ Len(handled) <= Len(handled')
          /\ \/ Due(parser', b) <= Due(parser, a)
             \/ /\ Due(parser', b) <= Due(parser, a) + 1
                /\ Len(handled') = Len(handled) + 1
      <3>1. /\ \E S : handled' \in Seq(S)
            /\ Len(handled) <= Len(handled')
            /\ Completes(parser, Head(wire))
               /\ Parsed(parser, Head(wire)).msg_id \in GET_ADDR_LIST .. SUBSCRIBE
                  => Len(handled') = Len(handled) + 1
        BY <1>3, <1>5, <2>1
      <3> QED
        BY <2>2, <3>1
    <2>4. /\ Due(parser, a) \in Int /\ Due(parser', b) \in Int
          /\ Len(handled) \in Nat /\ Len(handled') \in Nat
      <3>1. a.ord \in Nat /\ b.ord \in Nat
        BY <1>3, <2>1, NextOrd
      <3>2. Due(parser, a) \in Int /\ Due(parser', b) \in Int
        BY <3>1, DueFacts
      <3> QED
        BY <1>2, <2>3, <3>2, LengthIsNat
    <2> HIDE DEF a, b, k
    <2>5. Due(parser', b) - Len(handled') <= Due(parser, a) - Len(handled)
      BY <2>3, <2>4
    <2> QED
      BY <1>1, <1>2, <2>1, <2>3, <2>5, LossStep DEF a, b, k
  <1>7. CASE LoseByte
    <2>1. /\ wire # <<>> /\ wire' = Tail(wire) /\ sent' = sent /\ handled' = handled
          /\ lost' = lost + 1 /\ damaged' = damaged
      BY <1>7 DEF LoseByte
    <2>2. /\ lost' \in Nat /\ damaged' \in Nat /\ lost' + damaged' = lost + damaged + 1
          /\ Len(handled) <= Len(handled')
      BY <1>2, <2>1
    <2> QED
      BY <1>1, <1>2, <2>1, <2>2, LossStep
  <1>8. ASSUME NEW c \in DamagedTo, DamageByte(c) PROVE LossInv'
    <2>1. /\ wire # <<>> /\ wire' = Tail(wire) /\ sent' = sent
          /\ lost' = lost /\ damaged' = damaged + 1 /\ Receive(c)
      BY <1>8 DEF DamageByte, Receive
    <2>2. c \in Byte
      BY FramingAssumption
    <2>3. /\ lost' \in Nat /\ damaged' \in Nat /\ lost' + damaged' = lost + damaged + 1
          /\ Len(handled) <= Len(handled') /\ \E S : handled' \in Seq(S)
      <3>1. Len(handled) <= Len(handled') /\ \E S : handled' \in Seq(S)
        BY <1>5, <2>1, <2>2
      <3> QED
        BY <1>2, <2>1, <3>1
    <2> QED
      BY <1>1, <1>2, <2>1, <2>3, LossStep
  <1>9. CASE UNCHANGED vars
    BY <1>9 DEF vars, LossInv
  <1> QED
    BY <1>4, <1>6, <1>7, <1>8, <1>9 DEF Next

(* However many bytes are lost and damaged, read() has missed at most as many
   packets when it has read all that was sent, and a receiver that came in late
   misses none for it.                                                      *)
THEOREM FaultsCostOne == Spec => []LossIsLocal
  <1>1. Spec => []TypesInv
    BY TypesInit, TypesNext, PTL DEF Spec
  <1> QED
    BY <1>1, LossInit, LossNext, LossInvLoss, PTL DEF Spec

-----------------------------------------------------------------------------
(* What comes through whole is handled *)

(* The bytes of own are those of the packets that the labels say, and those of s. *)
Marked(g, own, s) ==
    /\ own \in Seq(Nat) /\ Len(own) = Len(g)
    /\ \A i \in 1 .. Len(g) :
          own[i] = g[i].ord /\ (g[i].ord >= 1 => Carries(g[i], s[g[i].ord]))

(* From its first mark to its last, the labels of one frame agree on its packet. *)
LEMMA OneFrame ==
    ASSUME NEW k \in Nat, NEW g, NEW w, Labels(g, w, k), Len(w) > 0, g[1].ord = k
    PROVE  \A i \in 1 .. Len(w) :
              g[i].ord = k /\ g[i].size = g[1].size /\ g[i].content = g[1].content
  <1> DEFINE n == Len(w)
             same(l) == l.ord = k /\ l.size = g[1].size /\ l.content = g[1].content
             S == {j \in Nat : j < n => same(g[j + 1])}
  <1>1. /\ n \in Nat \ {0} /\ \A i \in 1 .. n : i < n => Follows(g[i], g[i + 1])
        /\ \A i \in 1 .. n : g[i] \in Label /\ g[i].ord \in Nat /\ g[i].ord <= k
    BY OrdBounds DEF Labels, Chain
  <1>2. 0 \in S
    OBVIOUS
  <1>3. ASSUME NEW j \in Nat, j \in S PROVE j + 1 \in S
    <2> SUFFICES ASSUME j + 1 < n PROVE same(g[(j + 1) + 1])
      OBVIOUS
    <2> DEFINE i == j + 1
    <2>1. i \in 1 .. n /\ i < n /\ i + 1 \in 1 .. n /\ j < n
      BY <1>1
    <2>2. /\ g[i] \in Label /\ Follows(g[i], g[i + 1]) /\ g[i + 1].ord <= k
          /\ g[i].ord = k
      BY <1>1, <1>3, <2>1
    <2>3. g[i].kind # "end"
      BY <2>2, NextOrd
    <2>4. same(g[i])
      BY <1>3, <2>1
    <2> HIDE DEF i
    <2>5. same(g[i + 1])
      BY <2>2, <2>3, <2>4 DEF Follows
    <2> QED
      BY <2>5 DEF i
  <1> HIDE DEF S
  <1>4. ASSUME NEW i \in 1 .. n PROVE same(g[i])
    <2>1. i - 1 \in Nat /\ i - 1 < n /\ (i - 1) + 1 = i
      BY <1>1
    <2>2. i - 1 \in S
      BY <1>2, <1>3, <2>1, InductionOnSet
    <2> QED
      BY <2>1, <2>2 DEF S
  <1> QED
    BY <1>4

(* No packet is passed over: one that is not on the line has been on it. *)
LEMMA OrdReached ==
    ASSUME NEW k \in Nat, NEW g, NEW w, Labels(g, w, k), w # <<>>, NEW j \in Nat, j <= k,
           \A i \in 1 .. Len(w) : g[i].ord # j
    PROVE  j < g[1].ord
  <1> SUFFICES ASSUME ~(j < g[1].ord) PROVE FALSE
    OBVIOUS
  <1> DEFINE n == Len(w)
             S == {m \in Nat : m < n => g[m + 1].ord < j}
  <1>1. /\ w \in Seq(Byte) /\ n \in Nat \ {0} /\ g[n].ord = k
        /\ \A i \in 1 .. n : i < n => Follows(g[i], g[i + 1])
        /\ \A i \in 1 .. n : g[i] \in Label /\ g[i].ord \in Nat /\ g[i].ord <= k
    BY OrdBounds DEF Labels, Chain
  <1>2. 0 \in S
    <2>1. 1 \in 1 .. n
      BY <1>1
    <2>2. g[1].ord \in Nat /\ g[1].ord # j
      BY <1>1, <2>1
    <2>3. g[1].ord < j
      BY <2>2
    <2> QED
      BY <2>3
  <1>3. ASSUME NEW m \in Nat, m \in S PROVE m + 1 \in S
    <2> SUFFICES ASSUME m + 1 < n PROVE g[(m + 1) + 1].ord < j
      OBVIOUS
    <2> DEFINE i == m + 1
    <2>1. i \in 1 .. n /\ i < n /\ i + 1 \in 1 .. n /\ m < n
      BY <1>1
    <2>2. /\ g[i] \in Label /\ Follows(g[i], g[i + 1]) /\ g[i].ord < j
          /\ g[i + 1].ord # j
      BY <1>1, <1>3, <2>1
    <2> HIDE DEF i
    <2>3. /\ g[i].ord \in Nat /\ g[i + 1].ord \in Nat
          /\ g[i + 1].ord = g[i].ord \/ g[i + 1].ord = g[i].ord + 1
      BY <2>2, NextOrd
    <2>4. g[i + 1].ord < j
      BY <2>2, <2>3
    <2> QED
      BY <2>4 DEF i
  <1> HIDE DEF S
  <1>4. n - 1 \in Nat /\ n - 1 < n /\ (n - 1) + 1 = n
    BY <1>1
  <1>5. n - 1 \in S
    BY <1>2, <1>3, <1>4, InductionOnSet
  <1>6. g[n].ord < j
    BY <1>4, <1>5 DEF S
  <1> QED
    BY <1>1, <1>6

LEMMA TailFacts ==
    ASSUME NEW S, NEW s \in Seq(S), s # <<>>
    PROVE  /\ Tail(s) \in Seq(S) /\ Len(Tail(s)) = Len(s) - 1 /\ Len(s) \in Nat \ {0}
           /\ Head(s) = s[1] /\ \A i \in 1 .. Len(s) - 1 : Tail(s)[i] = s[i + 1]
  OBVIOUS

LEMMA TailMarked ==
    ASSUME NEW k, NEW g, NEW w, Labels(g, w, k), w # <<>>, NEW own, NEW s,
           Marked(g, own, s)
    PROVE  Marked(Tail(g), Tail(own), s) /\ own # <<>> /\ Head(own) = g[1].ord
  <1> DEFINE n == Len(w)
             h == Tail(g)
             o == Tail(own)
  <1>1. /\ w \in Seq(Byte) /\ g \in Seq(Label) /\ own \in Seq(Nat)
        /\ n \in Nat \ {0} /\ Len(g) = n /\ Len(own) = n
    BY DEF Labels, Chain, Marked
  <1>2. g # <<>> /\ own # <<>>
    BY <1>1
  <1>3. /\ Len(h) = n - 1 /\ \A i \in 1 .. n - 1 : h[i] = g[i + 1]
        /\ o \in Seq(Nat) /\ Len(o) = n - 1 /\ \A i \in 1 .. n - 1 : o[i] = own[i + 1]
        /\ Head(own) = own[1]
    BY <1>1, <1>2, TailFacts
  <1> HIDE DEF h, o
  <1>4. \A i \in 1 .. n - 1 : i + 1 \in 1 .. n
    BY <1>1
  <1>5. Marked(h, o, s)
    BY <1>1, <1>3, <1>4 DEF Marked
  <1>6. 1 \in 1 .. n
    BY <1>1
  <1> QED
    BY <1>1, <1>2, <1>3, <1>5, <1>6 DEF h, o, Marked

(* A frame is sent behind those on the line. *)
LEMMA SendMarked ==
    ASSUME NEW s \in Seq(Packets), NEW k \in Nat, k = Len(s), NEW g, NEW w, Labels(g, w, k),
           NEW own, Marked(g, own, s), NEW p \in Packets
    PROVE  \E j : /\ Labels(j, w \o Frame(p), k + 1)
                  /\ Marked(j, own \o [i \in DOMAIN Frame(p) |-> k + 1], Append(s, p))
                  /\ \/ Ahead(j, k + 1) = Ahead(g, k)
                     \/ /\ Ahead(j, k + 1).kind = "begin" /\ Ahead(g, k).kind = "begin"
                        /\ Ahead(j, k + 1).ord = Ahead(g, k).ord
  <1> DEFINE v == Frame(p)
             more == [i \in DOMAIN v |-> k + 1]
             t == Append(s, p)
  <1>1. PICK h : /\ Labels(h, v, k + 1) /\ h[1].kind = "begin" /\ h[1].ord = k + 1
                 /\ Carries(h[1], p) /\ Len(v) > 0
    <2>1. k + 1 \in Nat
      OBVIOUS
    <2> QED
      BY <2>1, FrameLabels
  <1> HIDE DEF v
  <1> DEFINE j == g \o h
             n == Len(w)
             m == Len(v)
             x == own \o more
  <1>2. /\ Labels(j, w \o v, k + 1)
        /\ w # <<>> => j # <<>> /\ j[1] = g[1]
        /\ w = <<>> => j # <<>> /\ j[1] = h[1]
    BY <1>1, JoinLabels
  <1>3. /\ g \in Seq(Label) /\ h \in Seq(Label) /\ v \in Seq(Byte) /\ own \in Seq(Nat)
        /\ n \in Nat /\ m \in Nat /\ Len(g) = n /\ Len(h) = m /\ Len(own) = n
    BY <1>1 DEF Labels, Chain, Marked
  <1>4. more \in Seq(Nat) /\ Len(more) = m /\ \A i \in 1 .. m : more[i] = k + 1
    <2>1. DOMAIN v = 1 .. m
      BY <1>3
    <2>2. more \in [1 .. m -> Nat]
      BY <2>1
    <2> QED
      BY <1>3, <2>1, <2>2, SeqFacts
  <1>5. /\ t[k + 1] = p /\ \A i \in 1 .. k : t[i] = s[i]
    OBVIOUS
  <1> HIDE DEF more, t
  <1>6. /\ Len(j) = n + m /\ x \in Seq(Nat) /\ Len(x) = n + m
        /\ \A i \in 1 .. n : j[i] = g[i] /\ x[i] = own[i]
        /\ \A i \in 1 .. n + m : i > n => j[i] = h[i - n] /\ x[i] = more[i - n]
    <2>1. /\ Len(j) = n + m /\ \A i \in 1 .. n : j[i] = g[i]
          /\ \A i \in 1 .. n + m : i > n => j[i] = h[i - n]
      <3>1. /\ Len(j) = Len(g) + Len(h) /\ \A i \in 1 .. Len(g) : j[i] = g[i]
            /\ \A i \in 1 .. Len(g) + Len(h) : i > Len(g) => j[i] = h[i - Len(g)]
        BY <1>3, ConcatFacts
      <3> HIDE DEF j
      <3> QED
        BY <1>3, <3>1
    <2>2. /\ x \in Seq(Nat) /\ Len(x) = n + m /\ \A i \in 1 .. n : x[i] = own[i]
          /\ \A i \in 1 .. n + m : i > n => x[i] = more[i - n]
      <3>1. /\ x \in Seq(Nat) /\ Len(x) = Len(own) + Len(more)
            /\ \A i \in 1 .. Len(own) : x[i] = own[i]
            /\ \A i \in 1 .. Len(own) + Len(more) :
                  i > Len(own) => x[i] = more[i - Len(own)]
        <4>1. own \in Seq(Nat) /\ more \in Seq(Nat)
          BY <1>3, <1>4
        <4> QED
          BY <4>1, ConcatFacts
      <3> HIDE DEF x
      <3> QED
        BY <1>3, <1>4, <3>1
    <2> HIDE DEF j, x
    <2> QED
      BY <2>1, <2>2
  <1> HIDE DEF j, x
  <1>7. ASSUME NEW i \in 1 .. n + m
        PROVE  x[i] = j[i].ord /\ (j[i].ord >= 1 => Carries(j[i], t[j[i].ord]))
    <2>1. CASE i <= n
      <3>1. i \in 1 .. n /\ j[i] = g[i] /\ x[i] = own[i]
        BY <1>3, <1>6, <2>1
      <3>2. g[i].ord \in Nat /\ g[i].ord <= k
        BY <3>1, OrdBounds
      <3>3. own[i] = g[i].ord /\ (g[i].ord >= 1 => Carries(g[i], s[g[i].ord]))
        BY <1>3, <3>1 DEF Marked
      <3>4. g[i].ord >= 1 => t[g[i].ord] = s[g[i].ord]
        BY <1>5, <3>2
      <3> QED
        BY <3>1, <3>3, <3>4
    <2>2. CASE i > n
      <3>1. i - n \in 1 .. m
        BY <1>3, <2>2
      <3>2. j[i] = h[i - n] /\ x[i] = k + 1
        BY <1>4, <1>6, <2>2, <3>1
      <3>3. h[i - n].ord = k + 1 /\ h[i - n].size = h[1].size
            /\ h[i - n].content = h[1].content
        <4>1. k + 1 \in Nat
          OBVIOUS
        <4> QED
          BY <1>1, <3>1, <4>1, OneFrame
      <3>4. Carries(h[i - n], p)
        BY <1>1, <3>3 DEF Carries
      <3> QED
        BY <1>5, <3>2, <3>3, <3>4
    <2> QED
      BY <1>3, <2>1, <2>2
  <1>8. Marked(j, x, t)
    BY <1>6, <1>7 DEF Marked
  <1>9. \/ Ahead(j, k + 1) = Ahead(g, k)
        \/ /\ Ahead(j, k + 1).kind = "begin" /\ Ahead(g, k).kind = "begin"
           /\ Ahead(j, k + 1).ord = Ahead(g, k).ord
    <2>1. CASE w # <<>>
      <3>1. Ahead(j, k + 1) = j[1] /\ Ahead(g, k) = g[1]
        BY <1>2, <2>1, AheadFacts DEF Ahead
      <3> QED
        BY <1>2, <2>1, <3>1
    <2>2. CASE w = <<>>
      <3>1. Ahead(j, k + 1) = h[1] /\ Ahead(g, k) = Idle(k)
        BY <1>2, <2>2, AheadFacts DEF Ahead
      <3> QED
        BY <1>1, <3>1, IdleFacts
    <2> QED
      BY <2>1, <2>2
  <1> QED
    BY <1>2, <1>8, <1>9 DEF x, more, t, v

(* Where nothing of the packet of l, nor of the one before it, was lost or
   damaged, the parser has all that came of it, and takes no mark for a byte. *)
Clean(ps, l, hurt) ==
    /\ l.kind = "begin" /\ l.ord - 1 \notin hurt => ps.stuff_flag = FALSE
    /\ l.ord >= 1 /\ l.ord \notin hurt /\ l.ord - 1 \notin hurt =>
          /\ InFrame(l) => Tracks(ps, l)
          /\ l.kind = "end" => ps.stuff_flag = FALSE

(* A mark takes the parser to the first byte of its frame. *)
LEMMA BeginTracks ==
    ASSUME NEW ps, GoodParser(ps), NEW c \in Byte, NEW a \in Label, NEW b, NextLabel(b),
           Means(a, c), Follows(a, b), a.kind = "begin", ps.stuff_flag = FALSE
    PROVE  Tracks(Parsed(ps, c), b) /\ ~Completes(ps, c)
  <1> DEFINE t == Parsed(ps, c)
  <1>1. c = Begin /\ b.kind \in {"stuff", "plain"} /\ b.pos = 1
    BY DEF Means, Follows
  <1>2. Len(t.data) = 0 /\ t.state = "ID" /\ t.stuff_flag = FALSE
    BY <1>1, ParsedCounts, MarkFacts
  <1>3. InFrame(b) /\ InPlace(t, b)
    BY <1>1, <1>2 DEF InFrame, InPlace
  <1>4. \A i \in 1 .. Len(t.data) : t.data[i] = b.content[i]
    BY <1>2
  <1>5. ~(b.pos >= 2) /\ b.pos # b.size + 4
    <2>1. b.size \in Nat
      BY NextTypes
    <2> QED
      BY <1>1, <2>1
  <1>6. IsMark(ps, c)
    BY <1>1 DEF IsMark
  <1> QED
    BY <1>3, <1>4, <1>5, <1>6 DEF Tracks, Completes

LEMMA ReadClean ==
    ASSUME NEW ps, GoodParser(ps), NEW c \in Byte, NEW a \in Label, NEW b, NextLabel(b),
           Means(a, c), Follows(a, b), NEW hurt, Clean(ps, a, hurt)
    PROVE  Clean(Parsed(ps, c), b, hurt)
  <1> DEFINE t == Parsed(ps, c)
  <1>1. /\ a.kind \in Kind /\ a.ord \in Nat /\ b.ord \in Nat
        /\ a.kind = "end" => b.kind = "begin" /\ b.ord = a.ord + 1
        /\ a.kind # "end" => b.kind # "begin" /\ b.ord = a.ord
    BY NextOrd, LabelTypes
  <1>2. CASE a.kind = "end"
    <2>1. c = End /\ c # Stuff
      BY <1>2, MarkFacts DEF Means
    <2>2. t.stuff_flag = FALSE
      BY <2>1, ParsedCounts
    <2>3. b.kind = "begin"
      BY <1>1, <1>2
    <2> HIDE DEF t
    <2>4. Clean(t, b, hurt)
      BY <2>2, <2>3 DEF Clean, InFrame
    <2> QED
      BY <2>4 DEF t
  <1>3. CASE a.kind = "begin"
    <2>1. b.kind \in {"stuff", "plain"} /\ b.ord = a.ord
      BY <1>1, <1>3 DEF Follows
    <2>2. ASSUME b.ord >= 1, b.ord \notin hurt, b.ord - 1 \notin hurt PROVE Tracks(t, b)
      <3>1. ps.stuff_flag = FALSE
        BY <1>3, <2>1, <2>2 DEF Clean
      <3> QED
        BY <1>3, <3>1, BeginTracks
    <2> HIDE DEF t
    <2>3. Clean(t, b, hurt)
      BY <2>1, <2>2 DEF Clean
    <2> QED
      BY <2>3 DEF t
  <1>4. CASE InFrame(a)
    <2>1. b.kind # "begin" /\ b.ord = a.ord
      BY <1>1, <1>4 DEF InFrame
    <2>2. ASSUME b.ord >= 1, b.ord \notin hurt, b.ord - 1 \notin hurt
          PROVE  (InFrame(b) => Tracks(t, b)) /\ (b.kind = "end" => t.stuff_flag = FALSE)
      <3>1. Tracks(ps, a)
        BY <1>4, <2>1, <2>2 DEF Clean
      <3>2. InFrame(b) => Tracks(t, b)
        BY <3>1, ReadTracks
      <3>3. InPlace(ps, a)
        BY <3>1 DEF Tracks
      <3>4. ~InFrame(b) => t.stuff_flag = FALSE
        BY <1>4, <3>3, ReadInPlace
      <3>5. b.kind = "end" => ~InFrame(b)
        BY DEF InFrame
      <3> QED
        BY <3>2, <3>4, <3>5
    <2> HIDE DEF t
    <2>3. Clean(t, b, hurt)
      BY <2>1, <2>2 DEF Clean
    <2> QED
      BY <2>3 DEF t
  <1> QED
    BY <1>1, <1>2, <1>3, <1>4 DEF Kind, InFrame

(* A fault excuses the parser for the packet of the byte and the next one. *)
LEMMA FaultClean ==
    ASSUME NEW t, NEW a \in Label, NEW b, Follows(a, b), NEW hurt
    PROVE  Clean(t, b, hurt \cup {a.ord})
  <1>1. /\ a.ord \in Nat /\ b.ord \in Nat
        /\ a.kind = "end" => b.kind = "begin" /\ b.ord = a.ord + 1
        /\ a.kind # "end" => b.kind # "begin" /\ b.ord = a.ord
    BY NextOrd
  <1>2. CASE a.kind = "end"
    <2>1. b.ord - 1 = a.ord
      BY <1>1, <1>2
    <2> QED
      BY <2>1 DEF Clean
  <1>3. CASE a.kind # "end"
    BY <1>1, <1>3 DEF Clean
  <1> QED
    BY <1>2, <1>3

LEMMA RestIs ==
    ASSUME NEW n \in Nat, NEW d \in Bytes, Len(d) = n + 2, NEW s \in Seq(Byte), Len(s) = n,
           \A i \in 1 .. n : d[i + 2] = s[i]
    PROVE  SubSeq(d, 3, Len(d)) = s
  <1>1. d \in Seq(Byte) /\ 3 \in Nat /\ Len(d) - 3 + 1 = n
    BY DEF Bytes
  <1> DEFINE r == SubSeq(d, 3, Len(d))
  <1>2. r \in Seq(Byte) /\ Len(r) = n /\ \A i \in 1 .. n : r[i] = d[3 + i - 1]
    BY <1>1
  <1> HIDE DEF r
  <1>3. \A i \in 1 .. n : 3 + i - 1 = i + 2
    OBVIOUS
  <1>4. \A i \in 1 .. n : r[i] = s[i]
    BY <1>2, <1>3
  <1>5. r = s
    BY <1>2, <1>4
  <1> QED
    BY <1>5 DEF r

(* The last byte of a packet that came through whole: it is handled as it was sent. *)
LEMMA TrackedHandles ==
    ASSUME NEW ps, GoodParser(ps), NEW c \in Byte, NEW a \in Label, NEW b, NextLabel(b),
           Means(a, c), Follows(a, b), Tracks(ps, a), ~InFrame(b),
           NEW p \in Packets, Carries(a, p)
    PROVE  Completes(ps, c) /\ Handled(Parsed(ps, c)) = <<p>>
  <1> DEFINE t == Parsed(ps, c)
             n == a.size
             s == a.content
             d == ps.data
  <1>1. n \in Nat /\ a.pos \in Nat /\ InFrame(a) /\ IsContent(s, n) /\ a.pos <= n + 4
    BY LabelTypes DEF Tracks, Means
  <1>2. a.kind \in {"literal", "plain"} /\ a.pos = n + 4
    <2>1. a.kind \in {"literal", "plain"} /\ a.pos >= n + 4
      BY <1>1, FrameEnds
    <2> QED
      BY <1>1, <2>1
  <1>3. Completes(ps, c) /\ t.msg_id \in GET_ADDR_LIST .. SUBSCRIBE
    BY <1>2, TrackedCompletes
  <1>4. ps.state = "CHECK_2" /\ Len(d) = n + 2 /\ d \in Bytes
    BY <1>1, <1>2 DEF Tracks, InPlace, GoodParser, Parser
  <1>5. t.data = d /\ t.msg_id = ps.msg_id
    <2>1. ~Escapes(ps, c) /\ ~IsMark(ps, c)
      BY <1>3 DEF Completes
    <2> QED
      BY <1>4, <2>1, TakenIs
  <1>6. ps.msg_id = s[1] /\ \A i \in 1 .. n + 2 : d[i] = s[i]
    BY <1>1, <1>2, <1>4 DEF Tracks
  <1>7. /\ Size(p) = n /\ s[1] = p.id /\ \A i \in 1 .. n : s[i + 2] = ToBytes(p)[i]
        /\ ToBytes(p) \in [1 .. n -> Byte] /\ FromBytes(p.id, ToBytes(p)) = p
    BY PacketFacts DEF Carries, Encodes
  <1>8. SubSeq(d, 3, Len(d)) = ToBytes(p)
    <2>1. ToBytes(p) \in Seq(Byte) /\ Len(ToBytes(p)) = n
      BY <1>1, <1>7, SeqFacts
    <2>2. \A i \in 1 .. n : d[i + 2] = ToBytes(p)[i]
      <3>1. \A i \in 1 .. n : i + 2 \in 1 .. n + 2
        BY <1>1
      <3> QED
        BY <1>6, <1>7, <3>1
    <2> QED
      BY <1>1, <1>4, <2>1, <2>2, RestIs
  <1> HIDE DEF t
  <1>9. FromBytes(t.msg_id, SubSeq(t.data, 3, Len(t.data))) = p
    BY <1>5, <1>6, <1>7, <1>8
  <1>10. Handled(t) = <<FromBytes(t.msg_id, SubSeq(t.data, 3, Len(t.data)))>>
    BY <1>3, Zenon DEF Handled
  <1> QED
    BY <1>3, <1>9, <1>10 DEF t

(* No packet is handled but one that the parser has all of. *)
LEMMA CompletesTracked ==
    ASSUME NEW ps, GoodParser(ps), NEW c \in Byte, NEW a \in Label, NEW b, NextLabel(b),
           Means(a, c), Follows(a, b), NEW hurt, Clean(ps, a, hurt), a.ord >= 1,
           a.ord \notin hurt, a.ord - 1 \notin hurt, Completes(ps, c)
    PROVE  InFrame(a) /\ Tracks(ps, a) /\ ~InFrame(b)
  <1>1. ps.state = "CHECK_2" /\ ~Escapes(ps, c) /\ ~IsMark(ps, c)
    BY DEF Completes
  <1>2. a.kind \in Kind /\ a.pos \in Nat /\ a.size \in Nat
    BY LabelTypes
  <1>3. a.kind # "begin"
    BY <1>1 DEF Clean, Means, IsMark
  <1>4. a.kind # "end"
    BY <1>1 DEF Clean, Means, IsMark
  <1>5. InFrame(a)
    BY <1>2, <1>3, <1>4 DEF Kind, InFrame
  <1>6. Tracks(ps, a)
    BY <1>5 DEF Clean
  <1>7. a.pos = a.size + 4 /\ ps.stuff_flag = (a.kind = "literal")
    BY <1>1, <1>6 DEF Tracks, InPlace
  <1>8. a.kind # "stuff"
    BY <1>1, <1>7 DEF Means, Escapes
  <1>9. ~InFrame(b)
    <2>1. a.kind \in {"literal", "plain"} /\ a.pos >= a.size + 4
      BY <1>2, <1>5, <1>7, <1>8 DEF InFrame
    <2>2. b.kind = "end"
      BY <2>1 DEF Follows
    <2> QED
      BY <2>2 DEF InFrame
  <1> QED
    BY <1>5, <1>6, <1>9

(* The packets of the first n that have passed before the byte of l, without a
   fault in them or in the packet before.                                   *)
Through(l, n, hurt) ==
    { k \in 1 .. n : /\ k \notin hurt /\ k - 1 \notin hurt
                     /\ k < l.ord \/ (k = l.ord /\ l.kind = "end") }

LEMMA ThroughRead ==
    ASSUME NEW a \in Label, NEW b, Follows(a, b), NEW n, NEW hurt,
           n \in Nat
    PROVE  /\ ~(InFrame(a) /\ b.kind = "end") => Through(b, n, hurt) \subseteq Through(a, n, hurt)
           /\ Through(b, n, hurt) \subseteq Through(a, n, hurt) \cup {a.ord}
           /\ \A k \in Through(a, n, hurt) : InFrame(a) => k < a.ord
           /\ Through(b, n, hurt \cup {a.ord}) \subseteq Through(a, n, hurt)
           /\ Through(a, n, hurt) \subseteq 1 .. n
  <1>1. /\ a.kind \in Kind /\ a.ord \in Nat /\ b.ord \in Nat
        /\ a.kind = "end" => b.kind = "begin" /\ b.ord = a.ord + 1
        /\ a.kind # "end" => b.kind # "begin" /\ b.ord = a.ord
        /\ a.kind = "begin" => b.kind # "end"
    <2>1. a.kind = "begin" => b.kind # "end"
      BY DEF Follows
    <2> QED
      BY <2>1, NextOrd, LabelTypes
  <1>2. \A k \in Int : k < a.ord + 1 <=> k < a.ord \/ k = a.ord
    BY <1>1
  <1>3. CASE a.kind = "end"
    BY <1>1, <1>2, <1>3 DEF Through, InFrame
  <1>4. CASE a.kind = "begin"
    BY <1>1, <1>4 DEF Through, InFrame
  <1>5. CASE InFrame(a)
    <2>1. a.kind # "end" /\ a.kind # "begin"
      BY <1>5 DEF InFrame
    <2> QED
      BY <1>1, <1>5, <2>1 DEF Through
  <1> QED
    BY <1>1, <1>3, <1>4, <1>5 DEF Kind, InFrame

(* The elements of s at the places D are among those of h, in that order. *)
Embeds(D, s, h) ==
    \E place \in [D -> DOMAIN h] :
        /\ \A k \in D : h[place[k]] = s[k]
        /\ \A j, k \in D : j < k => place[j] < place[k]

LEMMA EmbedsStill ==
    ASSUME NEW D, NEW E \in SUBSET D, NEW s, NEW t, \A k \in E : t[k] = s[k], NEW h, NEW r,
           DOMAIN h \subseteq DOMAIN r, \A i \in DOMAIN h : r[i] = h[i], Embeds(D, s, h)
    PROVE  Embeds(E, t, r)
  <1>1. PICK place \in [D -> DOMAIN h] :
            /\ \A k \in D : h[place[k]] = s[k]
            /\ \A j, k \in D : j < k => place[j] < place[k]
    BY DEF Embeds
  <1> DEFINE q == [k \in E |-> place[k]]
  <1>2. q \in [E -> DOMAIN r]
    BY <1>1
  <1>3. \A k \in E : q[k] = place[k] /\ place[k] \in DOMAIN h
    BY <1>1
  <1> HIDE DEF q
  <1>4. \A k \in E : r[q[k]] = t[k]
    BY <1>1, <1>3
  <1>5. \A j, k \in E : j < k => q[j] < q[k]
    BY <1>1, <1>3
  <1> QED
    BY <1>2, <1>4, <1>5 DEF Embeds

LEMMA EmbedsOneMore ==
    ASSUME NEW n \in Nat, NEW D \in SUBSET (1 .. n), NEW e \in 1 .. n, \A k \in D : k < e,
           NEW s, NEW S, NEW h \in Seq(S), s[e] \in S, Embeds(D, s, h)
    PROVE  Embeds(D \cup {e}, s, h \o <<s[e]>>)
  <1>1. PICK place \in [D -> DOMAIN h] :
            /\ \A k \in D : h[place[k]] = s[k]
            /\ \A j, k \in D : j < k => place[j] < place[k]
    BY DEF Embeds
  <1> DEFINE m == Len(h)
             r == h \o <<s[e]>>
             q == [k \in D \cup {e} |-> IF k \in D THEN place[k] ELSE m + 1]
  <1>2. /\ m \in Nat /\ DOMAIN h = 1 .. m /\ DOMAIN r = 1 .. m + 1 /\ r[m + 1] = s[e]
        /\ \A i \in 1 .. m : r[i] = h[i]
    OBVIOUS
  <1>3. \A k \in D : q[k] = place[k] /\ q[k] \in 1 .. m
    BY <1>1, <1>2
  <1>4. e \notin D /\ q[e] = m + 1
    OBVIOUS
  <1>5. q \in [D \cup {e} -> DOMAIN r]
    <2>1. 1 .. m \subseteq 1 .. m + 1 /\ m + 1 \in 1 .. m + 1
      BY <1>2
    <2> QED
      BY <1>1, <1>2, <2>1
  <1> HIDE DEF q, r, m
  <1>6. \A k \in D \cup {e} : r[q[k]] = s[k]
    BY <1>1, <1>2, <1>3, <1>4
  <1>7. ASSUME NEW j \in D \cup {e}, NEW k \in D \cup {e}, j < k PROVE q[j] < q[k]
    <2>1. CASE k = e
      <3>1. j \in D
        BY <1>7, <2>1
      <3> QED
        BY <1>2, <1>3, <1>4, <2>1, <3>1
    <2>2. CASE k # e
      <3>1. k \in D /\ k < e
        BY <2>2
      <3>2. j \in D
        BY <1>7, <3>1
      <3> QED
        BY <1>1, <1>3, <1>7, <3>1, <3>2
    <2> QED
      BY <2>1, <2>2
  <1> QED
    BY <1>5, <1>6, <1>7 DEF Embeds, r

(* The packets before the next byte's, and its own before its last mark. *)
Passed(l) == IF l.kind = "end" THEN l.ord ELSE l.ord - 1

(* Without any fault nothing else is handled. *)
ArriveInv ==
    /\ \E S : handled \in Seq(S)
    /\ \E g : LET a == Ahead(g, Len(sent))
              IN  /\ Labels(g, wire, Len(sent)) /\ Marked(g, owner, sent)
                  /\ Clean(parser, a, hit)
                  /\ Embeds(Through(a, Len(sent), hit), sent, handled)
                  /\ Faults = 0 =>
                        a.ord >= 1 /\ hit = {} /\ handled = SubSeq(sent, 1, Passed(a))

LEMMA EmptyFacts ==
    /\ Len(<<>>) = 0 /\ \A S : <<>> \in Seq(S)
    /\ SubSeq(<<>>, 1, 0) = <<>>
  OBVIOUS

LEMMA ArriveInit == Init => ArriveInv
  <1> SUFFICES ASSUME Init PROVE ArriveInv
    OBVIOUS
  <1>1. PICK g : Labels(g, wire, Len(sent))
    BY TypesInit DEF TypesInv
  <1>2. /\ Len(sent) = 0 /\ Len(sent) \in Nat /\ sent = <<>> /\ handled = <<>> /\ hit = {}
        /\ lost = 0 /\ damaged = 0 /\ parser.stuff_flag = FALSE
    BY NewParserGood, EmptyFacts DEF Init
  <1> DEFINE n == Len(wire)
             a == Ahead(g, Len(sent))
  <1>3. /\ g \in Seq(Label) /\ wire \in Seq(Byte) /\ Len(g) = n /\ n \in Nat
        /\ DOMAIN wire = 1 .. n
    BY <1>1 DEF Labels, Chain
  <1>4. \A i \in 1 .. n : g[i].ord = 0
    <2>1. \A i \in 1 .. n : g[i].ord \in Nat /\ g[i].ord <= 0
      BY <1>1, <1>2, OrdBounds
    <2> QED
      BY <2>1
  <1>5. owner \in Seq(Nat) /\ Len(owner) = n /\ \A i \in 1 .. n : owner[i] = 0
    <2>1. owner = [i \in 1 .. n |-> 0]
      BY <1>3 DEF Init
    <2>2. owner \in [1 .. n -> Nat]
      BY <2>1
    <2> QED
      BY <1>3, <2>1, <2>2, SeqFacts
  <1>6. Marked(g, owner, sent)
    BY <1>3, <1>4, <1>5 DEF Marked
  <1>7. wire # <<>> => a.ord = 0
    <2> SUFFICES ASSUME wire # <<>> PROVE a.ord = 0
      OBVIOUS
    <2>1. a = g[1]
      BY <1>1, AheadFirst
    <2>2. 1 \in 1 .. n
      BY <1>3
    <2> QED
      BY <1>4, <2>1, <2>2
  <1>8. wire = <<>> => a.kind = "begin" /\ a.ord = 1
    <2> SUFFICES ASSUME wire = <<>> PROVE a.kind = "begin" /\ a.ord = 1
      OBVIOUS
    <2>1. a = Idle(Len(sent))
      BY <1>1, AheadFacts
    <2>2. Idle(Len(sent)).kind = "begin" /\ Idle(Len(sent)).ord = Len(sent) + 1
      BY IdleFacts
    <2> HIDE DEF a
    <2> QED
      BY <1>2, <2>1, <2>2
  <1>9. Clean(parser, a, hit)
    BY <1>2, <1>7, <1>8 DEF Clean, InFrame
  <1>10. Embeds(Through(a, Len(sent), hit), sent, handled)
    <2>1. Through(a, Len(sent), hit) = {}
      BY <1>2 DEF Through
    <2>2. [k \in {} |-> 0] \in [{} -> DOMAIN handled]
      OBVIOUS
    <2> QED
      BY <2>1, <2>2 DEF Embeds
  <1>11. Faults = 0 => a.ord >= 1 /\ hit = {} /\ handled = SubSeq(sent, 1, Passed(a))
    <2> SUFFICES ASSUME Faults = 0
                 PROVE  a.ord >= 1 /\ hit = {} /\ handled = SubSeq(sent, 1, Passed(a))
      OBVIOUS
    <2>1. wire = <<>>
      BY <1>2 DEF Faults, Init
    <2>2. Passed(a) = 0
      BY <1>8, <2>1 DEF Passed
    <2> QED
      BY <1>2, <1>8, <2>1, <2>2, EmptyFacts
  <1>12. \E S : handled \in Seq(S)
    BY <1>2, EmptyFacts
  <1> QED
    BY <1>1, <1>6, <1>9, <1>10, <1>11, <1>12 DEF ArriveInv

LEMMA ConcatExtends ==
    ASSUME NEW S, NEW h \in Seq(S), NEW T, NEW t \in Seq(T)
    PROVE  /\ h \o t \in Seq(S \cup T)
           /\ DOMAIN h \subseteq DOMAIN (h \o t)
           /\ \A i \in DOMAIN h : (h \o t)[i] = h[i]
  <1>1. /\ h \in Seq(S \cup T) /\ t \in Seq(S \cup T) /\ Len(h) \in Nat /\ Len(t) \in Nat
        /\ DOMAIN h = 1 .. Len(h)
    OBVIOUS
  <1> DEFINE r == h \o t
  <1>2. /\ r \in Seq(S \cup T) /\ Len(r) = Len(h) + Len(t)
        /\ \A i \in 1 .. Len(h) : r[i] = h[i]
    BY <1>1, ConcatFacts
  <1> HIDE DEF r
  <1>3. DOMAIN r = 1 .. Len(r)
    BY <1>2
  <1> QED
    BY <1>1, <1>2, <1>3 DEF r

LEMMA ReceiveExtends ==
    ASSUME \E S : handled \in Seq(S), NEW c, Receive(c)
    PROVE  /\ \E S : handled' \in Seq(S)
           /\ DOMAIN handled \subseteq DOMAIN handled'
           /\ \A i \in DOMAIN handled : handled'[i] = handled[i]
  <1>1. PICK S : handled \in Seq(S)
    OBVIOUS
  <1>2. CASE Completes(parser, c)
    <2> DEFINE t == Handled(Parsed(parser, c))
    <2>1. handled' = handled \o t
      BY <1>2 DEF Receive
    <2>2. \E T : t \in Seq(T)
      <3> DEFINE ps == Parsed(parser, c)
                 x == FromBytes(ps.msg_id, SubSeq(ps.data, 3, Len(ps.data)))
      <3>1. t = <<x>> \/ t = <<>>
        BY DEF Handled
      <3> HIDE DEF x
      <3>2. <<x>> \in Seq({x}) /\ <<>> \in Seq({x})
        OBVIOUS
      <3> QED
        BY <3>1, <3>2
    <2> HIDE DEF t
    <2>3. PICK T : t \in Seq(T)
      BY <2>2
    <2>4. /\ handled \o t \in Seq(S \cup T)
          /\ DOMAIN handled \subseteq DOMAIN (handled \o t)
          /\ \A i \in DOMAIN handled : (handled \o t)[i] = handled[i]
      BY <1>1, <2>3, ConcatExtends
    <2> QED
      BY <2>1, <2>4
  <1>3. CASE ~Completes(parser, c)
    BY <1>1, <1>3 DEF Receive
  <1> QED
    BY <1>2, <1>3

(* One more packet passes. *)
LEMMA PrefixGrows ==
    ASSUME NEW S, NEW s \in Seq(S), NEW n \in 1 .. Len(s)
    PROVE  SubSeq(s, 1, n - 1) \o <<s[n]>> = SubSeq(s, 1, n)
  OBVIOUS

LEMMA PrefixStays ==
    ASSUME NEW S, NEW s \in Seq(S), NEW x \in S, NEW n \in 0 .. Len(s)
    PROVE  SubSeq(Append(s, x), 1, n) = SubSeq(s, 1, n)
  OBVIOUS

LEMMA ArriveSend ==
    ASSUME TypesInv, ArriveInv, NEW p \in Packets, Send(p)
    PROVE  ArriveInv'
  <1> DEFINE k == Len(sent)
  <1>1. /\ sent \in Seq(Packets) /\ k \in Nat /\ sent' = Append(sent, p) /\ Len(sent') = k + 1
        /\ wire' = wire \o Frame(p) /\ owner' = owner \o [i \in DOMAIN Frame(p) |-> k + 1]
        /\ parser' = parser /\ handled' = handled /\ hit' = hit /\ Faults' = Faults
        /\ \A i \in 1 .. k : sent'[i] = sent[i]
    BY DEF Send, Faults, TypesInv, Ranges
  <1>2. PICK g : LET a == Ahead(g, k)
                 IN  /\ Labels(g, wire, k) /\ Marked(g, owner, sent)
                     /\ Clean(parser, a, hit)
                     /\ Embeds(Through(a, k, hit), sent, handled)
                     /\ Faults = 0 =>
                           a.ord >= 1 /\ hit = {} /\ handled = SubSeq(sent, 1, Passed(a))
    BY DEF ArriveInv
  <1> DEFINE a == Ahead(g, k)
  <1>3. PICK j : /\ Labels(j, wire \o Frame(p), k + 1)
                 /\ Marked(j, owner \o [i \in DOMAIN Frame(p) |-> k + 1], Append(sent, p))
                 /\ \/ Ahead(j, k + 1) = a
                    \/ /\ Ahead(j, k + 1).kind = "begin" /\ a.kind = "begin"
                       /\ Ahead(j, k + 1).ord = a.ord
    BY <1>1, <1>2, SendMarked
  <1> DEFINE b == Ahead(j, k + 1)
  <1>4. a.ord \in Nat /\ a.ord <= k + 1 /\ (a.kind = "end" => a.ord <= k)
    <2>1. CASE wire = <<>>
      <3>1. a.kind = "begin" /\ a.ord = k + 1
        BY <1>2, <2>1, AheadFacts, IdleFacts
      <3> QED
        BY <1>1, <3>1
    <2>2. CASE wire # <<>>
      <3>1. Labels(g, wire, k)
        BY <1>2
      <3>2. a = g[1]
        BY <2>2, <3>1, AheadFirst
      <3>3. g[1] \in Label /\ g[1].ord <= k
        BY <1>1, <2>2, <3>1, OrdBound
      <3>4. g[1].ord \in Nat
        BY <3>3, LabelTypes
      <3>5. a.ord \in Nat /\ a.ord <= k
        BY <3>2, <3>3, <3>4
      <3> HIDE DEF a
      <3> QED
        BY <1>1, <3>5
    <2> QED
      BY <2>1, <2>2
  <1>5. b.kind = a.kind /\ b.ord = a.ord /\ (InFrame(b) => b = a) /\ (InFrame(a) => b = a)
    BY <1>3 DEF InFrame
  <1> HIDE DEF k, a, b
  <1>6. Clean(parser, b, hit)
    <2>1. Clean(parser, a, hit)
      BY <1>2 DEF a
    <2> QED
      BY <1>5, <2>1 DEF Clean
  <1>7. Through(b, k + 1, hit) \subseteq Through(a, k, hit)
    <2>1. ASSUME NEW i \in 1 .. k + 1, i < a.ord \/ (i = a.ord /\ a.kind = "end")
          PROVE  i \in 1 .. k
      BY <1>1, <1>4, <2>1
    <2> QED
      BY <1>5, <2>1 DEF Through
  <1>8. Embeds(Through(b, k + 1, hit), sent', handled)
    <2>1. Embeds(Through(a, k, hit), sent, handled)
      BY <1>2 DEF a
    <2>2. \A i \in Through(b, k + 1, hit) : sent'[i] = sent[i]
      BY <1>1, <1>7 DEF Through
    <2> QED
      BY <1>7, <2>1, <2>2, EmbedsStill
  <1>9. Faults = 0 => b.ord >= 1 /\ hit = {} /\ handled = SubSeq(sent', 1, Passed(b))
    <2> SUFFICES ASSUME Faults = 0
                 PROVE  b.ord >= 1 /\ hit = {} /\ handled = SubSeq(sent', 1, Passed(b))
      OBVIOUS
    <2>1. a.ord >= 1 /\ hit = {} /\ handled = SubSeq(sent, 1, Passed(a))
      BY <1>2 DEF a
    <2>2. Passed(b) = Passed(a) /\ Passed(a) \in 0 .. k
      BY <1>1, <1>4, <1>5, <2>1 DEF Passed
    <2>3. SubSeq(sent', 1, Passed(a)) = SubSeq(sent, 1, Passed(a))
      BY <1>1, <2>2, PrefixStays DEF k
    <2> QED
      BY <1>5, <2>1, <2>2, <2>3
  <1>10. \E S : handled' \in Seq(S)
    BY <1>1 DEF ArriveInv
  <1> QED
    BY <1>1, <1>3, <1>6, <1>8, <1>9, <1>10 DEF ArriveInv, b

(* The byte is lost, or another is read in its place. *)
LEMMA ArriveFault ==
    ASSUME TypesInv, ArriveInv, wire # <<>>, wire' = Tail(wire), owner' = Tail(owner),
           sent' = sent, hit' = hit \cup {Head(owner)}, Faults' # 0,
           \E S : handled' \in Seq(S), DOMAIN handled \subseteq DOMAIN handled',
           \A i \in DOMAIN handled : handled'[i] = handled[i]
    PROVE  ArriveInv'
  <1> DEFINE k == Len(sent)
  <1>1. PICK g : LET a == Ahead(g, k)
                 IN  /\ Labels(g, wire, k) /\ Marked(g, owner, sent)
                     /\ Embeds(Through(a, k, hit), sent, handled)
    BY DEF ArriveInv
  <1> DEFINE a == Ahead(g, k)
             b == Ahead(Tail(g), k)
  <1>2. /\ a \in Label /\ a = g[1] /\ Labels(Tail(g), Tail(wire), k) /\ Follows(a, b)
    BY <1>1, AheadFacts
  <1>3. Marked(Tail(g), Tail(owner), sent) /\ Head(owner) = a.ord
    BY <1>1, <1>2, TailMarked
  <1>4. k \in Nat
    BY DEF TypesInv, Ranges
  <1> HIDE DEF a, b, k
  <1>5. Clean(parser', b, hit')
    BY <1>2, <1>3, FaultClean
  <1>6. Through(b, k, hit') \subseteq Through(a, k, hit)
    BY <1>2, <1>3, <1>4, ThroughRead
  <1>7. Embeds(Through(a, k, hit), sent, handled)
    BY <1>1 DEF a
  <1>8. Embeds(Through(b, k, hit'), sent, handled')
    BY <1>6, <1>7, EmbedsStill
  <1> QED
    BY <1>2, <1>3, <1>5, <1>8 DEF ArriveInv, b, k

LEMMA ArriveRead ==
    ASSUME TypesInv, ArriveInv, ReadByte
    PROVE  ArriveInv'
  <1> DEFINE k == Len(sent)
             c == Head(wire)
  <1>1. /\ wire # <<>> /\ wire' = Tail(wire) /\ owner' = Tail(owner) /\ sent' = sent
        /\ parser' = Parsed(parser, c) /\ hit' = hit /\ Faults' = Faults
        /\ handled' = IF Completes(parser, c) THEN handled \o Handled(Parsed(parser, c))
                                              ELSE handled
    BY DEF ReadByte, Receive, Faults
  <1>2. PICK g : LET a == Ahead(g, k)
                 IN  /\ Labels(g, wire, k) /\ Marked(g, owner, sent)
                     /\ Clean(parser, a, hit)
                     /\ Embeds(Through(a, k, hit), sent, handled)
                     /\ Faults = 0 =>
                           a.ord >= 1 /\ hit = {} /\ handled = SubSeq(sent, 1, Passed(a))
    BY DEF ArriveInv
  <1> DEFINE a == Ahead(g, k)
             b == Ahead(Tail(g), k)
             D == Through(a, k, hit)
             E == Through(b, k, hit)
  <1>3. /\ a \in Label /\ a = g[1] /\ Labels(Tail(g), Tail(wire), k) /\ Follows(a, b)
        /\ Means(a, c) /\ NextLabel(b) /\ c \in Byte
    <2>1. Labels(g, wire, k) /\ wire # <<>>
      BY <1>1, <1>2
    <2> QED
      BY <2>1, AheadFacts
  <1>4. Marked(Tail(g), Tail(owner), sent)
    BY <1>1, <1>2, TailMarked
  <1>5. k \in Nat /\ GoodParser(parser) /\ sent \in Seq(Packets) /\ k = Len(sent)
    BY DEF TypesInv, Ranges
  <1>6. a.ord \in Nat /\ a.ord <= k /\ (a.ord >= 1 => Carries(a, sent[a.ord]))
    <2>1. g[1].ord <= k
      BY <1>1, <1>2, <1>5, OrdBound
    <2>2. wire \in Seq(Byte) /\ Len(g) = Len(wire)
      BY <1>2 DEF Labels, Chain
    <2>3. 1 \in 1 .. Len(g)
      BY <1>1, <2>2
    <2>4. a.ord \in Nat
      BY <1>3, LabelTypes
    <2> QED
      BY <1>2, <1>3, <2>1, <2>3, <2>4 DEF Marked
  <1>7. /\ \E S : handled' \in Seq(S)
        /\ DOMAIN handled \subseteq DOMAIN handled'
        /\ \A i \in DOMAIN handled : handled'[i] = handled[i]
    BY ReceiveExtends DEF ReadByte, ArriveInv
  <1>8. Clean(parser, a, hit) /\ Embeds(D, sent, handled)
    BY <1>2
  <1> HIDE DEF a, b, k, c
  <1>9. Clean(parser', b, hit')
    BY <1>1, <1>3, <1>5, <1>8, ReadClean
  <1>10. /\ a.kind \in Kind
         /\ a.kind = "end" => b.kind = "begin" /\ b.ord = a.ord + 1
         /\ a.kind # "end" => b.kind # "begin" /\ b.ord = a.ord
         /\ b.kind = "end" => InFrame(a)
    <2>1. b.kind = "end" => InFrame(a)
      BY <1>3, LabelTypes DEF Follows, Kind, InFrame
    <2> QED
      BY <1>3, <2>1, NextOrd, LabelTypes
  <1>11. ASSUME a.ord >= 1, a.ord \notin hit, a.ord - 1 \notin hit, b.kind = "end"
         PROVE  /\ a.ord \in 1 .. k /\ sent[a.ord] \in Packets
                /\ handled' = handled \o <<sent[a.ord]>>
    <2>1. a.ord \in 1 .. k /\ sent[a.ord] \in Packets
      BY <1>5, <1>6, <1>11
    <2>2. InFrame(a) /\ ~InFrame(b)
      BY <1>10, <1>11 DEF InFrame
    <2>3. Tracks(parser, a)
      BY <1>8, <1>11, <2>2 DEF Clean
    <2>4. Completes(parser, c) /\ Handled(Parsed(parser, c)) = <<sent[a.ord]>>
      BY <1>3, <1>5, <1>6, <1>11, <2>1, <2>2, <2>3, TrackedHandles
    <2> QED
      BY <1>1, <2>1, <2>4
  <1>12. ASSUME a.ord >= 1, a.ord \notin hit, a.ord - 1 \notin hit, b.kind # "end"
         PROVE  handled' = handled
    <2>1. ASSUME Completes(parser, c) PROVE FALSE
      <3>1. InFrame(a) /\ ~InFrame(b)
        BY <1>3, <1>5, <1>8, <1>12, <2>1, CompletesTracked
      <3>2. b.kind = "end"
        BY <1>3, <3>1, FrameEnds
      <3> QED
        BY <1>12, <3>2
    <2> QED
      BY <1>1, <2>1
  <1>13. Embeds(E, sent, handled')
    <2>1. CASE a.ord \in E /\ b.kind = "end"
      <3>1. a.ord >= 1 /\ a.ord \notin hit /\ a.ord - 1 \notin hit
        BY <2>1 DEF Through
      <3>2. /\ a.ord \in 1 .. k /\ sent[a.ord] \in Packets
            /\ handled' = handled \o <<sent[a.ord]>>
        BY <1>11, <2>1, <3>1
      <3>3. E \subseteq D \cup {a.ord} /\ D \in SUBSET (1 .. k) /\ \A i \in D : i < a.ord
        BY <1>3, <1>5, <1>10, <2>1, ThroughRead
      <3>4. PICK S : handled \in Seq(S)
        BY DEF ArriveInv
      <3>5. handled \in Seq(S \cup Packets) /\ sent[a.ord] \in S \cup Packets
        BY <3>2, <3>4
      <3> HIDE DEF D, E
      <3>6. Embeds(D \cup {a.ord}, sent, handled')
        BY <1>5, <1>8, <3>2, <3>3, <3>5, EmbedsOneMore
      <3> QED
        BY <3>3, <3>6, EmbedsStill
    <2>2. CASE ~(a.ord \in E /\ b.kind = "end")
      <3>1. E \subseteq D
        BY <1>3, <1>5, <2>2, ThroughRead
      <3> HIDE DEF D, E
      <3> QED
        BY <1>7, <1>8, <3>1, EmbedsStill
    <2> QED
      BY <2>1, <2>2
  <1>14. Faults = 0 => b.ord >= 1 /\ hit = {} /\ handled' = SubSeq(sent, 1, Passed(b))
    <2> SUFFICES ASSUME Faults = 0
                 PROVE  b.ord >= 1 /\ hit = {} /\ handled' = SubSeq(sent, 1, Passed(b))
      OBVIOUS
    <2>1. a.ord >= 1 /\ hit = {} /\ handled = SubSeq(sent, 1, Passed(a))
      BY <1>2 DEF a
    <2>2. b.ord >= 1
      BY <1>6, <1>10, <2>1
    <2>3. CASE b.kind = "end"
      <3>1. a.ord \in 1 .. k /\ handled' = handled \o <<sent[a.ord]>>
        BY <1>11, <2>1, <2>3
      <3>2. Passed(a) = a.ord - 1 /\ Passed(b) = a.ord
        BY <1>10, <2>3 DEF Passed, InFrame
      <3>3. SubSeq(sent, 1, a.ord - 1) \o <<sent[a.ord]>> = SubSeq(sent, 1, a.ord)
        BY <1>5, <3>1, PrefixGrows
      <3> QED
        BY <2>1, <2>2, <3>1, <3>2, <3>3
    <2>4. CASE b.kind # "end"
      <3>1. handled' = handled
        BY <1>12, <2>1, <2>4
      <3>2. Passed(b) = Passed(a)
        BY <1>6, <1>10, <2>4 DEF Passed
      <3> QED
        BY <2>1, <2>2, <3>1, <3>2
    <2> QED
      BY <2>3, <2>4
  <1> QED
    BY <1>1, <1>3, <1>4, <1>7, <1>9, <1>13, <1>14 DEF ArriveInv, b, k

LEMMA ArriveNext == TypesInv /\ ArriveInv /\ [Next]_vars => ArriveInv'
  <1> SUFFICES ASSUME TypesInv, ArriveInv, [Next]_vars PROVE ArriveInv'
    OBVIOUS
  <1>1. Faults \in Nat /\ late \in Nat /\ lost \in Nat /\ damaged \in Nat
    BY FaultTypes
  <1>2. ASSUME NEW p \in Packets, Send(p) PROVE ArriveInv'
    BY <1>2, ArriveSend
  <1>3. CASE ReadByte
    BY <1>3, ArriveRead
  <1>4. CASE LoseByte
    <2>1. /\ wire # <<>> /\ wire' = Tail(wire) /\ owner' = Tail(owner) /\ sent' = sent
          /\ hit' = hit \cup {Head(owner)} /\ handled' = handled
      BY <1>4 DEF LoseByte
    <2>2. Faults' # 0
      BY <1>1, <1>4 DEF LoseByte, Faults
    <2>3. \E S : handled' \in Seq(S)
      BY <2>1 DEF ArriveInv
    <2> QED
      BY <2>1, <2>2, <2>3, ArriveFault
  <1>5. ASSUME NEW c \in DamagedTo, DamageByte(c) PROVE ArriveInv'
    <2>1. /\ wire # <<>> /\ wire' = Tail(wire) /\ owner' = Tail(owner) /\ sent' = sent
          /\ hit' = hit \cup {Head(owner)} /\ Receive(c)
      BY <1>5 DEF DamageByte, Receive
    <2>2. Faults' # 0
      BY <1>1, <1>5 DEF DamageByte, Receive, Faults
    <2>3. /\ \E S : handled' \in Seq(S)
          /\ DOMAIN handled \subseteq DOMAIN handled'
          /\ \A i \in DOMAIN handled : handled'[i] = handled[i]
      BY <2>1, ReceiveExtends DEF ArriveInv
    <2> QED
      BY <2>1, <2>2, <2>3, ArriveFault
  <1>6. CASE UNCHANGED vars
    BY <1>6 DEF vars, ArriveInv, Faults
  <1> QED
    BY <1>2, <1>3, <1>4, <1>5, <1>6 DEF Next

LEMMA ArriveInvIntact == TypesInv /\ ArriveInv => IntactArrive
  <1> SUFFICES ASSUME TypesInv, ArriveInv PROVE IntactArrive
    OBVIOUS
  <1> DEFINE k == Len(sent)
  <1>1. PICK g : LET a == Ahead(g, k)
                 IN  /\ Labels(g, wire, k) /\ Marked(g, owner, sent)
                     /\ Embeds(Through(a, k, hit), sent, handled)
    BY DEF ArriveInv
  <1> DEFINE a == Ahead(g, k)
  <1>2. /\ k \in Nat /\ wire \in Seq(Byte) /\ owner \in Seq(Nat)
        /\ Len(owner) = Len(wire) /\ Len(g) = Len(wire)
        /\ \A i \in 1 .. Len(wire) : owner[i] = g[i].ord
    BY <1>1 DEF TypesInv, Ranges, Labels, Chain, Marked
  <1>3. ASSUME NEW j \in Intact PROVE j < a.ord
    <2>1. j \in 1 .. k /\ j \in Nat /\ j <= k /\ \A i \in 1 .. Len(wire) : g[i].ord # j
      BY <1>2 DEF Intact
    <2>2. CASE wire = <<>>
      <3>1. a.ord = k + 1
        BY <1>1, <2>2, AheadFacts, IdleFacts
      <3> QED
        BY <2>1, <3>1
    <2>3. CASE wire # <<>>
      <3>1. Labels(g, wire, k)
        BY <1>1
      <3>2. a = g[1]
        BY <2>3, <3>1, AheadFirst
      <3> QED
        BY <1>1, <1>2, <2>1, <2>3, <3>2, OrdReached
    <2> QED
      BY <2>2, <2>3
  <1> HIDE DEF a
  <1>4. Intact \subseteq Through(a, k, hit)
    BY <1>3 DEF Intact, Through
  <1>5. Embeds(Through(a, k, hit), sent, handled)
    BY <1>1 DEF a
  <1>6. Embeds(Intact, sent, handled)
    BY <1>4, <1>5, EmbedsStill
  <1> QED
    BY <1>6 DEF Embeds, IntactArrive

LEMMA PrefixFacts ==
    ASSUME NEW S, NEW s \in Seq(S), NEW n \in 0 .. Len(s)
    PROVE  /\ IsPrefix(SubSeq(s, 1, n), s)
           /\ SubSeq(s, 1, Len(s)) = s
  BY DEF IsPrefix

LEMMA ArriveInvPerfect == TypesInv /\ ArriveInv => PerfectLine
  <1> SUFFICES ASSUME TypesInv, ArriveInv, Faults = 0
               PROVE  IsPrefix(handled, sent) /\ (wire = <<>> => handled = sent)
    BY DEF PerfectLine, Faults
  <1> DEFINE k == Len(sent)
  <1>1. PICK g : /\ Labels(g, wire, k)
                 /\ Ahead(g, k).ord >= 1
                 /\ handled = SubSeq(sent, 1, Passed(Ahead(g, k)))
    BY DEF ArriveInv
  <1> DEFINE a == Ahead(g, k)
  <1>2. k \in Nat /\ sent \in Seq(Packets) /\ k = Len(sent)
    BY DEF TypesInv, Ranges
  <1>3. CASE wire = <<>>
    <2>1. a.kind = "begin" /\ a.ord = k + 1
      BY <1>1, <1>3, AheadFacts, IdleFacts
    <2>2. Passed(a) = k
      BY <1>2, <2>1 DEF Passed
    <2>3. handled = SubSeq(sent, 1, k) /\ k \in 0 .. k
      BY <1>1, <1>2, <2>2
    <2> QED
      BY <1>2, <2>3, PrefixFacts
  <1>4. CASE wire # <<>>
    <2>1. Labels(g, wire, k)
      BY <1>1
    <2>2. a = g[1]
      BY <1>4, <2>1, AheadFirst
    <2>3. g[1] \in Label /\ g[1].ord <= k
      BY <1>2, <1>4, <2>1, OrdBound
    <2>4. a.ord \in Nat /\ a.ord <= k
      BY <2>2, <2>3, LabelTypes
    <2> HIDE DEF a
    <2>5. Passed(a) \in 0 .. k
      BY <1>1, <1>2, <2>4 DEF Passed, a
    <2>6. handled = SubSeq(sent, 1, Passed(a))
      BY <1>1 DEF a
    <2> QED
      BY <1>2, <1>4, <2>5, <2>6, PrefixFacts
  <1> QED
    BY <1>3, <1>4

(* read() finds its way back after any damage: however the parser was misled
   before, a packet that comes through whole behind one that came through whole
   is passed to its handler as send() was given it, and in its turn.        *)
THEOREM IntactArrives == Spec => []IntactArrive
  <1>1. Spec => []TypesInv
    BY TypesInit, TypesNext, PTL DEF Spec
  <1> QED
    BY <1>1, ArriveInit, ArriveNext, ArriveInvIntact, PTL DEF Spec

(* Over a line without faults send() and read() are inverse to one another: the
   handlers are given what was sent, no more, no less and in that order,
   whatever bytes the packets hold.                                         *)
THEOREM PerfectLineIsExact == Spec => []PerfectLine
  <1>1. Spec => []TypesInv
    BY TypesInit, TypesNext, PTL DEF Spec
  <1> QED
    BY <1>1, ArriveInit, ArriveNext, ArriveInvPerfect, PTL DEF Spec
=============================================================================
