----------------------------- MODULE StreamsProofs -----------------------------
(***************************************************************************)
(* For every word size, every buffer and any fields: serialize_int and      *)
(* serialize_bits use the bit packer as it allows, the values that were     *)
(* written are read back, no integer gets the reader as far as a trap, and  *)
(* what is accepted is in range.                                            *)
(***************************************************************************)
EXTENDS Streams, BitPackerProofs, WellFoundedInduction

-----------------------------------------------------------------------------
(* Iteration: induction over the naturals, as far as it is needed here. *)

(* A set of naturals has a least element.                                    *)
LEMMA LeastNatural ==
  ASSUME NEW T, T \subseteq Nat, T # {}
  PROVE  \E x \in T : \A y \in T : x <= y
<1> DEFINE R == {ss \in Nat \X Nat : ss[1] < ss[2]}
<1>1. IsWellFoundedOn(R, Nat)
  BY NatLessThanWellFounded, Zenon DEF OpToRel
<1> HIDE DEF R
<1>2. \E x \in T : \A y \in T : <<y, x>> \notin R
  BY <1>1, WFMin, Zenon
<1>3. \A x, y \in Nat : <<y, x>> \notin R => x <= y
  BY DEF R
<1> QED
  BY <1>2, <1>3

(* What holds of 0 and is handed on holds up to n.                           *)
LEMMA UpTo ==
  ASSUME NEW n \in Nat, NEW S, 0 \in S,
         \A i \in 1 .. n : i - 1 \in S => i \in S
  PROVE  \A i \in 0 .. n : i \in S
<1> DEFINE T == {i \in 0 .. n : i \notin S}
<1> SUFFICES ASSUME T # {} PROVE FALSE
  OBVIOUS
<1>0. T \subseteq Nat
  OBVIOUS
<1>1. PICK i \in T : \A j \in T : i <= j
  BY <1>0, LeastNatural
<1>2. i \in 1 .. n /\ i \notin S
  BY <1>1
<1>3. i - 1 \in 0 .. n /\ ~(i <= i - 1)
  BY <1>2
<1>4. i - 1 \notin T
  <2> HIDE DEF T
  <2> QED
    BY <1>1, <1>3
<1>5. i - 1 \in S
  BY <1>3, <1>4
<1>6. i \in S
  BY <1>2, <1>5
<1> QED
  BY <1>2, <1>6

\* G[1], ..., G[n] are functions on S.
OnSet(G, n, S) == \A i \in 1 .. n : \A x \in S : G[i][x] \in S

\* f is the course of the loop that applies them to a, one after the other.
IsCourse(f, a, G, n, S) ==
  f \in [0 .. n -> S] /\ f[0] = a /\ \A i \in 1 .. n : f[i] = G[i][f[i - 1]]

(* Such a loop has a course.                                                 *)
LEMMA Course ==
  ASSUME NEW n \in Nat, NEW S, NEW a \in S, NEW G, OnSet(G, n, S)
  PROVE  \E f : IsCourse(f, a, G, n, S)
<1> DEFINE Reaches(f, k) == f[0] = a /\ \A i \in 1 .. k : f[i] = G[i][f[i - 1]]
           Fns == [0 .. n -> S]
           K == {k \in 0 .. n : \E f \in Fns : Reaches(f, k)}
<1>1. 0 \in K
  <2> DEFINE z == [i \in 0 .. n |-> a]
  <2>1. z \in Fns /\ z[0] = a
    OBVIOUS
  <2>2. 1 .. 0 = {} /\ 0 \in 0 .. n
    OBVIOUS
  <2> HIDE DEF z
  <2>3. Reaches(z, 0)
    BY <2>1, <2>2
  <2> QED
    BY <2>1, <2>2, <2>3
<1>2. ASSUME NEW k \in 1 .. n, k - 1 \in K PROVE k \in K
  <2>1. PICK f \in Fns : Reaches(f, k - 1)
    BY <1>2
  <2>2. f[k - 1] \in S /\ G[k][f[k - 1]] \in S
    BY DEF OnSet
  <2> DEFINE g == [f EXCEPT ![k] = G[k][f[k - 1]]]
  <2>3. g \in Fns
    BY <2>2
  <2>4. g[k] = G[k][f[k - 1]] /\ \A i \in 0 .. k - 1 : g[i] = f[i]
    OBVIOUS
  <2> HIDE DEF g
  <2>5. ASSUME NEW i \in 1 .. k PROVE g[i] = G[i][g[i - 1]]
    <3>1. CASE i = k
      BY <2>4, <3>1
    <3>2. CASE i # k
      <4>1. i \in 1 .. k - 1 /\ i \in 0 .. k - 1 /\ i - 1 \in 0 .. k - 1
        BY <3>2
      <4> QED
        BY <2>1, <2>4, <4>1
    <3> QED
      BY <3>1, <3>2
  <2>6. g[0] = a
    BY <2>1, <2>4
  <2> QED
    BY <2>3, <2>5, <2>6
<1>3. n \in K
  <2> HIDE DEF K
  <2>1. \A i \in 0 .. n : i \in K
    BY <1>1, <1>2, UpTo
  <2> QED
    BY <2>1
<1> QED
  BY <1>3 DEF IsCourse

-----------------------------------------------------------------------------
(* Powers of two. *)

(* Pow2 is what its definition says.                                         *)
LEMMA Powers ==
  /\ Pow2 \in [0 .. W -> Nat \ {0}]
  /\ Pow2[0] = 1
  /\ \A k \in 1 .. W : Pow2[k] = 2 * Pow2[k - 1]
<1> DEFINE S == Nat \ {0}
           double == [x \in S |-> 2 * x]
           G == [i \in 1 .. W |-> double]
           Doubles(f) == f = [k \in 0 .. W |-> IF k = 0 THEN 1 ELSE 2 * f[k - 1]]
<1>1. W \in Nat /\ W = WORD_SIZE_IN_BITS
  BY Sizes DEF W
<1>2. double \in [S -> S] /\ \A x \in S : double[x] = 2 * x
  OBVIOUS
<1> HIDE DEF double
<1>3. OnSet(G, W, S) /\ \A i \in 1 .. W : G[i] = double
  BY <1>2 DEF OnSet
<1> HIDE DEF G
<1>3a. 1 \in S
  OBVIOUS
<1> HIDE DEF S
<1>4a. PICK f : IsCourse(f, 1, G, W, S)
  BY <1>1, <1>3, <1>3a, Course
<1>4. f \in [0 .. W -> S] /\ f[0] = 1 /\ \A i \in 1 .. W : f[i] = G[i][f[i - 1]]
  BY <1>4a DEF IsCourse
<1>5. \A k \in 1 .. W : k - 1 \in 0 .. W /\ f[k] = 2 * f[k - 1]
  BY <1>1, <1>2, <1>3, <1>4
<1> USE DEF S
<1>6. Doubles(f)
  BY <1>4, <1>5
<1>7. Pow2 = CHOOSE g : Doubles(g)
  BY <1>1 DEF Pow2
<1>8. Doubles(Pow2)
  BY <1>6, <1>7
<1>9. /\ Pow2[0] = 1
      /\ \A k \in 1 .. W : Pow2[k] = 2 * Pow2[k - 1]
  BY <1>1, <1>8
<1> DEFINE T == {k \in Nat : Pow2[k] \in S}
<1>10. \A k \in 0 .. W : k \in T
  <2>1. 0 \in T
    BY <1>9
  <2>2. \A k \in 1 .. W : k - 1 \in T => k \in T
    BY <1>9
  <2> HIDE DEF T
  <2> QED
    BY <1>1, <2>1, <2>2, UpTo
<1>11. Pow2 = [k \in 0 .. W |-> Pow2[k]]
  BY <1>8
<1>12. Pow2 \in [0 .. W -> S]
  BY <1>10, <1>11
<1> QED
  BY <1>9, <1>12

(* They grow.                                                                *)
LEMMA PowersGrow ==
  ASSUME NEW k \in 0 .. W, NEW j \in 0 .. k
  PROVE  Pow2[j] <= Pow2[k]
<1> DEFINE T == {n \in Nat : \A i \in 0 .. n : Pow2[i] <= Pow2[n]}
<1>1. W \in Nat
  BY Sizes
<1>2. 0 \in T
  BY <1>1, Powers
<1>3. ASSUME NEW n \in 1 .. W, n - 1 \in T PROVE n \in T
  <2>1. Pow2[n] = 2 * Pow2[n - 1] /\ Pow2[n - 1] \in Nat /\ Pow2[n] \in Nat
    BY <1>1, Powers
  <2>2. \A i \in 0 .. n - 1 : Pow2[i] \in Nat /\ Pow2[i] <= Pow2[n - 1]
    BY <1>1, <1>3, Powers
  <2>3. \A i \in 0 .. n : i \in 0 .. n - 1 \/ i = n
    BY <1>1
  <2>4. \A i \in 0 .. n : Pow2[i] <= Pow2[n]
    BY <2>1, <2>2, <2>3
  <2> QED
    BY <1>1, <2>4
<1> HIDE DEF T
<1>4. k \in T
  BY <1>1, <1>2, <1>3, UpTo
<1> QED
  BY <1>4 DEF T

(* The number of int32_t values is even.                                     *)
LEMMA Halves ==
  \E h \in Nat \ {0} : /\ UINT32_MOD = 2 * h /\ UINT32_MOD \div 2 = h
                       /\ int32 = -h .. h - 1
<1>1. W \in Nat \ {0} /\ W = WORD_SIZE_IN_BITS
  BY Sizes DEF W
<1>2. PICK h \in Nat \ {0} : UINT32_MOD = 2 * h
  BY <1>1, Powers DEF UINT32_MOD
<1>3. UINT32_MOD \div 2 = h
  BY <1>2
<1> QED
  BY <1>2, <1>3 DEF int32

-----------------------------------------------------------------------------
(* Numbers and their bits. *)

(* Division with remainder.                                                  *)
LEMMA Quotient ==
  ASSUME NEW u \in Nat, NEW p \in Nat, p > 0
  PROVE  \E r \in Nat : u \div p \in Nat /\ r < p /\ u = p * (u \div p) + r
<1>1. u \div p \in Nat
  OBVIOUS
<1>2. u % p \in Nat /\ u % p < p
  OBVIOUS
<1>3. u = p * (u \div p) + (u % p)
  OBVIOUS
<1> QED
  BY <1>1, <1>2, <1>3

(* Dropping one more bit.                                                    *)
LEMMA DropBit ==
  ASSUME NEW u \in Nat, NEW p \in Nat \ {0}
  PROVE  /\ u \div p \in Nat /\ (u \div p) % 2 \in Bit
         /\ u \div p = 2 * (u \div (2 * p)) + ((u \div p) % 2)
<1> DEFINE a == u \div p
           b == a \div 2
           c == a % 2
           d == u \div (2 * p)
<1>0. p \in Nat /\ p > 0
  OBVIOUS
<1>1. PICK r \in Nat : a \in Nat /\ r < p /\ u = p * a + r
  BY <1>0, Quotient
<1>2. b \in Nat /\ c \in Bit /\ a = 2 * b + c
  BY <1>1 DEF Bit
<1> DEFINE m == 2 * p
<1>3. m \in Nat \ {0}
  OBVIOUS
<1>4. PICK e \in Nat : d \in Nat /\ e < m /\ u = m * d + e
  <2> HIDE DEF m
  <2>1. PICK e \in Nat : u \div m \in Nat /\ e < m /\ u = m * (u \div m) + e
    BY <1>3, Quotient
  <2> QED
    BY <2>1 DEF m
<1> HIDE DEF a, b, c, d
<1>5. u = m * b + (p * c + r) /\ p * c + r \in Nat /\ p * c + r < m
  <2>1. CASE c = 0
    BY <1>1, <1>2, <2>1
  <2>2. CASE c = 1
    BY <1>1, <1>2, <2>2
  <2> QED
    BY <1>2, <2>1, <2>2 DEF Bit
<1>6. PICK z \in Nat : z = p * c + r /\ u = m * b + z /\ z < m
  BY <1>5
<1> HIDE DEF m
<1>7. b = d
  <2>1. /\ m * b \in Nat /\ m * d \in Nat
        /\ b < d => m * b + m <= m * d
        /\ d < b => m * d + m <= m * b
    BY <1>2, <1>3, <1>4, Multiples
  <2>2. ~(b < d)
    BY <1>3, <1>4, <1>6, <2>1
  <2>3. ~(d < b)
    BY <1>3, <1>4, <1>6, <2>1
  <2> QED
    BY <1>2, <1>4, <2>2, <2>3
<1>8. a \in Nat /\ c \in Bit /\ a = 2 * d + c
  BY <1>1, <1>2, <1>7
<1> QED
  BY <1>8, Zenon DEF a, c, d

\* What Number goes through: the numbers of the highest bits.
Tops(top, bits) ==
  /\ top \in [0 .. Len(bits) -> Nat] /\ top[0] = 0
  /\ \A i \in 1 .. Len(bits) : top[i] = 2 * top[i - 1] + bits[Len(bits) + 1 - i]

LEMMA NumberTops ==
  ASSUME NEW bits \in Seq(Bit)
  PROVE  \E top : Tops(top, bits) /\ Number(bits) = top[Len(bits)]
<1> DEFINE n == Len(bits)
           step(i) == [x \in Nat |-> 2 * x + bits[n + 1 - i]]
           G == [i \in 1 .. n |-> step(i)]
           Loop(f) == f = [i \in 0 .. n |->
                             IF i = 0 THEN 0 ELSE 2 * f[i - 1] + bits[n + 1 - i]]
<1>1. n \in Nat /\ \A i \in 1 .. n : bits[i] \in Bit
  BY LenProperties
<1> HIDE DEF n
<1>2. ASSUME NEW i \in 1 .. n
      PROVE  /\ i - 1 \in 0 .. n /\ bits[n + 1 - i] \in Nat
             /\ \A x \in Nat : G[i][x] \in Nat /\ G[i][x] = 2 * x + bits[n + 1 - i]
  <2>1. n + 1 - i \in 1 .. n /\ i - 1 \in 0 .. n
    BY <1>1
  <2>2. bits[n + 1 - i] \in Nat
    BY <1>1, <2>1 DEF Bit
  <2>3. G[i] = step(i)
    OBVIOUS
  <2>4. \A x \in Nat : step(i)[x] = 2 * x + bits[n + 1 - i]
    OBVIOUS
  <2> QED
    BY <2>1, <2>2, <2>3, <2>4
<1> HIDE DEF G
<1>3. OnSet(G, n, Nat)
  BY <1>2 DEF OnSet
<1>4. PICK f : IsCourse(f, 0, G, n, Nat)
  BY <1>1, <1>3, Course
<1>5. /\ f \in [0 .. n -> Nat] /\ f[0] = 0
      /\ \A i \in 1 .. n : f[i] = 2 * f[i - 1] + bits[n + 1 - i]
  BY <1>2, <1>4 DEF IsCourse
<1>6. Loop(f)
  BY <1>1, <1>5
<1> DEFINE top == CHOOSE g : Loop(g)
<1>7. Loop(top)
  BY <1>6
<1>8. Number(bits) = top[n]
  BY DEF Number, n
<1> HIDE DEF top
<1>9. /\ top[0] = 0
      /\ \A i \in 1 .. n : top[i] = 2 * top[i - 1] + bits[n + 1 - i]
  BY <1>1, <1>7
<1> DEFINE T == {i \in Nat : top[i] \in Nat}
<1>10. \A i \in 0 .. n : i \in T
  <2>1. 0 \in T
    BY <1>9
  <2>2. ASSUME NEW i \in 1 .. n, i - 1 \in T PROVE i \in T
    <3>1. top[i - 1] \in Nat /\ bits[n + 1 - i] \in Nat /\ i \in Nat
      BY <1>1, <1>2, <2>2
    <3>2. top[i] = 2 * top[i - 1] + bits[n + 1 - i]
      BY <1>9
    <3> QED
      BY <3>1, <3>2
  <2> HIDE DEF T
  <2> QED
    BY <1>1, <2>1, <2>2, UpTo
<1>11. top \in [0 .. n -> Nat]
  BY <1>7, <1>10
<1> QED
  BY <1>8, <1>9, <1>11 DEF Tops, n

(* The number of k bits is less than the k-th power of two.                  *)
LEMMA NumberBelow ==
  ASSUME NEW bits \in Seq(Bit), Len(bits) <= W
  PROVE  Number(bits) \in 0 .. Pow2[Len(bits)] - 1
<1>1. PICK top : Tops(top, bits) /\ Number(bits) = top[Len(bits)]
  BY NumberTops
<1>2. PICK n \in Nat : n = Len(bits) /\ n <= W /\ \A i \in 1 .. n : bits[i] \in Bit
  BY LenProperties
<1>3. /\ top \in [0 .. n -> Nat] /\ top[0] = 0
      /\ \A i \in 1 .. n : top[i] = 2 * top[i - 1] + bits[n + 1 - i]
  BY <1>1, <1>2 DEF Tops
<1> DEFINE T == {i \in Nat : top[i] < Pow2[i]}
<1>4. 0 \in T
  BY <1>3, Powers
<1>5. ASSUME NEW i \in 1 .. n, i - 1 \in T PROVE i \in T
  <2>1. n + 1 - i \in 1 .. n /\ i - 1 \in 0 .. n /\ i \in 1 .. W /\ i - 1 \in 0 .. W
    BY <1>2, Sizes
  <2>2a. bits[n + 1 - i] \in {0, 1}
    BY <1>2, <2>1 DEF Bit
  <2>2b. top[i - 1] \in Nat /\ top[i] \in Nat
    BY <1>3, <2>1
  <2>2. bits[n + 1 - i] \in {0, 1} /\ top[i - 1] \in Nat /\ top[i] \in Nat
    BY <2>2a, <2>2b
  <2>3. Pow2[i] = 2 * Pow2[i - 1] /\ Pow2[i - 1] \in Nat
    BY <2>1, Powers
  <2>4. top[i] = 2 * top[i - 1] + bits[n + 1 - i] /\ top[i - 1] < Pow2[i - 1]
    BY <1>3, <1>5
  <2>5. top[i] < Pow2[i]
    BY <2>2, <2>3, <2>4
  <2> QED
    BY <2>5
<1> HIDE DEF T
<1>6. \A i \in 0 .. n : i \in T
  BY <1>2, <1>4, <1>5, UpTo
<1>7. top[n] < Pow2[n]
  BY <1>2, <1>6 DEF T
<1>8. n \in 0 .. n /\ n \in 0 .. W
  BY <1>2, Sizes
<1>9. top[n] \in Nat /\ Pow2[n] \in Nat
  BY <1>3, <1>8, Powers
<1> QED
  BY <1>1, <1>2, <1>7, <1>9

(* The bits of a number are those of its word, and no word holds more than   *)
(* the number's bits.                                                        *)
LEMMA WordOf ==
  ASSUME NEW n \in 1 .. W, NEW u \in 0 .. Pow2[n] - 1
  PROVE  /\ ToWord(u) \in Data(n)
         /\ \A bits \in Seq(Bit) :
              /\ Len(bits) = n
              /\ \A i \in 1 .. n : bits[i] = ToWord(u)[i - 1]
              => Number(bits) = u
<1>0. /\ W \in Nat \ {0} /\ W = WORD_SIZE_IN_BITS /\ n \in Nat /\ n \in 0 .. W
      /\ Pow2[n] \in Nat /\ u \in Nat /\ u < Pow2[n]
      /\ \A j \in 0 .. W : Pow2[j] \in Nat \ {0}
  <2>1. W \in Nat \ {0} /\ W = WORD_SIZE_IN_BITS
    BY Sizes DEF W
  <2>2. \A j \in 0 .. W : Pow2[j] \in Nat \ {0}
    BY Powers
  <2>3. n \in 0 .. W /\ Pow2[n] \in Nat
    BY <2>1, <2>2
  <2> QED
    BY <2>1, <2>2, <2>3
<1>1. \A j \in 0 .. W : j >= n => u \div Pow2[j] = 0
  <2> SUFFICES ASSUME NEW j \in 0 .. W, j >= n PROVE u \div Pow2[j] = 0
    OBVIOUS
  <2>1. Pow2[n] <= Pow2[j]
    BY <1>0, PowersGrow
  <2>2. PICK p \in Nat : p = Pow2[j] /\ u < p
    BY <1>0, <2>1
  <2>3. u \div p = 0
    BY <1>0, <2>2
  <2> QED
    BY <2>2, <2>3
<1>2. \A j \in 0 .. W : /\ u \div Pow2[j] \in Nat
                        /\ (u \div Pow2[j]) % 2 \in Bit
                        /\ u \div Pow2[j] = 2 * (u \div (2 * Pow2[j]))
                                            + ((u \div Pow2[j]) % 2)
  BY <1>0, DropBit
<1>3. \A j \in Offset : j \in 0 .. W /\ ToWord(u)[j] = (u \div Pow2[j]) % 2
  BY <1>0 DEF Offset, ToWord
<1>4. ToWord(u) \in Data(n)
  <2>1. ToWord(u) \in Word
    BY <1>2, <1>3 DEF Word, ToWord
  <2>2. ASSUME NEW j \in Offset, j >= n PROVE ToWord(u)[j] = 0
    <3>1. ToWord(u)[j] = (u \div Pow2[j]) % 2 /\ u \div Pow2[j] = 0
      BY <1>1, <1>3, <2>2
    <3>2. 0 % 2 = 0
      OBVIOUS
    <3> QED
      BY <3>1, <3>2
  <2> QED
    BY <2>1, <2>2 DEF Data
<1>5. ASSUME NEW bits \in Seq(Bit), Len(bits) = n,
             \A i \in 1 .. n : bits[i] = ToWord(u)[i - 1]
      PROVE  Number(bits) = u
  <2>1. PICK top : Tops(top, bits) /\ Number(bits) = top[n]
    BY <1>5, NumberTops
  <2>2. /\ top \in [0 .. n -> Nat] /\ top[0] = 0
        /\ \A i \in 1 .. n : top[i] = 2 * top[i - 1] + bits[n + 1 - i]
    BY <1>5, <2>1 DEF Tops
  <2> DEFINE T == {i \in Nat : top[i] = u \div Pow2[n - i]}
  <2>3. 0 \in T
    <3>1. n - 0 = n /\ u \div Pow2[n] = 0
      BY <1>0, <1>1
    <3> QED
      BY <2>2, <3>1
  <2>4. ASSUME NEW i \in 1 .. n, i - 1 \in T PROVE i \in T
    <3>1. PICK j \in 0 .. W : j = n - i
      BY <1>0
    <3>2. /\ j + 1 \in 1 .. W /\ j \in Offset /\ n - (i - 1) = j + 1 /\ (j + 1) - 1 = j
          /\ n + 1 - i \in 1 .. n /\ (n + 1 - i) - 1 = j
      BY <1>0, <3>1 DEF Offset
    <3>3. Pow2[j + 1] = 2 * Pow2[j]
      BY <3>2, Powers
    <3>4. top[i - 1] = u \div Pow2[j + 1]
      BY <2>4, <3>2
    <3>5. bits[n + 1 - i] = (u \div Pow2[j]) % 2
      BY <1>3, <1>5, <3>2
    <3>6. top[i] = 2 * (u \div (2 * Pow2[j])) + ((u \div Pow2[j]) % 2)
      BY <2>2, <3>3, <3>4, <3>5
    <3>7. top[i] = u \div Pow2[j]
      BY <1>2, <3>6
    <3> QED
      BY <3>1, <3>7
  <2> HIDE DEF T
  <2>5a. \A i \in 0 .. n : i \in T
    BY <1>0, <2>3, <2>4, UpTo
  <2>5. n \in T
    BY <1>0, <2>5a
  <2>6. top[n] = u \div Pow2[0]
    <3>1. n - n = 0
      BY <1>0
    <3> QED
      BY <2>5, <3>1 DEF T
  <2>7. u \div 1 = u
    BY <1>0
  <2> QED
    BY <2>1, <2>6, <2>7, Powers
<1> QED
  BY <1>4, <1>5

-----------------------------------------------------------------------------
(* Integers and their ranges. *)

(* Conversion to unsigned, within one turn.                                  *)
LEMMA Converted ==
  ASSUME NEW x \in Int
  PROVE  /\ ToUnsigned(x) \in 0 .. UINT32_MOD - 1
         /\ 0 <= x /\ x < UINT32_MOD => ToUnsigned(x) = x
         /\ -UINT32_MOD <= x /\ x < 0 => ToUnsigned(x) = x + UINT32_MOD
<1>1. PICK m \in Nat : m = UINT32_MOD /\ m > 0
  BY Halves
<1>2. x % m \in 0 .. m - 1
  BY <1>1
<1>3. 0 <= x /\ x < m => x % m = x
  BY <1>1
<1>4. -m <= x /\ x < 0 => x % m = x + m
  BY <1>1
<1> QED
  BY <1>1, <1>2, <1>3, <1>4 DEF ToUnsigned

(* The position of the highest bit of a uint32_t.                            *)
LEMMA Log2Position ==
  ASSUME NEW x \in 1 .. UINT32_MOD - 1
  PROVE  Log2(x) \in Offset /\ Pow2[Log2(x)] <= x /\ x < Pow2[Log2(x) + 1]
<1>1. /\ W \in Nat \ {0} /\ W = WORD_SIZE_IN_BITS /\ UINT32_MOD = Pow2[W] /\ x \in Nat
      /\ \A k \in 0 .. W : Pow2[k] \in Nat
  <2>1. W \in Nat \ {0} /\ W = WORD_SIZE_IN_BITS
    BY Sizes DEF W
  <2>2. UINT32_MOD = Pow2[W]
    BY <2>1 DEF UINT32_MOD
  <2> QED
    BY <2>1, <2>2, Powers
<1> DEFINE T == {k \in 0 .. W : x < Pow2[k]}
<1>2. W \in T /\ T \subseteq Nat
  BY <1>1
<1>3. PICK k \in T : \A j \in T : k <= j
  BY <1>2, LeastNatural
<1>4. k # 0
  BY <1>1, <1>3, Powers
<1>5. k - 1 \in Offset /\ k - 1 \in 0 .. W /\ (k - 1) + 1 = k
  BY <1>1, <1>3, <1>4 DEF Offset
<1>6. k - 1 \notin T
  <2> HIDE DEF T
  <2>1. ~(k <= k - 1)
    BY <1>5
  <2> QED
    BY <1>3, <2>1
<1>7. Pow2[k - 1] <= x /\ x < Pow2[(k - 1) + 1]
  BY <1>1, <1>3, <1>5, <1>6
<1> QED
  BY <1>5, <1>7 DEF Log2

(* A range of integers gets enough bits, and no more than a word.            *)
LEMMA RangeBits ==
  ASSUME NEW min \in int32, NEW max \in int32, min < max
  PROVE  /\ bitsRequired(min, max) \in 1 .. W
         /\ max - min < Pow2[bitsRequired(min, max)]
<1>1. PICK h \in Nat : UINT32_MOD = 2 * h /\ int32 = -h .. h - 1
  BY Halves
<1>2. max - min \in 1 .. UINT32_MOD - 1 /\ min # max
  BY <1>1
<1>3. ToUnsigned(max - min) = max - min
  BY <1>1, <1>2, Converted
<1>4. PICK k : /\ k = Log2(max - min) /\ k \in Offset
               /\ max - min < Pow2[k + 1]
  BY <1>2, Log2Position
<1>5. bitsRequired(min, max) = k + 1
  BY <1>2, <1>3, <1>4 DEF bitsRequired
<1>6. k + 1 \in 1 .. W
  BY <1>4, Sizes DEF Offset, W
<1> QED
  BY <1>4, <1>5, <1>6

(* The shift of a value into its range, and back.                            *)
LEMMA ShiftAndBack ==
  ASSUME NEW min \in int32, NEW max \in int32, NEW value \in min .. max
  PROVE  /\ ToUnsigned(value - min) = value - min
         /\ ToSigned(ToUnsigned(ToSigned(value - min) + min)) = value
<1>1. PICK h \in Nat : /\ UINT32_MOD = 2 * h /\ UINT32_MOD \div 2 = h
                       /\ int32 = -h .. h - 1
  BY Halves
<1>2. PICK u \in Nat : u = value - min /\ u < 2 * h
  BY <1>1
<1>3. ToUnsigned(u) = u
  BY <1>1, <1>2, Converted
<1>4. ToSigned(u) = IF u < h THEN u ELSE u - 2 * h
  BY <1>1 DEF ToSigned
<1>5. PICK x \in Int : x = ToSigned(u) + min /\ (x = value \/ (x = value - 2 * h /\ value >= 0))
  BY <1>1, <1>2, <1>4
<1>6. value \in Int /\ -h <= value /\ value < h
  BY <1>1
<1>7. ToUnsigned(x) = IF value < 0 THEN value + 2 * h ELSE value
  BY <1>1, <1>5, <1>6, Converted
<1>8. ToSigned(ToUnsigned(x)) = value
  BY <1>1, <1>6, <1>7 DEF ToSigned
<1> QED
  BY <1>2, <1>3, <1>5, <1>8

(* What the streams hand to the packer for a field, and back.                *)
LEMMA FieldFits ==
  ASSUME NEW f \in Field
  PROVE  /\ f.kind \in {"int", "bits"} /\ Bits(f) \in 1 .. W
         /\ \A value \in Value(f) : InRange(f, value) =>
              /\ Shifted(f, value) \in 0 .. Pow2[Bits(f)] - 1
              /\ ShiftedBack(f, Shifted(f, value)) = value
<1>1. CASE f \in IntField
  <2>1. /\ f.kind = "int" /\ f.min \in int32 /\ f.max \in int32 /\ f.min < f.max
    BY <1>1 DEF IntField
  <2>2. PICK min \in int32, max \in int32 : min = f.min /\ max = f.max /\ min < max
    BY <2>1
  <2>3. PICK b \in 1 .. W : b = Bits(f) /\ max - min < Pow2[b]
    BY <2>1, <2>2, RangeBits DEF Bits
  <2>4. int32 \subseteq Int
    BY Halves
  <2>5. ASSUME NEW value \in Value(f), InRange(f, value)
        PROVE  /\ Shifted(f, value) \in 0 .. Pow2[b] - 1
               /\ ShiftedBack(f, Shifted(f, value)) = value
    <3>1. value \in Int /\ min \in Int /\ max \in Int /\ value \in min .. max
      BY <2>1, <2>2, <2>4, <2>5 DEF Value, InRange
    <3>2. Shifted(f, value) = value - min
      BY <2>1, <2>2, <3>1, ShiftAndBack DEF Shifted
    <3>3. ShiftedBack(f, value - min) = value
      BY <2>1, <2>2, <3>1, ShiftAndBack DEF ShiftedBack
    <3>4. Pow2[b] \in Nat
      BY Sizes, Powers
    <3> QED
      BY <2>3, <3>1, <3>2, <3>3, <3>4
  <2> QED
    BY <2>1, <2>3, <2>5
<1>2. CASE f \in BitsField
  <2>1. f.kind = "bits" /\ f.kind # "int" /\ f.bits \in 1 .. W
    BY <1>2 DEF BitsField, Width, W
  <2> QED
    BY <2>1 DEF Bits, Value, Shifted, ShiftedBack
<1> QED
  BY <1>1, <1>2, StreamAssumption

-----------------------------------------------------------------------------
(* The streams and the packer. *)

(* What is handed to WriteBits fits its width.                               *)
LEMMA WritesFit ==
  ASSUME NEW f \in Field, NEW value \in Value(f), InRange(f, value)
  PROVE  /\ Bits(f) \in Width /\ Shifted(f, value) \in 0 .. Pow2[Bits(f)] - 1
         /\ ToWord(Shifted(f, value)) \in Data(Bits(f))
<1>1. PICK b \in 1 .. W : b = Bits(f)
  BY FieldFits
<1>2. PICK u \in 0 .. Pow2[b] - 1 : u = Shifted(f, value)
  BY <1>1, FieldFits
<1> QED
  BY <1>1, <1>2, WordOf DEF Width, W

(* Every step of the streams is a step of the packer or leaves it alone.     *)
LEMMA StepsOfThePacker == [StreamNext]_streamVars => [Next]_vars
<1> SUFFICES ASSUME [StreamNext]_streamVars PROVE [Next]_vars
  OBVIOUS
<1>1. ASSUME NEW f \in Field, NEW value \in Value(f), WriteField(f, value)
      PROVE  [Next]_vars
  <2>1. CASE InRange(f, value) /\ WriteBits(ToWord(Shifted(f, value)), Bits(f))
    BY <2>1, WritesFit DEF Next
  <2>2. CASE UNCHANGED vars
    BY <2>2
  <2> QED
    BY <1>1, <2>1, <2>2 DEF WriteField
<1>2. CASE Flush
  BY <1>2 DEF Flush, Next
<1>3. ASSUME NEW f \in Field, ReadField(f) PROVE [Next]_vars
  <2>1. Bits(f) \in Width
    BY FieldFits DEF Width, W
  <2> QED
    BY <1>3, <2>1 DEF ReadField, Next
<1>4. CASE UNCHANGED streamVars
  BY <1>4 DEF streamVars
<1> QED
  BY <1>1, <1>2, <1>3, <1>4 DEF StreamNext

(* The streams keep to what the packer relies on: what was proved of it      *)
(* holds of them, whatever the fields and the values.                        *)
THEOREM StreamsImplementPacker == StreamSpec => ImplementsPacker
<1>1. StreamInit => Init
  BY DEF StreamInit
<1> QED
  BY <1>1, StepsOfThePacker, PTL DEF StreamSpec, ImplementsPacker, Spec

(* The packer's invariant, its own actions being those of the streams.       *)
LEMMA PackerInvariance == StreamSpec => []IInv
  BY StreamsImplementPacker, Invariance, PTL DEF ImplementsPacker

(* Reading what fits the buffer does not trap.                               *)
LEMMA FittingIsRead ==
  ASSUME IInv, NEW bits \in Width, reader.m_numBitsRead + bits <= m_totalBits
  PROVE  CanRead(bits)
<1>1. PICK base \in Nat, n \in Nat, c \in Nat :
        /\ base = reader.m_numBitsRead /\ n = reader.m_scratchBits
        /\ c = reader.m_wordIndex /\ base + n = W * c
        /\ reader.m_numBytesRead = WORD_SIZE_IN_BYTES * c
  BY DEF IInv, TypeOK, ReaderType, ReaderCounts, Offset
<1>2. bits \in Nat /\ bits > 0 /\ m_totalBits \in Nat /\ base + bits <= m_totalBits
  BY <1>1, Sizes DEF Width
<1>3. base < m_totalBits
  BY <1>1, <1>2
<1>4. ASSUME bits > n PROVE WORD_SIZE_IN_BYTES * c < m_bufferLen
  <2>1. W * c < m_totalBits
    BY <1>1, <1>2, <1>4
  <2>2. /\ WORD_SIZE_IN_BYTES * c < m_bufferLen <=> c < BufferWords
        /\ c >= BufferWords => W * c >= m_totalBits
        /\ W * c \in Nat /\ BufferWords \in Nat
    BY <1>1, IndexBelowEnd, Sizes
  <2> QED
    BY <1>1, <1>2, <2>1, <2>2
<1> QED
  BY <1>1, <1>3, <1>4 DEF CanRead, MustLoad

(* What a read returns: the next bits of those written.                      *)
LEMMA ReadReturns ==
  ASSUME IInv, NEW bits \in Width, ReadBits(bits), CanRead(bits)
  PROVE  /\ output' \in Seq(Bit) /\ Len(output') = bits
         /\ reader.m_numBitsRead \in Nat
         /\ reader'.m_numBitsRead = reader.m_numBitsRead + bits
         /\ \A i \in 1 .. bits : reader.m_numBitsRead + i <= Len(written)
                                   => output'[i] = written[reader.m_numBitsRead + i]
         /\ UNCHANGED trapped
<1>1. /\ output' = Low(Ready(bits).m_scratch, bits)
      /\ reader' = Taken(Ready(bits), bits) /\ UNCHANGED trapped /\ ~trapped /\ flushed
  BY DEF ReadBits
<1>2. PICK r : r = Ready(bits)
  OBVIOUS
<1>3. /\ r.m_scratch \in Wide /\ r.m_scratchBits \in 0 .. 2 * W
      /\ bits <= r.m_scratchBits /\ r.m_numBitsRead = reader.m_numBitsRead
      /\ HoldsNext(r.m_scratch, r.m_scratchBits, written, r.m_numBitsRead)
  BY <1>1, <1>2, ReadyHolds
<1>4. PICK base \in Nat, x \in Wide, m \in 0 .. 2 * W :
        /\ base = reader.m_numBitsRead /\ base = r.m_numBitsRead
        /\ x = r.m_scratch /\ m = r.m_scratchBits
  BY <1>3 DEF IInv, TypeOK, ReaderType
<1>5. written \in Seq(Bit) /\ bits \in Nat /\ bits \in 0 .. m /\ bits <= W
  BY <1>3, <1>4, Sizes DEF IInv, TypeOK, Width, W
<1>6. HoldsNext(x, m, written, base)
  BY <1>3, <1>4
<1>7. /\ Low(x, bits) \in Seq(Bit) /\ Low(x, bits) \in [1 .. bits -> Bit]
      /\ \A i \in 1 .. bits : base + i <= Len(written)
                             => Low(x, bits)[i] = written[base + i]
  BY <1>5, <1>6, TakenHolds
<1>8. Len(Low(x, bits)) = bits
  <2>1. \A i \in 1 .. bits : x[i - 1] \in Bit
    BY <1>5, Sizes DEF Wide, WideOffset, W
  <2> QED
    BY <1>5, <2>1, LowIsSeq
<1>9. output' = Low(x, bits) /\ reader'.m_numBitsRead = base + bits
  BY <1>1, <1>2, <1>4 DEF Taken
<1> QED
  BY <1>1, <1>4, <1>7, <1>8, <1>9

-----------------------------------------------------------------------------
(* What the reader accepts. *)

Accepted(f, value) == value \in IF f.kind = "int" THEN f.min .. f.max ELSE Value(f)

\* The history is well formed, and a trapped reader was asked for bits.
Shape ==
  /\ outcome \in {"running", "refused", "trapped"}
  /\ fields \in Seq(Field) /\ wanted \in Seq(Field)
  /\ values \in Seq(Int) /\ got \in Seq(Int)
  /\ Len(values) = Len(fields)
  /\ Len(got) <= Len(wanted)
  /\ outcome = "running" /\ ~trapped => Len(got) = Len(wanted)
  /\ \A i \in 1 .. Len(got) : Accepted(wanted[i], got[i])
  /\ ~flushed => wanted = <<>>
  /\ flushed /\ trapped => wanted # <<>> /\ wanted[Len(wanted)].kind = "bits"

\* Streams that nothing was done with, on a buffer that may hold anything.
StreamFresh ==
  /\ Fresh
  /\ outcome = "running"
  /\ fields = <<>> /\ values = <<>>
  /\ wanted = <<>> /\ got = <<>>

LEMMA InitIsFresh == StreamInit => StreamFresh
  BY PackerAssumption DEF StreamInit, Init, StreamFresh, Fresh

LEMMA InitShape == StreamFresh => Shape
  BY EmptySeq DEF StreamFresh, Fresh, Shape

(* Values are integers.                                                      *)
LEMMA ValuesAreInts ==
  ASSUME NEW f \in Field, NEW value \in Value(f)
  PROVE  value \in Int
<1>1. PICK b \in 1 .. W : b = Bits(f)
  BY FieldFits
<1>2. Pow2[b] \in Nat /\ int32 \subseteq Int
  BY Sizes, Powers, Halves
<1>3. f.kind # "int" => b = f.bits
  BY <1>1 DEF Bits
<1> QED
  BY <1>2, <1>3 DEF Value

(* Writing leaves the reader's side alone.                                   *)
LEMMA WriteShape ==
  ASSUME Shape, NEW f \in Field, NEW value \in Value(f), WriteField(f, value)
  PROVE  Shape'
<1>1. value \in Int
  BY ValuesAreInts
<1>2. /\ fields \in Seq(Field) /\ values \in Seq(Int) /\ Len(values) = Len(fields)
      /\ UNCHANGED <<wanted, got>> /\ outcome = "running"
  BY DEF Shape, WriteField
<1>3. UNCHANGED flushed /\ ~flushed
  BY DEF WriteField, WriteBits, vars
<1>4. wanted = <<>> /\ got \in Seq(Int) /\ Len(wanted) = 0 /\ Len(got) \in Nat
      /\ Len(got) <= 0
  BY <1>3, EmptySeq, LenProperties DEF Shape
<1>5. /\ fields' \in Seq(Field) /\ values' \in Seq(Int) /\ Len(values') = Len(fields')
      /\ outcome' \in {"running", "trapped"}
  <2>1. CASE fields' = Append(fields, f) /\ values' = Append(values, value)
             /\ UNCHANGED outcome
    BY <1>1, <1>2, <2>1, AppendProperties
  <2>2. CASE UNCHANGED <<fields, values>> /\ outcome' = "trapped"
    BY <1>2, <2>2
  <2> QED
    BY <2>1, <2>2 DEF WriteField
<1> QED
  BY <1>2, <1>3, <1>4, <1>5 DEF Shape

(* The flush ends it.                                                        *)
LEMMA FlushShape ==
  ASSUME Shape, Flush
  PROVE  Shape'
<1>1. UNCHANGED <<outcome, fields, values, wanted, got>> /\ ~flushed /\ ~trapped
      /\ (flushed' => ~trapped')
  BY DEF Flush, FlushScratch
<1> QED
  BY <1>1 DEF Shape

(* The value of a field read, before the check of its range.                 *)
LEMMA ReadValue ==
  ASSUME NEW f \in Field, NEW bits \in Seq(Bit), Len(bits) = Bits(f),
         NEW value, value = ShiftedBack(f, Number(bits))
  PROVE  /\ value \in Int
         /\ InRange(f, value) => Accepted(f, value)
<1>1. PICK b \in 1 .. W : b = Bits(f)
  BY FieldFits
<1>2. PICK u \in Int : u = Number(bits) /\ u \in 0 .. Pow2[b] - 1
  <2>1. Pow2[b] \in Nat
    BY Sizes, Powers
  <2>2. Len(bits) <= W /\ Len(bits) = b
    BY <1>1, Sizes
  <2> QED
    BY <2>1, <2>2, NumberBelow
<1>3. CASE f \in IntField
  <2>1. f.kind = "int" /\ f.min \in Int /\ f.max \in Int
    BY <1>3, Halves DEF IntField
  <2>2. \A x \in Int : ToSigned(x) \in Int
    BY Halves DEF ToSigned
  <2>3. \A x \in Int : ToUnsigned(x) \in Int
    <3>1. UINT32_MOD \in Int
      BY Halves
    <3> QED
      BY <3>1, Converted
  <2>4. value \in Int
    <3>1. PICK y \in Int : y = ToSigned(u)
      BY <1>2, <2>2
    <3>2. PICK z \in Int : z = f.min
      BY <2>1
    <3>3. y + z \in Int
      OBVIOUS
    <3>4. ToSigned(u) + f.min \in Int
      BY <3>1, <3>2, <3>3
    <3>5. ToUnsigned(ToSigned(u) + f.min) \in Int
      BY <2>3, <3>4
    <3>6. ToSigned(ToUnsigned(ToSigned(u) + f.min)) \in Int
      BY <2>2, <3>5
    <3> QED
      BY <1>2, <2>1, <3>6 DEF ShiftedBack
  <2> QED
    BY <2>1, <2>4 DEF InRange, Accepted
<1>4. CASE f \in BitsField
  <2>1. f.kind # "int"
    BY <1>4 DEF BitsField
  <2>2. value = u /\ b = f.bits
    BY <1>1, <1>2, <2>1 DEF ShiftedBack, Bits
  <2> QED
    BY <1>2, <2>1, <2>2 DEF Accepted, Value
<1> QED
  BY <1>3, <1>4, StreamAssumption

(* What becomes of a field that is asked for: it is refused, or a trap of    *)
(* the packer fails, or a value comes out that is checked.                   *)
LEMMA ReadFates ==
  ASSUME IInv, NEW f \in Field, ReadField(f)
  PROVE  /\ outcome = "running" /\ flushed /\ ~trapped
         /\ UNCHANGED <<fields, values, written, flushed>>
         /\ wanted' = Append(wanted, f)
         /\ \/ outcome' = "refused" /\ UNCHANGED <<got, trapped>>
            \/ trapped' /\ f.kind = "bits" /\ UNCHANGED <<outcome, got>>
            \/ \E value \in Int : /\ Accepted(f, value)
                                  /\ got' = Append(got, value)
                                  /\ UNCHANGED <<outcome, trapped>>
<1>1. /\ outcome = "running" /\ flushed /\ ~trapped /\ wanted' = Append(wanted, f)
      /\ UNCHANGED <<fields, values>>
  BY DEF ReadField
<1>2. PICK b \in Width : b = Bits(f)
  BY FieldFits DEF Width, W
<1>3. CASE Refuses(f)
  <2>1. outcome' = "refused" /\ UNCHANGED <<vars, got>>
    BY <1>3 DEF ReadField
  <2> QED
    BY <1>1, <2>1 DEF vars, history
<1>4. CASE ~Refuses(f)
  <2>1. ReadBits(b) /\ IF trapped' THEN UNCHANGED <<outcome, got>>
                       ELSE Conclude(f, ShiftedBack(f, Number(output')))
    BY <1>2, <1>4 DEF ReadField
  <2>2. UNCHANGED <<written, flushed>>
    BY <2>1 DEF ReadBits
  <2>3. CASE CanRead(b)
    <3>1. UNCHANGED trapped /\ output' \in Seq(Bit) /\ Len(output') = b
      BY <2>1, <2>3, ReadReturns
    <3>2. PICK value : value = ShiftedBack(f, Number(output')) /\ Conclude(f, value)
      BY <1>1, <2>1, <3>1
    <3>3. value \in Int /\ (InRange(f, value) => Accepted(f, value))
      BY <1>2, <3>1, <3>2, ReadValue
    <3> QED
      BY <1>1, <2>2, <3>1, <3>2, <3>3 DEF Conclude
  <2>4. CASE ~CanRead(b)
    <3>1. trapped' /\ UNCHANGED <<outcome, got>>
      BY <2>1, <2>4 DEF ReadBits
    <3>2. f.kind # "int"
      <4>1. ~(reader.m_numBitsRead + b <= m_totalBits)
        BY <2>4, FittingIsRead
      <4>2. PICK n \in Nat, t \in Nat : n = reader.m_numBitsRead /\ t = m_totalBits
        BY Sizes DEF IInv, TypeOK, ReaderType
      <4>3. b \in Nat
        BY Sizes DEF Width
      <4>4. WouldReadPastEnd(b)
        BY <4>1, <4>2, <4>3 DEF WouldReadPastEnd
      <4> QED
        BY <1>2, <1>4, <4>4 DEF Refuses
    <3>3. f.kind = "bits"
      BY <3>2, FieldFits
    <3> QED
      BY <1>1, <2>2, <3>1, <3>3
  <2> QED
    BY <2>3, <2>4
<1> QED
  BY <1>3, <1>4

(* Reading keeps the shape.                                                  *)
LEMMA ReadShape ==
  ASSUME Shape, IInv, NEW f \in Field, ReadField(f)
  PROVE  Shape'
<1>1. /\ outcome = "running" /\ flushed /\ ~trapped
      /\ UNCHANGED <<fields, values, flushed>>
      /\ wanted' = Append(wanted, f)
  BY ReadFates
<1>2. /\ wanted \in Seq(Field) /\ got \in Seq(Int) /\ Len(got) = Len(wanted)
      /\ \A i \in 1 .. Len(got) : Accepted(wanted[i], got[i])
  BY <1>1 DEF Shape
<1>3. PICK n \in Nat : n = Len(wanted) /\ n = Len(got)
  BY <1>2, LenProperties
<1>4. /\ wanted' \in Seq(Field) /\ Len(wanted') = n + 1 /\ wanted' # <<>>
      /\ wanted'[n + 1] = f /\ \A i \in 1 .. n : wanted'[i] = wanted[i]
  BY <1>1, <1>2, <1>3, AppendProperties
<1>5. ASSUME outcome' = "refused" \/ (trapped' /\ f.kind = "bits" /\ UNCHANGED outcome),
             UNCHANGED got, ~trapped' \/ f.kind = "bits"
      PROVE  Shape'
  <2>1. \A i \in 1 .. Len(got') : Accepted(wanted'[i], got'[i])
    BY <1>2, <1>3, <1>4, <1>5
  <2>2. Len(got') <= Len(wanted')
    BY <1>3, <1>4, <1>5
  <2>3. ~(outcome' = "running" /\ ~trapped')
    BY <1>5
  <2>4. trapped' => wanted'[Len(wanted')].kind = "bits"
    BY <1>4, <1>5
  <2> QED
    BY <1>1, <1>2, <1>4, <1>5, <2>1, <2>2, <2>3, <2>4 DEF Shape
<1>6. ASSUME NEW value \in Int, Accepted(f, value), got' = Append(got, value),
             UNCHANGED <<outcome, trapped>>
      PROVE  Shape'
  <2>1. /\ got' \in Seq(Int) /\ Len(got') = n + 1
        /\ got'[n + 1] = value /\ \A i \in 1 .. n : got'[i] = got[i]
    BY <1>2, <1>3, <1>6, AppendProperties
  <2>2. ASSUME NEW i \in 1 .. n + 1 PROVE Accepted(wanted'[i], got'[i])
    <3>1. CASE i = n + 1
      BY <1>4, <1>6, <2>1, <3>1
    <3>2. CASE i # n + 1
      <4>1. i \in 1 .. n
        BY <3>2
      <4> QED
        BY <1>2, <1>3, <1>4, <2>1, <4>1
    <3> QED
      BY <3>1, <3>2
  <2> QED
    BY <1>1, <1>4, <1>6, <2>1, <2>2 DEF Shape
<1> QED
  BY <1>1, <1>5, <1>6, ReadFates

LEMMA NextShape ==
  ASSUME Shape, IInv, [StreamNext]_streamVars
  PROVE  Shape'
<1>1. CASE UNCHANGED streamVars
  BY <1>1 DEF streamVars, vars, Shape
<1> QED
  BY <1>1, WriteShape, FlushShape, ReadShape DEF StreamNext

LEMMA ShapeInvariance == StreamSpec => [](Shape /\ IInv)
<1>1. Shape /\ IInv /\ [StreamNext]_streamVars => Shape'
  BY NextShape
<1> QED
  BY <1>1, InitIsFresh, InitShape, PackerInvariance, PTL DEF StreamSpec

(* A value that the reader accepts lies in the range of its field, whatever  *)
(* the field and whatever bits arrived.                                      *)
THEOREM StreamsTypeCorrect == StreamSpec => []StreamTypeOK
<1>1. Shape /\ IInv => StreamTypeOK
  BY DEF Shape, Accepted, IInv, StreamTypeOK
<1> QED
  BY <1>1, ShapeInvariance, PTL

(* serialize_int never gets the reader as far as a trap, however short the   *)
(* buffer and whatever was read before.                                      *)
THEOREM IntegersNeverTrap == StreamSpec => []ShortIntegersAreRefused
<1>1. Shape => ShortIntegersAreRefused
  BY DEF Shape, ShortIntegersAreRefused
<1> QED
  BY <1>1, ShapeInvariance, PTL

-----------------------------------------------------------------------------
(* What was written is read back. *)

\* The value of f takes the bits of wr after the first a, up to the z-th.
Lies(f, value, a, z, wr) ==
  /\ z = a + Bits(f) /\ z <= Len(wr)
  /\ value \in Value(f) /\ InRange(f, value)
  /\ \A j \in 1 .. Bits(f) : wr[a + j] = ToWord(Shifted(f, value))[j - 1]

\* The fields written lie one behind the other, with ends at pos.
Placed(pos) ==
  /\ pos \in [0 .. Len(fields) -> Nat] /\ pos[0] = 0
  /\ Len(written) = pos[Len(fields)]
  /\ \A k \in 1 .. Len(fields) :
       Lies(fields[k], values[k], pos[k - 1], pos[k], written)

\* Follows, field by field.
Agrees ==
  Len(wanted) <= Len(fields) /\ \A k \in 1 .. Len(wanted) : wanted[k] = fields[k]

\* A reader that asks for the fields written stands where a field ends.
InPlace ==
  \E pos : Placed(pos) /\ (Agrees => reader.m_numBitsRead = pos[Len(wanted)])

Returned ==
  flushed /\ Agrees =>
    /\ outcome = "running" /\ ~trapped
    /\ \A k \in 1 .. Len(wanted) : got[k] = values[k]

(* A field stays where it lies when more is written.                         *)
LEMMA LiesStill ==
  ASSUME NEW f \in Field, NEW value, NEW a \in Nat, NEW z \in Nat,
         NEW wr \in Seq(Bit), NEW more \in Seq(Bit), Len(wr) <= Len(more),
         \A i \in 1 .. Len(wr) : more[i] = wr[i],
         Lies(f, value, a, z, wr)
  PROVE  Lies(f, value, a, z, more)
<1>1. PICK b \in Nat : b = Bits(f) /\ z = a + b /\ z <= Len(wr)
  BY FieldFits, Sizes DEF Lies
<1>2. Len(wr) \in Nat /\ Len(more) \in Nat
  BY LenProperties
<1>3. \A j \in 1 .. b : a + j \in 1 .. Len(wr)
  BY <1>1, <1>2
<1> QED
  BY <1>1, <1>2, <1>3 DEF Lies

(* A new field lies behind those already written.                            *)
LEMMA LiesBehind ==
  ASSUME NEW f \in Field, NEW value \in Value(f), InRange(f, value),
         NEW wr \in Seq(Bit), NEW more,
         more = wr \o Low(ToWord(Shifted(f, value)), Bits(f))
  PROVE  /\ more \in Seq(Bit) /\ Len(more) = Len(wr) + Bits(f)
         /\ \A i \in 1 .. Len(wr) : more[i] = wr[i]
         /\ Lies(f, value, Len(wr), Len(more), more)
<1>1. PICK b \in 1 .. W : b = Bits(f)
  BY FieldFits
<1>2. PICK w \in Word : w = ToWord(Shifted(f, value))
  BY WritesFit DEF Data
<1>3. /\ more \in Seq(Bit) /\ Len(more) = Len(wr) + b
      /\ \A i \in 1 .. Len(wr) : more[i] = wr[i]
      /\ \A i \in 1 .. b : more[Len(wr) + i] = w[i - 1]
  BY <1>1, <1>2, AppendedData
<1> QED
  BY <1>1, <1>2, <1>3, LenProperties DEF Lies

(* A reader at the start of a field gets its value.                          *)
LEMMA LiesRead ==
  ASSUME NEW f \in Field, NEW value, NEW a \in Nat, NEW z \in Nat,
         Lies(f, value, a, z, written), NEW bits \in Seq(Bit),
         Len(bits) = Bits(f),
         \A i \in 1 .. Bits(f) : a + i <= Len(written) => bits[i] = written[a + i],
         Len(written) \in Nat
  PROVE  ShiftedBack(f, Number(bits)) = value
<1>1. PICK b \in 1 .. W : b = Bits(f) /\ z = a + b /\ z <= Len(written)
  BY FieldFits DEF Lies
<1>2. /\ value \in Value(f) /\ InRange(f, value)
      /\ \A j \in 1 .. b : written[a + j] = ToWord(Shifted(f, value))[j - 1]
  BY <1>1 DEF Lies
<1>3. PICK u \in 0 .. Pow2[b] - 1 : u = Shifted(f, value) /\ ShiftedBack(f, u) = value
  BY <1>1, <1>2, FieldFits
<1>4. b \in Nat
  BY <1>1, Sizes
<1>5. \A i \in 1 .. b : a + i <= Len(written)
  BY <1>1, <1>4
<1>6. \A i \in 1 .. b : bits[i] = ToWord(u)[i - 1]
  BY <1>1, <1>2, <1>3, <1>5
<1>7. Number(bits) = u
  BY <1>1, <1>6, WordOf
<1> QED
  BY <1>3, <1>7

LEMMA InitInPlace == StreamFresh => InPlace /\ Returned
<1> SUFFICES ASSUME StreamFresh PROVE InPlace /\ Returned
  OBVIOUS
<1>1. /\ fields = <<>> /\ wanted = <<>> /\ written = <<>> /\ ~flushed
      /\ reader.m_numBitsRead = 0
  BY DEF StreamFresh, Fresh, NewReader
<1>2. Len(fields) = 0 /\ Len(wanted) = 0 /\ Len(written) = 0
  BY <1>1, EmptySeq
<1> DEFINE pos == [k \in 0 .. 0 |-> 0]
<1>3. pos \in [0 .. 0 -> Nat] /\ pos[0] = 0
  OBVIOUS
<1> HIDE DEF pos
<1>4. 1 .. 0 = {}
  OBVIOUS
<1>5. Placed(pos)
  BY <1>2, <1>3, <1>4 DEF Placed
<1> QED
  BY <1>1, <1>2, <1>3, <1>5 DEF InPlace, Returned

(* A write puts its field behind the others.                                 *)
LEMMA WriteInPlace ==
  ASSUME Shape, IInv, InPlace,
         NEW f \in Field, NEW value \in Value(f), WriteField(f, value)
  PROVE  InPlace' /\ Returned'
<1>1. ~flushed /\ ~flushed' /\ UNCHANGED <<wanted, reader>>
  BY DEF WriteField, WriteBits, vars
<1>2. wanted = <<>> /\ Len(wanted) = 0 /\ reader.m_numBitsRead = 0
  BY <1>1, EmptySeq DEF Shape, IInv, ReaderCounts
<1>3. PICK pos : Placed(pos)
  BY DEF InPlace
<1>4. PICK n \in Nat : n = Len(fields) /\ n = Len(values)
  BY LenProperties DEF Shape
<1>5. fields \in Seq(Field) /\ values \in Seq(Int) /\ written \in Seq(Bit)
  BY DEF Shape, IInv, TypeOK
<1>6. /\ pos \in [0 .. n -> Nat] /\ pos[0] = 0 /\ Len(written) = pos[n]
      /\ \A k \in 1 .. n : Lies(fields[k], values[k], pos[k - 1], pos[k], written)
  BY <1>3, <1>4 DEF Placed
<1>7. CASE InRange(f, value) /\ WriteBits(ToWord(Shifted(f, value)), Bits(f))
           /\ fields' = Append(fields, f) /\ values' = Append(values, value)
  <2>1. PICK more : more = written' /\ more = written \o Low(ToWord(Shifted(f, value)), Bits(f))
    BY <1>7 DEF WriteBits
  <2>2. PICK b \in Nat : b = Bits(f)
    BY FieldFits, Sizes
  <2>3. /\ more \in Seq(Bit) /\ Len(more) = pos[n] + b
        /\ \A i \in 1 .. Len(written) : more[i] = written[i]
        /\ Lies(f, value, pos[n], pos[n] + b, more)
    <3>1. /\ more \in Seq(Bit) /\ Len(more) = Len(written) + Bits(f)
          /\ \A i \in 1 .. Len(written) : more[i] = written[i]
          /\ Lies(f, value, Len(written), Len(more), more)
      BY <1>5, <1>7, <2>1, LiesBehind, Zenon
    <3>2. Len(more) = pos[n] + b
      BY <1>6, <2>2, <3>1
    <3> QED
      BY <1>6, <3>1, <3>2, Zenon
  <2> DEFINE ends == [k \in 0 .. n + 1 |-> IF k <= n THEN pos[k] ELSE pos[n] + b]
  <2>4. /\ ends \in [0 .. n + 1 -> Nat] /\ ends[0] = 0 /\ ends[n + 1] = pos[n] + b
        /\ \A k \in 0 .. n : ends[k] = pos[k]
    <3>1. PICK e \in Nat : e = pos[n] + b
      <4>1. pos[n] \in Nat
        BY <1>4, <1>6
      <4> QED
        BY <2>2, <4>1
    <3>2. n + 1 \in 0 .. n + 1 /\ ~(n + 1 <= n) /\ 0 \in 0 .. n
          /\ \A k \in 0 .. n : k \in 0 .. n + 1 /\ k <= n
      BY <1>4
    <3>3. \A k \in 0 .. n : pos[k] \in Nat
      BY <1>6
    <3>4. \A k \in 0 .. n + 1 : k <= n => k \in 0 .. n
      BY <1>4
    <3>5. ends \in [0 .. n + 1 -> Nat]
      BY <3>1, <3>3, <3>4
    <3> QED
      BY <1>6, <3>2, <3>5
  <2> HIDE DEF ends
  <2>5. /\ fields' \in Seq(Field) /\ Len(fields') = n + 1 /\ fields'[n + 1] = f
        /\ \A k \in 1 .. n : fields'[k] = fields[k]
    <3>1. fields' = Append(fields, f)
      BY <1>7
    <3>2. fields' \in Seq(Field) /\ Len(fields') = Len(fields) + 1
      BY <1>5, <3>1, AppendProperties
    <3>3. fields'[Len(fields) + 1] = f
      BY <1>5, <3>1, AppendProperties
    <3>4. \A i \in 1 .. Len(fields) : fields'[i] = fields[i]
      BY <1>5, <3>1, AppendProperties
    <3> QED
      BY <1>4, <3>2, <3>3, <3>4
  <2>6. value \in Int
    BY ValuesAreInts
  <2>7. values'[n + 1] = value /\ \A k \in 1 .. n : values'[k] = values[k]
    <3>1. values' = Append(values, value)
      BY <1>7
    <3> QED
      BY <1>4, <1>5, <2>6, <3>1, AppendProperties
  <2>8. ASSUME NEW k \in 1 .. n + 1
        PROVE  Lies(fields'[k], values'[k], ends[k - 1], ends[k], more)
    <3>1. CASE k = n + 1
      <4>1. ends[k - 1] = pos[n] /\ ends[k] = pos[n] + b
        BY <1>4, <2>4, <3>1
      <4> QED
        BY <2>3, <2>5, <2>7, <3>1, <4>1
    <3>2. CASE k # n + 1
      <4>1. k \in 1 .. n /\ k - 1 \in 0 .. n /\ k \in 0 .. n
        BY <3>2
      <4>2. /\ fields'[k] = fields[k] /\ values'[k] = values[k]
            /\ ends[k - 1] = pos[k - 1] /\ ends[k] = pos[k]
        BY <2>4, <2>5, <2>7, <4>1
      <4>3. fields[k] \in Field /\ pos[k - 1] \in Nat /\ pos[k] \in Nat
        BY <1>4, <1>5, <1>6, <4>1, ElementOfSeq
      <4>4. Len(written) <= Len(more)
        BY <1>4, <1>6, <2>2, <2>3
      <4>5. Lies(fields[k], values[k], pos[k - 1], pos[k], more)
        BY <1>5, <1>6, <2>3, <4>1, <4>3, <4>4, LiesStill
      <4> QED
        BY <4>2, <4>5
    <3> QED
      BY <3>1, <3>2
  <2>9. Placed(ends)'
    BY <2>1, <2>3, <2>4, <2>5, <2>8 DEF Placed
  <2>10. reader'.m_numBitsRead = ends[Len(wanted')]
    BY <1>1, <1>2, <2>4
  <2> QED
    BY <1>1, <2>9, <2>10 DEF InPlace, Returned
<1>8. CASE UNCHANGED <<vars, fields, values>>
  <2>1. Placed(pos)'
    BY <1>3, <1>8 DEF Placed, vars, history
  <2>2. reader'.m_numBitsRead = pos[Len(wanted')]
    BY <1>1, <1>2, <1>6
  <2> QED
    BY <1>1, <2>1, <2>2 DEF InPlace, Returned
<1> QED
  BY <1>7, <1>8 DEF WriteField

(* The flush starts the reader.                                              *)
LEMMA FlushInPlace ==
  ASSUME Shape, IInv, InPlace, Flush
  PROVE  InPlace' /\ Returned'
<1>1. /\ outcome = "running" /\ ~flushed
      /\ UNCHANGED <<reader, written, outcome, fields, values, wanted, got>>
      /\ flushed' => ~trapped'
  BY DEF Flush, FlushScratch
<1>2. wanted' = <<>> /\ Len(wanted') = 0
  BY <1>1, EmptySeq DEF Shape
<1>3. 1 .. 0 = {}
  OBVIOUS
<1>4. InPlace'
  BY <1>1 DEF InPlace, Placed, Agrees
<1>5. Returned'
  BY <1>1, <1>2, <1>3 DEF Returned
<1> QED
  BY <1>4, <1>5

(* A read of the next field written returns its value.                       *)
LEMMA ReadInPlace ==
  ASSUME Shape, IInv, InPlace, Returned, NEW f \in Field, ReadField(f)
  PROVE  InPlace' /\ Returned'
<1>1. /\ outcome = "running" /\ flushed /\ ~trapped
      /\ UNCHANGED <<fields, values, written, flushed>>
      /\ wanted' = Append(wanted, f)
  BY ReadFates
<1>2. PICK pos : Placed(pos) /\ (Agrees => reader.m_numBitsRead = pos[Len(wanted)])
  BY DEF InPlace
<1>3. Placed(pos)'
  BY <1>1, <1>2 DEF Placed
<1>4. PICK n \in Nat : n = Len(wanted) /\ n = Len(got)
  BY <1>1, LenProperties DEF Shape
<1>5. /\ wanted \in Seq(Field) /\ wanted' \in Seq(Field) /\ got \in Seq(Int)
      /\ Len(wanted') = n + 1 /\ wanted'[n + 1] = f
      /\ \A i \in 1 .. n : wanted'[i] = wanted[i]
  <2>1. wanted \in Seq(Field) /\ got \in Seq(Int)
    BY DEF Shape
  <2>2. wanted' = Append(wanted, f)
    BY <1>1
  <2>3. wanted' \in Seq(Field) /\ Len(wanted') = Len(wanted) + 1
    BY <2>1, <2>2, AppendProperties
  <2>4. wanted'[Len(wanted) + 1] = f
    BY <2>1, <2>2, AppendProperties
  <2>5. \A i \in 1 .. Len(wanted) : wanted'[i] = wanted[i]
    BY <2>1, <2>2, AppendProperties
  <2> QED
    BY <1>4, <2>1, <2>3, <2>4, <2>5
<1> DEFINE Good == /\ reader'.m_numBitsRead = pos[n + 1]
                   /\ outcome' = "running" /\ ~trapped'
                   /\ \A k \in 1 .. n + 1 : got'[k] = values[k]
<1>a. (Agrees' => Good) => InPlace' /\ Returned'
  <2>1. (Agrees' => Good) => InPlace'
    BY <1>3, <1>5 DEF InPlace
  <2>2. (Agrees' => Good) => Returned'
    BY <1>1, <1>5 DEF Returned
  <2> QED
    BY <2>1, <2>2
<1> HIDE DEF Good
<1> SUFFICES ASSUME Agrees' PROVE Good
  BY <1>a
<1>6. /\ n + 1 <= Len(fields) /\ Len(fields) \in Nat /\ fields[n + 1] = f
      /\ \A k \in 1 .. n : wanted[k] = fields[k]
  <2>1. /\ n + 1 <= Len(fields)
        /\ \A k \in 1 .. n + 1 : wanted'[k] = fields[k]
    BY <1>1, <1>5 DEF Agrees
  <2>2. n + 1 \in 1 .. n + 1 /\ \A k \in 1 .. n : k \in 1 .. n + 1
    OBVIOUS
  <2>3. Len(fields) \in Nat
    BY LenProperties DEF Shape
  <2> QED
    BY <1>5, <2>1, <2>2, <2>3
<1>7. Agrees
  BY <1>4, <1>6 DEF Agrees
<1>8. PICK a \in Nat, z \in Nat, b \in Width :
        /\ a = pos[n] /\ z = pos[n + 1] /\ b = Bits(f)
        /\ Lies(f, values[n + 1], a, z, written)
  <2>1. n + 1 \in 1 .. Len(fields) /\ n \in 0 .. Len(fields) /\ (n + 1) - 1 = n
        /\ n + 1 \in 0 .. Len(fields)
    BY <1>6
  <2>2. pos[n] \in Nat /\ pos[n + 1] \in Nat
    BY <1>2, <2>1 DEF Placed
  <2>3. Lies(fields[n + 1], values[n + 1], pos[n], pos[n + 1], written)
    BY <1>2, <2>1 DEF Placed
  <2>4. Bits(f) \in Width
    BY FieldFits DEF Width, W
  <2> QED
    BY <1>6, <2>2, <2>3, <2>4
<1>9. /\ reader.m_numBitsRead = a /\ b \in Nat /\ z = a + b /\ z <= Len(written)
      /\ InRange(f, values[n + 1]) /\ Len(written) \in Nat /\ m_totalBits \in Nat
      /\ Len(written) <= m_totalBits
  <2>1. written \in Seq(Bit) /\ Len(written) <= m_totalBits
    BY <1>1 DEF IInv, TypeOK, TrapsExactlyTheOversized
  <2> QED
    BY <1>2, <1>4, <1>7, <1>8, <2>1, Sizes, LenProperties DEF Lies, Width
<1>10. a + b <= m_totalBits
  BY <1>8, <1>9
<1>11. ~Refuses(f)
  BY <1>8, <1>9, <1>10 DEF Refuses, WouldReadPastEnd
<1>12. ReadBits(b) /\ IF trapped' THEN UNCHANGED <<outcome, got>>
                      ELSE Conclude(f, ShiftedBack(f, Number(output')))
  BY <1>8, <1>11 DEF ReadField
<1>13. CanRead(b)
  BY <1>9, <1>10, FittingIsRead
<1>14. /\ output' \in Seq(Bit) /\ Len(output') = b
       /\ reader'.m_numBitsRead = a + b
       /\ \A i \in 1 .. b : a + i <= Len(written) => output'[i] = written[a + i]
       /\ UNCHANGED trapped
  BY <1>9, <1>12, <1>13, ReadReturns
<1>15. ShiftedBack(f, Number(output')) = values[n + 1]
  <2>1. PICK value : value = values[n + 1] /\ Lies(f, value, a, z, written)
    BY <1>8
  <2>2. PICK bits : /\ bits = output' /\ bits \in Seq(Bit) /\ Len(bits) = Bits(f)
                    /\ \A i \in 1 .. Bits(f) : a + i <= Len(written)
                                                 => bits[i] = written[a + i]
    BY <1>8, <1>14
  <2>3. ShiftedBack(f, Number(bits)) = value
    BY <1>9, <2>1, <2>2, LiesRead, Zenon
  <2> QED
    BY <2>1, <2>2, <2>3
<1>16. got' = Append(got, values[n + 1]) /\ UNCHANGED outcome
  BY <1>1, <1>9, <1>12, <1>14, <1>15 DEF Conclude
<1>17. \A k \in 1 .. n + 1 : got'[k] = values[k]
  <2>1. got'[n + 1] = values[n + 1] /\ \A k \in 1 .. n : got'[k] = got[k]
    <3>1. values[n + 1] \in Int
      BY <1>6, ElementOfSeq DEF Shape
    <3> QED
      BY <1>4, <1>5, <1>16, <3>1, AppendProperties
  <2>2. \A k \in 1 .. n : got[k] = values[k]
    BY <1>1, <1>4, <1>7 DEF Returned
  <2>3. \A k \in 1 .. n + 1 : k \in 1 .. n \/ k = n + 1
    OBVIOUS
  <2> QED
    BY <2>1, <2>2, <2>3
<1> QED
  BY <1>1, <1>8, <1>9, <1>14, <1>16, <1>17 DEF Good

(* The fields lie in place and come back, along every behaviour.             *)
LEMMA PlaceInvariance == StreamSpec => [](Shape /\ IInv /\ InPlace /\ Returned)
<1>1. Shape /\ IInv /\ InPlace /\ Returned /\ [StreamNext]_streamVars
        => InPlace' /\ Returned'
  <2> SUFFICES ASSUME Shape, IInv, InPlace, Returned, [StreamNext]_streamVars
               PROVE  InPlace' /\ Returned'
    OBVIOUS
  <2>1. CASE UNCHANGED streamVars
    BY <2>1 DEF streamVars, vars, history, InPlace, Placed, Agrees, Returned
  <2> QED
    BY <2>1, WriteInPlace, FlushInPlace, ReadInPlace DEF StreamNext
<1> QED
  BY <1>1, InitIsFresh, InitInPlace, ShapeInvariance, PTL DEF StreamSpec

(* A reader that asks for the fields that were written gets the values that  *)
(* were written, whatever fields, ranges and values, and is never stopped.   *)
THEOREM WrittenIsReadBack == StreamSpec => []RoundTrip
<1>1. Shape /\ IInv /\ InPlace /\ Returned => RoundTrip
  <2> SUFFICES ASSUME Shape, Returned, flushed, Follows
               PROVE  /\ outcome = "running" /\ ~trapped
                      /\ got = SubSeq(values, 1, Len(wanted))
    BY DEF RoundTrip
  <2>1. PICK n \in Nat : n = Len(wanted)
    BY LenProperties DEF Shape
  <2>2. n <= Len(fields) /\ Len(fields) \in Nat /\ Len(values) = Len(fields)
    BY <2>1, LenProperties DEF Follows, Shape
  <2>3. \A k \in 1 .. n : wanted[k] = fields[k]
    <3>1. wanted = SubSeq(fields, 1, n)
      BY <2>1 DEF Follows
    <3>2. \A k \in 1 .. n : SubSeq(fields, 1, n)[k] = fields[k]
      BY <2>2
    <3> QED
      BY <3>1, <3>2
  <2>4. Agrees
    BY <2>1, <2>2, <2>3 DEF Agrees
  <2>5. /\ outcome = "running" /\ ~trapped /\ Len(got) = n
        /\ \A k \in 1 .. n : got[k] = values[k]
    BY <2>1, <2>4 DEF Returned, Shape
  <2>6. got = SubSeq(values, 1, n)
    <3> DEFINE front == SubSeq(values, 1, n)
    <3>1. /\ front \in Seq(Int) /\ Len(front) = n
          /\ \A k \in 1 .. n : front[k] = values[k]
      BY <2>2 DEF Shape
    <3> HIDE DEF front
    <3>2. got = front
      BY <2>5, <3>1, SeqEqual DEF Shape
    <3> QED
      BY <3>2 DEF front
  <2> QED
    BY <2>1, <2>5, <2>6
<1> QED
  BY <1>1, PlaceInvariance, PTL
=============================================================================
